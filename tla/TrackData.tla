------------------------------ MODULE TrackData ------------------------------
(***************************************************************************)
(* The two train sets of the lab, as src/src/trains/track_data.cpp lists   *)
(* them: for every node its type, the number of its switch, the node for   *)
(* the same place in the other direction, and its outgoing edges.          *)
(*                                                                         *)
(* A track is a sequence: node n of the C array is element n + 1.  The     *)
(* name of a node is its comment here.  Sensors are the nodes 0..79 (A1 is *)
(* 0, A2 is 1, ..., E16 is 79); then come branches and merges by turns,    *)
(* then entries and exits by turns.                                        *)
(***************************************************************************)
EXTENDS Naturals, Sequences

\* An edge: where it leads, how long it is in mm, and the edge for the same
\* rail in the other direction, named by its source and its index there.
E(dest, dist, src, dir) == [dest |-> dest, dist |-> dist, rev |-> <<src, dir>>]

\* The array is cleared first: a node without edges reads length 0.
TrackNode(type, num, reverse, edges) ==
  [type |-> type, num |-> num, reverse |-> reverse, edge |-> edges]

Sensor(r, e)          == TrackNode("SENSOR", 0, r, <<e>>)
Branch(num, r, s, c)  == TrackNode("BRANCH", num, r, <<s, c>>)  \* straight, curved
Merge(num, r, e)      == TrackNode("MERGE", num, r, <<e>>)
Enter(r, e)           == TrackNode("ENTER", 0, r, <<e>>)
Exit(r)               == TrackNode("EXIT", 0, r, <<>>)

(* init_tracka: the nodes of track A in the order of their index. *)
TrackA_0 ==  \* A1 .. A15
  <<Sensor(1, E(103, 231, 102, 0)), Sensor(0, E(133, 504, 132, 0)),
    Sensor(3, E(106, 43, 107, 0)), Sensor(2, E(31, 437, 30, 0)),
    Sensor(5, E(85, 231, 84, 0)), Sensor(4, E(25, 642, 24, 0)),
    Sensor(7, E(27, 470, 26, 0)), Sensor(6, E(83, 229, 82, 1)),
    Sensor(9, E(23, 289, 22, 0)), Sensor(8, E(81, 229, 80, 1)),
    Sensor(11, E(81, 518, 80, 0)), Sensor(10, E(139, 43, 138, 0)),
    Sensor(13, E(87, 236, 86, 1)), Sensor(12, E(131, 325, 130, 0)),
    Sensor(15, E(135, 144, 134, 0))>>
TrackA_15 ==  \* A16 .. B14
  <<Sensor(14, E(87, 417, 86, 0)), Sensor(17, E(61, 404, 60, 0)),
    Sensor(16, E(111, 231, 110, 0)), Sensor(19, E(33, 201, 32, 0)),
    Sensor(18, E(111, 239, 110, 1)), Sensor(21, E(50, 404, 51, 0)),
    Sensor(20, E(105, 231, 104, 0)), Sensor(23, E(9, 289, 8, 0)),
    Sensor(22, E(137, 43, 136, 0)), Sensor(25, E(4, 642, 5, 0)),
    Sensor(24, E(141, 50, 140, 0)), Sensor(27, E(7, 470, 6, 0)),
    Sensor(26, E(143, 50, 142, 0)), Sensor(29, E(119, 239, 118, 1)),
    Sensor(28, E(63, 201, 62, 0))>>
TrackA_30 ==  \* B15 .. C13
  <<Sensor(31, E(2, 437, 3, 0)), Sensor(30, E(108, 50, 109, 0)),
    Sensor(33, E(19, 201, 18, 0)), Sensor(32, E(117, 246, 116, 1)),
    Sensor(35, E(129, 514, 128, 0)), Sensor(34, E(89, 239, 88, 0)),
    Sensor(37, E(90, 61, 91, 0)), Sensor(36, E(109, 433, 108, 0)),
    Sensor(39, E(115, 231, 114, 0)), Sensor(38, E(84, 128, 85, 0)),
    Sensor(41, E(109, 326, 108, 1)), Sensor(40, E(110, 128, 111, 0)),
    Sensor(43, E(104, 120, 105, 0)), Sensor(42, E(107, 333, 106, 1)),
    Sensor(45, E(70, 875, 71, 0))>>
TrackA_45 ==  \* C14 .. D12
  <<Sensor(44, E(100, 43, 101, 0)), Sensor(47, E(59, 404, 58, 0)),
    Sensor(46, E(91, 239, 90, 0)), Sensor(49, E(121, 246, 120, 1)),
    Sensor(48, E(67, 201, 66, 0)), Sensor(51, E(99, 239, 98, 0)),
    Sensor(50, E(21, 404, 20, 0)), Sensor(53, E(69, 377, 68, 0)),
    Sensor(52, E(97, 232, 96, 1)), Sensor(55, E(97, 309, 96, 0)),
    Sensor(54, E(71, 377, 70, 0)), Sensor(57, E(75, 370, 74, 0)),
    Sensor(56, E(95, 316, 94, 0)), Sensor(59, E(47, 404, 46, 0)),
    Sensor(58, E(93, 231, 92, 0))>>
TrackA_60 ==  \* D13 .. E11
  <<Sensor(61, E(17, 404, 16, 0)), Sensor(60, E(113, 239, 112, 0)),
    Sensor(63, E(28, 201, 29, 0)), Sensor(62, E(113, 246, 112, 1)),
    Sensor(65, E(123, 239, 122, 1)), Sensor(64, E(78, 201, 79, 0)),
    Sensor(67, E(48, 201, 49, 0)), Sensor(66, E(99, 239, 98, 1)),
    Sensor(69, E(53, 377, 52, 0)), Sensor(68, E(98, 50, 99, 0)),
    Sensor(71, E(54, 377, 55, 0)), Sensor(70, E(45, 875, 44, 0)),
    Sensor(73, E(95, 239, 94, 1)), Sensor(72, E(76, 377, 77, 0)),
    Sensor(75, E(57, 370, 56, 0))>>
TrackA_75 ==  \* E12 .. MR4
  <<Sensor(74, E(92, 50, 93, 0)), Sensor(77, E(112, 43, 113, 0)),
    Sensor(76, E(72, 377, 73, 0)), Sensor(79, E(105, 246, 104, 1)),
    Sensor(78, E(64, 201, 65, 0)),
    Branch(1, 81, E(11, 518, 10, 0), E(8, 229, 9, 0)),
    Merge(1, 80, E(83, 188, 82, 0)),
    Branch(2, 83, E(80, 188, 81, 0), E(6, 229, 7, 0)),
    Merge(2, 82, E(85, 185, 84, 1)),
    Branch(3, 85, E(5, 231, 4, 0), E(82, 185, 83, 0)),
    Merge(3, 84, E(38, 128, 39, 0)),
    Branch(4, 87, E(14, 417, 15, 0), E(13, 236, 12, 0)),
    Merge(4, 86, E(103, 185, 102, 1))>>
TrackA_88 ==  \* BR5 .. MR10
  <<Branch(5, 89, E(34, 239, 35, 0), E(93, 371, 92, 1)),
    Merge(5, 88, E(114, 155, 115, 0)),
    Branch(6, 91, E(46, 239, 47, 0), E(115, 371, 114, 1)),
    Merge(6, 90, E(37, 61, 36, 0)),
    Branch(7, 93, E(58, 231, 59, 0), E(89, 371, 88, 1)),
    Merge(7, 92, E(74, 50, 75, 0)),
    Branch(8, 95, E(56, 316, 57, 0), E(73, 239, 72, 0)),
    Merge(8, 94, E(96, 155, 97, 0)),
    Branch(9, 97, E(55, 309, 54, 0), E(52, 232, 53, 0)),
    Merge(9, 96, E(94, 155, 95, 0)),
    Branch(10, 99, E(51, 239, 50, 0), E(66, 239, 67, 0)),
    Merge(10, 98, E(68, 50, 69, 0))>>
TrackA_100 ==  \* BR11 .. MR16
  <<Branch(11, 101, E(102, 188, 103, 0), E(107, 495, 106, 0)),
    Merge(11, 100, E(44, 43, 45, 0)),
    Branch(12, 103, E(1, 231, 0, 0), E(86, 185, 87, 0)),
    Merge(12, 102, E(101, 188, 100, 0)),
    Branch(13, 105, E(20, 231, 21, 0), E(79, 246, 78, 0)),
    Merge(13, 104, E(43, 120, 42, 0)),
    Branch(14, 107, E(101, 495, 100, 1), E(42, 333, 43, 0)),
    Merge(14, 106, E(3, 43, 2, 0)),
    Branch(15, 109, E(36, 433, 37, 0), E(41, 326, 40, 0)),
    Merge(15, 108, E(30, 50, 31, 0)),
    Branch(16, 111, E(16, 231, 17, 0), E(18, 239, 19, 0)),
    Merge(16, 110, E(40, 128, 41, 0))>>
TrackA_112 ==  \* BR17 .. MR156
  <<Branch(17, 113, E(60, 239, 61, 0), E(62, 246, 63, 0)),
    Merge(17, 112, E(77, 43, 76, 0)),
    Branch(18, 115, E(39, 231, 38, 0), E(91, 371, 90, 1)),
    Merge(18, 114, E(88, 155, 89, 0)),
    Branch(153, 117, E(125, 283, 124, 0), E(32, 246, 33, 0)),
    Merge(153, 116, E(119, 0, 118, 0)),
    Branch(154, 119, E(116, 0, 117, 0), E(29, 239, 28, 0)),
    Merge(154, 118, E(122, 0, 123, 0)),
    Branch(155, 121, E(127, 282, 126, 0), E(49, 246, 48, 0)),
    Merge(155, 120, E(123, 0, 122, 0)),
    Branch(156, 123, E(120, 0, 121, 0), E(65, 239, 64, 0)),
    Merge(156, 122, E(118, 0, 119, 0))>>
TrackA_124 ==  \* EN1 .. EX10
  <<Enter(125, E(117, 283, 116, 0)), Exit(124), Enter(127, E(121, 282, 120, 0)),
    Exit(126), Enter(129, E(35, 514, 34, 0)), Exit(128),
    Enter(131, E(12, 325, 13, 0)), Exit(130), Enter(133, E(0, 504, 1, 0)),
    Exit(132), Enter(135, E(15, 144, 14, 0)), Exit(134),
    Enter(137, E(22, 43, 23, 0)), Exit(136), Enter(139, E(10, 43, 11, 0)),
    Exit(138), Enter(141, E(24, 50, 25, 0)), Exit(140),
    Enter(143, E(26, 50, 27, 0)), Exit(142)>>

TrackA ==
  TrackA_0 \o TrackA_15 \o TrackA_30 \o TrackA_45 \o TrackA_60 \o TrackA_75
    \o TrackA_88 \o TrackA_100 \o TrackA_112 \o TrackA_124

(* init_trackb: the nodes of track B in the order of their index. *)
TrackB_0 ==  \* A1 .. A15
  <<Sensor(1, E(103, 231, 102, 0)), Sensor(0, E(133, 504, 132, 0)),
    Sensor(3, E(106, 43, 107, 0)), Sensor(2, E(31, 437, 30, 0)),
    Sensor(5, E(85, 231, 84, 0)), Sensor(4, E(25, 642, 24, 0)),
    Sensor(7, E(27, 470, 26, 0)), Sensor(6, E(83, 229, 82, 1)),
    Sensor(9, E(23, 289, 22, 0)), Sensor(8, E(81, 229, 80, 1)),
    Sensor(11, E(81, 282, 80, 0)), Sensor(10, E(15, 814, 14, 0)),
    Sensor(13, E(87, 236, 86, 1)), Sensor(12, E(131, 325, 130, 0)),
    Sensor(15, E(10, 814, 11, 0))>>
TrackB_15 ==  \* A16 .. B14
  <<Sensor(14, E(87, 275, 86, 0)), Sensor(17, E(61, 404, 60, 0)),
    Sensor(16, E(111, 231, 110, 0)), Sensor(19, E(33, 201, 32, 0)),
    Sensor(18, E(111, 239, 110, 1)), Sensor(21, E(50, 404, 51, 0)),
    Sensor(20, E(105, 231, 104, 0)), Sensor(23, E(9, 289, 8, 0)),
    Sensor(22, E(135, 43, 134, 0)), Sensor(25, E(4, 642, 5, 0)),
    Sensor(24, E(137, 50, 136, 0)), Sensor(27, E(7, 470, 6, 0)),
    Sensor(26, E(139, 50, 138, 0)), Sensor(29, E(119, 239, 118, 1)),
    Sensor(28, E(63, 201, 62, 0))>>
TrackB_30 ==  \* B15 .. C13
  <<Sensor(31, E(2, 437, 3, 0)), Sensor(30, E(108, 50, 109, 0)),
    Sensor(33, E(19, 201, 18, 0)), Sensor(32, E(117, 246, 116, 1)),
    Sensor(35, E(129, 514, 128, 0)), Sensor(34, E(89, 239, 88, 0)),
    Sensor(37, E(90, 61, 91, 0)), Sensor(36, E(109, 433, 108, 0)),
    Sensor(39, E(115, 231, 114, 0)), Sensor(38, E(84, 128, 85, 0)),
    Sensor(41, E(109, 326, 108, 1)), Sensor(40, E(110, 128, 111, 0)),
    Sensor(43, E(104, 120, 105, 0)), Sensor(42, E(107, 333, 106, 1)),
    Sensor(45, E(70, 875, 71, 0))>>
TrackB_45 ==  \* C14 .. D12
  <<Sensor(44, E(100, 43, 101, 0)), Sensor(47, E(59, 404, 58, 0)),
    Sensor(46, E(91, 239, 90, 0)), Sensor(49, E(121, 246, 120, 1)),
    Sensor(48, E(67, 201, 66, 0)), Sensor(51, E(99, 239, 98, 0)),
    Sensor(50, E(21, 404, 20, 0)), Sensor(53, E(69, 377, 68, 0)),
    Sensor(52, E(97, 232, 96, 1)), Sensor(55, E(97, 309, 96, 0)),
    Sensor(54, E(71, 377, 70, 0)), Sensor(57, E(75, 370, 74, 0)),
    Sensor(56, E(95, 316, 94, 0)), Sensor(59, E(47, 404, 46, 0)),
    Sensor(58, E(93, 231, 92, 0))>>
TrackB_60 ==  \* D13 .. E11
  <<Sensor(61, E(17, 404, 16, 0)), Sensor(60, E(113, 239, 112, 0)),
    Sensor(63, E(28, 201, 29, 0)), Sensor(62, E(113, 246, 112, 1)),
    Sensor(65, E(123, 239, 122, 1)), Sensor(64, E(78, 201, 79, 0)),
    Sensor(67, E(48, 201, 49, 0)), Sensor(66, E(99, 239, 98, 1)),
    Sensor(69, E(53, 377, 52, 0)), Sensor(68, E(98, 50, 99, 0)),
    Sensor(71, E(54, 377, 55, 0)), Sensor(70, E(45, 875, 44, 0)),
    Sensor(73, E(95, 239, 94, 1)), Sensor(72, E(76, 377, 77, 0)),
    Sensor(75, E(57, 370, 56, 0))>>
TrackB_75 ==  \* E12 .. MR4
  <<Sensor(74, E(92, 50, 93, 0)), Sensor(77, E(112, 43, 113, 0)),
    Sensor(76, E(72, 377, 73, 0)), Sensor(79, E(105, 246, 104, 1)),
    Sensor(78, E(64, 201, 65, 0)),
    Branch(1, 81, E(11, 282, 10, 0), E(8, 229, 9, 0)),
    Merge(1, 80, E(83, 188, 82, 0)),
    Branch(2, 83, E(80, 188, 81, 0), E(6, 229, 7, 0)),
    Merge(2, 82, E(85, 185, 84, 1)),
    Branch(3, 85, E(5, 231, 4, 0), E(82, 185, 83, 0)),
    Merge(3, 84, E(38, 128, 39, 0)),
    Branch(4, 87, E(14, 275, 15, 0), E(13, 236, 12, 0)),
    Merge(4, 86, E(103, 185, 102, 1))>>
TrackB_88 ==  \* BR5 .. MR10
  <<Branch(5, 89, E(34, 239, 35, 0), E(93, 371, 92, 1)),
    Merge(5, 88, E(114, 155, 115, 0)),
    Branch(6, 91, E(46, 239, 47, 0), E(115, 371, 114, 1)),
    Merge(6, 90, E(37, 61, 36, 0)),
    Branch(7, 93, E(58, 231, 59, 0), E(89, 371, 88, 1)),
    Merge(7, 92, E(74, 50, 75, 0)),
    Branch(8, 95, E(56, 316, 57, 0), E(73, 239, 72, 0)),
    Merge(8, 94, E(96, 155, 97, 0)),
    Branch(9, 97, E(55, 309, 54, 0), E(52, 232, 53, 0)),
    Merge(9, 96, E(94, 155, 95, 0)),
    Branch(10, 99, E(51, 239, 50, 0), E(66, 239, 67, 0)),
    Merge(10, 98, E(68, 50, 69, 0))>>
TrackB_100 ==  \* BR11 .. MR16
  <<Branch(11, 101, E(102, 188, 103, 0), E(107, 495, 106, 0)),
    Merge(11, 100, E(44, 43, 45, 0)),
    Branch(12, 103, E(1, 231, 0, 0), E(86, 185, 87, 0)),
    Merge(12, 102, E(101, 188, 100, 0)),
    Branch(13, 105, E(20, 231, 21, 0), E(79, 246, 78, 0)),
    Merge(13, 104, E(43, 120, 42, 0)),
    Branch(14, 107, E(101, 495, 100, 1), E(42, 333, 43, 0)),
    Merge(14, 106, E(3, 43, 2, 0)),
    Branch(15, 109, E(36, 433, 37, 0), E(41, 326, 40, 0)),
    Merge(15, 108, E(30, 50, 31, 0)),
    Branch(16, 111, E(16, 231, 17, 0), E(18, 239, 19, 0)),
    Merge(16, 110, E(40, 128, 41, 0))>>
TrackB_112 ==  \* BR17 .. MR156
  <<Branch(17, 113, E(60, 239, 61, 0), E(62, 246, 63, 0)),
    Merge(17, 112, E(77, 43, 76, 0)),
    Branch(18, 115, E(39, 231, 38, 0), E(91, 371, 90, 1)),
    Merge(18, 114, E(88, 155, 89, 0)),
    Branch(153, 117, E(125, 283, 124, 0), E(32, 246, 33, 0)),
    Merge(153, 116, E(119, 0, 118, 0)),
    Branch(154, 119, E(116, 0, 117, 0), E(29, 239, 28, 0)),
    Merge(154, 118, E(122, 0, 123, 0)),
    Branch(155, 121, E(127, 282, 126, 0), E(49, 246, 48, 0)),
    Merge(155, 120, E(123, 0, 122, 0)),
    Branch(156, 123, E(120, 0, 121, 0), E(65, 239, 64, 0)),
    Merge(156, 122, E(118, 0, 119, 0))>>
TrackB_124 ==  \* EN1 .. EX10
  <<Enter(125, E(117, 283, 116, 0)), Exit(124), Enter(127, E(121, 282, 120, 0)),
    Exit(126), Enter(129, E(35, 514, 34, 0)), Exit(128),
    Enter(131, E(12, 325, 13, 0)), Exit(130), Enter(133, E(0, 504, 1, 0)),
    Exit(132), Enter(135, E(22, 43, 23, 0)), Exit(134),
    Enter(137, E(24, 50, 25, 0)), Exit(136), Enter(139, E(26, 50, 27, 0)),
    Exit(138)>>

TrackB ==
  TrackB_0 \o TrackB_15 \o TrackB_30 \o TrackB_45 \o TrackB_60 \o TrackB_75
    \o TrackB_88 \o TrackB_100 \o TrackB_112 \o TrackB_124
=============================================================================
