------------------------------- MODULE MCBoot -------------------------------
(* The calls that the tasks of the operating system make before they serve: *)
(* first_user_task creates the servers, each registers and creates its      *)
(* notifier, and the clients look the servers up.  "stray" stands for any   *)
(* program that sends the name server a message meant for another server.   *)
(* Of the three notifiers, each created after its server has registered and *)
(* looking it up, only the transmitter's is here.                           *)
EXTENDS NameServer

CONSTANTS stray, fut, clock, tx, txn, rx, sysinfo, shell, tcs, cli,
          CLOCKSERVER, TXSERVER, RXSERVER, TCSERVER

RegisterAs(n) == {[op |-> "register", name |-> n]}
WhoIs(n) == {[op |-> "whois", name |-> n]}
Other == {[op |-> "other", name |-> n] : n \in {TCSERVER}}
create(t) == {[op |-> "create", task |-> t]}

BootTasks == {stray, fut, clock, tx, txn, rx, sysinfo, shell, tcs, cli}
BootNames == {CLOCKSERVER, TXSERVER, RXSERVER, TCSERVER}
BootCalls ==
  [t \in BootTasks |->
     CASE t = stray   -> <<Other>>
       [] t = fut     -> <<create(clock), create(tx), create(rx), create(sysinfo), create(shell)>>
       [] t = clock   -> <<RegisterAs(CLOCKSERVER)>>
       [] t = tx      -> <<RegisterAs(TXSERVER), create(txn)>>
       [] t = txn     -> <<WhoIs(TXSERVER)>>
       [] t = rx      -> <<RegisterAs(RXSERVER)>>
       [] t = sysinfo -> <<WhoIs(CLOCKSERVER), WhoIs(TXSERVER)>>
       [] t = shell   -> <<WhoIs(RXSERVER), WhoIs(TXSERVER), create(tcs), create(cli)>>
       [] t = tcs     -> <<RegisterAs(TCSERVER), WhoIs(CLOCKSERVER), WhoIs(TXSERVER)>>
       [] t = cli     -> <<WhoIs(RXSERVER), WhoIs(TXSERVER), WhoIs(TCSERVER)>>]
BootRoots == {stray, fut}
=============================================================================
