----------------------------- MODULE MC_Resync ------------------------------
(* A pair with one table, as it may be found.                              *)
EXTENDS Resync

(* A pair that follows, whatever its rows; a split brain; a node that does *)
(* not join, its log short or of another node, and its peer the master.    *)
MCInit ==
  /\ Init
  /\ db[1].tables = Tables
  /\ \/ server = <<"active", "standby">>
     \/ server = <<"active", "active">> /\ db[1].rows = {}
     \/ server[1] # server[2] /\ "" \in {server[1], server[2]} /\ db[1] = db[2] /\ db[1].rows = {}
MCSpec == MCInit /\ [][Next]_vars
MCLiveSpec ==
  /\ MCSpec /\ \A c \in Clients : WF_vars(Step(c)) /\ WF_vars(Late(c))
  /\ \A n \in DBNodes : WF_vars(Join(n))

(* A server falls while the one command is a resync, or the time runs out, *)
(* not both; a second command is given for what the first has cut off.     *)
OneMishap == events = 0 \/ (commands = 1 /\ \A c \in Clients : cli[c].verb = "resync" /\ ~Expired(c))
AfterTheCut == commands' = 2 /\ commands = 1 => cut
=============================================================================
