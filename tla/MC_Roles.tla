------------------------------ MODULE MC_Roles ------------------------------
(* A pair, one or two csb processes; the bounds of the runs.               *)
EXTENDS Roles

(* One mishap at a time is gone on from; what two of them lead to is only  *)
(* checked where they meet.                                                *)
Alone == Cardinality(mishaps \ {"refused"}) <= 1

(* Liveness is asked of one command at a time, from every way the group    *)
(* may be found: when it has returned no other begins.                     *)
Once == \A c \in Clients : At(c, "idle") /\ (cli[c].outcome # "none" \/ mishaps # {}) => cli'[c] = cli[c]
=============================================================================
