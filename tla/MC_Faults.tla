----------------------------- MODULE MC_Faults ------------------------------
(* Faults for TLC: small clusters, few verbs at a time.                    *)
EXTENDS Faults, TLC

N2 == {2}
N12 == {1, 2}
Everything == Kinds
Doors == {"quiesce"}

(* The commands of two processes are the same; no property tells them      *)
(* apart.                                                                  *)
Symmetry == Permutations(Clients)

(* The properties say nothing once record and world have come apart, and   *)
(* no step mends them: such states are checked, but not gone on from.      *)
Together == mishaps \subseteq {"halved"}

(* What an idle process has answered is told apart by ClearReverses only.  *)
Plain == <<force, pid, file, mishaps,
           [c \in Clients |-> IF At(c, "idle") THEN Returned("none") ELSE cli[c]]>>

(* One process at a time, with every kind of condition; or two at once,    *)
(* with one that stacks and one that does not, while no node restarts.     *)
Alone == \E c \in Clients : At(c, "idle")
Racing == {"drop", "suspend"}
Race ==
  /\ \A e \in Effects : force[e] > 0 => e[1] \in Racing
  /\ \A c \in Clients : \A i \in DOMAIN cli[c].plan : cli[c].plan[i].kind \in Racing
  /\ \A i \in DOMAIN file.list : file.list[i].kind \in Racing
  /\ \A n \in Nodes : pid[n] = 1
Scenes == Together /\ (Alone \/ Race)
=============================================================================
