------------------------------- MODULE Stages -------------------------------
(***************************************************************************)
(* What the assembly promises of a cluster whose containers exist: the     *)
(* ladder of states of assembly.go and docs/design/03-assembly.md, climbed *)
(* one rung at a time.  A cluster is never serving without having formed,  *)
(* and its group never forms before its standby has a database.            *)
(***************************************************************************)
VARIABLES
  standalone,  \* ha_mode=off: one node, no standby to seed, no group to form
  stage

Init == standalone \in BOOLEAN /\ stage = IF standalone THEN "seeded" ELSE "defined"

Seeded  == ~standalone /\ stage = "defined" /\ stage' = "seeded"
Forming == ~standalone /\ stage = "seeded" /\ stage' = "forming"
Serving == stage = (IF standalone THEN "seeded" ELSE "forming") /\ stage' = "serving"
Stopped == stage \in {"forming", "serving"} /\ stage' = "seeded"

Next == (Seeded \/ Forming \/ Serving \/ Stopped) /\ standalone' = standalone

Spec == Init /\ [][Next]_<<standalone, stage>>
=============================================================================
