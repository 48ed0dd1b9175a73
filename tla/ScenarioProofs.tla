--------------------------- MODULE ScenarioProofs ---------------------------
(***************************************************************************)
(* Theorems about Scenario, for every set of files, options and words and  *)
(* any number of role changes.                                             *)
(***************************************************************************)
EXTENDS Scenario, TLAPS

-----------------------------------------------------------------------------
(* Where a step, and where a run, leads.                                   *)

LEMMA StepLeads ==
  ASSUME NEW ok \in BOOLEAN, me \in Runner, StepEnds(ok)
  PROVE  /\ me' \in Runner
         /\ me'.failed = ~ok /\ me'.anyFailed = me.anyFailed
         /\ me'.point = me.point /\ me'.outcome = me.outcome
         /\ me'.at \in {"run", "look", "measure", "harvest"}
         /\ ~ok => me'.at = "harvest"
  <1> DEFINE at == Follows(me.step + 1, ~ok)
  <1>1. at \in {"run", "look", "measure", "harvest"} /\ (~ok => at = "harvest")
    BY DEF Follows
  <1>2. me' = [me EXCEPT !.at = at, !.step = @ + 1, !.failed = ~ok,
                         !.slot = 1, !.seen = Unread, !.late = FALSE]
    BY DEF StepEnds
  <1>3. Unread \in [Nodes -> Roles]
    BY DEF Unread, Roles
  <1> DEFINE failed == ~ok
  <1>4. failed \in BOOLEAN /\ (failed = ~ok)
    OBVIOUS
  <1>5. me' = [me EXCEPT !.at = at, !.step = @ + 1, !.failed = failed,
                         !.slot = 1, !.seen = Unread, !.late = FALSE]
    BY <1>2
  <1> HIDE DEF at, failed
  <1>6. me' \in Runner
    <2>1. at \in Phases
      BY <1>1 DEF Phases
    <2>2. me' = [at |-> at, point |-> me.point, step |-> me.step + 1, failed |-> failed, anyFailed |-> me.anyFailed,
                 slot |-> 1, seen |-> Unread, late |-> FALSE, outcome |-> me.outcome]
      BY <1>5 DEF Runner
    <2>3. /\ me.point \in Nat /\ me.step + 1 \in Nat /\ me.anyFailed \in BOOLEAN
          /\ me.outcome \in {"none", "usage", "passed", "failed", "killed"}
      BY DEF Runner
    <2> QED BY <1>3, <1>4, <2>1, <2>2, <2>3 DEF Runner
  <1>7. /\ me'.failed = failed /\ me'.anyFailed = me.anyFailed
        /\ me'.point = me.point /\ me'.outcome = me.outcome /\ me'.at = at
    BY <1>5 DEF Runner
  <1> QED BY <1>1, <1>4, <1>6, <1>7

LEMMA PointLeads ==
  ASSUME NEW p \in Nat, NEW any \in BOOLEAN, me \in Runner, Point(p, any)
  PROVE  /\ me' \in Runner
         /\ me'.anyFailed = any /\ me'.point = p
         /\ \/ me'.at = "create" /\ me'.failed = FALSE /\ me'.outcome = me.outcome
            \/ /\ me'.at = "over" /\ me'.failed = me.failed
               /\ me'.outcome = IF any THEN "failed" ELSE "passed"
  BY DEF Point, Runner, Phases

-----------------------------------------------------------------------------
(* Types.                                                                  *)

LEMMA NobodyRead == Unread \in [Nodes -> Roles]
  BY DEF Unread, Roles

LEMMA AfterNodes == \A n \in Nodes : n + 1 \in Nat
  BY DEF Nodes

(* A role change is one more line of the logs.                              *)
LEMMA LogsType ==
  ASSUME TypeOK, Logs
  PROVE  /\ changes' \in Seq(Speeds) /\ DOMAIN changes \subseteq DOMAIN changes'
         /\ logged \subseteq logged' /\ logged' \subseteq DOMAIN changes'
  <1>1. PICK speed \in Speeds : changes' = Append(changes, speed) /\ logged' = logged \cup {Len(changes) + 1}
    BY DEF Logs
  <1>2. changes \in Seq(Speeds) /\ logged \subseteq DOMAIN changes
    BY DEF TypeOK
  <1>3. changes' \in Seq(Speeds) /\ Len(changes') = Len(changes) + 1 /\ Len(changes) \in Nat
    BY <1>1, <1>2
  <1>4. DOMAIN changes = 1..Len(changes) /\ DOMAIN changes' = 1..(Len(changes) + 1)
    BY <1>2, <1>3
  <1>5. DOMAIN changes \subseteq DOMAIN changes' /\ Len(changes) + 1 \in DOMAIN changes'
    BY <1>3, <1>4
  <1> QED BY <1>1, <1>2, <1>3, <1>5

LEMMA MovesType ==
  ASSUME TypeOK, Moves
  PROVE  /\ roles' \in [Nodes -> Roles]
         /\ changes' \in Seq(Speeds) /\ DOMAIN changes \subseteq DOMAIN changes'
         /\ logged \subseteq logged' /\ logged' \subseteq DOMAIN changes'
  <1>1. PICK n \in Nodes, r \in Roles :
          /\ roles' = [roles EXCEPT ![n] = r]
          /\ IF r = "active" THEN Logs ELSE UNCHANGED <<changes, logged>>
    BY DEF Moves
  <1>2. roles' \in [Nodes -> Roles]
    BY <1>1 DEF TypeOK
  <1>3. CASE Logs
    BY <1>2, <1>3, LogsType
  <1>4. CASE UNCHANGED <<changes, logged>>
    BY <1>2, <1>4 DEF TypeOK
  <1> QED BY <1>1, <1>3, <1>4

(* What a step's command may do of the world: the clusters that come to    *)
(* stand are this run's and one of no run.                                 *)
LEMMA CommandType ==
  ASSUME TypeOK, NEW verb, NEW home, Dispatch(verb, home)
  PROVE  /\ standing' \subseteq standing \cup {me.point, 0}
         /\ described' \in BOOLEAN /\ roles' \in [Nodes -> Roles] /\ changes' \in Seq(Speeds)
         /\ logged' \subseteq DOMAIN changes' /\ recorded' \subseteq DOMAIN changes'
  <1>0. /\ described \in BOOLEAN /\ roles \in [Nodes -> Roles] /\ changes \in Seq(Speeds)
        /\ logged \subseteq DOMAIN changes /\ recorded \subseteq DOMAIN changes
    BY DEF TypeOK
  <1>1. CASE Idles
    BY <1>0, <1>1 DEF Idles, world, group
  <1>2. CASE Acts
    BY <1>0, <1>2, MovesType DEF Acts
  <1>3. CASE Builds
    <2>1. CASE standing' = standing \cup {0} /\ UNCHANGED <<described, recorded, group>>
      BY <1>0, <2>1 DEF group
    <2>2. CASE /\ standing' = standing \cup {me.point} /\ described' = TRUE
               /\ roles' \in {roles, [n \in Nodes |-> IF n = 1 THEN "active" ELSE "standby"]}
               /\ Logs \/ UNCHANGED <<changes, logged>>
               /\ UNCHANGED recorded
      <3>1. [n \in Nodes |-> IF n = 1 THEN "active" ELSE "standby"] \in [Nodes -> Roles]
        BY DEF Roles
      <3>2. /\ changes' \in Seq(Speeds) /\ DOMAIN changes \subseteq DOMAIN changes'
            /\ logged' \subseteq DOMAIN changes'
        <4>1. CASE Logs
          BY <4>1, LogsType
        <4>2. CASE UNCHANGED <<changes, logged>>
          BY <1>0, <4>2
        <4> QED BY <2>2, <4>1, <4>2
      <3> QED BY <1>0, <2>2, <3>1, <3>2
    <2> QED BY <1>3, <2>1, <2>2 DEF Builds
  <1>4. CASE Razes(home)
    <2>1. CASE UNCHANGED <<described, recorded, group>> /\ \E i \in standing : standing' = standing \ {i}
      BY <1>0, <2>1 DEF group
    <2>2. CASE /\ \/ standing' = standing \ {me.point} /\ roles' = Unread
                  \/ /\ UNCHANGED standing
                     /\ \E gone \in SUBSET Nodes : roles' = [n \in Nodes |-> IF n \in gone THEN "" ELSE roles[n]]
               /\ logged' \in SUBSET logged
               /\ described' \in {described, FALSE} /\ recorded' \in {recorded, {}}
               /\ UNCHANGED changes
      <3>1. roles' \in [Nodes -> Roles] /\ standing' \subseteq standing
        <4>1. CASE UNCHANGED standing /\ \E gone \in SUBSET Nodes : roles' = [n \in Nodes |-> IF n \in gone THEN "" ELSE roles[n]]
          <5>1. "" \in Roles
            BY DEF Roles
          <5> QED BY <1>0, <4>1, <5>1
        <4> QED BY <2>2, <4>1, NobodyRead
      <3> QED BY <1>0, <2>2, <3>1
    <2> QED BY <1>4, <2>1, <2>2 DEF Razes
  <1> QED BY <1>1, <1>2, <1>3, <1>4 DEF Dispatch

(* How a step's command is judged, and what a read of the record takes.    *)
Judged(exit, printed) ==
  IF HasWait(TheStep)
  THEN IF exit = 0 THEN me' = [me EXCEPT !.at = "look"] ELSE StepEnds(FALSE)
  ELSE IF AsExpected(TheStep, exit, printed) /\ TheStep.within THEN me' = [me EXCEPT !.at = "within"]
       ELSE StepEnds(AsExpected(TheStep, exit, printed))

LEMMA RunMeans ==
  ASSUME TypeOK, Run
  PROVE  /\ me.at = "run" /\ UNCHANGED <<file, opts, events>>
         /\ standing' \subseteq standing \cup {me.point, 0}
         /\ described' \in BOOLEAN /\ roles' \in [Nodes -> Roles] /\ changes' \in Seq(Speeds)
         /\ logged' \subseteq DOMAIN changes' /\ recorded' \subseteq DOMAIN changes'
         /\ \E exit, printed :
              /\ Judged(exit, printed)
              /\ note' = [note EXCEPT !.lapses = @ \cup Lapse(TheStep, exit, printed),
                                      !.lines = logged' \cup recorded', !.excused = @ \cup (standing' \cap {0})]
  <1>1. PICK exit \in Exits, printed \in SUBSET Words :
          /\ IF Refused(TheStep.argv) THEN Idles ELSE Dispatch(TheStep.verb, Target(TheStep.argv) = "own")
          /\ Judged(exit, printed)
          /\ note' = [note EXCEPT !.lapses = @ \cup Lapse(TheStep, exit, printed),
                                  !.lines = logged' \cup recorded', !.excused = @ \cup (standing' \cap {0})]
    BY DEF Run, Judged
  <1>2. Dispatch(TheStep.verb, Target(TheStep.argv) = "own")
    BY <1>1 DEF Dispatch
  <1>3. me.at = "run" /\ UNCHANGED <<file, opts, events>>
    BY DEF Run, At
  <1> QED BY <1>1, <1>2, <1>3, CommandType

LEMMA ReadType ==
  ASSUME TypeOK, InPart \/ Whole
  PROVE  recorded \subseteq recorded' /\ recorded' \subseteq recorded \cup logged
  BY DEF InPart, Whole

LEMMA TypeInit == Init => TypeOK
  <1> SUFFICES ASSUME Init PROVE TypeOK
    OBVIOUS
  <1>1. me \in Runner
    BY NobodyRead DEF Init, Runner, Phases
  <1>2. note \in Notes
    BY DEF Init, Notes
  <1>3. changes \in Seq(Speeds) /\ events \in 0..MaxEvents
    BY ScenarioAssumption DEF Init
  <1> QED BY <1>1, <1>2, <1>3, NobodyRead DEF Init, TypeOK

LEMMA TypeStep == TypeOK /\ [Next]_vars => TypeOK'
  <1> SUFFICES ASSUME TypeOK, [Next]_vars PROVE TypeOK'
    OBVIOUS
  <1> USE DEF TypeOK
  <1>1. CASE Refuse
    BY <1>1 DEF Refuse, Runner, Phases, world, group
  <1>2. CASE Begin
    BY <1>2, PointLeads DEF Begin, world, group
  <1>3. CASE Create
    <2>1. me' \in Runner
      BY <1>3, StepLeads DEF Create
    <2>2. changes' \in Seq(Speeds) /\ roles' \in [Nodes -> Roles] /\ standing' \subseteq Nat /\ described' \in BOOLEAN
      <3>1. me.point \in Nat
        BY DEF Runner
      <3>2. \A speed \in Speeds : <<speed>> \in Seq(Speeds)
        OBVIOUS
      <3>3. <<>> \in Seq(Speeds)
        OBVIOUS
      <3>4. \A n \in Nodes : (IF n = 1 THEN "active" ELSE "standby") \in Roles
        BY DEF Roles
      <3> QED BY <1>3, <3>1, <3>2, <3>3, <3>4, NobodyRead, ZenonT(60) DEF Create
    <2>3. logged' = DOMAIN changes' /\ recorded' = {} /\ logged' \subseteq Nat
      BY <1>3, <2>2 DEF Create
    <2>4. note' \in Notes
      <3>1. note' = [note EXCEPT !.lines = logged', !.silent = FALSE]
        BY <1>3 DEF Create
      <3> QED BY <2>3, <3>1 DEF Notes
    <2>5. UNCHANGED <<file, opts, events>>
      BY <1>3 DEF Create
    <2> QED BY <2>1, <2>2, <2>3, <2>4, <2>5
  <1>4. CASE Run
    <2>1. PICK exit, printed :
            /\ Judged(exit, printed)
            /\ note' = [note EXCEPT !.lapses = @ \cup Lapse(TheStep, exit, printed),
                                    !.lines = logged' \cup recorded', !.excused = @ \cup (standing' \cap {0})]
      BY <1>4, RunMeans
    <2>2. AsExpected(TheStep, exit, printed) \in BOOLEAN
      BY DEF AsExpected
    <2>3. me' \in Runner
      BY <2>1, <2>2, StepLeads, ZenonT(60) DEF Judged, Runner, Phases
    <2>4. standing' \subseteq Nat
      <3>1. me.point \in Nat
        BY DEF Runner
      <3>2. standing' \subseteq standing \cup {me.point, 0}
        BY <1>4, RunMeans
      <3> QED BY <3>1, <3>2
    <2>5. note' \in Notes
      <3>1. Lapse(TheStep, exit, printed) \subseteq Lapses
        BY DEF Lapse, Lapses
      <3>2. logged' \cup recorded' \subseteq Nat
        <4>1. changes' \in Seq(Speeds) /\ logged' \subseteq DOMAIN changes' /\ recorded' \subseteq DOMAIN changes'
          BY <1>4, RunMeans
        <4>2. DOMAIN changes' \subseteq Nat
          BY <4>1
        <4> QED BY <4>1, <4>2
      <3>3. standing' \cap {0} \subseteq Nat
        BY <2>4
      <3> DEFINE l == note.lapses \cup Lapse(TheStep, exit, printed)
                 e == note.excused \cup (standing' \cap {0})
                 r == logged' \cup recorded'
      <3>4. note' = [note EXCEPT !.lapses = l, !.lines = r, !.excused = e]
        BY <2>1
      <3>5. l \subseteq Lapses /\ e \subseteq Nat /\ r \subseteq Nat
        BY <3>1, <3>2, <3>3 DEF Notes
      <3> HIDE DEF l, e, r
      <3> QED BY <3>4, <3>5 DEF Notes
    <2> QED BY <1>4, <2>3, <2>4, <2>5, RunMeans
  <1>5. CASE Within
    <2>1. me' \in Runner
      <3> DEFINE fast == recorded' # {} /\ \A i \in recorded' : changes[i] = "fast"
      <3>1. fast \in BOOLEAN
        OBVIOUS
      <3>2. StepEnds(fast) \/ StepEnds(FALSE)
        BY <1>5 DEF Within
      <3> HIDE DEF fast
      <3> QED BY <3>1, <3>2, StepLeads
    <2>2. recorded' \subseteq DOMAIN changes /\ UNCHANGED <<file, opts, standing, described, group, events>>
      BY <1>5, ReadType DEF Within
    <2>3. note' \in Notes
      <3> DEFINE l == note.lapses \cup {IF i \in recorded' THEN "judged" ELSE "unread" : i \in Slow(Readable)}
      <3>1. note' = [note EXCEPT !.lines = Readable, !.lapses = l]
        BY <1>5 DEF Within
      <3>2. l \subseteq Lapses
        BY DEF Notes, Lapses
      <3>3. Readable \subseteq Nat
        BY DEF Readable
      <3> HIDE DEF l
      <3> QED BY <3>1, <3>2, <3>3 DEF Notes
    <2> QED BY <2>1, <2>2, <2>3 DEF group
  <1>6. CASE Look
    <2>1. PICK got \in {roles[me.slot], ""} :
            /\ me' = [me EXCEPT !.seen[me.slot] = got, !.slot = @ + 1]
            /\ note' = [note EXCEPT !.still = (@ \/ me.slot = 1) /\ got = roles[me.slot]]
      BY <1>6 DEF Look
    <2>2. got \in Roles /\ me.slot \in Nodes
      BY <1>6, <2>1 DEF Look, Roles
    <2>3. [me.seen EXCEPT ![me.slot] = got] \in [Nodes -> Roles]
      BY <2>2 DEF Runner
    <2>4. me' \in Runner
      <3> DEFINE seen == [me.seen EXCEPT ![me.slot] = got]
      <3>1. me' = [me EXCEPT !.seen = seen, !.slot = me.slot + 1]
        BY <2>1
      <3>2. seen \in [Nodes -> Roles]
        BY <2>3
      <3>3. me.slot + 1 \in Nat
        BY <2>2, AfterNodes
      <3> HIDE DEF seen
      <3> QED BY <3>1, <3>2, <3>3 DEF Runner
    <2> DEFINE still == (note.still \/ me.slot = 1) /\ got = roles[me.slot]
    <2>5. still \in BOOLEAN /\ note' = [note EXCEPT !.still = still]
      BY <2>1
    <2> HIDE DEF still
    <2>6. note' \in Notes
      BY <2>5 DEF Notes
    <2> QED BY <1>6, <2>4, <2>6 DEF Look, world, group
  <1>7. CASE WaitMet
    <2>1. me' \in Runner
      BY <1>7, StepLeads DEF WaitMet
    <2>2. note' \in Notes
      BY <1>7 DEF WaitMet, Notes, Readable
    <2> QED BY <1>7, <2>1, <2>2 DEF WaitMet, world, group
  <1>8. CASE WaitGoesOn
    <2>1. me' \in Runner
      <3>1. CASE StepEnds(FALSE)
        BY <3>1, StepLeads
      <3>2. CASE me' = [me EXCEPT !.slot = 1, !.seen = Unread]
        BY <3>2, NobodyRead DEF Runner
      <3> QED BY <1>8, <3>1, <3>2 DEF WaitGoesOn
    <2>2. note' \in Notes
      <3>1. note' = [note EXCEPT !.lines = Readable] /\ Readable \subseteq Nat
        BY <1>8 DEF WaitGoesOn, Readable
      <3> QED BY <3>1 DEF Notes
    <2> QED BY <1>8, <2>1, <2>2 DEF WaitGoesOn, world, group
  <1>9. CASE Measure
    BY <1>9, ReadType DEF Measure, Runner, Phases, group
  <1>10. CASE Harvest
    <2>1. recorded' \subseteq DOMAIN changes
      BY <1>10, ReadType DEF Harvest
    <2>2. note' \in Notes
      BY <1>10 DEF Harvest, Notes
    <2> QED BY <1>10, <2>1, <2>2 DEF Harvest, Runner, Phases, group
  <1>11. CASE Destroy
    <2>1. me.point \in Nat /\ (me.anyFailed \/ me.failed) \in BOOLEAN
      BY DEF Runner
    <2>2. me' \in Runner
      <3> DEFINE any == me.anyFailed \/ me.failed
      <3>1. any \in BOOLEAN /\ me.point + 1 \in Nat /\ Point(me.point + 1, any)
        BY <1>11, <2>1 DEF Destroy
      <3> HIDE DEF any
      <3> QED BY <3>1, PointLeads
    <2>3. note' \in Notes /\ standing' \subseteq Nat /\ recorded' \subseteq recorded /\ logged' \subseteq logged
      BY <1>11, <2>1 DEF Destroy, Notes
    <2>4. roles' \in [Nodes -> Roles] /\ described' \in BOOLEAN /\ UNCHANGED <<file, opts, changes, events>>
      BY <1>11, NobodyRead DEF Destroy
    <2> QED BY <2>2, <2>3, <2>4
  <1>12. CASE Late
    BY <1>12 DEF Late, Runner, world, group
  <1>13. CASE Move
    <2>1. /\ roles' \in [Nodes -> Roles] /\ changes' \in Seq(Speeds)
          /\ DOMAIN changes \subseteq DOMAIN changes' /\ logged' \subseteq DOMAIN changes'
      BY <1>13, MovesType DEF Move
    <2>2. events' \in 0..MaxEvents
      BY <1>13, ScenarioAssumption DEF Move
    <2>3. note' = [note EXCEPT !.still = FALSE]
      BY <1>13 DEF Move
    <2>4. note' \in Notes
      BY <2>3 DEF Notes
    <2> QED BY <1>13, <2>1, <2>2, <2>4 DEF Move
  <1>14. CASE Killed
    BY <1>14 DEF Killed, Runner, Phases, world, group
  <1>15. CASE UNCHANGED vars
    BY <1>15 DEF vars, world, group
  <1> QED
    BY <1>1, <1>2, <1>3, <1>4, <1>5, <1>6, <1>7, <1>8, <1>9, <1>10, <1>11, <1>12, <1>13, <1>14, <1>15
    DEF Next, Proceed, Over

(* Every state of a run of scenarios is in its declared types, for every   *)
(* set of files: what the runner keeps, what its history says of it.       *)
THEOREM TypeCorrect == Spec => []TypeOK
  BY TypeInit, TypeStep, PTL DEF Spec

-----------------------------------------------------------------------------
(* The verdict.  A judged step that falls short fails its run, a run that  *)
(* has failed goes to its harvest and its destroy and nowhere else, and    *)
(* the destroy hands the failure on to the runs that follow.               *)

LapseInv ==
  /\ me.at = "check" => note.lapses = {} /\ ~me.anyFailed
  /\ me.failed => me.at \in {"harvest", "destroy", "over"}
  /\ "judged" \in note.lapses => me.failed \/ me.anyFailed
  /\ me.outcome = "passed" => me.at = "over" /\ ~me.failed /\ ~me.anyFailed

LEMMA LapseStep == TypeOK /\ LapseInv /\ [Next]_vars => LapseInv'
  <1> SUFFICES ASSUME TypeOK, LapseInv, [Next]_vars PROVE LapseInv'
    OBVIOUS
  <1>0. me \in Runner /\ note \in Notes
    BY DEF TypeOK
  <1> USE DEF LapseInv
  <1>1. CASE Refuse
    BY <1>0, <1>1 DEF Refuse, At, Runner
  <1>2. CASE Begin
    BY <1>0, <1>2, PointLeads DEF Begin, At
  <1>3. CASE Create
    <2>1. me.at = "create" /\ note'.lapses = note.lapses
      BY <1>0, <1>3 DEF Create, At, Notes
    <2>2. StepEnds(TRUE) \/ StepEnds(FALSE)
      BY <1>3 DEF Create
    <2> QED BY <1>0, <2>1, <2>2, StepLeads
  <1>4. CASE Run
    <2>1. PICK exit, printed :
            /\ Judged(exit, printed)
            /\ note' = [note EXCEPT !.lapses = @ \cup Lapse(TheStep, exit, printed),
                                    !.lines = logged' \cup recorded', !.excused = @ \cup (standing' \cap {0})]
      BY <1>4, RunMeans
    <2>2. me.at = "run" /\ note'.lapses = note.lapses \cup Lapse(TheStep, exit, printed)
      BY <1>0, <1>4, <2>1, RunMeans DEF Notes
    <2>3. AsExpected(TheStep, exit, printed) \in BOOLEAN
      BY DEF AsExpected
    <2>4. CASE "judged" \in Lapse(TheStep, exit, printed)
      <3>1. ~HasWait(TheStep) /\ ~AsExpected(TheStep, exit, printed)
        BY <2>4 DEF Lapse
      <3>2. StepEnds(AsExpected(TheStep, exit, printed))
        BY <2>1, <3>1 DEF Judged
      <3> QED BY <1>0, <2>2, <2>3, <3>1, <3>2, StepLeads
    <2>5. CASE "judged" \notin Lapse(TheStep, exit, printed)
      <3>1. CASE me' = [me EXCEPT !.at = "look"]
        BY <1>0, <2>2, <2>5, <3>1 DEF Runner
      <3>2. CASE me' = [me EXCEPT !.at = "within"]
        BY <1>0, <2>2, <2>5, <3>2 DEF Runner
      <3>3. CASE StepEnds(FALSE)
        BY <1>0, <2>2, <2>5, <3>3, StepLeads
      <3>4. CASE StepEnds(AsExpected(TheStep, exit, printed))
        BY <1>0, <2>2, <2>3, <2>5, <3>4, StepLeads
      <3> QED BY <2>1, <3>1, <3>2, <3>3, <3>4 DEF Judged
    <2> QED BY <2>4, <2>5
  <1>5. CASE Within
    <2> DEFINE slow == \E i \in Slow(Readable) : i \in recorded'
               fast == recorded' # {} /\ \A i \in recorded' : changes[i] = "fast"
    <2>1. me.at = "within" /\ ("judged" \in note'.lapses => "judged" \in note.lapses \/ slow)
      BY <1>0, <1>5 DEF Within, At, Notes
    <2>2. (slow => ~fast) /\ fast \in BOOLEAN
      BY DEF Slow
    <2>3. StepEnds(fast) \/ StepEnds(FALSE)
      BY <1>5 DEF Within
    <2> HIDE DEF slow, fast
    <2>4. CASE StepEnds(FALSE)
      BY <1>0, <2>1, <2>4, StepLeads
    <2>5. CASE StepEnds(fast)
      BY <1>0, <2>1, <2>2, <2>5, StepLeads
    <2> QED BY <2>3, <2>4, <2>5
  <1>6. CASE Look
    <2>1. me.at = "look" /\ note'.lapses = note.lapses
      BY <1>0, <1>6 DEF Look, At, Notes
    <2>2. me'.at = me.at /\ me'.failed = me.failed /\ me'.anyFailed = me.anyFailed /\ me'.outcome = me.outcome
      BY <1>0, <1>6 DEF Look, Runner
    <2> QED BY <2>1, <2>2
  <1>7. CASE WaitMet
    BY <1>0, <1>7, StepLeads DEF WaitMet, At, Notes
  <1>8. CASE WaitGoesOn
    <2>1. me.at = "look" /\ note'.lapses = note.lapses
      BY <1>0, <1>8 DEF WaitGoesOn, At, Notes
    <2>2. CASE StepEnds(FALSE)
      BY <1>0, <2>1, <2>2, StepLeads
    <2>3. CASE me' = [me EXCEPT !.slot = 1, !.seen = Unread]
      BY <1>0, <2>1, <2>3 DEF Runner
    <2> QED BY <1>8, <2>2, <2>3 DEF WaitGoesOn
  <1>9. CASE Measure
    BY <1>0, <1>9 DEF Measure, At, Runner
  <1>10. CASE Harvest
    BY <1>0, <1>10 DEF Harvest, At, Runner, Notes
  <1>11. CASE Destroy
    <2> DEFINE any == me.anyFailed \/ me.failed
    <2>1. any \in BOOLEAN /\ me.point + 1 \in Nat /\ Point(me.point + 1, any)
      BY <1>0, <1>11 DEF Destroy, Runner
    <2>2. note'.lapses = note.lapses /\ me.at = "destroy"
      BY <1>0, <1>11 DEF Destroy, Notes, At
    <2>3. me.failed => any
      OBVIOUS
    <2>4. "judged" \in note.lapses => any
      OBVIOUS
    <2>5. me.outcome # "passed"
      BY <2>2
    <2> HIDE DEF any
    <2> QED BY <1>0, <2>1, <2>2, <2>3, <2>4, <2>5, PointLeads
  <1>12. CASE Late
    BY <1>0, <1>12 DEF Late, At, Runner
  <1>13. CASE Move
    BY <1>0, <1>13 DEF Move, Notes
  <1>14. CASE Killed
    BY <1>0, <1>14 DEF Killed, At, Runner
  <1>15. CASE UNCHANGED vars
    BY <1>15 DEF vars
  <1> QED
    BY <1>1, <1>2, <1>3, <1>4, <1>5, <1>6, <1>7, <1>8, <1>9, <1>10, <1>11, <1>12, <1>13, <1>14, <1>15
    DEF Next, Proceed, Over

(* A green result is true of every run and every judged step, for every    *)
(* set of files: nothing a file asks of a step without a wait fell short   *)
(* in any run (scenario.go:430-443, 483-509, 727-810).                     *)
THEOREM VerdictCorrect == Spec => []VerdictIsTrue
  <1>1. Init => LapseInv
    BY DEF Init, LapseInv
  <1>2. TypeOK /\ LapseInv => VerdictIsTrue
    BY DEF TypeOK, Notes, LapseInv, VerdictIsTrue
  <1> QED BY <1>1, <1>2, LapseStep, TypeCorrect, PTL DEF Spec

-----------------------------------------------------------------------------
(* What is left standing.  Only the run in progress may stand unexcused,   *)
(* and its destroy takes it down or excuses it.                            *)

Between == {"check", "create"}
StandingInv ==
  /\ me.outcome = "none" <=> me.at # "over"
  /\ standing \subseteq note.excused \cup (IF me.at \in Between \/ me.outcome \in {"passed", "failed"} THEN {} ELSE {me.point})

LEMMA StandingStep == TypeOK /\ StandingInv /\ [Next]_vars => StandingInv'
  <1> SUFFICES ASSUME TypeOK, StandingInv, [Next]_vars PROVE StandingInv'
    OBVIOUS
  <1>0. me \in Runner /\ note \in Notes
    BY DEF TypeOK
  <1> USE DEF StandingInv, Between
  <1>1. CASE Refuse
    BY <1>0, <1>1 DEF Refuse, At, Runner, world
  <1>2. CASE Begin
    BY <1>0, <1>2, PointLeads DEF Begin, At, world
  <1>3. CASE Create
    <2>1. me.at = "create" /\ note'.excused = note.excused /\ standing' \subseteq standing \cup {me.point}
      BY <1>0, <1>3 DEF Create, At, Notes
    <2>2. StepEnds(TRUE) \/ StepEnds(FALSE)
      BY <1>3 DEF Create
    <2> QED BY <1>0, <2>1, <2>2, StepLeads
  <1>4. ASSUME NEW ok \in BOOLEAN, StepEnds(ok), me.at \in {"run", "within", "look"},
               standing' \subseteq note'.excused \cup {me.point}
        PROVE  StandingInv'
    BY <1>0, <1>4, StepLeads
  <1>5. ASSUME me' = [me EXCEPT !.at = me'.at], me.at \notin Between \cup {"over"}, me'.at \notin Between \cup {"over"},
               standing' \subseteq note'.excused \cup {me.point}
        PROVE  StandingInv'
    BY <1>0, <1>5 DEF Runner
  <1>6. CASE Run
    <2>1. PICK exit, printed :
            /\ Judged(exit, printed)
            /\ note' = [note EXCEPT !.lapses = @ \cup Lapse(TheStep, exit, printed),
                                    !.lines = logged' \cup recorded', !.excused = @ \cup (standing' \cap {0})]
      BY <1>6, RunMeans
    <2>2. me.at = "run" /\ note'.excused = note.excused \cup (standing' \cap {0})
      BY <1>0, <1>6, <2>1, RunMeans DEF Notes
    <2>8. standing' \subseteq note'.excused \cup {me.point}
      BY <1>6, <2>2, RunMeans
    <2>3. AsExpected(TheStep, exit, printed) \in BOOLEAN
      BY DEF AsExpected
    <2>4. CASE me' = [me EXCEPT !.at = "look"]
      BY <1>0, <1>5, <2>2, <2>4, <2>8 DEF Runner
    <2>5. CASE me' = [me EXCEPT !.at = "within"]
      BY <1>0, <1>5, <2>2, <2>5, <2>8 DEF Runner
    <2>6. CASE StepEnds(FALSE)
      BY <1>4, <2>2, <2>6, <2>8
    <2>7. CASE StepEnds(AsExpected(TheStep, exit, printed))
      BY <1>4, <2>2, <2>3, <2>7, <2>8
    <2> QED BY <2>1, <2>4, <2>5, <2>6, <2>7 DEF Judged
  <1>7. CASE Within
    <2> DEFINE fast == recorded' # {} /\ \A i \in recorded' : changes[i] = "fast"
    <2>1. me.at = "within" /\ note'.excused = note.excused /\ standing' = standing
      BY <1>0, <1>7 DEF Within, At, Notes
    <2>2. fast \in BOOLEAN /\ (StepEnds(fast) \/ StepEnds(FALSE))
      BY <1>7 DEF Within
    <2> HIDE DEF fast
    <2> QED BY <1>4, <2>1, <2>2
  <1>8. CASE Look
    BY <1>0, <1>8 DEF Look, At, Runner, Notes, world
  <1>9. CASE WaitMet
    BY <1>0, <1>4, <1>9 DEF WaitMet, At, Notes, world
  <1>10. CASE WaitGoesOn
    <2>1. me.at = "look" /\ note'.excused = note.excused /\ standing' = standing
      BY <1>0, <1>10 DEF WaitGoesOn, At, Notes, world
    <2>2. CASE StepEnds(FALSE)
      BY <1>4, <2>1, <2>2
    <2>3. CASE me' = [me EXCEPT !.slot = 1, !.seen = Unread]
      BY <1>0, <2>1, <2>3 DEF Runner
    <2> QED BY <1>10, <2>2, <2>3 DEF WaitGoesOn
  <1>11. CASE Measure
    BY <1>0, <1>11 DEF Measure, At, Runner
  <1>12. CASE Harvest
    BY <1>0, <1>12 DEF Harvest, At, Runner, Notes
  <1>13. CASE Destroy
    <2> DEFINE any == me.anyFailed \/ me.failed
    <2>1. any \in BOOLEAN /\ me.point + 1 \in Nat /\ Point(me.point + 1, any)
      BY <1>0, <1>13 DEF Destroy, Runner
    <2>2. me.at = "destroy" /\ standing' \subseteq note'.excused
      BY <1>0, <1>13 DEF Destroy, Notes, At
    <2> HIDE DEF any
    <2> QED BY <1>0, <2>1, <2>2, PointLeads
  <1>14. CASE Late
    BY <1>0, <1>14 DEF Late, At, Runner, world
  <1>15. CASE Move
    BY <1>0, <1>15 DEF Move, Notes
  <1>16. CASE Killed
    BY <1>0, <1>16 DEF Killed, At, Runner, world
  <1>17. CASE UNCHANGED vars
    BY <1>17 DEF vars, world
  <1> QED
    BY <1>1, <1>2, <1>3, <1>6, <1>7, <1>8, <1>9, <1>10, <1>11, <1>12, <1>13, <1>14, <1>15, <1>16, <1>17
    DEF Next, Proceed, Over

(* When the runner is done no cluster stands but those kept for having     *)
(* failed and those whose destroy did not succeed, whichever steps failed  *)
(* in whichever run (scenario.go:445-529).                                 *)
THEOREM NothingLeftCorrect == Spec => []NothingLeft
  <1>1. Init => StandingInv
    BY DEF Init, StandingInv, Between
  <1>2. StandingInv => NothingLeft
    BY DEF StandingInv, NothingLeft
  <1> QED BY <1>1, <1>2, StandingStep, TypeCorrect, PTL DEF Spec

-----------------------------------------------------------------------------
(* What is kept.  From its last step to the harvest nothing is lost of     *)
(* what the logs and the record hold; the harvest takes all of the logs;   *)
(* and only a purge drops what it took.                                    *)

Open == {"run", "within", "look", "measure", "harvest"}
KeptInv ==
  /\ me.at = "check" => note.lines = {}
  /\ me.at \in Open => note.lines \subseteq Readable
  /\ me.at = "destroy" /\ ~note.silent => note.lines \subseteq recorded
  /\ KeptIsWhole
  /\ me.outcome # "none" => me.at = "over"

LEMMA KeptStep == TypeOK /\ KeptInv /\ [Next]_vars => KeptInv'
  <1> SUFFICES ASSUME TypeOK, KeptInv, [Next]_vars PROVE KeptInv'
    OBVIOUS
  <1>0. me \in Runner /\ note \in Notes
    BY DEF TypeOK
  <1> USE DEF KeptInv, KeptIsWhole, At, Open, Readable
  <1>1. CASE Refuse
    BY <1>0, <1>1 DEF Refuse, Runner, world, group
  <1>2. CASE Begin
    <2>1. me.at = "check" /\ Point(1, FALSE) /\ note' = note /\ recorded' = recorded /\ opts' = opts
      BY <1>2 DEF Begin, world
    <2>2. note.lines \subseteq recorded
      BY <2>1
    <2> QED BY <1>0, <2>1, <2>2, PointLeads
  <1>3. CASE Create
    <2>1. note'.lines = logged'
      BY <1>0, <1>3 DEF Create, Notes
    <2>2. me.at = "create" /\ (StepEnds(TRUE) \/ StepEnds(FALSE))
      BY <1>3 DEF Create
    <2>3. /\ me'.at \in {"run", "look", "measure", "harvest"} /\ me'.outcome = me.outcome
      BY <1>0, <2>2, StepLeads
    <2> QED BY <1>0, <2>1, <2>2, <2>3
  <1>4. ASSUME NEW ok \in BOOLEAN, StepEnds(ok), me.at \in Open,
               note'.lines \subseteq Readable'
        PROVE  KeptInv'
    BY <1>0, <1>4, StepLeads
  <1>5. CASE Run
    <2>1. PICK exit, printed :
            /\ Judged(exit, printed)
            /\ note' = [note EXCEPT !.lapses = @ \cup Lapse(TheStep, exit, printed),
                                    !.lines = logged' \cup recorded', !.excused = @ \cup (standing' \cap {0})]
      BY <1>5, RunMeans
    <2>2. me.at = "run" /\ note'.lines \subseteq Readable'
      BY <1>0, <1>5, <2>1, RunMeans DEF Notes
    <2>3. AsExpected(TheStep, exit, printed) \in BOOLEAN
      BY DEF AsExpected
    <2>4. CASE me' = [me EXCEPT !.at = "look"]
      BY <1>0, <2>2, <2>4 DEF Runner
    <2>5. CASE me' = [me EXCEPT !.at = "within"]
      BY <1>0, <2>2, <2>5 DEF Runner
    <2>6. CASE StepEnds(FALSE)
      BY <1>4, <2>2, <2>6
    <2>7. CASE StepEnds(AsExpected(TheStep, exit, printed))
      BY <1>4, <2>2, <2>3, <2>7
    <2> QED BY <2>1, <2>4, <2>5, <2>6, <2>7 DEF Judged
  <1>6. CASE Within
    <2> DEFINE fast == recorded' # {} /\ \A i \in recorded' : changes[i] = "fast"
    <2>1. me.at = "within" /\ note'.lines \subseteq Readable'
      BY <1>0, <1>6, ReadType DEF Within, Notes, group
    <2>2. fast \in BOOLEAN /\ (StepEnds(fast) \/ StepEnds(FALSE))
      BY <1>6 DEF Within
    <2> HIDE DEF fast
    <2> QED BY <1>4, <2>1, <2>2
  <1>7. CASE Look
    BY <1>0, <1>7 DEF Look, Runner, Notes, world, group
  <1>8. CASE WaitMet
    BY <1>0, <1>4, <1>8 DEF WaitMet, Notes, world, group
  <1>9. CASE WaitGoesOn
    <2>1. me.at = "look" /\ note'.lines = Readable /\ UNCHANGED <<logged, recorded>>
      BY <1>0, <1>9 DEF WaitGoesOn, Notes, world, group
    <2>2. CASE StepEnds(FALSE)
      BY <1>0, <1>4, <2>1, <2>2
    <2>3. CASE me' = [me EXCEPT !.slot = 1, !.seen = Unread]
      BY <1>0, <2>1, <2>3 DEF Runner
    <2> QED BY <1>9, <2>2, <2>3 DEF WaitGoesOn
  <1>10. CASE Measure
    BY <1>0, <1>10, ReadType DEF Measure, Runner, group
  <1>11. CASE Harvest
    <2>1. note'.lines = note.lines /\ me.at = "harvest" /\ me' = [me EXCEPT !.at = "destroy"]
      BY <1>0, <1>11 DEF Harvest, Notes
    <2>2. note'.silent \/ recorded' = recorded \cup logged
      BY <1>0, <1>11 DEF Harvest, Whole, Notes
    <2> QED BY <1>0, <2>1, <2>2 DEF Runner
  <1>12. CASE Destroy
    <2> DEFINE any == me.anyFailed \/ me.failed
    <2>1. any \in BOOLEAN /\ me.point + 1 \in Nat /\ Point(me.point + 1, any)
      BY <1>0, <1>12 DEF Destroy, Runner
    <2>2. /\ me.at = "destroy" /\ opts' = opts /\ note'.lines = note.lines /\ note'.silent = note.silent
          /\ recorded' = recorded \/ opts.purge
      BY <1>0, <1>12 DEF Destroy, Notes
    <2> HIDE DEF any
    <2> QED BY <1>0, <2>1, <2>2, PointLeads
  <1>13. CASE Late
    BY <1>0, <1>13 DEF Late, Runner, world, group
  <1>14. CASE Move
    <2>1. logged \subseteq logged'
      BY <1>14, MovesType DEF Move
    <2>2. me' = me /\ recorded' = recorded /\ opts' = opts /\ note'.lines = note.lines /\ note'.silent = note.silent
      BY <1>0, <1>14 DEF Move, Notes
    <2> QED BY <1>0, <2>1, <2>2
  <1>15. CASE Killed
    BY <1>0, <1>15 DEF Killed, Runner, world, group
  <1>16. CASE UNCHANGED vars
    BY <1>16 DEF vars, world, group
  <1> QED
    BY <1>1, <1>2, <1>3, <1>5, <1>6, <1>7, <1>8, <1>9, <1>10, <1>11, <1>12, <1>13, <1>14, <1>15, <1>16
    DEF Next, Proceed, Over

(* The record of a run that is over holds every role change that was in    *)
(* it or in the logs when its last step was judged, though the logs went   *)
(* with the cluster; unless it was purged, or could not be closed          *)
(* (scenario.go:512-525).                                                  *)
THEOREM KeptCorrect == Spec => []KeptIsWhole
  <1>1. Init => KeptInv
    BY DEF Init, KeptInv, KeptIsWhole, At, Open, Readable
  <1>2. KeptInv => KeptIsWhole
    BY DEF KeptInv
  <1> QED BY <1>1, <1>2, KeptStep, TypeCorrect, PTL DEF Spec

-----------------------------------------------------------------------------
(* Waits.  A pass that nothing came between has read the group as it is.   *)

LEMMA StepAnew ==
  ASSUME me \in Runner, NEW ok, StepEnds(ok)
  PROVE  /\ me'.slot = 1 /\ me'.point = me.point /\ me'.outcome = me.outcome
         /\ me'.at \in {"run", "look", "measure", "harvest"}
  <1>1. Follows(me.step + 1, ~ok) \in {"run", "look", "measure", "harvest"}
    BY DEF Follows
  <1> DEFINE at == Follows(me.step + 1, ~ok)
             failed == ~ok
  <1>2. me' = [me EXCEPT !.at = at, !.step = @ + 1, !.failed = failed,
                         !.slot = 1, !.seen = Unread, !.late = FALSE]
    BY DEF StepEnds
  <1>3. at \in {"run", "look", "measure", "harvest"}
    BY <1>1
  <1> HIDE DEF at, failed
  <1> QED BY <1>2, <1>3 DEF Runner

LookInv ==
  /\ me.slot \in 1..3
  /\ me.at \notin {"look", "over"} => me.slot = 1
  /\ me.at = "look" /\ note.still => \A n \in Nodes : n < me.slot => me.seen[n] = roles[n]

LEMMA NextNode ==
  \A s \in Nodes : s + 1 \in 1..3 /\ \A n \in Nodes : n < s + 1 => n = s \/ (n < s /\ s # 1)
  BY DEF Nodes

LEMMA LookBegins ==
  ASSUME me'.slot = 1 PROVE LookInv'
  <1>1. \A n \in Nodes : ~(n < 1)
    BY DEF Nodes
  <1> QED BY <1>1 DEF LookInv

LEMMA LookStep == TypeOK /\ LookInv /\ [Next]_vars => LookInv'
  <1> SUFFICES ASSUME TypeOK, LookInv, [Next]_vars PROVE LookInv'
    OBVIOUS
  <1>0. me \in Runner /\ note \in Notes
    BY DEF TypeOK
  <1>1. ASSUME NEW ok, StepEnds(ok) PROVE LookInv'
    BY <1>0, <1>1, StepAnew, LookBegins
  <1>2. ASSUME me' = [me EXCEPT !.at = me'.at], me.at \notin {"look", "over"} PROVE LookInv'
    <2>1. me'.slot = 1
      BY <1>0, <1>2 DEF LookInv, Runner
    <2> QED BY <2>1, LookBegins
  <1>3. CASE Refuse \/ Measure \/ Harvest
    <2>1. me.at \notin {"look", "over"} /\ me' = [me EXCEPT !.at = me'.at, !.outcome = me'.outcome]
      BY <1>0, <1>3 DEF Refuse, Measure, Harvest, At, Runner
    <2>2. me'.slot = 1
      BY <1>0, <2>1 DEF LookInv, Runner
    <2> QED BY <2>2, LookBegins
  <1>4. CASE Begin \/ Destroy
    <2>1. me.slot = 1
      BY <1>4 DEF Begin, Destroy, At, LookInv
    <2>2. PICK p, any : Point(p, any)
      BY <1>4 DEF Begin, Destroy
    <2>3. me'.slot = me.slot
      BY <1>0, <2>2 DEF Point, Runner
    <2> QED BY <2>1, <2>3, LookBegins
  <1>5. CASE Create
    BY <1>1, <1>5 DEF Create
  <1>6. CASE Run
    <2>1. PICK exit, printed : Judged(exit, printed)
      BY <1>6, RunMeans
    <2>2. CASE \E at \in {"look", "within"} : me' = [me EXCEPT !.at = at]
      <3>1. me.slot = 1 /\ me'.slot = me.slot
        BY <1>0, <1>6, <2>2 DEF Run, At, LookInv, Runner
      <3> QED BY <3>1, LookBegins
    <2> QED BY <1>1, <2>1, <2>2 DEF Judged
  <1>7. CASE Within
    BY <1>1, <1>7 DEF Within
  <1>8. CASE Look
    <2>1. PICK got \in {roles[me.slot], ""} :
            /\ me' = [me EXCEPT !.seen[me.slot] = got, !.slot = @ + 1]
            /\ note' = [note EXCEPT !.still = (@ \/ me.slot = 1) /\ got = roles[me.slot]]
      BY <1>8 DEF Look
    <2>2. me.at = "look" /\ me.slot \in Nodes /\ roles' = roles
      BY <1>8 DEF Look, At, world, group
    <2> DEFINE still == (note.still \/ me.slot = 1) /\ got = roles[me.slot]
    <2>3. note' = [note EXCEPT !.still = still]
      BY <2>1
    <2>4. still => (note.still \/ me.slot = 1) /\ got = roles[me.slot]
      OBVIOUS
    <2> HIDE DEF still
    <2>5. note'.still = still
      BY <1>0, <2>3 DEF Notes
    <2>6. me'.at = "look" /\ me'.slot = me.slot + 1 /\ me'.seen = [me.seen EXCEPT ![me.slot] = got]
      BY <1>0, <2>1, <2>2 DEF Runner
    <2>7. \A n \in Nodes : me'.seen[n] = IF n = me.slot THEN got ELSE me.seen[n]
      BY <1>0, <2>6 DEF Runner
    <2>8. \A n \in Nodes : n < me'.slot => n = me.slot \/ (n < me.slot /\ me.slot # 1)
      BY <2>2, <2>6, NextNode
    <2>9. me'.slot \in 1..3
      BY <2>2, <2>6, NextNode
    <2>10. ASSUME still, NEW n \in Nodes, n < me'.slot PROVE me'.seen[n] = roles[n]
      BY <2>2, <2>4, <2>7, <2>8, <2>10 DEF LookInv
    <2> QED BY <2>2, <2>5, <2>6, <2>9, <2>10 DEF LookInv
  <1>9. CASE WaitMet
    BY <1>1, <1>9 DEF WaitMet
  <1>10. CASE WaitGoesOn
    <2>1. CASE me' = [me EXCEPT !.slot = 1, !.seen = Unread]
      BY <1>0, <2>1, LookBegins DEF Runner
    <2> QED BY <1>1, <1>10, <2>1 DEF WaitGoesOn
  <1>11. CASE Late
    <2>1. me'.at = me.at /\ me'.slot = me.slot /\ me'.seen = me.seen /\ UNCHANGED <<roles, note>>
      BY <1>0, <1>11 DEF Late, Runner, world, group
    <2> QED BY <2>1 DEF LookInv
  <1>12. CASE Move
    <2>1. note'.still = FALSE /\ me' = me
      BY <1>0, <1>12 DEF Move, Notes
    <2> QED BY <2>1 DEF LookInv
  <1>13. CASE Killed
    <2>1. me'.at = "over" /\ me'.slot = me.slot
      BY <1>0, <1>13 DEF Killed, Runner
    <2> QED BY <2>1 DEF LookInv
  <1>14. CASE UNCHANGED vars
    BY <1>14 DEF vars, world, group, LookInv
  <1> QED
    BY <1>3, <1>4, <1>5, <1>6, <1>7, <1>8, <1>9, <1>10, <1>11, <1>12, <1>13, <1>14
    DEF Next, Proceed, Over

(* A wait that ends well was true of the group: what it was judged by, and *)
(* which role the master was created with, if no role changed and every    *)
(* node answered while its last pass was reading (scenario.go:812-930).    *)
THEOREM WaitCorrect == Spec => WaitTrueIfStill
  <1>1. Init => LookInv
    <2> SUFFICES ASSUME Init PROVE LookInv
      OBVIOUS
    <2>1. me.slot = 1 /\ me.at = "check"
      BY DEF Init
    <2> QED BY <2>1 DEF LookInv
  <1>2. ASSUME TypeOK, LookInv, WaitMet, note.still PROVE Holds(TheStep.await)
    <2>1. me.at = "look" /\ me.slot \notin Nodes /\ Met(TheStep.await, me.seen)
      BY <1>2 DEF WaitMet, Answered, At
    <2>2. \A n \in Nodes : me.seen[n] = roles[n]
      <3>1. me.slot = 3
        BY <1>2, <2>1 DEF LookInv, Nodes
      <3>2. \A n \in Nodes : n < 3
        BY DEF Nodes
      <3> QED BY <1>2, <2>1, <3>1, <3>2 DEF LookInv
    <2> DEFINE cond == TheStep.await
               now == {n \in Nodes : roles[n] = "active"}
    <2>3. masters(me.seen) = now /\ standbys(me.seen) = {n \in Nodes : roles[n] = "standby"}
      BY <2>2 DEF masters, standbys
    <2>4. ASSUME cond.masterIs # "" PROVE \E n \in Nodes : roles[n] = "active" /\ Created(n) = cond.masterIs
      <3>1. cond.masterIs = createdAs(me.seen)
        BY <2>1, <2>4 DEF Met
      <3>2. masters(me.seen) # {}
        BY <2>4, <3>1 DEF createdAs
      <3> DEFINE m == CHOOSE n \in masters(me.seen) : \A k \in masters(me.seen) : k <= n
      <3>3. \E n \in masters(me.seen) : \A k \in masters(me.seen) : k <= n
        <4>1. masters(me.seen) \subseteq {1, 2}
          BY DEF masters, Nodes
        <4>2. CASE 2 \in masters(me.seen)
          BY <4>1, <4>2
        <4>3. CASE 2 \notin masters(me.seen)
          BY <3>2, <4>1, <4>3
        <4> QED BY <4>2, <4>3
      <3>4. m \in masters(me.seen)
        BY <3>3
      <3>5. createdAs(me.seen) = Created(m)
        BY <3>2 DEF createdAs
      <3> HIDE DEF m
      <3> QED BY <2>3, <3>1, <3>4, <3>5
    <2>5. /\ cond.masters # Anything => cond.masters = Cardinality(now)
          /\ cond.standbys # Anything => cond.standbys = Cardinality({n \in Nodes : roles[n] = "standby"})
      BY <2>1, <2>3 DEF Met
    <2> HIDE DEF cond, now
    <2> QED BY <2>4, <2>5 DEF Holds, cond, now
  <1>3. TypeOK /\ LookInv /\ [Next]_vars => [WaitMet /\ note.still => Holds(TheStep.await)]_vars
    BY <1>2
  <1>4. Spec => [](TypeOK /\ LookInv)
    BY <1>1, LookStep, TypeCorrect, PTL DEF Spec
  <1> QED BY <1>3, <1>4, PTL DEF Spec, WaitTrueIfStill

=============================================================================
