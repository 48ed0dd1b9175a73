---------------------------- MODULE RolesProofs ----------------------------
(* Theorems about Roles, for every group, every set of processes and every *)
(* bound.                                                                  *)
EXTENDS Roles, TLAPS

LEMMA FirstNode == 1 \in DBNodes /\ 1 \in 1..(NNodes + 1)
BY RolesAssumption DEF DBNodes

(* What a client keeps is a ClientState whatever it turns to.              *)
LEMMA UnreadType == Unread \in [DBNodes -> ServerStates]
BY DEF Unread, ServerStates

Outcomes == {"none", "nothing", "error", "timeout", "promoted", "verified", "unverified"}

LEMMA FreshType ==
  ASSUME NEW result \in Outcomes
  PROVE  Fresh \in ClientState /\ [Fresh EXCEPT !.outcome = result] \in ClientState
<1>1. 0 \in 0..StuckLimit
  BY RolesAssumption
<1>2. QED
  BY <1>1, FirstNode, UnreadType DEF Fresh, ClientState, Phases, Outcomes

LEMMA ReadingType ==
  ASSUME NEW me \in ClientState, NEW purpose \in {"decide", "watch", "verify"}
  PROVE  Reading(me, purpose) \in ClientState
BY FirstNode, UnreadType DEF Reading, ClientState, Phases

LEMMA GoingType ==
  ASSUME NEW me \in ClientState, NEW phase \in Phases
  PROVE  Going(me, phase) \in ClientState
BY FirstNode, UnreadType DEF Going, ClientState

LEMMA VerifyingType ==
  ASSUME NEW me \in ClientState
  PROVE  Verifying(me) \in ClientState
<1>1. Reading(me, "verify") \in ClientState
  BY ReadingType
<1>2. QED
  BY <1>1 DEF Verifying, ClientState

LEMMA OneClient ==
  ASSUME TypeOK, NEW c \in Clients, NEW me \in ClientState, Becomes(c, me)
  PROVE  cli' \in [Clients -> ClientState]
BY DEF TypeOK, Becomes

LEMMA ReturnKeeps ==
  ASSUME TypeOK, NEW c \in Clients, NEW result \in Outcomes, Return(c, result)
  PROVE  cli' \in [Clients -> ClientState]
<1>1. [Fresh EXCEPT !.outcome = result] \in ClientState
  BY FreshType
<1>2. QED
  BY <1>1, OneClient DEF Return

LEMMA GoOnKeeps ==
  ASSUME TypeOK, NEW c \in Clients, NEW me \in ClientState, GoOn(c, me)
  PROVE  cli' \in [Clients -> ClientState]
<1>1. Reading(me, "watch") \in ClientState
  BY ReadingType
<1>2. "error" \in Outcomes /\ "timeout" \in Outcomes
  BY DEF Outcomes
<1>3. CASE me.current = 0
  BY <1>2, <1>3, ReturnKeeps DEF GoOn
<1>4. CASE me.current # 0 /\ me.clock = "fresh"
  BY <1>1, <1>4, OneClient DEF GoOn
<1>5. CASE me.current # 0 /\ me.clock # "fresh"
  BY <1>2, <1>5, ReturnKeeps DEF GoOn
<1>6. QED
  BY <1>3, <1>4, <1>5

LEMMA ClientType ==
  ASSUME TypeOK, NEW c \in Clients
  PROVE  cli[c] \in ClientState
BY DEF TypeOK

(* A step of a client that touches nothing but what it keeps itself.       *)
LEMMA Locally ==
  ASSUME TypeOK, cli' \in [Clients -> ClientState], UNCHANGED <<engine, doors, events, mishaps>>
  PROVE  TypeOK'
BY DEF TypeOK, engine, doors

-----------------------------------------------------------------------------
(* Steps of the clients.                                                   *)

LEMMA BeginType ==
  ASSUME TypeOK, NEW c \in Clients, Begin(c)
  PROVE  TypeOK'
<1>1. PICK verb \in {"promote", "failback"}, t \in DBNodes, option \in BOOLEAN :
        Becomes(c, [Reading(Fresh, "decide") EXCEPT
          !.verb = verb, !.target = t,
          !.forced = option /\ verb = "promote", !.quiesce = option /\ verb = "failback" /\ WithBroker])
  BY DEF Begin
<1>2. Reading(Fresh, "decide") \in ClientState
  BY FreshType, ReadingType DEF Outcomes
<1>3. (option /\ verb = "promote") \in BOOLEAN /\ (option /\ verb = "failback" /\ WithBroker) \in BOOLEAN
  OBVIOUS
<1>4. [Reading(Fresh, "decide") EXCEPT
          !.verb = verb, !.target = t,
          !.forced = option /\ verb = "promote", !.quiesce = option /\ verb = "failback" /\ WithBroker]
      \in ClientState
  BY <1>2, <1>3 DEF ClientState
<1>5. cli' \in [Clients -> ClientState]
  BY <1>1, <1>4, OneClient
<1>6. mishaps' \subseteq Mishaps
  BY DEF Begin, TypeOK, Mishaps
<1>7. QED
  BY <1>5, <1>6 DEF Begin, TypeOK, engine, doors

LEMMA ReadType ==
  ASSUME TypeOK, NEW c \in Clients, ReadNode(c)
  PROVE  TypeOK'
<1>0. cli[c] \in ClientState
  BY ClientType
<1>1. CASE MoreNodes(c)
  <2> DEFINE read == IF Expired(c) THEN "" ELSE server[Slot(c)]
  <2>1. Slot(c) \in DBNodes /\ Slot(c) + 1 \in 1..(NNodes + 1)
    BY <1>1, RolesAssumption DEF MoreNodes, DBNodes
  <2>2. read \in ServerStates
    BY <2>1 DEF TypeOK, ServerStates
  <2>3. [cli[c] EXCEPT !.slot = @ + 1, !.seen[Slot(c)] = read] \in ClientState
    BY <1>0, <2>1, <2>2 DEF ClientState, Slot
  <2>4. Becomes(c, [cli[c] EXCEPT !.slot = @ + 1, !.seen[Slot(c)] = read])
    BY <1>1 DEF ReadNode
  <2>5. cli' \in [Clients -> ClientState]
    BY <2>3, <2>4, OneClient
  <2>6. QED
    BY <2>5, Locally DEF ReadNode
<1>2. CASE ~MoreNodes(c)
  <2>1. [cli[c] EXCEPT !.at = cli[c].then] \in ClientState
    BY <1>0 DEF ClientState, Phases
  <2>2. cli' \in [Clients -> ClientState]
    BY <1>2, <2>1, OneClient DEF ReadNode
  <2>3. QED
    BY <2>2, Locally DEF ReadNode
<1>3. QED
  BY <1>1, <1>2

LEMMA DecideType ==
  ASSUME TypeOK, NEW c \in Clients, Decide(c)
  PROVE  TypeOK'
<1>0. cli[c] \in ClientState
  BY ClientType
<1>1. CASE DecideNothing(c)
  <2>1. Return(c, "nothing") \/ Return(c, "error")
    BY <1>1 DEF DecideNothing
  <2>2. cli' \in [Clients -> ClientState]
    BY <2>1, ReturnKeeps DEF Outcomes
  <2>3. QED
    BY <1>1, <2>2, Locally DEF DecideNothing
<1>2. CASE DecideStalled(c)
  <2>1. PICK n \in toBeActive(c) : Becomes(c, [Going(cli[c], "blocker") EXCEPT !.target = n])
    BY <1>2 DEF DecideStalled
  <2>2. Going(cli[c], "blocker") \in ClientState
    BY <1>0, GoingType DEF Phases
  <2>3. [Going(cli[c], "blocker") EXCEPT !.target = n] \in ClientState
    BY <2>2 DEF ClientState, toBeActive
  <2>4. cli' \in [Clients -> ClientState]
    BY <2>1, <2>3, OneClient
  <2>5. QED
    BY <1>2, <2>4, Locally DEF DecideStalled
<1>3. CASE DecideMove(c)
  <2> DEFINE phase == IF cli[c].verb = "promote" THEN "stop" ELSE "confirm"
  <2>1. PICK n \in DBNodes : Becomes(c, [Going(cli[c], phase) EXCEPT !.current = n])
    BY <1>3 DEF DecideMove
  <2>2. Going(cli[c], phase) \in ClientState
    BY <1>0, GoingType DEF Phases
  <2>3. [Going(cli[c], phase) EXCEPT !.current = n] \in ClientState
    BY <2>2 DEF ClientState
  <2>4. cli' \in [Clients -> ClientState]
    BY <2>1, <2>3, OneClient
  <2>5. QED
    BY <1>3, <2>4, Locally DEF DecideMove
<1>4. CASE Confirm(c)
  <2> DEFINE phase == IF cli[c].quiesce THEN "quiesce" ELSE "stop"
  <2>1. Going(cli[c], phase) \in ClientState
    BY <1>0, GoingType DEF Phases
  <2>2. cli' \in [Clients -> ClientState]
    BY <1>4, <2>1, OneClient, ReturnKeeps DEF Confirm, Outcomes
  <2>3. QED
    BY <1>4, <2>2, Locally DEF Confirm
<1>5. QED
  BY <1>1, <1>2, <1>3, <1>4 DEF Decide

LEMMA takeMasterAwayType ==
  ASSUME TypeOK, NEW c \in Clients, takeMasterAway(c) \/ IssueStop(c)
  PROVE  TypeOK'
<1>0. cli[c] \in ClientState
  BY ClientType
<1>1. CASE TakeAway(c)
  <2>1. Reading(cli[c], "watch") \in ClientState
    BY <1>0, ReadingType
  <2>2. cli' \in [Clients -> ClientState]
    BY <1>1, <2>1, OneClient DEF TakeAway
  <2>3. QED
    BY <1>1, <2>2, Locally DEF TakeAway
<1>2. CASE WatchMoved(c)
  <2>1. Going(cli[c], "service") \in ClientState
    BY <1>0, GoingType DEF Phases
  <2>2. cli' \in [Clients -> ClientState]
    BY <1>2, <2>1, OneClient, ReturnKeeps DEF WatchMoved, Outcomes
  <2>3. QED
    BY <1>2, <2>2, Locally DEF WatchMoved
<1>3. CASE WatchStalled(c)
  <2>1. Sighted(c) \in ClientState
    BY <1>0, RolesAssumption DEF Sighted, ClientState
  <2>2. Going(Sighted(c), "complete") \in ClientState
    BY <2>1, GoingType DEF Phases
  <2>3. cli' \in [Clients -> ClientState]
    BY <1>3, <2>1, <2>2, OneClient, GoOnKeeps DEF WatchStalled
  <2>4. QED
    BY <1>3, <2>3, Locally DEF WatchStalled
<1>4. CASE WatchIdle(c)
  <2>1. cli' \in [Clients -> ClientState]
    BY <1>0, <1>4, GoOnKeeps DEF WatchIdle
  <2>2. QED
    BY <1>4, <2>1, Locally DEF WatchIdle
<1>5. CASE IssueStop(c)
  <2>1. [cli[c] EXCEPT !.issued = TRUE] \in ClientState
    BY <1>0 DEF ClientState
  <2>2. cli' \in [Clients -> ClientState]
    BY <1>5, <2>1, OneClient DEF IssueStop
  <2>3. stopping' \subseteq DBNodes
    BY <1>0, <1>5 DEF IssueStop, TypeOK, ClientState
  <2>4. QED
    BY <1>5, <2>2, <2>3 DEF IssueStop, TypeOK, doors
<1>6. QED
  BY <1>1, <1>2, <1>3, <1>4, <1>5 DEF takeMasterAway

LEMMA CompletePromotionType ==
  ASSUME TypeOK, NEW c \in Clients, CompletePromotion(c)
  PROVE  TypeOK'
<1>0. cli[c] \in ClientState
  BY ClientType
<1>1. CASE Unanswered(c) \/ Blocked(c)
  <2>1. GoOn(c, cli[c]) /\ UNCHANGED <<engine, doors, events, mishaps>>
    BY <1>1 DEF Unanswered, Blocked
  <2>2. cli' \in [Clients -> ClientState]
    BY <1>0, <2>1, GoOnKeeps
  <2>3. QED
    BY <2>1, <2>2, Locally
<1>2. CASE Unblocked(c)
  <2> DEFINE phase == IF At(c, "blocker") THEN "complete" ELSE "changemode"
  <2>1. Going(cli[c], phase) \in ClientState
    BY <1>0, GoingType DEF Phases
  <2>2. cli' \in [Clients -> ClientState]
    BY <1>2, <2>1, OneClient DEF Unblocked
  <2>3. QED
    BY <1>2, <2>2, Locally DEF Unblocked
<1>3. CASE Changemode(c)
  <2>1. Reading(cli[c], "watch") \in ClientState
    BY <1>0, ReadingType
  <2>2. \/ Return(c, "promoted") \/ Becomes(c, Reading(cli[c], "watch"))
        \/ GoOn(c, cli[c])
    BY <1>3 DEF Changemode
  <2>3. cli' \in [Clients -> ClientState]
    BY <1>0, <2>1, <2>2, OneClient, ReturnKeeps, GoOnKeeps DEF Outcomes
  <2>4. server' \in [DBNodes -> ServerStates]
    BY <1>3 DEF Changemode, TypeOK, ServerStates
  <2>5. QED
    BY <1>3, <2>3, <2>4 DEF Changemode, TypeOK, doors
<1>4. QED
  BY <1>1, <1>2, <1>3 DEF CompletePromotion

LEMMA DoorsType ==
  ASSUME TypeOK, NEW c \in Clients, Doors(c)
  PROVE  TypeOK'
<1>0. cli[c] \in ClientState
  BY ClientType
<1>1. MoreNodes(c) => [cli[c] EXCEPT !.slot = @ + 1] \in ClientState
  <2>1. MoreNodes(c) => Slot(c) + 1 \in 1..(NNodes + 1)
    BY RolesAssumption DEF MoreNodes, DBNodes
  <2>2. QED
    BY <1>0, <2>1 DEF ClientState, Slot
<1>2. CASE Quiesce(c)
  <2>1. cli' \in [Clients -> ClientState]
    BY <1>1, <1>2, OneClient, ReturnKeeps DEF Quiesce, Outcomes
  <2>2. door' \in [DBNodes -> BOOLEAN] /\ mishaps' \subseteq Mishaps
    BY <1>2 DEF Quiesce, TypeOK, Mishaps
  <2>3. QED
    BY <1>2, <2>1, <2>2 DEF Quiesce, TypeOK, engine
<1>3. CASE Quiesced(c)
  <2>1. Going(cli[c], "stop") \in ClientState
    BY <1>0, GoingType DEF Phases
  <2>2. cli' \in [Clients -> ClientState]
    BY <1>3, <2>1, OneClient DEF Quiesced
  <2>3. QED
    BY <1>3, <2>2 DEF Quiesced, TypeOK, engine
<1>4. CASE Resume(c)
  <2>1. cli' \in [Clients -> ClientState]
    BY <1>1, <1>4, OneClient DEF Resume
  <2>2. door' \in [DBNodes -> BOOLEAN]
    BY <1>4 DEF Resume, TypeOK
  <2>3. QED
    BY <1>4, <2>1, <2>2 DEF Resume, TypeOK, engine
<1>5. CASE Resumed(c)
  <2>1. Going(cli[c], "door") \in ClientState
    BY <1>0, GoingType DEF Phases
  <2>2. cli' \in [Clients -> ClientState]
    BY <1>5, <2>1, OneClient DEF Resumed
  <2>3. QED
    BY <1>5, <2>2 DEF Resumed, TypeOK, engine
<1>6. CASE OpenDoor(c)
  <2>1. Verifying(cli[c]) \in ClientState
    BY <1>0, VerifyingType
  <2>2. cli' \in [Clients -> ClientState]
    BY <1>6, <2>1, OneClient DEF OpenDoor
  <2>3. broker' \in [DBNodes -> BOOLEAN]
    BY <1>6 DEF OpenDoor, TypeOK
  <2>4. QED
    BY <1>6, <2>2, <2>3 DEF OpenDoor, TypeOK, engine
<1>7. QED
  BY <1>2, <1>3, <1>4, <1>5, <1>6 DEF Doors

LEMMA EmptiedType ==
  ASSUME TypeOK, NEW n, Emptied(n)
  PROVE  /\ server' \in [DBNodes -> ServerStates]
         /\ hb' \in [DBNodes -> {"off", "on", "deactivated"}]
         /\ stopping' \subseteq DBNodes
         /\ broker' \in [DBNodes -> BOOLEAN] /\ door' \in [DBNodes -> BOOLEAN]
BY DEF Emptied, TypeOK, ServerStates

LEMMA RejoinType ==
  ASSUME TypeOK, NEW c \in Clients, Rejoin(c)
  PROVE  TypeOK'
<1>0. cli[c] \in ClientState
  BY ClientType
<1>1. CASE ServiceStop(c)
  <2>1. Going(cli[c], "heartbeat") \in ClientState
    BY <1>0, GoingType DEF Phases
  <2>2. cli' \in [Clients -> ClientState]
    BY <1>1, <2>1, OneClient DEF ServiceStop
  <2>3. CASE Emptied(cli[c].current)
    BY <1>1, <2>2, <2>3, EmptiedType DEF ServiceStop, TypeOK
  <2>4. CASE UNCHANGED <<server, hb, stopping, broker, door>>
    BY <1>1, <2>2, <2>4 DEF ServiceStop, TypeOK
  <2>5. QED
    BY <1>1, <2>3, <2>4 DEF ServiceStop
<1>2. CASE HeartbeatStart(c)
  <2>1. Going(cli[c], "broker") \in ClientState /\ Verifying(cli[c]) \in ClientState
    BY <1>0, GoingType, VerifyingType DEF Phases
  <2>2. cli' \in [Clients -> ClientState]
    BY <1>2, <2>1, OneClient, ReturnKeeps DEF HeartbeatStart, Outcomes
  <2>3. hb' \in [DBNodes -> {"off", "on", "deactivated"}]
    BY <1>2 DEF HeartbeatStart, TypeOK
  <2>4. QED
    BY <1>2, <2>2, <2>3 DEF HeartbeatStart, TypeOK, doors
<1>3. CASE BrokerStart(c)
  <2> DEFINE phase == IF cli[c].quiesce THEN "resume" ELSE "door"
  <2>1. Going(cli[c], phase) \in ClientState
    BY <1>0, GoingType DEF Phases
  <2>2. cli' \in [Clients -> ClientState]
    BY <1>3, <2>1, OneClient DEF BrokerStart
  <2>3. broker' \in [DBNodes -> BOOLEAN]
    BY <1>3 DEF BrokerStart, TypeOK
  <2>4. QED
    BY <1>3, <2>2, <2>3 DEF BrokerStart, TypeOK, engine
<1>4. QED
  BY <1>1, <1>2, <1>3 DEF Rejoin

LEMMA CheckType ==
  ASSUME TypeOK, NEW c \in Clients, Check(c)
  PROVE  TypeOK'
<1>0. cli[c] \in ClientState
  BY ClientType
<1>1. /\ Going(cli[c], "insert") \in ClientState /\ Going(cli[c], "select") \in ClientState
      /\ Reading(cli[c], "verify") \in ClientState
  BY <1>0, GoingType, ReadingType DEF Phases
<1>2. \/ Return(c, "verified") \/ Return(c, "unverified")
      \/ Becomes(c, Going(cli[c], "insert")) \/ Becomes(c, Going(cli[c], "select"))
      \/ Becomes(c, Reading(cli[c], "verify"))
  BY DEF Check, Verify, Insert, Select
<1>3. cli' \in [Clients -> ClientState]
  BY <1>1, <1>2, OneClient, ReturnKeeps DEF Outcomes
<1>4. UNCHANGED <<engine, doors, events, mishaps>>
  BY DEF Check, Verify, Insert, Select
<1>5. QED
  BY <1>3, <1>4, Locally

LEMMA TroubleType ==
  ASSUME TypeOK, NEW c \in Clients, Trouble(c)
  PROVE  TypeOK'
<1>0. cli[c] \in ClientState
  BY ClientType
<1>1. /\ [cli[c] EXCEPT !.clock = "late"] \in ClientState
      /\ [cli[c] EXCEPT !.clock = "expired"] \in ClientState
  BY <1>0 DEF ClientState
<1>2. \/ Return(c, "none") \/ Becomes(c, [cli[c] EXCEPT !.clock = "late"])
      \/ Becomes(c, [cli[c] EXCEPT !.clock = "expired"])
  BY DEF Trouble, Late, Expire, Interrupted
<1>3. cli' \in [Clients -> ClientState]
  BY <1>1, <1>2, OneClient, ReturnKeeps DEF Outcomes
<1>4. UNCHANGED <<engine, doors, events>> /\ mishaps' \subseteq Mishaps
  BY DEF Trouble, Late, Expire, Interrupted, TypeOK, Mishaps
<1>5. QED
  BY <1>3, <1>4 DEF TypeOK, engine, doors

-----------------------------------------------------------------------------
(* Steps of the nodes.                                                     *)

LEMMA NodeType ==
  ASSUME TypeOK, NEW n \in DBNodes, Kill(n) \/ Start(n)
  PROVE  TypeOK'
<1>1. events' \in 0..MaxEvents
  BY RolesAssumption DEF TypeOK, Kill, Start
<1>2. CASE Kill(n)
  BY <1>1, <1>2, EmptiedType DEF Kill, TypeOK, Mishaps
<1>3. CASE Start(n)
  <2>1. broker' \in [DBNodes -> BOOLEAN]
    BY <1>3, RolesAssumption DEF Start, TypeOK
  <2>2. hb' \in [DBNodes -> {"off", "on", "deactivated"}] /\ door' \in [DBNodes -> BOOLEAN]
    BY <1>3 DEF Start, TypeOK
  <2>3. QED
    BY <1>1, <1>3, <2>1, <2>2 DEF Start, TypeOK, Mishaps
<1>4. QED
  BY <1>2, <1>3

LEMMA EngineType ==
  ASSUME TypeOK, NEW n \in DBNodes, Engine(n)
  PROVE  TypeOK'
<1>1. CASE Deactivate(n)
  BY <1>1 DEF Deactivate, TypeOK, ServerStates, doors
<1>2. CASE Register(n) \/ Elect(n) \/ Promote(n)
  BY <1>2 DEF Register, Elect, Promote, TypeOK, ServerStates, doors
<1>3. CASE Ship(n)
  BY <1>3, RolesAssumption DEF Ship, TypeOK, doors
<1>4. CASE Apply(n)
  <2>1. pages' \in [DBNodes -> 0..MaxPages]
    BY <1>4, RolesAssumption DEF Apply, TypeOK
  <2>2. fail' \in [DBNodes -> BOOLEAN]
    BY <1>4 DEF Apply, TypeOK
  <2>3. QED
    BY <1>4, <2>1, <2>2 DEF Apply, TypeOK, doors
<1>5. QED
  BY <1>1, <1>2, <1>3, <1>4 DEF Engine

(* Every state of Roles is in its declared types.                          *)
THEOREM TypeCorrect == Spec => []TypeOK
<1>1. Init => TypeOK
  <2> SUFFICES ASSUME Init PROVE TypeOK
    OBVIOUS
  <2>1. Fresh \in ClientState
    BY FreshType DEF Outcomes
  <2>2. cli \in [Clients -> ClientState]
    BY <2>1 DEF Init
  <2>3. pages \in [DBNodes -> 0..MaxPages] /\ events \in 0..MaxEvents
    <3>1. 0 \in 0..MaxPages /\ MaxPages \in 0..MaxPages /\ 0 \in 0..MaxEvents
      BY RolesAssumption
    <3>2. QED
      BY <3>1 DEF Init
  <2>4. broker \in [DBNodes -> BOOLEAN]
    BY RolesAssumption DEF Init
  <2>5. QED
    BY <2>2, <2>3, <2>4 DEF Init, TypeOK
<1>2. TypeOK /\ [Next]_vars => TypeOK'
  <2> SUFFICES ASSUME TypeOK, [Next]_vars PROVE TypeOK'
    OBVIOUS
  <2>1. CASE UNCHANGED vars
    BY <2>1 DEF TypeOK, vars, engine, doors
  <2>2. ASSUME NEW c \in Clients, Begin(c) \/ Step(c) \/ IssueStop(c) \/ Trouble(c)
        PROVE  TypeOK'
    BY <2>2, BeginType, ReadType, DecideType, takeMasterAwayType, CompletePromotionType, DoorsType,
       RejoinType, CheckType, TroubleType DEF Step
  <2>3. ASSUME NEW n \in DBNodes, Kill(n) \/ Start(n) \/ Engine(n)
        PROVE  TypeOK'
    BY <2>3, NodeType, EngineType
  <2>4. QED
    BY <2>1, <2>2, <2>3 DEF Next
<1>3. QED
  BY <1>1, <1>2, PTL DEF Spec

-----------------------------------------------------------------------------
(* The doors.                                                              *)

(* Why a shut door is on record: a single command runs and its time is not *)
(* out, so that a resume that has been past a node has opened its door,    *)
(* and takes the record away with every door open.                         *)
Uncut == mishaps \cap {"cut", "overlapped", "refused"} = {}
OneRunning == \A c, d \in Clients : ~At(c, "idle") /\ ~At(d, "idle") => c = d
InTime == \A c \in Clients : ~Expired(c)
Owned == \A n \in DBNodes : door[n] => recorded \/ \E c \in Clients : At(c, "quiesce") /\ n < Slot(c)
Reopening == \A c \in Clients : At(c, "resume") => \A n \in DBNodes : n < Slot(c) => ~door[n]
DoorsInv == Uncut => OneRunning /\ InTime /\ Owned /\ Reopening

(* What client c may turn to and keep DoorsInv: it begins a resume at the  *)
(* first node, and gets on with it in other steps.                         *)
Orderly(c, me) ==
  me.clock # "expired" /\ (me.at = "resume" => me.slot = 1 \/ (At(c, "resume") /\ me.slot = Slot(c)))

LEMMA NodesFromOne == \A n \in DBNodes : n \in Nat /\ ~(n < 1)
BY RolesAssumption DEF DBNodes

LEMMA Others ==
  ASSUME TypeOK, NEW c \in Clients, NEW me, Becomes(c, me)
  PROVE  cli'[c] = me /\ \A d \in Clients : d # c => cli'[d] = cli[d]
BY DEF TypeOK, Becomes

(* A step of a running command that opens doors at most.                   *)
LEMMA Quiet ==
  ASSUME TypeOK, DoorsInv, NEW c \in Clients, NEW me, Becomes(c, me), ~At(c, "idle"),
         InTime => Orderly(c, me), ~At(c, "quiesce"),
         \A n \in DBNodes : door'[n] => door[n], recorded' = recorded, mishaps' = mishaps
  PROVE  DoorsInv'
<1> SUFFICES ASSUME Uncut' PROVE (OneRunning /\ InTime /\ Owned /\ Reopening)'
  BY DEF DoorsInv
<1>1. OneRunning /\ InTime /\ Owned /\ Reopening
  BY DEF DoorsInv, Uncut
<1>2. cli'[c] = me /\ \A d \in Clients : d # c => cli'[d] = cli[d]
  BY Others
<1>3. OneRunning'
  BY <1>1, <1>2 DEF OneRunning, At
<1>4. InTime'
  BY <1>1, <1>2 DEF InTime, Expired, Orderly
<1>5. Owned'
  <2> SUFFICES ASSUME NEW n \in DBNodes, door'[n], ~recorded
               PROVE  \E d \in Clients : At(d, "quiesce")' /\ n < Slot(d)'
    BY DEF Owned
  <2>1. PICK d \in Clients : At(d, "quiesce") /\ n < Slot(d)
    BY <1>1 DEF Owned
  <2>2. d # c
    BY <2>1
  <2>3. QED
    BY <1>2, <2>1, <2>2 DEF At, Slot
<1>6. Reopening'
  <2> SUFFICES ASSUME NEW d \in Clients, At(d, "resume")', NEW n \in DBNodes, n < Slot(d)'
               PROVE  ~door'[n]
    BY DEF Reopening
  <2>1. CASE d = c
    <3>1. n < me.slot /\ me.at = "resume"
      BY <1>2, <2>1 DEF At, Slot
    <3>2. me.slot = 1 \/ (At(c, "resume") /\ me.slot = Slot(c))
      BY <1>1, <3>1 DEF Orderly
    <3>3. CASE me.slot = 1
      BY <3>1, <3>3, NodesFromOne
    <3>4. CASE At(c, "resume") /\ me.slot = Slot(c)
      BY <1>1, <3>1, <3>4 DEF Reopening
    <3>5. QED
      BY <3>2, <3>3, <3>4
  <2>2. CASE d # c
    BY <1>1, <1>2, <2>2 DEF Reopening, At, Slot
  <2>3. QED
    BY <2>1, <2>2
<1>7. QED
  BY <1>3, <1>4, <1>5, <1>6

LEMMA OrderlyReturn == \A c, result : Orderly(c, [Fresh EXCEPT !.outcome = result])
BY DEF Orderly, Fresh

LEMMA OrderlyReading ==
  ASSUME NEW c, NEW me \in ClientState, NEW purpose, me.clock # "expired"
  PROVE  Orderly(c, Reading(me, purpose)) /\ Orderly(c, Verifying(me))
BY DEF Orderly, Reading, Verifying, ClientState

LEMMA OrderlyGoing ==
  ASSUME NEW c, NEW me \in ClientState, NEW phase, me.clock # "expired"
  PROVE  Orderly(c, Going(me, phase))
BY DEF Orderly, Going, ClientState

(* GoOn is one of two.                                                     *)
LEMMA GoOnQuiet ==
  ASSUME TypeOK, DoorsInv, NEW c \in Clients, NEW me \in ClientState, GoOn(c, me), ~At(c, "idle"),
         me.clock = cli[c].clock, ~At(c, "quiesce"),
         \A n \in DBNodes : door'[n] => door[n], recorded' = recorded, mishaps' = mishaps
  PROVE  DoorsInv'
<1>1. CASE \E result : Return(c, result)
  <2>1. PICK result : Becomes(c, [Fresh EXCEPT !.outcome = result])
    BY <1>1 DEF Return
  <2>2. Orderly(c, [Fresh EXCEPT !.outcome = result])
    BY OrderlyReturn
  <2>3. QED
    BY <2>1, <2>2, Quiet
<1>2. CASE Becomes(c, Reading(me, "watch"))
  <2>1. InTime => Orderly(c, Reading(me, "watch"))
    BY OrderlyReading DEF InTime, Expired
  <2>2. QED
    BY <1>2, <2>1, Quiet
<1>3. QED
  BY <1>1, <1>2 DEF GoOn

LEMMA ReturnQuiet ==
  ASSUME TypeOK, DoorsInv, NEW c \in Clients, NEW result, Return(c, result), ~At(c, "idle"),
         ~At(c, "quiesce"),
         \A n \in DBNodes : door'[n] => door[n], recorded' = recorded, mishaps' = mishaps
  PROVE  DoorsInv'
<1>1. Becomes(c, [Fresh EXCEPT !.outcome = result])
  BY DEF Return
<1>2. Orderly(c, [Fresh EXCEPT !.outcome = result])
  BY OrderlyReturn
<1>3. QED
  BY <1>1, <1>2, Quiet

(* Reading, deciding, watching, completing, rejoining, checking: commands  *)
(* at work on other things than the doors.                                 *)
LEMMA WorkQuiet ==
  ASSUME TypeOK, DoorsInv, NEW c \in Clients,
         \/ ReadNode(c) \/ Decide(c) \/ takeMasterAway(c) \/ IssueStop(c) \/ CompletePromotion(c)
         \/ OpenDoor(c) \/ Rejoin(c) \/ Check(c) \/ Late(c)
  PROVE  DoorsInv'
<1>0. cli[c] \in ClientState
  BY ClientType
<1>1. ~At(c, "idle") /\ ~At(c, "quiesce")
  BY <1>0 DEF ReadNode, Decide, DecideNothing, DecideStalled, DecideMove, Confirm, takeMasterAway, TakeAway,
     WatchMoved, WatchStalled, WatchIdle, IssueStop, CompletePromotion, Unanswered, Blocked, Unblocked,
     Changemode, OpenDoor, Rejoin, ServiceStop, HeartbeatStart, BrokerStart, Check, Verify, Insert,
     Select, Late, At
<1>2. (\A n \in DBNodes : door'[n] => door[n]) /\ recorded' = recorded /\ mishaps' = mishaps
  <2>1. CASE ServiceStop(c)
    BY <2>1 DEF ServiceStop, Emptied, TypeOK
  <2>2. CASE ~ServiceStop(c)
    BY <2>2 DEF ReadNode, Decide, DecideNothing, DecideStalled, DecideMove, Confirm, takeMasterAway,
       TakeAway, WatchMoved, WatchStalled, WatchIdle, IssueStop, CompletePromotion, Unanswered, Blocked,
       Unblocked, Changemode, OpenDoor, Rejoin, HeartbeatStart, BrokerStart, Check, Verify,
       Insert, Select, Late, doors
  <2>3. QED
    BY <2>1, <2>2
<1>3. CASE \E result : Return(c, result)
  BY <1>1, <1>2, <1>3, ReturnQuiet
<1>4. CASE GoOn(c, cli[c]) \/ GoOn(c, Sighted(c))
  <2>1. Sighted(c) \in ClientState /\ Sighted(c).clock = cli[c].clock
    BY <1>0, RolesAssumption DEF Sighted, ClientState
  <2>2. QED
    BY <1>0, <1>1, <1>2, <1>4, <2>1, GoOnQuiet
<1>5. CASE \/ \E purpose : Becomes(c, Reading(cli[c], purpose))
           \/ Becomes(c, Verifying(cli[c]))
  <2>1. InTime => Orderly(c, Verifying(cli[c])) /\ \A purpose : Orderly(c, Reading(cli[c], purpose))
    BY <1>0, OrderlyReading DEF InTime, Expired
  <2>2. QED
    BY <1>1, <1>2, <1>5, <2>1, Quiet
<1>6. CASE \E phase : Becomes(c, Going(cli[c], phase)) \/ Becomes(c, Going(Sighted(c), phase))
  <2>1. Sighted(c) \in ClientState /\ Sighted(c).clock = cli[c].clock
    BY <1>0, RolesAssumption DEF Sighted, ClientState
  <2>2. InTime => \A phase : Orderly(c, Going(cli[c], phase)) /\ Orderly(c, Going(Sighted(c), phase))
    BY <1>0, <2>1, OrderlyGoing DEF InTime, Expired
  <2>3. QED
    BY <1>1, <1>2, <1>6, <2>2, Quiet
<1>7. CASE DecideStalled(c) \/ DecideMove(c)
  <2>1. PICK me : Becomes(c, me) /\ \E n, phase : me = [Going(cli[c], phase) EXCEPT !.target = n]
                                             \/ me = [Going(cli[c], phase) EXCEPT !.current = n]
    BY <1>7 DEF DecideStalled, DecideMove
  <2>2. PICK n, phase : \/ me = [Going(cli[c], phase) EXCEPT !.target = n]
                        \/ me = [Going(cli[c], phase) EXCEPT !.current = n]
    BY <2>1
  <2>3. me.clock = cli[c].clock /\ me.slot = 1
    BY <1>0, <2>2 DEF Going, ClientState
  <2>4. InTime => Orderly(c, me)
    BY <2>3 DEF InTime, Expired, Orderly
  <2>5. QED
    BY <1>1, <1>2, <2>1, <2>4, Quiet
<1>8. CASE ReadNode(c)
  <2>1. CASE MoreNodes(c)
    <3> DEFINE me == [cli[c] EXCEPT !.slot = @ + 1,
                                    !.seen[Slot(c)] = IF Expired(c) THEN "" ELSE server[Slot(c)]]
    <3>1. Becomes(c, me) /\ At(c, "read")
      BY <1>8, <2>1 DEF ReadNode
    <3>2. me.clock = cli[c].clock /\ me.at = "read"
      BY <1>0, <3>1 DEF ClientState, At
    <3>3. InTime => Orderly(c, me)
      BY <3>2 DEF InTime, Expired, Orderly
    <3> HIDE DEF me
    <3>4. QED
      BY <1>1, <1>2, <3>1, <3>3, Quiet
  <2>2. CASE ~MoreNodes(c)
    <3> DEFINE me == [cli[c] EXCEPT !.at = cli[c].then]
    <3>1. Becomes(c, me)
      BY <1>8, <2>2 DEF ReadNode
    <3>2. me.clock = cli[c].clock /\ me.at # "resume"
      BY <1>0 DEF ClientState
    <3>3. InTime => Orderly(c, me)
      BY <3>2 DEF InTime, Expired, Orderly
    <3> HIDE DEF me
    <3>4. QED
      BY <1>1, <1>2, <3>1, <3>3, Quiet
  <2>3. QED
    BY <2>1, <2>2
<1>9. CASE IssueStop(c) \/ Late(c)
  <2>1. PICK me : /\ Becomes(c, me) /\ (me.clock = cli[c].clock \/ me.clock = "late")
                  /\ me.at = cli[c].at /\ me.slot = cli[c].slot
    BY <1>0, <1>9 DEF IssueStop, Late, ClientState
  <2>2. InTime => Orderly(c, me)
    BY <2>1 DEF InTime, Expired, Orderly, At, Slot
  <2>3. QED
    BY <1>1, <1>2, <2>1, <2>2, Quiet
<1>10. QED
  BY <1>3, <1>4, <1>5, <1>6, <1>7, <1>8, <1>9 DEF Decide, DecideNothing, Confirm, takeMasterAway,
     TakeAway, WatchMoved, WatchStalled, WatchIdle, CompletePromotion, Unanswered, Blocked, Unblocked,
     Changemode, OpenDoor, Rejoin, ServiceStop, HeartbeatStart, BrokerStart, Check, Verify, Insert, Select

-----------------------------------------------------------------------------
(* The steps that begin, end or mind the doors.                            *)

LEMMA BeginDoors ==
  ASSUME TypeOK, DoorsInv, NEW c \in Clients, Begin(c)
  PROVE  DoorsInv'
<1> SUFFICES ASSUME Uncut' PROVE (OneRunning /\ InTime /\ Owned /\ Reopening)'
  BY DEF DoorsInv
<1>1. Uncut /\ \A d \in Clients : d # c => At(d, "idle")
  BY DEF Begin, Uncut
<1>2. OneRunning /\ InTime /\ Owned /\ Reopening
  BY <1>1 DEF DoorsInv
<1>3. PICK me : Becomes(c, me) /\ me.at = "read" /\ me.clock = "fresh"
  <2>1. PICK verb, t, option :
          Becomes(c, [Reading(Fresh, "decide") EXCEPT
            !.verb = verb, !.target = t,
            !.forced = option /\ verb = "promote", !.quiesce = option /\ verb = "failback" /\ WithBroker])
    BY DEF Begin
  <2>2. /\ Reading(Fresh, "decide") \in ClientState
        /\ Reading(Fresh, "decide").at = "read" /\ Reading(Fresh, "decide").clock = "fresh"
    BY FreshType, ReadingType DEF Outcomes, Reading, Fresh
  <2> DEFINE you == [Reading(Fresh, "decide") EXCEPT
            !.verb = verb, !.target = t,
            !.forced = option /\ verb = "promote", !.quiesce = option /\ verb = "failback" /\ WithBroker]
  <2>3. you.at = "read" /\ you.clock = "fresh"
    BY <2>2 DEF ClientState
  <2>4. Becomes(c, you)
    BY <2>1
  <2> HIDE DEF you
  <2>5. QED
    BY <2>3, <2>4
<1>4. cli'[c] = me /\ \A d \in Clients : d # c => cli'[d] = cli[d]
  BY <1>3, Others
<1>5. At(c, "idle") /\ UNCHANGED <<door, recorded>>
  BY DEF Begin, doors
<1>6. OneRunning'
  BY <1>1, <1>4 DEF OneRunning, At
<1>7. InTime'
  BY <1>2, <1>3, <1>4 DEF InTime, Expired
<1>8. Owned'
  <2> SUFFICES ASSUME NEW n \in DBNodes, door[n], ~recorded
               PROVE  \E d \in Clients : At(d, "quiesce")' /\ n < Slot(d)'
    BY <1>5 DEF Owned
  <2>1. PICK d \in Clients : At(d, "quiesce") /\ n < Slot(d)
    BY <1>2 DEF Owned
  <2>2. At(d, "idle")
    BY <1>1, <1>5
  <2>3. QED
    BY <2>1, <2>2 DEF At
<1>9. Reopening'
  BY <1>1, <1>3, <1>4 DEF Reopening, At
<1>10. QED
  BY <1>6, <1>7, <1>8, <1>9

LEMMA QuiesceDoors ==
  ASSUME TypeOK, DoorsInv, NEW c \in Clients, Quiesce(c) \/ Quiesced(c)
  PROVE  DoorsInv'
<1>0. cli[c] \in ClientState
  BY ClientType
<1> SUFFICES ASSUME Uncut' PROVE (OneRunning /\ InTime /\ Owned /\ Reopening)'
  BY DEF DoorsInv
<1>1. Uncut
  BY DEF Quiesce, Quiesced, Uncut
<1>2. OneRunning /\ InTime /\ Owned /\ Reopening /\ At(c, "quiesce")
  BY <1>1 DEF DoorsInv, Quiesce, Quiesced
<1>3. \A d \in Clients : d # c => At(d, "idle")
  BY <1>2 DEF OneRunning, At
<1>4. CASE Quiesce(c)
  <2> DEFINE me == [cli[c] EXCEPT !.slot = @ + 1]
  <2>1. Becomes(c, me) /\ door' = [door EXCEPT ![Slot(c)] = TRUE] /\ UNCHANGED recorded
    BY <1>4 DEF Quiesce, Uncut
  <2>2. me.at = "quiesce" /\ me.clock = cli[c].clock /\ me.slot = Slot(c) + 1
    BY <1>0, <1>2 DEF ClientState, At, Slot
  <2> HIDE DEF me
  <2>3. cli'[c] = me /\ \A d \in Clients : d # c => cli'[d] = cli[d]
    BY <2>1, Others
  <2>4. OneRunning' /\ InTime'
    BY <1>2, <1>3, <2>2, <2>3 DEF OneRunning, InTime, Expired, At
  <2>5. Owned'
    <3> SUFFICES ASSUME NEW n \in DBNodes, door'[n], ~recorded
                 PROVE  At(c, "quiesce")' /\ n < Slot(c)'
      BY <2>1 DEF Owned
    <3>1. Slot(c) \in DBNodes /\ Slot(c) \in Nat /\ n \in Nat
      BY <1>4, NodesFromOne DEF Quiesce, MoreNodes
    <3>2. CASE n = Slot(c)
      BY <2>2, <2>3, <3>1, <3>2 DEF At, Slot
    <3>3. CASE n # Slot(c)
      <4>1. door[n]
        BY <2>1, <3>3 DEF TypeOK
      <4>2. n < Slot(c)
        BY <1>2, <1>3, <4>1 DEF Owned, At
      <4>3. QED
        BY <2>2, <2>3, <3>1, <4>2 DEF At, Slot
    <3>4. QED
      BY <3>2, <3>3
  <2>6. Reopening'
    BY <1>3, <2>2, <2>3 DEF Reopening, At
  <2>7. QED
    BY <2>4, <2>5, <2>6
<1>5. CASE Quiesced(c)
  <2> DEFINE me == Going(cli[c], "stop")
  <2>1. Becomes(c, me) /\ recorded'
    BY <1>5 DEF Quiesced
  <2>2. me.at = "stop" /\ me.clock = cli[c].clock
    BY <1>0 DEF Going, ClientState
  <2> HIDE DEF me
  <2>3. cli'[c] = me /\ \A d \in Clients : d # c => cli'[d] = cli[d]
    BY <2>1, Others
  <2>4. OneRunning' /\ InTime'
    BY <1>2, <1>3, <2>2, <2>3 DEF OneRunning, InTime, Expired, At
  <2>5. Owned' /\ Reopening'
    BY <1>3, <2>1, <2>2, <2>3 DEF Owned, Reopening, At
  <2>6. QED
    BY <2>4, <2>5
<1>6. QED
  BY <1>4, <1>5

LEMMA ResumeDoors ==
  ASSUME TypeOK, DoorsInv, NEW c \in Clients, Resume(c) \/ Resumed(c)
  PROVE  DoorsInv'
<1>0. cli[c] \in ClientState
  BY ClientType
<1> SUFFICES ASSUME Uncut' PROVE (OneRunning /\ InTime /\ Owned /\ Reopening)'
  BY DEF DoorsInv
<1>1. Uncut
  BY DEF Resume, Resumed, Uncut
<1>2. OneRunning /\ InTime /\ Owned /\ Reopening /\ At(c, "resume")
  BY <1>1 DEF DoorsInv, Resume, Resumed
<1>3. \A d \in Clients : d # c => At(d, "idle")
  BY <1>2 DEF OneRunning, At
<1>4. CASE Resume(c)
  <2> DEFINE me == [cli[c] EXCEPT !.slot = @ + 1]
  <2>1. Becomes(c, me) /\ door' = [door EXCEPT ![Slot(c)] = FALSE] /\ UNCHANGED recorded
    BY <1>2, <1>4 DEF Resume, InTime
  <2>2. me.at = "resume" /\ me.clock = cli[c].clock /\ me.slot = Slot(c) + 1
    BY <1>0, <1>2 DEF ClientState, At, Slot
  <2> HIDE DEF me
  <2>3. cli'[c] = me /\ \A d \in Clients : d # c => cli'[d] = cli[d]
    BY <2>1, Others
  <2>4. OneRunning' /\ InTime'
    BY <1>2, <1>3, <2>2, <2>3 DEF OneRunning, InTime, Expired, At
  <2>5. Owned'
    <3> SUFFICES ASSUME NEW n \in DBNodes, door'[n] PROVE recorded
      BY <2>1 DEF Owned
    <3>1. door[n]
      BY <2>1 DEF TypeOK
    <3>2. QED
      BY <1>2, <1>3, <3>1 DEF Owned, At
  <2>6. Reopening'
    <3> SUFFICES ASSUME NEW n \in DBNodes, n < Slot(c) + 1 PROVE ~door'[n]
      BY <1>3, <2>2, <2>3 DEF Reopening, At, Slot
    <3>1. Slot(c) \in DBNodes /\ Slot(c) \in Nat /\ n \in Nat
      BY <1>4, NodesFromOne DEF Resume, MoreNodes
    <3>2. n = Slot(c) \/ n < Slot(c)
      BY <3>1
    <3>3. CASE n = Slot(c)
      BY <2>1, <3>1, <3>3 DEF TypeOK
    <3>4. CASE n < Slot(c)
      <4>1. ~door[n]
        BY <1>2, <3>4 DEF Reopening
      <4>2. QED
        BY <2>1, <4>1 DEF TypeOK
    <3>5. QED
      BY <3>2, <3>3, <3>4
  <2>7. QED
    BY <2>4, <2>5, <2>6
<1>5. CASE Resumed(c)
  <2> DEFINE me == Going(cli[c], "door")
  <2>1. Becomes(c, me) /\ UNCHANGED door
    BY <1>5 DEF Resumed
  <2>2. me.at = "door" /\ me.clock = cli[c].clock
    BY <1>0 DEF Going, ClientState
  <2> HIDE DEF me
  <2>3. cli'[c] = me /\ \A d \in Clients : d # c => cli'[d] = cli[d]
    BY <2>1, Others
  <2>4. OneRunning' /\ InTime'
    BY <1>2, <1>3, <2>2, <2>3 DEF OneRunning, InTime, Expired, At
  <2>5. \A n \in DBNodes : n < Slot(c)
    <3>1. Slot(c) \in 1..(NNodes + 1) /\ Slot(c) \notin 1..NNodes
      BY <1>0, <1>5 DEF Resumed, MoreNodes, DBNodes, ClientState, Slot
    <3>2. QED
      BY <3>1, RolesAssumption DEF DBNodes
  <2>6. \A n \in DBNodes : ~door'[n]
    BY <1>2, <2>1, <2>5 DEF Reopening
  <2>7. QED
    BY <2>4, <2>6 DEF Owned, Reopening
<1>6. QED
  BY <1>4, <1>5

(* Nodes and their engine: a broker that ends opens its door.              *)
LEMMA NodeDoors ==
  ASSUME TypeOK, DoorsInv, NEW n \in DBNodes, Kill(n) \/ Start(n) \/ Engine(n)
  PROVE  DoorsInv'
<1>1. UNCHANGED <<cli, recorded>> /\ \A m \in DBNodes : door'[m] => door[m]
  BY DEF Kill, Emptied, Start, Engine, Deactivate, Register, Elect, Promote, Ship, Apply, doors, TypeOK
<1>2. mishaps \subseteq mishaps'
  BY DEF Kill, Start, Engine, Deactivate, Register, Elect, Promote, Ship, Apply
<1>3. QED
  BY <1>1, <1>2 DEF DoorsInv, Uncut, OneRunning, InTime, Owned, Reopening, At, Expired, Slot

(* A shut door is on record, or being shut by a failback that will record  *)
(* it, as long as no command is cut off, refused or run into by another.   *)
THEOREM DoorsCorrect == Spec => []DoorsOwned
<1>1. Init => DoorsInv
  <2> SUFFICES ASSUME Init PROVE DoorsInv
    OBVIOUS
  <2>1. \A c \in Clients : cli[c].at = "idle" /\ cli[c].clock = "fresh"
    <3>1. \A c \in Clients : cli[c] = Fresh
      BY DEF Init
    <3>2. Fresh.at = "idle" /\ Fresh.clock = "fresh"
      BY DEF Fresh
    <3>3. QED
      BY <3>1, <3>2
  <2>2. \A n \in DBNodes : ~door[n]
    BY DEF Init
  <2>3. QED
    BY <2>1, <2>2 DEF DoorsInv, OneRunning, InTime, Owned, Reopening, At, Expired
<1>2. TypeOK /\ DoorsInv /\ [Next]_vars => DoorsInv'
  <2> SUFFICES ASSUME TypeOK, DoorsInv, [Next]_vars PROVE DoorsInv'
    OBVIOUS
  <2>1. CASE UNCHANGED vars
    BY <2>1 DEF vars, doors, DoorsInv, Uncut, OneRunning, InTime, Owned, Reopening, At, Expired, Slot
  <2>2. ASSUME NEW c \in Clients, Begin(c) \/ Step(c) \/ IssueStop(c) \/ Trouble(c)
        PROVE  DoorsInv'
    <3>1. CASE Expire(c) \/ Interrupted(c)
      BY <3>1 DEF Expire, Interrupted, DoorsInv, Uncut
    <3>2. CASE ~(Expire(c) \/ Interrupted(c))
      BY <2>2, <3>2, BeginDoors, WorkQuiet, QuiesceDoors, ResumeDoors DEF Step, Trouble, Doors
    <3>3. QED
      BY <3>1, <3>2
  <2>3. ASSUME NEW n \in DBNodes, Kill(n) \/ Start(n) \/ Engine(n)
        PROVE  DoorsInv'
    BY <2>3, NodeDoors
  <2>4. QED
    BY <2>1, <2>2, <2>3 DEF Next
<1>3. DoorsInv => DoorsOwned
  BY DEF DoorsInv, DoorsOwned, Uncut, Owned
<1>4. QED
  BY <1>1, <1>2, <1>3, TypeCorrect, PTL DEF Spec

-----------------------------------------------------------------------------
(* Completed promotions.                                                   *)

(* Why changemode finds what was asked: the node seen to_be_active is not  *)
(* the one this command takes away, no other stop is at work, and nobody   *)
(* else can become a candidate while there is one.                         *)
Candidate(n) == server[n] \in {"to_be_active", "active"}
Unrivalled == \A n, m \in DBNodes : server[n] = "to_be_active" /\ Candidate(m) => n = m

Reads(me) == me.at \in {"read", "decide", "watch"}
Sure(me) ==
  me.at # "idle" =>
    /\ stopping \subseteq {me.current} /\ me.target # me.current
    /\ me.at = "decide" \/ (me.at = "read" /\ me.then = "decide") => me.current = 0
    /\ Reads(me) => \A n \in DBNodes : me.seen[n] = "to_be_active" /\ n # me.current => Candidate(n)
    /\ me.at \in {"blocker", "complete", "changemode"} => Candidate(me.target)
    /\ me.at = "changemode" /\ server[me.target] = "to_be_active" =>
         pages[me.target] = 0 /\ (fail[me.target] => me.forced)
ForceInv == mishaps = {} => OneRunning /\ Unrivalled /\ \A c \in Clients : Sure(cli[c])

(* A step of a running command that leaves the nodes alone.                *)
LEMMA Undisturbed ==
  ASSUME TypeOK, ForceInv, NEW c \in Clients, NEW me, Becomes(c, me), UNCHANGED <<engine, mishaps>>,
         me.at # "idle" => ~At(c, "idle"), mishaps = {} => Sure(me)
  PROVE  ForceInv'
<1> SUFFICES ASSUME mishaps = {} PROVE (OneRunning /\ Unrivalled /\ \A d \in Clients : Sure(cli[d]))'
  BY DEF ForceInv
<1>1. cli'[c] = me /\ \A d \in Clients : d # c => cli'[d] = cli[d]
  BY Others
<1>2. OneRunning /\ Unrivalled /\ (\A d \in Clients : Sure(cli[d])) /\ Sure(me)
  BY DEF ForceInv
<1>3. OneRunning'
  BY <1>1, <1>2 DEF OneRunning, At
<1>4. UNCHANGED <<server, stopping, pages, fail>>
  BY DEF engine
<1>5. Unrivalled'
  BY <1>2, <1>4 DEF Unrivalled, Candidate
<1>6. ASSUME NEW d \in Clients
      PROVE  Sure(cli[d])'
  <2>1. CASE d = c
    BY <1>1, <1>2, <1>4, <2>1 DEF Sure, Candidate, Reads
  <2>2. CASE d # c
    <3>1. cli'[d] = cli[d] /\ Sure(cli[d])
      BY <1>1, <1>2, <2>2
    <3>2. QED
      BY <1>4, <3>1 DEF Sure, Candidate, Reads
  <2>3. QED
    BY <2>1, <2>2
<1>7. QED
  BY <1>3, <1>5, <1>6

LEMMA SureReturn == \A result : [Fresh EXCEPT !.outcome = result].at = "idle"
BY DEF Fresh

LEMMA ReturnUndisturbed ==
  ASSUME TypeOK, ForceInv, NEW c \in Clients, NEW result, Return(c, result), UNCHANGED <<engine, mishaps>>
  PROVE  ForceInv'
<1>1. [Fresh EXCEPT !.outcome = result].at = "idle"
  BY SureReturn
<1>2. Sure([Fresh EXCEPT !.outcome = result])
  BY <1>1 DEF Sure
<1>3. QED
  BY <1>1, <1>2, Undisturbed DEF Return

(* A client that begins to read has seen nothing yet.                      *)
LEMMA SureReading ==
  ASSUME NEW me \in ClientState, Sure(me), me.at # "idle", NEW purpose \in {"watch", "verify"}
  PROVE  Sure(Reading(me, purpose)) /\ Sure(Verifying(me))
<1>1. /\ Reading(me, purpose).at = "read" /\ Reading(me, purpose).then = purpose
      /\ Reading(me, purpose).current = me.current /\ Reading(me, purpose).target = me.target
      /\ Reading(me, purpose).seen = Unread
  BY DEF Reading, ClientState
<1>2. /\ Verifying(me).at = "read" /\ Verifying(me).then = "verify"
      /\ Verifying(me).current = me.current /\ Verifying(me).target = me.target
      /\ Verifying(me).seen = Unread
  BY DEF Verifying, Reading, ClientState
<1>3. \A n \in DBNodes : Unread[n] = ""
  BY DEF Unread
<1>4. stopping \subseteq {me.current} /\ me.target # me.current
  BY DEF Sure
<1>5. Sure(Reading(me, purpose))
  BY <1>1, <1>3, <1>4 DEF Sure
<1>6. Sure(Verifying(me))
  BY <1>2, <1>3, <1>4 DEF Sure
<1>7. QED
  BY <1>5, <1>6

(* Nor does one that is past looking at roles rely on any.                 *)
LEMMA SureGoing ==
  ASSUME NEW me \in ClientState, Sure(me), me.at # "idle", NEW phase,
         phase \notin {"read", "decide", "watch", "blocker", "complete", "changemode"}
  PROVE  Sure(Going(me, phase))
<1>1. /\ Going(me, phase).at = phase
      /\ Going(me, phase).current = me.current /\ Going(me, phase).target = me.target
  BY DEF Going, ClientState
<1>2. QED
  BY <1>1 DEF Sure, Reads

LEMMA GoOnUndisturbed ==
  ASSUME TypeOK, ForceInv, NEW c \in Clients, NEW me \in ClientState, GoOn(c, me), ~At(c, "idle"),
         me.at # "idle", mishaps = {} => Sure(me), UNCHANGED <<engine, mishaps>>
  PROVE  ForceInv'
<1>1. CASE \E result : Return(c, result)
  BY <1>1, ReturnUndisturbed
<1>2. CASE Becomes(c, Reading(me, "watch"))
  <2>1. mishaps = {} => Sure(Reading(me, "watch"))
    BY SureReading
  <2>2. QED
    BY <1>2, <2>1, Undisturbed
<1>3. QED
  BY <1>1, <1>2 DEF GoOn

LEMMA BeginForce ==
  ASSUME TypeOK, ForceInv, NEW c \in Clients, Begin(c)
  PROVE  ForceInv'
<1> SUFFICES ASSUME mishaps' = {} PROVE (OneRunning /\ Unrivalled /\ \A d \in Clients : Sure(cli[d]))'
  BY DEF ForceInv
<1>1. mishaps = {} /\ stopping = {} /\ \A d \in Clients : At(d, "idle")
  BY DEF Begin
<1>2. PICK verb \in {"promote", "failback"}, t \in DBNodes, option \in BOOLEAN :
        Becomes(c, [Reading(Fresh, "decide") EXCEPT
          !.verb = verb, !.target = t,
          !.forced = option /\ verb = "promote", !.quiesce = option /\ verb = "failback" /\ WithBroker])
  BY DEF Begin
<1> DEFINE you == [Reading(Fresh, "decide") EXCEPT
          !.verb = verb, !.target = t,
          !.forced = option /\ verb = "promote", !.quiesce = option /\ verb = "failback" /\ WithBroker]
<1>3. /\ Reading(Fresh, "decide") \in ClientState
      /\ Reading(Fresh, "decide").at = "read" /\ Reading(Fresh, "decide").then = "decide"
      /\ Reading(Fresh, "decide").current = 0 /\ Reading(Fresh, "decide").seen = Unread
  BY FreshType, ReadingType DEF Outcomes, Reading, Fresh
<1>4. you.at = "read" /\ you.then = "decide" /\ you.current = 0 /\ you.seen = Unread /\ you.target = t
  BY <1>3 DEF ClientState
<1>5. Becomes(c, you)
  BY <1>2
<1> HIDE DEF you
<1>6. cli'[c] = you /\ \A d \in Clients : d # c => cli'[d] = cli[d]
  BY <1>5, Others
<1>7. UNCHANGED <<server, stopping, pages, fail>>
  BY DEF Begin, engine
<1>8. OneRunning' /\ Unrivalled'
  BY <1>1, <1>6, <1>7 DEF OneRunning, At, ForceInv, Unrivalled, Candidate
<1>9. Sure(cli[c])'
  <2>1. t # 0 /\ \A n \in DBNodes : Unread[n] = ""
    BY NodesFromOne DEF Unread
  <2>2. QED
    BY <1>1, <1>4, <1>6, <1>7, <2>1 DEF Sure, Reads
<1>10. \A d \in Clients : d # c => Sure(cli[d])'
  BY <1>1, <1>6 DEF Sure, At
<1>11. QED
  BY <1>8, <1>9, <1>10

LEMMA ReadForce ==
  ASSUME TypeOK, ForceInv, NEW c \in Clients, ReadNode(c)
  PROVE  ForceInv'
<1>0. cli[c] \in ClientState /\ cli[c].at = "read" /\ UNCHANGED <<engine, mishaps>>
  BY ClientType DEF ReadNode, At
<1>1. mishaps = {} => Sure(cli[c])
  BY DEF ForceInv
<1>2. CASE MoreNodes(c)
  <2> DEFINE me == [cli[c] EXCEPT !.slot = @ + 1,
                                  !.seen[Slot(c)] = IF Expired(c) THEN "" ELSE server[Slot(c)]]
  <2>1. Becomes(c, me)
    BY <1>2 DEF ReadNode
  <2>2. /\ me.at = "read" /\ me.then = cli[c].then /\ me.current = cli[c].current
        /\ me.target = cli[c].target
        /\ \A n \in DBNodes : me.seen[n] = cli[c].seen[n]
                              \/ (n = Slot(c) /\ me.seen[n] \in {"", server[n]})
    BY <1>0 DEF ClientState
  <2> HIDE DEF me
  <2>3. ASSUME mishaps = {} PROVE Sure(me)
    <3>1. ASSUME NEW n \in DBNodes, me.seen[n] = "to_be_active", n # me.current
          PROVE  Candidate(n)
      <4>1. CASE me.seen[n] = cli[c].seen[n]
        BY <1>0, <1>1, <2>2, <2>3, <3>1, <4>1 DEF Sure, Reads
      <4>2. CASE me.seen[n] \in {"", server[n]}
        BY <3>1, <4>2 DEF Candidate
      <4>3. QED
        BY <2>2, <4>1, <4>2
    <3>2. QED
      BY <1>0, <1>1, <2>2, <2>3, <3>1 DEF Sure, Reads
  <2>4. QED
    BY <1>0, <2>1, <2>2, <2>3, Undisturbed DEF At
<1>3. CASE ~MoreNodes(c)
  <2> DEFINE me == [cli[c] EXCEPT !.at = cli[c].then]
  <2>1. Becomes(c, me)
    BY <1>3 DEF ReadNode
  <2>2. /\ me.at = cli[c].then /\ me.at \in {"decide", "watch", "verify"}
        /\ me.current = cli[c].current /\ me.target = cli[c].target /\ me.seen = cli[c].seen
    BY <1>0 DEF ClientState
  <2> HIDE DEF me
  <2>3. mishaps = {} => Sure(me)
    BY <1>0, <1>1, <2>2 DEF Sure, Reads
  <2>4. QED
    BY <1>0, <2>1, <2>3, Undisturbed DEF At
<1>4. QED
  BY <1>2, <1>3

LEMMA DecideForce ==
  ASSUME TypeOK, ForceInv, NEW c \in Clients, Decide(c)
  PROVE  ForceInv'
<1>0. cli[c] \in ClientState /\ ~At(c, "idle") /\ UNCHANGED <<engine, mishaps>>
  BY ClientType DEF Decide, DecideNothing, DecideStalled, DecideMove, Confirm, At
<1>1. mishaps = {} => Sure(cli[c])
  BY DEF ForceInv
<1>2. CASE DecideNothing(c)
  BY <1>0, <1>2, ReturnUndisturbed DEF DecideNothing
<1>3. CASE DecideStalled(c)
  <2>1. PICK n \in toBeActive(c) : Becomes(c, [Going(cli[c], "blocker") EXCEPT !.target = n])
    BY <1>3 DEF DecideStalled
  <2> DEFINE me == [Going(cli[c], "blocker") EXCEPT !.target = n]
  <2>2. me.at = "blocker" /\ me.current = cli[c].current /\ me.target = n
    BY <1>0 DEF Going, ClientState
  <2>3. Becomes(c, me)
    BY <2>1
  <2> HIDE DEF me
  <2>4. cli[c].at = "decide" /\ n \in DBNodes /\ cli[c].seen[n] = "to_be_active" /\ n # 0
    BY <1>3, NodesFromOne DEF DecideStalled, At, toBeActive
  <2>5. mishaps = {} => Sure(me)
    BY <1>1, <2>2, <2>4 DEF Sure, Reads
  <2>6. QED
    BY <1>0, <2>3, <2>5, Undisturbed
<1>4. CASE DecideMove(c)
  <2> DEFINE phase == IF cli[c].verb = "promote" THEN "stop" ELSE "confirm"
  <2>1. PICK n \in DBNodes : n # cli[c].target /\ Becomes(c, [Going(cli[c], phase) EXCEPT !.current = n])
    BY <1>4 DEF DecideMove
  <2> DEFINE me == [Going(cli[c], phase) EXCEPT !.current = n]
  <2>2. me.at \in {"stop", "confirm"} /\ me.current = n /\ me.target = cli[c].target
    BY <1>0 DEF Going, ClientState
  <2>3. Becomes(c, me)
    BY <2>1
  <2> HIDE DEF me
  <2>4. mishaps = {} => stopping = {}
    <3>1. mishaps = {} => stopping \subseteq {0}
      BY <1>1, <1>4 DEF Sure, DecideMove, At
    <3>2. stopping \subseteq DBNodes /\ 0 \notin DBNodes
      BY NodesFromOne DEF TypeOK
    <3>3. QED
      BY <3>1, <3>2
  <2>5. mishaps = {} => Sure(me)
    BY <2>1, <2>2, <2>4 DEF Sure, Reads
  <2>6. QED
    BY <1>0, <2>3, <2>5, Undisturbed
<1>5. CASE Confirm(c)
  <2> DEFINE phase == IF cli[c].quiesce THEN "quiesce" ELSE "stop"
  <2>1. CASE Return(c, "nothing")
    BY <1>0, <2>1, ReturnUndisturbed
  <2>2. CASE Becomes(c, Going(cli[c], phase))
    <3>1. mishaps = {} => Sure(Going(cli[c], phase))
      BY <1>0, <1>1, SureGoing DEF At
    <3>2. QED
      BY <1>0, <2>2, <3>1, Undisturbed
  <2>3. QED
    BY <1>5, <2>1, <2>2 DEF Confirm
<1>6. QED
  BY <1>2, <1>3, <1>4, <1>5 DEF Decide

LEMMA takeMasterAwayForce ==
  ASSUME TypeOK, ForceInv, NEW c \in Clients, takeMasterAway(c)
  PROVE  ForceInv'
<1>0. cli[c] \in ClientState /\ ~At(c, "idle") /\ UNCHANGED <<engine, mishaps>>
  BY ClientType DEF takeMasterAway, TakeAway, WatchMoved, WatchStalled, WatchIdle, At
<1>1. mishaps = {} => Sure(cli[c])
  BY DEF ForceInv
<1>2. CASE TakeAway(c)
  <2>1. mishaps = {} => Sure(Reading(cli[c], "watch"))
    BY <1>0, <1>1, SureReading DEF At
  <2>2. QED
    BY <1>0, <1>2, <2>1, Undisturbed DEF TakeAway
<1>3. CASE WatchMoved(c)
  <2>1. mishaps = {} => Sure(Going(cli[c], "service"))
    BY <1>0, <1>1, SureGoing DEF At
  <2>2. QED
    BY <1>0, <1>3, <2>1, Undisturbed, ReturnUndisturbed DEF WatchMoved
<1>4. CASE WatchStalled(c)
  <2> DEFINE me == Sighted(c)
  <2>1. /\ me \in ClientState /\ me.at = "watch" /\ cli[c].at = "watch" /\ me.current = cli[c].current
        /\ me.target = cli[c].target /\ me.seen = cli[c].seen /\ me.seen[me.target] = "to_be_active"
        /\ me.target \in DBNodes
    BY <1>0, <1>4, RolesAssumption DEF WatchStalled, Sighted, ClientState, At
  <2>2. /\ Going(me, "complete").at = "complete" /\ Going(me, "complete").current = me.current
        /\ Going(me, "complete").target = me.target
    BY <2>1 DEF Going, ClientState
  <2> HIDE DEF me
  <2>3. mishaps = {} => Sure(me)
    BY <1>1, <2>1 DEF Sure, Reads
  <2>4. mishaps = {} => Sure(Going(me, "complete"))
    BY <2>1, <2>2, <2>3 DEF Sure, Reads
  <2>5. Becomes(c, Going(me, "complete")) \/ GoOn(c, me)
    BY <1>4 DEF WatchStalled, me
  <2>6. QED
    BY <1>0, <2>1, <2>3, <2>4, <2>5, Undisturbed, GoOnUndisturbed
<1>5. CASE WatchIdle(c)
  BY <1>0, <1>1, <1>5, GoOnUndisturbed DEF WatchIdle, At
<1>6. QED
  BY <1>2, <1>3, <1>4, <1>5 DEF takeMasterAway

LEMMA IssueStopForce ==
  ASSUME TypeOK, ForceInv, NEW c \in Clients, IssueStop(c)
  PROVE  ForceInv'
<1> SUFFICES ASSUME mishaps' = {} PROVE (OneRunning /\ Unrivalled /\ \A d \in Clients : Sure(cli[d]))'
  BY DEF ForceInv
<1>0. cli[c] \in ClientState /\ cli[c].at # "idle" /\ cli[c].current # 0
  BY ClientType DEF IssueStop
<1>1. mishaps = {} /\ OneRunning /\ Unrivalled /\ Sure(cli[c])
  BY DEF IssueStop, ForceInv
<1> DEFINE me == [cli[c] EXCEPT !.issued = TRUE]
<1>2. /\ me.at = cli[c].at /\ me.then = cli[c].then /\ me.current = cli[c].current
      /\ me.target = cli[c].target /\ me.seen = cli[c].seen /\ me.forced = cli[c].forced
  BY <1>0 DEF ClientState
<1>3. Becomes(c, me)
  BY DEF IssueStop
<1> HIDE DEF me
<1>4. cli'[c] = me /\ \A d \in Clients : d # c => cli'[d] = cli[d]
  BY <1>3, Others
<1>5. UNCHANGED <<server, pages, fail>> /\ stopping' \subseteq stopping \cup {cli[c].current}
  BY DEF IssueStop
<1>6. \A d \in Clients : d # c => At(d, "idle")
  BY <1>0, <1>1 DEF OneRunning, At
<1>7. OneRunning' /\ Unrivalled'
  BY <1>1, <1>4, <1>5, <1>6 DEF OneRunning, At, Unrivalled, Candidate
<1>8. Sure(cli[c])'
  BY <1>0, <1>1, <1>2, <1>4, <1>5 DEF Sure, Reads, Candidate
<1>9. \A d \in Clients : d # c => Sure(cli[d])'
  BY <1>4, <1>6 DEF Sure, At
<1>10. QED
  BY <1>7, <1>8, <1>9

LEMMA CompleteForce ==
  ASSUME TypeOK, ForceInv, NEW c \in Clients, Unanswered(c) \/ Blocked(c) \/ Unblocked(c)
  PROVE  ForceInv'
<1>0. /\ cli[c] \in ClientState /\ cli[c].at \in {"blocker", "complete"} /\ ~At(c, "idle")
      /\ UNCHANGED <<engine, mishaps>>
  BY ClientType DEF Unanswered, Blocked, Unblocked, At
<1>1. mishaps = {} => Sure(cli[c])
  BY DEF ForceInv
<1>2. CASE Unanswered(c) \/ Blocked(c)
  BY <1>0, <1>1, <1>2, GoOnUndisturbed DEF Unanswered, Blocked, At
<1>3. CASE Unblocked(c)
  <2> DEFINE phase == IF At(c, "blocker") THEN "complete" ELSE "changemode"
  <2> DEFINE me == Going(cli[c], phase)
  <2>1. /\ me.at \in {"complete", "changemode"} /\ me.current = cli[c].current
        /\ me.target = cli[c].target /\ me.forced = cli[c].forced
    BY <1>0 DEF Going, ClientState
  <2>2. Becomes(c, me)
    BY <1>3 DEF Unblocked
  <2> HIDE DEF me
  <2>3. pages[cli[c].target] = 0 /\ (fail[cli[c].target] => cli[c].forced)
    BY <1>3 DEF Unblocked, promotionBlocker
  <2>4. mishaps = {} => Sure(me)
    BY <1>0, <1>1, <2>1, <2>3 DEF Sure, Reads
  <2>5. QED
    BY <1>0, <2>2, <2>4, Undisturbed
<1>4. QED
  BY <1>2, <1>3

(* changemode makes an active server of a candidate that had no rival.     *)
LEMMA ChangemodeForce ==
  ASSUME TypeOK, ForceInv, NEW c \in Clients, Changemode(c)
  PROVE  ForceInv'
<1>0. cli[c] \in ClientState /\ cli[c].at = "changemode" /\ ~At(c, "idle") /\ mishaps' = mishaps
  BY ClientType DEF Changemode, At
<1>1. mishaps = {} => Sure(cli[c])
  BY DEF ForceInv
<1>2. CASE server' = server
  <2>1. UNCHANGED <<engine, mishaps>>
    BY <1>2 DEF Changemode, engine
  <2>2. Becomes(c, Reading(cli[c], "watch")) \/ GoOn(c, cli[c]) \/ Return(c, "promoted")
    BY DEF Changemode
  <2>3. mishaps = {} => Sure(Reading(cli[c], "watch"))
    BY <1>0, <1>1, SureReading
  <2>4. QED
    BY <1>0, <1>1, <2>1, <2>2, <2>3, Undisturbed, GoOnUndisturbed, ReturnUndisturbed
<1>3. CASE server' # server
  <2> SUFFICES ASSUME mishaps = {}
               PROVE  (OneRunning /\ Unrivalled /\ \A d \in Clients : Sure(cli[d]))'
    BY <1>0 DEF ForceInv
  <2>1. /\ server' = [server EXCEPT ![cli[c].target] = "active"]
        /\ server[cli[c].target] \in {"to_be_active", "active"}
        /\ UNCHANGED <<stopping, pages, fail>>
        /\ Return(c, "promoted") \/ Becomes(c, Reading(cli[c], "watch")) \/ GoOn(c, cli[c])
    BY <1>3 DEF Changemode
  <2>2. PICK me : /\ Becomes(c, me)
                  /\ \/ me.at = "idle"
                     \/ /\ me.at = "read" /\ me.then = "watch" /\ me.seen = Unread
                        /\ me.current = cli[c].current /\ me.target = cli[c].target
    <3>1. CASE \E result : Return(c, result)
      BY <3>1, SureReturn DEF Return
    <3>2. CASE Becomes(c, Reading(cli[c], "watch"))
      <4> DEFINE you == Reading(cli[c], "watch")
      <4>1. /\ you.at = "read" /\ you.then = "watch" /\ you.seen = Unread
            /\ you.current = cli[c].current /\ you.target = cli[c].target
        BY <1>0 DEF Reading, ClientState
      <4>2. Becomes(c, you)
        BY <3>2
      <4> HIDE DEF you
      <4>3. QED
        BY <4>1, <4>2
    <3>3. QED
      BY <2>1, <3>1, <3>2 DEF GoOn
  <2>3. cli'[c] = me /\ \A d \in Clients : d # c => cli'[d] = cli[d]
    BY <2>2, Others
  <2>4. OneRunning /\ Unrivalled /\ Sure(cli[c])
    BY <1>1 DEF ForceInv
  <2>5. \A d \in Clients : d # c => At(d, "idle")
    BY <1>0, <2>4 DEF OneRunning, At
  <2>6. OneRunning'
    BY <2>3, <2>5 DEF OneRunning, At
  <2>7. Unrivalled'
    <3>1. \A n \in DBNodes : /\ Candidate(n)' => Candidate(n)
                             /\ server'[n] = "to_be_active" => server[n] = "to_be_active"
      BY <2>1 DEF Candidate, TypeOK
    <3>2. QED
      BY <2>4, <3>1 DEF Unrivalled
  <2>8. Sure(cli[c])'
    <3>1. \A n \in DBNodes : Unread[n] = ""
      BY DEF Unread
    <3>2. QED
      BY <1>0, <2>1, <2>2, <2>3, <2>4, <3>1 DEF Sure, Reads
  <2>9. \A d \in Clients : d # c => Sure(cli[d])'
    BY <2>3, <2>5 DEF Sure, At
  <2>10. QED
    BY <2>6, <2>7, <2>8, <2>9
<1>4. QED
  BY <1>2, <1>3

(* The doors, the brokers, the check and time: nothing of the roles.       *)
LEMMA RestForce ==
  ASSUME TypeOK, ForceInv, NEW c \in Clients,
         Doors(c) \/ HeartbeatStart(c) \/ BrokerStart(c) \/ Check(c) \/ Late(c)
  PROVE  ForceInv'
<1>0. cli[c] \in ClientState /\ ~At(c, "idle")
  BY ClientType DEF Doors, Quiesce, Quiesced, Resume, Resumed, OpenDoor, HeartbeatStart, BrokerStart,
     Check, Verify, Insert, Select, Late, At
<1>1. mishaps = {} => Sure(cli[c])
  BY DEF ForceInv
<1>2. UNCHANGED <<server, stopping, pages, fail>> /\ mishaps \subseteq mishaps'
  BY DEF Doors, Quiesce, Quiesced, Resume, Resumed, OpenDoor, HeartbeatStart, BrokerStart,
     Check, Verify, Insert, Select, Late, engine
<1>3. PICK me : Becomes(c, me) /\ (mishaps = {} => Sure(me))
  <2>1. CASE \E result : Return(c, result)
    <3>1. PICK result : Becomes(c, [Fresh EXCEPT !.outcome = result])
      BY <2>1 DEF Return
    <3>2. Sure([Fresh EXCEPT !.outcome = result])
      BY SureReturn DEF Sure
    <3>3. QED
      BY <3>1, <3>2
  <2>2. CASE Becomes(c, Reading(cli[c], "verify")) \/ Becomes(c, Verifying(cli[c]))
    BY <1>0, <1>1, <2>2, SureReading DEF At
  <2>3. CASE \E phase \in {"stop", "broker", "resume", "door", "insert", "select"} :
               Becomes(c, Going(cli[c], phase))
    BY <1>0, <1>1, <2>3, SureGoing DEF At
  <2>4. CASE Becomes(c, [cli[c] EXCEPT !.slot = @ + 1]) \/ Becomes(c, [cli[c] EXCEPT !.clock = "late"])
    <3>1. PICK me : /\ Becomes(c, me) /\ me.at = cli[c].at /\ me.then = cli[c].then
                    /\ me.current = cli[c].current /\ me.target = cli[c].target
                    /\ me.seen = cli[c].seen /\ me.forced = cli[c].forced
      BY <1>0, <2>4 DEF ClientState
    <3>2. mishaps = {} => Sure(me)
      BY <1>1, <3>1 DEF Sure, Reads
    <3>3. QED
      BY <3>1, <3>2
  <2>5. QED
    BY <2>1, <2>2, <2>3, <2>4 DEF Doors, Quiesce, Quiesced, Resume, Resumed, OpenDoor, HeartbeatStart,
       BrokerStart, Check, Verify, Insert, Select, Late
<1> SUFFICES ASSUME mishaps' = {} PROVE (OneRunning /\ Unrivalled /\ \A d \in Clients : Sure(cli[d]))'
  BY DEF ForceInv
<1>4. OneRunning /\ Unrivalled /\ Sure(me) /\ \A d \in Clients : Sure(cli[d])
  BY <1>2, <1>3 DEF ForceInv
<1>5. cli'[c] = me /\ \A d \in Clients : d # c => cli'[d] = cli[d]
  BY <1>3, Others
<1>6. \A d \in Clients : d # c => At(d, "idle")
  BY <1>0, <1>4 DEF OneRunning, At
<1>7. OneRunning' /\ Unrivalled'
  BY <1>2, <1>4, <1>5, <1>6 DEF OneRunning, At, Unrivalled, Candidate
<1>8. Sure(cli[c])'
  BY <1>2, <1>4, <1>5 DEF Sure, Reads, Candidate
<1>9. \A d \in Clients : d # c => Sure(cli[d])'
  BY <1>5, <1>6 DEF Sure, At
<1>10. QED
  BY <1>7, <1>8, <1>9

(* The stop of the old master that failback begins its rejoin with takes   *)
(* nothing from the target.                                                *)
LEMMA ServiceStopForce ==
  ASSUME TypeOK, ForceInv, NEW c \in Clients, ServiceStop(c)
  PROVE  ForceInv'
<1>0. cli[c] \in ClientState /\ cli[c].at = "service" /\ ~At(c, "idle") /\ mishaps' = mishaps
  BY ClientType DEF ServiceStop, At
<1> SUFFICES ASSUME mishaps = {} PROVE (OneRunning /\ Unrivalled /\ \A d \in Clients : Sure(cli[d]))'
  BY <1>0 DEF ForceInv
<1>1. OneRunning /\ Unrivalled /\ Sure(cli[c])
  BY DEF ForceInv
<1> DEFINE me == Going(cli[c], "heartbeat")
<1>2. /\ me.at = "heartbeat" /\ me.current = cli[c].current /\ me.target = cli[c].target
  BY <1>0 DEF Going, ClientState
<1>3. Becomes(c, me)
  BY DEF ServiceStop
<1> HIDE DEF me
<1>4. cli'[c] = me /\ \A d \in Clients : d # c => cli'[d] = cli[d]
  BY <1>3, Others
<1>5. stopping' \subseteq stopping /\ (server' = server \/ server' = [server EXCEPT ![cli[c].current] = ""])
  BY DEF ServiceStop, Emptied
<1>6. \A d \in Clients : d # c => At(d, "idle")
  BY <1>0, <1>1 DEF OneRunning, At
<1>7. OneRunning'
  BY <1>4, <1>6 DEF OneRunning, At
<1>8. Unrivalled'
  <2>1. \A n \in DBNodes : server'[n] \in {server[n], ""}
    BY <1>5 DEF TypeOK
  <2>2. QED
    BY <1>1, <2>1 DEF Unrivalled, Candidate
<1>9. Sure(cli[c])'
  BY <1>0, <1>1, <1>2, <1>4, <1>5 DEF Sure, Reads
<1>10. \A d \in Clients : d # c => Sure(cli[d])'
  BY <1>4, <1>6 DEF Sure, At
<1>11. QED
  BY <1>7, <1>8, <1>9, <1>10

(* A step of the engine that takes no candidate but the one being stopped, *)
(* and brings no rows to one that was found to have applied them all.      *)
LEMMA Carried ==
  ASSUME TypeOK, ForceInv, UNCHANGED <<cli, mishaps>>, stopping' \subseteq stopping,
         mishaps = {} => Unrivalled',
         \A n \in DBNodes : Candidate(n) => Candidate(n)' \/ n \in stopping,
         \A n \in DBNodes :
           server'[n] = "to_be_active" /\ Candidate(n) =>
             /\ server[n] = "to_be_active"
             /\ pages[n] = 0 => pages'[n] = 0 /\ fail'[n] = fail[n]
  PROVE  ForceInv'
<1> SUFFICES ASSUME mishaps = {} PROVE (OneRunning /\ Unrivalled /\ \A d \in Clients : Sure(cli[d]))'
  BY DEF ForceInv
<1>1. OneRunning /\ \A d \in Clients : Sure(cli[d])
  BY DEF ForceInv
<1>2. OneRunning'
  BY <1>1 DEF OneRunning, At
<1>3. ASSUME NEW d \in Clients
      PROVE  Sure(cli[d])'
  <2>1. cli'[d] = cli[d] /\ Sure(cli[d]) /\ cli[d].target \in DBNodes
    BY <1>1, ClientType DEF ClientState
  <2>2. ASSUME cli[d].at # "idle", NEW n \in DBNodes, n # cli[d].current, Candidate(n)
        PROVE  Candidate(n)'
    BY <2>1, <2>2 DEF Sure
  <2>3. ASSUME cli[d].at # "idle", Reads(cli[d]), NEW n \in DBNodes, cli[d].seen[n] = "to_be_active",
               n # cli[d].current
        PROVE  Candidate(n)'
    BY <2>1, <2>2, <2>3 DEF Sure
  <2>4. ASSUME cli[d].at \in {"blocker", "complete", "changemode"}
        PROVE  Candidate(cli[d].target) /\ Candidate(cli[d].target)'
    BY <2>1, <2>2, <2>4 DEF Sure
  <2>5. ASSUME cli[d].at = "changemode", server'[cli[d].target] = "to_be_active"
        PROVE  pages'[cli[d].target] = 0 /\ (fail'[cli[d].target] => cli[d].forced)
    BY <2>1, <2>4, <2>5 DEF Sure
  <2>6. QED
    BY <2>1, <2>3, <2>4, <2>5 DEF Sure, Reads, Candidate
<1>4. QED
  BY <1>2, <1>3

LEMMA EngineForce ==
  ASSUME TypeOK, ForceInv, NEW n \in DBNodes, Engine(n)
  PROVE  ForceInv'
<1>0. mishaps = {} => Unrivalled
  BY DEF ForceInv
<1>1. CASE Deactivate(n)
  <2>1. \A m \in DBNodes : server'[m] = IF m = n THEN "" ELSE server[m]
    BY <1>1 DEF Deactivate, TypeOK
  <2>2. /\ UNCHANGED <<cli, mishaps, pages, fail>> /\ stopping' \subseteq stopping /\ n \in stopping
    BY <1>1 DEF Deactivate
  <2>3. mishaps = {} => Unrivalled'
    BY <1>0, <2>1 DEF Unrivalled, Candidate
  <2>4. QED
    BY <2>1, <2>2, <2>3, Carried DEF Candidate
<1>2. CASE Register(n) \/ Elect(n) \/ Promote(n)
  <2>1. /\ UNCHANGED <<cli, mishaps, pages, fail, stopping>>
        /\ \A m \in DBNodes : m # n => server'[m] = server[m]
    BY <1>2 DEF Register, Elect, Promote, TypeOK
  <2>2. /\ Candidate(n) => server[n] = "to_be_active" /\ server'[n] = "active"
        /\ server'[n] = "to_be_active" => \A m \in DBNodes : ~Candidate(m)
        /\ server'[n] = "active" => Candidate(n)
    BY <1>2 DEF Register, Elect, Promote, Candidate, TypeOK
  <2>3. mishaps = {} => Unrivalled'
    BY <1>0, <2>1, <2>2 DEF Unrivalled, Candidate
  <2>4. QED
    BY <2>1, <2>2, <2>3, Carried DEF Candidate
<1>3. CASE Ship(n) \/ Apply(n)
  <2>1. UNCHANGED <<cli, mishaps, server, stopping>>
    BY <1>3 DEF Ship, Apply
  <2>2. \A m \in DBNodes : server[m] = "to_be_active" /\ pages[m] = 0 =>
                              pages'[m] = 0 /\ fail'[m] = fail[m]
    BY <1>3 DEF Ship, Apply, TypeOK
  <2>3. mishaps = {} => Unrivalled'
    BY <1>0, <2>1 DEF Unrivalled, Candidate
  <2>4. QED
    BY <2>1, <2>2, <2>3, Carried DEF Candidate
<1>4. QED
  BY <1>1, <1>2, <1>3 DEF Engine

(* What a promote or failback completes was safe to complete when          *)
(* changemode ran: nothing was left to drain, lost rows were accepted with *)
(* --force, and no other node was the master (completeStalled in           *)
(* internal/cli/ha.go, CompletePromotion in internal/assembly).            *)
THEOREM ForcedCorrect == Spec => ForcedOnlySafe
<1> DEFINE Safe(c) ==
      LET n == cli[c].target
      IN  At(c, "changemode") /\ server[n] = "to_be_active" /\ cli' # cli /\ server'[n] = "active"
          /\ mishaps = {} =>
            /\ pages[n] = 0 /\ (fail[n] => cli[c].forced)
            /\ \A m \in DBNodes \ {n} : server[m] # "active"
<1>1. Init => ForceInv
  <2> SUFFICES ASSUME Init PROVE OneRunning /\ Unrivalled /\ \A c \in Clients : Sure(cli[c])
    BY DEF ForceInv
  <2>1. \A c \in Clients : cli[c].at = "idle"
    BY DEF Init, Fresh
  <2>2. CASE \A n, m \in DBNodes : {server[n], server[m]} \subseteq {"active", "to_be_active"} => n = m
    <3>1. ASSUME NEW n \in DBNodes, NEW m \in DBNodes, server[n] = "to_be_active", Candidate(m)
          PROVE  n = m
      <4>1. {server[n], server[m]} \subseteq {"active", "to_be_active"}
        BY <3>1 DEF Candidate
      <4>2. QED
        BY <2>2, <4>1
    <3>2. QED
      BY <2>1, <3>1 DEF Unrivalled, OneRunning, Sure, At
  <2>3. CASE \A n \in DBNodes : server[n] = "active"
    BY <2>1, <2>3 DEF Unrivalled, OneRunning, Sure, At
  <2>4. QED
    BY <2>2, <2>3 DEF Init
<1>2. TypeOK /\ ForceInv /\ [Next]_vars => ForceInv'
  <2> SUFFICES ASSUME TypeOK, ForceInv, [Next]_vars PROVE ForceInv'
    OBVIOUS
  <2>1. CASE UNCHANGED vars
    <3>1. UNCHANGED <<cli, mishaps, server, stopping, pages, fail>>
      BY <2>1 DEF vars, engine
    <3>2. mishaps = {} => Unrivalled'
      BY <3>1 DEF ForceInv, Unrivalled, Candidate
    <3>3. QED
      BY <3>1, <3>2, Carried DEF Candidate
  <2>2. ASSUME NEW c \in Clients, Begin(c) \/ Step(c) \/ IssueStop(c)
        PROVE  ForceInv'
    <3>1. CASE Begin(c)
      BY <3>1, BeginForce
    <3>2. CASE IssueStop(c)
      BY <3>2, IssueStopForce
    <3>3. CASE ReadNode(c) \/ Decide(c) \/ takeMasterAway(c)
      BY <3>3, ReadForce, DecideForce, takeMasterAwayForce
    <3>4. CASE CompletePromotion(c)
      BY <3>4, CompleteForce, ChangemodeForce DEF CompletePromotion
    <3>5. CASE Doors(c) \/ Rejoin(c) \/ Check(c)
      BY <3>5, RestForce, ServiceStopForce DEF Rejoin
    <3>6. QED
      BY <2>2, <3>1, <3>2, <3>3, <3>4, <3>5 DEF Step
  <2>3. ASSUME NEW c \in Clients, Trouble(c)
        PROVE  ForceInv'
    <3>1. CASE Late(c)
      BY <3>1, RestForce
    <3>2. CASE Expire(c) \/ Interrupted(c)
      BY <3>2 DEF Expire, Interrupted, ForceInv
    <3>3. QED
      BY <2>3, <3>1, <3>2 DEF Trouble
  <2>4. ASSUME NEW n \in DBNodes, Kill(n) \/ Start(n)
        PROVE  ForceInv'
    BY <2>4 DEF Kill, Start, ForceInv
  <2>5. ASSUME NEW n \in DBNodes, Engine(n)
        PROVE  ForceInv'
    BY <2>5, EngineForce
  <2>6. QED
    BY <2>1, <2>2, <2>3, <2>4, <2>5 DEF Next
<1>3. TypeOK /\ ForceInv /\ [Next]_vars => [\A c \in Clients : Safe(c)]_vars
  <2> SUFFICES ASSUME TypeOK, ForceInv, NEW c \in Clients, At(c, "changemode"),
                      server[cli[c].target] = "to_be_active", mishaps = {}
               PROVE  /\ pages[cli[c].target] = 0 /\ (fail[cli[c].target] => cli[c].forced)
                      /\ \A m \in DBNodes \ {cli[c].target} : server[m] # "active"
    OBVIOUS
  <2>1. Sure(cli[c]) /\ Unrivalled /\ cli[c].target \in DBNodes
    BY ClientType DEF ForceInv, ClientState
  <2>2. QED
    BY <2>1 DEF Sure, Unrivalled, Candidate, At
<1>4. QED
  BY <1>1, <1>2, <1>3, TypeCorrect, PTL DEF Spec, ForcedOnlySafe


-----------------------------------------------------------------------------
(* Reports.                                                                *)

(* Why a report holds: of what a command was told, nothing but a stop, and *)
(* no stop but of its own node, can take away that a server is active.     *)
Unharmed == mishaps \subseteq {"returned", "refused"}
Told(me) ==
  me.at # "idle" =>
    /\ stopping \subseteq {me.current} /\ me.target # me.current
    /\ me.at = "decide" \/ (me.at = "read" /\ me.then = "decide") => me.current = 0
    /\ me.at \in {"read", "watch"} /\ me.seen[me.target] = "active" => server[me.target] = "active"
    /\ me.at = "select" => server[me.target] = "active"
ReportsInv == Unharmed => OneRunning /\ \A c \in Clients : Told(cli[c])

(* What a running client turns to: it returns with a report, begins anew,  *)
(* goes on with what it has seen, or decides whom to take away.            *)
Reports(c, me) ==
  /\ me.at = "idle"
  /\ me.outcome = "promoted" =>
       server'[cli[c].target] = "active" \/ (At(c, "watch") /\ Promoted(c) /\ UNCHANGED server)
  /\ me.outcome = "verified" => At(c, "select") /\ server[cli[c].current] = "standby" /\ UNCHANGED server
Anew(c, me) ==
  /\ me.at \notin {"idle", "decide"} /\ (me.at = "read" => me.then # "decide")
  /\ me.current = cli[c].current /\ me.target = cli[c].target
  /\ \A n \in DBNodes : me.seen[n] = ""
  /\ me.at = "select" => server[me.target] = "active" /\ UNCHANGED server
Along(c, me) ==
  /\ me.at = cli[c].at \/ (At(c, "read") /\ me.at = cli[c].then)
  /\ me.then = cli[c].then /\ me.current = cli[c].current /\ me.target = cli[c].target
  /\ \A n \in DBNodes : me.seen[n] \in {cli[c].seen[n], "", server[n]}
  /\ UNCHANGED server
Decides(c, me) ==
  /\ At(c, "decide") /\ me.at \notin {"idle", "read", "decide", "watch", "select"}
  /\ cli[c].current = 0 => me.target # me.current
  /\ UNCHANGED <<server, stopping>>
Turns(c) == \E me : Becomes(c, me) /\ (Reports(c, me) \/ Anew(c, me) \/ Along(c, me) \/ Decides(c, me))

LEMMA TurnsReturn ==
  ASSUME NEW c \in Clients, NEW result \in {"none", "nothing", "error", "timeout", "unverified"}, Return(c, result)
  PROVE  Turns(c)
<1>1. [Fresh EXCEPT !.outcome = result].at = "idle" /\ [Fresh EXCEPT !.outcome = result].outcome = result
  BY DEF Fresh
<1>2. Reports(c, [Fresh EXCEPT !.outcome = result])
  BY <1>1 DEF Reports
<1>3. QED
  BY <1>2 DEF Return, Turns

LEMMA TurnsAnew ==
  ASSUME NEW c \in Clients, NEW me \in ClientState, me.current = cli[c].current, me.target = cli[c].target,
         \/ \E purpose \in {"watch", "verify"} : Becomes(c, Reading(me, purpose))
         \/ Becomes(c, Verifying(me))
         \/ \E phase \in Phases \ {"idle", "read", "decide", "select"} : Becomes(c, Going(me, phase))
  PROVE  Turns(c)
<1>1. \A n \in DBNodes : Unread[n] = ""
  BY DEF Unread
<1>2. ASSUME NEW purpose \in {"watch", "verify"}
      PROVE  Anew(c, Reading(me, purpose)) /\ Anew(c, Verifying(me))
  <2>1. /\ Reading(me, purpose).at = "read" /\ Reading(me, purpose).then = purpose
        /\ Reading(me, purpose).current = me.current /\ Reading(me, purpose).target = me.target
        /\ Reading(me, purpose).seen = Unread
    BY DEF Reading, ClientState
  <2>2. /\ Verifying(me).at = "read" /\ Verifying(me).then = "verify"
        /\ Verifying(me).current = me.current /\ Verifying(me).target = me.target
        /\ Verifying(me).seen = Unread
    BY DEF Verifying, Reading, ClientState
  <2>3. Anew(c, Reading(me, purpose))
    BY <1>1, <2>1 DEF Anew
  <2>4. Anew(c, Verifying(me))
    BY <1>1, <2>2 DEF Anew
  <2>5. QED
    BY <2>3, <2>4
<1>3. ASSUME NEW phase \in Phases \ {"idle", "read", "decide", "select"}
      PROVE  Anew(c, Going(me, phase))
  <2>1. /\ Going(me, phase).at = phase /\ Going(me, phase).seen = Unread
        /\ Going(me, phase).current = me.current /\ Going(me, phase).target = me.target
    BY DEF Going, ClientState
  <2>2. QED
    BY <1>1, <2>1 DEF Anew
<1>4. QED
  BY <1>2, <1>3 DEF Turns

LEMMA TurnsGoOn ==
  ASSUME NEW c \in Clients, NEW me \in ClientState, me.current = cli[c].current, me.target = cli[c].target, GoOn(c, me)
  PROVE  Turns(c)
<1>1. Return(c, "error") \/ Return(c, "timeout") \/ Becomes(c, Reading(me, "watch"))
  BY DEF GoOn
<1>2. QED
  BY <1>1, TurnsReturn, TurnsAnew

LEMMA WatchTurns ==
  ASSUME TypeOK, NEW c \in Clients, takeMasterAway(c)
  PROVE  Turns(c)
<1>0. cli[c] \in ClientState
  BY ClientType
<1>1. CASE TakeAway(c)
  BY <1>0, <1>1, TurnsAnew DEF TakeAway
<1>2. CASE WatchMoved(c) /\ cli[c].verb = "promote"
  <2>1. [Fresh EXCEPT !.outcome = "promoted"].at = "idle" /\ [Fresh EXCEPT !.outcome = "promoted"].outcome = "promoted"
    BY DEF Fresh
  <2>2. At(c, "watch") /\ Promoted(c) /\ UNCHANGED server
    BY <1>2 DEF WatchMoved, engine
  <2>3. Reports(c, [Fresh EXCEPT !.outcome = "promoted"])
    BY <2>1, <2>2 DEF Reports
  <2>4. QED
    BY <1>2, <2>3 DEF Turns, WatchMoved, Return
<1>3. CASE WatchMoved(c) /\ cli[c].verb # "promote"
  BY <1>0, <1>3, TurnsAnew DEF WatchMoved, Phases
<1>4. CASE WatchStalled(c)
  <2>1. Sighted(c) \in ClientState /\ Sighted(c).current = cli[c].current /\ Sighted(c).target = cli[c].target
    BY <1>0, RolesAssumption DEF Sighted, ClientState
  <2>2. Becomes(c, Going(Sighted(c), "complete")) \/ GoOn(c, Sighted(c))
    BY <1>4 DEF WatchStalled
  <2>3. QED
    BY <2>1, <2>2, TurnsAnew, TurnsGoOn DEF Phases
<1>5. CASE WatchIdle(c)
  BY <1>0, <1>5, TurnsGoOn DEF WatchIdle
<1>6. QED
  BY <1>1, <1>2, <1>3, <1>4, <1>5 DEF takeMasterAway

LEMMA ReadTurns ==
  ASSUME TypeOK, NEW c \in Clients, ReadNode(c)
  PROVE  Turns(c)
<1>0. cli[c] \in ClientState /\ At(c, "read") /\ UNCHANGED server
  BY ClientType DEF ReadNode, engine
<1>1. CASE MoreNodes(c)
  <2> DEFINE st == IF Expired(c) THEN "" ELSE server[Slot(c)]
             me == [cli[c] EXCEPT !.slot = @ + 1, !.seen[Slot(c)] = st]
  <2>1. Becomes(c, me)
    BY <1>1 DEF ReadNode
  <2>2. /\ me.at = cli[c].at /\ me.then = cli[c].then /\ me.current = cli[c].current /\ me.target = cli[c].target
        /\ me.seen = [cli[c].seen EXCEPT ![Slot(c)] = st]
    BY <1>0 DEF ClientState
  <2> HIDE DEF me
  <2>3. \A n \in DBNodes : me.seen[n] = IF n = Slot(c) THEN st ELSE cli[c].seen[n]
    BY <1>0, <2>2 DEF ClientState
  <2>4. \A n \in DBNodes : me.seen[n] \in {cli[c].seen[n], "", server[n]}
    BY <2>3
  <2>5. QED
    BY <1>0, <2>1, <2>2, <2>4 DEF Turns, Along
<1>2. CASE ~MoreNodes(c)
  <2> DEFINE me == [cli[c] EXCEPT !.at = cli[c].then]
  <2>1. Becomes(c, me)
    BY <1>2 DEF ReadNode
  <2>2. /\ me.at = cli[c].then /\ me.then = cli[c].then /\ me.current = cli[c].current /\ me.target = cli[c].target
        /\ me.seen = cli[c].seen
    BY <1>0 DEF ClientState
  <2> HIDE DEF me
  <2>3. QED
    BY <1>0, <2>1, <2>2 DEF Turns, Along
<1>3. QED
  BY <1>1, <1>2

LEMMA DecideTurns ==
  ASSUME TypeOK, NEW c \in Clients, Decide(c)
  PROVE  Turns(c)
<1>0. cli[c] \in ClientState
  BY ClientType
<1>1. CASE DecideNothing(c)
  BY <1>1, TurnsReturn DEF DecideNothing
<1>2. CASE Confirm(c)
  BY <1>0, <1>2, TurnsReturn, TurnsAnew DEF Confirm, Phases
<1>3. CASE DecideStalled(c)
  <2>1. PICK n \in toBeActive(c) : Becomes(c, [Going(cli[c], "blocker") EXCEPT !.target = n])
    BY <1>3 DEF DecideStalled
  <2> DEFINE me == [Going(cli[c], "blocker") EXCEPT !.target = n]
  <2>2. me.at = "blocker" /\ me.current = cli[c].current /\ me.target = n
    BY <1>0 DEF Going, ClientState
  <2>3. At(c, "decide") /\ n # 0 /\ UNCHANGED <<server, stopping>>
    BY <1>3, NodesFromOne DEF DecideStalled, toBeActive, engine
  <2> HIDE DEF me
  <2>4. Decides(c, me)
    BY <2>2, <2>3 DEF Decides
  <2>5. QED
    BY <2>1, <2>4 DEF Turns, me
<1>4. CASE DecideMove(c)
  <2>1. PICK n \in DBNodes, phase \in {"stop", "confirm"} :
          n # cli[c].target /\ Becomes(c, [Going(cli[c], phase) EXCEPT !.current = n])
    BY <1>4 DEF DecideMove
  <2> DEFINE me == [Going(cli[c], phase) EXCEPT !.current = n]
  <2>2. me.at = phase /\ me.current = n /\ me.target = cli[c].target
    BY <1>0 DEF Going, ClientState
  <2>3. At(c, "decide") /\ UNCHANGED <<server, stopping>>
    BY <1>4 DEF DecideMove, engine
  <2> HIDE DEF me
  <2>4. Decides(c, me)
    BY <2>1, <2>2, <2>3 DEF Decides
  <2>5. QED
    BY <2>1, <2>4 DEF Turns, me
<1>5. QED
  BY <1>1, <1>2, <1>3, <1>4 DEF Decide

LEMMA CompleteTurns ==
  ASSUME TypeOK, NEW c \in Clients, CompletePromotion(c)
  PROVE  Turns(c)
<1>0. cli[c] \in ClientState
  BY ClientType
<1>1. CASE Unanswered(c) \/ Blocked(c)
  BY <1>0, <1>1, TurnsGoOn DEF Unanswered, Blocked
<1>2. CASE Unblocked(c)
  BY <1>0, <1>2, TurnsAnew DEF Unblocked, Phases
<1>3. CASE Changemode(c)
  <2>1. CASE server' = [server EXCEPT ![cli[c].target] = "active"] /\ Return(c, "promoted")
    <3>1. [Fresh EXCEPT !.outcome = "promoted"].at = "idle" /\ [Fresh EXCEPT !.outcome = "promoted"].outcome = "promoted"
      BY DEF Fresh
    <3>2. server'[cli[c].target] = "active"
      BY <1>0, <2>1 DEF TypeOK, ClientState
    <3>3. Reports(c, [Fresh EXCEPT !.outcome = "promoted"])
      BY <3>1, <3>2 DEF Reports
    <3>4. QED
      BY <2>1, <3>3 DEF Turns, Return
  <2>2. CASE Becomes(c, Reading(cli[c], "watch")) \/ GoOn(c, cli[c])
    BY <1>0, <2>2, TurnsAnew, TurnsGoOn
  <2>3. QED
    BY <1>3, <2>1, <2>2 DEF Changemode
<1>4. QED
  BY <1>1, <1>2, <1>3 DEF CompletePromotion

LEMMA RestTurns ==
  ASSUME TypeOK, NEW c \in Clients,
         Doors(c) \/ Rejoin(c) \/ Check(c) \/ IssueStop(c) \/ Late(c)
  PROVE  Turns(c)
<1>0. cli[c] \in ClientState
  BY ClientType
<1>1. CASE \/ \E result \in {"error", "unverified"} : Return(c, result)
           \/ Becomes(c, Reading(cli[c], "verify")) \/ Becomes(c, Verifying(cli[c]))
           \/ \E phase \in {"stop", "door", "heartbeat", "broker", "resume", "insert"} : Becomes(c, Going(cli[c], phase))
  BY <1>0, <1>1, TurnsReturn, TurnsAnew DEF Phases
<1>2. CASE UNCHANGED server /\ \/ Becomes(c, [cli[c] EXCEPT !.slot = @ + 1])
                               \/ Becomes(c, [cli[c] EXCEPT !.issued = TRUE])
                               \/ Becomes(c, [cli[c] EXCEPT !.clock = "late"])
  <2>1. PICK me : /\ Becomes(c, me) /\ me.at = cli[c].at /\ me.then = cli[c].then
                  /\ me.current = cli[c].current /\ me.target = cli[c].target /\ me.seen = cli[c].seen
    BY <1>0, <1>2 DEF ClientState
  <2>2. QED
    BY <1>2, <2>1 DEF Turns, Along
<1>3. CASE Insert(c) /\ Becomes(c, Going(cli[c], "select"))
  <2>1. server[cli[c].target] = "active" /\ UNCHANGED server
    <3>1. Expired(c) \/ server[cli[c].target] # "active" => Return(c, "unverified") \/ server[cli[c].target] = "active"
      BY <1>3 DEF Insert
    <3>2. cli'[c].at = "select"
      BY <1>0, <1>3 DEF Becomes, Going, ClientState, TypeOK
    <3>3. ~Return(c, "unverified")
      BY <1>0, <3>2 DEF Return, Becomes, Fresh, TypeOK
    <3>4. QED
      BY <1>3, <3>3 DEF Insert, engine
  <2> DEFINE me == Going(cli[c], "select")
  <2>2. /\ me.at = "select" /\ me.current = cli[c].current /\ me.target = cli[c].target /\ me.seen = Unread
    BY <1>0 DEF Going, ClientState
  <2> HIDE DEF me
  <2>3. Anew(c, me)
    BY <2>1, <2>2 DEF Anew, Unread
  <2>4. QED
    BY <1>3, <2>3 DEF Turns, me
<1>4. CASE Select(c) /\ server[cli[c].current] = "standby" /\ Return(c, "verified")
  <2>1. [Fresh EXCEPT !.outcome = "verified"].at = "idle" /\ [Fresh EXCEPT !.outcome = "verified"].outcome = "verified"
    BY DEF Fresh
  <2>2. At(c, "select") /\ UNCHANGED server
    BY <1>4 DEF Select, engine
  <2>3. Reports(c, [Fresh EXCEPT !.outcome = "verified"])
    BY <1>4, <2>1, <2>2 DEF Reports
  <2>4. QED
    BY <1>4, <2>3 DEF Turns, Return
<1>5. CASE Doors(c)
  <2>1. UNCHANGED server
    BY <1>5 DEF Doors, Quiesce, Quiesced, Resume, Resumed, OpenDoor, engine
  <2>2. QED
    BY <1>1, <1>2, <1>5, <2>1 DEF Doors, Quiesce, Quiesced, Resume, Resumed, OpenDoor
<1>6. CASE Rejoin(c)
  BY <1>1, <1>6 DEF Rejoin, ServiceStop, HeartbeatStart, BrokerStart
<1>7. CASE Check(c)
  BY <1>1, <1>3, <1>4, <1>7 DEF Check, Verify, Insert, Select
<1>8. CASE IssueStop(c) \/ Late(c)
  <2>1. UNCHANGED server
    BY <1>8 DEF IssueStop, Late, engine
  <2>2. QED
    BY <1>2, <1>8, <2>1 DEF IssueStop, Late
<1>9. QED
  BY <1>5, <1>6, <1>7, <1>8

(* What a client does to the nodes: it takes no server away but its own.   *)
LEMMA SparesTarget ==
  ASSUME TypeOK, NEW c \in Clients, Step(c) \/ IssueStop(c) \/ Late(c)
  PROVE  /\ ~At(c, "idle") /\ mishaps \subseteq mishaps'
         /\ stopping' \subseteq stopping \cup {cli[c].current}
         /\ \A n \in DBNodes : n # cli[c].current /\ server[n] = "active" => server'[n] = "active"
<1>0. cli[c] \in ClientState
  BY ClientType
<1>1. ~At(c, "idle")
  BY <1>0 DEF Step, ReadNode, Decide, DecideNothing, DecideStalled, DecideMove, Confirm, takeMasterAway, TakeAway,
     WatchMoved, WatchStalled, WatchIdle, CompletePromotion, Unanswered, Blocked, Unblocked, Changemode,
     Doors, Quiesce, Quiesced, Resume, Resumed, OpenDoor, Rejoin, ServiceStop, HeartbeatStart, BrokerStart,
     Check, Verify, Insert, Select, IssueStop, Late, At
<1>2. CASE ReadNode(c) \/ Decide(c) \/ takeMasterAway(c) \/ Check(c) \/ Late(c) \/ Doors(c)
  BY <1>1, <1>2 DEF ReadNode, Decide, DecideNothing, DecideStalled, DecideMove, Confirm, takeMasterAway, TakeAway,
     WatchMoved, WatchStalled, WatchIdle, Doors, Quiesce, Quiesced, Resume, Resumed, OpenDoor,
     Check, Verify, Insert, Select, Late, engine
<1>3. CASE CompletePromotion(c) /\ ~Changemode(c)
  BY <1>1, <1>3 DEF CompletePromotion, Unanswered, Blocked, Unblocked, engine
<1>4. CASE Changemode(c)
  <2>1. server' \in {server, [server EXCEPT ![cli[c].target] = "active"]} /\ UNCHANGED <<stopping, mishaps>>
    BY <1>4 DEF Changemode
  <2>2. QED
    BY <1>1, <2>1 DEF TypeOK
<1>5. CASE Rejoin(c)
  <2>1. server' \in {server, [server EXCEPT ![cli[c].current] = ""]} /\ stopping' \subseteq stopping /\ UNCHANGED mishaps
    BY <1>5 DEF Rejoin, ServiceStop, Emptied, HeartbeatStart, BrokerStart, engine
  <2>2. QED
    BY <1>1, <2>1 DEF TypeOK
<1>6. CASE IssueStop(c)
  BY <1>1, <1>6 DEF IssueStop
<1>7. QED
  BY <1>2, <1>3, <1>4, <1>5, <1>6 DEF Step

LEMMA ToldStays ==
  ASSUME TypeOK, NEW c \in Clients, Turns(c), Told(cli[c]), ~At(c, "idle"),
         IssueStop(c) => cli[c].current # 0,
         stopping' \subseteq stopping \cup {cli[c].current},
         \A n \in DBNodes : n # cli[c].current /\ server[n] = "active" => server'[n] = "active"
  PROVE  Told(cli[c])'
<1>0. cli[c] \in ClientState /\ cli[c].target \in DBNodes /\ stopping \subseteq DBNodes
  BY ClientType DEF TypeOK, ClientState
<1>1. PICK me : Becomes(c, me) /\ (Reports(c, me) \/ Anew(c, me) \/ Along(c, me) \/ Decides(c, me))
  BY DEF Turns
<1>2. cli'[c] = me
  BY <1>1, Others
<1>3. /\ stopping \subseteq {cli[c].current} /\ cli[c].target # cli[c].current
      /\ stopping' \subseteq {cli[c].current}
      /\ cli[c].at = "decide" \/ (cli[c].at = "read" /\ cli[c].then = "decide") => cli[c].current = 0
  BY DEF Told, At
<1>4. CASE Reports(c, me)
  BY <1>2, <1>4 DEF Told, Reports
<1>5. CASE Anew(c, me)
  <2>1. me.at \notin {"idle", "decide"} /\ (me.at = "read" => me.then # "decide") /\ me.seen[me.target] # "active"
    BY <1>0, <1>5 DEF Anew
  <2>2. me.at = "select" => server'[me.target] = "active"
    BY <1>5 DEF Anew
  <2>3. me.current = cli[c].current /\ me.target = cli[c].target
    BY <1>5 DEF Anew
  <2>4. QED
    BY <1>2, <1>3, <2>1, <2>2, <2>3 DEF Told
<1>6. CASE Along(c, me)
  <2>1. /\ me.current = cli[c].current /\ me.target = cli[c].target
        /\ me.at = "decide" \/ (me.at = "read" /\ me.then = "decide") => me.current = 0
    BY <1>3, <1>6 DEF Along, At
  <2>2. me.at \in {"read", "watch"} /\ me.seen[me.target] = "active" => server'[me.target] = "active"
    <3>1. me.at \in {"read", "watch"} => cli[c].at \in {"read", "watch"}
      BY <1>6 DEF Along, At
    <3>2. me.seen[me.target] \in {cli[c].seen[me.target], "", server[me.target]}
      BY <1>0, <1>6, <2>1 DEF Along
    <3>3. cli[c].at \in {"read", "watch"} /\ cli[c].seen[cli[c].target] = "active" => server[cli[c].target] = "active"
      BY DEF Told
    <3>4. server' = server
      BY <1>6 DEF Along
    <3>5. QED
      BY <2>1, <3>1, <3>2, <3>3, <3>4
  <2>3. me.at = "select" => server'[me.target] = "active"
    <3>1. me.at = "select" => cli[c].at = "select"
      BY <1>0, <1>6 DEF Along, At, ClientState
    <3>2. QED
      BY <1>6, <2>1, <3>1 DEF Along, Told
  <2>4. QED
    BY <1>2, <1>3, <2>1, <2>2, <2>3 DEF Told
<1>7. CASE Decides(c, me)
  <2>1. cli[c].current = 0 /\ stopping' = {}
    <3>1. cli[c].current = 0
      BY <1>3, <1>7 DEF Decides, At
    <3>2. stopping = {}
      BY <1>0, <1>3, <3>1, NodesFromOne
    <3>3. QED
      BY <1>7, <3>1, <3>2 DEF Decides
  <2>2. QED
    BY <1>2, <1>7, <2>1 DEF Decides, Told
<1>8. QED
  BY <1>1, <1>4, <1>5, <1>6, <1>7

LEMMA ClientReports ==
  ASSUME TypeOK, ReportsInv, NEW c \in Clients, Step(c) \/ IssueStop(c) \/ Late(c)
  PROVE  ReportsInv'
<1> SUFFICES ASSUME Unharmed' PROVE (OneRunning /\ \A d \in Clients : Told(cli[d]))'
  BY DEF ReportsInv
<1>1. /\ ~At(c, "idle") /\ stopping' \subseteq stopping \cup {cli[c].current}
      /\ \A n \in DBNodes : n # cli[c].current /\ server[n] = "active" => server'[n] = "active"
      /\ OneRunning /\ Told(cli[c])
  BY SparesTarget DEF ReportsInv, Unharmed
<1>2. Turns(c)
  BY ReadTurns, DecideTurns, WatchTurns, CompleteTurns, RestTurns DEF Step
<1>3. Told(cli[c])'
  BY <1>1, <1>2, ToldStays DEF IssueStop
<1>4. \A d \in Clients : d # c => cli[d].at = "idle" /\ cli'[d] = cli[d]
  BY <1>1, <1>2, Others DEF Turns, OneRunning, At
<1>5. \A d \in Clients : d # c => Told(cli[d])'
  BY <1>4 DEF Told
<1>6. OneRunning'
  BY <1>4 DEF OneRunning, At
<1>7. QED
  BY <1>3, <1>5, <1>6

LEMMA BeginReports ==
  ASSUME TypeOK, ReportsInv, NEW c \in Clients, Begin(c)
  PROVE  ReportsInv' /\ cli'[c].at # "idle" /\ \A d \in Clients : d # c => cli'[d] = cli[d]
<1>2. PICK verb \in {"promote", "failback"}, t \in DBNodes, option \in BOOLEAN :
        Becomes(c, [Reading(Fresh, "decide") EXCEPT
          !.verb = verb, !.target = t,
          !.forced = option /\ verb = "promote", !.quiesce = option /\ verb = "failback" /\ WithBroker])
  BY DEF Begin
<1> DEFINE you == [Reading(Fresh, "decide") EXCEPT
          !.verb = verb, !.target = t,
          !.forced = option /\ verb = "promote", !.quiesce = option /\ verb = "failback" /\ WithBroker]
<1>3. /\ Reading(Fresh, "decide") \in ClientState
      /\ Reading(Fresh, "decide").at = "read" /\ Reading(Fresh, "decide").then = "decide"
      /\ Reading(Fresh, "decide").current = 0 /\ Reading(Fresh, "decide").seen = Unread
  BY FreshType, ReadingType DEF Outcomes, Reading, Fresh
<1>4. you.at = "read" /\ you.then = "decide" /\ you.current = 0 /\ you.seen = Unread /\ you.target = t
  BY <1>3 DEF ClientState
<1>5. Becomes(c, you)
  BY <1>2
<1> HIDE DEF you
<1>6. cli'[c] = you /\ \A d \in Clients : d # c => cli'[d] = cli[d]
  BY <1>5, Others
<1>7. ASSUME Unharmed' PROVE (OneRunning /\ \A d \in Clients : Told(cli[d]))'
  <2>1. stopping' = {} /\ \A d \in Clients : d # c => cli'[d].at = "idle"
    BY <1>6, <1>7 DEF Begin, Unharmed, At, engine
  <2>2. OneRunning'
    BY <2>1 DEF OneRunning, At
  <2>3. t # 0 /\ Unread[t] # "active"
    BY NodesFromOne DEF Unread
  <2>4. Told(cli[c])'
    BY <1>4, <1>6, <2>1, <2>3 DEF Told
  <2>5. \A d \in Clients : d # c => Told(cli[d])'
    BY <2>1 DEF Told
  <2>6. QED
    BY <2>2, <2>4, <2>5
<1>8. QED
  BY <1>4, <1>6, <1>7 DEF ReportsInv

LEMMA NodeReports ==
  ASSUME TypeOK, ReportsInv, UNCHANGED vars \/ \E n \in DBNodes : Kill(n) \/ Start(n) \/ Engine(n)
  PROVE  ReportsInv' /\ UNCHANGED cli
<1>1. UNCHANGED cli /\ mishaps \subseteq mishaps'
  BY DEF vars, Kill, Start, Engine, Deactivate, Register, Elect, Promote, Ship, Apply
<1> SUFFICES ASSUME Unharmed' PROVE (OneRunning /\ \A d \in Clients : Told(cli[d]))'
  BY <1>1 DEF ReportsInv
<1>2. OneRunning /\ \A d \in Clients : Told(cli[d])
  BY <1>1 DEF ReportsInv, Unharmed
<1>3. stopping' \subseteq stopping /\ \A m \in DBNodes : server[m] = "active" => server'[m] = "active" \/ m \in stopping
  <2>1. CASE UNCHANGED vars
    BY <2>1 DEF vars, engine
  <2>2. ASSUME NEW n \in DBNodes, Kill(n) PROVE FALSE
    BY <2>2 DEF Kill, Unharmed
  <2>3. ASSUME NEW n \in DBNodes, Start(n) \/ Ship(n) \/ Apply(n) PROVE UNCHANGED <<server, stopping>>
    BY <2>3 DEF Start, Ship, Apply
  <2>4. ASSUME NEW n \in DBNodes, Deactivate(n)
        PROVE  n \in stopping /\ stopping' \subseteq stopping /\ \A m \in DBNodes : m # n => server'[m] = server[m]
    BY <2>4 DEF Deactivate, TypeOK
  <2>5. ASSUME NEW n \in DBNodes, Register(n) \/ Elect(n) \/ Promote(n)
        PROVE  UNCHANGED stopping /\ server[n] # "active" /\ \A m \in DBNodes : m # n => server'[m] = server[m]
    BY <2>5 DEF Register, Elect, Promote, TypeOK
  <2>6. QED
    BY <2>1, <2>2, <2>3, <2>4, <2>5 DEF Engine
<1>4. OneRunning'
  BY <1>1, <1>2 DEF OneRunning, At
<1>5. ASSUME NEW d \in Clients PROVE Told(cli[d])'
  <2>1. Told(cli[d]) /\ cli'[d] = cli[d] /\ cli[d].target \in DBNodes
    BY <1>1, <1>2, ClientType DEF ClientState
  <2>2. cli[d].at # "idle" /\ server[cli[d].target] = "active" => server'[cli[d].target] = "active"
    BY <1>3, <2>1 DEF Told
  <2>3. QED
    BY <1>3, <2>1, <2>2 DEF Told
<1>6. QED
  BY <1>1, <1>4, <1>5

(* "promoted" and "verified" are said of nodes read one after another, and *)
(* of a master seen before the check began.  They hold when they are said, *)
(* unless a node was killed, or a command cut off or run into by another   *)
(* (takeMasterAway, failback and its canary in internal/cli/ha.go).        *)
THEOREM ReportsCorrect == Spec => ReportsAreTrue
<1> DEFINE True(c) ==
      mishaps \subseteq {"returned", "refused"} /\ cli'[c].at = "idle" =>
       /\ ~At(c, "idle") /\ cli'[c].outcome \in {"promoted", "verified"}
            => server'[cli[c].target] = "active"
       /\ ~At(c, "idle") /\ cli'[c].outcome = "verified" => server'[cli[c].current] = "standby"
<1>1. Init => ReportsInv
  <2>1. Init => cli = [c \in Clients |-> Fresh]
    BY DEF Init
  <2>2. Fresh.at = "idle"
    BY DEF Fresh
  <2>3. Init => \A c \in Clients : cli[c].at = "idle"
    BY <2>1, <2>2
  <2>4. QED
    BY <2>3 DEF ReportsInv, OneRunning, Told, At
<1>2. TypeOK /\ ReportsInv /\ [Next]_vars => ReportsInv'
  <2> SUFFICES ASSUME TypeOK, ReportsInv, [Next]_vars PROVE ReportsInv'
    OBVIOUS
  <2>1. ASSUME NEW c \in Clients, Begin(c) \/ Step(c) \/ IssueStop(c) \/ Late(c)
        PROVE  ReportsInv'
    BY <2>1, BeginReports, ClientReports
  <2>2. ASSUME NEW c \in Clients, Expire(c) \/ Interrupted(c)
        PROVE  ReportsInv'
    BY <2>2 DEF Expire, Interrupted, ReportsInv, Unharmed
  <2>3. QED
    BY <2>1, <2>2, NodeReports DEF Next, Trouble
<1>3. TypeOK /\ ReportsInv /\ [Next]_vars => [\A c \in Clients : True(c)]_vars
  <2> SUFFICES ASSUME TypeOK, ReportsInv, Next, NEW c \in Clients, Unharmed, cli'[c].at = "idle", ~At(c, "idle")
               PROVE  /\ cli'[c].outcome \in {"promoted", "verified"} => server'[cli[c].target] = "active"
                      /\ cli'[c].outcome = "verified" => server'[cli[c].current] = "standby"
    BY DEF Unharmed
  <2>1. PICK d \in Clients : Begin(d) \/ Step(d) \/ IssueStop(d) \/ Trouble(d)
    BY NodeReports DEF Next, At
  <2>2. CASE d # c
    <3>1. \E me : Becomes(d, me)
      BY <2>1, BeginReports, ReadTurns, DecideTurns, WatchTurns, CompleteTurns, RestTurns
         DEF Begin, Step, Trouble, Expire, Interrupted, Return, Turns
    <3>2. QED
      BY <2>2, <3>1, Others DEF At
  <2>3. CASE d = c /\ (Expire(c) \/ Interrupted(c))
    <3>1. Expire(c) => cli'[c].at = cli[c].at
      BY ClientType, Others DEF Expire, ClientState
    <3>2. Interrupted(c) => cli'[c].outcome = "none"
      <4>1. [Fresh EXCEPT !.outcome = "none"].outcome = "none"
        BY DEF Fresh
      <4>2. QED
        BY <4>1, Others DEF Interrupted, Return
    <3>3. QED
      BY <2>3, <3>1, <3>2 DEF At
  <2>4. CASE d = c /\ (Step(c) \/ IssueStop(c) \/ Late(c))
    <3>1. Turns(c)
      BY <2>4, ReadTurns, DecideTurns, WatchTurns, CompleteTurns, RestTurns DEF Step
    <3>2. PICK me : Becomes(c, me) /\ (Reports(c, me) \/ Anew(c, me) \/ Along(c, me) \/ Decides(c, me))
      BY <3>1 DEF Turns
    <3>3. cli'[c] = me /\ cli[c] \in ClientState
      BY <3>2, Others, ClientType
    <3>4. Reports(c, me)
      BY <3>2, <3>3 DEF Anew, Along, Decides, At, ClientState
    <3>5. Told(cli[c])
      BY DEF ReportsInv
    <3>6. QED
      BY <3>3, <3>4, <3>5 DEF Reports, Told, At, Promoted
  <2>5. CASE d = c /\ Begin(c)
    BY <2>5 DEF Begin
  <2>6. QED
    BY <2>1, <2>2, <2>3, <2>4, <2>5 DEF Trouble
<1>4. QED
  BY <1>1, <1>2, <1>3, TypeCorrect, PTL DEF Spec, ReportsAreTrue

=============================================================================
