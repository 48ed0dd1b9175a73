------------------------------- MODULE Roles -------------------------------
(***************************************************************************)
(* Moving the master's role: `csb ha promote` and `csb ha failback`        *)
(* (internal/cli/ha.go), with the steps they take from internal/fault      *)
(* (Start, Quiesce, Resume) and internal/assembly (CompletePromotion).     *)
(*                                                                         *)
(* Neither verb sets a role.  They take the master's heartbeat away, read  *)
(* the nodes one after another until the target is seen active, and finish *)
(* a promotion the engine leaves half way when that can be shown to be     *)
(* safe; failback goes on to bring the old master back as a standby, with  *)
(* the brokers' doors shut meanwhile if it was asked to.  Each step is an  *)
(* exec of its own, --wait and --timeout can run out at any of them, and   *)
(* an exec that was cut off runs on inside its container.                  *)
(*                                                                         *)
(* External, modelled from how the code uses it: the heartbeat, the server *)
(* and the broker of a node.  The HA group only: both verbs refuse a       *)
(* single server (requireHA).                                              *)
(***************************************************************************)
EXTENDS Naturals, FiniteSets

CONSTANTS
  NNodes,     \* database nodes, in the order of T.Nodes
  Clients,    \* csb processes
  WithBroker, \* the cluster was created --with-broker
  StuckLimit, \* sightings of to_be_active before takeMasterAway completes it (5)
  MaxPages,   \* bound: pages shipped and not applied
  MaxEvents   \* bound: nodes killed, or put back by somebody else

DBNodes == 1..NNodes

ASSUME RolesAssumption ==
  /\ NNodes \in Nat \ {0} /\ WithBroker \in BOOLEAN
  /\ StuckLimit \in Nat \ {0} /\ MaxPages \in Nat /\ MaxEvents \in Nat

VARIABLES
  server,   \* server[n]: the state the heartbeat registered n's server in
  hb,       \* hb[n]: n's heartbeat; after a stop a bare start is refused
  stopping, \* nodes in which a `heartbeat stop` is at work
  pages,    \* pages[n]: eof_lsa - final_lsa of n's applier
  fail,     \* fail[n]: n's fail_counter is not zero
  broker,   \* broker[n]: n's broker runs
  door,     \* door[n]: its ACCESS_MODE is RO
  recorded, \* faults.json lists a quiesce (of all nodes)
  cli,      \* cli[c]: what client c keeps, see ClientState
  events,   \* how many events have happened
  mishaps   \* history: what has come between a command and its end

engine == <<server, hb, stopping, pages, fail>>
doors  == <<broker, door, recorded>>
vars   == <<engine, doors, cli, events, mishaps>>

ServerStates == {"", "standby", "to_be_active", "active"}
Phases == {"idle", "read", "decide", "confirm", "quiesce", "stop", "watch", "blocker", "complete",
           "changemode", "service", "heartbeat", "broker", "resume", "door", "verify", "insert", "select"}
ClientState ==
  [at      : Phases,
   then    : {"decide", "watch", "verify"},       \* what reading the nodes is for
   verb    : {"promote", "failback"},
   target  : DBNodes,                             \* the node to become master
   current : DBNodes \cup {0},                    \* the master to be taken away; 0: a promotion is only finished
   forced  : BOOLEAN,                             \* promote --force
   quiesce : BOOLEAN,                             \* failback --quiesce
   issued  : BOOLEAN,                             \* its `heartbeat stop` has been sent
   slot    : 1..(NNodes + 1),                     \* the node a loop is at
   seen    : [DBNodes -> ServerStates],           \* what this pass has read
   stuck   : 0..StuckLimit,
   clock   : {"fresh", "late", "expired"},        \* --wait, then --timeout
   outcome : {"none", "nothing", "error", "timeout", "promoted", "verified", "unverified"}]
Mishaps == {"killed", "returned", "cut", "overlapped", "refused"}

TypeOK ==
  /\ server \in [DBNodes -> ServerStates]
  /\ hb \in [DBNodes -> {"off", "on", "deactivated"}]
  /\ stopping \subseteq DBNodes
  /\ pages \in [DBNodes -> 0..MaxPages] /\ fail \in [DBNodes -> BOOLEAN]
  /\ broker \in [DBNodes -> BOOLEAN] /\ door \in [DBNodes -> BOOLEAN] /\ recorded \in BOOLEAN
  /\ cli \in [Clients -> ClientState]
  /\ events \in 0..MaxEvents /\ mishaps \subseteq Mishaps

Unread == [n \in DBNodes |-> ""]
Fresh == [at |-> "idle", then |-> "decide", verb |-> "promote", target |-> 1, current |-> 0,
          forced |-> FALSE, quiesce |-> FALSE, issued |-> FALSE, slot |-> 1, seen |-> Unread,
          stuck |-> 0, clock |-> "fresh", outcome |-> "none"]

(* The group as it may be found: at most one master or candidate, or a     *)
(* split brain; nodes out of the group; standbys behind or missing rows.   *)
Init ==
  /\ server \in [DBNodes -> ServerStates]
  /\ \/ \A n, m \in DBNodes : {server[n], server[m]} \subseteq {"active", "to_be_active"} => n = m
     \/ \A n \in DBNodes : server[n] = "active"
  /\ hb \in [DBNodes -> {"on", "deactivated"}]
  /\ \A n \in DBNodes : hb[n] = "on" <=> server[n] # ""
  /\ stopping = {}
  /\ pages = [n \in DBNodes |-> IF server[n] \in {"standby", "to_be_active"} THEN MaxPages ELSE 0]
  /\ fail \in [DBNodes -> BOOLEAN]
  /\ broker = [n \in DBNodes |-> WithBroker]
  /\ door = [n \in DBNodes |-> FALSE]
  /\ recorded = FALSE
  /\ cli = [c \in Clients |-> Fresh]
  /\ events = 0 /\ mishaps = {}

-----------------------------------------------------------------------------
At(c, phase) == cli[c].at = phase
Expired(c)   == cli[c].clock = "expired"
Slot(c)      == cli[c].slot
MoreNodes(c) == Slot(c) \in DBNodes
Becomes(c, me) == cli' = [cli EXCEPT ![c] = me]

(* A command returns: its locals are gone, what it reported remains.       *)
Return(c, result) == Becomes(c, [Fresh EXCEPT !.outcome = result])

(* What a client keeps when it begins to read the nodes anew.              *)
Reading(me, purpose) == [me EXCEPT !.at = "read", !.then = purpose, !.slot = 1, !.seen = Unread]
Going(me, phase) == [me EXCEPT !.at = phase, !.slot = 1, !.seen = Unread]

Verifying(me) == [Reading(me, "verify") EXCEPT !.clock = IF @ = "late" THEN "fresh" ELSE @]

(* masters and toBeActive look at what was read, not at the nodes.         *)
masters(c) == {n \in DBNodes : cli[c].seen[n] = "active"}
toBeActive(c) == {n \in DBNodes : cli[c].seen[n] = "to_be_active"}

-----------------------------------------------------------------------------
(* The command line, and inspect.Read.                                     *)

Begin(c) ==
  /\ At(c, "idle")
  /\ \E verb \in {"promote", "failback"}, t \in DBNodes, option \in BOOLEAN :
       Becomes(c, [Reading(Fresh, "decide") EXCEPT
         !.verb = verb, !.target = t,
         !.forced = option /\ verb = "promote", !.quiesce = option /\ verb = "failback" /\ WithBroker])
  /\ mishaps' = IF stopping # {} \/ \E d \in Clients : d # c /\ ~At(d, "idle")
                THEN mishaps \cup {"overlapped"} ELSE mishaps
  /\ UNCHANGED <<engine, doors, events>>

(* A node whose exec fails reads as having no server.                      *)
ReadNode(c) ==
  /\ At(c, "read")
  /\ \/ /\ MoreNodes(c)
        /\ Becomes(c, [cli[c] EXCEPT !.slot = @ + 1,
                                     !.seen[Slot(c)] = IF Expired(c) THEN "" ELSE server[Slot(c)]])
     \/ /\ ~MoreNodes(c)
        /\ Becomes(c, [cli[c] EXCEPT !.at = cli[c].then])
  /\ UNCHANGED <<engine, doors, events, mishaps>>

-----------------------------------------------------------------------------
(* What the two commands make of it.                                       *)

(* Two masters are a split brain and refused; the target being the master  *)
(* leaves nothing to do; and with nobody active there is only a promotion  *)
(* that started, on whichever node it did, to be finished.                 *)
DecideNothing(c) ==
  /\ At(c, "decide")
  /\ \/ /\ masters(c) = {cli[c].target} /\ Return(c, "nothing")
     \/ /\ \/ Cardinality(masters(c)) > 1
           \/ masters(c) = {} /\ (cli[c].verb = "failback" \/ toBeActive(c) = {})
        /\ Return(c, "error")
  /\ UNCHANGED <<engine, doors, events, mishaps>>

DecideStalled(c) ==
  /\ At(c, "decide") /\ cli[c].verb = "promote" /\ masters(c) = {}
  /\ \E n \in toBeActive(c) :
       /\ \A m \in toBeActive(c) : n <= m
       /\ Becomes(c, [Going(cli[c], "blocker") EXCEPT !.target = n])
  /\ UNCHANGED <<engine, doors, events, mishaps>>

(* Nothing asks what state the target is in.                               *)
DecideMove(c) ==
  /\ At(c, "decide")
  /\ \E n \in DBNodes :
       /\ masters(c) = {n} /\ n # cli[c].target
       /\ Becomes(c, [Going(cli[c], IF cli[c].verb = "promote" THEN "stop" ELSE "confirm") EXCEPT
                        !.current = n])
  /\ UNCHANGED <<engine, doors, events, mishaps>>

(* Failback's canary decides nothing by itself: whoever reads its evidence *)
(* says yes, or does not, or asked for a dry run.                          *)
Confirm(c) ==
  /\ At(c, "confirm")
  /\ \/ Return(c, "nothing")
     \/ Becomes(c, Going(cli[c], IF cli[c].quiesce THEN "quiesce" ELSE "stop"))
  /\ UNCHANGED <<engine, doors, events, mishaps>>

-----------------------------------------------------------------------------
(* takeMasterAway.                                                         *)

(* `heartbeat stop` is sent by a goroutine while the nodes are being read. *)
TakeAway(c) ==
  /\ At(c, "stop")
  /\ Becomes(c, Reading(cli[c], "watch"))
  /\ UNCHANGED <<engine, doors, events, mishaps>>

IssueStop(c) ==
  /\ cli[c].current # 0 /\ ~cli[c].issued
  /\ cli[c].at \notin {"idle", "decide", "confirm", "quiesce", "stop"}
  /\ stopping' = IF Expired(c) THEN stopping ELSE stopping \cup {cli[c].current}
  /\ Becomes(c, [cli[c] EXCEPT !.issued = TRUE])
  /\ UNCHANGED <<server, hb, pages, fail, doors, events, mishaps>>

(* Round again, or give up.  A promotion that is only being finished gets  *)
(* no second round.  Mutant: no deadline.                                  *)
GoOn_Never(c, me) ==
  IF me.current = 0 THEN Return(c, "error") ELSE Becomes(c, Reading(me, "watch"))
GoOn(c, me) ==
  IF me.current = 0 THEN Return(c, "error")
  ELSE IF me.clock = "fresh" THEN Becomes(c, Reading(me, "watch")) ELSE Return(c, "timeout")

(* The target is the master.  The next wait has a deadline of its own.     *)
(* Mutant: the first role that accepts a connection is good enough.        *)
Promoted_TooEarly(c) == cli[c].seen[cli[c].target] \in {"active", "to_be_active"}
Promoted(c) == cli[c].seen[cli[c].target] = "active"
WatchMoved(c) ==
  /\ At(c, "watch") /\ Promoted(c)
  /\ IF cli[c].verb = "promote" THEN Return(c, "promoted") ELSE Becomes(c, Going(cli[c], "service"))
  /\ UNCHANGED <<engine, doors, events, mishaps>>

(* Sightings of to_be_active are counted, and never counted down.          *)
Sighted(c) == [cli[c] EXCEPT !.stuck = IF @ < StuckLimit THEN @ + 1 ELSE @]
WatchStalled(c) ==
  /\ At(c, "watch") /\ ~Promoted(c) /\ cli[c].seen[cli[c].target] = "to_be_active"
  /\ IF Sighted(c).stuck >= StuckLimit THEN Becomes(c, Going(Sighted(c), "complete"))
     ELSE GoOn(c, Sighted(c))
  /\ UNCHANGED <<engine, doors, events, mishaps>>

WatchIdle(c) ==
  /\ At(c, "watch") /\ ~Promoted(c) /\ cli[c].seen[cli[c].target] # "to_be_active"
  /\ GoOn(c, cli[c])
  /\ UNCHANGED <<engine, doors, events, mishaps>>

-----------------------------------------------------------------------------
(* PromotionBlocker and CompletePromotion.  completeStalled asks twice.    *)

(* Mutant: --force also gets past pages that are still to drain.           *)
promotionBlocker_Force(c, n) == ~cli[c].forced /\ (pages[n] # 0 \/ fail[n])
promotionBlocker(c, n) == pages[n] # 0 \/ (fail[n] /\ ~cli[c].forced)

(* No row, or no answer: neither safe nor a reason.                        *)
Unanswered(c) ==
  /\ cli[c].at \in {"blocker", "complete"}
  /\ GoOn(c, cli[c])
  /\ UNCHANGED <<engine, doors, events, mishaps>>

Blocked(c) ==
  /\ cli[c].at \in {"blocker", "complete"} /\ ~Expired(c) /\ promotionBlocker(c, cli[c].target)
  /\ GoOn(c, cli[c])
  /\ UNCHANGED <<engine, doors, events, mishaps>>

Unblocked(c) ==
  /\ cli[c].at \in {"blocker", "complete"} /\ ~Expired(c) /\ ~promotionBlocker(c, cli[c].target)
  /\ Becomes(c, Going(cli[c], IF At(c, "blocker") THEN "complete" ELSE "changemode"))
  /\ UNCHANGED <<engine, doors, events, mishaps>>

(* `changemode -m active -f`, another exec: the node is as it is now, and  *)
(* one that is cut off fails for its caller whatever it does in the node.  *)
(* takeMasterAway then goes round without asking for the deadline.         *)
Changemode(c) ==
  /\ At(c, "changemode")
  /\ \/ /\ ~Expired(c) /\ server[cli[c].target] \in {"to_be_active", "active"}
        /\ server' = [server EXCEPT ![cli[c].target] = "active"]
        /\ IF cli[c].current = 0 THEN Return(c, "promoted") ELSE Becomes(c, Reading(cli[c], "watch"))
     \/ /\ Expired(c) /\ server[cli[c].target] \in {"to_be_active", "active"}
        /\ server' = [server EXCEPT ![cli[c].target] = "active"]
        /\ GoOn(c, cli[c])
     \/ /\ Expired(c) \/ server[cli[c].target] \notin {"to_be_active", "active"}
        /\ GoOn(c, cli[c])
        /\ UNCHANGED server
  /\ UNCHANGED <<hb, stopping, pages, fail, doors, events, mishaps>>

-----------------------------------------------------------------------------
(* The doors: Quiesce before the move, Resume after it.                    *)

(* broker_changer on one node after another; recorded when all are shut.   *)
(* It is refused by a broker that does not run, and may have shut the door *)
(* when it is cut off.                                                     *)
Quiesce(c) ==
  /\ At(c, "quiesce") /\ MoreNodes(c)
  /\ \/ /\ ~Expired(c) /\ broker[Slot(c)]
        /\ door' = [door EXCEPT ![Slot(c)] = TRUE]
        /\ Becomes(c, [cli[c] EXCEPT !.slot = @ + 1])
        /\ UNCHANGED mishaps
     \/ /\ Expired(c) \/ ~broker[Slot(c)]
        /\ Return(c, "error")
        /\ mishaps' = mishaps \cup {"refused"}
        /\ door' \in {door, [door EXCEPT ![Slot(c)] = broker[Slot(c)]]}
  /\ UNCHANGED <<engine, broker, recorded, events>>

(* Mutant: the quiesce of a failback is its own affair and not recorded.   *)
Quiesced_Unrecorded(c) ==
  /\ At(c, "quiesce") /\ ~MoreNodes(c)
  /\ Becomes(c, Going(cli[c], "stop"))
  /\ UNCHANGED <<engine, doors, events, mishaps>>
Quiesced(c) ==
  /\ At(c, "quiesce") /\ ~MoreNodes(c)
  /\ recorded' = TRUE
  /\ Becomes(c, Going(cli[c], "stop"))
  /\ UNCHANGED <<engine, broker, door, events, mishaps>>

(* Whatever comes of the execs, the record goes.  Mutant: one node past    *)
(* the end of the list.                                                    *)
Resume_OffByOne(c) ==
  /\ At(c, "resume") /\ Slot(c) <= NNodes + 1
  /\ Becomes(c, [cli[c] EXCEPT !.slot = @ + 1])
  /\ UNCHANGED <<engine, doors, events, mishaps>>
Resume(c) ==
  /\ At(c, "resume") /\ MoreNodes(c)
  /\ \/ ~Expired(c) /\ door' = [door EXCEPT ![Slot(c)] = FALSE]
     \/ Expired(c) /\ UNCHANGED door
  /\ Becomes(c, [cli[c] EXCEPT !.slot = @ + 1])
  /\ UNCHANGED <<engine, broker, recorded, events, mishaps>>

Resumed(c) ==
  /\ At(c, "resume") /\ ~MoreNodes(c)
  /\ recorded' = FALSE
  /\ Becomes(c, Going(cli[c], "door"))
  /\ UNCHANGED <<engine, broker, door, events, mishaps>>

-----------------------------------------------------------------------------
(* Failback from here: Injector.Start on the old master, and the check.    *)

(* What a stop of n's processes leaves: a broker that starts again starts  *)
(* from its file, in which the door is open.                               *)
Emptied(n) ==
  /\ server' = [server EXCEPT ![n] = ""]
  /\ hb' = [hb EXCEPT ![n] = "off"]
  /\ stopping' = stopping \ {n}
  /\ broker' = [broker EXCEPT ![n] = FALSE]
  /\ door' = [door EXCEPT ![n] = FALSE]

(* `service stop`, its result discarded.  Mutant: the plain heartbeat      *)
(* start, which is refused after a stop.                                   *)
ServiceStop_Skipped(c) ==
  /\ At(c, "service")
  /\ Becomes(c, Going(cli[c], "heartbeat"))
  /\ UNCHANGED <<engine, doors, events, mishaps>>
ServiceStop(c) ==
  /\ At(c, "service")
  /\ IF Expired(c) THEN UNCHANGED <<server, hb, stopping, broker, door>> ELSE Emptied(cli[c].current)
  /\ Becomes(c, Going(cli[c], "heartbeat"))
  /\ UNCHANGED <<pages, fail, recorded, events, mishaps>>

(* Only an exec that cannot begin is an error.  One that is cut off, by    *)
(* Expire after it, is an exit status nobody looks at; it runs on.         *)
HeartbeatStart(c) ==
  /\ At(c, "heartbeat")
  /\ \/ /\ ~Expired(c)
        /\ hb' = [hb EXCEPT ![cli[c].current] = IF @ = "off" THEN "on" ELSE @]
        /\ Becomes(c, IF WithBroker THEN Going(cli[c], "broker") ELSE Verifying(cli[c]))
     \/ /\ Expired(c) /\ Return(c, "error")
        /\ UNCHANGED hb
  /\ UNCHANGED <<server, stopping, pages, fail, doors, events, mishaps>>

BrokerStart(c) ==
  /\ At(c, "broker")
  /\ \/ ~Expired(c) /\ broker' = [broker EXCEPT ![cli[c].current] = TRUE]
     \/ Expired(c) /\ UNCHANGED broker
  /\ Becomes(c, Going(cli[c], IF cli[c].quiesce THEN "resume" ELSE "door"))
  /\ UNCHANGED <<engine, door, recorded, events, mishaps>>

(* Service means that a client can reach it.                               *)
OpenDoor(c) ==
  /\ At(c, "door")
  /\ \/ ~Expired(c) /\ broker' = [broker EXCEPT ![cli[c].target] = TRUE]
     \/ Expired(c) /\ UNCHANGED broker
  /\ Becomes(c, Verifying(cli[c]))
  /\ UNCHANGED <<engine, door, recorded, events, mishaps>>

Verify(c) ==
  /\ At(c, "verify")
  /\ IF cli[c].seen[cli[c].current] = "standby" THEN Becomes(c, Going(cli[c], "insert"))
     ELSE IF cli[c].clock = "fresh" THEN Becomes(c, Reading(cli[c], "verify"))
     ELSE Return(c, "unverified")
  /\ UNCHANGED <<engine, doors, events, mishaps>>

(* The canary: a write on the new master that has to arrive.               *)
Insert(c) ==
  /\ At(c, "insert")
  /\ \/ ~Expired(c) /\ server[cli[c].target] = "active" /\ Becomes(c, Going(cli[c], "select"))
     \/ (Expired(c) \/ server[cli[c].target] # "active") /\ Return(c, "unverified")
  /\ UNCHANGED <<engine, doors, events, mishaps>>

Select(c) ==
  /\ At(c, "select")
  /\ \/ ~Expired(c) /\ server[cli[c].current] = "standby" /\ Return(c, "verified")
     \/ Return(c, "unverified")
  /\ UNCHANGED <<engine, doors, events, mishaps>>

-----------------------------------------------------------------------------
(* What ends a client from outside, and what happens to the nodes.         *)

Late(c) ==
  /\ \/ cli[c].at \in {"watch", "complete", "changemode", "verify"}
     \/ At(c, "read") /\ cli[c].then # "decide"
  /\ cli[c].clock = "fresh" /\ cli[c].current # 0
  /\ Becomes(c, [cli[c] EXCEPT !.clock = "late"])
  /\ UNCHANGED <<engine, doors, events, mishaps>>

Expire(c) ==
  /\ ~At(c, "idle") /\ ~Expired(c)
  /\ Becomes(c, [cli[c] EXCEPT !.clock = "expired"])
  /\ mishaps' = mishaps \cup {"cut"}
  /\ UNCHANGED <<engine, doors, events>>

Interrupted(c) ==
  /\ ~At(c, "idle")
  /\ Return(c, "none")
  /\ mishaps' = mishaps \cup {"cut"}
  /\ UNCHANGED <<engine, doors, events>>

(* `csb node kill`, or a crash.                                            *)
Kill(n) ==
  /\ events < MaxEvents /\ hb[n] # "off"
  /\ Emptied(n)
  /\ events' = events + 1 /\ mishaps' = mishaps \cup {"killed"}
  /\ UNCHANGED <<pages, fail, recorded, cli>>

(* `csb node start`, from another terminal.                                *)
Start(n) ==
  /\ events < MaxEvents /\ hb[n] # "on"
  /\ hb' = [hb EXCEPT ![n] = "on"]
  /\ broker' = [broker EXCEPT ![n] = WithBroker]
  /\ door' = [door EXCEPT ![n] = FALSE]
  /\ events' = events + 1 /\ mishaps' = mishaps \cup {"returned"}
  /\ UNCHANGED <<server, stopping, pages, fail, recorded, cli>>

-----------------------------------------------------------------------------
(* The engine.                                                             *)

(* `heartbeat stop` takes the server down with it.                         *)
Deactivate(n) ==
  /\ n \in stopping
  /\ server' = [server EXCEPT ![n] = ""]
  /\ hb' = [hb EXCEPT ![n] = IF @ = "on" THEN "deactivated" ELSE @]
  /\ stopping' = stopping \ {n}
  /\ UNCHANGED <<pages, fail, doors, cli, events, mishaps>>

Register(n) ==
  /\ hb[n] = "on" /\ server[n] = ""
  /\ server' = [server EXCEPT ![n] = "standby"]
  /\ UNCHANGED <<hb, stopping, pages, fail, doors, cli, events, mishaps>>

Elect(n) ==
  /\ server[n] = "standby"
  /\ \A m \in DBNodes : server[m] \notin {"to_be_active", "active"}
  /\ server' = [server EXCEPT ![n] = "to_be_active"]
  /\ UNCHANGED <<hb, stopping, pages, fail, doors, cli, events, mishaps>>

Promote(n) ==
  /\ server[n] = "to_be_active" /\ pages[n] = 0
  /\ server' = [server EXCEPT ![n] = "active"]
  /\ UNCHANGED <<hb, stopping, pages, fail, doors, cli, events, mishaps>>

(* An active server's log reaches a standby, whose applier works it off.   *)
Ship(n) ==
  /\ server[n] = "standby" /\ pages[n] < MaxPages
  /\ \E m \in DBNodes : server[m] = "active"
  /\ pages' = [pages EXCEPT ![n] = @ + 1]
  /\ UNCHANGED <<server, hb, stopping, fail, doors, cli, events, mishaps>>

Apply(n) ==
  /\ server[n] \in {"standby", "to_be_active"} /\ pages[n] > 0
  /\ pages' = [pages EXCEPT ![n] = @ - 1]
  /\ \E lost \in {fail[n], TRUE} : fail' = [fail EXCEPT ![n] = lost]
  /\ UNCHANGED <<server, hb, stopping, doors, cli, events, mishaps>>

-----------------------------------------------------------------------------
Decide(c) == DecideNothing(c) \/ DecideStalled(c) \/ DecideMove(c) \/ Confirm(c)
takeMasterAway(c) == TakeAway(c) \/ WatchMoved(c) \/ WatchStalled(c) \/ WatchIdle(c)
CompletePromotion(c) == Unanswered(c) \/ Blocked(c) \/ Unblocked(c) \/ Changemode(c)
Doors(c) == Quiesce(c) \/ Quiesced(c) \/ Resume(c) \/ Resumed(c) \/ OpenDoor(c)
Rejoin(c) == ServiceStop(c) \/ HeartbeatStart(c) \/ BrokerStart(c)
Check(c) == Verify(c) \/ Insert(c) \/ Select(c)
Step(c) == ReadNode(c) \/ Decide(c) \/ takeMasterAway(c) \/ CompletePromotion(c)
           \/ Doors(c) \/ Rejoin(c) \/ Check(c)
Trouble(c) == Late(c) \/ Expire(c) \/ Interrupted(c)
Engine(n) == Deactivate(n) \/ Register(n) \/ Elect(n) \/ Promote(n) \/ Ship(n) \/ Apply(n)

Next == \/ \E c \in Clients : Begin(c) \/ Step(c) \/ IssueStop(c) \/ Trouble(c)
        \/ \E n \in DBNodes : Kill(n) \/ Start(n) \/ Engine(n)

Spec == Init /\ [][Next]_vars

(* Scheduling: a csb process that is not killed runs on, its goroutine     *)
(* too; a heartbeat stops that was told to, registers a server, elects;    *)
(* what was shipped is applied.  It is not assumed to finish a promotion,  *)
(* nor is time assumed to pass; a row of db_ha_apply_info that keeps being *)
(* asked for is read some time.                                            *)
Fairness ==
  /\ \A c \in Clients : WF_vars(Step(c)) /\ WF_vars(IssueStop(c)) /\ SF_vars(Unblocked(c))
  /\ \A n \in DBNodes : WF_vars(Deactivate(n)) /\ WF_vars(Register(n)) /\ WF_vars(Apply(n))
  /\ WF_vars(\E n \in DBNodes : Elect(n))
LiveSpec == Spec /\ Fairness

-----------------------------------------------------------------------------
(* Properties.                                                             *)

(* A promotion that promote or failback completes itself was safe when     *)
(* changemode ran, not only when it was asked: nothing left to drain, rows *)
(* lost only where --force accepts them, and nobody else a master.         *)
ForcedOnlySafe ==
  [][\A c \in Clients :
       LET n == cli[c].target
       IN  At(c, "changemode") /\ server[n] = "to_be_active" /\ cli' # cli /\ server'[n] = "active"
           /\ mishaps = {} =>
             /\ pages[n] = 0 /\ (fail[n] => cli[c].forced)
             /\ \A m \in DBNodes \ {n} : server[m] # "active"]_vars

(* What the commands report of the roles holds when they report it, though *)
(* it was pieced together from nodes read one after another: "promoted"    *)
(* that the target is the master, "verified" that a standby stands behind  *)
(* it.  Nodes that come back from elsewhere do not change that.            *)
ReportsAreTrue ==
  [][\A c \in Clients : mishaps \subseteq {"returned", "refused"} /\ cli'[c].at = "idle" =>
       /\ ~At(c, "idle") /\ cli'[c].outcome \in {"promoted", "verified"}
            => server'[cli[c].target] = "active"
       /\ ~At(c, "idle") /\ cli'[c].outcome = "verified" => server'[cli[c].current] = "standby"]_vars

(* A shut door is on record or a running failback's business, so that      *)
(* `cluster resume` finds it, unless a command was cut off or run into by  *)
(* another, or a quiesce was refused half way.                             *)
DoorsOwned ==
  mishaps \cap {"cut", "overlapped", "refused"} = {} =>
    \A n \in DBNodes : door[n] =>
      \/ recorded
      \/ \E c \in Clients : At(c, "quiesce") /\ n < Slot(c)

(* "Resume puts the door back" (fault.go), and failback calls it: one that *)
(* reports what came of the move leaves no door shut that nobody knows of. *)
DoorsReopened ==
  [][\A c \in Clients :
       ~At(c, "idle") /\ cli[c].quiesce /\ cli'[c].outcome \in {"verified", "unverified"} =>
         \A n \in DBNodes : door'[n] => recorded']_vars

(* A move away from a master to a standby comes to an end that shows the   *)
(* target active, even when the engine never finishes a promotion by       *)
(* itself, and a failback brings the old master back: unless time runs     *)
(* out, rows were lost that nobody accepted, or something else happens to  *)
(* the nodes or the command.                                               *)
MoveFinishes ==
  \A c \in Clients :
    (At(c, "stop") /\ server[cli[c].current] = "active" /\ server[cli[c].target] = "standby" /\ mishaps = {})
      ~> \/ At(c, "idle") /\ cli[c].outcome \in {"promoted", "verified", "unverified"}
         \/ cli[c].clock # "fresh" \/ mishaps # {}
         \/ fail[cli[c].target] /\ ~cli[c].forced

(* Every wait is bounded: when the time of one has run out the command     *)
(* returns, or its role has moved and it waits for something else.         *)
WaitsEnd == \A c \in Clients : (cli[c].clock # "fresh") ~> (cli[c].clock = "fresh")

=============================================================================
