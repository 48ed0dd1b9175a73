------------------------------- MODULE Faults -------------------------------
(***************************************************************************)
(* Injected conditions and the ledger of what is in force: `csb fault      *)
(* partition|lag|contend|ping-unavailable|splitbrain|clear` and `csb       *)
(* cluster quiesce|resume` (internal/fault/fault.go and the commands of    *)
(* internal/cli/inspect.go that call it).                                  *)
(*                                                                         *)
(* A condition is in force when its commands have run inside the nodes; it *)
(* is recorded when faults.json lists it.  Every verb reads faults.json,   *)
(* works on the nodes one exec at a time, and writes the list it read back *)
(* with its own change: no lock is held in between, any exec can fail, and *)
(* the process can be killed anywhere.                                     *)
(*                                                                         *)
(* External, modelled from how the code uses it: what ip, iptables, tc,    *)
(* kill, chmod and broker_changer do inside a node.                        *)
(***************************************************************************)
EXTENDS Naturals, Sequences, FiniteSets

CONSTANTS
  NNodes,        \* nodes of the cluster, in the order of T.Nodes
  Brokers,       \* the nodes that run a broker: the database nodes
  Appliers,      \* the nodes that run copylogdb and applylogdb
  Verbs,         \* the kinds of condition the commands of a run enter
  Clients,       \* csb processes
  MaxConditions, \* bound: conditions recorded, and effects of one kind in force
  MaxPids        \* bound: pids of one node

Nodes == 1..NNodes
Pids  == 1..MaxPids

ASSUME NodesAssumption == NNodes \in Nat \ {0} /\ Brokers \subseteq Nodes /\ Appliers \subseteq Nodes
ASSUME BoundsAssumption == MaxConditions \in Nat /\ MaxPids \in Nat \ {0}

Kinds == {"blackhole", "drop", "delay", "suspend", "contention", "binary", "icmp", "quiesce"}

(* What one exec leaves inside node e[2]: a route or a rule against peer   *)
(* e[3]; the process e[3] stopped, or the process group e[3] running; and, *)
(* without a third part, a qdisc, a ping that cannot run, an ICMP rule, a  *)
(* broker that refuses writes.                                             *)
Effects == ({"blackhole", "drop"} \X Nodes \X Nodes)
           \cup ({"suspend", "contention"} \X Nodes \X Pids)
           \cup ({"delay", "binary", "icmp", "quiesce"} \X Nodes \X {0})

(* The second one of these is refused, of those is one more to take away;  *)
(* of the rest it changes nothing.                                         *)
Exclusive == {"blackhole", "delay"}
Stacking  == {"drop", "icmp"}

VARIABLES
  force,   \* force[e]: how many times effect e is in force
  pid,     \* pid[n]: the pid of the stage a lag suspends on n
  file,    \* faults.json: its conditions, and whether a write was cut off in it
  cli,     \* cli[c]: what client c keeps, see ClientState
  mishaps  \* history: how record and world have come apart

vars == <<force, pid, file, cli, mishaps>>

Condition == [kind : Kinds, target : SUBSET Nodes, effects : Seq(Effects),
              broken : BOOLEAN]  \* the mode it recorded for ping is the broken one
ExecStep == [sets : BOOLEAN, effect : Effects]
Mishaps == {"refused", "failed", "killed", "halved", "raced", "dropped", "overwritten"}

ClientState ==
  [at      : {"idle", "mode", "apply", "undo", "save", "write"},
   list    : Seq(Condition), \* what it will write: its Set.List, or a clear's kept
   plan    : Seq(Condition), \* conditions to enter, the first being entered, or to look at
   lifts   : SUBSET Condition, \* a clear's or resume's: those it reverses
   todo    : Seq(ExecStep),  \* the execs left of this condition
   stale   : BOOLEAN,        \* history: faults.json was written since it was read
   outcome : {"none", "entered", "cleared", "resumed", "error"}] \* what it reports, or will when it ends well

TypeOK ==
  /\ force \in [Effects -> Nat]
  /\ pid \in [Nodes -> Pids]
  /\ file \in [list : Seq(Condition), torn : BOOLEAN]
  /\ cli \in [Clients -> ClientState]
  /\ mishaps \subseteq Mishaps

(* A command returns: its locals are gone, what it reports remains.        *)
Returned(result) ==
  [at |-> "idle", list |-> <<>>, plan |-> <<>>, lifts |-> {}, todo |-> <<>>, stale |-> FALSE,
   outcome |-> result]

Init ==
  /\ force = [e \in Effects |-> 0]
  /\ pid = [n \in Nodes |-> 1]
  /\ file = [list |-> <<>>, torn |-> FALSE]
  /\ cli = [c \in Clients |-> Returned("none")]
  /\ mishaps = {}

-----------------------------------------------------------------------------
At(c, phase) == cli[c].at = phase
Becomes(c, me) == cli' = [cli EXCEPT ![c] = me]
Return(c, result) == Becomes(c, Returned(result))

Entering(effects) == [i \in DOMAIN effects |-> [sets |-> TRUE, effect |-> effects[i]]]

(* clearLag, clearContention, restorePing and the loop over Cut: put back  *)
(* what was recorded.  Of a quiesce Clear reverses nothing.                *)
Reversal(a, verb) ==
  IF a.kind = "quiesce" /\ verb = "cleared" THEN <<>>
  ELSE [i \in DOMAIN a.effects |-> [sets |-> a.broken, effect |-> a.effects[i]]]

(* One exec, when it does what it is for.  A pid that is no longer the     *)
(* stage's is nobody's.  Mutant: taking away one rule takes them all.      *)
Gone(e) == e[1] = "suspend" /\ pid[e[2]] # e[3]
Done_Flush(s) ==
  LET e == s.effect IN
  IF Gone(e) THEN force
  ELSE [force EXCEPT ![e] = IF ~s.sets THEN 0 ELSE IF e[1] \in Stacking THEN @ + 1 ELSE 1]
Done(s) ==
  LET e == s.effect IN
  IF Gone(e) THEN force
  ELSE IF s.sets THEN [force EXCEPT ![e] = IF e[1] \in Stacking THEN @ + 1 ELSE 1]
  ELSE [force EXCEPT ![e] = IF @ > 0 THEN @ - 1 ELSE 0]

(* The commands that exit non-zero: a route or a qdisc that is there       *)
(* already, and broker_changer where no broker runs.                       *)
Refused(e) == \/ e[1] \in Exclusive /\ force[e] > 0
              \/ e[1] = "quiesce" /\ e[2] \notin Brokers

-----------------------------------------------------------------------------
(* The beginning of a command: faults.json is read, once.                  *)

Phase(a) == IF a.kind = "binary" THEN "mode" ELSE "apply"

(* What a client keeps when it turns to the first condition of its plan.   *)
Turned(me) ==
  IF me.plan = <<>> THEN Returned(me.outcome)
  ELSE [me EXCEPT !.at = Phase(Head(me.plan)), !.todo = Entering(Head(me.plan).effects)]

Room == Len(file.list) < MaxConditions /\ \A e \in Effects : force[e] <= MaxConditions

Enter(c, plan) ==
  /\ At(c, "idle") /\ ~file.torn /\ Room
  /\ Becomes(c, Turned([Returned("entered") EXCEPT !.list = file.list, !.plan = plan]))
  /\ UNCHANGED <<force, pid, file, mishaps>>

CannotOpen(c) ==
  /\ At(c, "idle") /\ file.torn
  /\ Return(c, "error")
  /\ UNCHANGED <<force, pid, file, mishaps>>

Single(kind, n, arg) ==
  [kind |-> kind, target |-> {n}, effects |-> <<<<kind, n, arg>>>>, broken |-> FALSE]

(* The nodes a selector resolves to, in the order of the topology.         *)
Picks == {s \in UNION {[1..k -> Nodes] : k \in 1..NNodes} :
            \A i, j \in DOMAIN s : i < j => s[i] < s[j]}

(* Two cuts per peer, one on each side.  Mutant: the near side only.       *)
Cuts_OneSided(kind, target, peers) == [i \in DOMAIN peers |-> <<kind, target, peers[i]>>]
Cuts(kind, target, peers) ==
  [i \in 1..2 * Len(peers) |-> LET peer == peers[(i + 1) \div 2]
                               IN  IF i % 2 = 1 THEN <<kind, target, peer>> ELSE <<kind, peer, target>>]

Partition(c, kind, target, peers) ==
  /\ kind \in Verbs \cap {"blackhole", "drop"} /\ \A i \in DOMAIN peers : peers[i] # target
  /\ Enter(c, <<[kind |-> kind, target |-> {target}, broken |-> FALSE,
                 effects |-> Cuts(kind, target, peers)]>>)

(* stagePid: only a standby copies and applies.  Mutant: where no stage    *)
(* runs there is no pid, and what is suspended and recorded is nobody.     *)
Lag_NoStage(c, kind, n) ==
  /\ kind \in Verbs \cap {"suspend", "delay"}
  /\ Enter(c, <<Single(kind, n, IF kind = "suspend" /\ n \in Appliers THEN pid[n] ELSE 0)>>)
Lag(c, kind, n) ==
  /\ kind \in Verbs \cap {"suspend", "delay"} /\ (kind = "suspend" => n \in Appliers)
  /\ Enter(c, <<Single(kind, n, IF kind = "suspend" THEN pid[n] ELSE 0)>>)

(* The shell answers with the pid of the process group it started.         *)
Contend(c, n, p) ==
  /\ "contention" \in Verbs /\ force[<<"contention", n, p>>] = 0
  /\ \A d \in Clients : \A i \in DOMAIN cli[d].todo : cli[d].todo[i].effect # <<"contention", n, p>>
  /\ Enter(c, <<Single("contention", n, p)>>)

(* A selector may resolve to several nodes; each is a condition, recorded  *)
(* before the next is entered, on the list read for the first.             *)
PingUnavailable(c, kind, names) ==
  /\ kind \in Verbs \cap {"binary", "icmp"}
  /\ Enter(c, [i \in DOMAIN names |-> Single(kind, names[i], 0)])

Quiesce(c) ==
  /\ "quiesce" \in Verbs
  /\ Enter(c, <<[kind |-> "quiesce", target |-> Nodes, broken |-> FALSE,
                 effects |-> [n \in Nodes |-> <<"quiesce", n, 0>>]]>>)

(* Clear, of everything or of what was entered on one node, and Resume.    *)
Lift(c, verb, lifts) ==
  /\ At(c, "idle") /\ ~file.torn
  /\ Becomes(c, [Returned(verb) EXCEPT !.at = "undo", !.plan = file.list, !.lifts = lifts])
  /\ UNCHANGED <<force, pid, file, mishaps>>

OnRecord == {file.list[i] : i \in DOMAIN file.list}
Clear(c, who) == Lift(c, "cleared", {a \in OnRecord : who = {} \/ a.target = who})
Resume(c) == Lift(c, "resumed", {a \in OnRecord : a.kind = "quiesce"})

-----------------------------------------------------------------------------
(* The middle: one exec after another.                                     *)

(* stat -c %a, before chmod 000.  Of a ping that is broken already it is   *)
(* the broken mode that goes on record.                                    *)
ReadMode(c) ==
  /\ At(c, "mode")
  /\ LET a == Head(cli[c].plan)
         broken == force[a.effects[1]] > 0
     IN  /\ Becomes(c, [cli[c] EXCEPT !.at = "apply", !.plan = <<[a EXCEPT !.broken = broken]>> \o Tail(@)])
         /\ mishaps' = IF broken THEN mishaps \cup {"overwritten"} ELSE mishaps
  /\ UNCHANGED <<force, pid, file>>

ModeFails(c) ==
  /\ At(c, "mode")
  /\ Return(c, "error")
  /\ UNCHANGED <<force, pid, file, mishaps>>

(* Has c changed something for the condition it is entering?               *)
Begun(c) == At(c, "apply") /\ Len(cli[c].todo) < Len(Head(cli[c].plan).effects)

Apply(c) ==
  /\ At(c, "apply") /\ cli[c].todo # <<>> /\ ~Refused(Head(cli[c].todo).effect)
  /\ force' = Done(Head(cli[c].todo))
  /\ Becomes(c, [cli[c] EXCEPT !.todo = Tail(@)])
  /\ UNCHANGED <<pid, file, mishaps>>

(* Any error returns at once: what was done so far is not recorded.        *)
ApplyRefused(c) ==
  /\ At(c, "apply") /\ cli[c].todo # <<>> /\ Refused(Head(cli[c].todo).effect)
  /\ Return(c, "error")
  /\ mishaps' = IF Begun(c) THEN mishaps \cup {"refused"} ELSE mishaps
  /\ UNCHANGED <<force, pid, file>>

(* The exec is cut off by --timeout, or its node is not running.  It may   *)
(* have done its work all the same.                                        *)
ApplyFails(c) ==
  /\ At(c, "apply") /\ cli[c].todo # <<>>
  /\ Return(c, "error")
  /\ \E f \in {force, Done(Head(cli[c].todo))} :
       /\ force' = f
       /\ mishaps' = IF Begun(c) \/ f # force THEN mishaps \cup {"failed"} ELSE mishaps
  /\ UNCHANGED <<pid, file>>

(* The exit status of kill -STOP is not looked at.                         *)
SuspendUnheeded(c) ==
  /\ At(c, "apply") /\ cli[c].todo # <<>> /\ Head(cli[c].todo).effect[1] = "suspend"
  /\ Becomes(c, [cli[c] EXCEPT !.todo = Tail(@)])
  /\ mishaps' = mishaps \cup {"halved"}
  /\ UNCHANGED <<force, pid, file>>

(* The condition is in force: s.add, and s.save behind it.                 *)
Add(c) ==
  /\ At(c, "apply") /\ cli[c].todo = <<>>
  /\ Becomes(c, [cli[c] EXCEPT !.at = "save", !.list = Append(@, Head(cli[c].plan)), !.plan = Tail(@)])
  /\ UNCHANGED <<force, pid, file, mishaps>>

(* The loop of Clear and of Resume over the list.                          *)
Keep(c) ==
  /\ At(c, "undo") /\ cli[c].todo = <<>> /\ cli[c].plan # <<>> /\ Head(cli[c].plan) \notin cli[c].lifts
  /\ Becomes(c, [cli[c] EXCEPT !.list = Append(@, Head(cli[c].plan)), !.plan = Tail(@)])
  /\ UNCHANGED <<force, pid, file, mishaps>>

(* Mutant: the record goes, what it says is not put back.                  *)
Reverse_Drops(c) ==
  /\ At(c, "undo") /\ cli[c].todo = <<>> /\ cli[c].plan # <<>> /\ Head(cli[c].plan) \in cli[c].lifts
  /\ Becomes(c, [cli[c] EXCEPT !.plan = Tail(@)])
  /\ UNCHANGED <<force, pid, file, mishaps>>
Reverse(c) ==
  /\ At(c, "undo") /\ cli[c].todo = <<>> /\ cli[c].plan # <<>> /\ Head(cli[c].plan) \in cli[c].lifts
  /\ LET todo == Reversal(Head(cli[c].plan), cli[c].outcome)
     IN  /\ Becomes(c, [cli[c] EXCEPT !.todo = todo, !.plan = Tail(@)])
         /\ mishaps' = IF todo = <<>> THEN mishaps \cup {"dropped"} ELSE mishaps
  /\ UNCHANGED <<force, pid, file>>

Undo(c) ==
  /\ At(c, "undo") /\ cli[c].todo # <<>>
  /\ force' = Done(Head(cli[c].todo))
  /\ Becomes(c, [cli[c] EXCEPT !.todo = Tail(@)])
  /\ UNCHANGED <<pid, file, mishaps>>

(* Errors on the way back are not looked at; the record goes.              *)
UndoFails(c) ==
  /\ At(c, "undo") /\ cli[c].todo # <<>>
  /\ Becomes(c, [cli[c] EXCEPT !.todo = Tail(@)])
  /\ mishaps' = mishaps \cup {"failed"}
  /\ UNCHANGED <<force, pid, file>>

UndoDone(c) ==
  /\ At(c, "undo") /\ cli[c].todo = <<>> /\ cli[c].plan = <<>>
  /\ Becomes(c, [cli[c] EXCEPT !.at = "save", !.lifts = {}])
  /\ UNCHANGED <<force, pid, file, mishaps>>

-----------------------------------------------------------------------------
(* The end: os.WriteFile truncates faults.json, then writes it.            *)

Raced(c) == mishaps' = IF cli[c].stale THEN mishaps \cup {"raced"} ELSE mishaps

SaveTruncates(c) ==
  /\ At(c, "save")
  /\ file' = [file EXCEPT !.torn = TRUE]
  /\ Becomes(c, [cli[c] EXCEPT !.at = "write"])
  /\ Raced(c)
  /\ UNCHANGED <<force, pid>>

SaveWrites(c) ==
  /\ At(c, "write")
  /\ file' = [list |-> cli[c].list, torn |-> FALSE]
  /\ cli' = [d \in Clients |-> IF d = c THEN Turned(cli[c])
                              ELSE [cli[d] EXCEPT !.stale = ~At(d, "idle")]]
  /\ Raced(c)
  /\ UNCHANGED <<force, pid>>

(* A killed clear leaves on record what it has reversed; a killed verb, or *)
(* one killed while it writes, leaves in force what is not on record.      *)
Killed(c) ==
  /\ ~At(c, "idle")
  /\ Return(c, "none")
  /\ mishaps' =
       IF At(c, "write") \/ (cli[c].outcome = "entered" /\ (Begun(c) \/ At(c, "save")))
       THEN mishaps \cup {"killed"}
       ELSE IF cli[c].outcome # "entered" THEN mishaps \cup {"halved"} ELSE mishaps
  /\ UNCHANGED <<force, pid, file>>

(* `node stop|kill` and `node start` between them: a new copylogdb and a   *)
(* new broker, which has the ACCESS_MODE of its configuration.             *)
Restart(n) ==
  /\ pid[n] < MaxPids
  /\ pid' = [pid EXCEPT ![n] = @ + 1]
  /\ force' = [e \in Effects |-> IF e[1] \in {"suspend", "quiesce"} /\ e[2] = n THEN 0 ELSE force[e]]
  /\ UNCHANGED <<file, cli, mishaps>>

-----------------------------------------------------------------------------
Command(c) ==
  \/ CannotOpen(c) \/ Quiesce(c) \/ Resume(c)
  \/ \E who \in {{}} \cup {{n} : n \in Nodes} : Clear(c, who)
  \/ \E n \in Nodes, kind \in Kinds : Lag(c, kind, n)
  \/ \E n \in Nodes, peers \in Picks, kind \in Kinds : Partition(c, kind, n, peers)
  \/ \E n \in Nodes, p \in Pids : Contend(c, n, p)
  \/ \E names \in Picks, kind \in Kinds : PingUnavailable(c, kind, names)
Step(c) == ReadMode(c) \/ Apply(c) \/ ApplyRefused(c) \/ Add(c) \/ Keep(c) \/ Reverse(c) \/ Undo(c) \/ UndoDone(c)
           \/ SaveTruncates(c) \/ SaveWrites(c)
Trouble(c) == ModeFails(c) \/ ApplyFails(c) \/ SuspendUnheeded(c) \/ UndoFails(c) \/ Killed(c)

Next == (\E c \in Clients : Command(c) \/ Step(c) \/ Trouble(c)) \/ \E n \in Nodes : Restart(n)

Spec == Init /\ [][Next]_vars

-----------------------------------------------------------------------------
(* Properties.                                                             *)

Quiet == \A c \in Clients : At(c, "idle")
Names(a, e) == \E i \in DOMAIN a.effects : a.effects[i] = e
Lists(conditions, e) == {i \in DOMAIN conditions : Names(conditions[i], e)}

(* Nothing is in force that nobody would reverse: it is on record, or a    *)
(* process that is still running has it on its list or is entering it.     *)
(* The exceptions are the ways the record can be lost, and a clear that    *)
(* dies half way is not one of them.                                       *)
Owned ==
  mishaps \subseteq {"halved"} => \A e \in Effects : force[e] > 0 =>
    \/ ~file.torn /\ Lists(file.list, e) # {}
    \/ \E c \in Clients : Lists(cli[c].list, e) # {} \/ Lists(cli[c].plan, e) # {}

(* Clearing one condition, or entering another, lifts none that stays on   *)
(* record: a rule that two of them put there twice is there twice.  A      *)
(* restart of a node lifts what dies with its processes.                   *)
Held ==
  mishaps = {} /\ Quiet => \A e \in Effects :
    e[1] \notin {"suspend", "quiesce"} => force[e] >= Cardinality(Lists(file.list, e))

(* A partition cuts on each side, and is put back on each side: between    *)
(* commands no node is left with a one-way cut (04-faults.md 3).           *)
BothWays ==
  mishaps = {} /\ Quiet => \A kind \in {"blackhole", "drop"}, m, n \in Nodes :
    force[<<kind, m, n>>] = force[<<kind, n, m>>]

(* "Clear reverses every condition in force" (fault.go, 04-faults.md 6):   *)
(* after a clear that met no failed exec and no other process, and leaves  *)
(* nothing on record, nothing is in force.                                 *)
ClearReverses ==
  (\E c \in Clients : cli[c].outcome = "cleared")
    /\ Quiet /\ mishaps \subseteq {"dropped", "overwritten"} /\ file.list = <<>>
  => \A e \in Effects : force[e] = 0

=============================================================================
