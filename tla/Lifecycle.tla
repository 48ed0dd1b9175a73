----------------------------- MODULE Lifecycle ------------------------------
(***************************************************************************)
(* The life of a named cluster on one machine: create and create --from,   *)
(* up, destroy by name and by label, and the two readers of its record     *)
(* (internal/cli/cluster.go and registry.go, over internal/store and       *)
(* internal/backend).  A command is taken step by step, each step one      *)
(* change of the disk or of a container backend, and may be killed         *)
(* between any two.                                                        *)
(***************************************************************************)
EXTENDS Record, Topology

CONSTANTS MaxNodes,    \* bound: database nodes, and clients, of a cluster
          Backends,    \* the container backends on this machine
          Options,     \* what a create can be asked for
          Rebuilds,    \* what a create --from can be asked for
          Attached,    \* describe artifacts that came from somewhere else
          Selectors,   \* what a destroy --label can be asked for
          MaxCommands, MaxMishaps, MaxHalts   \* bounds

\* The command line gives a create each of these, lists as lists.
OptionFields ==
  {"name", "preset", "nodes", "db", "network", "ping", "backend", "host", "withBroker", "tools",
   "clients", "clientImage", "clientCPUSet", "set", "hidden", "brokerSet", "labels", "conf", "session"}
IsList(s) == s \in Seq(Range(s))
Askable(o) ==
  /\ OptionFields \subseteq DOMAIN o
  /\ o.nodes \in Int /\ o.clients \in Int
  /\ IsList(o.set) /\ IsList(o.conf)
  /\ \A i \in DOMAIN o.set : {"key", "value"} \subseteq DOMAIN o.set[i]

\* An artifact as some csb wrote it, for a cluster of name n: its nodes are
\* named after it, and neither a lone server nor one with ha_mode=off has an
\* HA parameter.  The sync mode may be as it was asked.
ArtifactFields ==
  {"cluster", "preset", "db", "networkKind", "ping", "backend", "haMode", "withBroker", "tools",
   "clientImage", "clientCPUSet", "nodes", "common", "ha", "unverified", "hidden", "broker", "labels"}
Written(n, t) ==
  /\ ArtifactFields \subseteq DOMAIN t
  /\ t.cluster = n
  /\ IsList(t.nodes)
  /\ \A i \in DOMAIN t.nodes : {"name", "host"} \subseteq DOMAIN t.nodes[i] /\ t.nodes[i].name.of = n
  /\ t.preset = "single" \/ HAOff(t) => DOMAIN t.ha = {}
  /\ Shouted \notin DOMAIN t.common

\* What --cluster or CSB_CLUSTER says, whatever the command is about.
Session(x) == x.session \in Names \cup {Unset}

\* A cluster's nodes are among the Nodes, if it has no more than MaxNodes.
Placed(n, t) ==
  /\ n \in Names /\ t.backend \in Backends \cup {Unset}
  /\ \A i \in DOMAIN t.nodes : t.nodes[i].name \in Nodes
  /\ Count(DBNodes(t)) <= MaxNodes /\ Count(Clients(t)) <= MaxNodes

ASSUME LifecycleAssumption ==
  /\ \A o \in Options :
       /\ Askable(o) /\ Session(o) /\ o.name \in Names /\ o.backend \in Backends \cup {Unset}
       /\ NodeCount(o) <= MaxNodes /\ o.clients <= MaxNodes
  /\ \A a \in Attached : Written(a.cluster, a) /\ Placed(a.cluster, a)
  /\ \A s \in Selectors : Session(s)
  /\ \A f \in Rebuilds : Session(f) /\ f.name \in Names \cup {Unset} /\ f.backend \in Backends \cup {Unset}
  /\ \A n \in Names, k \in {"db", "client"}, i \in 1..MaxNodes : NodeOf(n, k, i) \in Nodes
  /\ Unset \notin Backends
  /\ MaxNodes \in Nat /\ MaxNodes >= 2
  /\ MaxCommands \in Nat /\ MaxMishaps \in Nat /\ MaxHalts \in Nat

VARIABLES dir,         \* the names that have a directory under clusters/
          describe,    \* describe.json
          opened,      \* describe-at-open.json
          work,        \* the nodes that have a directory under work/
          containers,  \* what the backends hold: node and backend
          running,     \* the containers that run
          networks,    \* cluster and backend
          cmd,         \* the command each process is in
          begun, mishaps, halts,
          stood,       \* bookkeeping: the topologies that got a container, in order
          misopened,   \* bookkeeping: clusters whose record may open with another's topology
          claimed,     \* bookkeeping: the labels a create was given
          strayed      \* bookkeeping: clusters that were left out of reach

diskVars == <<dir, describe, opened, work>>
worldVars == <<containers, running, networks>>
bookVars == <<stood, misopened, claimed, strayed>>
vars == <<recordVars, diskVars, worldVars, cmd, begun, mishaps, halts, bookVars>>

NoCmd == [at |-> "idle"]
Refused == [at |-> "answered", out |-> "refused"]

Init ==
  /\ RecordInit
  /\ dir = {} /\ containers = {} /\ running = {} /\ networks = {} /\ strayed = {} /\ misopened = {}
  /\ describe = [n \in Names |-> Nil] /\ opened = describe
  /\ work = [n \in Names |-> {}] /\ stood = [n \in Names |-> <<>>]
  /\ claimed = [n \in Names |-> <<>>]
  /\ cmd = [p \in Processes |-> NoCmd]
  /\ begun = 0 /\ mishaps = 0 /\ halts = 0

-----------------------------------------------------------------------------
(* The backend a command drives: recorded beats asked beats detected, and   *)
(* what is detected is the environment's.                                  *)
backendFor(recorded, asked, detected) ==
  IF recorded # Unset THEN recorded ELSE IF asked # Unset THEN asked ELSE detected
Recorded(n) == IF describe[n].is THEN describe[n].v.backend ELSE Unset
Boxes(n, b) == {c \in containers : c.node.of = n /\ c.on = b}
Stands(n, b) == Boxes(n, b) # {} \/ [of |-> n, on |-> b] \in networks

Is(p, verb, at) == cmd[p].at = at /\ cmd[p].verb = verb
Go(p, at) == cmd' = [cmd EXCEPT ![p].at = at]
Answer(p, out) == cmd' = [cmd EXCEPT ![p] = [at |-> "answered", out |-> out]]
Steady == UNCHANGED <<begun, mishaps, halts>>
\* One step of several fails, or the process is killed: MaxMishaps in a behaviour.
Mishap == mishaps < MaxMishaps /\ mishaps' = mishaps + 1 /\ UNCHANGED <<begun, halts>>
SameWorld == UNCHANGED worldVars
SameDisk == UNCHANGED diskVars
SameBooks == UNCHANGED bookVars

\* dispatch: a command that changes state is in the record of the cluster that
\* --cluster or CSB_CLUSTER names before it runs, and the record's directory is
\* made for it.  That is the record the command has from then on; if neither
\* names one, a create takes that of the cluster it makes.
Enter(p, verb, c) ==
  /\ cmd[p].at \in {"idle", "answered"} /\ begun < MaxCommands
  /\ begun' = begun + 1 /\ UNCHANGED <<mishaps, halts>>
  /\ cmd' = [cmd EXCEPT ![p] = Over(c, [verb |-> verb])]
Unrecorded == UNCHANGED <<recordVars, dir>>
Mutates(n) ==
  /\ record' = [record EXCEPT ![n] = Append(@, ToolEntry)]
  /\ dir' = dir \cup {n}
  /\ UNCHANGED <<now, said, offsets, log, reader, spoilt>>
Dispatched(session) == IF session = Unset THEN Unrecorded ELSE Mutates(session)
RecordOf(session, n) == IF session = Unset THEN n ELSE session
SameArtifacts == UNCHANGED <<describe, opened, work>>

-----------------------------------------------------------------------------
(* create, from options and from an artifact.                              *)

\* The cluster is named by --name, which the record does not see, or else by
\* --cluster.  What create writes down is the backend it decided on, not the
\* flag.
Decided(o, d) == [o EXCEPT !.backend = backendFor(Unset, @, d)]
Refusal(o) == Refuses(WithConf(o, o.conf)) \/ CTPSets(ParseCTPConf(o.conf)).refused # {}
Create(p) == \E o \in Options, d \in Backends :
  LET full == Decided(WithConf(o, o.conf), d)
      n == o.name
      t == Resolve(full)
  IN /\ Enter(p, "create", IF Refusal(o) THEN Refused
                           ELSE [at |-> "image", n |-> n, t |-> t, on |-> full.backend,
                                 rec |-> RecordOf(o.session, n), labels |-> o.labels, renamed |-> FALSE, old |-> FALSE])
     /\ Dispatched(o.session) /\ SameArtifacts /\ SameWorld /\ SameBooks

\* --from takes the artifact's backend, if it has one, before the flag.
Artifacts == Attached \cup {describe[n].v : n \in {n \in Names : describe[n].is}}
CreateFrom(p) == \E f \in Rebuilds, a \in Artifacts, d \in Backends :
  LET t == FromArtifact(a, f.name, f.labels, f.host)
      n == IF f.name = Unset THEN a.cluster ELSE f.name
  IN /\ Enter(p, "create", IF ~Rebuildable(a, f.name) THEN Refused
                           ELSE [at |-> "image", n |-> n, t |-> t,
                                 on |-> backendFor(t.backend, f.backend, d),
                                 rec |-> RecordOf(f.session, n),
                                 labels |-> f.labels, renamed |-> Renames(a, f.name),
                                 old |-> a.backend = Unset])
     /\ Dispatched(f.session) /\ SameArtifacts /\ SameWorld /\ SameBooks

\* standUp.  The backend answers, the images are there, the engine's libc is
\* not newer than the image's: or nothing has been made.
Image(p) ==
  /\ Is(p, "create", "image")
  /\ \/ Go(p, "store") /\ Steady
     \/ Answer(p, "unusable") /\ Mishap
  /\ SameDisk /\ SameWorld /\ SameBooks /\ UNCHANGED recordVars

EnsureCluster(p) ==
  /\ Is(p, "create", "store") /\ Go(p, "network")
  /\ dir' = dir \cup {cmd[p].n}
  /\ Steady /\ SameArtifacts /\ SameWorld /\ SameBooks /\ UNCHANGED recordVars

\* A create builds in a cluster that is being destroyed.
Crossed(n) ==
  IF \E q \in Processes : cmd[q].at \in {"rm", "empty", "purge"} /\ cmd[q].n = n THEN {n} ELSE {}

EnsureNetwork(p) ==
  LET net == [of |-> cmd[p].n, on |-> cmd[p].on]
  IN /\ Is(p, "create", "network")
     /\ \/ Go(p, "describe") /\ networks' = networks \cup {net} /\ Steady
        \/ net \notin networks /\ Answer(p, "failed") /\ Mishap /\ UNCHANGED networks
     /\ strayed' = strayed \cup Crossed(cmd[p].n)
     /\ SameDisk /\ UNCHANGED <<recordVars, containers, running, stood, misopened, claimed>>

\* The artifact is written before any container is made, over what was there.
Left(p, n) == \/ \E b \in Backends \ {cmd[p].on} : Stands(n, b)
              \/ cmd[p].t.backend = Unset /\ (cmd[p].renamed \/ cmd[p].old)
Unlocated(p) == IF Recorded(cmd[p].n) # cmd[p].on THEN {cmd[p].n} ELSE {}
WriteDescribe(p) ==
  LET c == cmd[p]
  IN /\ Is(p, "create", "describe") /\ c.n \in dir /\ Go(p, "snapshot")
     /\ describe' = [describe EXCEPT ![c.n] = Just(c.t)]
     /\ claimed' = [claimed EXCEPT ![c.n] = c.labels]
     /\ strayed' = strayed \cup (IF Left(p, c.n) THEN {c.n} ELSE {}) \cup Crossed(c.n)
     /\ Steady /\ SameWorld /\ UNCHANGED <<recordVars, dir, opened, work, stood, misopened>>
\* Another process has purged the cluster since its directory was made.
NowhereToWrite(p) ==
  /\ Is(p, "create", "describe") /\ cmd[p].n \notin dir /\ Answer(p, "failed")
  /\ strayed' = strayed \cup Unlocated(p)
  /\ Steady /\ SameDisk /\ SameWorld /\ UNCHANGED <<recordVars, stood, misopened, claimed>>

\* The record keeps the first artifact it is given.  Under another's name a
\* create opens that one's record, and its own stays closed.
SnapshotLast(now_, was) == now_                \* as a bug: the last one is kept
Snapshot(now_, was) == IF was.is THEN was ELSE now_
Misfiled(rec, n) == IF rec = n THEN {} ELSE {m \in {rec, n} : ~opened[m].is}
SnapshotDescribe(p) ==
  LET rec == cmd[p].rec
  IN /\ Is(p, "create", "snapshot")
     /\ opened' = [opened EXCEPT ![rec] = Snapshot(Just(cmd[p].t), @)]
     /\ dir' = dir \cup {rec}
     /\ cmd' = [cmd EXCEPT ![p] = Over([at |-> "nodes", left |-> NodeNames(cmd[p].t)], @)]
     /\ misopened' = misopened \cup Misfiled(rec, cmd[p].n)
     /\ Steady /\ SameWorld /\ UNCHANGED <<recordVars, describe, work, stood, claimed, strayed>>

NotYet(n) == IF stood[n] = <<>> THEN {n} ELSE {}
\* Of several creates at once another opened the record than built first.
Opens(q, n) == cmd[q].at = "nodes" /\ cmd[q].n = n /\ opened[n] = Just(cmd[q].t)
Outrun(p) ==
  LET n == cmd[p].n
  IN IF stood[n] = <<>> /\ ~Opens(p, n) /\ (\E q \in Processes : Opens(q, n)) THEN {n} ELSE {}

\* Node after node: its directory, then a container, started if it is there.
CreateNode(p) ==
  LET c == cmd[p]
      box == [node |-> c.left[1], on |-> c.on]
      new == c.t \notin Range(stood[c.n])
  IN /\ Is(p, "create", "nodes") /\ c.left # <<>>
     /\ work' = [work EXCEPT ![c.n] = @ \cup {box.node}] /\ dir' = dir \cup {c.n}
     /\ \/ /\ cmd' = [cmd EXCEPT ![p].left = Tail(@)]
           /\ containers' = containers \cup {box} /\ running' = running \cup {box}
           /\ stood' = IF new THEN [stood EXCEPT ![c.n] = Append(@, c.t)] ELSE stood
           /\ misopened' = misopened \cup Outrun(p)
           /\ Steady
        \/ /\ box \notin running /\ Answer(p, "failed") /\ Mishap
           /\ misopened' = misopened \cup NotYet(c.n)
           /\ UNCHANGED <<containers, running, stood>>
     /\ strayed' = strayed \cup Unlocated(p) \cup Crossed(c.n)
     /\ UNCHANGED <<recordVars, describe, opened, networks, claimed>>

\* The configuration is written and the assembly brings the group to serving
\* (module Assembly), or its deadline passes.
Assemble(p) ==
  /\ Is(p, "create", "nodes") /\ cmd[p].left = <<>>
  /\ \E out \in {"serving", "did_not_reach_serving"} : Answer(p, out)
  /\ misopened' = misopened \cup NotYet(cmd[p].n)
  /\ Steady /\ SameDisk /\ SameWorld /\ UNCHANGED <<recordVars, stood, claimed, strayed>>

-----------------------------------------------------------------------------
(* up: every container of the artifact, started where the artifact says.   *)
Up(p) == \E n \in Names, d \in Backends :
  LET b == backendFor(Recorded(n), Unset, d)
      all == IF describe[n].is THEN NodeNames(describe[n].v) ELSE <<>>
      boxes == [i \in DOMAIN all |-> [node |-> all[i], on |-> b]]
      missing == {i \in DOMAIN boxes : boxes[i] \notin containers}
      started == {boxes[i] : i \in {i \in DOMAIN boxes : \A m \in missing : i < m}}
  IN /\ \E out \in IF ~describe[n].is THEN {"no_describe"}
                   ELSE IF missing # {} THEN {"no_container"}
                   ELSE {"serving", "did_not_reach_serving"} :
          Enter(p, "up", [at |-> "answered", out |-> out])
     /\ Mutates(n)
     /\ running' = running \cup started
     /\ UNCHANGED <<containers, networks>> /\ SameArtifacts /\ SameBooks

-----------------------------------------------------------------------------
(* destroy.                                                                *)

\* One cluster: its containers are the ones the backend lists for its label,
\* running or not, on the backend its artifact records.
ListedUp(n, b) == Boxes(n, b) \cap running     \* as a bug: ps without -a
Listed(n, b) == Boxes(n, b)
ToRemove(n, d) ==
  LET b == backendFor(Recorded(n), Unset, d)
  IN [n |-> n, on |-> b, boxes |-> Listed(n, b), kept |-> FALSE]

Destroy(p) == \E n \in Names, purge \in BOOLEAN, d \in Backends :
  /\ Enter(p, "destroy", Over(ToRemove(n, d),
                 [at |-> "rm", purge |-> purge, then |-> {}, env |-> Unset, sel |-> Nil]))
  /\ Mutates(n) /\ SameArtifacts /\ SameWorld /\ SameBooks

\* By label: every cluster whose artifact has it, each through the same steps;
\* refused under --cluster or CSB_CLUSTER, when the entry has been made.
\* A key the artifact does not have reads as the empty value.
LabelOf(n, k) ==
  IF describe[n].is /\ k \in DOMAIN describe[n].v.labels THEN describe[n].v.labels[k] ELSE ""
Hits(s) == {n \in dir : LabelOf(n, s.key) = s.want}
DestroyByLabel(p) == \E s \in Selectors, purge \in BOOLEAN, d \in Backends :
  LET hits == IF s.session = Unset THEN Hits(s) ELSE {}
      n == CHOOSE n \in hits : TRUE
  IN /\ Enter(p, "destroy", IF hits = {} THEN Refused
                            ELSE Over(ToRemove(n, d),
                              [at |-> "rm", purge |-> purge, then |-> hits \ {n},
                               env |-> IF hits = {n} THEN Unset ELSE d, sel |-> Just(s)]))
     /\ Dispatched(s.session) /\ SameArtifacts /\ SameWorld /\ SameBooks

\* One container after another; one that will not go is passed over.
Rm(p) == LET c == CHOOSE c \in cmd[p].boxes : TRUE IN
  /\ cmd[p].boxes # {}
  /\ \/ containers' = containers \ {c} /\ running' = running \ {c}
        /\ cmd' = [cmd EXCEPT ![p].boxes = @ \ {c}] /\ Steady
     \/ cmd' = [cmd EXCEPT ![p].boxes = @ \ {c}, ![p].kept = TRUE] /\ Mishap
        /\ UNCHANGED <<containers, running>>
  /\ SameDisk /\ SameBooks /\ UNCHANGED <<recordVars, networks>>

\* A network that has a container stays, and one that has none may: whatever
\* the backend answers, the destroy goes on.
RmNetwork(p) ==
  LET c == cmd[p]
      net == [of |-> c.n, on |-> c.on]
  IN /\ cmd[p].boxes = {}
     /\ \/ /\ networks' = IF Boxes(c.n, c.on) = {} THEN networks \ {net} ELSE networks
           /\ Go(p, "empty") /\ Steady
        \/ /\ net \in networks /\ Boxes(c.n, c.on) = {} /\ Mishap /\ UNCHANGED networks
           /\ cmd' = [cmd EXCEPT ![p].at = "empty", ![p].kept = TRUE]
     /\ SameDisk /\ SameBooks /\ UNCHANGED <<recordVars, containers, running>>
Remove(p) == Is(p, "destroy", "rm") /\ (Rm(p) \/ RmNetwork(p))

\* The work directory is emptied, the logs in it with it, as far as it goes.
EmptyDir(p) ==
  /\ Is(p, "destroy", "empty")
  /\ \E gone \in SUBSET work[cmd[p].n] :
       /\ work' = [work EXCEPT ![cmd[p].n] = @ \ gone] /\ Unlink(gone)
       /\ \/ gone = work[cmd[p].n] /\ Go(p, "purge") /\ Steady
          \/ gone # work[cmd[p].n] /\ Mishap
             /\ cmd' = [cmd EXCEPT ![p].at = "purge", ![p].kept = TRUE]
  /\ SameWorld /\ SameBooks /\ UNCHANGED <<dir, describe, opened, now, said, record, offsets, spoilt>>

\* The cluster's directory is kept, unless it is to be purged; then the next.
PurgedInPart(n) ==                             \* as a bug: the record's files only
  /\ dir' = dir \ {n} /\ record' = [record EXCEPT ![n] = <<>>]
  /\ offsets' = [offsets EXCEPT ![n] = Unread]
  /\ UNCHANGED <<now, said, log, reader, work, spoilt, describe, opened, bookVars>>
Purged(n) ==
  /\ dir' = dir \ {n} /\ work' = [work EXCEPT ![n] = {}] /\ Unlink(work[n])
  /\ describe' = [describe EXCEPT ![n] = Nil] /\ opened' = [opened EXCEPT ![n] = Nil]
  /\ record' = [record EXCEPT ![n] = <<>>] /\ offsets' = [offsets EXCEPT ![n] = Unread]
  /\ spoilt' = [spoilt EXCEPT ![n] =
                   IF \E p \in Processes : Harvesting(p) /\ reader[p].n = n THEN @ \cup {"purged"} ELSE {}]
  /\ stood' = [stood EXCEPT ![n] = <<>>] /\ claimed' = [claimed EXCEPT ![n] = <<>>]
  /\ misopened' = IF \E q \in Processes : cmd[q].at = "nodes" /\ cmd[q].n = n THEN misopened \cup {n}
                ELSE misopened \ {n}
  /\ strayed' = strayed \cup (IF \E b \in Backends : Stands(n, b) THEN {n} ELSE {})
  /\ UNCHANGED <<now, said>>
Purge(p) ==
  LET c == cmd[p]
      n == CHOOSE n \in c.then : TRUE
  IN /\ Is(p, "destroy", "purge")
     /\ IF c.then = {} THEN Answer(p, "removed")
        ELSE cmd' = [cmd EXCEPT ![p] = Over([at |-> "rm", then |-> c.then \ {n}], Over(ToRemove(n, c.env), c))]
     /\ IF c.purge THEN Purged(c.n) ELSE SameDisk /\ SameBooks /\ UNCHANGED recordVars
     /\ Steady /\ SameWorld

-----------------------------------------------------------------------------
(* A command whose only trace here is its entry, and the record's readers: *)
(* each harvests before it reads, if the cluster can be loaded.            *)

Act(p) == \E n \in Names :
  /\ Enter(p, "act", [at |-> "answered", out |-> "done"])
  /\ Mutates(n) /\ SameArtifacts /\ SameWorld /\ SameBooks

Show(p) == \E n \in dir :
  /\ Enter(p, "show", IF describe[n].is
                      THEN [at |-> "harvest", n |-> n, nodes |-> NodeNames(describe[n].v)]
                      ELSE [at |-> "read", n |-> n])
  /\ Unrecorded /\ SameArtifacts /\ SameWorld /\ SameBooks

Harvest(p) ==
  /\ Is(p, "show", "harvest") /\ Go(p, "harvesting")
  /\ LoadOffsets(p, cmd[p].n, cmd[p].nodes)
  /\ Steady /\ SameDisk /\ SameWorld /\ SameBooks
HarvestStep(p) ==
  /\ Is(p, "show", "harvesting")
  /\ \/ (OpenFile(p) \/ NoFile(p) \/ ReadLine(p) \/ EndOfFile(p) \/ AllRead(p)) /\ Steady
     \/ reader[p].n \in dir /\ SaveOffsets(p) /\ Steady
     \/ reader[p].n \notin dir /\ LoseOffsets(p) /\ Steady
     \/ AppendFails(p) /\ Mishap
  /\ cmd' = IF reader'[p] = Idle THEN [cmd EXCEPT ![p].at = "read"] ELSE cmd
  /\ dir' = IF record' = record THEN dir ELSE dir \cup {reader[p].n}
  /\ SameArtifacts /\ SameWorld /\ SameBooks

\* The timeline, and with it the artifact as it stood when the record opened.
DescribeAtOpen(n) == IF opened[n].is THEN opened[n] ELSE describe[n]
Export(p) ==
  LET n == cmd[p].n
  IN /\ Is(p, "show", "read")
     /\ cmd' = [cmd EXCEPT ![p] = [at |-> "answered", doc |-> Build(record[n], DescribeAtOpen(n))]]
     /\ Steady /\ SameDisk /\ SameWorld /\ SameBooks /\ UNCHANGED recordVars

-----------------------------------------------------------------------------
(* A process that is killed, a machine whose containers stop, an engine.    *)

Kill(p) ==
  LET c == cmd[p]
  IN /\ c.at \notin {"idle", "answered"} /\ Mishap
     /\ cmd' = [cmd EXCEPT ![p] = NoCmd]
     /\ IF Harvesting(p) THEN DropHarvest(p) ELSE UNCHANGED recordVars
     /\ strayed' = strayed \cup (IF c.at = "describe" THEN Unlocated(p) ELSE {})
     /\ misopened' = misopened \cup (IF c.at = "nodes" THEN NotYet(c.n) ELSE {})
     /\ SameDisk /\ SameWorld /\ UNCHANGED <<stood, claimed>>

Halt ==
  /\ running # {} /\ halts < MaxHalts /\ halts' = halts + 1
  /\ running' = {}
  /\ SameDisk /\ SameBooks /\ UNCHANGED <<recordVars, containers, networks, cmd, begun, mishaps>>

Engine == \E x \in Nodes :
  /\ \E c \in running : c.node = x /\ x.kind = "db" /\ x \in work[x.of]
  /\ Stamp(x) \/ Words(x) \/ Newline(x) \/ Rotate(x)
Time == Tick
Around == (Engine \/ Time) /\ UNCHANGED <<diskVars, worldVars, cmd, begun, mishaps, halts, bookVars>>

Command(p) == Create(p) \/ CreateFrom(p) \/ Up(p) \/ Destroy(p) \/ DestroyByLabel(p) \/ Act(p) \/ Show(p)
Step(p) == Image(p) \/ EnsureCluster(p) \/ EnsureNetwork(p) \/ WriteDescribe(p) \/ NowhereToWrite(p)
           \/ SnapshotDescribe(p) \/ CreateNode(p) \/ Assemble(p) \/ Remove(p) \/ EmptyDir(p) \/ Purge(p)
           \/ Harvest(p) \/ HarvestStep(p) \/ Export(p)
Next == (\E p \in Processes : Command(p) \/ Step(p) \/ Kill(p)) \/ Halt \/ Around
Spec == Init /\ [][Next]_vars

-----------------------------------------------------------------------------
(* What it promises.                                                       *)

Boxed == [node : Nodes, on : Backends]
TypeOK ==
  /\ dir \subseteq Names /\ strayed \subseteq Names /\ misopened \subseteq Names
  /\ containers \subseteq Boxed /\ running \subseteq containers
  /\ networks \subseteq [of : Names, on : Backends]
  /\ \A n \in Names : describe[n].is \/ opened[n].is \/ record[n] # <<>> => n \in dir
  /\ \A n \in Names : \A x \in work[n] : x.of = n
  /\ \A n \in Names : describe[n].is => describe[n].v.cluster = n
  /\ begun \in 0..MaxCommands /\ mishaps \in 0..MaxMishaps /\ halts \in 0..MaxHalts

(* After a destroy a cluster is gone: no container of it, running or not,  *)
(* no network and nothing in its work directory, on any backend - unless a *)
(* container, the network or a file would not be removed, which the code   *)
(* passes over, or the cluster had strayed: a create cut off before it     *)
(* wrote where it builds, one that moved a standing cluster to another     *)
(* backend or built in one that was being destroyed, or a rebuild whose    *)
(* artifact names none.  A create that is about to write where it builds   *)
(* keeps its network.                                                      *)
Networked(n, b) == [of |-> n, on |-> b] \in networks
Placing(n, b) == \E q \in Processes : cmd[q].at = "describe" /\ cmd[q].n = n /\ cmd[q].on = b
DestroyedIsGone ==
  \A p \in Processes :
    LET n == cmd[p].n
    IN Is(p, "destroy", "purge") /\ ~cmd[p].kept /\ n \notin strayed =>
         /\ work[n] = {}
         /\ \A b \in Backends : Boxes(n, b) = {} /\ (Networked(n, b) => Placing(n, b))

(* destroy --label sets out to take down what its creator claimed with that *)
(* label, and adds nothing on the way: a rebuild does not inherit the      *)
(* claim, and one that was made without a label is not found by one -      *)
(* unless the value asked for is empty, which every cluster without the    *)
(* key answers to.  What it found may be somebody else's when its turn     *)
(* comes: the names are looked up once.                                    *)
Claims(n, s) == s.key \in KeysOf(claimed[n]) /\ Assigned(claimed[n])[s.key] = s.want
Targets(c) == IF c.at \in {"rm", "empty", "purge"} THEN {c.n} \cup c.then ELSE {}
OnlyTheClaimed ==
  [][\A p \in Processes :
       LET c == cmd'[p]
       IN c.at = "rm" /\ c.sel.is /\ c.sel.v.want # "" =>
            \A n \in Targets(c) \ Targets(cmd[p]) : Claims(n, c.sel.v)]_vars

(* Every artifact on disk is one the assembly can build a group from: the  *)
(* sync mode once for each database node, no HA parameter where the engine *)
(* does not read them, and the engine's file never holds the name twice.   *)
Servable ==
  \A n \in Names : describe[n].is =>
    LET t == describe[n].v
    IN /\ perNodeKey \in DOMAIN t.ha => Len(t.ha[perNodeKey].entries) = Count(DBNodes(t))
       /\ HAOff(t) => DOMAIN t.ha = {}
       /\ Shouted \notin DOMAIN t.common
       /\ \A i \in DOMAIN t.nodes : t.nodes[i].name.of = n

(* An export carries the topology the record opened with: the first that   *)
(* got a container, however often the name was created again since, unless *)
(* the create that opened the record never got that far, or another that   *)
(* ran at the same time did so before it, or a create ran under another    *)
(* cluster's name and put its own topology there.                          *)
Exports(p) == Is(p, "show", "read") /\ cmd'[p].at = "answered"
CarriesItsTopology ==
  [][\A p \in Processes : Exports(p) =>
       LET n == cmd[p].n
       IN stood[n] # <<>> /\ n \notin misopened => cmd'[p].doc.describe = Just(stood[n][1])]_vars

(* A role change is measured from the last thing the tool did before the   *)
(* engine says it happened, in whatever order the two were written down -  *)
(* unless a harvest ended between a line's time and its words, or the two  *)
(* times differ only in digits one of them does not spell.                 *)
Apart(T) == \A t, u \in T : t # u => t \div 2 # u \div 2
ToolTimes(n) == {record[n][i].time : i \in {i \in DOMAIN record[n] : record[n][i].actor = "tool"}}
TriggerIsLast ==
  [][\A p \in Processes : Exports(p) =>
       LET n == cmd[p].n
       IN "headless" \notin spoilt[n] =>
            \A c \in cmd'[p].doc.changes :
              LET before == {t \in ToolTimes(n) : t <= c.real}
              IN c.real \notin ToolTimes(n) /\ Apart(ToolTimes(n) \cup {c.real}) =>
                   c.trigger = IF before = {} THEN Nil
                               ELSE Just(CHOOSE t \in before : \A u \in before : u <= t)]_vars
=============================================================================
