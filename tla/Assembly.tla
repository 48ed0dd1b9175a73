------------------------------ MODULE Assembly ------------------------------
(***************************************************************************)
(* The assembly of a CUBRID cluster: what `csb cluster up`, the second     *)
(* half of `csb cluster create`, and `csb cluster down` do to the nodes    *)
(* (internal/assembly/assembly.go).                                        *)
(*                                                                         *)
(* A csb process is one client.  It holds no lock: everything it decides   *)
(* comes from files on the host and from what the engine answers, and it   *)
(* can be killed, or run out of its --timeout, between any two steps while *)
(* whatever it started inside a container runs on.                         *)
(*                                                                         *)
(* External, modelled from how the code uses it: createdb, the files it    *)
(* writes, `cubrid heartbeat start`, and the roles the engine gives to the *)
(* servers.                                                                *)
(***************************************************************************)
EXTENDS Naturals, FiniteSets

CONSTANTS
  Topologies,  \* the topologies `cluster create` may have resolved
  NFiles,      \* files of a database in glob order, databases.txt being the last
  Lgat,        \* the position of <db>_lgat among them
  Clients,     \* csb processes
  StuckLimit,  \* passes of to_be_active before a promotion is completed (5 in the code)
  MaxPages     \* bound: log pages a standby's applier may be behind

Files == 1..NFiles

ASSUME TopologyAssumption ==
  \A t \in Topologies : /\ t \in [size : Nat \ {0}, haOff : BOOLEAN, withBroker : BOOLEAN]
                        /\ t.haOff <=> t.size = 1
ASSUME FilesAssumption == NFiles \in Nat /\ Lgat \in Files
ASSUME LimitsAssumption == StuckLimit \in Nat \ {0} /\ MaxPages \in Nat

VARIABLES
  topo,      \* the topology of this cluster; never changes
  db,        \* db[n][f]: file f of the database in node n's /db
  createdb,  \* is a createdb process alive in the master's container?
  hb,        \* hb[n]: `heartbeat start` on n: not run, waiting for the group, over
  server,    \* server[n]: what `heartbeat status` says of n's server, "" if nothing
  pages,     \* pages[n]: eof_lsa_pageid - final_lsa_pageid of n's applier
  fail,      \* fail[n]: n's fail_counter is not zero
  broker,    \* broker[n]: a broker fronts n's server
  cli,       \* cli[c]: what client c keeps, see ClientState
  spoiled    \* history: a database was left half built, or built by two at once

world == <<topo, db, createdb, hb, server, pages, fail, broker>>
vars  == <<world, cli, spoiled>>

DBNodes == 1..topo.size
Master  == 1              \* T.DBNodes()[0], the create-time master
ServerStates == {"", "standby", "to_be_active", "active", "standalone"}
Phases == {"idle", "createdb", "seed", "copy", "heartbeat", "poll", "complete",
           "changemode", "broker", "down"}

ClientState ==
  [at      : Phases,
   slot    : 1..topo.size + 1,        \* the node its loop is at
   file    : Files,                   \* the file its copy loop is at
   started : SUBSET DBNodes,          \* nodes it has issued `heartbeat start` on
   seen    : [DBNodes -> ServerStates], \* what this pass of WaitServing read
   waiting : 0..topo.size,            \* the first of them that held to_be_active
   stuck   : 0..StuckLimit,           \* passes that saw a to_be_active node
   blocked : BOOLEAN,                 \* the last CompletePromotion gave a reason
   forced  : SUBSET DBNodes,          \* nodes whose promotion it completed
   clock   : {"fresh", "late", "expired"}, \* past WaitServing's deadline, past --timeout
   outcome : {"none", "serving", "blocked", "error", "down"}] \* of its last command

TypeOK ==
  /\ topo \in Topologies
  /\ db \in [DBNodes -> [Files -> {"absent", "open", "torn", "good"}]]
  /\ createdb \in BOOLEAN
  /\ hb \in [DBNodes -> {"off", "starting", "on"}]
  /\ server \in [DBNodes -> ServerStates]
  /\ pages \in [DBNodes -> 0..MaxPages]
  /\ fail \in [DBNodes -> BOOLEAN]
  /\ broker \in [DBNodes -> BOOLEAN]
  /\ cli \in [Clients -> ClientState]
  /\ spoiled \in BOOLEAN

Unread == [n \in DBNodes |-> ""]
Fresh == [at |-> "idle", slot |-> 1, file |-> 1, started |-> {}, seen |-> Unread,
          waiting |-> 0, stuck |-> 0, blocked |-> FALSE, forced |-> {}, clock |-> "fresh", outcome |-> "none"]

Init ==
  /\ topo \in Topologies
  /\ db = [n \in DBNodes |-> [f \in Files |-> "absent"]]
  /\ createdb = FALSE
  /\ hb = [n \in DBNodes |-> "off"]
  /\ server = [n \in DBNodes |-> ""]
  /\ pages = [n \in DBNodes |-> 0]
  /\ fail = [n \in DBNodes |-> FALSE]
  /\ broker = [n \in DBNodes |-> FALSE]
  /\ cli = [c \in Clients |-> Fresh]
  /\ spoiled = FALSE

-----------------------------------------------------------------------------
(* What the code reads off the world.                                      *)

Whole(n) == \A f \in Files : db[n][f] = "good"

(* The stat of <db>_lgat that stands for "this node has the database", in  *)
(* CreateDB and in Seed.  Mutant: any file will do (traps T3 and T6).      *)
HasDB_AnyFile(n) == \E f \in Files : db[n][f] # "absent"
HasDB(n) == db[n][Lgat] # "absent"

(* A volume read while createdb or the master's server is writing it is    *)
(* not a volume a server can recover from (trap T6).                       *)
CopyOf(n, f) ==
  IF db[Master][f] = "absent" THEN db[n][f]
  ELSE IF db[Master][f] = "good" /\ ~createdb /\ server[Master] = "" THEN "good" ELSE "torn"

seeded == topo.size < 2 \/ HasDB(2)

activeState == IF topo.haOff THEN "standalone" ELSE "active"

(* Assembler.State, for a cluster whose containers run.                    *)
State == IF ~seeded THEN "defined"
         ELSE IF server[Master] = activeState THEN "serving"
         ELSE IF server[Master] # "" THEN "forming" ELSE "seeded"

(* Of what WaitServing read in one pass: is somebody serving, and is       *)
(* everybody registered.  Mutant: only the master is looked at.            *)
ServingSeen(c) == IF topo.haOff THEN \A n \in DBNodes : cli[c].seen[n] = "standalone"
                  ELSE \E n \in DBNodes : cli[c].seen[n] = "active"
AllRegistered_Master(c) == cli[c].seen[Master] # ""
AllRegistered(c) == \A n \in DBNodes : cli[c].seen[n] # ""

At(c, phase) == cli[c].at = phase
MoreNodes_OffByOne(c) == cli[c].slot <= topo.size + 1
MoreNodes(c) == cli[c].slot \in DBNodes
MoreFiles_OffByOne(c) == cli[c].file + 1 < NFiles
MoreFiles(c) == cli[c].file < NFiles
Expired(c)   == cli[c].clock = "expired"

Becomes(c, me) == cli' = [cli EXCEPT ![c] = me]

(* A command returns: its locals are gone, what it reported remains.       *)
Returned(c, result) == [Fresh EXCEPT !.outcome = result]
Return(c, result) == Becomes(c, Returned(c, result))

-----------------------------------------------------------------------------
(* Up, first half: CreateDB and Seed.                                      *)

(* CreateDB's stat, and the exec that starts createdb when the stat fails. *)
(* The engine refuses a second createdb of the same database, and then the *)
(* command ends having changed nothing.                                    *)
BeginUp(c) ==
  /\ At(c, "idle")
  /\ \/ /\ HasDB(Master)
        /\ Becomes(c, [Fresh EXCEPT !.at = "seed", !.slot = 2])
        /\ UNCHANGED createdb
     \/ /\ ~HasDB(Master) /\ ~createdb
        /\ Becomes(c, [Fresh EXCEPT !.at = "createdb", !.slot = 2])
        /\ createdb' = TRUE
  /\ spoiled' = (spoiled \/ \E d \in Clients : cli[d].at \in {"createdb", "seed", "copy"})
  /\ UNCHANGED <<topo, db, hb, server, pages, fail, broker>>

(* createdb's files, databases.txt among them, are there before it is done. *)
CreatedbWrites ==
  /\ createdb /\ \A f \in Files : db[Master][f] = "absent"
  /\ db' = [db EXCEPT ![Master] = [f \in Files |-> "open"]]
  /\ UNCHANGED <<topo, createdb, hb, server, pages, fail, broker, cli, spoiled>>

CreatedbFinishes ==
  /\ createdb /\ HasDB(Master)
  /\ createdb' = FALSE
  /\ db' = [db EXCEPT ![Master] = [f \in Files |-> "good"]]
  /\ cli' = [c \in Clients |-> IF At(c, "createdb") THEN [cli[c] EXCEPT !.at = "seed"] ELSE cli[c]]
  /\ UNCHANGED <<topo, hb, server, pages, fail, broker, spoiled>>

(* createdb exits non-zero; what it had written may stay behind.           *)
CreatedbFails ==
  /\ createdb
  /\ createdb' = FALSE
  /\ \/ /\ db' = [db EXCEPT ![Master] = [f \in Files |-> "absent"]]
        /\ UNCHANGED spoiled
     \/ /\ HasDB(Master)
        /\ db' = [db EXCEPT ![Master] = [f \in Files |-> "torn"]]
        /\ spoiled' = TRUE
  /\ cli' = [c \in Clients |-> IF At(c, "createdb") THEN Returned(c, "error") ELSE cli[c]]
  /\ UNCHANGED <<topo, hb, server, pages, fail, broker>>

(* The --timeout kills the local exec client: CreateDB sees an exit status *)
(* of -1 and Up returns, while createdb runs on in the container.          *)
CreatedbTimesOut(c) ==
  /\ At(c, "createdb") /\ Expired(c)
  /\ Return(c, "error")
  /\ spoiled' = TRUE
  /\ UNCHANGED world

SkipSeeded(c) ==
  /\ At(c, "seed") /\ MoreNodes(c) /\ HasDB(cli[c].slot)
  /\ Becomes(c, [cli[c] EXCEPT !.slot = @ + 1])
  /\ UNCHANGED <<world, spoiled>>

(* Mutant: the re-seeding of a live standby the comment in Seed recalls.   *)
BeginCopy_Always(c) ==
  /\ At(c, "seed") /\ MoreNodes(c)
  /\ Becomes(c, [cli[c] EXCEPT !.at = "copy", !.file = 1])
  /\ UNCHANGED <<world, spoiled>>
BeginCopy(c) ==
  /\ At(c, "seed") /\ MoreNodes(c) /\ ~HasDB(cli[c].slot)
  /\ Becomes(c, [cli[c] EXCEPT !.at = "copy", !.file = 1])
  /\ UNCHANGED <<world, spoiled>>

CopyFile(c) ==
  /\ At(c, "copy")
  /\ db' = [db EXCEPT ![cli[c].slot][cli[c].file] = CopyOf(cli[c].slot, cli[c].file)]
  /\ IF MoreFiles(c) THEN Becomes(c, [cli[c] EXCEPT !.file = @ + 1])
     ELSE Becomes(c, [cli[c] EXCEPT !.at = "seed", !.slot = @ + 1])
  /\ UNCHANGED <<topo, createdb, hb, server, pages, fail, broker, spoiled>>

(* The copy loop ends inside a file: copyFile fails (Up returns its error) *)
(* or the process dies.  The file it was at is truncated.                  *)
TearFile(c) ==
  /\ db' = [db EXCEPT ![cli[c].slot][cli[c].file] = "torn"]
  /\ spoiled' = (spoiled \/ cli[c].file >= Lgat)

CopyFails(c) ==
  /\ At(c, "copy")
  /\ TearFile(c)
  /\ Return(c, "error")
  /\ UNCHANGED <<topo, createdb, hb, server, pages, fail, broker>>

(* Mutant: the heartbeats are started while nodes are still to be seeded.  *)
SeedDone_Early(c) ==
  /\ At(c, "seed")
  /\ Becomes(c, [cli[c] EXCEPT !.at = "heartbeat"])
  /\ UNCHANGED <<world, spoiled>>
SeedDone(c) ==
  /\ At(c, "seed") /\ ~MoreNodes(c)
  /\ Becomes(c, [cli[c] EXCEPT !.at = "heartbeat"])
  /\ UNCHANGED <<world, spoiled>>

-----------------------------------------------------------------------------
(* Up, second half: StartHeartbeat, WaitServing, StartBroker.              *)

(* What a client keeps when it begins to read the nodes anew.              *)
NextPass(me) == [me EXCEPT !.at = "poll", !.slot = 1, !.seen = Unread, !.waiting = 0]

(* One goroutine per node issues `heartbeat start`; they run in any order. *)
(* Mutant: one node after another, each waiting for the one before (T4).   *)
MayStart_InOrder(c, n) ==
  n \notin cli[c].started /\ \A m \in DBNodes : m < n => m \in cli[c].started /\ hb[m] # "starting"
MayStart(c, n) == n \notin cli[c].started

StartHeartbeat(c, n) ==
  /\ ~topo.haOff /\ At(c, "heartbeat") /\ MayStart(c, n)
  /\ Becomes(c, [cli[c] EXCEPT !.started = @ \cup {n}])
  /\ hb' = [hb EXCEPT ![n] = IF @ = "off" /\ ~Expired(c) THEN "starting" ELSE @]
  /\ UNCHANGED <<topo, db, createdb, server, pages, fail, broker, spoiled>>

(* The join: every command is back, or the --timeout has killed it, which  *)
(* Exec reports as an exit status and StartHeartbeat does not look at.     *)
HeartbeatsJoined(c) ==
  /\ ~topo.haOff /\ At(c, "heartbeat") /\ cli[c].started = DBNodes
  /\ Expired(c) \/ \A n \in DBNodes : hb[n] # "starting"
  /\ Becomes(c, NextPass(cli[c]))
  /\ UNCHANGED <<world, spoiled>>

(* ha_mode=off: `cubrid server start` on the one node there is.            *)
startServers(c) ==
  /\ topo.haOff /\ At(c, "heartbeat")
  /\ server' = [n \in DBNodes |-> IF Whole(n) /\ ~Expired(c) THEN "standalone" ELSE server[n]]
  /\ Becomes(c, NextPass(cli[c]))
  /\ UNCHANGED <<topo, db, createdb, hb, pages, fail, broker, spoiled>>

(* WaitServing reads one node after another; an exec that fails reads as   *)
(* an unregistered server.                                                 *)
PollNode(c) ==
  /\ At(c, "poll") /\ MoreNodes(c)
  /\ LET n == cli[c].slot
         st == IF Expired(c) THEN "" ELSE server[n]
     IN  Becomes(c, [cli[c] EXCEPT !.slot = n + 1, !.seen[n] = st,
                                   !.waiting = IF @ = 0 /\ st = "to_be_active" THEN n ELSE @])
  /\ UNCHANGED <<world, spoiled>>

PassOver(c) == At(c, "poll") /\ ~MoreNodes(c)

PassServing(c) ==
  /\ PassOver(c) /\ ServingSeen(c)
  /\ \/ ~AllRegistered(c) /\ Return(c, "error")
     \/ /\ AllRegistered(c)
        /\ IF topo.withBroker
           THEN Becomes(c, [NextPass(cli[c]) EXCEPT !.at = "broker"])
           ELSE Return(c, "serving")
  /\ UNCHANGED <<world, spoiled>>

(* The end of a pass that found nobody serving: the deadline decides.      *)
(* me is what the client keeps of the pass.                                *)
PassEnds(c, me) ==
  IF cli[c].clock = "fresh"
  THEN Becomes(c, NextPass(me))
  ELSE Return(c, IF me.blocked THEN "blocked" ELSE "error")

PassIdle(c) ==
  /\ PassOver(c) /\ ~ServingSeen(c) /\ cli[c].waiting = 0
  /\ PassEnds(c, cli[c])
  /\ UNCHANGED <<world, spoiled>>

(* Passes that saw to_be_active are counted, and never counted down.       *)
Counted(c) == [cli[c] EXCEPT !.stuck = IF @ < StuckLimit THEN @ + 1 ELSE @]

PassStalled(c) ==
  /\ PassOver(c) /\ ~ServingSeen(c) /\ cli[c].waiting # 0
  /\ IF Counted(c).stuck >= StuckLimit
     THEN Becomes(c, [Counted(c) EXCEPT !.at = "complete"])
     ELSE PassEnds(c, Counted(c))
  /\ UNCHANGED <<world, spoiled>>

(* Pages still to drain, or rows the applier lost.  Mutant: rows only.     *)
promotionBlocker_Rows(n) == fail[n]
promotionBlocker(n) == pages[n] # 0 \/ fail[n]

(* CompletePromotion's reading of db_ha_apply_info on the waiting node.  A *)
(* row that cannot be read is neither safe nor a reason.                   *)
PromotionUnread(c) ==
  /\ At(c, "complete")
  /\ PassEnds(c, [cli[c] EXCEPT !.blocked = FALSE])
  /\ UNCHANGED <<world, spoiled>>

PromotionBlocked(c) ==
  /\ At(c, "complete") /\ ~Expired(c) /\ promotionBlocker(cli[c].waiting)
  /\ PassEnds(c, [cli[c] EXCEPT !.blocked = TRUE])
  /\ UNCHANGED <<world, spoiled>>

PromotionSafe(c) ==
  /\ At(c, "complete") /\ ~Expired(c) /\ ~promotionBlocker(cli[c].waiting)
  /\ Becomes(c, [cli[c] EXCEPT !.at = "changemode"])
  /\ UNCHANGED <<world, spoiled>>

(* `changemode -m active -f`, another exec: the node is as it is now.  When *)
(* it succeeds WaitServing goes round without asking for the deadline.     *)
Changemode(c) ==
  /\ At(c, "changemode")
  /\ LET n == cli[c].waiting
     IN  \/ /\ ~Expired(c) /\ server[n] \in {"to_be_active", "active"}
           /\ server' = [server EXCEPT ![n] = "active"]
           /\ Becomes(c, [NextPass(cli[c]) EXCEPT !.forced = @ \cup {n}, !.blocked = FALSE])
        \/ /\ Expired(c) \/ server[n] \notin {"to_be_active", "active"}
           /\ PassEnds(c, [cli[c] EXCEPT !.blocked = TRUE])
           /\ UNCHANGED server
  /\ UNCHANGED <<topo, db, createdb, hb, pages, fail, broker, spoiled>>

StartBroker(c) ==
  /\ At(c, "broker")
  /\ \/ /\ MoreNodes(c) /\ ~Expired(c)
        /\ broker' = [broker EXCEPT ![cli[c].slot] = TRUE]
        /\ Becomes(c, [cli[c] EXCEPT !.slot = @ + 1])
     \/ MoreNodes(c) /\ Expired(c) /\ Return(c, "error") /\ UNCHANGED broker
     \/ MoreNodes(c) /\ Expired(c) /\ Becomes(c, [cli[c] EXCEPT !.slot = @ + 1]) /\ UNCHANGED broker
     \/ ~MoreNodes(c) /\ Return(c, "serving") /\ UNCHANGED broker
  /\ UNCHANGED <<topo, db, createdb, hb, server, pages, fail, spoiled>>

-----------------------------------------------------------------------------
(* Down, and what ends a client from outside.                              *)

BeginDown(c) ==
  /\ At(c, "idle")
  /\ Becomes(c, [Fresh EXCEPT !.at = "down"])
  /\ UNCHANGED <<world, spoiled>>

(* `service stop` takes the server, the heartbeat and the broker of a node. *)
Down(c) ==
  /\ At(c, "down")
  /\ \/ /\ MoreNodes(c)
        /\ server' = [server EXCEPT ![cli[c].slot] = ""]
        /\ hb' = [hb EXCEPT ![cli[c].slot] = "off"]
        /\ broker' = [broker EXCEPT ![cli[c].slot] = FALSE]
        /\ Becomes(c, [cli[c] EXCEPT !.slot = @ + 1])
     \/ /\ MoreNodes(c) => Expired(c)
        /\ Return(c, IF MoreNodes(c) THEN "error" ELSE "down")
        /\ UNCHANGED <<server, hb, broker>>
  /\ UNCHANGED <<topo, db, createdb, pages, fail, spoiled>>

(* WaitServing's own 90 seconds, then the --timeout every exec is bound to. *)
Late(c) ==
  /\ cli[c].at \in {"poll", "complete", "changemode"} /\ cli[c].clock = "fresh"
  /\ Becomes(c, [cli[c] EXCEPT !.clock = "late"])
  /\ UNCHANGED <<world, spoiled>>

Expire(c) ==
  /\ ~At(c, "idle") /\ ~Expired(c)
  /\ Becomes(c, [cli[c] EXCEPT !.clock = "expired"])
  /\ UNCHANGED <<world, spoiled>>

Killed(c) ==
  /\ ~At(c, "idle")
  /\ Return(c, "none")
  /\ \/ At(c, "copy") /\ TearFile(c)
     \/ UNCHANGED db /\ spoiled' = (spoiled \/ At(c, "createdb") \/ (At(c, "copy") /\ cli[c].file > Lgat))
  /\ UNCHANGED <<topo, createdb, hb, server, pages, fail, broker>>

-----------------------------------------------------------------------------
(* The engine.                                                             *)

(* `heartbeat start` blocks until every node has been started (trap T4); a *)
(* server that cannot recover its volumes never registers.                 *)
GroupForms ==
  /\ \A n \in DBNodes : hb[n] # "off"
  /\ \E n \in DBNodes : hb[n] = "starting"
  /\ server' = [n \in DBNodes |-> IF hb[n] = "starting" /\ Whole(n) THEN "standby" ELSE server[n]]
  /\ hb' = [n \in DBNodes |-> "on"]
  /\ UNCHANGED <<topo, db, createdb, pages, fail, broker, cli, spoiled>>

Elect(n) ==
  /\ server[n] = "standby"
  /\ \A m \in DBNodes : server[m] \notin {"to_be_active", "active"}
  /\ server' = [server EXCEPT ![n] = "to_be_active"]
  /\ UNCHANGED <<topo, db, createdb, hb, pages, fail, broker, cli, spoiled>>

Promote(n) ==
  /\ server[n] = "to_be_active" /\ pages[n] = 0
  /\ server' = [server EXCEPT ![n] = "active"]
  /\ UNCHANGED <<topo, db, createdb, hb, pages, fail, broker, cli, spoiled>>

(* An active server's log reaches a standby, whose applier works it off.   *)
Ship(n) ==
  /\ server[n] = "standby" /\ pages[n] < MaxPages
  /\ \E m \in DBNodes : server[m] = "active"
  /\ pages' = [pages EXCEPT ![n] = @ + 1]
  /\ UNCHANGED <<topo, db, createdb, hb, server, fail, broker, cli, spoiled>>

Apply(n) ==
  /\ server[n] \in {"standby", "to_be_active"} /\ pages[n] > 0
  /\ pages' = [pages EXCEPT ![n] = @ - 1]
  /\ \E lost \in {fail[n], TRUE} : fail' = [fail EXCEPT ![n] = lost]
  /\ UNCHANGED <<topo, db, createdb, hb, server, broker, cli, spoiled>>

-----------------------------------------------------------------------------
Seeding(c) == SkipSeeded(c) \/ BeginCopy(c) \/ CopyFile(c) \/ SeedDone(c)
Starting(c) == (\E n \in DBNodes : StartHeartbeat(c, n)) \/ HeartbeatsJoined(c) \/ startServers(c)
WaitServing(c) == PollNode(c) \/ PassServing(c) \/ PassIdle(c) \/ PassStalled(c)
                  \/ PromotionUnread(c) \/ PromotionBlocked(c) \/ PromotionSafe(c) \/ Changemode(c)
Step(c) == CreatedbTimesOut(c) \/ Seeding(c) \/ Starting(c) \/ WaitServing(c) \/ StartBroker(c)
           \/ Down(c)
Command(c) == BeginUp(c) \/ BeginDown(c)
Trouble(c) == CopyFails(c) \/ Late(c) \/ Expire(c) \/ Killed(c)
Engine == \/ CreatedbWrites \/ CreatedbFinishes \/ CreatedbFails \/ GroupForms
          \/ \E n \in DBNodes : Elect(n) \/ Promote(n) \/ Ship(n) \/ Apply(n)

Next == (\E c \in Clients : Command(c) \/ Step(c) \/ Trouble(c)) \/ Engine

Spec == Init /\ [][Next]_vars

(* Scheduling: a csb process that is not killed runs on, and the engine    *)
(* forms a group, elects, and drains what was shipped.  It is not assumed  *)
(* to finish a promotion, nor is time assumed to pass; a row of            *)
(* db_ha_apply_info that keeps being asked for is read some time.          *)
Fairness ==
  /\ \A c \in Clients : WF_vars(Step(c)) /\ SF_vars(PromotionSafe(c))
  /\ WF_vars(GroupForms)
  /\ WF_vars(\E n \in DBNodes : Elect(n))
  /\ WF_vars(\E n \in DBNodes : Apply(n))
LiveSpec == Spec /\ Fairness

-----------------------------------------------------------------------------
(* Properties.                                                             *)

(* "Up is resumable" as far as it goes: unless a build was cut off or run  *)
(* into by another, a standby that looks seeded to the stat in Seed, and   *)
(* is not being copied to, has every file of the database, each of them    *)
(* taken from a finished createdb (traps T3 and T6).                       *)
SeededIsWhole ==
  ~spoiled => \A n \in DBNodes :
    n # Master /\ HasDB(n) /\ (\A c \in Clients : ~(At(c, "copy") /\ cli[c].slot = n)) => Whole(n)

(* And no heartbeat or server is started in a group of which any node's    *)
(* database is missing, half copied or torn, however many ups and downs    *)
(* run, are killed or time out in any other phase.                         *)
StartedOnWhole ==
  ~spoiled /\ (\E n \in DBNodes : hb[n] # "off" \/ server[n] # "") => \A n \in DBNodes : Whole(n)

(* What 03-assembly.md and assembly.go say without a condition: an up that *)
(* comes after an interrupted one goes on from the state it finds, so one  *)
(* that is past seeding has whole databases on every node.                 *)
PastSeeding(c) == cli[c].at \in {"heartbeat", "poll", "complete", "changemode", "broker"}
Resumable == \A c \in Clients : PastSeeding(c) => \A n \in DBNodes : Whole(n)

(* Why both hold, piece by piece.  A client that is past seeding knows     *)
(* every database to be whole; one that seeds knows the master's and those *)
(* of the nodes behind it to be; and what a copy leaves in a database is   *)
(* written in glob order, so that nothing after _lgat comes before it.     *)
Builds(c) == cli[c].at \in {"createdb", "seed", "copy"}
OneBuilder == \A c, d \in Clients : Builds(c) /\ Builds(d) => c = d
MasterBuilt ==
  /\ createdb <=> \E c \in Clients : At(c, "createdb")
  /\ \/ \A f \in Files : db[Master][f] = "absent"
     \/ \A f \in Files : db[Master][f] = IF createdb THEN "open" ELSE "good"
LoopAt(c) ==
  /\ At(c, "createdb") => cli[c].slot = 2
  /\ cli[c].at \in {"seed", "copy"} =>
       cli[c].slot >= 2 /\ \A n \in DBNodes : n < cli[c].slot => Whole(n)
  /\ At(c, "copy") => \A f \in Files : /\ f < cli[c].file => db[cli[c].slot][f] = "good"
                                       /\ f >= cli[c].file /\ f >= Lgat => db[cli[c].slot][f] = "absent"
NothingAfterLgat == \A n \in DBNodes \ {Master} :
  ~HasDB(n) => \A f \in Files : f >= Lgat => db[n][f] = "absent"

BuildInv ==
  ~spoiled => /\ OneBuilder /\ MasterBuilt /\ (\A c \in Clients : LoopAt(c))
              /\ NothingAfterLgat /\ Resumable
              /\ SeededIsWhole /\ StartedOnWhole

(* Seed never writes into the database of a server that is up: the copy    *)
(* over a standby that had been replicating, which `up` once performed.    *)
NoCopyUnderServer ==
  [][~spoiled' => \A n \in DBNodes : server[n] # "" => db'[n] = db[n]]_vars

(* A promotion that WaitServing completes itself was safe when changemode  *)
(* ran, not only when it was checked: nothing left to drain, no row lost,  *)
(* and no other node active.                                               *)
ForcedOnlyClean ==
  [][\A c \in Clients : \A n \in cli'[c].forced \ cli[c].forced :
       /\ pages[n] = 0 /\ ~fail[n]
       /\ \A m \in DBNodes \ {n} : server[m] # "active"]_vars

(* Up reports serving only of a cluster that serves when it reports it: an *)
(* active server, every server registered, on whole databases, although    *)
(* the nodes were read one after another (trap T5).                        *)
ServingIsServing ==
  [][\A c \in Clients : cli[c].outcome # "serving" /\ cli'[c].outcome = "serving" =>
       /\ \E n \in DBNodes : server[n] = activeState
       /\ \A n \in DBNodes : server[n] # "" /\ Whole(n)]_vars

(* An up that reaches StartHeartbeat with whole databases ends, even when  *)
(* the engine never finishes a promotion by itself, unless its time runs   *)
(* out or an applier loses rows: the heartbeats do not wait for each other *)
(* for ever (T4), and a promotion that stalls is completed.                *)
UpFinishes ==
  \A c \in Clients :
    (~spoiled /\ At(c, "heartbeat") /\ \A n \in DBNodes : Whole(n))
      ~> (At(c, "idle") \/ cli[c].clock # "fresh" \/ \E n \in DBNodes : fail[n])

(* The state derived from the world implements Stages: unless a build was  *)
(* cut off, every step is a step on the ladder or leaves the rung alone.   *)
Ladder == INSTANCE Stages WITH stage <- State, standalone <- topo.haOff
StagesInOrder == Ladder!Init /\ [][~spoiled' => [Ladder!Next]_<<topo.haOff, State>>]_vars

=============================================================================
