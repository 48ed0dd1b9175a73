------------------------------- MODULE Resync -------------------------------
(***************************************************************************)
(* Two nodes that no longer agree, and what csb does about it: `ha resync` *)
(* (internal/cli/inspect.go) with the rebuild of a slave and the copy of   *)
(* the master's active log (internal/assembly/rebuild.go), the comparison  *)
(* of the tables of two databases (internal/inspect/diff.go), and the      *)
(* recovery in `node start`.  `cluster up` is here for what it makes of a  *)
(* database that a rebuild has taken away; Assembly has the whole of it.   *)
(*                                                                         *)
(* A rebuild is a dozen steps over two nodes while the master serves and   *)
(* is written to.  Any of them can fail, --timeout can run out and csb can *)
(* be killed at any step, and roles can move between the reading of them   *)
(* and the removal of a database.                                          *)
(*                                                                         *)
(* External, modelled from how the code uses it: heartbeat, replication,   *)
(* backupdb, restoreslave.  A database is the tables it has and their rows *)
(* (rows are told apart, though the code can only count them); replication *)
(* still has to bring queue[n] to n, and whatever is in neither is lost.   *)
(***************************************************************************)
EXTENDS Naturals, FiniteSets

CONSTANTS
  NNodes,    \* database nodes, in the order of T.Nodes; node 1 was created as the master
  Clients,   \* csb processes
  Tables, Rows,
  MaxCommands, MaxEvents  \* bounds: commands that are given; servers that fall

ASSUME ResyncAssumption ==
  /\ NNodes \in Nat \ {0} /\ MaxCommands \in Nat /\ MaxEvents \in Nat
  /\ IsFiniteSet(Tables) /\ IsFiniteSet(Rows)

DBNodes == 1..NNodes
Created == 1  \* T.DBNodes()[0], whatever its role is now
Writes == Tables \X Rows

VARIABLES
  db,       \* db[n]: the database files of n, see Database
  backup,   \* backup[n]: what is in /work/n/backup, a Database too
  server,   \* server[n]: the role n's server is registered in
  hb,       \* hb[n]: n's heartbeat was started and not stopped
  position, \* position[n]: where n's applier is to resume from
  said,     \* nodes whose applier's log says `may be corrupted`
  queue,    \* queue[n]: rows replication has yet to bring to n
  failed,   \* failed[n]: n's fail_counter, as the code tells them apart
  named,    \* named[n]: the tables n's applier's log says it could not apply to
  cli,      \* cli[c]: what client c keeps, see ClientState
  commands, events, \* how many there have been
  cut, mishaps \* history: a command ended on a database that is not whole; what else went wrong

engine == <<server, hb, position, said, queue, failed, named>>
files  == <<db, backup>>
bounds == <<commands, events>>
vars   == <<files, engine, cli, bounds, cut, mishaps>>

(* whole: what a server may serve; torn: _lgat is there and a volume is    *)
(* not, or is not of one piece; gone: no _lgat; fresh: createdb's, empty.  *)
Database == [state : {"whole", "torn", "gone", "fresh"}, tables : SUBSET Tables, rows : SUBSET Writes]
Nothing == [state |-> "gone", tables |-> {}, rows |-> {}]
HasLgat(n) == db[n].state # "gone"

Fails == {0, 1, 1000}
Nobody == 0
Reads == [server : {"", "standby", "active"}, fail : Fails, behind : BOOLEAN]
Phases == {"idle", "read", "list", "master", "slave", "stop", "prepare", "backup", "remove", "unlink",
           "fetch", "restore", "relog", "start", "createdb", "seed", "group"}
Paired == {"list", "master", "slave", "stop", "prepare", "backup", "remove", "unlink", "fetch", "restore", "relog"}
Purposes == {"choose", "back", "drain", "resolve", "joined", "rejoined"}
ClientState ==
  [at      : Phases,
   then    : Purposes,                    \* what reading the nodes is for
   judge   : {"choose", "table", "rebuilt"}, \* what comparing the tables is for
   verb    : {"resync", "start", "up"},
   path    : {"", "resume", "table", "slave"},
   slave   : DBNodes \cup {Nobody},
   master  : DBNodes \cup {Nobody},
   slot    : 1..(NNodes + 1),
   seen    : [DBNodes -> Reads],
   todo    : SUBSET Tables, rows : Nat, differ : SUBSET Tables,  \* of a comparison
   late    : BOOLEAN,                     \* the wait it is in has run out
   expired : BOOLEAN,                     \* --timeout has run out: its execs fail
   outcome : {"none", "error", "timeout", "resumed", "agree", "uncompared", "same", "differs", "still_diverged",
              "rebuilt", "rebuilt_uncompared", "started", "rejoined", "needs_rebuild", "up"}]
Mishaps == {"moved", "overlapped", "blind", "uncounted", "unsettled"}

TypeOK ==
  /\ db \in [DBNodes -> Database] /\ backup \in [DBNodes -> Database]
  /\ server \in [DBNodes -> {"", "standby", "active"}] /\ hb \in [DBNodes -> BOOLEAN]
  /\ position \in [DBNodes -> {"ok", "short", "foreign"}] /\ said \subseteq DBNodes
  /\ queue \in [DBNodes -> SUBSET Writes] /\ failed \in [DBNodes -> Fails] /\ named \in [DBNodes -> SUBSET Tables]
  /\ cli \in [Clients -> ClientState]
  /\ commands \in 0..MaxCommands /\ events \in 0..MaxEvents /\ cut \in BOOLEAN /\ mishaps \subseteq Mishaps
  /\ \A c \in Clients : cli[c].at \in Paired => cli[c].slave \in DBNodes /\ cli[c].master \in DBNodes \ {cli[c].slave}

Fresh == [at |-> "idle", then |-> "choose", judge |-> "choose", verb |-> "resync", path |-> "",
          slave |-> Nobody, master |-> Nobody, slot |-> 1,
          seen |-> [n \in DBNodes |-> [server |-> "", fail |-> 0, behind |-> FALSE]],
          todo |-> {}, rows |-> 0, differ |-> {}, late |-> FALSE, expired |-> FALSE, outcome |-> "none"]

(* A group as it may be found: a master, or the two of a split brain; the  *)
(* others following, or not; their rows what the past has made of them.    *)
Init ==
  /\ db \in [DBNodes -> {d \in Database : d.state = "whole" /\ \A w \in d.rows : w[1] \in d.tables}]
  /\ backup = [n \in DBNodes |-> Nothing]
  /\ server \in [DBNodes -> {"", "standby", "active"}] /\ \E n \in DBNodes : server[n] = "active"
  /\ hb = [n \in DBNodes |-> server[n] # ""]
  /\ position \in [DBNodes -> {"ok", "short", "foreign"}] /\ \A n \in DBNodes : server[n] # "" => position[n] = "ok"
  /\ said \in SUBSET {n \in DBNodes : position[n] = "short"}
  /\ queue = [n \in DBNodes |-> {}]
  /\ failed \in [DBNodes -> Fails] /\ \A n \in DBNodes : server[n] # "standby" => failed[n] = 0
  /\ named \in [DBNodes -> SUBSET Tables] /\ \A n \in DBNodes : failed[n] = 0 => named[n] = {}
  /\ cli = [c \in Clients |-> Fresh]
  /\ commands = 0 /\ events = 0 /\ cut = FALSE /\ mishaps = {}

-----------------------------------------------------------------------------
At(c, phase) == cli[c].at = phase
Expired(c) == cli[c].expired
TheSlave(c) == cli[c].slave
TheMaster(c) == cli[c].master
Becomes(c, me) == cli' = [cli EXCEPT ![c] = me]
Goes(c, phase) == Becomes(c, [cli[c] EXCEPT !.at = phase])
Busy(c) == ~At(c, "idle")

Reading(me, purpose) == [me EXCEPT !.at = "read", !.then = purpose, !.slot = 1, !.seen = Fresh.seen]
Waiting(me, purpose) == [Reading(me, purpose) EXCEPT !.late = FALSE]
Comparing(me, judge) == [me EXCEPT !.at = "list", !.judge = judge, !.todo = {}, !.rows = 0, !.differ = {}, !.seen = Fresh.seen]

(* A command that ends, however it does, with a database taken away or not.*)
Return(c, result) ==
  /\ Becomes(c, [Fresh EXCEPT !.outcome = result])
  /\ cut' = \E n \in DBNodes : db'[n].state # "whole"

-----------------------------------------------------------------------------
(* The command line, and inspect.Read.                                     *)

Begin(c) ==
  /\ At(c, "idle") /\ commands < MaxCommands /\ commands' = commands + 1
  /\ \/ \E path \in {"", "resume", "table", "slave"}, target \in DBNodes \cup {Nobody} :
          Becomes(c, [Reading(Fresh, "choose") EXCEPT !.path = path, !.slave = target])
     \/ \E target \in DBNodes : Becomes(c, [Fresh EXCEPT !.verb = "start", !.at = "start", !.then = "resolve", !.slave = target])
     \/ Becomes(c, [Fresh EXCEPT !.verb = "up", !.at = "createdb"])
  /\ mishaps' = IF \E d \in Clients \ {c} : Busy(d) THEN mishaps \cup {"overlapped"} ELSE {}
  /\ UNCHANGED <<files, engine, events, cut>>

(* A node whose commands do not get through reads as one without a server, *)
(* and without a row of db_ha_apply_info: no failures, and not behind.     *)
ReadNode(c) ==
  /\ At(c, "read") /\ cli[c].slot \in DBNodes
  /\ LET n == cli[c].slot
         seen == IF Expired(c) \/ server[n] = "" THEN Fresh.seen[n]
                 ELSE [server |-> server[n], fail |-> failed[n], behind |-> queue[n] # {}]
     IN Becomes(c, [cli[c] EXCEPT !.slot = @ + 1, !.seen[n] = seen])
  /\ UNCHANGED <<files, engine, bounds, cut, mishaps>>

Read(c, purpose) == At(c, "read") /\ cli[c].slot \notin DBNodes /\ cli[c].then = purpose
seen(c, role) == {n \in DBNodes : cli[c].seen[n].server = role}
LastOf(nodes) == IF nodes = {} THEN Nobody ELSE CHOOSE n \in nodes : \A m \in nodes : m <= n
GivesUp(c) == cli[c].late \/ Expired(c)

-----------------------------------------------------------------------------
(* ha resync: which nodes, and which of the three paths.                   *)

(* The last master read is the master, the last standby the slave; a node  *)
(* that was named is the slave whatever it is.  With no failures counted   *)
(* and no path asked for the tables have to be compared first.             *)
Path(fail, tables) ==
  CASE fail = 0 -> "resume" [] fail >= 1000 -> "slave"
    [] fail \in 1..999 -> IF tables # {} THEN "table" ELSE "resume"

FailRows(c, n) == IF Expired(c) THEN {} ELSE named[n]

Take(c, me) ==
  CASE me.path = "resume" -> Return(c, "resumed")
    [] me.path = "table" ->
         /\ Becomes(c, [Comparing(me, "table") EXCEPT !.todo = FailRows(c, me.slave),
                                                     !.at = IF FailRows(c, me.slave) = {} THEN "list" ELSE "master"])
         /\ UNCHANGED cut
    [] me.path = "slave" -> Becomes(c, [me EXCEPT !.at = "stop"]) /\ UNCHANGED cut
\* Mutant: the named node is not held against the master.
ChooseAny(c) ==
  /\ Read(c, "choose")
  /\ UNCHANGED <<files, engine, bounds, mishaps>>
  /\ LET master == LastOf(seen(c, "active"))
         slave == IF TheSlave(c) # Nobody THEN TheSlave(c) ELSE LastOf(seen(c, "standby"))
         fail == cli[c].seen[slave].fail
         me == [cli[c] EXCEPT !.master = master, !.slave = slave, !.seen = Fresh.seen]
     IN IF Nobody \in {master, slave} THEN Return(c, "error")
        ELSE IF me.path # "" THEN Take(c, me)
        ELSE IF fail = 0 THEN Becomes(c, Comparing(me, "choose")) /\ UNCHANGED cut
        ELSE Take(c, [me EXCEPT !.path = Path(fail, FailRows(c, slave))])
Choose(c) ==
  /\ Read(c, "choose")
  /\ UNCHANGED <<files, engine, bounds, mishaps>>
  /\ LET master == LastOf(seen(c, "active"))
         slave == IF TheSlave(c) # Nobody THEN TheSlave(c) ELSE LastOf(seen(c, "standby"))
         fail == cli[c].seen[slave].fail
         me == [cli[c] EXCEPT !.master = master, !.slave = slave, !.seen = Fresh.seen]
     IN IF Nobody \in {master, slave} \/ master = slave THEN Return(c, "error")
        ELSE IF me.path # "" THEN Take(c, me)
        ELSE IF fail = 0 THEN Becomes(c, Comparing(me, "choose")) /\ UNCHANGED cut
        ELSE Take(c, [me EXCEPT !.path = Path(fail, FailRows(c, slave))])

-----------------------------------------------------------------------------
(* CompareTables, and CompareTable of the fault package.                   *)

Reachable(c, n) == ~Expired(c) /\ server[n] # ""
Count(n, t) == Cardinality({w \in db[n].rows : w[1] = t})
\* Mutant: a rebuild is not compared again.
JudgedOnce(c, me, compared) ==
  CASE me.judge = "choose" -> IF me.differ # {} THEN Take(c, [me EXCEPT !.path = "slave"])
                              ELSE Return(c, IF compared THEN "agree" ELSE "uncompared")
    [] me.judge = "table" -> Return(c, IF me.differ # {} THEN "differs" ELSE "same")
    [] me.judge = "rebuilt" -> Return(c, IF ~compared THEN "rebuilt_uncompared"
                                         ELSE IF me.differ # {} THEN "rebuilt" ELSE "rebuilt")

(* Where a comparison that is over leads, its tables compared or not.      *)
Judged(c, me, compared) ==
  CASE me.judge = "choose" -> IF me.differ # {} THEN Take(c, [me EXCEPT !.path = "slave"])
                              ELSE Return(c, IF compared THEN "agree" ELSE "uncompared")
    [] me.judge = "table" -> Return(c, IF me.differ # {} THEN "differs" ELSE "same")
    [] me.judge = "rebuilt" -> Return(c, IF ~compared THEN "rebuilt_uncompared"
                                         ELSE IF me.differ # {} THEN "still_diverged" ELSE "rebuilt")

(* UserTables: the master's catalog says what there is to compare.         *)
List(c) ==
  /\ At(c, "list")
  /\ UNCHANGED <<files, engine, bounds>>
  /\ mishaps' = mishaps \cap {"moved", "overlapped"}
  /\ LET tables == IF Reachable(c, TheMaster(c)) THEN db[TheMaster(c)].tables ELSE {}
     IN IF tables = {} THEN Judged(c, cli[c], Reachable(c, TheMaster(c)))
        ELSE Becomes(c, [cli[c] EXCEPT !.at = "master", !.todo = tables]) /\ UNCHANGED cut

Compared(c, t, differs) ==
  LET me == [cli[c] EXCEPT !.todo = @ \ {t}, !.rows = 0, !.at = "master",
                           !.differ = IF differs THEN @ \cup {t} ELSE @]
  IN IF me.todo = {} THEN Judged(c, me, TRUE) ELSE Becomes(c, me) /\ UNCHANGED cut

(* The table that is counted; the names are sorted.                        *)
Counted(c) == CHOOSE t \in cli[c].todo : TRUE
\* Mutant: a table that cannot be counted differs.
CountMasterZero(c) ==
  /\ At(c, "master")
  /\ UNCHANGED <<files, engine, bounds>>
  /\ LET t == Counted(c) IN
     IF Reachable(c, TheMaster(c)) /\ t \in db[TheMaster(c)].tables
     THEN /\ Becomes(c, [cli[c] EXCEPT !.at = "slave", !.rows = Count(TheMaster(c), t)])
          /\ UNCHANGED <<cut, mishaps>>
     ELSE Compared(c, t, TRUE) /\ mishaps' = mishaps \cup {"uncounted"}

(* A table the master cannot count is skipped.                             *)
CountMaster(c) ==
  /\ At(c, "master")
  /\ UNCHANGED <<files, engine, bounds>>
  /\ LET t == Counted(c) IN
     IF Reachable(c, TheMaster(c)) /\ t \in db[TheMaster(c)].tables
     THEN /\ Becomes(c, [cli[c] EXCEPT !.at = "slave", !.rows = Count(TheMaster(c), t)])
          /\ UNCHANGED <<cut, mishaps>>
     ELSE Compared(c, t, FALSE) /\ mishaps' = mishaps \cup {"uncounted"}

(* One the standby cannot count has no rows there; except on the way of    *)
(* --path table, which skips it.                                           *)
CountSlave(c) ==
  /\ At(c, "slave")
  /\ UNCHANGED <<files, engine, bounds>>
  /\ LET t == Counted(c)
         there == Reachable(c, TheSlave(c)) /\ t \in db[TheSlave(c)].tables
         rows == IF there THEN Count(TheSlave(c), t) ELSE 0
     IN /\ Compared(c, t, rows # cli[c].rows /\ (there \/ cli[c].judge # "table"))
        /\ mishaps' = IF Reachable(c, TheSlave(c)) THEN mishaps ELSE mishaps \cup {"blind"}

-----------------------------------------------------------------------------
(* RebuildSlave.  An exec fails when --timeout has run out; the engine's   *)
(* own commands, whose exit status is asked for, may fail too.             *)

Quiet == UNCHANGED <<bounds, mishaps>>

Stop(c) ==
  /\ At(c, "stop")
  /\ UNCHANGED <<files, position, said, queue, failed, named>> /\ Quiet
  /\ LET s == TheSlave(c) IN
     \/ Expired(c) /\ Return(c, "error") /\ UNCHANGED <<hb, server>>
     \/ ~Expired(c) /\ Goes(c, "prepare") /\ hb' = [hb EXCEPT ![s] = FALSE] /\ server' = [server EXCEPT ![s] = ""] /\ UNCHANGED cut

Prepare(c) ==
  /\ At(c, "prepare") /\ backup' = [backup EXCEPT ![TheMaster(c)] = Nothing] /\ Goes(c, "backup")
  /\ UNCHANGED <<db, engine, cut>> /\ Quiet
\* Mutant: backupdb's exit status is not looked at.
BackupAnyhow(c) ==
  /\ At(c, "backup")
  /\ UNCHANGED <<db, engine>> /\ Quiet
  /\ LET m == TheMaster(c) IN
     \/ Return(c, "error") /\ UNCHANGED backup
     \/ ~Expired(c) /\ Goes(c, "remove") /\ backup' = [backup EXCEPT ![m].state = "torn"] /\ UNCHANGED cut
     \/ Reachable(c, m) /\ Goes(c, "remove") /\ backup' = [backup EXCEPT ![m] = db[m]] /\ UNCHANGED cut

(* backupdb -C: the master goes on serving.                                *)
Backup(c) ==
  /\ At(c, "backup")
  /\ UNCHANGED <<db, engine>> /\ Quiet
  /\ LET m == TheMaster(c) IN
     \/ Return(c, "error") /\ UNCHANGED backup
     \/ ~Expired(c) /\ Return(c, "error") /\ backup' = [backup EXCEPT ![m].state = "torn"]
     \/ Reachable(c, m) /\ Goes(c, "remove") /\ backup' = [backup EXCEPT ![m] = db[m]] /\ UNCHANGED cut

(* Everything of the old database, in the order of the names: _bkvinf and  *)
(* the archives before _lgat, the volumes after it.                        *)
Remove(c) ==
  /\ At(c, "remove") /\ db' = [db EXCEPT ![TheSlave(c)].state = IF @ = "gone" THEN @ ELSE "torn"] /\ Goes(c, "unlink")
  /\ UNCHANGED <<backup, engine, cut>> /\ Quiet

Unlink(c) ==
  /\ At(c, "unlink") /\ db' = [db EXCEPT ![TheSlave(c)] = Nothing] /\ Goes(c, "fetch")
  /\ UNCHANGED <<backup, engine, cut>> /\ Quiet

Fetch(c) ==
  /\ At(c, "fetch") /\ backup' = [backup EXCEPT ![TheSlave(c)] = backup[TheMaster(c)]] /\ Goes(c, "restore")
  /\ UNCHANGED <<db, engine, cut>> /\ Quiet

(* restoreslave, which records where the applier is to resume: at a page   *)
(* no log of this node has yet.                                            *)
Restore(c) ==
  /\ At(c, "restore")
  /\ LET s == TheSlave(c) IN
     \/ UNCHANGED <<db, position, queue, failed>> /\ Return(c, "error")
     \/ /\ ~Expired(c) /\ backup[s].state # "whole" /\ UNCHANGED <<position, queue, failed>>
        /\ db' = [db EXCEPT ![s].state = "torn"] /\ Return(c, "error")
     \/ /\ ~Expired(c) /\ backup[s].state = "whole" /\ Goes(c, "relog")
        /\ db' = [db EXCEPT ![s] = backup[s]] /\ position' = [position EXCEPT ![s] = "short"]
        /\ queue' = [queue EXCEPT ![s] = db[TheMaster(c)].rows \ backup[s].rows]
        /\ failed' = [failed EXCEPT ![s] = 0] /\ UNCHANGED cut
  /\ UNCHANGED <<backup, server, hb, said, named>> /\ Quiet
\* Mutant: the log is left for copylogdb to create.
RelogNot(c) ==
  /\ At(c, "relog")
  /\ UNCHANGED <<files, server, hb, said, queue, failed, named>> /\ Quiet
  /\ LET s == TheSlave(c)
         Comes(to) == position' = [position EXCEPT ![s] = IF @ = "foreign" THEN @ ELSE to] IN
     \/ Expired(c) /\ Return(c, "error") /\ UNCHANGED position
     \/ ~Expired(c) /\ Return(c, "error") /\ Comes("short")
     \/ /\ Reachable(c, TheMaster(c)) /\ UNCHANGED position
        /\ Becomes(c, [cli[c] EXCEPT !.at = "start", !.then = IF cli[c].verb = "resync" THEN "back" ELSE "rejoined"])
        /\ UNCHANGED cut

(* CopyActiveLog, of the rebuild and of node start: the log the node has   *)
(* is removed first.  A log that reaches does not help a position of       *)
(* another log.                                                            *)
Relog(c) ==
  /\ At(c, "relog")
  /\ UNCHANGED <<files, server, hb, said, queue, failed, named>> /\ Quiet
  /\ LET s == TheSlave(c)
         Comes(to) == position' = [position EXCEPT ![s] = IF @ = "foreign" THEN @ ELSE to] IN
     \/ Expired(c) /\ Return(c, "error") /\ UNCHANGED position
     \/ ~Expired(c) /\ Return(c, "error") /\ Comes("short")
     \/ /\ Reachable(c, TheMaster(c)) /\ Comes("ok")
        /\ Becomes(c, [cli[c] EXCEPT !.at = "start", !.then = IF cli[c].verb = "resync" THEN "back" ELSE "rejoined"])
        /\ UNCHANGED cut

(* A full service stop, and heartbeat start; of a node without a database  *)
(* that comes to nothing, and its exit status is not looked at.            *)
Start(c) ==
  /\ At(c, "start")
  /\ UNCHANGED <<files, position, said, queue, failed, named>> /\ Quiet
  /\ LET s == TheSlave(c) IN
     \/ Expired(c) /\ Return(c, "error") /\ UNCHANGED <<hb, server>>
     \/ /\ ~Expired(c) /\ Becomes(c, Waiting(cli[c], cli[c].then)) /\ UNCHANGED cut
        /\ hb' = [hb EXCEPT ![s] = TRUE] /\ server' = [server EXCEPT ![s] = ""]

-----------------------------------------------------------------------------
(* The waits: of a rebuild, for the standby and for its applier; of node   *)
(* start, for the node, and once more when its log has been copied again.  *)

Looks(c, me) == Becomes(c, me) /\ UNCHANGED cut
SlaveSeen(c) == cli[c].seen[TheSlave(c)]
\* Mutant: the wait looks at no clock.
BackForEver(c) ==
  /\ Read(c, "back")
  /\ UNCHANGED <<files, engine>> /\ Quiet
  /\ \/ SlaveSeen(c).server = "standby" /\ Looks(c, Waiting(cli[c], "drain"))
     \/ FALSE /\ Return(c, "timeout")
     \/ SlaveSeen(c).server # "standby" /\ Looks(c, Reading(cli[c], "back"))

Back(c) ==
  /\ Read(c, "back")
  /\ UNCHANGED <<files, engine>> /\ Quiet
  /\ \/ SlaveSeen(c).server = "standby" /\ Looks(c, Waiting(cli[c], "drain"))
     \/ SlaveSeen(c).server # "standby" /\ GivesUp(c) /\ Return(c, "timeout")
     \/ SlaveSeen(c).server # "standby" /\ ~GivesUp(c) /\ Looks(c, Reading(cli[c], "back"))

(* A node that cannot be read is not behind.                               *)
Drain(c) ==
  /\ Read(c, "drain")
  /\ \/ (SlaveSeen(c).behind => GivesUp(c)) /\ Looks(c, Comparing(cli[c], "rebuilt"))
     \/ SlaveSeen(c).behind /\ ~GivesUp(c) /\ Looks(c, Reading(cli[c], "drain"))
  /\ UNCHANGED <<files, engine>> /\ Quiet

Resolved(c) ==
  /\ Read(c, "resolve")
  /\ UNCHANGED <<files, engine>> /\ Quiet
  /\ LET masters == seen(c, "active") IN
     \/ (Cardinality(masters) # 1 \/ masters = {TheSlave(c)}) /\ Return(c, "started")
     \/ /\ Cardinality(masters) = 1 /\ masters # {TheSlave(c)}
        /\ Looks(c, [Waiting(cli[c], "joined") EXCEPT !.master = LastOf(masters)])

(* ApplierLogShort looks for a line in a log that nobody empties.          *)
Joined(c) ==
  /\ Read(c, "joined")
  /\ UNCHANGED <<files, engine>> /\ Quiet
  /\ LET there == SlaveSeen(c).server # ""
         short == ~there /\ ~Expired(c) /\ TheSlave(c) \in said IN
     \/ there /\ Return(c, "started")
     \/ short /\ Looks(c, [cli[c] EXCEPT !.at = "relog", !.seen = Fresh.seen])
     \/ ~there /\ ~short /\ GivesUp(c) /\ Return(c, "started")
     \/ ~there /\ ~short /\ ~GivesUp(c) /\ Looks(c, Reading(cli[c], "joined"))

Rejoined(c) ==
  /\ Read(c, "rejoined")
  /\ UNCHANGED <<files, engine>> /\ Quiet
  /\ LET there == SlaveSeen(c).server # "" IN
     \/ there /\ Return(c, "rejoined")
     \/ ~there /\ GivesUp(c) /\ Return(c, "needs_rebuild")
     \/ ~there /\ ~GivesUp(c) /\ Looks(c, Reading(cli[c], "rejoined"))

-----------------------------------------------------------------------------
(* cluster up, on a cluster that has been built.                           *)

CreateDB(c) ==
  /\ At(c, "createdb")
  /\ \/ HasLgat(Created) /\ Goes(c, "seed") /\ UNCHANGED <<db, cut>>
     \/ ~HasLgat(Created) /\ Expired(c) /\ UNCHANGED db /\ Return(c, "error")
     \/ /\ ~HasLgat(Created) /\ ~Expired(c) /\ Goes(c, "seed") /\ UNCHANGED cut
        /\ db' = [db EXCEPT ![Created] = [Nothing EXCEPT !.state = "fresh"]]
  /\ UNCHANGED <<backup, engine>> /\ Quiet

(* The volumes of node 1, copied file by file: torn if its server writes   *)
(* to them meanwhile.                                                      *)
Copied == IF server[Created] = "" THEN db[Created] ELSE [db[Created] EXCEPT !.state = "torn"]
\* Mutant: every up seeds the standbys again.
SeededAlways(n) == n # Created
Seeded(n) == n # Created /\ ~HasLgat(n)

Seed(c) ==
  /\ At(c, "seed")
  /\ db' = [n \in DBNodes |-> IF Seeded(n) THEN Copied ELSE db[n]]
  /\ position' = [n \in DBNodes |-> IF Seeded(n) THEN "ok" ELSE position[n]]
  /\ Goes(c, "group") /\ UNCHANGED <<backup, server, hb, said, queue, failed, named, cut>> /\ Quiet

StartGroup(c) ==
  /\ At(c, "group")
  /\ UNCHANGED <<files, server, position, said, queue, failed, named>> /\ Quiet
  /\ \/ Expired(c) /\ Return(c, "error") /\ UNCHANGED hb
     \/ ~Expired(c) /\ hb' = [n \in DBNodes |-> TRUE] /\ Return(c, "up")

-----------------------------------------------------------------------------
(* Time, and the processes' end.                                           *)

Late(c) ==
  /\ At(c, "read") /\ cli[c].then \in {"back", "drain", "joined", "rejoined"} /\ ~cli[c].late
  /\ Becomes(c, [cli[c] EXCEPT !.late = TRUE]) /\ UNCHANGED <<files, engine, cut>> /\ Quiet

Expire(c) ==
  /\ Busy(c) /\ ~Expired(c) /\ Becomes(c, [cli[c] EXCEPT !.expired = TRUE]) /\ UNCHANGED <<files, engine, cut>> /\ Quiet

Kill(c) == Busy(c) /\ UNCHANGED <<files, engine>> /\ Return(c, "none") /\ Quiet

-----------------------------------------------------------------------------
(* External: the engine, and those who write.                              *)

Comparison == \E c \in Clients : cli[c].at \in {"master", "slave"}
Disturbs == mishaps' = IF Comparison THEN mishaps \cup {"unsettled"} ELSE mishaps

(* A row that is inserted goes the way of replication to who is no master. *)
Write(n) ==
  /\ server[n] = "active"
  /\ \E w \in Writes \ db[n].rows :
       /\ w[1] \in db[n].tables
       /\ db' = [db EXCEPT ![n].rows = @ \cup {w}]
       /\ queue' = [m \in DBNodes |-> IF m # n /\ server[m] # "active" THEN queue[m] \cup {w} ELSE queue[m]]
  /\ Disturbs /\ UNCHANGED <<backup, server, hb, position, said, failed, named, cli, bounds, cut>>

Apply(n) ==
  /\ server[n] = "standby" /\ \E w \in queue[n] : w[1] \in db[n].tables /\ db' = [db EXCEPT ![n].rows = @ \cup {w}]
                                                  /\ queue' = [queue EXCEPT ![n] = @ \ {w}]
  /\ Disturbs /\ UNCHANGED <<backup, server, hb, position, said, failed, named, cli, bounds, cut>>

(* A row that cannot be applied is counted, named and passed over.         *)
Misapply(n) ==
  /\ server[n] = "standby"
  /\ \E w \in queue[n] : queue' = [queue EXCEPT ![n] = @ \ {w}] /\ named' = [named EXCEPT ![n] = @ \cup {w[1]}]
  /\ failed' = [failed EXCEPT ![n] = IF @ = 0 THEN 1 ELSE @]
  /\ Disturbs /\ UNCHANGED <<files, server, hb, position, said, cli, bounds, cut>>

Active(n) == server[n] = "active"
Joins(n) == hb[n] /\ server[n] = "" /\ HasLgat(n) /\ position[n] = "ok" /\ \E m \in DBNodes : Active(m)
Join(n) == Joins(n) /\ server' = [server EXCEPT ![n] = "standby"]
           /\ UNCHANGED <<files, hb, position, said, queue, failed, named, cli, bounds, cut, mishaps>>

(* An applier that finds its log short says so, and goes.                  *)
Complain(n) ==
  /\ hb[n] /\ server[n] = "" /\ HasLgat(n) /\ position[n] = "short" /\ n \notin said /\ said' = said \cup {n}
  /\ UNCHANGED <<files, server, hb, position, queue, failed, named, cli, bounds, cut, mishaps>>

Event == events < MaxEvents /\ events' = events + 1 /\ mishaps' = mishaps \cup {"moved"}

(* A server that falls, and that may come back to a log it does not match. *)
Fall(n) ==
  /\ Event /\ server[n] # "" /\ server' = [server EXCEPT ![n] = ""]
  /\ \E p \in {"ok", "short", "foreign"} : position' = [position EXCEPT ![n] = p]
  /\ UNCHANGED <<files, hb, said, queue, failed, named, cli, commands, cut>>

(* With no master one of the others becomes it; what has not reached it is *)
(* lost to it, and what it does not have nobody brings to the others.      *)
Elect(n) ==
  /\ hb[n] /\ HasLgat(n) /\ \A m \in DBNodes : ~Active(m)
  /\ server' = [server EXCEPT ![n] = "active"] /\ queue' = [m \in DBNodes |-> IF m = n THEN {} ELSE queue[m] \cap db[n].rows]
  /\ mishaps' = mishaps \cup {"moved"}
  /\ UNCHANGED <<files, hb, position, said, failed, named, cli, bounds, cut>>

-----------------------------------------------------------------------------
Rebuilds(c) ==
  \/ Stop(c) \/ Prepare(c) \/ Backup(c) \/ Remove(c) \/ Unlink(c) \/ Fetch(c)
  \/ Restore(c) \/ Relog(c) \/ Start(c) \/ Back(c) \/ Drain(c)
Step(c) ==
  \/ ReadNode(c) \/ Choose(c) \/ List(c) \/ CountMaster(c) \/ CountSlave(c) \/ Rebuilds(c)
  \/ Resolved(c) \/ Joined(c) \/ Rejoined(c) \/ CreateDB(c) \/ Seed(c) \/ StartGroup(c)

Next ==
  \/ \E c \in Clients : Begin(c) \/ Step(c) \/ Late(c) \/ Expire(c) \/ Kill(c)
  \/ \E n \in DBNodes : Write(n) \/ Apply(n) \/ Misapply(n) \/ Join(n) \/ Complain(n) \/ Fall(n) \/ Elect(n)

Spec == Init /\ [][Next]_vars

(* A process that is there goes on, its waits run out, and a node that can *)
(* join does: heartbeat tries until it is stopped.                         *)
LiveSpec ==
  /\ Spec /\ \A c \in Clients : WF_vars(Step(c)) /\ WF_vars(Late(c))
  /\ \A n \in DBNodes : WF_vars(Join(n))

-----------------------------------------------------------------------------
Alone == "overlapped" \notin mishaps

(* No node serves a database that is torn, or createdb's empty one in the  *)
(* place of the group's, as long as no command has been cut off between    *)
(* the removal of a database and its restoring (rebuild.go:69-112).        *)
ServedWhole == ~cut /\ Alone => \A n \in DBNodes : server[n] # "" => db[n].state = "whole"

(* The database of a slave is touched only when a whole backup of its      *)
(* master has all the rows the two had in common (rebuild.go:44-72).       *)
KeepsUntilBackup ==
  [][Alone /\ "moved" \notin mishaps => \A n \in DBNodes : db[n].state = "whole" /\ db'[n].state # "whole" =>
        \E c \in Clients : LET b == backup[cli[c].master] IN
          cli[c].slave = n /\ (db[cli[c].master].state = "whole" => b.state = "whole") /\ db[n].rows \cap db[cli[c].master].rows \subseteq b.rows \cup queue[n]]_vars

Answers(c, outcome) == cli[c].outcome # outcome /\ cli'[c].outcome = outcome
Pair(c) == <<db[cli[c].master], db[cli[c].slave]>>

OnlyMaster(m) == \A n \in DBNodes : Active(n) => n = m

(* `rebuilt`, when roles kept still and no row moved while the tables were *)
(* counted: the two have the same rows, unless a second master fed the     *)
(* node others in their place (inspect.go:1243-1250).                      *)
RebuiltIsTrue ==
  [][\A c \in Clients : Answers(c, "rebuilt") /\ mishaps' = {} /\ OnlyMaster(cli[c].master)
       => Pair(c)[1].rows = Pair(c)[2].rows]_vars

(* A comparison sends a node to be rebuilt only if the two differ, when    *)
(* its tables were counted, and no row moved: a table that the master      *)
(* cannot count is no reason (diff.go:104-122).                            *)
RebuiltForCause ==
  [][\A c \in Clients : /\ cli[c].at \in {"list", "master", "slave"} /\ cli'[c].at = "stop"
                        /\ mishaps' \subseteq {"moved", "uncounted"}
       => Pair(c)[1].rows # Pair(c)[2].rows]_vars

(* No command hangs: every wait has its deadline.                          *)
ResyncEnds == \A c \in Clients : Busy(c) ~> ~Busy(c)

(* A node that was rebuilt joins its master, unless roles move or somebody *)
(* stops it (rebuild.go:116-148: the log is copied before the start).      *)
WaitsForSlave(n) == \E c \in Clients : cli[c].slave = n /\ cli[c].at = "read" /\ cli[c].then = "back"
RebuiltJoins ==
  \A n \in DBNodes : WaitsForSlave(n) /\ Alone ~> (server[n] # "" \/ ~hb[n] \/ "moved" \in mishaps)
=============================================================================
