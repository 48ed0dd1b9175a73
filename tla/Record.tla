------------------------------- MODULE Record -------------------------------
(***************************************************************************)
(* The run record (internal/record): a timeline the tool's own commands    *)
(* and the engine's logs are appended to, the offsets that say how far     *)
(* each log has been read, the artifact kept as it stood when the record   *)
(* opened, and the document an export builds.                              *)
(*                                                                         *)
(* A log is a sequence of lines, two for each thing the engine says: one   *)
(* with the time, one with the words.  A line is two bytes, its text and   *)
(* its newline, so an offset is always a number of lines, and a log whose  *)
(* last line is still open is one byte short of what reading it counts.    *)
(***************************************************************************)
EXTENDS Naturals, Sequences, FiniteSets

CONSTANTS Names,      \* clusters
          Nodes,      \* node names, each with a master log
          Processes,  \* csb processes
          Results,    \* how a failover can end, "Success" among them
          MaxSaid,    \* bound: things the engines say
          MaxTime     \* bound: ticks of the clock

ASSUME RecordAssumption == "Success" \in Results /\ MaxSaid \in Nat /\ MaxTime \in Nat

VARIABLES now,       \* the clock, which tool and engine share
          said,      \* how much the engines have said: numbers its lines
          record,    \* record.jsonl, in append order
          offsets,   \* harvest-offsets.json
          log,       \* each node's *_master.err
          reader,    \* a harvest under way in a process
          spoilt     \* bookkeeping: what has happened to a record's harvests

recordVars == <<now, said, record, offsets, log, reader, spoilt>>

None == "none"
Nil == [is |-> FALSE]
Just(v) == [is |-> TRUE, v |-> v]
Idle == [at |-> "idle"]
Unread == [x \in Nodes |-> [read |-> 0, of |-> 0]]
EmptyLog == [lines |-> <<>>, open |-> FALSE, file |-> 0]
ToolEntry == [time |-> now, real |-> now, actor |-> "tool", id |-> 0, result |-> None]

RecordInit ==
  /\ now = 0 /\ said = 0
  /\ record = [n \in Names |-> <<>>]
  /\ offsets = [n \in Names |-> Unread]
  /\ log = [x \in Nodes |-> EmptyLog]
  /\ reader = [p \in Processes |-> Idle]
  /\ spoilt = [n \in Names |-> {}]

-----------------------------------------------------------------------------
(* The clock and the engines.                                              *)

Tick == now < MaxTime /\ now' = now + 1 /\ UNCHANGED <<said, record, offsets, log, reader, spoilt>>

Lines(x) == log[x].lines
Pending(x) == Lines(x) # <<>> /\ Lines(x)[Len(Lines(x))].kind = "time"
Write(x, line, open) ==
  log' = [log EXCEPT ![x].lines = Append(@, line), ![x].open = open]

\* The engine writes the time, then the words, then the newline.
Stamp(x) ==
  /\ said < MaxSaid /\ ~log[x].open /\ ~Pending(x)
  /\ said' = said + 1
  /\ Write(x, [kind |-> "time", id |-> said', real |-> now, result |-> None], FALSE)
  /\ UNCHANGED <<now, record, offsets, reader, spoilt>>
Words(x) ==
  /\ Pending(x)
  /\ LET head == Lines(x)[Len(Lines(x))]
     IN \E r \in Results : Write(x, [head EXCEPT !.kind = "ha", !.result = r], TRUE)
  /\ UNCHANGED <<now, said, record, offsets, reader, spoilt>>
Newline(x) ==
  /\ log[x].open /\ log' = [log EXCEPT ![x].open = FALSE]
  /\ UNCHANGED <<now, said, record, offsets, reader, spoilt>>

\* A file is put out of the way, renamed or removed: the next is a new one, and
\* a harvest that has the old one open reads that one to its end.
NewFile(l) == [EmptyLog EXCEPT !.file = l.file + 1]
Reads(p, x) == reader[p].at = "scan" /\ reader[p].left[1] = x
Moved(p, X) == (\E x \in X : Reads(p, x)) /\ ~reader[p].held.is
Unlink(X) ==
  /\ log' = [x \in Nodes |-> IF x \in X THEN NewFile(log[x]) ELSE log[x]]
  /\ reader' = [p \in Processes |->
                  IF Moved(p, X) THEN [reader[p] EXCEPT !.held = Just(log[reader[p].left[1]])]
                  ELSE reader[p]]

\* The engine starts a new file.
Rotate(x) ==
  /\ Lines(x) # <<>> /\ ~log[x].open /\ ~Pending(x)
  /\ Unlink({x})
  /\ UNCHANGED <<now, said, record, offsets, spoilt>>

-----------------------------------------------------------------------------
(* Appending, and reading the timeline back.                               *)

\* RFC3339Nano drops a fraction's trailing zeros, and the Z that follows the
\* shorter fraction is greater than any digit: of two times with a prefix in
\* common, the even and the odd that follows, the later is spelled smaller.
Spelled(t) == 2 * (t \div 2) + 1 - (t % 2)

\* As a bug: the file's order is taken for the time's.
ReadAppended(s) == s
\* sort.SliceStable on the spelling.
Before(s, i, j) ==
  \/ Spelled(s[i].time) < Spelled(s[j].time)
  \/ Spelled(s[i].time) = Spelled(s[j].time) /\ i < j
Read(s) ==
  [k \in DOMAIN s |->
     s[CHOOSE i \in DOMAIN s : Cardinality({j \in DOMAIN s : Before(s, j, i)}) = k - 1]]

\* The most recent thing the tool did, if it is not after the engine's line.
ToolsBefore(s, i) == {j \in 1..(i - 1) : s[j].actor = "tool"}
Trigger(s, i) ==
  IF ToolsBefore(s, i) = {} THEN Nil
  ELSE LET j == CHOOSE j \in ToolsBefore(s, i) : \A k \in ToolsBefore(s, i) : k <= j
       IN IF s[j].time <= s[i].time THEN Just(s[j].time) ELSE Nil

\* record export: the timeline and every role change the engine made.
Build(s, describe) ==
  LET sorted == Read(s)
  IN [describe |-> describe,
      changes |-> {[id |-> sorted[i].id, real |-> sorted[i].real, trigger |-> Trigger(sorted, i)] :
                     i \in {i \in DOMAIN sorted : sorted[i].result = "Success"}}]

-----------------------------------------------------------------------------
(* Harvesting the logs of a cluster's nodes.                               *)

Harvesting(p) == reader[p].at # "idle"
Spoil(n, how) == spoilt' = [spoilt EXCEPT ![n] = @ \cup how]

\* The offsets are read once, at the start.
LoadOffsets(p, n, nodes) ==
  /\ reader' = [reader EXCEPT ![p] =
        [at |-> "open", n |-> n, left |-> nodes, off |-> offsets[n], line |-> 0, last |-> Nil, held |-> Nil]]
  /\ Spoil(n, IF \E q \in Processes : Harvesting(q) /\ reader[q].n = n
              THEN {"overlapped"} ELSE {})
  /\ UNCHANGED <<now, said, record, offsets, log>>

\* A log shorter than what was read of it is a new one, read from its start.
Size(x) == 2 * Len(Lines(x)) - (IF log[x].open THEN 1 ELSE 0)
StartOver(x, o) == IF Size(x) <= 2 * o.read THEN 0 ELSE o.read  \* as a bug: one past
Start(x, o) == IF Size(x) < 2 * o.read THEN 0 ELSE o.read

OpenFile(p) ==
  LET r == reader[p]
      x == r.left[1]
      o == r.off[x]
      start == Start(x, o)
      other == o.of # log[x].file
      shorter == Size(x) < 2 * o.read
  IN /\ r.at = "open" /\ r.left # <<>>
     /\ reader' = [reader EXCEPT ![p].at = "scan", ![p].line = start, ![p].last = Nil, ![p].held = Nil]
     /\ Spoil(r.n, (IF other /\ o.read > 0 /\ ~shorter THEN {"outgrown"} ELSE {})
                   \cup (IF ~other /\ shorter THEN {"unended"} ELSE {}))
     /\ UNCHANGED <<now, said, record, offsets, log>>

\* A node that has no log is passed over, its offset as it was.
NoFile(p) ==
  LET r == reader[p]
  IN /\ r.at = "open" /\ r.left # <<>> /\ Lines(r.left[1]) = <<>>
     /\ reader' = [reader EXCEPT ![p].left = Tail(@)]
     /\ UNCHANGED <<now, said, record, offsets, log, spoilt>>
AllRead(p) ==
  /\ reader[p].at = "open" /\ reader[p].left = <<>>
  /\ reader' = [reader EXCEPT ![p].at = "save"]
  /\ UNCHANGED <<now, said, record, offsets, log, spoilt>>

InHand(p) == IF reader[p].held.is THEN reader[p].held.v ELSE log[reader[p].left[1]]
AtEnd(p) == reader[p].line >= Len(InHand(p).lines)

\* A line with the time is remembered; one with the words is an entry, at the
\* engine's time, or at this one when the line before it was not read.
EngineEntry(line, last) ==
  [time |-> IF last.is THEN last.v ELSE now, real |-> line.real, actor |-> "engine",
   id |-> line.id, result |-> line.result]
ReadLine(p) ==
  LET r == reader[p]
      line == InHand(p).lines[r.line + 1]
  IN /\ r.at = "scan" /\ ~AtEnd(p)
     /\ IF line.kind = "time"
        THEN /\ reader' = [reader EXCEPT ![p].line = @ + 1, ![p].last = Just(line.real)]
             /\ UNCHANGED <<record, spoilt>>
        ELSE /\ reader' = [reader EXCEPT ![p].line = @ + 1]
             /\ record' = [record EXCEPT ![r.n] = Append(@, EngineEntry(line, r.last))]
             /\ Spoil(r.n, IF r.last.is THEN {} ELSE {"headless"})
     /\ UNCHANGED <<now, said, offsets, log>>

\* The end of a log: what was read of it, a newline counted for every line.
CountedPast(r) == r.line + 1                                   \* as a bug
Counted(r) == r.line
EndOfFile(p) ==
  LET r == reader[p]
      x == r.left[1]
  IN /\ r.at = "scan" /\ AtEnd(p)
     /\ reader' = [reader EXCEPT ![p].at = "open", ![p].left = Tail(@),
                                 ![p].off[x] = [read |-> Counted(r), of |-> InHand(p).file],
                                 ![p].held = Nil]
     /\ UNCHANGED <<now, said, record, offsets, log, spoilt>>

\* What was read is saved beside the record, if its directory is still there.
LoseOffsets(p) ==
  /\ reader[p].at = "save"
  /\ reader' = [reader EXCEPT ![p] = Idle]
  /\ UNCHANGED <<now, said, record, offsets, log, spoilt>>
SaveOffsets(p) ==
  /\ reader[p].at = "save"
  /\ offsets' = [offsets EXCEPT ![reader[p].n] = reader[p].off]
  /\ reader' = [reader EXCEPT ![p] = Idle]
  /\ UNCHANGED <<now, said, record, log, spoilt>>

\* An entry that cannot be appended, or a process that is killed: what was
\* appended stays, what was read is not saved.
DropHarvest(p) ==
  /\ Harvesting(p)
  /\ reader' = [reader EXCEPT ![p] = Idle]
  /\ Spoil(reader[p].n, {"cut"})
  /\ UNCHANGED <<now, said, record, offsets, log>>
AppendFails(p) == reader[p].at = "scan" /\ ~AtEnd(p) /\ DropHarvest(p)

-----------------------------------------------------------------------------
(* What a harvest promises.                                                *)

IdsIn(n) == {record[n][i].id : i \in {i \in DOMAIN record[n] : record[n][i].actor = "engine"}}

(* "Harvesting twice does not record the same line twice": one thing the    *)
(* engine said is one entry, unless a harvest of the record was cut off     *)
(* before it saved its offsets, two ran at once, or one read a line whose   *)
(* newline was still to come.                                               *)
HarvestedOnce ==
  \A n \in Names :
    spoilt[n] \cap {"cut", "overlapped", "unended"} = {} =>
      \A i, j \in DOMAIN record[n] :
        record[n][i].actor = "engine" /\ record[n][i].id = record[n][j].id => i = j

(* What the saved offset of a log covers is in the record: no line is      *)
(* counted as read that was not recorded, unless a new log had grown past   *)
(* what had been read of the old one before it was looked at again, or the  *)
(* record was purged under a harvest that then saved what it had read.      *)
NothingSkipped ==
  \A n \in Names, x \in Nodes :
    offsets[n][x].of = log[x].file /\ spoilt[n] \cap {"outgrown", "purged"} = {} =>
      \A i \in DOMAIN Lines(x) :
        i <= offsets[n][x].read /\ Lines(x)[i].kind = "ha" => Lines(x)[i].id \in IdsIn(n)
=============================================================================
