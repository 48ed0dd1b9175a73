---------------------------- MODULE RecordProofs ----------------------------
(***************************************************************************)
(* What holds of the run record whatever its readers, its writers and the  *)
(* engines do, for every set of clusters, nodes and processes: each step   *)
(* of Record keeps RecordInv, from which nothing is recorded twice and     *)
(* nothing is passed over.  A behaviour of these steps is one of Lifecycle,*)
(* so that the theorems are in LifecycleProofs.                            *)
(***************************************************************************)
EXTENDS Record, Integers, TLAPS

-----------------------------------------------------------------------------
(* The record's state.                                                     *)

LogLine == [kind : {"time", "ha"}, id : Nat \ {0}, real : Nat, result : Results \cup {None}]
Log == [lines : Seq(LogLine), open : BOOLEAN, file : Nat]
Entry == [time : Nat, real : Nat, actor : {"tool", "engine"}, id : Nat, result : Results \cup {None}]
Offsets == [Nodes -> [read : Nat, of : Nat]]
Maybe(S) == {Nil} \cup [is : {TRUE}, v : S]
Spoils == {"cut", "overlapped", "unended", "outgrown", "headless", "purged"}
Reader == [at : {"open", "scan", "save"}, n : Names, left : Seq(Nodes), off : Offsets,
           line : Nat, last : Maybe(Nat), held : Maybe(Log)]

RTypes ==
  /\ now \in Nat /\ said \in Nat
  /\ record \in [Names -> Seq(Entry)]
  /\ offsets \in [Names -> Offsets]
  /\ log \in [Nodes -> Log]
  /\ reader \in [Processes -> {Idle} \cup Reader]
  /\ \A p \in Processes : reader[p].at = "scan" => reader[p].left # <<>>
  /\ spoilt \in [Names -> SUBSET Spoils]

\* What is typed gives what is used of it.
LEMMA ReaderIs ==
  ASSUME RTypes, NEW p \in Processes, Harvesting(p)
  PROVE  /\ reader[p] \in Reader
         /\ reader[p].n \in Names /\ reader[p].left \in Seq(Nodes) /\ reader[p].off \in Offsets
         /\ reader[p].line \in Nat /\ reader[p].held \in Maybe(Log) /\ reader[p].last \in Maybe(Nat)
         /\ reader[p].at \in {"open", "scan", "save"}
  <1>1. reader[p] \in {Idle} \cup Reader
    BY DEF RTypes
  <1>2. reader[p] # Idle
    BY DEF Harvesting, Idle
  <1> QED BY <1>1, <1>2 DEF Reader

LEMMA OfIs ==
  ASSUME RTypes, NEW p \in Processes, (reader[p].at = "open" /\ reader[p].left # <<>>) \/ reader[p].at = "scan"
  PROVE  /\ Harvesting(p) /\ reader[p].left[1] \in Nodes /\ Tail(reader[p].left) \in Seq(Nodes)
         /\ reader[p].left # <<>>
  <1>1. Harvesting(p) /\ reader[p].left # <<>>
    BY DEF Harvesting, RTypes
  <1>2. reader[p].left \in Seq(Nodes)
    BY <1>1, ReaderIs
  <1> QED BY <1>1, <1>2

LEMMA HandIs ==
  ASSUME RTypes, NEW p \in Processes, reader[p].at = "scan"
  PROVE  /\ InHand(p) \in Log /\ InHand(p).lines \in Seq(LogLine) /\ InHand(p).file \in Nat
  <1>1. Harvesting(p) /\ reader[p].left[1] \in Nodes
    BY OfIs
  <1>2. reader[p].held \in Maybe(Log)
    BY <1>1, ReaderIs
  <1>3. CASE reader[p].held.is
    <2>1. reader[p].held.v \in Log
      <3>1. reader[p].held # Nil
        BY <1>3 DEF Nil
      <3> QED BY <1>2, <3>1 DEF Maybe
    <2> QED BY <1>3, <2>1 DEF InHand, Log
  <1>4. CASE ~reader[p].held.is
    <2>1. log[reader[p].left[1]] \in Log
      BY <1>1 DEF RTypes
    <2> QED BY <1>4, <2>1 DEF InHand, Log
  <1> QED BY <1>3, <1>4

\* One reader changes: to a reader, or to none.
LEMMA ReaderTypes ==
  ASSUME RTypes, NEW p \in Processes, NEW r \in {Idle} \cup Reader,
         r.at = "scan" => r.left # <<>>,
         reader' = [reader EXCEPT ![p] = r],
         now' = now, said' = said, record' \in [Names -> Seq(Entry)], offsets' \in [Names -> Offsets],
         log' = log, spoilt' \in [Names -> SUBSET Spoils]
  PROVE  RTypes'
  BY DEF RTypes

LEMMA SpoilTypes ==
  ASSUME RTypes, NEW n, NEW how \in SUBSET Spoils,
         Spoil(n, how)
  PROVE  spoilt' \in [Names -> SUBSET Spoils]
  BY DEF RTypes, Spoil

LEMMA LoadTypes ==
  ASSUME RTypes, NEW p \in Processes, NEW n \in Names, NEW nodes \in Seq(Nodes), LoadOffsets(p, n, nodes)
  PROVE  RTypes'
  <1> DEFINE r == [at |-> "open", n |-> n, left |-> nodes, off |-> offsets[n], line |-> 0, last |-> Nil, held |-> Nil]
  <1>1. reader' = [reader EXCEPT ![p] = r] /\ UNCHANGED <<now, said, record, offsets, log>>
    BY DEF LoadOffsets
  <1>2. r \in Reader
    BY DEF RTypes, Reader, Maybe
  <1>3. r.at # "scan"
    OBVIOUS
  <1>4. spoilt' \in [Names -> SUBSET Spoils]
    <2>1. PICK how \in SUBSET Spoils : Spoil(n, how)
      BY DEF LoadOffsets, Spoils
    <2> QED BY <2>1, SpoilTypes
  <1> HIDE DEF r
  <1> QED BY <1>1, <1>2, <1>3, <1>4, ReaderTypes DEF RTypes

LEMMA OpenTypes ==
  ASSUME RTypes, NEW p \in Processes, OpenFile(p)
  PROVE  RTypes'
  <1> DEFINE x == reader[p].left[1]
             start == Start(x, reader[p].off[x])
             r == [reader[p] EXCEPT !.at = "scan", !.line = start, !.last = Nil, !.held = Nil]
  <1>1. /\ reader' = [reader EXCEPT ![p] = r] /\ UNCHANGED <<now, said, record, offsets, log>>
        /\ reader[p].at = "open" /\ reader[p].left # <<>>
        /\ \E how \in SUBSET Spoils : Spoil(reader[p].n, how)
    BY DEF OpenFile, Spoils
  <1>2. /\ x \in Nodes /\ Harvesting(p)
    BY <1>1, OfIs
  <1>3. reader[p] \in Reader /\ reader[p].off \in Offsets
    BY <1>2, ReaderIs
  <1>4. start \in Nat
    BY <1>2, <1>3 DEF Start, Offsets
  <1> HIDE DEF start
  <1>5. r \in Reader /\ r.left = reader[p].left
    BY <1>3, <1>4 DEF Reader, Maybe
  <1> HIDE DEF r
  <1>6. spoilt' \in [Names -> SUBSET Spoils]
    BY <1>1, SpoilTypes
  <1> QED BY <1>1, <1>5, <1>6, ReaderTypes DEF RTypes

LEMMA PassTypes ==
  ASSUME RTypes, NEW p \in Processes, NoFile(p) \/ AllRead(p)
  PROVE  RTypes'
  <1>1. CASE NoFile(p)
    <2> DEFINE r == [reader[p] EXCEPT !.left = Tail(reader[p].left)]
    <2>1. /\ reader' = [reader EXCEPT ![p] = r] /\ UNCHANGED <<now, said, record, offsets, log, spoilt>>
          /\ reader[p].at = "open" /\ reader[p].left # <<>>
      BY <1>1 DEF NoFile
    <2>2. Harvesting(p) /\ Tail(reader[p].left) \in Seq(Nodes)
      BY <2>1, OfIs
    <2>3. reader[p] \in Reader
      BY <2>2, ReaderIs
    <2>4. r \in Reader /\ r.at = "open"
      BY <2>1, <2>2, <2>3 DEF Reader
    <2> HIDE DEF r
    <2> QED BY <2>1, <2>4, ReaderTypes DEF RTypes
  <1>2. CASE AllRead(p)
    <2> DEFINE r == [reader[p] EXCEPT !.at = "save"]
    <2>1. /\ reader' = [reader EXCEPT ![p] = r] /\ UNCHANGED <<now, said, record, offsets, log, spoilt>>
          /\ Harvesting(p)
      BY <1>2 DEF AllRead, Harvesting
    <2>2. reader[p] \in Reader
      BY <2>1, ReaderIs
    <2>3. r \in Reader /\ r.at = "save"
      BY <2>2 DEF Reader
    <2> HIDE DEF r
    <2> QED BY <2>1, <2>3, ReaderTypes DEF RTypes
  <1> QED BY <1>1, <1>2

\* The line that is read next, and the entry that words become.
LEMMA NextLine ==
  ASSUME RTypes, NEW p \in Processes, reader[p].at = "scan", ~AtEnd(p)
  PROVE  LET r == reader[p]
             line == InHand(p).lines[r.line + 1]
         IN /\ r.line + 1 \in DOMAIN InHand(p).lines /\ line \in LogLine
            /\ EngineEntry(line, r.last) \in Entry
            /\ EngineEntry(line, r.last).id = line.id /\ EngineEntry(line, r.last).actor = "engine"
  <1> DEFINE r == reader[p]
             s == InHand(p).lines
             line == s[r.line + 1]
  <1>1. Harvesting(p)
    BY DEF Harvesting
  <1>2. r.line \in Nat /\ r.last \in Maybe(Nat)
    BY <1>1, ReaderIs
  <1>3. s \in Seq(LogLine)
    BY HandIs
  <1>4. r.line < Len(s)
    BY <1>2, <1>3 DEF AtEnd
  <1>5. r.line + 1 \in DOMAIN s /\ line \in LogLine
    BY <1>2, <1>3, <1>4
  <1>6. now \in Nat
    BY DEF RTypes
  <1>7. (IF r.last.is THEN r.last.v ELSE now) \in Nat
    <2>1. r.last.is => r.last # Nil
      BY DEF Nil
    <2> QED BY <1>2, <1>6, <2>1 DEF Maybe
  <1> HIDE DEF line, r, s
  <1>8. /\ EngineEntry(line, r.last) \in Entry
        /\ EngineEntry(line, r.last).id = line.id /\ EngineEntry(line, r.last).actor = "engine"
    BY <1>5, <1>7 DEF EngineEntry, Entry, LogLine
  <1> QED BY <1>5, <1>8 DEF line, r, s

LEMMA LineTypes ==
  ASSUME RTypes, NEW p \in Processes, ReadLine(p)
  PROVE  RTypes'
  <1> DEFINE line == InHand(p).lines[reader[p].line + 1]
             last == Just(line.real)
             r1 == [reader[p] EXCEPT !.line = reader[p].line + 1, !.last = last]
             r2 == [reader[p] EXCEPT !.line = reader[p].line + 1]
             e == EngineEntry(line, reader[p].last)
  <1>1. /\ reader[p].at = "scan" /\ ~AtEnd(p)
        /\ \/ reader' = [reader EXCEPT ![p] = r1] /\ UNCHANGED <<record, spoilt>>
           \/ /\ reader' = [reader EXCEPT ![p] = r2] /\ record' = [record EXCEPT ![reader[p].n] = Append(@, e)]
              /\ \E how \in SUBSET Spoils : Spoil(reader[p].n, how)
        /\ UNCHANGED <<now, said, offsets, log>>
    BY DEF ReadLine, Spoils
  <1>2. Harvesting(p)
    BY <1>1 DEF Harvesting
  <1>3. reader[p] \in Reader /\ reader[p].line \in Nat /\ reader[p].n \in Names
    BY <1>2, ReaderIs
  <1>4. line \in LogLine /\ e \in Entry
    BY <1>1, NextLine
  <1>5. line.real \in Nat
    BY <1>4 DEF LogLine
  <1> HIDE DEF line, e
  <1>6. last \in Maybe(Nat)
    BY <1>5 DEF Just, Maybe
  <1> HIDE DEF last
  <1>7. r1 \in Reader /\ r2 \in Reader
    <2>1. r2 \in Reader
      BY <1>3 DEF Reader
    <2>2. r1 = [r2 EXCEPT !.last = last]
      BY <1>3 DEF Reader
    <2> HIDE DEF r1, r2
    <2>3. r1 \in Reader
      BY <1>6, <2>1, <2>2 DEF Reader
    <2> QED BY <2>1, <2>3
  <1>12. r1.left = reader[p].left /\ r2.left = reader[p].left
    BY <1>3 DEF Reader
  <1> HIDE DEF r1, r2
  <1>8. reader[p].left # <<>>
    BY <1>1 DEF RTypes
  <1>9. record' \in [Names -> Seq(Entry)]
    <2>1. record \in [Names -> Seq(Entry)]
      BY DEF RTypes
    <2>2. Append(record[reader[p].n], e) \in Seq(Entry)
      BY <1>3, <1>4, <2>1
    <2> DEFINE longer == Append(record[reader[p].n], e)
    <2>3. record' = record \/ record' = [record EXCEPT ![reader[p].n] = longer]
      BY <1>1
    <2> HIDE DEF longer
    <2> QED BY <2>1, <2>2, <2>3 DEF longer
  <1>10. spoilt' \in [Names -> SUBSET Spoils]
    BY <1>1, SpoilTypes DEF RTypes
  <1>11. UNCHANGED <<now, said, offsets, log>> /\ offsets' \in [Names -> Offsets]
    BY <1>1 DEF RTypes
  <1> QED BY <1>1, <1>7, <1>12, <1>8, <1>9, <1>10, <1>11, ReaderTypes

LEMMA EndTypes ==
  ASSUME RTypes, NEW p \in Processes, EndOfFile(p)
  PROVE  RTypes'
  <1> DEFINE x == reader[p].left[1]
             o == [read |-> reader[p].line, of |-> InHand(p).file]
             r == [reader[p] EXCEPT !.at = "open", !.left = Tail(reader[p].left), !.off[x] = o, !.held = Nil]
  <1>1. /\ reader' = [reader EXCEPT ![p] = r] /\ UNCHANGED <<now, said, record, offsets, log, spoilt>>
        /\ reader[p].at = "scan"
    BY ZenonT(60) DEF EndOfFile, Counted
  <1>2. x \in Nodes /\ Harvesting(p) /\ Tail(reader[p].left) \in Seq(Nodes)
    BY <1>1, OfIs
  <1>3. reader[p] \in Reader /\ reader[p].line \in Nat
    BY <1>2, ReaderIs
  <1>4. o \in [read : Nat, of : Nat]
    BY <1>1, <1>3, HandIs
  <1> HIDE DEF o
  <1>5. r \in Reader /\ r.at = "open"
    BY <1>2, <1>3, <1>4 DEF Reader, Offsets, Maybe
  <1> HIDE DEF r
  <1> QED BY <1>1, <1>5, ReaderTypes DEF RTypes

LEMMA OverTypes ==
  ASSUME RTypes, NEW p \in Processes, SaveOffsets(p) \/ LoseOffsets(p) \/ DropHarvest(p)
  PROVE  RTypes'
  <1>1. /\ Harvesting(p) /\ reader' = [reader EXCEPT ![p] = Idle] /\ UNCHANGED <<now, said, record, log>>
    BY DEF SaveOffsets, LoseOffsets, DropHarvest, Harvesting
  <1>2. reader[p].off \in Offsets
    BY <1>1, ReaderIs
  <1>3. offsets' \in [Names -> Offsets]
    BY <1>2 DEF SaveOffsets, LoseOffsets, DropHarvest, RTypes
  <1>4. spoilt' \in [Names -> SUBSET Spoils]
    BY SpoilTypes DEF SaveOffsets, LoseOffsets, DropHarvest, RTypes, Spoils
  <1>5. Idle.at # "scan"
    BY DEF Idle
  <1> QED BY <1>1, <1>3, <1>4, <1>5, ReaderTypes DEF RTypes

-----------------------------------------------------------------------------
(* What the engine does to a log.                                          *)

Grows(x, line) ==
  /\ log' \in [Nodes -> Log]
  /\ \A y \in Nodes : /\ log'[y].file = log[y].file
                      /\ log'[y].lines = IF y = x THEN Append(log[y].lines, line) ELSE log[y].lines
LastId(x) == Lines(x)[Len(Lines(x))].id

LEMMA LogIs ==
  ASSUME RTypes, NEW x \in Nodes
  PROVE  /\ log[x] \in Log /\ log[x].lines \in Seq(LogLine) /\ Lines(x) \in Seq(LogLine) /\ log[x].file \in Nat
         /\ Len(Lines(x)) \in Nat /\ DOMAIN Lines(x) = 1..Len(Lines(x)) /\ DOMAIN log = Nodes
  BY DEF RTypes, Log, Lines

LEMMA WriteGrows ==
  ASSUME RTypes, NEW x \in Nodes, NEW line \in LogLine, NEW open \in BOOLEAN, Write(x, line, open)
  PROVE  Grows(x, line)
  <1>1. log[x] \in Log /\ DOMAIN log = Nodes
    BY LogIs
  <1> DEFINE longer == Append(log[x].lines, line)
             l == [log[x] EXCEPT !.lines = longer, !.open = open]
  <1>2. longer \in Seq(LogLine)
    BY <1>1 DEF Log
  <1>3. log' = [log EXCEPT ![x] = l]
    BY DEF Write
  <1> HIDE DEF longer
  <1>4. l \in Log /\ l.lines = longer /\ l.file = log[x].file
    BY <1>1, <1>2 DEF Log
  <1> HIDE DEF l
  <1>5. log' \in [Nodes -> Log] /\ \A y \in Nodes : log'[y] = IF y = x THEN l ELSE log[y]
    BY <1>3, <1>4 DEF RTypes
  <1> QED BY <1>4, <1>5 DEF Grows, longer

LEMMA StampGrows ==
  ASSUME RTypes, NEW x \in Nodes, Stamp(x)
  PROVE  /\ said' = said + 1 /\ ~Pending(x) /\ UNCHANGED <<now, record, offsets, reader, spoilt>>
         /\ \E line \in LogLine : line.kind = "time" /\ line.id = said + 1 /\ Grows(x, line)
  <1> DEFINE line == [kind |-> "time", id |-> said', real |-> now, result |-> None]
  <1>1. /\ said' = said + 1 /\ ~Pending(x) /\ UNCHANGED <<now, record, offsets, reader, spoilt>>
        /\ Write(x, line, FALSE)
    BY DEF Stamp
  <1>2. said \in Nat /\ now \in Nat
    BY DEF RTypes
  <1>3. line \in LogLine /\ line.kind = "time" /\ line.id = said + 1
    BY <1>1, <1>2 DEF LogLine
  <1> HIDE DEF line
  <1> QED BY <1>1, <1>3, WriteGrows

LEMMA PendingIs ==
  ASSUME RTypes, NEW x \in Nodes, Pending(x)
  PROVE  /\ Len(Lines(x)) \in DOMAIN Lines(x) /\ Len(Lines(x)) \in 1..Len(Lines(x))
         /\ Lines(x)[Len(Lines(x))] \in LogLine
         /\ LastId(x) \in Nat \ {0} /\ Lines(x)[Len(Lines(x))].kind = "time"
  <1>1. Lines(x) \in Seq(LogLine) /\ Lines(x) # <<>> /\ Lines(x)[Len(Lines(x))].kind = "time"
    BY LogIs DEF Pending
  <1>2. Len(Lines(x)) \in DOMAIN Lines(x) /\ Len(Lines(x)) \in 1..Len(Lines(x)) /\ Lines(x)[Len(Lines(x))] \in LogLine
    BY <1>1
  <1> QED BY <1>1, <1>2 DEF LogLine, LastId

LEMMA WordsGrows ==
  ASSUME RTypes, NEW x \in Nodes, Words(x)
  PROVE  /\ Pending(x) /\ UNCHANGED <<now, said, record, offsets, reader, spoilt>>
         /\ \E line \in LogLine : line.kind = "ha" /\ line.id = LastId(x) /\ Grows(x, line)
  <1> DEFINE head == Lines(x)[Len(Lines(x))]
  <1>1. PICK r \in Results : Write(x, [head EXCEPT !.kind = "ha", !.result = r], TRUE)
    BY DEF Words
  <1>2. Pending(x) /\ UNCHANGED <<now, said, record, offsets, reader, spoilt>>
    BY DEF Words
  <1>3. head \in LogLine
    BY <1>2, PendingIs
  <1> DEFINE line == [head EXCEPT !.kind = "ha", !.result = r]
  <1>4. line \in LogLine /\ line.kind = "ha" /\ line.id = head.id
    BY <1>3 DEF LogLine
  <1> HIDE DEF line
  <1>5. Write(x, line, TRUE)
    BY <1>1 DEF line
  <1> QED BY <1>2, <1>4, <1>5, WriteGrows DEF LastId

LEMMA NewlineKeeps ==
  ASSUME RTypes, NEW x \in Nodes, Newline(x)
  PROVE  /\ log' \in [Nodes -> Log] /\ UNCHANGED <<now, said, record, offsets, reader, spoilt>>
         /\ \A y \in Nodes : log'[y].file = log[y].file /\ log'[y].lines = log[y].lines
  <1> DEFINE l == [log[x] EXCEPT !.open = FALSE]
  <1>1. log' = [log EXCEPT ![x] = l] /\ UNCHANGED <<now, said, record, offsets, reader, spoilt>>
    BY DEF Newline
  <1>2. l \in Log /\ l.lines = log[x].lines /\ l.file = log[x].file
    BY LogIs DEF Log
  <1> HIDE DEF l
  <1>3. log' \in [Nodes -> Log] /\ \A y \in Nodes : log'[y] = IF y = x THEN l ELSE log[y]
    BY <1>1, <1>2 DEF RTypes
  <1> QED BY <1>1, <1>2, <1>3

\* A file that is put out of the way is a new one, and in hand where it was read.
LEMMA UnlinkIs ==
  ASSUME RTypes, NEW X, Unlink(X)
  PROVE  /\ log' \in [Nodes -> Log]
         /\ \A y \in Nodes : log'[y] = IF y \in X THEN NewFile(log[y]) ELSE log[y]
         /\ \A y \in Nodes : NewFile(log[y]).lines = <<>> /\ NewFile(log[y]).file = log[y].file + 1
         /\ reader' \in [Processes -> {Idle} \cup Reader]
         /\ \A p \in Processes : reader'[p] = IF Moved(p, X) THEN [reader[p] EXCEPT !.held = Just(log[reader[p].left[1]])] ELSE reader[p]
  <1>1. ASSUME NEW y \in Nodes
        PROVE  NewFile(log[y]) \in Log /\ NewFile(log[y]).lines = <<>> /\ NewFile(log[y]).file = log[y].file + 1
    <2>1. log[y].file + 1 \in Nat
      BY LogIs
    <2> DEFINE f == log[y].file + 1
    <2>6. NewFile(log[y]) = [EmptyLog EXCEPT !.file = f]
      BY DEF NewFile
    <2> HIDE DEF f
    <2>2. NewFile(log[y]) = [lines |-> <<>>, open |-> FALSE, file |-> f]
      BY <2>6 DEF EmptyLog
    <2>3. f \in Nat
      BY <2>1 DEF f
    <2>4. <<>> \in Seq(LogLine)
      OBVIOUS
    <2>5. NewFile(log[y]) \in Log /\ NewFile(log[y]).lines = <<>> /\ NewFile(log[y]).file = f
      BY <2>2, <2>3, <2>4 DEF Log
    <2> QED BY <2>5 DEF f
  <1>2. log' = [x \in Nodes |-> IF x \in X THEN NewFile(log[x]) ELSE log[x]]
    BY DEF Unlink
  <1>3. log' \in [Nodes -> Log] /\ \A y \in Nodes : log'[y] = IF y \in X THEN NewFile(log[y]) ELSE log[y]
    BY <1>1, <1>2, LogIs
  <1> DEFINE held(p) == [reader[p] EXCEPT !.held = Just(log[reader[p].left[1]])]
  <1>4. ASSUME NEW p \in Processes, Moved(p, X)
        PROVE  held(p) \in Reader
    <2>1. reader[p].at = "scan"
      BY <1>4 DEF Moved, Reads
    <2>2. reader[p].left[1] \in Nodes /\ Harvesting(p)
      BY <2>1, OfIs
    <2>3. reader[p] \in Reader
      BY <2>2, ReaderIs
    <2> DEFINE h == Just(log[reader[p].left[1]])
    <2>4. h \in Maybe(Log)
      BY <2>2, LogIs DEF Just, Maybe
    <2> HIDE DEF h
    <2>5. [reader[p] EXCEPT !.held = h] \in Reader
      BY <2>3, <2>4 DEF Reader
    <2> QED BY <2>5 DEF h
  <1>5. reader' = [p \in Processes |-> IF Moved(p, X) THEN held(p) ELSE reader[p]]
    BY DEF Unlink
  <1> HIDE DEF held
  <1>6. reader' \in [Processes -> {Idle} \cup Reader]
    BY <1>4, <1>5 DEF RTypes
  <1>7. \A p \in Processes : reader'[p] = IF Moved(p, X) THEN held(p) ELSE reader[p]
    BY <1>5
  <1> QED BY <1>1, <1>3, <1>6, <1>7 DEF held

-----------------------------------------------------------------------------
(* One thing that is said has one number, wherever its words are.          *)

WordsAt(s) == {i \in DOMAIN s : s[i].kind = "ha"}
WordIds(s) == {s[i].id : i \in WordsAt(s)}
Spread(s) == \A i, j \in WordsAt(s) : s[i].id = s[j].id => i = j
Holding(p) == reader[p].at = "scan" /\ reader[p].held.is
HeldLines(p) == reader[p].held.v.lines

\* Nobody has words of that number yet.
Unheard(e) ==
  /\ \A x \in Nodes : e \notin WordIds(Lines(x))
  /\ \A p \in Processes : Holding(p) => e \notin WordIds(HeldLines(p))
  /\ \A n \in Names : e \notin IdsIn(n)

IdsInv ==
  /\ \A x \in Nodes : \A i \in DOMAIN Lines(x) : Lines(x)[i].id <= said
  /\ \A p \in Processes : Holding(p) => \A e \in WordIds(HeldLines(p)) : e \in 1..said
  /\ \A n \in Names : \A e \in IdsIn(n) : e \in 1..said
  /\ \A x \in Nodes : Pending(x) => Unheard(LastId(x))
  /\ \A x, y \in Nodes : x # y /\ Pending(x) /\ Pending(y) => LastId(x) # LastId(y)
  /\ \A x \in Nodes : Spread(Lines(x))
  /\ \A x, y \in Nodes : x # y => WordIds(Lines(x)) \cap WordIds(Lines(y)) = {}
  /\ \A p \in Processes : Holding(p) =>
       Spread(HeldLines(p)) /\ \A x \in Nodes : WordIds(HeldLines(p)) \cap WordIds(Lines(x)) = {}

LEMMA WordsAreSaid ==
  ASSUME RTypes, IdsInv, NEW x \in Nodes, NEW e \in WordIds(Lines(x))
  PROVE  e \in 1..said
  <1>1. PICK i \in DOMAIN Lines(x) : e = Lines(x)[i].id
    BY DEF WordIds, WordsAt
  <1>2. Lines(x)[i] \in LogLine
    BY LogIs
  <1>3. e \in Nat \ {0} /\ e <= said /\ said \in Nat
    BY <1>1, <1>2 DEF LogLine, IdsInv, RTypes
  <1> QED BY <1>3

\* The logs and what is held stay; what comes to a record was in one of them.
LEMMA IdsKept ==
  ASSUME RTypes, IdsInv, said' = said,
         \A x \in Nodes : log'[x].lines = log[x].lines,
         \A p \in Processes : Holding(p)' => Holding(p) /\ reader'[p].held = reader[p].held,
         \A n \in Names : \A e \in IdsIn(n)' :
            \/ e \in IdsIn(n)
            \/ \E x \in Nodes : e \in WordIds(Lines(x))
            \/ \E p \in Processes : Holding(p) /\ e \in WordIds(HeldLines(p))
  PROVE  IdsInv'
  <1>1. \A x \in Nodes : Lines(x)' = Lines(x)
    BY DEF Lines
  <1>2. \A x \in Nodes : Pending(x)' = Pending(x) /\ LastId(x)' = LastId(x)
    BY <1>1 DEF Pending, LastId
  <1>3. \A p \in Processes : Holding(p)' => Holding(p) /\ HeldLines(p)' = HeldLines(p)
    BY DEF HeldLines
  <1>4. \A n \in Names : \A e \in IdsIn(n)' : e \in 1..said
    BY WordsAreSaid DEF IdsInv
  <1>5. ASSUME NEW x \in Nodes, Pending(x)
        PROVE  Unheard(LastId(x))'
    <2>1. Unheard(LastId(x))
      BY <1>5 DEF IdsInv
    <2>2. \A n \in Names : LastId(x) \notin IdsIn(n)'
      BY <2>1 DEF Unheard
    <2>3. LastId(x)' = LastId(x)
      BY <1>2
    <2> QED BY <1>1, <1>3, <2>1, <2>2, <2>3 DEF Unheard
  <1>6. /\ \A x \in Nodes : \A i \in DOMAIN Lines(x)' : Lines(x)'[i].id <= said'
        /\ \A x \in Nodes : Spread(Lines(x)')
        /\ \A x, y \in Nodes : x # y => WordIds(Lines(x)') \cap WordIds(Lines(y)') = {}
    BY <1>1 DEF IdsInv
  <1>7. \A x, y \in Nodes : x # y /\ Pending(x)' /\ Pending(y)' => LastId(x)' # LastId(y)'
    BY <1>2 DEF IdsInv
  <1>8. \A p \in Processes : Holding(p)' => \A e \in WordIds(HeldLines(p)') : e \in 1..said'
    BY <1>3 DEF IdsInv
  <1>9. \A p \in Processes : Holding(p)' =>
          Spread(HeldLines(p)') /\ \A x \in Nodes : WordIds(HeldLines(p)') \cap WordIds(Lines(x)') = {}
    BY <1>1, <1>3 DEF IdsInv
  <1>10. \A x \in Nodes : Pending(x)' => Unheard(LastId(x))'
    BY <1>2, <1>5
  <1> QED BY <1>4, <1>6, <1>7, <1>8, <1>9, <1>10 DEF IdsInv, Spread, WordIds, WordsAt

LEMMA AppendedWords ==
  ASSUME NEW s \in Seq(LogLine), NEW line \in LogLine
  PROVE  LET t == Append(s, line)
         IN /\ DOMAIN t = 1..(Len(s) + 1) /\ DOMAIN s = 1..Len(s) /\ Len(s) \in Nat
            /\ \A i \in DOMAIN s : t[i] = s[i]
            /\ t[Len(s) + 1] = line /\ Len(t) = Len(s) + 1 /\ t # <<>>
            /\ WordsAt(t) = WordsAt(s) \cup (IF line.kind = "ha" THEN {Len(s) + 1} ELSE {})
            /\ WordIds(t) = WordIds(s) \cup (IF line.kind = "ha" THEN {line.id} ELSE {})
  <1> DEFINE t == Append(s, line)
  <1>1. /\ DOMAIN t = 1..(Len(s) + 1) /\ DOMAIN s = 1..Len(s) /\ Len(s) \in Nat
        /\ \A i \in DOMAIN s : t[i] = s[i]
        /\ t[Len(s) + 1] = line /\ Len(t) = Len(s) + 1 /\ t # <<>>
    OBVIOUS
  <1> HIDE DEF t
  <1>2. DOMAIN t = DOMAIN s \cup {Len(s) + 1}
    BY <1>1
  <1>3. WordsAt(t) = WordsAt(s) \cup (IF line.kind = "ha" THEN {Len(s) + 1} ELSE {})
    BY <1>1, <1>2 DEF WordsAt
  <1>4. WordIds(t) = WordIds(s) \cup (IF line.kind = "ha" THEN {line.id} ELSE {})
    BY <1>1, <1>3 DEF WordIds, WordsAt
  <1> QED BY <1>1, <1>3, <1>4 DEF t

\* Words with a number nobody has yet, or none, at the end of one log.
LEMMA IdsGrow ==
  ASSUME RTypes, IdsInv, NEW x \in Nodes, NEW line \in LogLine, Grows(x, line),
         UNCHANGED <<record, reader>>, said' \in Nat, said <= said', line.id <= said',
         line.kind = "ha" => Unheard(line.id),
         \/ line.kind = "time" /\ line.id = said + 1
         \/ line.kind = "ha" /\ Pending(x) /\ line.id = LastId(x)
  PROVE  IdsInv'
  <1> DEFINE s == Lines(x)
             t == Append(s, line)
  <1>1. /\ \A y \in Nodes : Lines(y)' = IF y = x THEN t ELSE Lines(y)
        /\ s \in Seq(LogLine) /\ Lines(x)' = t
    BY LogIs DEF Grows, Lines
  <1>2. /\ DOMAIN t = 1..(Len(s) + 1) /\ DOMAIN s = 1..Len(s) /\ Len(s) \in Nat
        /\ \A i \in DOMAIN s : t[i] = s[i]
        /\ t[Len(s) + 1] = line /\ Len(t) = Len(s) + 1 /\ t # <<>>
        /\ WordsAt(t) = WordsAt(s) \cup (IF line.kind = "ha" THEN {Len(s) + 1} ELSE {})
        /\ WordIds(t) = WordIds(s) \cup (IF line.kind = "ha" THEN {line.id} ELSE {})
    BY <1>1, AppendedWords
  <1> HIDE DEF s, t
  <1>3. \A y \in Nodes : WordIds(Lines(y)') = IF y = x /\ line.kind = "ha" THEN WordIds(Lines(y)) \cup {line.id}
                                              ELSE WordIds(Lines(y))
    BY <1>1, <1>2 DEF s
  <1>4. /\ \A p \in Processes : Holding(p)' = Holding(p) /\ HeldLines(p)' = HeldLines(p)
        /\ \A n \in Names : IdsIn(n)' = IdsIn(n)
    BY DEF Holding, HeldLines, IdsIn
  <1>5. /\ said \in Nat /\ line.id \in Nat \ {0}
    BY DEF RTypes, LogLine
  <1>6. \A y \in Nodes : \A i \in DOMAIN Lines(y)' : Lines(y)'[i].id <= said'
    <2> SUFFICES ASSUME NEW y \in Nodes, NEW i \in DOMAIN Lines(y)'
                 PROVE  Lines(y)'[i].id <= said'
      OBVIOUS
    <2>1. ASSUME NEW z \in Nodes, NEW j \in DOMAIN Lines(z)
          PROVE  Lines(z)[j].id <= said'
      <3>1. Lines(z)[j].id <= said /\ Lines(z)[j] \in LogLine
        BY LogIs DEF IdsInv
      <3>2. Lines(z)[j].id \in Nat
        BY <3>1 DEF LogLine
      <3> QED BY <1>5, <3>1, <3>2
    <2>2. CASE y # x
      BY <1>1, <2>1, <2>2
    <2>3. CASE y = x /\ i = Len(s) + 1
      BY <1>1, <1>2, <2>3
    <2>4. CASE y = x /\ i # Len(s) + 1
      <3>1. i \in DOMAIN s
        BY <1>1, <1>2, <2>4
      <3> QED BY <1>1, <1>2, <2>1, <2>4, <3>1 DEF s
    <2> QED BY <2>2, <2>3, <2>4
  <1>7. /\ \A p \in Processes : Holding(p)' => \A e \in WordIds(HeldLines(p)') : e \in 1..said'
        /\ \A n \in Names : \A e \in IdsIn(n)' : e \in 1..said'
    BY <1>4, <1>5 DEF IdsInv
  <1>8. \A y \in Nodes : WordIds(Lines(y)) \subseteq 1..said
    BY WordsAreSaid
  <1>9. \A y \in Nodes : Pending(y)' => \/ y # x /\ Pending(y) /\ LastId(y)' = LastId(y)
                                        \/ y = x /\ line.kind = "time" /\ LastId(y)' = line.id
    <2> SUFFICES ASSUME NEW y \in Nodes, Pending(y)'
                 PROVE  \/ y # x /\ Pending(y) /\ LastId(y)' = LastId(y)
                        \/ y = x /\ line.kind = "time" /\ LastId(y)' = line.id
      OBVIOUS
    <2>1. CASE y # x
      BY <1>1, <2>1 DEF Pending, LastId
    <2>2. CASE y = x
      BY <1>1, <1>2, <2>2 DEF Pending, LastId
    <2> QED BY <2>1, <2>2
  <1>10. \A y \in Nodes : Pending(y)' => Unheard(LastId(y))'
    <2> SUFFICES ASSUME NEW y \in Nodes, Pending(y)'
                 PROVE  Unheard(LastId(y))'
      OBVIOUS
    <2> DEFINE e == LastId(y)'
    <2>1. Unheard(e)
      <3>1. CASE y # x
        BY <1>9, <3>1 DEF IdsInv
      <3>2. CASE y = x
        <4>1. e = said + 1
          BY <1>9, <3>2
        <4>2. e \notin 1..said
          BY <1>5, <4>1
        <4> HIDE DEF e
        <4> QED BY <1>8, <4>2 DEF Unheard, IdsInv
      <3> QED BY <3>1, <3>2
    <2>2. line.kind = "ha" => e # line.id
      <3> SUFFICES ASSUME line.kind = "ha" PROVE e # line.id
        OBVIOUS
      <3>1. y # x /\ Pending(y) /\ e = LastId(y)
        BY <1>9
      <3> QED BY <3>1 DEF IdsInv
    <2> HIDE DEF e
    <2>3. \A z \in Nodes : e \notin WordIds(Lines(z)')
      BY <1>3, <2>1, <2>2 DEF Unheard
    <2>4. /\ \A p \in Processes : Holding(p)' => e \notin WordIds(HeldLines(p)')
          /\ \A n \in Names : e \notin IdsIn(n)'
      BY <1>4, <2>1 DEF Unheard
    <2> QED BY <2>3, <2>4 DEF Unheard, WordIds, WordsAt, e
  <1>11. \A y, z \in Nodes : y # z /\ Pending(y)' /\ Pending(z)' => LastId(y)' # LastId(z)'
    <2> SUFFICES ASSUME NEW y \in Nodes, NEW z \in Nodes, y # z, Pending(y)', Pending(z)', LastId(y)' = LastId(z)'
                 PROVE  FALSE
      OBVIOUS
    <2>1. CASE y # x /\ z # x
      BY <1>9, <2>1 DEF IdsInv
    <2>2. ASSUME NEW v \in Nodes, Pending(v), LastId(v) = said + 1
          PROVE  FALSE
      <3>1. LastId(v) <= said
        BY <2>2, PendingIs DEF IdsInv, LastId
      <3> QED BY <1>5, <2>2, <3>1
    <2> QED BY <1>9, <2>1, <2>2
  <1>12. \A y \in Nodes : Spread(Lines(y)')
    <2>1. CASE line.kind # "ha"
      <3>1. ASSUME NEW i \in WordsAt(t), NEW j \in WordsAt(t), t[i].id = t[j].id
            PROVE  i = j
        <4>1. i \in WordsAt(s) /\ j \in WordsAt(s) /\ t[i] = s[i] /\ t[j] = s[j]
          BY <1>2, <2>1 DEF WordsAt
        <4> QED BY <3>1, <4>1 DEF IdsInv, Spread, s
      <3>2. Spread(t)
        BY <3>1 DEF Spread
      <3> QED BY <1>1, <3>2 DEF IdsInv
    <2>2. CASE line.kind = "ha"
      <3>1. line.id \notin WordIds(s)
        BY <2>2 DEF Unheard, s
      <3>2. ASSUME NEW i \in WordsAt(t), NEW j \in WordsAt(t), t[i].id = t[j].id
            PROVE  i = j
        <4>1. ASSUME NEW k \in WordsAt(t)
              PROVE  \/ k = Len(s) + 1 /\ t[k] = line
                     \/ k \in WordsAt(s) /\ t[k] = s[k] /\ s[k].id \in WordIds(s)
          BY <1>2 DEF WordsAt, WordIds
        <4>2. CASE i \in WordsAt(s) /\ j \in WordsAt(s)
          BY <1>2, <3>2, <4>2 DEF IdsInv, Spread, s, WordsAt
        <4> QED BY <3>1, <3>2, <4>1, <4>2
      <3>3. Spread(t)
        BY <3>2 DEF Spread
      <3> QED BY <1>1, <3>3 DEF IdsInv
    <2> QED BY <2>1, <2>2
  <1>13. \A y, z \in Nodes : y # z => WordIds(Lines(y)') \cap WordIds(Lines(z)') = {}
    BY <1>3 DEF IdsInv, Unheard
  <1>14. \A p \in Processes : Holding(p)' =>
           Spread(HeldLines(p)') /\ \A y \in Nodes : WordIds(HeldLines(p)') \cap WordIds(Lines(y)') = {}
    BY <1>3, <1>4 DEF IdsInv, Unheard
  <1> QED BY <1>6, <1>7, <1>10, <1>11, <1>12, <1>13, <1>14 DEF IdsInv, Spread, WordIds, WordsAt

LEMMA IdsUnlink ==
  ASSUME RTypes, IdsInv, NEW X, Unlink(X), said' = said,
         \A n \in Names : IdsIn(n)' \subseteq IdsIn(n)
  PROVE  IdsInv'
  <1>1. /\ \A y \in Nodes : Lines(y)' = IF y \in X THEN <<>> ELSE Lines(y)
        /\ \A p \in Processes : reader'[p] = IF Moved(p, X) THEN [reader[p] EXCEPT !.held = Just(log[reader[p].left[1]])] ELSE reader[p]
    BY UnlinkIs DEF Lines
  <1>2. WordsAt(<<>>) = {} /\ WordIds(<<>>) = {} /\ Spread(<<>>) /\ DOMAIN <<>> = {}
    BY DEF WordsAt, WordIds, Spread
  <1>3. \A y \in Nodes : WordIds(Lines(y)') = IF y \in X THEN {} ELSE WordIds(Lines(y))
    BY <1>1, <1>2
  <1>4. ASSUME NEW p \in Processes, Holding(p)'
        PROVE  \/ Holding(p) /\ HeldLines(p)' = HeldLines(p)
               \/ \E y \in Nodes \cap X : HeldLines(p)' = Lines(y)
    <2>1. CASE ~Moved(p, X)
      BY <1>1, <1>4, <2>1 DEF Holding, HeldLines
    <2>2. CASE Moved(p, X)
      <3> DEFINE y == reader[p].left[1]
      <3>1. reader[p].at = "scan" /\ y \in X
        BY <2>2 DEF Moved, Reads
      <3>2. y \in Nodes /\ Harvesting(p)
        BY <3>1, OfIs
      <3>3. reader[p] \in Reader
        BY <3>2, ReaderIs
      <3>4. reader'[p].held = Just(log[y])
        BY <1>1, <2>2, <3>3 DEF Reader
      <3>5. HeldLines(p)' = Lines(y)
        BY <3>4 DEF HeldLines, Lines, Just
      <3> QED BY <3>1, <3>2, <3>5
    <2> QED BY <2>1, <2>2
  <1>5. \A y \in Nodes : Pending(y)' => y \notin X /\ Pending(y) /\ LastId(y)' = LastId(y)
    BY <1>1 DEF Pending, LastId
  <1>6. ASSUME NEW p \in Processes, Holding(p)'
        PROVE  /\ WordIds(HeldLines(p)') \subseteq 1..said
               /\ Spread(HeldLines(p)')
               /\ \A y \in Nodes : WordIds(HeldLines(p)') \cap WordIds(Lines(y)') = {}
    <2>1. CASE Holding(p) /\ HeldLines(p)' = HeldLines(p)
      BY <1>3, <2>1 DEF IdsInv
    <2>2. ASSUME NEW z \in Nodes \cap X, HeldLines(p)' = Lines(z)
          PROVE  /\ WordIds(HeldLines(p)') \subseteq 1..said
                 /\ Spread(HeldLines(p)')
                 /\ \A y \in Nodes : WordIds(HeldLines(p)') \cap WordIds(Lines(y)') = {}
      BY <1>3, <2>2, WordsAreSaid DEF IdsInv
    <2> QED BY <1>4, <1>6, <2>1, <2>2
  <1>7. ASSUME NEW y \in Nodes, Pending(y)'
        PROVE  Unheard(LastId(y))'
    <2> DEFINE e == LastId(y)'
    <2>1. Unheard(e)
      BY <1>5, <1>7 DEF IdsInv
    <2> HIDE DEF e
    <2>2. \A z \in Nodes : e \notin WordIds(Lines(z)')
      BY <1>3, <2>1 DEF Unheard
    <2>3. \A p \in Processes : Holding(p)' => e \notin WordIds(HeldLines(p)')
      BY <1>4, <2>1 DEF Unheard
    <2>4. \A n \in Names : e \notin IdsIn(n)'
      BY <2>1 DEF Unheard
    <2> QED BY <2>2, <2>3, <2>4 DEF Unheard, WordIds, WordsAt, e
  <1>8. \A y \in Nodes : \A i \in DOMAIN Lines(y)' : Lines(y)'[i].id <= said'
    BY <1>1, <1>2 DEF IdsInv
  <1>9. \A n \in Names : \A e \in IdsIn(n)' : e \in 1..said'
    BY DEF IdsInv
  <1>10. \A y, z \in Nodes : y # z /\ Pending(y)' /\ Pending(z)' => LastId(y)' # LastId(z)'
    BY <1>5 DEF IdsInv
  <1>11. /\ \A y \in Nodes : Spread(Lines(y)')
         /\ \A y, z \in Nodes : y # z => WordIds(Lines(y)') \cap WordIds(Lines(z)') = {}
    BY <1>1, <1>2, <1>3 DEF IdsInv
  <1> QED BY <1>6, <1>7, <1>8, <1>9, <1>10, <1>11 DEF IdsInv, Spread, WordIds, WordsAt

-----------------------------------------------------------------------------
(* How far a log has been read, of the file it is now.                     *)

Harvests(p, n) == Harvesting(p) /\ reader[p].n = n
Fit(o, x) == o.of <= log[x].file /\ (o.of = log[x].file => o.read <= Len(Lines(x)))
Outlived(r) == r.held.v.file < log[r.left[1]].file /\ r.off[r.left[1]].of <= r.held.v.file
FilesInv ==
  /\ \A n \in Names, x \in Nodes : Fit(offsets[n][x], x)
  /\ \A p \in Processes : Harvesting(p) => \A x \in Nodes : Fit(reader[p].off[x], x)
  /\ \A p \in Processes : reader[p].at = "scan" => reader[p].line <= Len(InHand(p).lines)
  /\ \A p \in Processes : Holding(p) => Outlived(reader[p])

ReadTo(o, x) == IF o.of = log[x].file THEN o.read ELSE 0
Mark(p, x) == IF Reads(p, x) /\ ~reader[p].held.is THEN reader[p].line ELSE ReadTo(reader[p].off[x], x)

LEMMA OffsetIs ==
  ASSUME RTypes, NEW o \in Offsets, NEW x \in Nodes
  PROVE  o[x].read \in Nat /\ o[x].of \in Nat /\ ReadTo(o[x], x) \in Nat
  BY DEF Offsets, ReadTo

LEMMA MarkIs ==
  ASSUME RTypes, FilesInv, NEW p \in Processes, Harvesting(p), NEW x \in Nodes
  PROVE  /\ Mark(p, x) \in Nat /\ Mark(p, x) <= Len(Lines(x))
         /\ ReadTo(reader[p].off[x], x) \in Nat /\ ReadTo(reader[p].off[x], x) <= Len(Lines(x))
  <1>1. reader[p].off \in Offsets /\ reader[p].line \in Nat
    BY ReaderIs
  <1>2. ReadTo(reader[p].off[x], x) \in Nat /\ ReadTo(reader[p].off[x], x) <= Len(Lines(x))
    BY <1>1, OffsetIs, LogIs DEF FilesInv, Fit, ReadTo
  <1>3. CASE Reads(p, x) /\ ~reader[p].held.is
    <2>1. InHand(p).lines = Lines(x) /\ reader[p].at = "scan"
      BY <1>3 DEF Reads, InHand, Lines
    <2>2. reader[p].line <= Len(Lines(x))
      BY <2>1 DEF FilesInv
    <2> QED BY <1>1, <1>2, <1>3, <2>2 DEF Mark
  <1> QED BY <1>2, <1>3 DEF Mark

LEMMA SavedIs ==
  ASSUME RTypes, FilesInv, NEW n \in Names, NEW x \in Nodes
  PROVE  ReadTo(offsets[n][x], x) \in Nat /\ ReadTo(offsets[n][x], x) <= Len(Lines(x))
  <1>1. offsets[n] \in Offsets
    BY DEF RTypes
  <1> QED BY <1>1, OffsetIs, LogIs DEF FilesInv, Fit, ReadTo

\* One harvest goes on, or ends, and no log changes.
LEMMA FilesStay ==
  ASSUME RTypes, FilesInv, NEW p \in Processes, log' = log,
         \A q \in Processes : q # p => reader'[q] = reader[q],
         \A n \in Names, x \in Nodes : Fit(offsets'[n][x], x),
         Harvesting(p)' => \A x \in Nodes : Fit(reader'[p].off[x], x),
         reader'[p].at = "scan" => reader'[p].line <= Len(InHand(p)'.lines),
         Holding(p)' => Outlived(reader'[p])
  PROVE  FilesInv'
  <1>1. \A n \in Names, x \in Nodes : Fit(offsets[n][x], x)'
    BY DEF Fit, Lines
  <1>2. ASSUME NEW q \in Processes
        PROVE  /\ Harvesting(q)' => \A x \in Nodes : Fit(reader[q].off[x], x)'
               /\ reader'[q].at = "scan" => reader'[q].line <= Len(InHand(q)'.lines)
               /\ Holding(q)' => Outlived(reader[q])'
    <2>1. CASE q = p
      BY <2>1 DEF Fit, Lines, Outlived
    <2>2. CASE q # p
      <3>1. reader'[q] = reader[q]
        BY <2>2
      <3>2. Harvesting(q)' = Harvesting(q) /\ Holding(q)' = Holding(q) /\ InHand(q)' = InHand(q)
        BY <3>1 DEF Harvesting, Holding, InHand
      <3>3. Harvesting(q) => \A x \in Nodes : Fit(reader[q].off[x], x)'
        BY <3>1 DEF FilesInv, Fit, Lines
      <3>4. Holding(q) => Outlived(reader[q])'
        BY <3>1 DEF FilesInv, Outlived
      <3> QED BY <3>1, <3>2, <3>3, <3>4 DEF FilesInv
    <2> QED BY <2>1, <2>2
  <1> QED BY <1>1, <1>2 DEF FilesInv

\* What each step of a harvest leaves of the reader.
LEMMA OpenIs ==
  ASSUME RTypes, NEW p \in Processes, OpenFile(p)
  PROVE  LET r == reader[p]
             x == r.left[1]
             o == r.off[x]
         IN /\ r.at = "open" /\ r.left # <<>> /\ x \in Nodes /\ Harvesting(p) /\ o.read \in Nat /\ o.of \in Nat
            /\ reader'[p].at = "scan" /\ reader'[p].line = Start(x, o) /\ reader'[p].held = Nil
            /\ reader'[p].left = r.left /\ reader'[p].off = r.off /\ reader'[p].n = r.n
            /\ \A q \in Processes : q # p => reader'[q] = reader[q]
            /\ UNCHANGED <<now, said, record, offsets, log>>
            /\ Start(x, o) \in Nat /\ Start(x, o) <= Len(Lines(x))
            /\ Start(x, o) = o.read \/ Start(x, o) = 0
  <1> DEFINE r == reader[p]
             x == r.left[1]
             o == r.off[x]
             s == Start(x, o)
             u == [r EXCEPT !.at = "scan", !.line = s, !.last = Nil, !.held = Nil]
  <1>1. /\ reader' = [reader EXCEPT ![p] = u] /\ UNCHANGED <<now, said, record, offsets, log>>
        /\ r.at = "open" /\ r.left # <<>>
    BY DEF OpenFile
  <1>2. x \in Nodes /\ Harvesting(p)
    BY <1>1, OfIs
  <1>3. r \in Reader /\ r.off \in Offsets
    BY <1>2, ReaderIs
  <1>4. o.read \in Nat /\ o.of \in Nat
    BY <1>2, <1>3, OffsetIs
  <1>5. (s = o.read \/ s = 0) /\ s \in Nat /\ s <= Len(Lines(x))
    <2>1. Len(Lines(x)) \in Nat /\ Size(x) \in Int /\ Size(x) <= 2 * Len(Lines(x))
      BY <1>2, LogIs DEF Size
    <2>2. s = IF Size(x) < 2 * o.read THEN 0 ELSE o.read
      BY DEF Start
    <2> HIDE DEF s, o, x, r
    <2> QED BY <1>4, <2>1, <2>2
  <1> HIDE DEF s
  <1>6. u.at = "scan" /\ u.line = s /\ u.held = Nil /\ u.left = r.left /\ u.off = r.off /\ u.n = r.n
    BY <1>3 DEF Reader
  <1> HIDE DEF u
  <1>7. \A q \in Processes : reader'[q] = IF q = p THEN u ELSE reader[q]
    BY <1>1 DEF RTypes
  <1> QED BY <1>1, <1>2, <1>4, <1>5, <1>6, <1>7 DEF s

LEMMA PassIs ==
  ASSUME RTypes, NEW p \in Processes, NoFile(p) \/ AllRead(p)
  PROVE  /\ reader[p].at = "open" /\ Harvesting(p) /\ reader'[p].at \in {"open", "save"}
         /\ reader'[p].off = reader[p].off /\ reader'[p].n = reader[p].n
         /\ \A q \in Processes : q # p => reader'[q] = reader[q]
         /\ UNCHANGED <<now, said, record, offsets, log, spoilt>>
  <1>1. Harvesting(p) /\ reader[p].at = "open" /\ UNCHANGED <<now, said, record, offsets, log, spoilt>>
    BY DEF NoFile, AllRead, Harvesting
  <1>2. reader[p] \in Reader
    BY <1>1, ReaderIs
  <1>3. PICK u : /\ reader' = [reader EXCEPT ![p] = u]
                 /\ u.at \in {"open", "save"} /\ u.off = reader[p].off /\ u.n = reader[p].n
    <2>1. CASE NoFile(p)
      <3> DEFINE u == [reader[p] EXCEPT !.left = Tail(reader[p].left)]
      <3>1. reader' = [reader EXCEPT ![p] = u]
        BY <2>1 DEF NoFile
      <3>2. u.at \in {"open", "save"} /\ u.off = reader[p].off /\ u.n = reader[p].n
        BY <1>1, <1>2 DEF Reader
      <3> QED BY <3>1, <3>2
    <2>2. CASE AllRead(p)
      <3> DEFINE u == [reader[p] EXCEPT !.at = "save"]
      <3>1. reader' = [reader EXCEPT ![p] = u]
        BY <2>2 DEF AllRead
      <3>2. u.at \in {"open", "save"} /\ u.off = reader[p].off /\ u.n = reader[p].n
        BY <1>1, <1>2 DEF Reader
      <3> QED BY <3>1, <3>2
    <2> QED BY <2>1, <2>2
  <1>4. \A q \in Processes : reader'[q] = IF q = p THEN u ELSE reader[q]
    BY <1>3 DEF RTypes
  <1> QED BY <1>1, <1>3, <1>4

LEMMA LineIs ==
  ASSUME RTypes, NEW p \in Processes, ReadLine(p)
  PROVE  LET r == reader[p]
             line == InHand(p).lines[r.line + 1]
         IN /\ r.at = "scan" /\ Harvesting(p) /\ ~AtEnd(p)
            /\ reader'[p].at = "scan" /\ reader'[p].line = r.line + 1 /\ reader'[p].held = r.held
            /\ reader'[p].left = r.left /\ reader'[p].off = r.off /\ reader'[p].n = r.n
            /\ \A q \in Processes : q # p => reader'[q] = reader[q]
            /\ UNCHANGED <<now, said, offsets, log>>
            /\ \/ line.kind = "time" /\ UNCHANGED <<record, spoilt>>
               \/ /\ line.kind = "ha"
                  /\ record' = [record EXCEPT ![r.n] = Append(@, EngineEntry(line, r.last))]
                  /\ \E how : Spoil(r.n, how)
  <1> DEFINE r == reader[p]
             line == InHand(p).lines[r.line + 1]
             last == Just(line.real)
             u1 == [r EXCEPT !.line = r.line + 1, !.last = last]
             u2 == [r EXCEPT !.line = r.line + 1]
  <1>1. /\ r.at = "scan" /\ ~AtEnd(p) /\ UNCHANGED <<now, said, offsets, log>>
        /\ \/ line.kind = "time" /\ reader' = [reader EXCEPT ![p] = u1] /\ UNCHANGED <<record, spoilt>>
           \/ /\ line.kind # "time" /\ reader' = [reader EXCEPT ![p] = u2]
              /\ record' = [record EXCEPT ![r.n] = Append(@, EngineEntry(line, r.last))]
              /\ \E how : Spoil(r.n, how)
    BY DEF ReadLine
  <1>2. Harvesting(p)
    BY <1>1 DEF Harvesting
  <1>3. r \in Reader
    BY <1>2, ReaderIs
  <1>4. line.kind \in {"time", "ha"}
    <2>1. line \in LogLine
      BY <1>1, NextLine
    <2> QED BY <2>1 DEF LogLine
  <1> HIDE DEF last
  <1>5. /\ u1.at = r.at /\ u1.line = r.line + 1 /\ u1.held = r.held /\ u1.left = r.left /\ u1.off = r.off /\ u1.n = r.n
        /\ u2.at = r.at /\ u2.line = r.line + 1 /\ u2.held = r.held /\ u2.left = r.left /\ u2.off = r.off /\ u2.n = r.n
    BY <1>3 DEF Reader
  <1> HIDE DEF u1, u2
  <1>6. (\A q \in Processes : reader'[q] = IF q = p THEN u1 ELSE reader[q])
        \/ (\A q \in Processes : reader'[q] = IF q = p THEN u2 ELSE reader[q])
    BY <1>1 DEF RTypes
  <1>7. /\ reader'[p].at = "scan" /\ reader'[p].line = r.line + 1 /\ reader'[p].held = r.held
        /\ reader'[p].left = r.left /\ reader'[p].off = r.off /\ reader'[p].n = r.n
        /\ \A q \in Processes : q # p => reader'[q] = reader[q]
    BY <1>1, <1>5, <1>6
  <1> HIDE DEF line
  <1> QED BY <1>1, <1>2, <1>4, <1>7 DEF line

LEMMA EndIs ==
  ASSUME RTypes, NEW p \in Processes, EndOfFile(p)
  PROVE  LET r == reader[p]
             x == r.left[1]
         IN /\ r.at = "scan" /\ Harvesting(p) /\ x \in Nodes
            /\ reader'[p].at = "open" /\ reader'[p].n = r.n
            /\ \A y \in Nodes : reader'[p].off[y] = IF y = x THEN [read |-> r.line, of |-> InHand(p).file] ELSE r.off[y]
            /\ \A q \in Processes : q # p => reader'[q] = reader[q]
            /\ UNCHANGED <<now, said, record, offsets, log, spoilt>>
  <1> DEFINE r == reader[p]
             x == r.left[1]
             o == [read |-> r.line, of |-> InHand(p).file]
             off == [r.off EXCEPT ![x] = o]
             left == Tail(r.left)
             u == [r EXCEPT !.at = "open", !.left = left, !.off = off, !.held = Nil]
  <1>1. r.at = "scan" /\ UNCHANGED <<now, said, record, offsets, log, spoilt>>
    BY DEF EndOfFile
  <1>2. x \in Nodes /\ Harvesting(p)
    BY <1>1, OfIs
  <1>3. r \in Reader /\ r.off \in Offsets
    BY <1>2, ReaderIs
  <1>4. reader' = [reader EXCEPT ![p] = u]
    BY ZenonT(60) DEF EndOfFile, Counted
  <1> HIDE DEF o
  <1>5. \A y \in Nodes : off[y] = IF y = x THEN o ELSE r.off[y]
    BY <1>3 DEF Offsets
  <1> HIDE DEF off, left
  <1>6. u.at = "open" /\ u.n = r.n /\ u.off = off
    BY <1>3 DEF Reader
  <1> HIDE DEF u
  <1>7. \A q \in Processes : reader'[q] = IF q = p THEN u ELSE reader[q]
    BY <1>4 DEF RTypes
  <1> QED BY <1>1, <1>2, <1>5, <1>6, <1>7 DEF o

LEMMA OverIs ==
  ASSUME RTypes, NEW p \in Processes, SaveOffsets(p) \/ LoseOffsets(p) \/ DropHarvest(p)
  PROVE  /\ Harvesting(p) /\ reader'[p] = Idle /\ ~Harvesting(p)'
         /\ \A q \in Processes : q # p => reader'[q] = reader[q]
         /\ UNCHANGED <<now, said, record, log>>
         /\ offsets' = offsets \/ SaveOffsets(p)
  <1>1. /\ Harvesting(p) /\ reader' = [reader EXCEPT ![p] = Idle] /\ UNCHANGED <<now, said, record, log>>
        /\ offsets' = offsets \/ SaveOffsets(p)
    BY DEF SaveOffsets, LoseOffsets, DropHarvest, Harvesting
  <1>2. \A q \in Processes : reader'[q] = IF q = p THEN Idle ELSE reader[q]
    BY <1>1 DEF RTypes
  <1> QED BY <1>1, <1>2 DEF Harvesting, Idle

LEMMA LoadIs ==
  ASSUME RTypes, NEW p \in Processes, NEW n \in Names, NEW nodes, LoadOffsets(p, n, nodes)
  PROVE  /\ reader'[p].at = "open" /\ reader'[p].n = n /\ reader'[p].off = offsets[n]
         /\ \A q \in Processes : q # p => reader'[q] = reader[q]
         /\ UNCHANGED <<now, said, record, offsets, log>>
         /\ Spoil(n, IF \E q \in Processes : Harvests(q, n) THEN {"overlapped"} ELSE {})
  <1> DEFINE u == [at |-> "open", n |-> n, left |-> nodes, off |-> offsets[n], line |-> 0, last |-> Nil, held |-> Nil]
  <1>1. /\ reader' = [reader EXCEPT ![p] = u] /\ UNCHANGED <<now, said, record, offsets, log>>
        /\ Spoil(n, IF \E q \in Processes : Harvests(q, n) THEN {"overlapped"} ELSE {})
    BY DEF LoadOffsets, Harvests
  <1>2. u.at = "open" /\ u.n = n /\ u.off = offsets[n]
    OBVIOUS
  <1> HIDE DEF u
  <1>3. \A q \in Processes : reader'[q] = IF q = p THEN u ELSE reader[q]
    BY <1>1 DEF RTypes
  <1> QED BY <1>1, <1>2, <1>3

-----------------------------------------------------------------------------
(* What each step leaves of how far the logs have been read.               *)

LEMMA FilesLoad ==
  ASSUME RTypes, FilesInv, NEW p \in Processes, NEW n \in Names, NEW nodes, LoadOffsets(p, n, nodes)
  PROVE  FilesInv'
  <1>1. /\ reader'[p].at = "open" /\ reader'[p].off = offsets[n]
        /\ \A q \in Processes : q # p => reader'[q] = reader[q]
        /\ UNCHANGED <<now, said, record, offsets, log>>
    BY LoadIs
  <1>2. ~Holding(p)'
    BY <1>1 DEF Holding
  <1>3. \A m \in Names, x \in Nodes : Fit(offsets[m][x], x)
    BY DEF FilesInv
  <1> QED BY <1>1, <1>2, <1>3, FilesStay

LEMMA FilesOpen ==
  ASSUME RTypes, FilesInv, NEW p \in Processes, OpenFile(p)
  PROVE  FilesInv'
  <1> DEFINE x == reader[p].left[1]
             s == Start(x, reader[p].off[x])
  <1>1. /\ Harvesting(p) /\ x \in Nodes
        /\ reader'[p].at = "scan" /\ reader'[p].line = s /\ reader'[p].held = Nil
        /\ reader'[p].left = reader[p].left /\ reader'[p].off = reader[p].off
        /\ \A q \in Processes : q # p => reader'[q] = reader[q]
        /\ UNCHANGED <<now, said, record, offsets, log>>
        /\ s <= Len(Lines(x))
    BY OpenIs
  <1> HIDE DEF s
  <1>2. ~Holding(p)' /\ InHand(p)' = log[x]
    BY <1>1 DEF Holding, InHand, Nil
  <1>3. \A m \in Names, y \in Nodes : Fit(offsets[m][y], y)
    BY DEF FilesInv
  <1>4. \A y \in Nodes : Fit(reader'[p].off[y], y)
    BY <1>1 DEF FilesInv
  <1>5. reader'[p].line <= Len(InHand(p)'.lines)
    BY <1>1, <1>2 DEF Lines
  <1> QED BY <1>1, <1>2, <1>3, <1>4, <1>5, FilesStay

LEMMA FilesPass ==
  ASSUME RTypes, FilesInv, NEW p \in Processes, NoFile(p) \/ AllRead(p)
  PROVE  FilesInv'
  <1>1. /\ Harvesting(p) /\ reader'[p].at \in {"open", "save"} /\ reader'[p].off = reader[p].off
        /\ \A q \in Processes : q # p => reader'[q] = reader[q]
        /\ UNCHANGED <<now, said, record, offsets, log, spoilt>>
    BY PassIs
  <1>2. reader'[p].at # "scan" /\ ~Holding(p)'
    BY <1>1 DEF Holding
  <1>3. \A m \in Names, y \in Nodes : Fit(offsets[m][y], y)
    BY DEF FilesInv
  <1>4. \A y \in Nodes : Fit(reader'[p].off[y], y)
    BY <1>1 DEF FilesInv
  <1> QED BY <1>1, <1>2, <1>3, <1>4, FilesStay

LEMMA FilesLine ==
  ASSUME RTypes, FilesInv, NEW p \in Processes, ReadLine(p)
  PROVE  FilesInv'
  <1>1. /\ reader[p].at = "scan" /\ Harvesting(p) /\ ~AtEnd(p)
        /\ reader'[p].at = "scan" /\ reader'[p].line = reader[p].line + 1 /\ reader'[p].held = reader[p].held
        /\ reader'[p].left = reader[p].left /\ reader'[p].off = reader[p].off
        /\ \A q \in Processes : q # p => reader'[q] = reader[q]
        /\ UNCHANGED <<now, said, offsets, log>>
    BY LineIs
  <1>2. InHand(p)' = InHand(p)
    BY <1>1 DEF InHand
  <1>3. reader[p].line + 1 <= Len(InHand(p).lines)
    <2>1. reader[p].line + 1 \in DOMAIN InHand(p).lines
      BY <1>1, NextLine
    <2>2. InHand(p).lines \in Seq(LogLine)
      BY <1>1, HandIs
    <2> QED BY <2>1, <2>2
  <1>4. \A m \in Names, y \in Nodes : Fit(offsets[m][y], y)
    BY DEF FilesInv
  <1>5. \A y \in Nodes : Fit(reader'[p].off[y], y)
    BY <1>1 DEF FilesInv
  <1>6. Holding(p)' => Outlived(reader'[p])
    BY <1>1 DEF FilesInv, Holding, Outlived
  <1> QED BY <1>1, <1>2, <1>3, <1>4, <1>5, <1>6, FilesStay

LEMMA FilesEnd ==
  ASSUME RTypes, FilesInv, NEW p \in Processes, EndOfFile(p)
  PROVE  FilesInv'
  <1> DEFINE x == reader[p].left[1]
             o == [read |-> reader[p].line, of |-> InHand(p).file]
  <1>1. /\ reader[p].at = "scan" /\ Harvesting(p) /\ x \in Nodes /\ reader'[p].at = "open"
        /\ \A y \in Nodes : reader'[p].off[y] = IF y = x THEN o ELSE reader[p].off[y]
        /\ \A q \in Processes : q # p => reader'[q] = reader[q]
        /\ UNCHANGED <<now, said, record, offsets, log, spoilt>>
    BY EndIs
  <1>2. ~Holding(p)' /\ reader'[p].at # "scan"
    BY <1>1 DEF Holding
  <1>3. Fit(o, x)
    <2>1. CASE reader[p].held.is
      <3>1. InHand(p).file < log[x].file
        BY <1>1, <2>1 DEF FilesInv, Holding, Outlived, InHand
      <3>2. InHand(p).file \in Nat /\ log[x].file \in Nat
        BY <1>1, HandIs, LogIs
      <3> QED BY <3>1, <3>2 DEF Fit
    <2>2. CASE ~reader[p].held.is
      <3>1. InHand(p).file = log[x].file /\ InHand(p).lines = Lines(x)
        BY <2>2 DEF InHand, Lines
      <3>2. reader[p].line <= Len(Lines(x)) /\ log[x].file \in Nat
        BY <1>1, <3>1, LogIs DEF FilesInv
      <3> QED BY <3>1, <3>2 DEF Fit
    <2> QED BY <2>1, <2>2
  <1>4. \A m \in Names, y \in Nodes : Fit(offsets[m][y], y)
    BY DEF FilesInv
  <1> HIDE DEF o
  <1>5. \A y \in Nodes : Fit(reader'[p].off[y], y)
    BY <1>1, <1>3 DEF FilesInv
  <1> QED BY <1>1, <1>2, <1>4, <1>5, FilesStay

LEMMA FilesOver ==
  ASSUME RTypes, FilesInv, NEW p \in Processes, SaveOffsets(p) \/ LoseOffsets(p) \/ DropHarvest(p)
  PROVE  FilesInv'
  <1>1. /\ Harvesting(p) /\ reader'[p] = Idle /\ ~Harvesting(p)'
        /\ \A q \in Processes : q # p => reader'[q] = reader[q]
        /\ UNCHANGED <<now, said, record, log>> /\ (offsets' = offsets \/ SaveOffsets(p))
    BY OverIs
  <1>2. reader'[p].at # "scan" /\ ~Holding(p)'
    BY <1>1 DEF Idle, Holding
  <1>3. \A m \in Names, y \in Nodes : Fit(offsets'[m][y], y)
    <2>1. offsets' = offsets \/ offsets' = [offsets EXCEPT ![reader[p].n] = reader[p].off]
      BY <1>1 DEF SaveOffsets
    <2>2. \A m \in Names : offsets'[m] = offsets[m] \/ offsets'[m] = reader[p].off
      BY <2>1 DEF RTypes
    <2> QED BY <1>1, <2>2 DEF FilesInv
  <1> QED BY <1>1, <1>2, <1>3, FilesStay

\* The logs are longer, or as they were.
LEMMA FilesGrow ==
  ASSUME RTypes, FilesInv, log' \in [Nodes -> Log], UNCHANGED <<reader, offsets>>,
         \A y \in Nodes : log'[y].file = log[y].file /\ Len(log[y].lines) <= Len(log'[y].lines)
  PROVE  FilesInv'
  <1>1. ASSUME NEW y \in Nodes
        PROVE  /\ Len(log'[y].lines) \in Nat /\ Len(log[y].lines) \in Nat
               /\ log'[y].file = log[y].file /\ Len(log[y].lines) <= Len(log'[y].lines)
    <2>1. log'[y] \in Log /\ log[y] \in Log
      BY DEF RTypes
    <2> QED BY <2>1 DEF Log
  <1>2. ASSUME NEW o \in [read : Nat, of : Nat], NEW y \in Nodes, Fit(o, y)
        PROVE  Fit(o, y)'
    BY <1>1, <1>2 DEF Fit, Lines
  <1>3. \A n \in Names, y \in Nodes : Fit(offsets[n][y], y)'
    BY <1>2 DEF FilesInv, RTypes, Offsets
  <1>4. ASSUME NEW p \in Processes
        PROVE  /\ Harvesting(p) => \A y \in Nodes : Fit(reader[p].off[y], y)'
               /\ reader[p].at = "scan" => reader[p].line <= Len(InHand(p)'.lines)
               /\ Holding(p) => Outlived(reader[p])'
    <2>1. Harvesting(p) => \A y \in Nodes : Fit(reader[p].off[y], y)'
      BY <1>2, ReaderIs DEF FilesInv, Offsets
    <2>2. ASSUME reader[p].at = "scan"
          PROVE  reader[p].line <= Len(InHand(p)'.lines) /\ (Holding(p) => Outlived(reader[p])')
      <3>1. reader[p].left[1] \in Nodes /\ Harvesting(p)
        BY <2>2, OfIs
      <3>2. reader[p].line \in Nat /\ reader[p].line <= Len(InHand(p).lines)
        BY <2>2, <3>1, ReaderIs DEF FilesInv
      <3>3. CASE reader[p].held.is
        BY <1>1, <2>2, <3>1, <3>2, <3>3 DEF InHand, FilesInv, Outlived
      <3>4. CASE ~reader[p].held.is
        BY <1>1, <3>1, <3>2, <3>4 DEF InHand, Holding
      <3> QED BY <3>3, <3>4
    <2> QED BY <2>1, <2>2 DEF Holding
  <1>5. \A p \in Processes : Harvesting(p)' = Harvesting(p) /\ Holding(p)' = Holding(p)
    BY DEF Harvesting, Holding
  <1> QED BY <1>3, <1>4, <1>5 DEF FilesInv

LEMMA FilesUnlink ==
  ASSUME RTypes, FilesInv, NEW X, Unlink(X),
         \A n \in Names : offsets'[n] = offsets[n] \/ offsets'[n] = Unread
  PROVE  FilesInv'
  <1>1. ASSUME NEW y \in Nodes
        PROVE  /\ log'[y] = IF y \in X THEN NewFile(log[y]) ELSE log[y]
               /\ NewFile(log[y]).lines = <<>> /\ NewFile(log[y]).file = log[y].file + 1
               /\ log[y].file \in Nat
    BY UnlinkIs, LogIs
  <1>2. ASSUME NEW p \in Processes
        PROVE  reader'[p] = IF Moved(p, X) THEN [reader[p] EXCEPT !.held = Just(log[reader[p].left[1]])] ELSE reader[p]
    BY UnlinkIs
  <1>3. ASSUME NEW o \in [read : Nat, of : Nat], NEW y \in Nodes, Fit(o, y)
        PROVE  Fit(o, y)'
    BY <1>1, <1>3 DEF Fit, Lines
  <1>4. ASSUME NEW n \in Names, NEW y \in Nodes
        PROVE  Fit(offsets[n][y], y)'
    <2>1. Fit(offsets[n][y], y) /\ offsets[n][y] \in [read : Nat, of : Nat]
      BY DEF FilesInv, RTypes, Offsets
    <2>2. CASE offsets'[n] = offsets[n]
      BY <1>3, <2>1, <2>2
    <2>3. CASE offsets'[n] = Unread
      <3>1. log'[y] \in Log
        BY UnlinkIs
      <3>2. log'[y].file \in Nat /\ Len(log'[y].lines) \in Nat
        BY <3>1 DEF Log
      <3>3. offsets'[n][y].of = 0 /\ offsets'[n][y].read = 0
        BY <2>3 DEF Unread
      <3> QED BY <3>2, <3>3 DEF Fit, Lines
    <2> QED BY <2>2, <2>3
  <1>5. ASSUME NEW p \in Processes, ~Moved(p, X)
        PROVE  /\ Harvesting(p)' => \A y \in Nodes : Fit(reader[p].off[y], y)'
               /\ reader'[p].at = "scan" => reader'[p].line <= Len(InHand(p)'.lines)
               /\ Holding(p)' => Outlived(reader[p])'
    <2>1. reader'[p] = reader[p]
      BY <1>2, <1>5
    <2>2. Harvesting(p) => \A y \in Nodes : Fit(reader[p].off[y], y)'
      BY <1>3, <2>1, ReaderIs DEF FilesInv, Offsets
    <2>3. ASSUME reader[p].at = "scan"
          PROVE  reader[p].line <= Len(InHand(p)'.lines) /\ (Holding(p) => Outlived(reader[p])')
      <3>1. reader[p].left[1] \in Nodes /\ Harvesting(p)
        BY <2>3, OfIs
      <3>2. reader[p].line <= Len(InHand(p).lines)
        BY <2>3 DEF FilesInv
      <3>3. CASE reader[p].held.is
        <4>1. Outlived(reader[p]) /\ InHand(p)' = InHand(p)
          BY <2>1, <2>3, <3>3 DEF FilesInv, Holding, InHand
        <4>2. reader[p].held.v.file \in Nat
          BY <2>3, <3>3, HandIs DEF InHand
        <4>3. log[reader[p].left[1]].file <= log'[reader[p].left[1]].file
          BY <1>1, <3>1
        <4>4. reader[p].held.v.file < log'[reader[p].left[1]].file
          BY <1>1, <3>1, <4>1, <4>2 DEF Outlived
        <4> QED BY <2>1, <3>2, <4>1, <4>4 DEF Outlived
      <3>4. CASE ~reader[p].held.is
        <4>1. reader[p].left[1] \notin X
          BY <1>5, <2>3, <3>4 DEF Moved, Reads
        <4> QED BY <1>1, <2>1, <3>1, <3>2, <3>4, <4>1 DEF InHand, Holding
      <3> QED BY <3>3, <3>4
    <2>4. Harvesting(p)' = Harvesting(p) /\ Holding(p)' = Holding(p)
      BY <2>1 DEF Harvesting, Holding
    <2> QED BY <2>1, <2>2, <2>3, <2>4 DEF Holding
  <1>6. ASSUME NEW p \in Processes, Moved(p, X)
        PROVE  /\ Harvesting(p)' => \A y \in Nodes : Fit(reader[p].off[y], y)'
               /\ reader'[p].at = "scan" => reader'[p].line <= Len(InHand(p)'.lines)
               /\ Holding(p)' => Outlived(reader[p])'
    <2> DEFINE x == reader[p].left[1]
               held == Just(log[x])
    <2>1. reader[p].at = "scan" /\ ~reader[p].held.is /\ x \in X
      BY <1>6 DEF Moved, Reads
    <2>2. x \in Nodes /\ Harvesting(p)
      BY <2>1, OfIs
    <2>3. reader[p] \in Reader /\ reader[p].off \in Offsets
      BY <2>2, ReaderIs
    <2>4. reader'[p] = [reader[p] EXCEPT !.held = held]
      BY <1>2, <1>6
    <2>5. held.is /\ held.v = log[x]
      BY DEF Just
    <2> HIDE DEF held
    <2>6. reader'[p].left = reader[p].left /\ reader'[p].off = reader[p].off /\ reader'[p].line = reader[p].line
          /\ reader'[p].held = held /\ reader'[p].at = "scan"
      BY <2>1, <2>3, <2>4 DEF Reader
    <2>7. \A y \in Nodes : Fit(reader[p].off[y], y)
      BY <2>2 DEF FilesInv
    <2>8. \A y \in Nodes : Fit(reader[p].off[y], y)'
      BY <1>3, <2>3, <2>6, <2>7 DEF Offsets
    <2>9. InHand(p) = log[x] /\ InHand(p)' = log[x]
      BY <2>1, <2>5, <2>6 DEF InHand
    <2>10. reader[p].line <= Len(log[x].lines)
      BY <2>1, <2>9 DEF FilesInv
    <2>11. log[x].file < log'[x].file
      BY <1>1, <2>1, <2>2
    <2>12. reader[p].off[x].of <= log[x].file
      BY <2>2, <2>7 DEF Fit
    <2> QED BY <2>5, <2>6, <2>8, <2>9, <2>10, <2>11, <2>12 DEF Outlived
  <1>7. ASSUME NEW p \in Processes
        PROVE  /\ Harvesting(p)' => \A y \in Nodes : Fit(reader[p].off[y], y)'
               /\ reader'[p].at = "scan" => reader'[p].line <= Len(InHand(p)'.lines)
               /\ Holding(p)' => Outlived(reader[p])'
    BY <1>5, <1>6
  <1> QED BY <1>4, <1>7 DEF FilesInv

-----------------------------------------------------------------------------
(* What comes to a record.                                                 *)

LEMMA LogTypes ==
  ASSUME RTypes, log' \in [Nodes -> Log], said' \in Nat, UNCHANGED <<now, record, offsets, reader, spoilt>>
  PROVE  RTypes'
  BY DEF RTypes

LEMMA UnlinkTypes ==
  ASSUME RTypes, NEW X, Unlink(X), UNCHANGED <<now, said>>,
         record' \in [Names -> Seq(Entry)], offsets' \in [Names -> Offsets],
         spoilt' \in [Names -> SUBSET Spoils]
  PROVE  RTypes'
  <1>1. /\ log' \in [Nodes -> Log] /\ reader' \in [Processes -> {Idle} \cup Reader]
        /\ \A p \in Processes : reader'[p] = IF Moved(p, X) THEN [reader[p] EXCEPT !.held = Just(log[reader[p].left[1]])] ELSE reader[p]
    BY UnlinkIs
  <1>2. ASSUME NEW p \in Processes, reader'[p].at = "scan"
        PROVE  reader'[p].left # <<>>
    <2>1. CASE ~Moved(p, X)
      BY <1>1, <1>2, <2>1 DEF RTypes
    <2>2. CASE Moved(p, X)
      <3>1. reader[p].at = "scan" /\ reader[p].left # <<>>
        BY <2>2 DEF Moved, Reads, RTypes
      <3>2. reader[p] \in Reader
        BY <3>1, OfIs, ReaderIs
      <3> DEFINE h == Just(log[reader[p].left[1]])
      <3>3. reader'[p] = [reader[p] EXCEPT !.held = h]
        BY <1>1, <2>2
      <3> HIDE DEF h
      <3>4. reader'[p].left = reader[p].left
        BY <3>2, <3>3 DEF Reader
      <3> QED BY <3>1, <3>4
    <2> QED BY <2>1, <2>2
  <1> QED BY <1>1, <1>2 DEF RTypes

LEMMA ToolIs ==
  ASSUME RTypes
  PROVE  ToolEntry \in Entry /\ ToolEntry.actor = "tool" /\ ToolEntry.id = 0
  BY DEF ToolEntry, Entry, RTypes

LEMMA AppendTypes ==
  ASSUME RTypes, NEW n \in Names, NEW e \in Entry, record' = [record EXCEPT ![n] = Append(@, e)]
  PROVE  /\ record' \in [Names -> Seq(Entry)]
         /\ \A m \in Names : record'[m] = IF m = n THEN Append(record[n], e) ELSE record[m]
  <1>1. record \in [Names -> Seq(Entry)] /\ record[n] \in Seq(Entry)
    BY DEF RTypes
  <1> DEFINE longer == Append(record[n], e)
  <1>2. longer \in Seq(Entry)
    BY <1>1
  <1>3. record' = [record EXCEPT ![n] = longer]
    OBVIOUS
  <1> HIDE DEF longer
  <1>4. record' \in [Names -> Seq(Entry)] /\ \A m \in Names : record'[m] = IF m = n THEN longer ELSE record[m]
    BY <1>1, <1>2, <1>3
  <1> QED BY <1>4 DEF longer

\* The timeline has one entry of each thing the engine said, none of the tool's.
Distinct(n) ==
  \A i, j \in DOMAIN record[n] :
    record[n][i].actor = "engine" /\ record[n][i].id = record[n][j].id => i = j
ToolIds == \A n \in Names : \A i \in DOMAIN record[n] : record[n][i].actor = "tool" => record[n][i].id = 0

LEMMA AppendIds ==
  ASSUME RTypes, NEW n \in Names, NEW e \in Entry, record' = [record EXCEPT ![n] = Append(@, e)]
  PROVE  /\ \A m \in Names : IdsIn(m)' = IF m = n /\ e.actor = "engine" THEN IdsIn(m) \cup {e.id} ELSE IdsIn(m)
         /\ \A m \in Names : m # n => (Distinct(m)' <=> Distinct(m))
         /\ ToolIds /\ (e.actor = "tool" => e.id = 0) => ToolIds'
         /\ ToolIds /\ IdsInv /\ e.actor = "tool" /\ e.id = 0 /\ Distinct(n) => Distinct(n)'
         /\ ToolIds /\ e.actor = "engine" /\ e.id # 0 /\ e.id \notin IdsIn(n) /\ Distinct(n) => Distinct(n)'
  <1> DEFINE s == record[n]
             t == Append(s, e)
  <1>1. /\ \A m \in Names : record'[m] = IF m = n THEN t ELSE record[m]
        /\ s \in Seq(Entry)
    BY AppendTypes DEF RTypes
  <1>2. /\ Len(s) \in Nat /\ DOMAIN s = 1..Len(s) /\ DOMAIN t = 1..(Len(s) + 1)
        /\ \A i \in DOMAIN s : t[i] = s[i]
        /\ t[Len(s) + 1] = e
    BY <1>1
  <1> HIDE DEF t
  <1>3. DOMAIN t = DOMAIN s \cup {Len(s) + 1} /\ Len(s) + 1 \notin DOMAIN s
    BY <1>2
  <1>4. \A i \in DOMAIN t : \/ i \in DOMAIN s /\ t[i] = s[i]
                            \/ i = Len(s) + 1 /\ t[i] = e
    BY <1>2, <1>3
  <1>5. \A m \in Names : IdsIn(m)' = IF m = n /\ e.actor = "engine" THEN IdsIn(m) \cup {e.id} ELSE IdsIn(m)
    <2> SUFFICES ASSUME NEW m \in Names
                 PROVE  IdsIn(m)' = IF m = n /\ e.actor = "engine" THEN IdsIn(m) \cup {e.id} ELSE IdsIn(m)
      OBVIOUS
    <2>1. CASE m # n
      BY <1>1, <2>1 DEF IdsIn
    <2>2. CASE m = n
      <3>1. IdsIn(n)' = {t[i].id : i \in {i \in DOMAIN t : t[i].actor = "engine"}}
        BY <1>1 DEF IdsIn
      <3>2. IdsIn(n) = {s[i].id : i \in {i \in DOMAIN s : s[i].actor = "engine"}}
        BY DEF IdsIn
      <3> HIDE DEF s
      <3>3. {t[i].id : i \in {i \in DOMAIN t : t[i].actor = "engine"}}
              = {s[i].id : i \in {i \in DOMAIN s : s[i].actor = "engine"}} \cup (IF e.actor = "engine" THEN {e.id} ELSE {})
        BY <1>2, <1>3, <1>4
      <3> QED BY <2>2, <3>1, <3>2, <3>3
    <2> QED BY <2>1, <2>2
  <1>6. \A m \in Names : m # n => (Distinct(m)' <=> Distinct(m))
    BY <1>1 DEF Distinct
  <1>7. ToolIds /\ (e.actor = "tool" => e.id = 0) => ToolIds'
    <2> SUFFICES ASSUME ToolIds, e.actor = "tool" => e.id = 0, NEW m \in Names
                 PROVE  \A i \in DOMAIN record'[m] : record'[m][i].actor = "tool" => record'[m][i].id = 0
      BY DEF ToolIds
    <2>1. CASE m # n
      BY <1>1, <2>1 DEF ToolIds
    <2>2. CASE m = n
      <3>1. \A i \in DOMAIN s : s[i].actor = "tool" => s[i].id = 0
        BY DEF ToolIds
      <3>2. record'[m] = t
        BY <1>1, <2>2
      <3> HIDE DEF s
      <3> QED BY <1>4, <3>1, <3>2
    <2> QED BY <2>1, <2>2
  <1>8. Distinct(n)' <=> \A i, j \in DOMAIN t : t[i].actor = "engine" /\ t[i].id = t[j].id => i = j
    BY <1>1 DEF Distinct
  <1>9. Distinct(n) <=> \A i, j \in DOMAIN s : s[i].actor = "engine" /\ s[i].id = s[j].id => i = j
    BY DEF Distinct
  <1>10. \A i \in DOMAIN s : s[i].actor = "engine" => s[i].id \in IdsIn(n)
    BY DEF IdsIn
  <1>11. \A i \in DOMAIN s : s[i].actor \in {"tool", "engine"}
    <2>1. \A i \in DOMAIN s : s[i] \in Entry
      BY <1>1
    <2> QED BY <2>1 DEF Entry
  <1>12. ToolIds => \A i \in DOMAIN s : s[i].actor = "tool" => s[i].id = 0
    BY DEF ToolIds
  <1>13. ToolIds /\ IdsInv /\ e.actor = "tool" /\ e.id = 0 /\ Distinct(n) => Distinct(n)'
    <2> SUFFICES ASSUME IdsInv, e.actor = "tool", e.id = 0, Distinct(n), NEW i \in DOMAIN t, NEW j \in DOMAIN t,
                        t[i].actor = "engine", t[i].id = t[j].id
                 PROVE  i = j
      BY <1>8
    <2>1. i \in DOMAIN s /\ t[i] = s[i]
      BY <1>4
    <2>2. s[i].id \in 1..said
      BY <1>10, <2>1 DEF IdsInv
    <2>3. s[i].id # 0
      BY <2>2 DEF RTypes
    <2>4. j \in DOMAIN s /\ t[j] = s[j]
      BY <1>4, <2>1, <2>3
    <2> HIDE DEF s
    <2> QED BY <1>9, <2>1, <2>4
  <1>14. ToolIds /\ e.actor = "engine" /\ e.id # 0 /\ e.id \notin IdsIn(n) /\ Distinct(n) => Distinct(n)'
    <2> SUFFICES ASSUME ToolIds, e.actor = "engine", e.id # 0, e.id \notin IdsIn(n), Distinct(n),
                        NEW i \in DOMAIN t, NEW j \in DOMAIN t, t[i].actor = "engine", t[i].id = t[j].id
                 PROVE  i = j
      BY <1>8
    <2>1. \A k \in DOMAIN s : s[k].id # e.id
      BY <1>10, <1>11, <1>12
    <2> HIDE DEF s
    <2>2. CASE i \in DOMAIN s /\ j \in DOMAIN s
      BY <1>2, <1>9, <2>2
    <2>3. CASE ~(i \in DOMAIN s /\ j \in DOMAIN s)
      BY <1>4, <2>1, <2>3
    <2> QED BY <2>2, <2>3
  <1> QED BY <1>5, <1>6, <1>7, <1>13, <1>14

\* A line that is read was in a log, or in the file in hand.
LEMMA LineIsHeard ==
  ASSUME RTypes, NEW p \in Processes, ReadLine(p)
  PROVE  LET r == reader[p]
             line == InHand(p).lines[r.line + 1]
         IN /\ line.kind = "ha" => \/ Holding(p) /\ line.id \in WordIds(HeldLines(p))
                                   \/ line.id \in WordIds(Lines(r.left[1]))
            /\ line.kind = "ha" => /\ r.line + 1 \in WordsAt(InHand(p).lines) /\ line.id \in Nat \ {0}
                                   /\ r.n \in Names /\ EngineEntry(line, r.last) \in Entry
                                   /\ EngineEntry(line, r.last).id = line.id
                                   /\ EngineEntry(line, r.last).actor = "engine"
  <1> DEFINE r == reader[p]
             line == InHand(p).lines[r.line + 1]
  <1>1. r.at = "scan" /\ ~AtEnd(p) /\ Harvesting(p)
    BY LineIs
  <1>2. /\ r.line + 1 \in DOMAIN InHand(p).lines /\ line \in LogLine
        /\ EngineEntry(line, r.last) \in Entry
        /\ EngineEntry(line, r.last).id = line.id /\ EngineEntry(line, r.last).actor = "engine"
    BY <1>1, NextLine
  <1>3. line.kind = "ha" => r.line + 1 \in WordsAt(InHand(p).lines) /\ line.id \in WordIds(InHand(p).lines)
    BY <1>2 DEF WordsAt, WordIds
  <1>4. line.id \in Nat \ {0}
    BY <1>2 DEF LogLine
  <1>5. InHand(p).lines = IF r.held.is THEN HeldLines(p) ELSE Lines(r.left[1])
    BY DEF InHand, HeldLines, Lines
  <1>6. r.n \in Names
    BY <1>1, ReaderIs
  <1> HIDE DEF line
  <1> QED BY <1>1, <1>2, <1>3, <1>4, <1>5, <1>6 DEF Holding, line

LEMMA HarvestIds ==
  ASSUME RTypes, IdsInv, NEW p \in Processes,
         \/ \E n \in Names, nodes \in Seq(Nodes) : LoadOffsets(p, n, nodes)
         \/ OpenFile(p) \/ NoFile(p) \/ AllRead(p) \/ ReadLine(p) \/ EndOfFile(p)
         \/ SaveOffsets(p) \/ LoseOffsets(p) \/ DropHarvest(p)
  PROVE  IdsInv'
  <1>1. ASSUME UNCHANGED <<said, log>>, \A q \in Processes : q # p => reader'[q] = reader[q],
               Holding(p)' => Holding(p) /\ reader'[p].held = reader[p].held,
               \A n \in Names : \A e \in IdsIn(n)' :
                  \/ e \in IdsIn(n)
                  \/ \E x \in Nodes : e \in WordIds(Lines(x))
                  \/ \E q \in Processes : Holding(q) /\ e \in WordIds(HeldLines(q))
        PROVE  IdsInv'
    <2>1. \A q \in Processes : Holding(q)' => Holding(q) /\ reader'[q].held = reader[q].held
      BY <1>1 DEF Holding
    <2> QED BY <1>1, <2>1, IdsKept
  <1>2. record' = record => \A n \in Names : IdsIn(n)' = IdsIn(n)
    BY DEF IdsIn
  <1>3. ASSUME NEW n \in Names, NEW nodes \in Seq(Nodes), LoadOffsets(p, n, nodes)
        PROVE  IdsInv'
    <2>1. /\ reader'[p].at = "open" /\ \A q \in Processes : q # p => reader'[q] = reader[q]
          /\ UNCHANGED <<now, said, record, offsets, log>>
      BY <1>3, LoadIs
    <2> QED BY <1>1, <1>2, <2>1 DEF Holding
  <1>4. CASE OpenFile(p)
    <2>1. /\ reader'[p].held = Nil /\ \A q \in Processes : q # p => reader'[q] = reader[q]
          /\ UNCHANGED <<now, said, record, offsets, log>>
      BY <1>4, OpenIs
    <2> QED BY <1>1, <1>2, <2>1 DEF Holding, Nil
  <1>5. CASE NoFile(p) \/ AllRead(p)
    <2>1. /\ reader'[p].at \in {"open", "save"} /\ \A q \in Processes : q # p => reader'[q] = reader[q]
          /\ UNCHANGED <<now, said, record, offsets, log>>
      BY <1>5, PassIs
    <2> QED BY <1>1, <1>2, <2>1 DEF Holding
  <1>6. CASE ReadLine(p)
    <2> DEFINE line == InHand(p).lines[reader[p].line + 1]
               e == EngineEntry(line, reader[p].last)
               n == reader[p].n
    <2>1. /\ reader[p].at = "scan" /\ reader'[p].held = reader[p].held
          /\ \A q \in Processes : q # p => reader'[q] = reader[q]
          /\ UNCHANGED <<now, said, offsets, log>>
          /\ \/ record' = record
             \/ line.kind = "ha" /\ record' = [record EXCEPT ![n] = Append(@, e)]
      BY <1>6, LineIs
    <2>2. line.kind = "ha" => /\ \/ Holding(p) /\ line.id \in WordIds(HeldLines(p))
                                 \/ line.id \in WordIds(Lines(reader[p].left[1]))
                              /\ n \in Names /\ e \in Entry /\ e.id = line.id
      BY <1>6, LineIsHeard
    <2>3. reader[p].left[1] \in Nodes
      BY <2>1, OfIs
    <2> HIDE DEF line, e, n
    <2>4. ASSUME line.kind = "ha", record' = [record EXCEPT ![n] = Append(@, e)]
          PROVE  \A m \in Names : \A i \in IdsIn(m)' : i \in IdsIn(m) \/ i = line.id
      <3>1. n \in Names /\ e \in Entry /\ e.id = line.id
        BY <2>2, <2>4
      <3>2. \A m \in Names : IdsIn(m)' = IF m = n /\ e.actor = "engine" THEN IdsIn(m) \cup {e.id} ELSE IdsIn(m)
        BY <2>4, <3>1, AppendIds
      <3> QED BY <3>1, <3>2
    <2>5. \A m \in Names : \A i \in IdsIn(m)' :
             \/ i \in IdsIn(m)
             \/ \E x \in Nodes : i \in WordIds(Lines(x))
             \/ \E q \in Processes : Holding(q) /\ i \in WordIds(HeldLines(q))
      BY <1>2, <2>1, <2>2, <2>3, <2>4
    <2> QED BY <1>1, <2>1, <2>5 DEF Holding
  <1>7. CASE EndOfFile(p)
    <2>1. /\ reader'[p].at = "open" /\ \A q \in Processes : q # p => reader'[q] = reader[q]
          /\ UNCHANGED <<now, said, record, offsets, log>>
      BY <1>7, EndIs
    <2> QED BY <1>1, <1>2, <2>1 DEF Holding
  <1>8. CASE SaveOffsets(p) \/ LoseOffsets(p) \/ DropHarvest(p)
    <2>1. /\ reader'[p] = Idle /\ \A q \in Processes : q # p => reader'[q] = reader[q]
          /\ UNCHANGED <<now, said, record, log>>
      BY <1>8, OverIs
    <2> QED BY <1>1, <1>2, <2>1 DEF Holding, Idle
  <1> QED BY <1>3, <1>4, <1>5, <1>6, <1>7, <1>8

-----------------------------------------------------------------------------
(* What a record has of a log, and what a harvest of it still has to read. *)

Alone(n) ==
  \A p, q \in Processes : Harvests(p, n) /\ Harvests(q, n) /\ p # q => "overlapped" \in spoilt[n]

\* The words of a log that are in the record are among its first k lines, and
\* all of those are.
OnlyTo(n, s, k) == \A i \in WordsAt(s) : s[i].id \in IdsIn(n) => i <= k
AllTo(n, s, k) == \A i \in WordsAt(s) : i <= k => s[i].id \in IdsIn(n)

OnlyRead(p, n) ==
  /\ \A x \in Nodes : OnlyTo(n, Lines(x), Mark(p, x))
  /\ Holding(p) => OnlyTo(n, HeldLines(p), reader[p].line)
AllRecorded(p, n) ==
  \A x \in Nodes : AllTo(n, Lines(x), Mark(p, x)) /\ AllTo(n, Lines(x), ReadTo(reader[p].off[x], x))

Once(n) ==
  spoilt[n] \cap {"cut", "overlapped", "unended"} = {} =>
    /\ Distinct(n)
    /\ \A p \in Processes : Harvests(p, n) => OnlyRead(p, n)
    /\ (\A p \in Processes : ~Harvests(p, n)) => \A x \in Nodes : OnlyTo(n, Lines(x), ReadTo(offsets[n][x], x))
Whole(n) ==
  spoilt[n] \cap {"outgrown", "purged"} = {} =>
    /\ \A x \in Nodes : AllTo(n, Lines(x), ReadTo(offsets[n][x], x))
    /\ \A p \in Processes : Harvests(p, n) => AllRecorded(p, n)
Kept(n) == Alone(n) /\ Once(n) /\ Whole(n)

\* A harvest that is as it was, of logs that are as they were.
LEMMA MarkStays ==
  ASSUME NEW p \in Processes, NEW n \in Names, reader'[p] = reader[p], log' = log
  PROVE  /\ Harvests(p, n)' = Harvests(p, n)
         /\ IdsIn(n)' = IdsIn(n) /\ OnlyRead(p, n) => OnlyRead(p, n)'
         /\ IdsIn(n) \subseteq IdsIn(n)' /\ AllRecorded(p, n) => AllRecorded(p, n)'
  <1>1. Harvests(p, n)' = Harvests(p, n) /\ Holding(p)' = Holding(p) /\ HeldLines(p)' = HeldLines(p)
    BY DEF Harvests, Harvesting, Holding, HeldLines
  <1>2. /\ \A x \in Nodes : Lines(x)' = Lines(x) /\ Mark(p, x)' = Mark(p, x)
        /\ \A x \in Nodes : ReadTo(reader[p].off[x], x)' = ReadTo(reader[p].off[x], x)
    BY DEF Lines, Mark, Reads, ReadTo
  <1> QED BY <1>1, <1>2 DEF OnlyRead, AllRecorded, OnlyTo, AllTo, WordsAt

\* A cluster nothing happens to.
LEMMA NameKept ==
  ASSUME NEW n \in Names, Kept(n), IdsIn(n)' = IdsIn(n), Distinct(n) => Distinct(n)',
         offsets'[n] = offsets[n], spoilt[n] \subseteq spoilt'[n], log' = log,
         \A p \in Processes : reader'[p] = reader[p] \/ (~Harvests(p, n) /\ ~Harvests(p, n)')
  PROVE  Kept(n)'
  <1>1. \A p \in Processes : /\ Harvests(p, n)' = Harvests(p, n)
                             /\ Harvests(p, n) => (OnlyRead(p, n) => OnlyRead(p, n)')
                             /\ Harvests(p, n) => (AllRecorded(p, n) => AllRecorded(p, n)')
    <2> SUFFICES ASSUME NEW p \in Processes
                 PROVE  /\ Harvests(p, n)' = Harvests(p, n)
                        /\ Harvests(p, n) => (OnlyRead(p, n) => OnlyRead(p, n)')
                        /\ Harvests(p, n) => (AllRecorded(p, n) => AllRecorded(p, n)')
      OBVIOUS
    <2>1. CASE reader'[p] = reader[p]
      BY <2>1, MarkStays
    <2>2. CASE ~Harvests(p, n) /\ ~Harvests(p, n)'
      <3>1. Harvests(p, n) \in BOOLEAN /\ Harvests(p, n)' \in BOOLEAN
        BY DEF Harvests
      <3> QED BY <2>2, <3>1
    <2> QED BY <2>1, <2>2
  <1>2. Alone(n)'
    BY <1>1 DEF Kept, Alone
  <1>3. \A x \in Nodes : Lines(x)' = Lines(x) /\ ReadTo(offsets[n][x], x)' = ReadTo(offsets[n][x], x)
    BY DEF Lines, ReadTo
  <1>4. /\ \A x \in Nodes : OnlyTo(n, Lines(x), ReadTo(offsets[n][x], x)) => OnlyTo(n, Lines(x), ReadTo(offsets[n][x], x))'
        /\ \A x \in Nodes : AllTo(n, Lines(x), ReadTo(offsets[n][x], x)) => AllTo(n, Lines(x), ReadTo(offsets[n][x], x))'
    BY <1>3 DEF OnlyTo, AllTo, WordsAt
  <1>5. Once(n)'
    BY <1>1, <1>4 DEF Kept, Once
  <1>6. Whole(n)'
    BY <1>1, <1>4 DEF Kept, Whole
  <1> QED BY <1>2, <1>5, <1>6 DEF Kept

\* A step of the one harvest of a record that counts.
LEMMA OneReads ==
  ASSUME NEW n \in Names, NEW p \in Processes, Kept(n), Harvests(p, n), Harvests(p, n)',
         \A q \in Processes : q # p => reader'[q] = reader[q],
         UNCHANGED <<log, offsets>>, spoilt[n] \subseteq spoilt'[n], IdsIn(n) \subseteq IdsIn(n)',
         spoilt'[n] \cap {"cut", "overlapped", "unended"} = {} /\ Distinct(n) /\ OnlyRead(p, n) =>
           Distinct(n)' /\ OnlyRead(p, n)',
         spoilt'[n] \cap {"outgrown", "purged"} = {} /\ AllRecorded(p, n) => AllRecorded(p, n)'
  PROVE  Kept(n)'
  <1>1. \A q \in Processes : Harvests(q, n)' <=> Harvests(q, n)
    BY DEF Harvests, Harvesting
  <1>2. Alone(n)'
    BY <1>1 DEF Kept, Alone
  <1>3. ASSUME spoilt'[n] \cap {"cut", "overlapped", "unended"} = {}
        PROVE  /\ Distinct(n)' /\ \A q \in Processes : Harvests(q, n)' => OnlyRead(q, n)'
    <2>1. Distinct(n) /\ OnlyRead(p, n)
      BY <1>3 DEF Kept, Once
    <2>2. \A q \in Processes : Harvests(q, n) => q = p
      BY <1>3 DEF Kept, Alone
    <2> QED BY <1>1, <1>3, <2>1, <2>2
  <1>4. Once(n)'
    BY <1>1, <1>3 DEF Once
  <1>5. ASSUME spoilt'[n] \cap {"outgrown", "purged"} = {}
        PROVE  /\ \A x \in Nodes : AllTo(n, Lines(x), ReadTo(offsets[n][x], x))'
               /\ \A q \in Processes : Harvests(q, n)' => AllRecorded(q, n)'
    <2>1. /\ \A x \in Nodes : AllTo(n, Lines(x), ReadTo(offsets[n][x], x))
          /\ \A q \in Processes : Harvests(q, n) => AllRecorded(q, n)
      BY <1>5 DEF Kept, Whole
    <2>2. \A x \in Nodes : Lines(x)' = Lines(x) /\ ReadTo(offsets[n][x], x)' = ReadTo(offsets[n][x], x)
      BY DEF Lines, ReadTo
    <2>3. \A x \in Nodes : AllTo(n, Lines(x), ReadTo(offsets[n][x], x))'
      BY <2>1, <2>2 DEF AllTo, WordsAt
    <2>4. ASSUME NEW q \in Processes, Harvests(q, n)'
          PROVE  AllRecorded(q, n)'
      <3>1. CASE q = p
        BY <1>5, <2>1, <3>1
      <3>2. CASE q # p
        BY <1>1, <2>1, <2>4, <3>2, MarkStays
      <3> QED BY <3>1, <3>2
    <2> QED BY <2>3, <2>4
  <1>6. Whole(n)'
    BY <1>5 DEF Whole
  <1> QED BY <1>2, <1>4, <1>6 DEF Kept

LEMMA SpoiltIs ==
  ASSUME RTypes, NEW n \in Names, NEW how, Spoil(n, how)
  PROVE  /\ spoilt'[n] = spoilt[n] \cup how
         /\ \A m \in Names : m # n => spoilt'[m] = spoilt[m]
         /\ \A m \in Names : spoilt[m] \subseteq spoilt'[m]
  BY DEF RTypes, Spoil

\* The other clusters of a step of p's harvest.
LEMMA OthersKept ==
  ASSUME RTypes, NEW p \in Processes, NEW n \in Names, NEW m \in Names, m # n, Kept(m), log' = log,
         ~Harvests(p, m), ~Harvests(p, m)',
         \A q \in Processes : q # p => reader'[q] = reader[q],
         record'[m] = record[m], offsets'[m] = offsets[m], spoilt'[m] = spoilt[m]
  PROVE  Kept(m)'
  <1>1. IdsIn(m)' = IdsIn(m) /\ Distinct(m)' = Distinct(m)
    BY DEF IdsIn, Distinct
  <1>2. \A q \in Processes : reader'[q] = reader[q] \/ (~Harvests(q, m) /\ ~Harvests(q, m)')
    OBVIOUS
  <1> QED BY <1>1, <1>2, NameKept

LEMMA OpenKeeps ==
  ASSUME RTypes, FilesInv, NEW p \in Processes, OpenFile(p), \A n \in Names : Kept(n)
  PROVE  \A n \in Names : Kept(n)'
  <1> DEFINE r == reader[p]
             x == r.left[1]
             o == r.off[x]
             s == Start(x, o)
             other == o.of # log[x].file
             shorter == Size(x) < 2 * o.read
             how == (IF other /\ o.read > 0 /\ ~shorter THEN {"outgrown"} ELSE {})
                    \cup (IF ~other /\ shorter THEN {"unended"} ELSE {})
  <1>1. /\ r.at = "open" /\ x \in Nodes /\ Harvesting(p) /\ o.read \in Nat /\ o.of \in Nat
        /\ reader'[p].at = "scan" /\ reader'[p].line = s /\ reader'[p].held = Nil
        /\ reader'[p].left = r.left /\ reader'[p].off = r.off /\ reader'[p].n = r.n
        /\ \A q \in Processes : q # p => reader'[q] = reader[q]
        /\ UNCHANGED <<now, said, record, offsets, log>>
        /\ s \in Nat
    BY OpenIs
  <1>2. Spoil(r.n, how)
    BY DEF OpenFile
  <1>3. PICK n \in Names : n = r.n
    BY <1>1, ReaderIs
  <1>4. s = IF shorter THEN 0 ELSE o.read
    BY DEF Start
  <1> HIDE DEF s, other, shorter
  <1>0. Spoil(n, how)
    BY <1>2, <1>3
  <1>5. /\ spoilt'[n] = spoilt[n] \cup how
        /\ \A m \in Names : m # n => spoilt'[m] = spoilt[m]
    BY <1>0, SpoiltIs
  <1>6. \A m \in Names : (Harvests(p, m) <=> m = n) /\ (Harvests(p, m)' <=> m = n)
    BY <1>1, <1>3 DEF Harvests, Harvesting
  <1>7. \A y \in Nodes : /\ Lines(y)' = Lines(y)
                         /\ ReadTo(r.off[y], y)' = ReadTo(r.off[y], y)
                         /\ Mark(p, y) = ReadTo(r.off[y], y)
                         /\ Mark(p, y)' = IF y = x THEN s ELSE ReadTo(r.off[y], y)
    <2>1. \A y \in Nodes : ~Reads(p, y) /\ (Reads(p, y)' <=> y = x)
      BY <1>1 DEF Reads
    <2>2. ~reader'[p].held.is
      BY <1>1 DEF Nil
    <2>3. \A y \in Nodes : ReadTo(r.off[y], y)' = ReadTo(r.off[y], y)
      BY <1>1 DEF ReadTo
    <2> QED BY <1>1, <2>1, <2>2, <2>3 DEF Lines, Mark
  <1>8. ReadTo(o, x) = IF other THEN 0 ELSE o.read
    BY DEF ReadTo, other
  <1>9. \A m \in Names : IdsIn(m)' = IdsIn(m) /\ Distinct(m)' = Distinct(m)
    BY <1>1 DEF IdsIn, Distinct
  <1>10. ~Holding(p)'
    BY <1>1 DEF Holding, Nil
  <1>11. ASSUME spoilt'[n] \cap {"cut", "overlapped", "unended"} = {}, OnlyRead(p, n)
         PROVE  OnlyRead(p, n)'
    <2>1. ~(~other /\ shorter)
      BY <1>5, <1>11
    <2>2. ReadTo(o, x) <= s
      BY <1>1, <1>4, <1>8, <2>1
    <2>3. \A y \in Nodes : OnlyTo(n, Lines(y), ReadTo(r.off[y], y))
      BY <1>7, <1>11 DEF OnlyRead
    <2>4. ASSUME NEW i \in WordsAt(Lines(x)), Lines(x)[i].id \in IdsIn(n)
          PROVE  i <= s
      <3>1. i \in Nat /\ i <= ReadTo(o, x) /\ ReadTo(o, x) \in Nat
        BY <1>1, <1>8, <2>3, <2>4, LogIs DEF OnlyTo, WordsAt
      <3> QED BY <1>1, <2>2, <3>1
    <2>5. \A y \in Nodes : OnlyTo(n, Lines(y), Mark(p, y)')
      BY <1>7, <2>3, <2>4 DEF OnlyTo
    <2>6. \A y \in Nodes : OnlyTo(n, Lines(y), Mark(p, y))'
      BY <1>1, <1>3, <1>7, <1>9, <2>5 DEF OnlyTo, WordsAt
    <2> QED BY <1>1, <1>10, <2>6 DEF OnlyRead
  <1>12. ASSUME spoilt'[n] \cap {"outgrown", "purged"} = {}, AllRecorded(p, n)
         PROVE  AllRecorded(p, n)'
    <2>1. ~(other /\ o.read > 0 /\ ~shorter)
      BY <1>5, <1>12
    <2>2. s <= ReadTo(o, x)
      BY <1>1, <1>4, <1>8, <2>1
    <2>3. \A y \in Nodes : AllTo(n, Lines(y), ReadTo(r.off[y], y))
      BY <1>12 DEF AllRecorded
    <2>4. ASSUME NEW i \in WordsAt(Lines(x)), i <= s
          PROVE  Lines(x)[i].id \in IdsIn(n)
      <3>1. i \in Nat /\ ReadTo(o, x) \in Nat
        BY <1>1, <1>8, LogIs DEF WordsAt
      <3>2. i <= ReadTo(o, x)
        BY <1>1, <2>2, <2>4, <3>1
      <3> QED BY <1>1, <2>3, <3>2 DEF AllTo
    <2>5. \A y \in Nodes : AllTo(n, Lines(y), Mark(p, y)')
      BY <1>7, <2>3, <2>4 DEF AllTo
    <2>6. \A y \in Nodes : AllTo(n, Lines(y), Mark(p, y))' /\ AllTo(n, Lines(y), ReadTo(r.off[y], y))'
      BY <1>1, <1>3, <1>7, <1>9, <2>3, <2>5 DEF AllTo, WordsAt
    <2> QED BY <1>1, <2>6 DEF AllRecorded
  <1>13. Kept(n)'
    BY <1>1, <1>3, <1>5, <1>6, <1>9, <1>11, <1>12, OneReads
  <1>14. ASSUME NEW m \in Names, m # n
         PROVE  Kept(m)'
    BY <1>1, <1>3, <1>5, <1>6, <1>14, OthersKept
  <1> QED BY <1>1, <1>3, <1>13, <1>14

LEMMA PassKeeps ==
  ASSUME RTypes, NEW p \in Processes, NoFile(p) \/ AllRead(p), \A n \in Names : Kept(n)
  PROVE  \A n \in Names : Kept(n)'
  <1>1. /\ reader[p].at = "open" /\ Harvesting(p) /\ reader'[p].at \in {"open", "save"}
        /\ reader'[p].off = reader[p].off /\ reader'[p].n = reader[p].n
        /\ \A q \in Processes : q # p => reader'[q] = reader[q]
        /\ UNCHANGED <<now, said, record, offsets, log, spoilt>>
    BY PassIs
  <1>2. PICK n \in Names : n = reader[p].n
    BY <1>1, ReaderIs
  <1>3. \A m \in Names : (Harvests(p, m) <=> m = n) /\ (Harvests(p, m)' <=> m = n)
    BY <1>1, <1>2 DEF Harvests, Harvesting
  <1>4. \A y \in Nodes : /\ Lines(y)' = Lines(y) /\ Mark(p, y)' = Mark(p, y)
                         /\ ReadTo(reader[p].off[y], y)' = ReadTo(reader[p].off[y], y)
    BY <1>1 DEF Lines, Mark, Reads, ReadTo
  <1>5. IdsIn(n)' = IdsIn(n) /\ Distinct(n)' = Distinct(n) /\ ~Holding(p)'
    BY <1>1 DEF IdsIn, Distinct, Holding
  <1>6. OnlyRead(p, n) => OnlyRead(p, n)'
    BY <1>4, <1>5 DEF OnlyRead, OnlyTo, WordsAt
  <1>7. AllRecorded(p, n) => AllRecorded(p, n)'
    BY <1>4, <1>5 DEF AllRecorded, AllTo, WordsAt
  <1>8. Kept(n)'
    BY <1>1, <1>3, <1>5, <1>6, <1>7, OneReads
  <1>9. ASSUME NEW m \in Names, m # n
        PROVE  Kept(m)'
    BY <1>1, <1>3, <1>9, OthersKept
  <1> QED BY <1>8, <1>9

\* The words that are read were not in the record, and are.
LEMMA LineKeeps ==
  ASSUME RTypes, FilesInv, IdsInv, ToolIds, NEW p \in Processes, ReadLine(p), \A n \in Names : Kept(n)
  PROVE  \A n \in Names : Kept(n)'
  <1> DEFINE k == reader[p].line
             line == InHand(p).lines[k + 1]
             e == EngineEntry(line, reader[p].last)
             x == reader[p].left[1]
  <1>1. /\ reader[p].at = "scan" /\ Harvesting(p) /\ ~AtEnd(p)
        /\ reader'[p].at = "scan" /\ reader'[p].line = k + 1 /\ reader'[p].held = reader[p].held
        /\ reader'[p].left = reader[p].left /\ reader'[p].off = reader[p].off /\ reader'[p].n = reader[p].n
        /\ \A q \in Processes : q # p => reader'[q] = reader[q]
        /\ UNCHANGED <<now, said, offsets, log>>
        /\ \/ line.kind = "time" /\ UNCHANGED <<record, spoilt>>
           \/ /\ line.kind = "ha"
              /\ record' = [record EXCEPT ![reader[p].n] = Append(@, e)]
              /\ \E how : Spoil(reader[p].n, how)
    BY LineIs
  <1>2. PICK n \in Names : n = reader[p].n
    BY <1>1, ReaderIs
  <1>3. /\ line.kind = "ha" => /\ k + 1 \in WordsAt(InHand(p).lines) /\ line.id \in Nat \ {0}
                               /\ e \in Entry /\ e.id = line.id /\ e.actor = "engine"
        /\ k \in Nat /\ x \in Nodes
    BY <1>1, LineIsHeard, ReaderIs, OfIs
  <1>4. line.kind = "time" => k + 1 \notin WordsAt(InHand(p).lines)
    BY DEF WordsAt
  <1>5. \A m \in Names : (Harvests(p, m) <=> m = n) /\ (Harvests(p, m)' <=> m = n)
    BY <1>1, <1>2 DEF Harvests, Harvesting
  <1>6. /\ spoilt[n] \subseteq spoilt'[n] /\ \A m \in Names : m # n => spoilt'[m] = spoilt[m]
    BY <1>1, <1>2, SpoiltIs
  <1>7. /\ \A y \in Nodes : Lines(y)' = Lines(y) /\ ReadTo(reader[p].off[y], y)' = ReadTo(reader[p].off[y], y)
        /\ Holding(p)' = Holding(p) /\ HeldLines(p)' = HeldLines(p) /\ (Holding(p) <=> reader[p].held.is)
        /\ \A y \in Nodes : Mark(p, y) = IF y = x /\ ~Holding(p) THEN k ELSE ReadTo(reader[p].off[y], y)
        /\ \A y \in Nodes : Mark(p, y)' = IF y = x /\ ~Holding(p) THEN k + 1 ELSE ReadTo(reader[p].off[y], y)
    <2>1. \A y \in Nodes : (Reads(p, y) <=> y = x) /\ (Reads(p, y)' <=> y = x)
      BY <1>1 DEF Reads
    <2>2. \A y \in Nodes : Lines(y)' = Lines(y) /\ ReadTo(reader[p].off[y], y)' = ReadTo(reader[p].off[y], y)
      BY <1>1 DEF Lines, ReadTo
    <2>3. Holding(p)' = Holding(p) /\ HeldLines(p)' = HeldLines(p) /\ (Holding(p) <=> reader[p].held.is)
      BY <1>1 DEF Holding, HeldLines
    <2> QED BY <1>1, <2>1, <2>2, <2>3 DEF Mark
  <1>8. InHand(p).lines = IF Holding(p) THEN HeldLines(p) ELSE Lines(x)
    BY <1>7 DEF InHand, HeldLines, Lines
  <1>9. k + 1 \in WordsAt(InHand(p).lines) <=> line.kind = "ha"
    BY <1>1, <1>3, <1>4
  <1> HIDE DEF e, x, k
  <1>10. /\ line.kind = "ha" => IdsIn(n)' = IdsIn(n) \cup {line.id}
         /\ line.kind = "time" => IdsIn(n)' = IdsIn(n) /\ Distinct(n)' = Distinct(n)
         /\ line.kind = "ha" /\ line.id \notin IdsIn(n) /\ Distinct(n) => Distinct(n)'
    <2> HIDE DEF line
    <2>1. CASE line.kind = "time"
      BY <1>1, <2>1 DEF IdsIn, Distinct
    <2>2. CASE line.kind = "ha"
      <3>1. record' = [record EXCEPT ![n] = Append(@, e)] /\ e \in Entry /\ e.id = line.id /\ e.actor = "engine" /\ line.id # 0
        BY <1>1, <1>2, <1>3, <2>2
      <3>2. /\ IdsIn(n)' = IF n = n /\ e.actor = "engine" THEN IdsIn(n) \cup {e.id} ELSE IdsIn(n)
            /\ ToolIds /\ e.actor = "engine" /\ e.id # 0 /\ e.id \notin IdsIn(n) /\ Distinct(n) => Distinct(n)'
        BY <3>1, AppendIds
      <3> QED BY <2>2, <3>1, <3>2
    <2> QED BY <1>1, <2>1, <2>2
  <1>11. \A m \in Names : m # n => record'[m] = record[m]
    <2>1. DOMAIN record = Names
      BY DEF RTypes
    <2> HIDE DEF line
    <2> QED BY <1>1, <1>2, <2>1
  <1>12. line.kind = "ha" => \A y \in Nodes : \A i \in WordsAt(Lines(y)) :
            Lines(y)[i].id = line.id => y = x /\ ~Holding(p) /\ i = k + 1
    <2> SUFFICES ASSUME line.kind = "ha", NEW y \in Nodes, NEW i \in WordsAt(Lines(y)), Lines(y)[i].id = line.id
                 PROVE  y = x /\ ~Holding(p) /\ i = k + 1
      OBVIOUS
    <2>1. line.id \in WordIds(Lines(y))
      BY DEF WordIds
    <2>2. line.id \in WordIds(InHand(p).lines)
      BY <1>3 DEF WordIds
    <2>3. ~Holding(p) /\ y = x
      BY <1>3, <1>8, <2>1, <2>2 DEF IdsInv
    <2>4. Spread(Lines(x)) /\ k + 1 \in WordsAt(Lines(x)) /\ line = Lines(x)[k + 1]
      BY <1>3, <1>8, <2>3 DEF IdsInv
    <2> QED BY <2>3, <2>4 DEF Spread
  <1>13. line.kind = "ha" /\ Holding(p) => \A i \in WordsAt(HeldLines(p)) : HeldLines(p)[i].id = line.id => i = k + 1
    <2> SUFFICES ASSUME line.kind = "ha", Holding(p)
                 PROVE  \A i \in WordsAt(HeldLines(p)) : HeldLines(p)[i].id = line.id => i = k + 1
      OBVIOUS
    <2>1. Spread(HeldLines(p)) /\ k + 1 \in WordsAt(HeldLines(p)) /\ line = HeldLines(p)[k + 1]
      BY <1>3, <1>8 DEF IdsInv
    <2> QED BY <2>1 DEF Spread
  <1>14. ASSUME OnlyRead(p, n), Distinct(n)
         PROVE  OnlyRead(p, n)' /\ Distinct(n)'
    <2>1. line.kind = "ha" => line.id \notin IdsIn(n)
      <3> SUFFICES ASSUME line.kind = "ha", line.id \in IdsIn(n)
                   PROVE  FALSE
        OBVIOUS
      <3>1. k + 1 \in WordsAt(InHand(p).lines) /\ line = InHand(p).lines[k + 1] /\ k \in Nat
        BY <1>3
      <3>2. CASE Holding(p)
        <4>1. OnlyTo(n, HeldLines(p), k)
          BY <1>14, <3>2 DEF OnlyRead, k
        <4>2. k + 1 <= k
          BY <1>8, <3>1, <3>2, <4>1 DEF OnlyTo
        <4> QED BY <3>1, <4>2
      <3>3. CASE ~Holding(p)
        <4>1. OnlyTo(n, Lines(x), k)
          BY <1>3, <1>7, <1>14, <3>3 DEF OnlyRead
        <4>2. k + 1 <= k
          BY <1>8, <3>1, <3>3, <4>1 DEF OnlyTo
        <4> QED BY <3>1, <4>2
      <3> QED BY <3>2, <3>3
    <2>2. Distinct(n)'
      BY <1>1, <1>10, <1>14, <2>1
    <2>3. ASSUME NEW y \in Nodes, NEW i \in WordsAt(Lines(y)), Lines(y)[i].id \in IdsIn(n)'
          PROVE  i <= Mark(p, y)'
      <3>1. i \in Nat /\ Mark(p, y) \in Nat /\ (Mark(p, y)' = Mark(p, y) \/ Mark(p, y)' = Mark(p, y) + 1)
        BY <1>1, <1>7, LogIs, MarkIs DEF WordsAt
      <3>2. CASE Lines(y)[i].id \in IdsIn(n)
        <4>1. i <= Mark(p, y)
          BY <1>14, <3>2 DEF OnlyRead, OnlyTo
        <4> QED BY <3>1, <4>1
      <3>3. CASE Lines(y)[i].id \notin IdsIn(n)
        <4>1. line.kind = "ha" /\ Lines(y)[i].id = line.id
          BY <1>1, <1>10, <2>3, <3>3
        <4>2. y = x /\ ~Holding(p) /\ i = k + 1
          BY <1>12, <4>1
        <4>3. Mark(p, y)' = i
          BY <1>7, <4>2
        <4> QED BY <3>1, <4>3
      <3> QED BY <3>2, <3>3
    <2>4. \A y \in Nodes : OnlyTo(n, Lines(y), Mark(p, y))'
      BY <1>7, <2>3 DEF OnlyTo, WordsAt
    <2>5. ASSUME Holding(p), NEW i \in WordsAt(HeldLines(p)), HeldLines(p)[i].id \in IdsIn(n)'
          PROVE  i <= k + 1
      <3>1. CASE HeldLines(p)[i].id \in IdsIn(n)
        <4>1. i <= k
          BY <1>14, <2>5, <3>1 DEF OnlyRead, OnlyTo, k
        <4>2. i \in Nat
          <5>1. HeldLines(p) \in Seq(LogLine)
            BY <1>1, <1>8, <2>5, HandIs
          <5> QED BY <5>1 DEF WordsAt
        <4> QED BY <1>3, <4>1, <4>2
      <3>2. CASE HeldLines(p)[i].id \notin IdsIn(n)
        <4>1. i = k + 1
          BY <1>1, <1>10, <1>13, <2>5, <3>2
        <4> QED BY <1>3, <4>1
      <3> QED BY <3>1, <3>2
    <2>6. Holding(p)' => OnlyTo(n, HeldLines(p), reader[p].line)'
      BY <1>1, <1>7, <2>5 DEF OnlyTo, WordsAt
    <2> QED BY <2>2, <2>4, <2>6 DEF OnlyRead
  <1>15. ASSUME AllRecorded(p, n)
         PROVE  AllRecorded(p, n)'
    <2>1. ASSUME NEW y \in Nodes, NEW i \in WordsAt(Lines(y)), i <= Mark(p, y)'
          PROVE  Lines(y)[i].id \in IdsIn(n)'
      <3>1. i \in Nat /\ Mark(p, y) \in Nat /\ k \in Nat
        BY <1>1, <1>3, LogIs, MarkIs DEF WordsAt
      <3>2. CASE i <= Mark(p, y)
        <4>1. Lines(y)[i].id \in IdsIn(n)
          BY <1>15, <3>2 DEF AllRecorded, AllTo
        <4> QED BY <1>1, <1>10, <4>1
      <3>3. CASE ~(i <= Mark(p, y))
        <4>1. y = x /\ ~Holding(p) /\ i = k + 1
          BY <1>7, <2>1, <3>1, <3>3
        <4>2. Lines(y)[i] = line
          BY <1>8, <4>1
        <4>3. line.kind = "ha"
          BY <4>2 DEF WordsAt
        <4> QED BY <1>10, <4>2, <4>3
      <3> QED BY <3>2, <3>3
    <2>2. \A y \in Nodes : AllTo(n, Lines(y), Mark(p, y))'
      BY <1>7, <2>1 DEF AllTo, WordsAt
    <2>3. IdsIn(n) \subseteq IdsIn(n)'
      BY <1>1, <1>10
    <2>4. \A y \in Nodes : AllTo(n, Lines(y), ReadTo(reader[p].off[y], y))'
      BY <1>1, <1>7, <1>15, <2>3 DEF AllRecorded, AllTo, WordsAt
    <2> QED BY <2>2, <2>4 DEF AllRecorded
  <1>16. Kept(n)'
    <2>1. IdsIn(n) \subseteq IdsIn(n)'
      BY <1>1, <1>10
    <2> QED BY <1>1, <1>5, <1>6, <1>14, <1>15, <2>1, OneReads
  <1>17. ASSUME NEW m \in Names, m # n
         PROVE  Kept(m)'
    BY <1>1, <1>5, <1>6, <1>11, <1>17, OthersKept
  <1> QED BY <1>16, <1>17

\* What was read of a file that is still the log is what is saved of it, and
\* nothing of one that is not.
LEMMA EndKeeps ==
  ASSUME RTypes, FilesInv, NEW p \in Processes, EndOfFile(p), \A n \in Names : Kept(n)
  PROVE  \A n \in Names : Kept(n)'
  <1> DEFINE x == reader[p].left[1]
             o == [read |-> reader[p].line, of |-> InHand(p).file]
  <1>1. /\ reader[p].at = "scan" /\ Harvesting(p) /\ x \in Nodes /\ reader'[p].at = "open"
        /\ reader'[p].n = reader[p].n
        /\ \A y \in Nodes : reader'[p].off[y] = IF y = x THEN o ELSE reader[p].off[y]
        /\ \A q \in Processes : q # p => reader'[q] = reader[q]
        /\ UNCHANGED <<now, said, record, offsets, log, spoilt>>
    BY EndIs
  <1>2. PICK n \in Names : n = reader[p].n
    BY <1>1, ReaderIs
  <1>3. \A m \in Names : (Harvests(p, m) <=> m = n) /\ (Harvests(p, m)' <=> m = n)
    BY <1>1, <1>2 DEF Harvests, Harvesting
  <1>4. ReadTo(o, x) = Mark(p, x)
    <2>1. Reads(p, x)
      BY <1>1 DEF Reads
    <2>2. CASE reader[p].held.is
      <3>1. InHand(p).file < log[x].file /\ reader[p].off[x].of <= InHand(p).file
        BY <1>1, <2>2 DEF FilesInv, Holding, Outlived, InHand
      <3>2. InHand(p).file \in Nat /\ log[x].file \in Nat /\ reader[p].off[x].of \in Nat
        <4>1. reader[p].off \in Offsets
          BY <1>1, ReaderIs
        <4> QED BY <1>1, <4>1, HandIs, LogIs, OffsetIs
      <3>3. InHand(p).file # log[x].file /\ reader[p].off[x].of # log[x].file
        BY <3>1, <3>2
      <3> QED BY <2>2, <3>3 DEF ReadTo, Mark
    <2>3. CASE ~reader[p].held.is
      BY <2>1, <2>3 DEF ReadTo, Mark, InHand
    <2> QED BY <2>2, <2>3
  <1> HIDE DEF o
  <1>5. \A y \in Nodes : Lines(y)' = Lines(y)
    BY <1>1 DEF Lines
  <1>6. \A y \in Nodes : /\ ReadTo(reader[p].off[y], y)' = IF y = x THEN Mark(p, x) ELSE ReadTo(reader[p].off[y], y)
                         /\ Mark(p, y)' = Mark(p, y)
    <2>1. \A y \in Nodes : ReadTo(reader[p].off[y], y)' = IF y = x THEN ReadTo(o, x) ELSE ReadTo(reader[p].off[y], y)
      BY <1>1 DEF ReadTo
    <2>2. \A y \in Nodes : ~Reads(p, y)' /\ (Reads(p, y) <=> y = x)
      BY <1>1 DEF Reads
    <2> QED BY <1>4, <2>1, <2>2 DEF Mark
  <1>7. IdsIn(n)' = IdsIn(n) /\ Distinct(n)' = Distinct(n) /\ ~Holding(p)'
    BY <1>1 DEF IdsIn, Distinct, Holding
  <1>8. OnlyRead(p, n) => OnlyRead(p, n)'
    BY <1>5, <1>6, <1>7 DEF OnlyRead, OnlyTo, WordsAt
  <1>9. AllRecorded(p, n) => AllRecorded(p, n)'
    BY <1>5, <1>6, <1>7 DEF AllRecorded, AllTo, WordsAt
  <1>10. Kept(n)'
    BY <1>1, <1>3, <1>7, <1>8, <1>9, OneReads
  <1>11. ASSUME NEW m \in Names, m # n
         PROVE  Kept(m)'
    BY <1>1, <1>3, <1>11, OthersKept
  <1> QED BY <1>10, <1>11

\* A harvest of the record ends.
LEMMA HarvestOver ==
  ASSUME NEW n \in Names, NEW p \in Processes, Kept(n), Harvests(p, n), ~Harvests(p, n)',
         \A q \in Processes : q # p => reader'[q] = reader[q],
         UNCHANGED <<record, log>>, spoilt[n] \subseteq spoilt'[n],
         spoilt'[n] \cap {"cut", "overlapped", "unended"} = {} /\ OnlyRead(p, n) =>
           \A x \in Nodes : OnlyTo(n, Lines(x), ReadTo(offsets'[n][x], x)),
         spoilt'[n] \cap {"outgrown", "purged"} = {} /\ AllRecorded(p, n)
           /\ (\A x \in Nodes : AllTo(n, Lines(x), ReadTo(offsets[n][x], x))) =>
           \A x \in Nodes : AllTo(n, Lines(x), ReadTo(offsets'[n][x], x))
  PROVE  Kept(n)'
  <1>1. \A q \in Processes : Harvests(q, n)' <=> Harvests(q, n) /\ q # p
    BY DEF Harvests, Harvesting
  <1>2. Alone(n)'
    BY <1>1 DEF Kept, Alone
  <1>3. IdsIn(n)' = IdsIn(n) /\ Distinct(n)' = Distinct(n)
    BY DEF IdsIn, Distinct
  <1>4. \A x \in Nodes : Lines(x)' = Lines(x) /\ \A o : ReadTo(o, x)' = ReadTo(o, x)
    BY DEF Lines, ReadTo
  <1>5. \A x \in Nodes : ReadTo(offsets[n][x], x)' = ReadTo(offsets'[n][x], x)
    BY DEF ReadTo
  <1>6. ASSUME NEW q \in Processes, Harvests(q, n)'
        PROVE  (OnlyRead(q, n) => OnlyRead(q, n)') /\ (AllRecorded(q, n) => AllRecorded(q, n)')
    BY <1>1, <1>3, <1>6, MarkStays
  <1>7. ASSUME spoilt'[n] \cap {"cut", "overlapped", "unended"} = {}
        PROVE  /\ Distinct(n)' /\ \A q \in Processes : Harvests(q, n)' => OnlyRead(q, n)'
               /\ \A x \in Nodes : OnlyTo(n, Lines(x), ReadTo(offsets[n][x], x))'
    <2>1. Distinct(n) /\ \A q \in Processes : Harvests(q, n) => OnlyRead(q, n)
      BY <1>7 DEF Kept, Once
    <2>2. \A x \in Nodes : OnlyTo(n, Lines(x), ReadTo(offsets'[n][x], x))
      BY <1>7, <2>1
    <2>3. \A x \in Nodes : OnlyTo(n, Lines(x), ReadTo(offsets[n][x], x))'
      BY <1>3, <1>4, <1>5, <2>2 DEF OnlyTo, WordsAt
    <2> QED BY <1>1, <1>3, <1>6, <2>1, <2>3
  <1>8. Once(n)'
    BY <1>7 DEF Once
  <1>9. ASSUME spoilt'[n] \cap {"outgrown", "purged"} = {}
        PROVE  /\ \A q \in Processes : Harvests(q, n)' => AllRecorded(q, n)'
               /\ \A x \in Nodes : AllTo(n, Lines(x), ReadTo(offsets[n][x], x))'
    <2>1. /\ \A q \in Processes : Harvests(q, n) => AllRecorded(q, n)
          /\ \A x \in Nodes : AllTo(n, Lines(x), ReadTo(offsets[n][x], x))
      BY <1>9 DEF Kept, Whole
    <2>2. \A x \in Nodes : AllTo(n, Lines(x), ReadTo(offsets'[n][x], x))
      BY <1>9, <2>1
    <2>3. \A x \in Nodes : AllTo(n, Lines(x), ReadTo(offsets[n][x], x))'
      BY <1>3, <1>4, <1>5, <2>2 DEF AllTo, WordsAt
    <2> QED BY <1>1, <1>6, <2>1, <2>3
  <1>10. Whole(n)'
    BY <1>9 DEF Whole
  <1> QED BY <1>2, <1>8, <1>10 DEF Kept

\* Offsets that cannot be saved are of a record that is gone.
LEMMA OverKeeps ==
  ASSUME RTypes, NEW p \in Processes,
         SaveOffsets(p) \/ (LoseOffsets(p) /\ record[reader[p].n] = <<>>) \/ DropHarvest(p),
         \A n \in Names : Kept(n)
  PROVE  \A n \in Names : Kept(n)'
  <1>1. /\ Harvesting(p) /\ reader'[p] = Idle /\ ~Harvesting(p)'
        /\ \A q \in Processes : q # p => reader'[q] = reader[q]
        /\ UNCHANGED <<now, said, record, log>>
    BY OverIs
  <1>2. PICK n \in Names : n = reader[p].n
    BY <1>1, ReaderIs
  <1>3. \A m \in Names : (Harvests(p, m) <=> m = n) /\ ~Harvests(p, m)'
    BY <1>1, <1>2 DEF Harvests
  <1>4. CASE SaveOffsets(p)
    <2>1. reader[p].at = "save" /\ offsets' = [offsets EXCEPT ![n] = reader[p].off] /\ UNCHANGED spoilt
      BY <1>2, <1>4 DEF SaveOffsets
    <2>2. offsets'[n] = reader[p].off /\ \A m \in Names : m # n => offsets'[m] = offsets[m]
      BY <2>1 DEF RTypes
    <2>3. \A x \in Nodes : Mark(p, x) = ReadTo(reader[p].off[x], x)
      BY <2>1 DEF Mark, Reads
    <2>4. OnlyRead(p, n) => \A x \in Nodes : OnlyTo(n, Lines(x), ReadTo(offsets'[n][x], x))
      BY <2>2, <2>3 DEF OnlyRead
    <2>5. AllRecorded(p, n) => \A x \in Nodes : AllTo(n, Lines(x), ReadTo(offsets'[n][x], x))
      BY <2>2 DEF AllRecorded
    <2>6. Kept(n)'
      BY <1>1, <1>3, <2>1, <2>4, <2>5, HarvestOver
    <2>7. ASSUME NEW m \in Names, m # n
          PROVE  Kept(m)'
      BY <1>1, <1>3, <2>1, <2>2, <2>7, OthersKept
    <2> QED BY <2>6, <2>7
  <1>5. CASE LoseOffsets(p) /\ record[reader[p].n] = <<>>
    <2>1. UNCHANGED <<offsets, spoilt>> /\ record[n] = <<>>
      BY <1>2, <1>5 DEF LoseOffsets
    <2>2. IdsIn(n) = {}
      BY <2>1 DEF IdsIn
    <2>3. \A x \in Nodes : OnlyTo(n, Lines(x), ReadTo(offsets'[n][x], x))
      BY <2>2 DEF OnlyTo
    <2>4. Kept(n)'
      BY <1>1, <1>3, <2>1, <2>3, HarvestOver
    <2>5. ASSUME NEW m \in Names, m # n
          PROVE  Kept(m)'
      BY <1>1, <1>3, <2>1, <2>5, OthersKept
    <2> QED BY <2>4, <2>5
  <1>6. CASE DropHarvest(p)
    <2>1. UNCHANGED offsets /\ Spoil(n, {"cut"})
      BY <1>2, <1>6 DEF DropHarvest
    <2>2. "cut" \in spoilt'[n] /\ spoilt[n] \subseteq spoilt'[n] /\ \A m \in Names : m # n => spoilt'[m] = spoilt[m]
      BY <2>1, SpoiltIs
    <2>3. Kept(n)'
      BY <1>1, <1>3, <2>1, <2>2, HarvestOver
    <2>4. ASSUME NEW m \in Names, m # n
          PROVE  Kept(m)'
      BY <1>1, <1>3, <2>1, <2>2, <2>4, OthersKept
    <2> QED BY <2>3, <2>4
  <1> QED BY <1>4, <1>5, <1>6

LEMMA LoadKeeps ==
  ASSUME RTypes, NEW p \in Processes, ~Harvesting(p), NEW n \in Names, NEW nodes,
         LoadOffsets(p, n, nodes), \A m \in Names : Kept(m)
  PROVE  \A m \in Names : Kept(m)'
  <1>1. /\ reader'[p].at = "open" /\ reader'[p].n = n /\ reader'[p].off = offsets[n]
        /\ \A q \in Processes : q # p => reader'[q] = reader[q]
        /\ UNCHANGED <<now, said, record, offsets, log>>
        /\ Spoil(n, IF \E q \in Processes : Harvests(q, n) THEN {"overlapped"} ELSE {})
    BY LoadIs
  <1>2. /\ (\E q \in Processes : Harvests(q, n)) => "overlapped" \in spoilt'[n]
        /\ spoilt[n] \subseteq spoilt'[n] /\ \A m \in Names : m # n => spoilt'[m] = spoilt[m]
    BY <1>1, SpoiltIs
  <1>3. \A m \in Names : ~Harvests(p, m) /\ (Harvests(p, m)' <=> m = n)
    BY <1>1 DEF Harvests, Harvesting
  <1>4. IdsIn(n)' = IdsIn(n) /\ Distinct(n)' = Distinct(n) /\ ~Holding(p)'
    BY <1>1 DEF IdsIn, Distinct, Holding
  <1>5. \A x \in Nodes : /\ Lines(x)' = Lines(x) /\ Mark(p, x)' = ReadTo(offsets[n][x], x)
                         /\ ReadTo(reader[p].off[x], x)' = ReadTo(offsets[n][x], x)
                         /\ ReadTo(offsets[n][x], x)' = ReadTo(offsets[n][x], x)
    BY <1>1 DEF Lines, Mark, Reads, ReadTo
  <1>6. (\A x \in Nodes : OnlyTo(n, Lines(x), ReadTo(offsets[n][x], x))) => OnlyRead(p, n)'
    BY <1>4, <1>5 DEF OnlyRead, OnlyTo, WordsAt
  <1>7. (\A x \in Nodes : AllTo(n, Lines(x), ReadTo(offsets[n][x], x))) =>
          AllRecorded(p, n)' /\ \A x \in Nodes : AllTo(n, Lines(x), ReadTo(offsets[n][x], x))'
    BY <1>4, <1>5 DEF AllRecorded, AllTo, WordsAt
  <1>8. \A q \in Processes : q # p => (Harvests(q, n)' <=> Harvests(q, n))
    BY <1>1 DEF Harvests, Harvesting
  <1>9. Alone(n)'
    BY <1>2, <1>3, <1>8 DEF Kept, Alone
  <1>10. Once(n)'
    <2> SUFFICES ASSUME spoilt'[n] \cap {"cut", "overlapped", "unended"} = {}
                 PROVE  Distinct(n)' /\ \A q \in Processes : Harvests(q, n)' => OnlyRead(q, n)'
      BY <1>3 DEF Once
    <2>1. \A q \in Processes : ~Harvests(q, n)
      BY <1>2
    <2>2. Distinct(n) /\ \A x \in Nodes : OnlyTo(n, Lines(x), ReadTo(offsets[n][x], x))
      BY <1>2, <2>1 DEF Kept, Once
    <2>3. \A q \in Processes : Harvests(q, n)' => q = p
      BY <1>8, <2>1
    <2> QED BY <1>4, <1>6, <2>2, <2>3
  <1>11. Whole(n)'
    <2> SUFFICES ASSUME spoilt'[n] \cap {"outgrown", "purged"} = {}
                 PROVE  /\ \A q \in Processes : Harvests(q, n)' => AllRecorded(q, n)'
                        /\ \A x \in Nodes : AllTo(n, Lines(x), ReadTo(offsets[n][x], x))'
      BY DEF Whole
    <2>1. /\ \A q \in Processes : Harvests(q, n) => AllRecorded(q, n)
          /\ \A x \in Nodes : AllTo(n, Lines(x), ReadTo(offsets[n][x], x))
      BY <1>2 DEF Kept, Whole
    <2>2. ASSUME NEW q \in Processes, Harvests(q, n)'
          PROVE  AllRecorded(q, n)'
      <3>1. CASE q = p
        BY <1>7, <2>1, <3>1
      <3>2. CASE q # p
        BY <1>1, <1>4, <1>8, <2>1, <2>2, <3>2, MarkStays
      <3> QED BY <3>1, <3>2
    <2> QED BY <1>7, <2>1, <2>2
  <1>12. ASSUME NEW m \in Names, m # n
         PROVE  Kept(m)'
    BY <1>1, <1>2, <1>3, <1>12, OthersKept
  <1> QED BY <1>9, <1>10, <1>11, <1>12 DEF Kept

\* More lines at the end of a log, and none that is in a record.
LEMMA LogKeeps ==
  ASSUME RTypes, FilesInv, UNCHANGED <<record, offsets, reader, spoilt>>,
         \A y \in Nodes : log'[y].file = log[y].file,
         \A y \in Nodes : \A i \in WordsAt(Lines(y)) : i \in WordsAt(Lines(y))' /\ Lines(y)'[i].id = Lines(y)[i].id,
         \A y \in Nodes : \A i \in WordsAt(Lines(y))' :
            \/ i \in WordsAt(Lines(y)) /\ Lines(y)'[i].id = Lines(y)[i].id
            \/ i \in Nat /\ i > Len(Lines(y)) /\ \A n \in Names : Lines(y)'[i].id \notin IdsIn(n),
         NEW n \in Names, Kept(n)
  PROVE  Kept(n)'
  <1>1. /\ IdsIn(n)' = IdsIn(n) /\ Distinct(n)' = Distinct(n)
        /\ \A p \in Processes : Harvests(p, n)' = Harvests(p, n) /\ Harvesting(p)' = Harvesting(p)
        /\ \A p \in Processes : Holding(p)' = Holding(p) /\ HeldLines(p)' = HeldLines(p)
    BY DEF IdsIn, Distinct, Harvests, Harvesting, Holding, HeldLines
  <1>2. \A y \in Nodes : /\ \A p \in Processes : /\ Mark(p, y)' = Mark(p, y)
                                                 /\ ReadTo(reader[p].off[y], y)' = ReadTo(reader[p].off[y], y)
                         /\ ReadTo(offsets[n][y], y)' = ReadTo(offsets[n][y], y)
    BY DEF Mark, Reads, ReadTo
  <1>3. ASSUME NEW y \in Nodes, NEW k, OnlyTo(n, Lines(y), k)
        PROVE  \A i \in WordsAt(Lines(y))' : Lines(y)'[i].id \in IdsIn(n) => i <= k
    BY <1>3 DEF OnlyTo
  <1>4. ASSUME NEW y \in Nodes, NEW k \in Nat, k <= Len(Lines(y)), AllTo(n, Lines(y), k)
        PROVE  \A i \in WordsAt(Lines(y))' : i <= k => Lines(y)'[i].id \in IdsIn(n)
    <2> SUFFICES ASSUME NEW i \in WordsAt(Lines(y))', i <= k
                 PROVE  Lines(y)'[i].id \in IdsIn(n)
      OBVIOUS
    <2>1. ~(i \in Nat /\ i > Len(Lines(y)))
      BY <1>4, LogIs
    <2> QED BY <1>4, <2>1 DEF AllTo
  <1>5. ASSUME NEW p \in Processes, OnlyRead(p, n)
        PROVE  OnlyRead(p, n)'
    <2>1. \A y \in Nodes : OnlyTo(n, Lines(y), Mark(p, y))'
      BY <1>1, <1>2, <1>3, <1>5 DEF OnlyRead, OnlyTo
    <2>2. Holding(p)' => OnlyTo(n, HeldLines(p), reader[p].line)'
      BY <1>1, <1>5 DEF OnlyRead, OnlyTo, WordsAt
    <2> QED BY <2>1, <2>2 DEF OnlyRead
  <1>6. ASSUME NEW p \in Processes, Harvests(p, n), AllRecorded(p, n)
        PROVE  AllRecorded(p, n)'
    <2>1. Harvesting(p)
      BY <1>6 DEF Harvests
    <2>2. \A y \in Nodes : /\ Mark(p, y) \in Nat /\ Mark(p, y) <= Len(Lines(y))
                           /\ ReadTo(reader[p].off[y], y) \in Nat /\ ReadTo(reader[p].off[y], y) <= Len(Lines(y))
      BY <2>1, MarkIs
    <2>3. \A y \in Nodes : AllTo(n, Lines(y), Mark(p, y))'
      BY <1>1, <1>2, <1>4, <1>6, <2>2 DEF AllRecorded, AllTo
    <2>4. \A y \in Nodes : AllTo(n, Lines(y), ReadTo(reader[p].off[y], y))'
      BY <1>1, <1>2, <1>4, <1>6, <2>2 DEF AllRecorded, AllTo
    <2> QED BY <2>3, <2>4 DEF AllRecorded
  <1>7. \A y \in Nodes : OnlyTo(n, Lines(y), ReadTo(offsets[n][y], y)) => OnlyTo(n, Lines(y), ReadTo(offsets[n][y], y))'
    BY <1>1, <1>2, <1>3 DEF OnlyTo
  <1>8. \A y \in Nodes : AllTo(n, Lines(y), ReadTo(offsets[n][y], y)) => AllTo(n, Lines(y), ReadTo(offsets[n][y], y))'
    BY <1>1, <1>2, <1>4, SavedIs DEF AllTo
  <1>9. Alone(n)'
    BY <1>1 DEF Kept, Alone
  <1>10. Once(n)'
    BY <1>1, <1>5, <1>7 DEF Kept, Once
  <1>11. Whole(n)'
    BY <1>1, <1>6, <1>8 DEF Kept, Whole
  <1> QED BY <1>9, <1>10, <1>11 DEF Kept

\* Logs are put out of the way: what was read of one that is in hand stays so.
LEMMA UnlinkMarks ==
  ASSUME RTypes, NEW X, Unlink(X), NEW n \in Names
  PROVE  /\ \A p \in Processes : Harvests(p, n)' <=> Harvests(p, n)
         /\ \A y \in Nodes : y \in X => WordsAt(Lines(y)') = {}
         /\ \A y \in Nodes : y \notin X => /\ Lines(y)' = Lines(y)
                                           /\ \A o : ReadTo(o, y)' = ReadTo(o, y)
                                           /\ \A p \in Processes : Mark(p, y)' = Mark(p, y)
         /\ \A p \in Processes : /\ reader'[p].off = reader[p].off \/ ~Harvesting(p)
                                 /\ reader'[p].line = reader[p].line \/ ~Harvesting(p)
         /\ \A p \in Processes : Holding(p)' =>
              \/ Holding(p) /\ HeldLines(p)' = HeldLines(p)
              \/ \E y \in Nodes : HeldLines(p)' = Lines(y) /\ Mark(p, y) = reader[p].line
  <1>1. /\ \A y \in Nodes : log'[y] = IF y \in X THEN NewFile(log[y]) ELSE log[y]
        /\ \A y \in Nodes : NewFile(log[y]).lines = <<>>
        /\ \A p \in Processes : reader'[p] = IF Moved(p, X) THEN [reader[p] EXCEPT !.held = Just(log[reader[p].left[1]])] ELSE reader[p]
    BY UnlinkIs
  <1>2. \A y \in Nodes : y \in X => WordsAt(Lines(y)') = {}
    BY <1>1 DEF Lines, WordsAt
  <1>3. ASSUME NEW p \in Processes, Moved(p, X)
        PROVE  /\ reader[p].at = "scan" /\ ~reader[p].held.is /\ reader[p].left[1] \in X /\ reader[p].left[1] \in Nodes
               /\ reader'[p].at = "scan" /\ reader'[p].n = reader[p].n /\ reader'[p].left = reader[p].left
               /\ reader'[p].off = reader[p].off /\ reader'[p].line = reader[p].line
               /\ reader'[p].held.is /\ reader'[p].held.v = log[reader[p].left[1]]
               /\ Harvesting(p)
    <2>1. reader[p].at = "scan" /\ ~reader[p].held.is /\ reader[p].left[1] \in X
      BY <1>3 DEF Moved, Reads
    <2>2. reader[p].left[1] \in Nodes /\ Harvesting(p)
      BY <2>1, OfIs
    <2>3. reader[p] \in Reader
      BY <2>2, ReaderIs
    <2> DEFINE h == Just(log[reader[p].left[1]])
    <2>4. reader'[p] = [reader[p] EXCEPT !.held = h]
      BY <1>1, <1>3
    <2>5. h.is /\ h.v = log[reader[p].left[1]]
      BY DEF Just
    <2> HIDE DEF h
    <2>6. /\ reader'[p].at = reader[p].at /\ reader'[p].n = reader[p].n /\ reader'[p].left = reader[p].left
          /\ reader'[p].off = reader[p].off /\ reader'[p].line = reader[p].line /\ reader'[p].held = h
      BY <2>3, <2>4 DEF Reader
    <2> QED BY <2>1, <2>2, <2>5, <2>6
  <1>4. ASSUME NEW p \in Processes, ~Moved(p, X)
        PROVE  reader'[p] = reader[p]
    BY <1>1, <1>4
  <1>5. ASSUME NEW p \in Processes
        PROVE  (Harvests(p, n)' <=> Harvests(p, n))
    <2>1. CASE Moved(p, X)
      BY <1>3, <2>1 DEF Harvests, Harvesting
    <2>2. CASE ~Moved(p, X)
      BY <1>4, <2>2 DEF Harvests, Harvesting
    <2> QED BY <2>1, <2>2
  <1>6. ASSUME NEW p \in Processes, Holding(p)'
        PROVE  \/ Holding(p) /\ HeldLines(p)' = HeldLines(p)
               \/ \E y \in Nodes : HeldLines(p)' = Lines(y) /\ Mark(p, y) = reader[p].line
    <2>1. CASE Moved(p, X)
      <3>1. HeldLines(p)' = Lines(reader[p].left[1]) /\ Mark(p, reader[p].left[1]) = reader[p].line
        BY <1>3, <2>1 DEF HeldLines, Lines, Mark, Reads
      <3> QED BY <1>3, <2>1, <3>1
    <2>2. CASE ~Moved(p, X)
      BY <1>4, <1>6, <2>2 DEF Holding, HeldLines
    <2> QED BY <2>1, <2>2
  <1>7. ASSUME NEW y \in Nodes, y \notin X
        PROVE  /\ Lines(y)' = Lines(y) /\ \A o : ReadTo(o, y)' = ReadTo(o, y)
               /\ \A p \in Processes : Mark(p, y)' = Mark(p, y)
    <2>1. log'[y] = log[y]
      BY <1>1, <1>7
    <2>2. Lines(y)' = Lines(y) /\ \A o : ReadTo(o, y)' = ReadTo(o, y)
      BY <2>1 DEF Lines, ReadTo
    <2>3. ASSUME NEW p \in Processes
          PROVE  Mark(p, y)' = Mark(p, y)
      <3>1. CASE Moved(p, X)
        <4>1. ~Reads(p, y) /\ ~Reads(p, y)'
          BY <1>3, <1>7, <3>1 DEF Reads
        <4>2. reader'[p].off = reader[p].off
          BY <1>3, <3>1
        <4> QED BY <2>1, <4>1, <4>2 DEF Mark, ReadTo
      <3>2. CASE ~Moved(p, X)
        BY <1>4, <2>1, <3>2 DEF Mark, ReadTo, Reads
      <3> QED BY <3>1, <3>2
    <2> QED BY <2>2, <2>3
  <1>8. \A p \in Processes : /\ reader'[p].off = reader[p].off \/ ~Harvesting(p)
                             /\ reader'[p].line = reader[p].line \/ ~Harvesting(p)
    BY <1>3, <1>4
  <1> QED BY <1>2, <1>5, <1>6, <1>7, <1>8

\* A record that goes is marked so under a harvest, whose offsets are of logs
\* that are gone with it.
LEMMA UnlinkKeeps ==
  ASSUME RTypes, FilesInv, NEW X, Unlink(X), NEW n \in Names, Kept(n),
         \/ record'[n] = record[n] /\ offsets'[n] = offsets[n] /\ spoilt'[n] = spoilt[n]
         \/ /\ record'[n] = <<>> /\ offsets'[n] = Unread
            /\ (\E p \in Processes : Harvests(p, n)) => spoilt[n] \cup {"purged"} \subseteq spoilt'[n]
  PROVE  Kept(n)'
  <1>1. /\ \A p \in Processes : Harvests(p, n)' <=> Harvests(p, n)
        /\ \A y \in Nodes : y \in X => WordsAt(Lines(y)') = {}
        /\ \A y \in Nodes : y \notin X => /\ Lines(y)' = Lines(y)
                                          /\ \A o : ReadTo(o, y)' = ReadTo(o, y)
                                          /\ \A p \in Processes : Mark(p, y)' = Mark(p, y)
        /\ \A p \in Processes : Harvesting(p) => reader'[p].off = reader[p].off /\ reader'[p].line = reader[p].line
        /\ \A p \in Processes : Holding(p)' =>
             \/ Holding(p) /\ HeldLines(p)' = HeldLines(p)
             \/ \E y \in Nodes : HeldLines(p)' = Lines(y) /\ Mark(p, y) = reader[p].line
    BY UnlinkMarks
  <1>2. CASE record'[n] = record[n] /\ offsets'[n] = offsets[n] /\ spoilt'[n] = spoilt[n]
    <2>1. IdsIn(n)' = IdsIn(n) /\ Distinct(n)' = Distinct(n)
      BY <1>2 DEF IdsIn, Distinct
    <2>2. ASSUME NEW p \in Processes, Harvests(p, n), OnlyRead(p, n)
          PROVE  OnlyRead(p, n)'
      <3>1. Harvesting(p)
        BY <2>2 DEF Harvests
      <3>2. \A y \in Nodes : OnlyTo(n, Lines(y), Mark(p, y))'
        BY <1>1, <2>1, <2>2 DEF OnlyRead, OnlyTo, WordsAt
      <3>3. Holding(p)' => OnlyTo(n, HeldLines(p), reader[p].line)'
        BY <1>1, <2>1, <2>2, <3>1 DEF OnlyRead, OnlyTo, WordsAt
      <3> QED BY <3>2, <3>3 DEF OnlyRead
    <2>3. ASSUME NEW p \in Processes, Harvests(p, n), AllRecorded(p, n)
          PROVE  AllRecorded(p, n)'
      <3>1. Harvesting(p)
        BY <2>3 DEF Harvests
      <3>2. \A y \in Nodes : AllTo(n, Lines(y), Mark(p, y))'
        BY <1>1, <2>1, <2>3 DEF AllRecorded, AllTo, WordsAt
      <3>3. \A y \in Nodes : y \notin X => ReadTo(reader[p].off[y], y)' = ReadTo(reader[p].off[y], y)
        BY <1>1, <3>1 DEF ReadTo
      <3>4. \A y \in Nodes : AllTo(n, Lines(y), ReadTo(reader[p].off[y], y))'
        BY <1>1, <2>1, <2>3, <3>3 DEF AllRecorded, AllTo, WordsAt
      <3> QED BY <3>2, <3>4 DEF AllRecorded
    <2>4. \A y \in Nodes : y \notin X => ReadTo(offsets[n][y], y)' = ReadTo(offsets[n][y], y)
      BY <1>1, <1>2 DEF ReadTo
    <2>5. \A y \in Nodes : OnlyTo(n, Lines(y), ReadTo(offsets[n][y], y)) => OnlyTo(n, Lines(y), ReadTo(offsets[n][y], y))'
      BY <1>1, <2>1, <2>4 DEF OnlyTo, WordsAt
    <2>6. \A y \in Nodes : AllTo(n, Lines(y), ReadTo(offsets[n][y], y)) => AllTo(n, Lines(y), ReadTo(offsets[n][y], y))'
      BY <1>1, <2>1, <2>4 DEF AllTo, WordsAt
    <2>7. Alone(n)'
      BY <1>1, <1>2 DEF Kept, Alone
    <2>8. Once(n)'
      BY <1>1, <1>2, <2>1, <2>2, <2>5 DEF Kept, Once
    <2>9. Whole(n)'
      BY <1>1, <1>2, <2>3, <2>6 DEF Kept, Whole
    <2> QED BY <2>7, <2>8, <2>9 DEF Kept
  <1>3. CASE /\ record'[n] = <<>> /\ offsets'[n] = Unread
             /\ (\E p \in Processes : Harvests(p, n)) => spoilt[n] \cup {"purged"} \subseteq spoilt'[n]
    <2>1. IdsIn(n)' = {} /\ Distinct(n)'
      BY <1>3 DEF IdsIn, Distinct
    <2>2. \A s, k : OnlyTo(n, s, k)'
      BY <2>1 DEF OnlyTo
    <2>3. Alone(n)'
      BY <1>1, <1>3 DEF Kept, Alone
    <2>4. Once(n)'
      BY <2>1, <2>2 DEF Once, OnlyRead
    <2>5. \A y \in Nodes : ReadTo(offsets[n][y], y)' = 0
      BY <1>3 DEF ReadTo, Unread
    <2>6. ASSUME NEW y \in Nodes
          PROVE  AllTo(n, Lines(y), ReadTo(offsets[n][y], y))'
      <3>1. \A i \in WordsAt(Lines(y)') : i \in Nat \ {0}
        <4>1. CASE y \in X
          BY <1>1, <4>1
        <4>2. CASE y \notin X
          BY <1>1, <4>2, LogIs DEF WordsAt
        <4> QED BY <4>1, <4>2
      <3>2. \A i \in WordsAt(Lines(y)') : ~(i <= 0)
        BY <3>1
      <3> QED BY <2>5, <3>2 DEF AllTo, WordsAt
    <2>7. Whole(n)'
      BY <1>1, <1>3, <2>6 DEF Whole
    <2> QED BY <2>3, <2>4, <2>7 DEF Kept
  <1> QED BY <1>2, <1>3

-----------------------------------------------------------------------------
(* The record's invariant, and every step of it.                           *)

RecordInv == RTypes /\ IdsInv /\ FilesInv /\ ToolIds /\ \A n \in Names : Kept(n)

LEMMA RecordStarts ==
  RecordInit => RecordInv
  <1> SUFFICES ASSUME RecordInit
               PROVE  RecordInv
    OBVIOUS
  <1>1. /\ EmptyLog \in Log /\ EmptyLog.lines = <<>> /\ EmptyLog.file = 0
    <2>1. <<>> \in Seq(LogLine)
      OBVIOUS
    <2> QED BY <2>1 DEF EmptyLog, Log
  <1>2. Unread \in Offsets
    BY DEF Unread, Offsets
  <1>3. /\ \A x \in Nodes : log[x] = EmptyLog
        /\ \A p \in Processes : reader[p] = Idle /\ ~Harvesting(p)
        /\ \A n \in Names : record[n] = <<>> /\ offsets[n] = Unread
    BY DEF RecordInit, Harvesting, Idle
  <1>4. RTypes
    <2>1. \A p \in Processes : reader[p].at # "scan"
      BY <1>3 DEF Idle
    <2> QED BY <1>1, <1>2, <2>1 DEF RecordInit, RTypes
  <1>5. \A x \in Nodes : Lines(x) = <<>> /\ DOMAIN Lines(x) = {} /\ WordsAt(Lines(x)) = {} /\ WordIds(Lines(x)) = {} /\ ~Pending(x)
    BY <1>1, <1>3 DEF Lines, WordsAt, WordIds, Pending
  <1>6. \A p \in Processes : ~Holding(p) /\ reader[p].at # "scan"
    BY <1>3 DEF Holding, Idle
  <1>7. \A n \in Names : IdsIn(n) = {} /\ Distinct(n)
    BY <1>3 DEF IdsIn, Distinct
  <1>8. IdsInv
    BY <1>5, <1>6, <1>7 DEF IdsInv, Spread
  <1>9. FilesInv
    BY <1>1, <1>3, <1>5, <1>6 DEF FilesInv, Fit, Unread
  <1>10. ToolIds
    BY <1>3 DEF ToolIds
  <1>11. \A n \in Names, p \in Processes : ~Harvests(p, n)
    BY <1>3 DEF Harvests
  <1>12. \A n \in Names : Kept(n)
    BY <1>5, <1>7, <1>11 DEF Kept, Alone, Once, Whole, OnlyTo, AllTo
  <1> QED BY <1>4, <1>8, <1>9, <1>10, <1>12 DEF RecordInv

\* The tool's own entry, and the clock.
LEMMA ToolKeeps ==
  ASSUME RecordInv, NEW n \in Names, record' = [record EXCEPT ![n] = Append(@, ToolEntry)],
         UNCHANGED <<now, said, offsets, log, reader, spoilt>>
  PROVE  RecordInv'
  <1>1. ToolEntry \in Entry /\ ToolEntry.actor = "tool" /\ ToolEntry.id = 0
    BY ToolIs DEF RecordInv
  <1>2. record' \in [Names -> Seq(Entry)]
    BY <1>1, AppendTypes DEF RecordInv
  <1>3. RTypes'
    BY <1>2 DEF RecordInv, RTypes
  <1> DEFINE e == ToolEntry
  <1> HIDE DEF e
  <1>4. /\ \A m \in Names : IdsIn(m)' = IF m = n /\ e.actor = "engine" THEN IdsIn(m) \cup {e.id} ELSE IdsIn(m)
        /\ \A m \in Names : m # n => (Distinct(m)' <=> Distinct(m))
        /\ ToolIds /\ (e.actor = "tool" => e.id = 0) => ToolIds'
        /\ ToolIds /\ IdsInv /\ e.actor = "tool" /\ e.id = 0 /\ Distinct(n) => Distinct(n)'
    <2>1. e \in Entry /\ record' = [record EXCEPT ![n] = Append(@, e)] /\ RTypes
      BY <1>1 DEF e, RecordInv
    <2> QED BY <2>1, AppendIds
  <1>5. \A m \in Names : IdsIn(m)' = IdsIn(m) /\ (Distinct(m) => Distinct(m)')
    BY <1>1, <1>4 DEF e, RecordInv
  <1>6. ToolIds'
    BY <1>1, <1>4 DEF e, RecordInv
  <1>7. IdsInv'
    BY <1>5, IdsKept DEF RecordInv, Holding
  <1>8. FilesInv'
    <2>1. log' \in [Nodes -> Log] /\ \A y \in Nodes : Len(log[y].lines) \in Nat
      BY LogIs DEF RecordInv, RTypes, Lines
    <2> QED BY <2>1, FilesGrow DEF RecordInv
  <1>9. \A m \in Names : Kept(m)'
    BY <1>5, NameKept DEF RecordInv
  <1> QED BY <1>3, <1>6, <1>7, <1>8, <1>9 DEF RecordInv

LEMMA TickKeeps ==
  ASSUME RecordInv, now' \in Nat, UNCHANGED <<said, record, offsets, log, reader, spoilt>>
  PROVE  RecordInv'
  <1>1. RTypes'
    BY DEF RecordInv, RTypes
  <1>2. ToolIds' /\ \A m \in Names : IdsIn(m)' = IdsIn(m) /\ Distinct(m)' = Distinct(m)
    BY DEF ToolIds, IdsIn, Distinct, RecordInv
  <1>3. IdsInv'
    BY <1>2, IdsKept DEF RecordInv, Holding
  <1>4. FilesInv'
    <2>1. log' \in [Nodes -> Log] /\ \A y \in Nodes : Len(log[y].lines) \in Nat
      BY LogIs DEF RecordInv, RTypes, Lines
    <2> QED BY <2>1, FilesGrow DEF RecordInv
  <1>5. \A m \in Names : Kept(m)'
    BY <1>2, NameKept DEF RecordInv
  <1> QED BY <1>1, <1>2, <1>3, <1>4, <1>5 DEF RecordInv

\* A line is added that no record has the words of.
LEMMA GrowKeeps ==
  ASSUME RecordInv, NEW x \in Nodes, NEW line \in LogLine, Grows(x, line),
         UNCHANGED <<now, record, offsets, reader, spoilt>>,
         \/ line.kind = "time" /\ line.id = said + 1 /\ said' = said + 1
         \/ line.kind = "ha" /\ Pending(x) /\ line.id = LastId(x) /\ said' = said
  PROVE  RecordInv'
  <1>1. RTypes /\ IdsInv /\ FilesInv /\ said \in Nat
    BY DEF RecordInv, RTypes
  <1>2. said' \in Nat /\ said <= said' /\ line.id <= said' /\ (line.kind = "ha" => Unheard(line.id))
    <2>1. CASE line.kind = "time" /\ line.id = said + 1 /\ said' = said + 1
      BY <1>1, <2>1
    <2>2. CASE line.kind = "ha" /\ Pending(x) /\ line.id = LastId(x) /\ said' = said
      <3>1. LastId(x) <= said
        BY <1>1, <2>2, PendingIs DEF IdsInv, LastId
      <3> QED BY <1>1, <2>2, <3>1 DEF IdsInv
    <2> QED BY <2>1, <2>2
  <1>3. IdsInv'
    BY <1>1, <1>2, IdsGrow
  <1>4. log' \in [Nodes -> Log]
    BY DEF Grows
  <1>5. RTypes'
    BY <1>1, <1>2, <1>4, LogTypes
  <1> DEFINE t(y) == Append(Lines(y), line)
  <1>6. \A y \in Nodes : /\ Len(t(y)) = Len(Lines(y)) + 1 /\ Len(Lines(y)) \in Nat
                         /\ \A i \in DOMAIN Lines(y) : t(y)[i] = Lines(y)[i]
                         /\ t(y)[Len(Lines(y)) + 1] = line
                         /\ WordsAt(t(y)) = WordsAt(Lines(y)) \cup (IF line.kind = "ha" THEN {Len(Lines(y)) + 1} ELSE {})
    BY <1>1, AppendedWords, LogIs
  <1>7. \A y \in Nodes : log'[y].file = log[y].file /\ Lines(y)' = IF y = x THEN t(y) ELSE Lines(y)
    BY DEF Grows, Lines
  <1> HIDE DEF t
  <1>8. \A y \in Nodes : Len(log[y].lines) <= Len(log'[y].lines)
    BY <1>6, <1>7 DEF Lines
  <1>9. FilesInv'
    BY <1>1, <1>4, <1>7, <1>8, FilesGrow
  <1>10. \A y \in Nodes : WordsAt(Lines(y)) \subseteq DOMAIN Lines(y)
    BY DEF WordsAt
  <1>11. ASSUME NEW y \in Nodes
         PROVE  /\ \A i \in WordsAt(Lines(y)) : i \in WordsAt(Lines(y))' /\ Lines(y)'[i].id = Lines(y)[i].id
                /\ \A i \in WordsAt(Lines(y))' :
                     \/ i \in WordsAt(Lines(y)) /\ Lines(y)'[i].id = Lines(y)[i].id
                     \/ i \in Nat /\ i > Len(Lines(y)) /\ \A n \in Names : Lines(y)'[i].id \notin IdsIn(n)
    <2>1. WordsAt(Lines(y))' = IF y = x THEN WordsAt(t(y)) ELSE WordsAt(Lines(y))
      BY <1>7 DEF WordsAt
    <2>2. CASE y # x
      BY <1>7, <2>1, <2>2
    <2>3. CASE y = x
      <3>1. line.kind = "ha" => \A n \in Names : line.id \notin IdsIn(n)
        BY <1>2 DEF Unheard
      <3>2. WordsAt(Lines(y))' = WordsAt(Lines(y)) \cup (IF line.kind = "ha" THEN {Len(Lines(y)) + 1} ELSE {})
        BY <1>6, <2>1, <2>3
      <3>3. /\ \A i \in WordsAt(Lines(y)) : Lines(y)'[i] = Lines(y)[i]
            /\ Lines(y)'[Len(Lines(y)) + 1] = line /\ Len(Lines(y)) \in Nat
        BY <1>6, <1>7, <1>10, <2>3
      <3> QED BY <3>1, <3>2, <3>3
    <2> QED BY <2>2, <2>3
  <1>12. \A n \in Names : Kept(n)'
    BY <1>1, <1>7, <1>11, LogKeeps DEF RecordInv
  <1>13. ToolIds'
    BY DEF ToolIds, RecordInv
  <1> QED BY <1>3, <1>5, <1>9, <1>12, <1>13 DEF RecordInv

LEMMA UnlinkInv ==
  ASSUME RecordInv, NEW X, Unlink(X), UNCHANGED <<now, said>>,
         record' \in [Names -> Seq(Entry)], offsets' \in [Names -> Offsets],
         spoilt' \in [Names -> SUBSET Spoils],
         \A n \in Names :
            \/ record'[n] = record[n] /\ offsets'[n] = offsets[n] /\ spoilt'[n] = spoilt[n]
            \/ /\ record'[n] = <<>> /\ offsets'[n] = Unread
               /\ (\E p \in Processes : Harvests(p, n)) => spoilt[n] \cup {"purged"} \subseteq spoilt'[n]
  PROVE  RecordInv'
  <1>1. RTypes'
    BY UnlinkTypes DEF RecordInv
  <1>2. \A n \in Names : IdsIn(n)' \subseteq IdsIn(n)
    <2> SUFFICES ASSUME NEW n \in Names PROVE IdsIn(n)' \subseteq IdsIn(n)
      OBVIOUS
    <2>1. CASE record'[n] = record[n]
      BY <2>1 DEF IdsIn
    <2>2. CASE record'[n] = <<>>
      BY <2>2 DEF IdsIn
    <2> QED BY <2>1, <2>2
  <1>3. ToolIds'
    <2> SUFFICES ASSUME NEW n \in Names
                 PROVE  \A i \in DOMAIN record'[n] : record'[n][i].actor = "tool" => record'[n][i].id = 0
      BY DEF ToolIds
    <2>1. CASE record'[n] = record[n]
      BY <2>1 DEF ToolIds, RecordInv
    <2>2. CASE record'[n] = <<>>
      BY <2>2
    <2> QED BY <2>1, <2>2
  <1>4. IdsInv'
    BY <1>2, IdsUnlink DEF RecordInv
  <1>5. FilesInv'
    BY FilesUnlink DEF RecordInv
  <1>6. \A n \in Names : Kept(n)'
    BY UnlinkKeeps DEF RecordInv
  <1> QED BY <1>1, <1>3, <1>4, <1>5, <1>6 DEF RecordInv

LEMMA EngineKeeps ==
  ASSUME RecordInv, NEW x \in Nodes, Stamp(x) \/ Words(x) \/ Newline(x) \/ Rotate(x)
  PROVE  RecordInv'
  <1>1. RTypes /\ FilesInv
    BY DEF RecordInv
  <1>2. CASE Stamp(x)
    <2>1. /\ said' = said + 1 /\ UNCHANGED <<now, record, offsets, reader, spoilt>>
          /\ \E line \in LogLine : line.kind = "time" /\ line.id = said + 1 /\ Grows(x, line)
      BY <1>1, <1>2, StampGrows
    <2> QED BY <2>1, GrowKeeps
  <1>3. CASE Words(x)
    <2>1. /\ Pending(x) /\ UNCHANGED <<now, said, record, offsets, reader, spoilt>>
          /\ \E line \in LogLine : line.kind = "ha" /\ line.id = LastId(x) /\ Grows(x, line)
      BY <1>1, <1>3, WordsGrows
    <2> QED BY <2>1, GrowKeeps
  <1>4. CASE Newline(x)
    <2>1. /\ log' \in [Nodes -> Log] /\ UNCHANGED <<now, said, record, offsets, reader, spoilt>>
          /\ \A y \in Nodes : log'[y].file = log[y].file /\ log'[y].lines = log[y].lines
      BY <1>1, <1>4, NewlineKeeps
    <2>2. RTypes'
      BY <1>1, <2>1, LogTypes DEF RTypes
    <2>3. ToolIds' /\ \A m \in Names : IdsIn(m)' = IdsIn(m)
      BY <2>1 DEF ToolIds, IdsIn, RecordInv
    <2>4. IdsInv'
      BY <2>1, <2>3, IdsKept DEF RecordInv, Holding
    <2>5. FilesInv'
      <3>1. \A y \in Nodes : Len(log[y].lines) \in Nat
        BY <1>1, LogIs DEF Lines
      <3>2. \A y \in Nodes : Len(log[y].lines) <= Len(log'[y].lines)
        BY <2>1, <3>1
      <3> QED BY <1>1, <2>1, <3>2, FilesGrow
    <2>6. \A y \in Nodes : Lines(y)' = Lines(y) /\ WordsAt(Lines(y))' = WordsAt(Lines(y))
      BY <2>1 DEF Lines, WordsAt
    <2>7. \A n \in Names : Kept(n)'
      BY <1>1, <2>1, <2>6, LogKeeps DEF RecordInv
    <2> QED BY <2>2, <2>3, <2>4, <2>5, <2>7 DEF RecordInv
  <1>5. CASE Rotate(x)
    <2>1. Unlink({x}) /\ UNCHANGED <<now, said, record, offsets, spoilt>>
      BY <1>5 DEF Rotate
    <2> QED BY <1>1, <2>1, UnlinkInv DEF RTypes
  <1> QED BY <1>2, <1>3, <1>4, <1>5

LEMMA ToolIdsKept ==
  ASSUME RecordInv, NEW p \in Processes,
         \/ UNCHANGED record
         \/ ReadLine(p)
  PROVE  ToolIds'
  <1>1. CASE UNCHANGED record
    BY <1>1 DEF ToolIds, RecordInv
  <1>2. CASE ReadLine(p) /\ record' # record
    <2> DEFINE line == InHand(p).lines[reader[p].line + 1]
               e == EngineEntry(line, reader[p].last)
               n == reader[p].n
    <2>1. RTypes /\ ToolIds
      BY DEF RecordInv
    <2>2. line.kind = "ha" /\ record' = [record EXCEPT ![n] = Append(@, e)]
      BY <1>2, <2>1, LineIs
    <2>3. n \in Names /\ e \in Entry /\ e.actor = "engine"
      BY <1>2, <2>1, <2>2, LineIsHeard
    <2> HIDE DEF e, n, line
    <2>4. ToolIds /\ (e.actor = "tool" => e.id = 0) => ToolIds'
      BY <2>1, <2>2, <2>3, AppendIds
    <2> QED BY <2>1, <2>3, <2>4
  <1> QED BY <1>1, <1>2

LEMMA HarvestKeeps ==
  ASSUME RecordInv, NEW p \in Processes,
         \/ ~Harvesting(p) /\ \E n \in Names, nodes \in Seq(Nodes) : LoadOffsets(p, n, nodes)
         \/ OpenFile(p) \/ NoFile(p) \/ AllRead(p) \/ ReadLine(p) \/ EndOfFile(p)
         \/ SaveOffsets(p) \/ (LoseOffsets(p) /\ record[reader[p].n] = <<>>) \/ DropHarvest(p)
  PROVE  RecordInv'
  <1>1. RTypes /\ IdsInv /\ FilesInv /\ ToolIds /\ \A n \in Names : Kept(n)
    BY DEF RecordInv
  <1>2. IdsInv'
    BY <1>1, HarvestIds
  <1>3. ASSUME ~Harvesting(p), NEW n \in Names, NEW nodes \in Seq(Nodes), LoadOffsets(p, n, nodes)
        PROVE  RecordInv'
    <2>1. UNCHANGED record
      BY <1>3 DEF LoadOffsets
    <2> QED BY <1>1, <1>2, <1>3, <2>1, LoadTypes, FilesLoad, LoadKeeps, ToolIdsKept DEF RecordInv
  <1>4. CASE OpenFile(p)
    <2>1. UNCHANGED record
      BY <1>4 DEF OpenFile
    <2> QED BY <1>1, <1>2, <1>4, <2>1, OpenTypes, FilesOpen, OpenKeeps, ToolIdsKept DEF RecordInv
  <1>5. CASE NoFile(p) \/ AllRead(p)
    <2>1. UNCHANGED record
      BY <1>5 DEF NoFile, AllRead
    <2> QED BY <1>1, <1>2, <1>5, <2>1, PassTypes, FilesPass, PassKeeps, ToolIdsKept DEF RecordInv
  <1>6. CASE ReadLine(p)
    BY <1>1, <1>2, <1>6, LineTypes, FilesLine, LineKeeps, ToolIdsKept DEF RecordInv
  <1>7. CASE EndOfFile(p)
    <2>1. UNCHANGED record
      BY <1>7 DEF EndOfFile
    <2> QED BY <1>1, <1>2, <1>7, <2>1, EndTypes, FilesEnd, EndKeeps, ToolIdsKept DEF RecordInv
  <1>8. CASE SaveOffsets(p) \/ (LoseOffsets(p) /\ record[reader[p].n] = <<>>) \/ DropHarvest(p)
    <2>1. UNCHANGED record
      BY <1>8 DEF SaveOffsets, LoseOffsets, DropHarvest
    <2> QED BY <1>1, <1>2, <1>8, <2>1, OverTypes, FilesOver, OverKeeps, ToolIdsKept DEF RecordInv
  <1> QED BY <1>3, <1>4, <1>5, <1>6, <1>7, <1>8

\* What it gives.
LEMMA RecordGives ==
  RecordInv => HarvestedOnce /\ NothingSkipped
  <1> SUFFICES ASSUME RecordInv
               PROVE  HarvestedOnce /\ NothingSkipped
    OBVIOUS
  <1>1. HarvestedOnce
    BY DEF RecordInv, Kept, Once, Distinct, HarvestedOnce
  <1>2. NothingSkipped
    <2> SUFFICES ASSUME NEW n \in Names, NEW x \in Nodes,
                        offsets[n][x].of = log[x].file, spoilt[n] \cap {"outgrown", "purged"} = {},
                        NEW i \in DOMAIN Lines(x), i <= offsets[n][x].read, Lines(x)[i].kind = "ha"
                 PROVE  Lines(x)[i].id \in IdsIn(n)
      BY DEF NothingSkipped
    <2>1. AllTo(n, Lines(x), ReadTo(offsets[n][x], x))
      BY DEF RecordInv, Kept, Whole
    <2>2. ReadTo(offsets[n][x], x) = offsets[n][x].read /\ i \in WordsAt(Lines(x))
      BY DEF ReadTo, WordsAt
    <2> QED BY <2>1, <2>2 DEF AllTo
  <1> QED BY <1>1, <1>2
=============================================================================
