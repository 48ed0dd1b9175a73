---------------------------- MODULE ResyncProofs ----------------------------
(***************************************************************************)
(* Theorems about Resync, for every group, every set of processes, tables  *)
(* and rows, and every bound.                                              *)
(***************************************************************************)
EXTENDS Resync, FiniteSetTheorems, WellFoundedInduction, TLAPS

-----------------------------------------------------------------------------
(* Types.  What a client keeps is a ClientState whatever it turns to, and  *)
(* it has a pair of nodes, and a table, where it needs one.                *)

Outcomes == {"none", "error", "timeout", "resumed", "agree", "uncompared", "same", "differs", "still_diverged",
             "rebuilt", "rebuilt_uncompared", "started", "rejoined", "needs_rebuild", "up"}
PairOf(me) == me.slave \in DBNodes /\ me.master \in DBNodes \ {me.slave}
Led(me) ==
  /\ me.then \in {"back", "drain", "joined"} => PairOf(me)
  /\ me.then = "resolve" => me.slave \in DBNodes
GoodClient(me) ==
  /\ me \in ClientState
  /\ me.at \in Paired => PairOf(me)
  /\ me.at \in {"master", "slave"} => me.todo # {}
  /\ me.at \in {"start", "read"} => Led(me)
CliOK == cli \in [Clients -> ClientState] /\ \A c \in Clients : GoodClient(cli[c])

LEMMA Places ==
  /\ "idle" \in Phases /\ "read" \in Phases /\ "list" \in Phases /\ "master" \in Phases /\ "slave" \in Phases
  /\ "stop" \in Phases /\ "relog" \in Phases /\ "start" \in Phases /\ "createdb" \in Phases
  BY DEF Phases

LEMMA FirstSlot == 1 \in 1..(NNodes + 1)
  BY ResyncAssumption

LEMMA NoneSeen == Fresh.seen \in [DBNodes -> Reads]
  BY DEF Fresh, Reads, Fails

LEMMA FreshGood ==
  ASSUME NEW result \in Outcomes
  PROVE  Fresh \in ClientState /\ GoodClient([Fresh EXCEPT !.outcome = result])
  <1>1. [n \in DBNodes |-> [server |-> "", fail |-> 0, behind |-> FALSE]] \in [DBNodes -> Reads]
    BY DEF Reads, Fails
  <1>2. Fresh \in ClientState
    BY <1>1, FirstSlot DEF Fresh, ClientState, Phases, Purposes
  <1>3. [Fresh EXCEPT !.outcome = result] \in ClientState
    BY <1>2, ZenonT(60) DEF ClientState, Outcomes
  <1> QED BY <1>2, <1>3 DEF GoodClient, Fresh, Paired

LEMMA ReadingGood ==
  ASSUME NEW me \in ClientState, NEW purpose \in Purposes,
         purpose \in {"back", "drain", "joined"} => PairOf(me), purpose = "resolve" => me.slave \in DBNodes
  PROVE  /\ GoodClient(Reading(me, purpose)) /\ GoodClient(Waiting(me, purpose))
         /\ Reading(me, purpose).at = "read" /\ Waiting(me, purpose).at = "read"
  <1>1. Reading(me, purpose) \in ClientState
    BY FirstSlot, NoneSeen, Places DEF Reading, ClientState
  <1>2. /\ Reading(me, purpose).at = "read" /\ Reading(me, purpose).then = purpose
        /\ Reading(me, purpose).slave = me.slave /\ Reading(me, purpose).master = me.master
    BY DEF Reading, ClientState
  <1>3. Waiting(me, purpose) \in ClientState
    BY <1>1 DEF Waiting, ClientState
  <1>4. /\ Waiting(me, purpose).at = "read" /\ Waiting(me, purpose).then = purpose
        /\ Waiting(me, purpose).slave = me.slave /\ Waiting(me, purpose).master = me.master
    BY <1>1, <1>2 DEF Waiting, ClientState
  <1> QED BY <1>1, <1>2, <1>3, <1>4 DEF GoodClient, Paired, Led, PairOf

LEMMA ComparingGood ==
  ASSUME NEW me \in ClientState, NEW judge \in {"choose", "table", "rebuilt"}, PairOf(me)
  PROVE  GoodClient(Comparing(me, judge)) /\ PairOf(Comparing(me, judge))
  <1> DEFINE base == [me EXCEPT !.at = "list", !.judge = judge]
             next == [base EXCEPT !.todo = {}, !.rows = 0, !.differ = {}]
  <1>3. base \in ClientState
    BY Places DEF ClientState
  <1>4. next \in ClientState
    BY <1>3 DEF ClientState
  <1>5. Comparing(me, judge) = [next EXCEPT !.seen = Fresh.seen]
    BY DEF Comparing
  <1> HIDE DEF next
  <1>1. Comparing(me, judge) \in ClientState
    BY <1>4, <1>5, NoneSeen DEF ClientState
  <1>2. Comparing(me, judge).at = "list" /\ Comparing(me, judge).slave = me.slave /\ Comparing(me, judge).master = me.master
    BY DEF Comparing, ClientState
  <1> QED BY <1>1, <1>2 DEF GoodClient, Paired, PairOf

LEMMA GoingGood ==
  ASSUME NEW me \in ClientState, NEW phase \in Phases \ {"master", "slave", "start", "read"},
         phase \in Paired => PairOf(me)
  PROVE  GoodClient([me EXCEPT !.at = phase])
  <1>1. [me EXCEPT !.at = phase] \in ClientState
    BY DEF ClientState
  <1> QED BY <1>1 DEF GoodClient, PairOf, ClientState

LEMMA OneClient ==
  ASSUME CliOK, NEW c \in Clients, NEW me, GoodClient(me), Becomes(c, me)
  PROVE  CliOK'
  BY DEF CliOK, Becomes, GoodClient, PairOf

LEMMA ReturnGood ==
  ASSUME CliOK, NEW c \in Clients, NEW result \in Outcomes, Return(c, result)
  PROVE  CliOK' /\ cut' \in BOOLEAN
  BY FreshGood, OneClient DEF Return

LEMMA GoesGood ==
  ASSUME CliOK, NEW c \in Clients, NEW phase \in Phases \ {"master", "slave", "start", "read"},
         phase \in Paired => PairOf(cli[c]), Goes(c, phase)
  PROVE  CliOK'
  BY GoingGood, OneClient DEF CliOK, Goes

-----------------------------------------------------------------------------
(* What the comparisons turn on: the last of some nodes is one of them,    *)
(* and the rows of a table can be counted.                                 *)

LEMMA LastIsOne ==
  ASSUME NEW nodes \in SUBSET DBNodes, nodes # {}
  PROVE  LastOf(nodes) \in nodes
  <1> DEFINE Less == {p \in Nat \X Nat : p[1] < p[2]}
             Left == {NNodes - n : n \in nodes}
  <1>1. IsWellFoundedOn(Less, Nat)
    BY NatLessThanWellFounded DEF OpToRel
  <1>0. NNodes \in Nat
    BY ResyncAssumption
  <1>2. Left \subseteq Nat /\ Left # {}
    <2>1. \A n \in nodes : n \in Nat /\ n <= NNodes
      BY <1>0 DEF DBNodes
    <2>2. \A n \in nodes : NNodes - n \in Nat
      BY <1>0, <2>1
    <2> QED BY <2>2
  <1> HIDE DEF Left, Less
  <1>3. PICK k \in Left : \A j \in Left : ~ (<<j, k>> \in Less)
    BY <1>1, <1>2, WFMin
  <1>4. \A j \in Left : k <= j
    <2> TAKE j \in Left
    <2>1. j \in Nat /\ k \in Nat /\ ~ (<<j, k>> \in Less)
      BY <1>2, <1>3
    <2>2. j < k => <<j, k>> \in Less
      BY <2>1 DEF Less
    <2> QED BY <2>1, <2>2
  <1>5. PICK n \in nodes : k = NNodes - n
    BY <1>3 DEF Left
  <1>6. \A m \in nodes : NNodes - m \in Left
    BY DEF Left
  <1>7. \A m \in nodes : m <= n
    BY <1>0, <1>4, <1>5, <1>6 DEF DBNodes
  <1> QED BY <1>7 DEF LastOf

LEMMA LastIsNode ==
  ASSUME NEW nodes \in SUBSET DBNodes
  PROVE  LastOf(nodes) \in DBNodes \cup {Nobody}
  <1>1. CASE nodes = {}
    BY <1>1 DEF LastOf
  <1>2. CASE nodes # {}
    BY <1>2, LastIsOne
  <1> QED BY <1>1, <1>2

WorldOK ==
  /\ db \in [DBNodes -> Database] /\ backup \in [DBNodes -> Database]
  /\ server \in [DBNodes -> {"", "standby", "active"}] /\ hb \in [DBNodes -> BOOLEAN]
  /\ position \in [DBNodes -> {"ok", "short", "foreign"}] /\ said \subseteq DBNodes
  /\ queue \in [DBNodes -> SUBSET Writes] /\ failed \in [DBNodes -> Fails] /\ named \in [DBNodes -> SUBSET Tables]
  /\ commands \in 0..MaxCommands /\ events \in 0..MaxEvents /\ cut \in BOOLEAN /\ mishaps \subseteq Mishaps

TypeInv == WorldOK /\ CliOK

LEMMA InvIsType == TypeInv => TypeOK
  BY DEF TypeInv, WorldOK, CliOK, GoodClient, PairOf, TypeOK

LEMMA CountIsNat ==
  ASSUME WorldOK, NEW n \in DBNodes, NEW t
  PROVE  Count(n, t) \in Nat
  <1>1. IsFiniteSet(Writes)
    BY ResyncAssumption, FS_Product DEF Writes
  <1>2. {w \in db[n].rows : w[1] = t} \in SUBSET Writes
    BY DEF WorldOK, Database
  <1>3. IsFiniteSet({w \in db[n].rows : w[1] = t})
    BY <1>1, <1>2, FS_Subset
  <1> QED BY <1>3, FS_CardinalityType DEF Count

LEMMA StillWorld ==
  ASSUME WorldOK, UNCHANGED <<files, engine, bounds>>, cut' \in BOOLEAN, mishaps' \subseteq Mishaps
  PROVE  WorldOK'
  BY DEF WorldOK, files, engine, bounds

-----------------------------------------------------------------------------
(* The choice of a path, and the comparison.                               *)

LEMMA TakeGood ==
  ASSUME WorldOK, CliOK, NEW c \in Clients, NEW me \in ClientState, PairOf(me), me.path # "", Take(c, me)
  PROVE  CliOK' /\ cut' \in BOOLEAN
  <1>0. me.path \in {"resume", "table", "slave"} /\ me.slave \in DBNodes /\ cut \in BOOLEAN
    BY DEF ClientState, PairOf, WorldOK
  <1>1. CASE me.path = "resume"
    <2>1. Return(c, "resumed")
      BY <1>1 DEF Take
    <2> QED BY <2>1, ReturnGood DEF Outcomes
  <1>2. CASE me.path = "table"
    <2> DEFINE rows == FailRows(c, me.slave)
               base == Comparing(me, "table")
               place == IF rows = {} THEN "list" ELSE "master"
               next == [base EXCEPT !.todo = rows, !.at = place]
    <2>1. Becomes(c, next) /\ cut' = cut
      BY <1>2 DEF Take
    <2>2. rows \in SUBSET Tables
      BY <1>0 DEF FailRows, WorldOK
    <2>3. base \in ClientState /\ PairOf(base)
      BY ComparingGood DEF GoodClient
    <2>0. place \in Phases \cap Paired /\ place \notin {"start", "read"} /\ (place \in {"master", "slave"} => rows # {})
      BY DEF Phases, Paired
    <2> HIDE DEF rows, base, place
    <2>4. next \in ClientState
      BY <2>0, <2>2, <2>3 DEF ClientState
    <2>5. next.slave = base.slave /\ next.master = base.master /\ next.todo = rows /\ next.at = place
      BY <2>3 DEF ClientState
    <2> HIDE DEF next
    <2>6. GoodClient(next)
      BY <2>0, <2>3, <2>4, <2>5 DEF GoodClient, PairOf
    <2> QED BY <1>0, <2>1, <2>6, OneClient
  <1>3. CASE me.path = "slave"
    <2>1. Becomes(c, [me EXCEPT !.at = "stop"]) /\ cut' = cut
      BY <1>3 DEF Take
    <2>2. GoodClient([me EXCEPT !.at = "stop"])
      BY GoingGood DEF Phases
    <2> QED BY <1>0, <2>1, <2>2, OneClient
  <1> QED BY <1>0, <1>1, <1>2, <1>3

LEMMA JudgedGood ==
  ASSUME WorldOK, CliOK, NEW c \in Clients, NEW me \in ClientState, PairOf(me),
         NEW compared \in BOOLEAN, Judged(c, me, compared)
  PROVE  CliOK' /\ cut' \in BOOLEAN
  <1>0. me.judge \in {"choose", "table", "rebuilt"}
    BY DEF ClientState
  <1>1. \A result \in Outcomes : Return(c, result) => CliOK' /\ cut' \in BOOLEAN
    BY ReturnGood
  <1>2. CASE me.judge = "choose" /\ me.differ # {}
    <2>1. Take(c, [me EXCEPT !.path = "slave"])
      BY <1>2 DEF Judged
    <2>2. [me EXCEPT !.path = "slave"] \in ClientState /\ [me EXCEPT !.path = "slave"].path = "slave"
          /\ PairOf([me EXCEPT !.path = "slave"])
      BY DEF ClientState, PairOf
    <2> QED BY <2>1, <2>2, TakeGood
  <1>3. CASE me.judge = "choose" /\ me.differ = {}
    <2>1. Return(c, IF compared THEN "agree" ELSE "uncompared")
      BY <1>3 DEF Judged
    <2> QED BY <1>1, <2>1 DEF Outcomes
  <1>4. CASE me.judge = "table"
    <2>1. Return(c, IF me.differ # {} THEN "differs" ELSE "same")
      BY <1>4 DEF Judged
    <2> QED BY <1>1, <2>1 DEF Outcomes
  <1>5. CASE me.judge = "rebuilt"
    <2>1. Return(c, IF ~compared THEN "rebuilt_uncompared" ELSE IF me.differ # {} THEN "still_diverged" ELSE "rebuilt")
      BY <1>5 DEF Judged
    <2> QED BY <1>1, <2>1 DEF Outcomes
  <1> QED BY <1>0, <1>2, <1>3, <1>4, <1>5

LEMMA ComparedGood ==
  ASSUME WorldOK, CliOK, NEW c \in Clients, cli[c].at \in {"master", "slave"},
         NEW differs \in BOOLEAN, Compared(c, Counted(c), differs)
  PROVE  CliOK' /\ cut' \in BOOLEAN
  <1> DEFINE t == Counted(c)
             me == [cli[c] EXCEPT !.todo = @ \ {t}, !.rows = 0, !.at = "master",
                                  !.differ = IF differs THEN @ \cup {t} ELSE @]
  <1>0. cli[c] \in ClientState /\ PairOf(cli[c]) /\ cli[c].todo # {}
    BY DEF CliOK, GoodClient, Paired
  <1>1. t \in Tables
    BY <1>0 DEF Counted, ClientState
  <1>2. IF me.todo = {} THEN Judged(c, me, TRUE) ELSE Becomes(c, me) /\ cut' = cut
    BY DEF Compared
  <1> HIDE DEF t
  <1>3. me \in ClientState
    BY <1>0, <1>1, Places, ZenonT(60) DEF ClientState
  <1>4. me.slave = cli[c].slave /\ me.master = cli[c].master /\ me.at = "master"
    BY <1>0 DEF ClientState
  <1>5. PairOf(me)
    BY <1>0, <1>4 DEF PairOf
  <1> HIDE DEF me
  <1>6. CASE me.todo = {}
    BY <1>2, <1>3, <1>5, <1>6, JudgedGood
  <1>7. CASE me.todo # {}
    BY <1>2, <1>3, <1>4, <1>5, <1>7, OneClient DEF GoodClient, WorldOK
  <1> QED BY <1>6, <1>7

-----------------------------------------------------------------------------
(* The steps of a command.                                                 *)

LEMMA BeginTypes == ASSUME TypeInv, NEW c \in Clients, Begin(c) PROVE TypeInv'
  <1>0. cli \in [Clients -> ClientState] /\ CliOK /\ WorldOK
    BY DEF TypeInv, CliOK
  <1>1. WorldOK'
    <2>1. commands' \in 0..MaxCommands
      <3>1. commands < MaxCommands /\ commands' = commands + 1
        BY DEF Begin
      <3>2. MaxCommands \in Nat /\ commands \in 0..MaxCommands
        BY <1>0, ResyncAssumption DEF WorldOK
      <3> QED BY <3>1, <3>2
    <2>2. mishaps' \subseteq Mishaps
      BY <1>0 DEF Begin, WorldOK, Mishaps
    <2> QED BY <1>0, <2>1, <2>2 DEF Begin, WorldOK, files, engine
  <1>2. Fresh \in ClientState
    BY FreshGood DEF Outcomes
  <1>3. ASSUME NEW path \in {"", "resume", "table", "slave"}, NEW target \in DBNodes \cup {Nobody},
               Becomes(c, [Reading(Fresh, "choose") EXCEPT !.path = path, !.slave = target])
        PROVE  CliOK'
    <2> DEFINE me == Reading(Fresh, "choose")
               next == [me EXCEPT !.path = path, !.slave = target]
    <2>1. me \in ClientState /\ me.at = "read"
      BY <1>2, ReadingGood DEF GoodClient, Purposes
    <2>0. me.then = "choose"
      BY <1>2 DEF Reading, ClientState
    <2> HIDE DEF me
    <2>2. next \in ClientState
      BY <2>1 DEF ClientState
    <2>3. next.at = "read" /\ next.then = "choose"
      BY <2>0, <2>1 DEF ClientState
    <2>4. Becomes(c, next)
      BY <1>3 DEF me
    <2> HIDE DEF next
    <2>5. GoodClient(next)
      BY <2>2, <2>3 DEF GoodClient, Paired, Led
    <2> QED BY <1>0, <2>4, <2>5, OneClient
  <1>4. ASSUME NEW target \in DBNodes,
               Becomes(c, [Fresh EXCEPT !.verb = "start", !.at = "start", !.then = "resolve", !.slave = target])
        PROVE  CliOK'
    <2> DEFINE base == [Fresh EXCEPT !.verb = "start", !.at = "start"]
               next == [base EXCEPT !.then = "resolve", !.slave = target]
    <2>0. base \in ClientState
      BY <1>2, Places DEF ClientState
    <2>1. next \in ClientState
      BY <2>0 DEF ClientState, Purposes
    <2>2. next.at = "start" /\ next.then = "resolve" /\ next.slave = target
      BY <1>2 DEF ClientState
    <2> HIDE DEF next
    <2>3. GoodClient(next)
      BY <2>1, <2>2 DEF GoodClient, Paired, Led
    <2>4. Becomes(c, next)
      BY <1>4 DEF next
    <2> QED BY <1>0, <2>3, <2>4, OneClient
  <1>5. ASSUME Becomes(c, [Fresh EXCEPT !.verb = "up", !.at = "createdb"])
        PROVE  CliOK'
    <2> DEFINE next == [Fresh EXCEPT !.verb = "up", !.at = "createdb"]
    <2>1. next \in ClientState
      BY <1>2, Places DEF ClientState
    <2>2. next.at = "createdb"
      BY <1>2 DEF ClientState
    <2> HIDE DEF next
    <2>3. GoodClient(next)
      BY <2>1, <2>2 DEF GoodClient, Paired
    <2>4. Becomes(c, next)
      BY <1>5 DEF next
    <2> QED BY <1>0, <2>3, <2>4, OneClient
  <1> QED BY <1>1, <1>3, <1>4, <1>5 DEF Begin, TypeInv

LEMMA ReadNodeTypes == ASSUME TypeInv, NEW c \in Clients, ReadNode(c) PROVE TypeInv'
  <1>0. cli \in [Clients -> ClientState] /\ CliOK /\ WorldOK /\ cli[c] \in ClientState /\ cli[c].at = "read"
    BY DEF TypeInv, CliOK, ReadNode, At
  <1>1. WorldOK'
    BY <1>0, StillWorld DEF ReadNode, WorldOK
  <1> DEFINE n == cli[c].slot
             look == IF Expired(c) \/ server[n] = "" THEN Fresh.seen[n]
                     ELSE [server |-> server[n], fail |-> failed[n], behind |-> queue[n] # {}]
             next == [cli[c] EXCEPT !.slot = @ + 1, !.seen[n] = look]
  <1>2. n \in DBNodes /\ n + 1 \in 1..(NNodes + 1)
    BY ResyncAssumption DEF ReadNode, DBNodes
  <1>3. look \in Reads
    <2>1. Fresh.seen[n] \in Reads
      BY <1>2, NoneSeen
    <2>2. server[n] \in {"", "standby", "active"} /\ failed[n] \in Fails
      BY <1>0, <1>2 DEF WorldOK
    <2>3. [server |-> server[n], fail |-> failed[n], behind |-> queue[n] # {}] \in Reads
      BY <2>2 DEF Reads
    <2> QED BY <2>1, <2>3
  <1>4. Becomes(c, next)
    BY DEF ReadNode
  <1> HIDE DEF look
  <1>5. cli[c].seen \in [DBNodes -> Reads]
    BY <1>0 DEF ClientState
  <1>6. [cli[c].seen EXCEPT ![n] = look] \in [DBNodes -> Reads]
    BY <1>2, <1>3, <1>5
  <1>7. next = [[cli[c] EXCEPT !.slot = n + 1] EXCEPT !.seen = [cli[c].seen EXCEPT ![n] = look]]
    BY <1>0 DEF ClientState
  <1>8. /\ next \in ClientState /\ next.at = "read" /\ next.then = cli[c].then
        /\ next.slave = cli[c].slave /\ next.master = cli[c].master
    BY <1>0, <1>2, <1>6, <1>7 DEF ClientState
  <1> HIDE DEF next
  <1>9. GoodClient(next)
    BY <1>0, <1>8 DEF CliOK, GoodClient, Paired, Led, PairOf
  <1> QED BY <1>0, <1>1, <1>4, <1>9, OneClient DEF TypeInv

LEMMA ChooseTypes == ASSUME TypeInv, NEW c \in Clients, Choose(c) PROVE TypeInv'
  <1>0. CliOK /\ WorldOK /\ cli[c] \in ClientState
    BY DEF TypeInv, CliOK
  <1> DEFINE master == LastOf(seen(c, "active"))
             slave == IF TheSlave(c) # Nobody THEN TheSlave(c) ELSE LastOf(seen(c, "standby"))
             fail == cli[c].seen[slave].fail
             me == [cli[c] EXCEPT !.master = master, !.slave = slave, !.seen = Fresh.seen]
  <1>1. IF Nobody \in {master, slave} \/ master = slave THEN Return(c, "error")
        ELSE IF me.path # "" THEN Take(c, me)
        ELSE IF fail = 0 THEN Becomes(c, Comparing(me, "choose")) /\ cut' = cut
        ELSE Take(c, [me EXCEPT !.path = Path(fail, FailRows(c, slave))])
    BY DEF Choose
  <1>2. master \in DBNodes \cup {Nobody} /\ slave \in DBNodes \cup {Nobody}
    BY <1>0, LastIsNode DEF seen, TheSlave, ClientState
  <1>3. slave \in DBNodes => fail \in Fails
    BY <1>0 DEF ClientState, Reads
  <1> HIDE DEF master, slave, fail
  <1>4. me \in ClientState /\ me.slave = slave /\ me.master = master
    BY <1>0, <1>2, NoneSeen DEF ClientState
  <1> HIDE DEF me
  <1>5. ASSUME Nobody \in {master, slave} \/ master = slave PROVE CliOK' /\ cut' \in BOOLEAN
    BY <1>0, <1>1, <1>5, ReturnGood DEF Outcomes
  <1>6. ASSUME ~(Nobody \in {master, slave} \/ master = slave) PROVE CliOK' /\ cut' \in BOOLEAN
    <2>1. PairOf(me) /\ slave \in DBNodes
      BY <1>2, <1>4, <1>6 DEF PairOf
    <2>2. CASE me.path # ""
      BY <1>0, <1>1, <1>4, <1>6, <2>1, <2>2, TakeGood
    <2>3. CASE me.path = "" /\ fail = 0
      <3>1. GoodClient(Comparing(me, "choose"))
        BY <1>4, <2>1, ComparingGood
      <3> QED BY <1>0, <1>1, <1>6, <2>3, <3>1, OneClient DEF WorldOK
    <2>4. CASE me.path = "" /\ fail # 0
      <3> DEFINE path == Path(fail, FailRows(c, slave))
                 next == [me EXCEPT !.path = path]
      <3>1. fail = 1 \/ fail = 1000
        BY <1>3, <2>1, <2>4, ZenonT(60) DEF Fails
      <3>2. path \in {"resume", "table", "slave"}
        BY <3>1 DEF Path
      <3>3. Take(c, next)
        BY <1>1, <1>6, <2>4
      <3> HIDE DEF path
      <3>4. next \in ClientState /\ next.path # "" /\ next.slave = me.slave /\ next.master = me.master
        BY <1>4, <3>2 DEF ClientState
      <3> HIDE DEF next
      <3> QED BY <1>0, <2>1, <3>3, <3>4, TakeGood DEF PairOf
    <2> QED BY <2>2, <2>3, <2>4
  <1>7. CliOK' /\ cut' \in BOOLEAN
    BY <1>5, <1>6
  <1>8. WorldOK'
    BY <1>0, <1>7, StillWorld DEF Choose, WorldOK
  <1> QED BY <1>7, <1>8 DEF TypeInv

LEMMA ListTypes == ASSUME TypeInv, NEW c \in Clients, List(c) PROVE TypeInv'
  <1>0. CliOK /\ WorldOK /\ cli[c] \in ClientState /\ PairOf(cli[c]) /\ cut \in BOOLEAN
    BY DEF TypeInv, CliOK, GoodClient, Paired, List, At, WorldOK
  <1> DEFINE tables == IF Reachable(c, TheMaster(c)) THEN db[TheMaster(c)].tables ELSE {}
             next == [cli[c] EXCEPT !.at = "master", !.todo = tables]
  <1>1. IF tables = {} THEN Judged(c, cli[c], Reachable(c, TheMaster(c))) ELSE Becomes(c, next) /\ cut' = cut
    BY DEF List
  <1>2. tables \in SUBSET Tables
    BY <1>0 DEF TheMaster, PairOf, WorldOK, Database
  <1>3. Reachable(c, TheMaster(c)) \in BOOLEAN
    BY DEF Reachable
  <1> HIDE DEF tables
  <1>4. ASSUME tables = {} PROVE CliOK' /\ cut' \in BOOLEAN
    BY <1>0, <1>1, <1>3, <1>4, JudgedGood
  <1>5. ASSUME tables # {} PROVE CliOK' /\ cut' \in BOOLEAN
    <2>1. next \in ClientState
      BY <1>0, <1>2, Places DEF ClientState
    <2>2. next.slave = cli[c].slave /\ next.master = cli[c].master /\ next.todo = tables
          /\ next.at = "master"
      BY <1>0 DEF ClientState
    <2> HIDE DEF next
    <2>3. GoodClient(next)
      BY <1>0, <1>5, <2>1, <2>2 DEF GoodClient, PairOf
    <2> QED BY <1>0, <1>1, <1>5, <2>3, OneClient
  <1>6. CliOK' /\ cut' \in BOOLEAN
    BY <1>4, <1>5
  <1>7. WorldOK'
    BY <1>0, <1>6, StillWorld DEF List, WorldOK
  <1> QED BY <1>6, <1>7 DEF TypeInv

LEMMA CountMasterTypes == ASSUME TypeInv, NEW c \in Clients, CountMaster(c) PROVE TypeInv'
  <1>0. CliOK /\ WorldOK /\ cli[c] \in ClientState /\ PairOf(cli[c]) /\ cli[c].at = "master" /\ cli[c].todo # {}
    BY DEF TypeInv, CliOK, GoodClient, Paired, CountMaster, At
  <1> DEFINE t == Counted(c)
             there == Reachable(c, TheMaster(c)) /\ t \in db[TheMaster(c)].tables
             rows == Count(TheMaster(c), t)
             next == [cli[c] EXCEPT !.at = "slave", !.rows = rows]
  <1>1. IF there THEN Becomes(c, next) /\ cut' = cut /\ mishaps' = mishaps
        ELSE Compared(c, t, FALSE) /\ mishaps' = mishaps \cup {"uncounted"}
    BY DEF CountMaster
  <1>2. rows \in Nat
    BY <1>0, CountIsNat DEF TheMaster, PairOf
  <1> HIDE DEF there, rows
  <1>3. ASSUME there PROVE CliOK' /\ cut' \in BOOLEAN
    <2>1. next \in ClientState
      BY <1>0, <1>2 DEF ClientState, Phases
    <2>2. next.slave = cli[c].slave /\ next.master = cli[c].master /\ next.todo = cli[c].todo
          /\ next.at = "slave"
      BY <1>0 DEF ClientState
    <2> HIDE DEF next
    <2>3. GoodClient(next)
      BY <1>0, <2>1, <2>2 DEF GoodClient, PairOf
    <2> QED BY <1>0, <1>1, <1>3, <2>3, OneClient DEF WorldOK
  <1>4. ASSUME ~there PROVE CliOK' /\ cut' \in BOOLEAN
    BY <1>0, <1>1, <1>4, ComparedGood
  <1>5. CliOK' /\ cut' \in BOOLEAN
    BY <1>3, <1>4
  <1>6. mishaps' \subseteq Mishaps
    BY <1>0, <1>1 DEF WorldOK, Mishaps
  <1>7. WorldOK'
    BY <1>0, <1>5, <1>6, StillWorld DEF CountMaster
  <1> QED BY <1>5, <1>7 DEF TypeInv

LEMMA CountSlaveTypes == ASSUME TypeInv, NEW c \in Clients, CountSlave(c) PROVE TypeInv'
  <1>0. CliOK /\ WorldOK /\ cli[c].at = "slave"
    BY DEF TypeInv, CountSlave, At
  <1>1. PICK differs \in BOOLEAN : Compared(c, Counted(c), differs)
    BY DEF CountSlave
  <1>2. CliOK' /\ cut' \in BOOLEAN
    BY <1>0, <1>1, ComparedGood
  <1>3. mishaps' \subseteq Mishaps
    BY <1>0 DEF CountSlave, WorldOK, Mishaps
  <1>4. WorldOK'
    BY <1>0, <1>2, <1>3, StillWorld DEF CountSlave
  <1> QED BY <1>2, <1>4 DEF TypeInv

LEMMA LooksGood ==
  ASSUME CliOK, NEW c \in Clients, NEW me, GoodClient(me), Looks(c, me)
  PROVE  CliOK' /\ cut' = cut
  BY OneClient DEF Looks

LEMMA StopTypes == ASSUME TypeInv, NEW c \in Clients, Stop(c) PROVE TypeInv'
  <1>0. CliOK /\ WorldOK /\ PairOf(cli[c]) /\ cut \in BOOLEAN
    BY DEF TypeInv, CliOK, GoodClient, Paired, Stop, At, WorldOK
  <1>1. CASE Return(c, "error") /\ UNCHANGED <<hb, server>>
    <2>1. CliOK' /\ cut' \in BOOLEAN
      BY <1>0, <1>1, ReturnGood DEF Outcomes
    <2> QED BY <1>0, <1>1, <2>1, StillWorld DEF Stop, Quiet, TypeInv, WorldOK, files, engine, bounds
  <1>2. CASE Goes(c, "prepare") /\ hb' = [hb EXCEPT ![TheSlave(c)] = FALSE] /\ server' = [server EXCEPT ![TheSlave(c)] = ""]
             /\ UNCHANGED cut
    <2>1. CliOK'
      BY <1>0, <1>2, GoesGood DEF Phases
    <2>2. hb' \in [DBNodes -> BOOLEAN] /\ server' \in [DBNodes -> {"", "standby", "active"}]
      BY <1>0, <1>2 DEF WorldOK
    <2> QED BY <1>0, <1>2, <2>1, <2>2 DEF Stop, Quiet, TypeInv, WorldOK, files, bounds
  <1> QED BY <1>1, <1>2 DEF Stop

LEMMA NothingIs == Nothing \in Database
  BY DEF Nothing, Database

LEMMA PrepareTypes == ASSUME TypeInv, NEW c \in Clients, Prepare(c) PROVE TypeInv'
  <1>0. CliOK /\ WorldOK /\ PairOf(cli[c])
    BY DEF TypeInv, CliOK, GoodClient, Paired, Prepare, At
  <1>1. CliOK'
    BY <1>0, GoesGood DEF Prepare, Phases
  <1>2. backup' \in [DBNodes -> Database]
    BY <1>0, NothingIs DEF Prepare, WorldOK
  <1> QED BY <1>0, <1>1, <1>2 DEF Prepare, Quiet, TypeInv, WorldOK, engine, bounds

LEMMA BackupTypes == ASSUME TypeInv, NEW c \in Clients, Backup(c) PROVE TypeInv'
  <1>0. CliOK /\ WorldOK /\ PairOf(cli[c]) /\ cut \in BOOLEAN
    BY DEF TypeInv, CliOK, GoodClient, Paired, Backup, At, WorldOK
  <1> DEFINE m == TheMaster(c)
  <1>1. m \in DBNodes /\ db[m] \in Database /\ backup[m] \in Database
    BY <1>0 DEF TheMaster, PairOf, WorldOK
  <1>2. [backup[m] EXCEPT !.state = "torn"] \in Database
    BY <1>1 DEF Database
  <1>3. CASE Return(c, "error") /\ (UNCHANGED backup \/ backup' = [backup EXCEPT ![m].state = "torn"])
    <2>1. CliOK' /\ cut' \in BOOLEAN
      BY <1>0, <1>3, ReturnGood DEF Outcomes
    <2>2. backup' \in [DBNodes -> Database]
      BY <1>0, <1>1, <1>2, <1>3 DEF WorldOK
    <2> QED BY <1>0, <2>1, <2>2 DEF Backup, Quiet, TypeInv, WorldOK, engine, bounds
  <1>4. CASE Goes(c, "remove") /\ backup' = [backup EXCEPT ![m] = db[m]] /\ UNCHANGED cut
    <2>1. CliOK'
      BY <1>0, <1>4, GoesGood DEF Phases
    <2>2. backup' \in [DBNodes -> Database]
      BY <1>0, <1>1, <1>4 DEF WorldOK
    <2> QED BY <1>0, <1>4, <2>1, <2>2 DEF Backup, Quiet, TypeInv, WorldOK, engine, bounds
  <1> QED BY <1>3, <1>4 DEF Backup

LEMMA RemoveTypes == ASSUME TypeInv, NEW c \in Clients, Remove(c) PROVE TypeInv'
  <1>0. CliOK /\ WorldOK /\ PairOf(cli[c])
    BY DEF TypeInv, CliOK, GoodClient, Paired, Remove, At
  <1>1. CliOK'
    BY <1>0, GoesGood DEF Remove, Phases
  <1> DEFINE s == TheSlave(c)
             after == IF db[s].state = "gone" THEN db[s].state ELSE "torn"
  <1>2. s \in DBNodes /\ db[s] \in Database
    BY <1>0 DEF TheSlave, PairOf, WorldOK
  <1>3. [db[s] EXCEPT !.state = after] \in Database
    BY <1>2 DEF Database
  <1>4. db' = [db EXCEPT ![s] = [db[s] EXCEPT !.state = after]]
    BY <1>0, <1>2 DEF Remove, WorldOK
  <1>5. db' \in [DBNodes -> Database]
    BY <1>0, <1>3, <1>4 DEF WorldOK
  <1> QED BY <1>0, <1>1, <1>5 DEF Remove, Quiet, TypeInv, WorldOK, engine, bounds

LEMMA UnlinkTypes == ASSUME TypeInv, NEW c \in Clients, Unlink(c) PROVE TypeInv'
  <1>0. CliOK /\ WorldOK /\ PairOf(cli[c])
    BY DEF TypeInv, CliOK, GoodClient, Paired, Unlink, At
  <1>1. CliOK'
    BY <1>0, GoesGood DEF Unlink, Phases
  <1>2. db' \in [DBNodes -> Database]
    BY <1>0, NothingIs DEF Unlink, WorldOK
  <1> QED BY <1>0, <1>1, <1>2 DEF Unlink, Quiet, TypeInv, WorldOK, engine, bounds

LEMMA FetchTypes == ASSUME TypeInv, NEW c \in Clients, Fetch(c) PROVE TypeInv'
  <1>0. CliOK /\ WorldOK /\ PairOf(cli[c])
    BY DEF TypeInv, CliOK, GoodClient, Paired, Fetch, At
  <1>1. CliOK'
    BY <1>0, GoesGood DEF Fetch, Phases
  <1>2. backup' \in [DBNodes -> Database]
    BY <1>0 DEF Fetch, WorldOK, TheMaster, PairOf
  <1> QED BY <1>0, <1>1, <1>2 DEF Fetch, Quiet, TypeInv, WorldOK, engine, bounds

LEMMA RestoreTypes == ASSUME TypeInv, NEW c \in Clients, Restore(c) PROVE TypeInv'
  <1>0. CliOK /\ WorldOK /\ PairOf(cli[c]) /\ cut \in BOOLEAN
    BY DEF TypeInv, CliOK, GoodClient, Paired, Restore, At, WorldOK
  <1> DEFINE s == TheSlave(c)
             m == TheMaster(c)
  <1>1. s \in DBNodes /\ db[s] \in Database /\ backup[s] \in Database /\ m \in DBNodes /\ db[m] \in Database
    BY <1>0 DEF TheSlave, TheMaster, PairOf, WorldOK
  <1>2. CASE UNCHANGED <<db, position, queue, failed>> /\ Return(c, "error")
    <2>1. CliOK' /\ cut' \in BOOLEAN
      BY <1>0, <1>2, ReturnGood DEF Outcomes
    <2> QED BY <1>0, <1>2, <2>1 DEF Restore, Quiet, TypeInv, WorldOK, bounds
  <1>3. CASE UNCHANGED <<position, queue, failed>> /\ db' = [db EXCEPT ![s].state = "torn"] /\ Return(c, "error")
    <2>1. CliOK' /\ cut' \in BOOLEAN
      BY <1>0, <1>3, ReturnGood DEF Outcomes
    <2>2. [db[s] EXCEPT !.state = "torn"] \in Database
      BY <1>1 DEF Database
    <2>3. db' \in [DBNodes -> Database]
      BY <1>0, <1>1, <1>3, <2>2 DEF WorldOK
    <2> QED BY <1>0, <1>3, <2>1, <2>3 DEF Restore, Quiet, TypeInv, WorldOK, bounds
  <1>4. CASE /\ Goes(c, "relog") /\ UNCHANGED cut
             /\ db' = [db EXCEPT ![s] = backup[s]] /\ position' = [position EXCEPT ![s] = "short"]
             /\ queue' = [queue EXCEPT ![s] = db[m].rows \ backup[s].rows]
             /\ failed' = [failed EXCEPT ![s] = 0]
    <2>1. CliOK'
      BY <1>0, <1>4, GoesGood DEF Phases
    <2>2. db' \in [DBNodes -> Database] /\ position' \in [DBNodes -> {"ok", "short", "foreign"}]
      BY <1>0, <1>1, <1>4 DEF WorldOK
    <2>3. db[m].rows \ backup[s].rows \in SUBSET Writes
      BY <1>1 DEF Database
    <2>4. queue' \in [DBNodes -> SUBSET Writes]
      BY <1>0, <1>4, <2>3 DEF WorldOK
    <2>5. failed' \in [DBNodes -> Fails]
      BY <1>0, <1>4, ZenonT(60) DEF WorldOK, Fails
    <2> QED BY <1>0, <1>4, <2>1, <2>2, <2>4, <2>5 DEF Restore, Quiet, TypeInv, WorldOK, bounds
  <1> QED BY <1>2, <1>3, <1>4 DEF Restore

LEMMA RelogTypes == ASSUME TypeInv, NEW c \in Clients, Relog(c) PROVE TypeInv'
  <1>0. CliOK /\ WorldOK /\ PairOf(cli[c]) /\ cut \in BOOLEAN /\ cli[c] \in ClientState
    BY DEF TypeInv, CliOK, GoodClient, Paired, Relog, At, WorldOK
  <1> DEFINE s == TheSlave(c)
             purpose == IF cli[c].verb = "resync" THEN "back" ELSE "rejoined"
             next == [cli[c] EXCEPT !.at = "start", !.then = purpose]
  <1>1. \/ Return(c, "error") /\ position' = position
        \/ Return(c, "error") /\ position' = [position EXCEPT ![s] = IF @ = "foreign" THEN @ ELSE "short"]
        \/ Becomes(c, next) /\ cut' = cut /\ position' = [position EXCEPT ![s] = IF @ = "foreign" THEN @ ELSE "ok"]
    BY DEF Relog
  <1>2. position' \in [DBNodes -> {"ok", "short", "foreign"}]
    BY <1>0, <1>1 DEF WorldOK
  <1>3. purpose \in Purposes
    BY DEF Purposes
  <1> HIDE DEF purpose
  <1>4. next \in ClientState /\ next.at = "start" /\ next.slave = cli[c].slave /\ next.master = cli[c].master
    BY <1>0, <1>3, Places DEF ClientState
  <1>7. next.then \in {"back", "rejoined"}
    BY <1>0 DEF ClientState, purpose
  <1> HIDE DEF next
  <1>5. GoodClient(next)
    BY <1>0, <1>4, <1>7 DEF GoodClient, Paired, Led, PairOf
  <1>6. CliOK' /\ cut' \in BOOLEAN
    BY <1>0, <1>1, <1>5, ReturnGood, OneClient DEF Outcomes
  <1> QED BY <1>0, <1>2, <1>6 DEF Relog, Quiet, TypeInv, WorldOK, files, bounds

LEMMA StartTypes == ASSUME TypeInv, NEW c \in Clients, Start(c) PROVE TypeInv'
  <1>0. CliOK /\ WorldOK /\ cut \in BOOLEAN /\ cli[c] \in ClientState /\ cli[c].then \in Purposes /\ Led(cli[c])
    BY DEF TypeInv, CliOK, WorldOK, ClientState, GoodClient, Start, At
  <1>1. CASE Return(c, "error") /\ UNCHANGED <<hb, server>>
    <2>1. CliOK' /\ cut' \in BOOLEAN
      BY <1>0, <1>1, ReturnGood DEF Outcomes
    <2> QED BY <1>0, <1>1, <2>1 DEF Start, Quiet, TypeInv, WorldOK, files, bounds
  <1>2. CASE Becomes(c, Waiting(cli[c], cli[c].then)) /\ UNCHANGED cut
             /\ hb' = [hb EXCEPT ![TheSlave(c)] = TRUE] /\ server' = [server EXCEPT ![TheSlave(c)] = ""]
    <2>1. CliOK'
      BY <1>0, <1>2, ReadingGood, OneClient DEF Led
    <2>2. hb' \in [DBNodes -> BOOLEAN] /\ server' \in [DBNodes -> {"", "standby", "active"}]
      BY <1>0, <1>2 DEF WorldOK
    <2> QED BY <1>0, <1>2, <2>1, <2>2 DEF Start, Quiet, TypeInv, WorldOK, files, bounds
  <1> QED BY <1>1, <1>2 DEF Start

-----------------------------------------------------------------------------
(* The waits move nothing but the client.                                  *)

LEMMA WaitTypes ==
  ASSUME TypeInv, NEW c \in Clients, UNCHANGED <<files, engine>>, Quiet, CliOK', cut' \in BOOLEAN
  PROVE  TypeInv'
  BY StillWorld DEF TypeInv, Quiet, WorldOK

LEMMA LooksAgain ==
  ASSUME TypeInv, NEW c \in Clients, At(c, "read"), Looks(c, Reading(cli[c], cli[c].then))
  PROVE  CliOK' /\ cut' \in BOOLEAN
  <1>1. CliOK /\ cli[c] \in ClientState /\ cut \in BOOLEAN /\ Led(cli[c])
    BY DEF TypeInv, CliOK, WorldOK, GoodClient, At
  <1>2. cli[c].then \in Purposes
    BY <1>1 DEF ClientState
  <1>3. GoodClient(Reading(cli[c], cli[c].then))
    BY <1>1, <1>2, ReadingGood DEF Led
  <1> QED BY <1>1, <1>3, LooksGood

LEMMA LooksOn ==
  ASSUME TypeInv, NEW c \in Clients, At(c, "read"), cli[c].then = "back", Looks(c, Waiting(cli[c], "drain"))
  PROVE  CliOK' /\ cut' \in BOOLEAN
  <1>1. CliOK /\ cli[c] \in ClientState /\ cut \in BOOLEAN /\ PairOf(cli[c])
    BY DEF TypeInv, CliOK, WorldOK, GoodClient, At, Led
  <1>3. GoodClient(Waiting(cli[c], "drain"))
    BY <1>1, ReadingGood DEF Purposes
  <1> QED BY <1>1, <1>3, LooksGood

LEMMA BackTypes == ASSUME TypeInv, NEW c \in Clients, Back(c) PROVE TypeInv'
  <1>1. CliOK /\ At(c, "read") /\ cli[c].then = "back"
    BY DEF TypeInv, Back, Read
  <1>2. CASE Looks(c, Waiting(cli[c], "drain"))
    <2>1. CliOK' /\ cut' \in BOOLEAN
      BY <1>1, <1>2, LooksOn
    <2> QED BY <2>1, WaitTypes DEF Back
  <1>3. CASE Looks(c, Reading(cli[c], "back"))
    <2>1. CliOK' /\ cut' \in BOOLEAN
      BY <1>1, <1>3, LooksAgain
    <2> QED BY <2>1, WaitTypes DEF Back
  <1>4. CASE Return(c, "timeout")
    <2>1. CliOK' /\ cut' \in BOOLEAN
      BY <1>1, <1>4, ReturnGood DEF Outcomes
    <2> QED BY <2>1, WaitTypes DEF Back
  <1> QED BY <1>2, <1>3, <1>4 DEF Back

LEMMA DrainTypes == ASSUME TypeInv, NEW c \in Clients, Drain(c) PROVE TypeInv'
  <1>1. CliOK /\ cli[c] \in ClientState /\ cut \in BOOLEAN /\ PairOf(cli[c])
    BY DEF TypeInv, CliOK, WorldOK, Drain, Read, At, GoodClient, Led
  <1>2. CASE Looks(c, Comparing(cli[c], "rebuilt"))
    <2>1. CliOK' /\ cut' \in BOOLEAN
      BY <1>1, <1>2, ComparingGood, LooksGood
    <2> QED BY <2>1, WaitTypes DEF Drain
  <1>3. CASE Looks(c, Reading(cli[c], "drain"))
    <2>1. CliOK' /\ cut' \in BOOLEAN
      BY <1>3, LooksAgain DEF Drain, Read
    <2> QED BY <2>1, WaitTypes DEF Drain
  <1> QED BY <1>2, <1>3 DEF Drain

LEMMA SeenFinite == ASSUME NEW c, NEW role PROVE seen(c, role) \in SUBSET DBNodes /\ IsFiniteSet(seen(c, role))
  <1>1. IsFiniteSet(DBNodes)
    BY ResyncAssumption, FS_Interval DEF DBNodes
  <1>2. seen(c, role) \in SUBSET DBNodes
    BY DEF seen
  <1> QED BY <1>1, <1>2, FS_Subset

LEMMA ResolvedTypes == ASSUME TypeInv, NEW c \in Clients, Resolved(c) PROVE TypeInv'
  <1>1. CliOK /\ cli[c] \in ClientState /\ cut \in BOOLEAN /\ cli[c].slave \in DBNodes
    BY DEF TypeInv, CliOK, WorldOK, Resolved, Read, At, GoodClient, Led
  <1> DEFINE masters == seen(c, "active")
             base == Waiting(cli[c], "joined")
             master == LastOf(masters)
             next == [base EXCEPT !.master = master]
  <1>2. CASE Return(c, "started")
    <2>1. CliOK' /\ cut' \in BOOLEAN
      BY <1>1, <1>2, ReturnGood DEF Outcomes
    <2> QED BY <2>1, WaitTypes DEF Resolved
  <1>3. CASE Cardinality(masters) = 1 /\ masters # {TheSlave(c)} /\ Looks(c, next)
    <2>1. PICK m \in DBNodes : masters = {m}
      BY <1>3, SeenFinite, FS_Singleton
    <2>2. master = m /\ m # cli[c].slave
      BY <1>3, <2>1, SeenFinite, LastIsOne DEF TheSlave
    <2>3. base \in ClientState
      BY <1>1, FirstSlot, NoneSeen, Places DEF Waiting, Reading, ClientState, Purposes
    <2>4. base.at = "read" /\ base.then = "joined" /\ base.slave = cli[c].slave
      BY <1>1 DEF Waiting, Reading, ClientState
    <2> HIDE DEF base, master
    <2>5. /\ next \in ClientState /\ next.at = "read" /\ next.then = "joined"
          /\ next.slave = cli[c].slave /\ next.master = m
      BY <2>2, <2>3, <2>4 DEF ClientState
    <2> HIDE DEF next
    <2>6. GoodClient(next)
      BY <1>1, <2>1, <2>2, <2>5 DEF GoodClient, Paired, Led, PairOf
    <2>7. CliOK' /\ cut' \in BOOLEAN
      BY <1>1, <1>3, <2>6, LooksGood
    <2> QED BY <2>7, WaitTypes DEF Resolved
  <1>4. Return(c, "started") \/ (Cardinality(masters) = 1 /\ masters # {TheSlave(c)} /\ Looks(c, next))
    BY DEF Resolved
  <1> QED BY <1>2, <1>3, <1>4

LEMMA JoinedTypes == ASSUME TypeInv, NEW c \in Clients, Joined(c) PROVE TypeInv'
  <1>1. CliOK /\ cli[c] \in ClientState /\ cut \in BOOLEAN /\ PairOf(cli[c]) /\ At(c, "read") /\ cli[c].then = "joined"
    BY DEF TypeInv, CliOK, WorldOK, Joined, Read, At, GoodClient, Led
  <1> DEFINE next == [cli[c] EXCEPT !.at = "relog", !.seen = Fresh.seen]
  <1>2. Return(c, "started") \/ Looks(c, next) \/ Looks(c, Reading(cli[c], "joined"))
    BY DEF Joined
  <1>3. next \in ClientState
    BY <1>1, NoneSeen, Places DEF ClientState
  <1>4. next.at = "relog" /\ next.slave = cli[c].slave /\ next.master = cli[c].master
    BY <1>1 DEF ClientState
  <1> HIDE DEF next
  <1>5. GoodClient(next)
    BY <1>1, <1>3, <1>4 DEF GoodClient, PairOf
  <1>6. ASSUME Looks(c, Reading(cli[c], "joined")) PROVE CliOK' /\ cut' \in BOOLEAN
    BY <1>1, <1>6, LooksAgain
  <1>7. CliOK' /\ cut' \in BOOLEAN
    BY <1>1, <1>2, <1>5, <1>6, ReturnGood, LooksGood DEF Outcomes
  <1> QED BY <1>7, WaitTypes DEF Joined

LEMMA RejoinedTypes == ASSUME TypeInv, NEW c \in Clients, Rejoined(c) PROVE TypeInv'
  <1>1. CliOK /\ At(c, "read") /\ cli[c].then = "rejoined"
    BY DEF TypeInv, Rejoined, Read
  <1>2. CASE Looks(c, Reading(cli[c], "rejoined"))
    <2>1. CliOK' /\ cut' \in BOOLEAN
      BY <1>1, <1>2, LooksAgain
    <2> QED BY <2>1, WaitTypes DEF Rejoined
  <1>3. CASE Return(c, "rejoined") \/ Return(c, "needs_rebuild")
    <2>1. CliOK' /\ cut' \in BOOLEAN
      BY <1>1, <1>3, ReturnGood DEF Outcomes
    <2> QED BY <2>1, WaitTypes DEF Rejoined
  <1> QED BY <1>2, <1>3 DEF Rejoined

-----------------------------------------------------------------------------
(* cluster up, time, and the processes' end.                               *)

LEMMA CreateDBTypes == ASSUME TypeInv, NEW c \in Clients, CreateDB(c) PROVE TypeInv'
  <1>0. CliOK /\ WorldOK /\ cut \in BOOLEAN
    BY DEF TypeInv, WorldOK
  <1>1. CASE Return(c, "error") /\ UNCHANGED db
    <2>1. CliOK' /\ cut' \in BOOLEAN
      BY <1>0, <1>1, ReturnGood DEF Outcomes
    <2> QED BY <1>0, <1>1, <2>1 DEF CreateDB, Quiet, TypeInv, WorldOK, engine, bounds
  <1>2. CASE /\ Goes(c, "seed") /\ UNCHANGED cut
             /\ UNCHANGED db \/ db' = [db EXCEPT ![Created] = [Nothing EXCEPT !.state = "fresh"]]
    <2>1. CliOK'
      BY <1>0, <1>2, GoesGood DEF Phases, Paired
    <2>2. [Nothing EXCEPT !.state = "fresh"] \in Database
      BY DEF Nothing, Database
    <2>3. db' \in [DBNodes -> Database]
      BY <1>0, <1>2, <2>2 DEF WorldOK
    <2> QED BY <1>0, <1>2, <2>1, <2>3 DEF CreateDB, Quiet, TypeInv, WorldOK, engine, bounds
  <1> QED BY <1>1, <1>2 DEF CreateDB

LEMMA SeedTypes == ASSUME TypeInv, NEW c \in Clients, Seed(c) PROVE TypeInv'
  <1>0. CliOK /\ WorldOK
    BY DEF TypeInv
  <1>1. CliOK'
    BY <1>0, GoesGood DEF Seed, Phases, Paired
  <1>2. Created \in DBNodes
    BY ResyncAssumption DEF Created, DBNodes
  <1>3. Copied \in Database
    <2>1. db[Created] \in Database
      BY <1>0, <1>2 DEF WorldOK
    <2>2. [db[Created] EXCEPT !.state = "torn"] \in Database
      BY <2>1 DEF Database
    <2> QED BY <2>1, <2>2 DEF Copied
  <1>4. db' \in [DBNodes -> Database] /\ position' \in [DBNodes -> {"ok", "short", "foreign"}]
    BY <1>0, <1>3 DEF Seed, WorldOK
  <1> QED BY <1>0, <1>1, <1>4 DEF Seed, Quiet, TypeInv, WorldOK, bounds

LEMMA StartGroupTypes == ASSUME TypeInv, NEW c \in Clients, StartGroup(c) PROVE TypeInv'
  <1>0. CliOK /\ WorldOK
    BY DEF TypeInv
  <1>1. CliOK' /\ cut' \in BOOLEAN
    BY <1>0, ReturnGood DEF StartGroup, Outcomes
  <1>2. hb' \in [DBNodes -> BOOLEAN]
    BY <1>0 DEF StartGroup, WorldOK
  <1> QED BY <1>0, <1>1, <1>2 DEF StartGroup, Quiet, TypeInv, WorldOK, files, bounds

LEMMA TimeTypes == ASSUME TypeInv, NEW c \in Clients, Late(c) \/ Expire(c) \/ Kill(c) PROVE TypeInv'
  <1>0. CliOK /\ WorldOK /\ cut \in BOOLEAN /\ cli[c] \in ClientState /\ GoodClient(cli[c])
    BY DEF TypeInv, WorldOK, CliOK
  <1>1. CASE Late(c)
    <2>1. GoodClient([cli[c] EXCEPT !.late = TRUE])
      BY <1>0 DEF GoodClient, ClientState, PairOf, Led
    <2>2. CliOK' /\ cut' \in BOOLEAN
      BY <1>0, <1>1, <2>1, OneClient DEF Late
    <2> QED BY <1>1, <2>2, WaitTypes DEF Late
  <1>2. CASE Expire(c)
    <2>1. GoodClient([cli[c] EXCEPT !.expired = TRUE])
      BY <1>0 DEF GoodClient, ClientState, PairOf, Led
    <2>2. CliOK' /\ cut' \in BOOLEAN
      BY <1>0, <1>2, <2>1, OneClient DEF Expire
    <2> QED BY <1>2, <2>2, WaitTypes DEF Expire
  <1>3. CASE Kill(c)
    <2>1. CliOK' /\ cut' \in BOOLEAN
      BY <1>0, <1>3, ReturnGood DEF Kill, Outcomes
    <2> QED BY <1>3, <2>1, WaitTypes DEF Kill
  <1> QED BY <1>1, <1>2, <1>3

-----------------------------------------------------------------------------
(* The engine, and those who write; no client moves.                       *)

LEMMA SameClients ==
  ASSUME CliOK, cli' = cli
  PROVE  CliOK'
  BY DEF CliOK, GoodClient, PairOf, Led

LEMMA WriteTypes == ASSUME TypeInv, NEW n \in DBNodes, Write(n) PROVE TypeInv'
  <1>0. WorldOK /\ CliOK' /\ db[n] \in Database
    BY SameClients DEF TypeInv, Write, WorldOK
  <1>1. PICK w \in Writes \ db[n].rows :
          /\ db' = [db EXCEPT ![n].rows = @ \cup {w}]
          /\ queue' = [m \in DBNodes |-> IF m # n /\ server[m] # "active" THEN queue[m] \cup {w} ELSE queue[m]]
    BY DEF Write
  <1>2. [db[n] EXCEPT !.rows = @ \cup {w}] \in Database
    BY <1>0, <1>1 DEF Database
  <1>3. db' \in [DBNodes -> Database]
    BY <1>0, <1>1, <1>2 DEF WorldOK
  <1>4. queue' \in [DBNodes -> SUBSET Writes]
    BY <1>0, <1>1 DEF WorldOK
  <1>5. mishaps' \subseteq Mishaps
    BY <1>0 DEF Write, Disturbs, WorldOK, Mishaps
  <1> QED BY <1>0, <1>3, <1>4, <1>5 DEF Write, TypeInv, WorldOK, bounds

LEMMA ApplyTypes == ASSUME TypeInv, NEW n \in DBNodes, Apply(n) PROVE TypeInv'
  <1>0. WorldOK /\ CliOK' /\ db[n] \in Database
    BY SameClients DEF TypeInv, Apply, WorldOK
  <1>1. PICK w \in queue[n] : db' = [db EXCEPT ![n].rows = @ \cup {w}] /\ queue' = [queue EXCEPT ![n] = @ \ {w}]
    BY DEF Apply
  <1>2. queue[n] \in SUBSET Writes
    BY <1>0 DEF WorldOK
  <1>3. [db[n] EXCEPT !.rows = @ \cup {w}] \in Database
    BY <1>0, <1>1, <1>2 DEF Database
  <1>4. db' \in [DBNodes -> Database] /\ queue' \in [DBNodes -> SUBSET Writes]
    BY <1>0, <1>1, <1>2, <1>3 DEF WorldOK
  <1>5. mishaps' \subseteq Mishaps
    BY <1>0 DEF Apply, Disturbs, WorldOK, Mishaps
  <1> QED BY <1>0, <1>4, <1>5 DEF Apply, TypeInv, WorldOK, bounds

LEMMA MisapplyTypes == ASSUME TypeInv, NEW n \in DBNodes, Misapply(n) PROVE TypeInv'
  <1>0. WorldOK /\ CliOK'
    BY SameClients DEF TypeInv, Misapply
  <1>1. PICK w \in queue[n] : queue' = [queue EXCEPT ![n] = @ \ {w}] /\ named' = [named EXCEPT ![n] = @ \cup {w[1]}]
    BY DEF Misapply
  <1>2. queue[n] \in SUBSET Writes /\ w[1] \in Tables /\ named[n] \in SUBSET Tables
    <2>1. queue[n] \in SUBSET Writes /\ named[n] \in SUBSET Tables
      BY <1>0 DEF WorldOK
    <2>2. w \in Tables \X Rows
      BY <1>1, <2>1 DEF Writes
    <2> QED BY <2>1, <2>2
  <1>3. queue' \in [DBNodes -> SUBSET Writes] /\ named' \in [DBNodes -> SUBSET Tables]
    BY <1>0, <1>1, <1>2 DEF WorldOK
  <1>4. failed' \in [DBNodes -> Fails]
    <2>1. failed' = [failed EXCEPT ![n] = IF @ = 0 THEN 1 ELSE @]
      BY DEF Misapply
    <2>2. failed \in [DBNodes -> Fails] /\ 1 \in Fails
      BY <1>0, ZenonT(60) DEF WorldOK, Fails
    <2> QED BY <2>1, <2>2
  <1>5. mishaps' \subseteq Mishaps
    BY <1>0 DEF Misapply, Disturbs, WorldOK, Mishaps
  <1> QED BY <1>0, <1>3, <1>4, <1>5 DEF Misapply, TypeInv, WorldOK, files, bounds

LEMMA HeartbeatTypes == ASSUME TypeInv, NEW n \in DBNodes, Join(n) \/ Complain(n) PROVE TypeInv'
  <1>0. WorldOK /\ CliOK'
    BY SameClients DEF TypeInv, Join, Complain
  <1>1. CASE Join(n)
    BY <1>0, <1>1 DEF Join, TypeInv, WorldOK, files, bounds
  <1>2. CASE Complain(n)
    BY <1>0, <1>2 DEF Complain, TypeInv, WorldOK, files, bounds
  <1> QED BY <1>1, <1>2

LEMMA FallTypes == ASSUME TypeInv, NEW n \in DBNodes, Fall(n) PROVE TypeInv'
  <1>0. WorldOK /\ CliOK'
    BY SameClients DEF TypeInv, Fall
  <1>1. events' \in 0..MaxEvents
    <2>1. events < MaxEvents /\ events' = events + 1
      BY DEF Fall, Event
    <2>2. MaxEvents \in Nat /\ events \in 0..MaxEvents
      BY <1>0, ResyncAssumption DEF WorldOK
    <2> QED BY <2>1, <2>2
  <1>2. mishaps' \subseteq Mishaps
    BY <1>0 DEF Fall, Event, WorldOK, Mishaps
  <1>3. server' \in [DBNodes -> {"", "standby", "active"}] /\ position' \in [DBNodes -> {"ok", "short", "foreign"}]
    BY <1>0 DEF Fall, WorldOK
  <1> QED BY <1>0, <1>1, <1>2, <1>3 DEF Fall, TypeInv, WorldOK, files

LEMMA ElectTypes == ASSUME TypeInv, NEW n \in DBNodes, Elect(n) PROVE TypeInv'
  <1>0. WorldOK /\ CliOK'
    BY SameClients DEF TypeInv, Elect
  <1>1. mishaps' \subseteq Mishaps
    BY <1>0 DEF Elect, WorldOK, Mishaps
  <1>2. server' \in [DBNodes -> {"", "standby", "active"}]
    BY <1>0 DEF Elect, WorldOK
  <1>3. queue' \in [DBNodes -> SUBSET Writes]
    BY <1>0 DEF Elect, WorldOK
  <1> QED BY <1>0, <1>1, <1>2, <1>3 DEF Elect, TypeInv, WorldOK, files, bounds

LEMMA InitTypes == Init => TypeInv
  <1> SUFFICES ASSUME Init PROVE TypeInv
    OBVIOUS
  <1>1. CliOK
    <2>1. Fresh \in ClientState
      BY FreshGood DEF Outcomes
    <2>2. Fresh.at = "idle"
      BY DEF Fresh
    <2> QED BY <2>1, <2>2 DEF Init, CliOK, GoodClient, Paired
  <1>2. db \in [DBNodes -> Database] /\ backup \in [DBNodes -> Database]
    BY NothingIs DEF Init
  <1>3. server \in [DBNodes -> {"", "standby", "active"}] /\ hb \in [DBNodes -> BOOLEAN]
    BY DEF Init
  <1>4. /\ position \in [DBNodes -> {"ok", "short", "foreign"}] /\ said \subseteq DBNodes
        /\ queue \in [DBNodes -> SUBSET Writes]
        /\ failed \in [DBNodes -> Fails] /\ named \in [DBNodes -> SUBSET Tables]
    BY DEF Init
  <1>5. commands \in 0..MaxCommands /\ events \in 0..MaxEvents /\ cut \in BOOLEAN /\ mishaps \subseteq Mishaps
    <2>1. MaxCommands \in Nat /\ MaxEvents \in Nat
      BY ResyncAssumption
    <2>2. commands = 0 /\ events = 0 /\ mishaps = {}
      BY DEF Init
    <2>3. cut \in BOOLEAN
      BY DEF Init
    <2> QED BY <2>1, <2>2, <2>3
  <1> QED BY <1>1, <1>2, <1>3, <1>4, <1>5 DEF TypeInv, WorldOK

LEMMA TypeStep == TypeInv /\ [Next]_vars => TypeInv'
  <1> SUFFICES ASSUME TypeInv, [Next]_vars PROVE TypeInv'
    OBVIOUS
  <1>1. ASSUME NEW c \in Clients, Begin(c) \/ Step(c) \/ Late(c) \/ Expire(c) \/ Kill(c) PROVE TypeInv'
    <2>1. CASE Begin(c) \/ ReadNode(c) \/ Choose(c) \/ List(c) \/ CountMaster(c) \/ CountSlave(c)
      BY <2>1, BeginTypes, ReadNodeTypes, ChooseTypes, ListTypes, CountMasterTypes, CountSlaveTypes
    <2>2. CASE Rebuilds(c)
      BY <2>2, StopTypes, PrepareTypes, BackupTypes, RemoveTypes, UnlinkTypes, FetchTypes, RestoreTypes,
         RelogTypes, StartTypes, BackTypes, DrainTypes DEF Rebuilds
    <2>3. CASE Resolved(c) \/ Joined(c) \/ Rejoined(c) \/ CreateDB(c) \/ Seed(c) \/ StartGroup(c)
      BY <2>3, ResolvedTypes, JoinedTypes, RejoinedTypes, CreateDBTypes, SeedTypes, StartGroupTypes
    <2>4. CASE Late(c) \/ Expire(c) \/ Kill(c)
      BY <2>4, TimeTypes
    <2> QED BY <1>1, <2>1, <2>2, <2>3, <2>4 DEF Step
  <1>2. ASSUME NEW n \in DBNodes,
               Write(n) \/ Apply(n) \/ Misapply(n) \/ Join(n) \/ Complain(n) \/ Fall(n) \/ Elect(n)
        PROVE  TypeInv'
    BY <1>2, WriteTypes, ApplyTypes, MisapplyTypes, HeartbeatTypes, FallTypes, ElectTypes
  <1>3. CASE UNCHANGED vars
    <2>1. CliOK' /\ WorldOK
      BY <1>3, SameClients DEF vars, TypeInv
    <2> QED BY <1>3, <2>1 DEF vars, TypeInv, WorldOK, files, engine, bounds
  <1> QED BY <1>1, <1>2, <1>3 DEF Next

(* Every state of a resync, a node start or an up beside them is in its    *)
(* declared types, and a command that compares or rebuilds has two nodes   *)
(* to do it with, for every group and number of processes.                 *)
THEOREM TypeCorrect == Spec => []TypeOK
  BY InitTypes, TypeStep, InvIsType, PTL DEF Spec

-----------------------------------------------------------------------------
(* What serves is whole.  While a command is alone the only database that  *)
(* is not whole is its slave's, from the removal to the restore, and that  *)
(* node's heartbeat stays stopped; what it restores is a whole backup.     *)
(* Without a command, nothing is broken unless one ended on it.            *)

Broken == {"unlink", "fetch", "restore"}
Stopped == {"prepare", "backup", "remove"} \cup Broken
Calm == {"read", "list", "master", "slave", "stop", "relog", "start", "createdb", "seed", "group"}
AllWhole == \A n \in DBNodes : db[n].state = "whole"

Lone(c) ==
  /\ \A n \in DBNodes : db[n].state = "whole" \/ (cli[c].at \in Broken /\ n = cli[c].slave)
  /\ cli[c].at \in Stopped => hb[cli[c].slave] = FALSE /\ server[cli[c].slave] = ""
  /\ cli[c].at \in {"remove", "unlink", "fetch"} => backup[cli[c].master].state = "whole"
  /\ cli[c].at = "restore" => backup[cli[c].slave].state = "whole"

WholeInv ==
  /\ ~cut /\ (\A c \in Clients : ~Busy(c)) => AllWhole
  /\ Alone => \A c, d \in Clients : Busy(c) /\ Busy(d) => c = d
  /\ Alone /\ ~cut => \A c \in Clients : Busy(c) => Lone(c)

LEMMA InvIsServed == TypeInv /\ WholeInv => ServedWhole
  <1> SUFFICES ASSUME TypeInv, WholeInv, ~cut, Alone, NEW n \in DBNodes, server[n] # ""
               PROVE  db[n].state = "whole"
    BY DEF ServedWhole
  <1>1. CASE \A c \in Clients : ~Busy(c)
    BY <1>1 DEF WholeInv, AllWhole
  <1>2. ASSUME NEW c \in Clients, Busy(c) PROVE db[n].state = "whole"
    BY <1>2 DEF WholeInv, Lone, Stopped
  <1> QED BY <1>1, <1>2

(* A command that ends says in `cut` what it leaves; one that goes on has  *)
(* moved nobody else.                                                      *)
Returns(c) == \E result \in Outcomes : Return(c, result)
Moves(c) == cut' = cut /\ cli'[c].at # "idle" /\ \A d \in Clients \ {c} : cli'[d] = cli[d]
SameAlone == Alone' <=> Alone

LEMMA BecomesMoves ==
  ASSUME TypeInv, NEW c \in Clients, NEW me, Becomes(c, me)
  PROVE  cli'[c] = me /\ \A d \in Clients \ {c} : cli'[d] = cli[d]
  BY DEF TypeInv, CliOK, Becomes

LEMMA ReturnKeeps ==
  ASSUME TypeInv, WholeInv, NEW c \in Clients, Busy(c), Returns(c), SameAlone
  PROVE  WholeInv'
  <1>1. PICK result \in Outcomes : Return(c, result)
    BY DEF Returns
  <1>2. cli'[c] = [Fresh EXCEPT !.outcome = result] /\ \A d \in Clients \ {c} : cli'[d] = cli[d]
    BY <1>1, BecomesMoves DEF Return
  <1>3. cli'[c].at = "idle"
    BY <1>2 DEF Fresh
  <1>4. ~cut' => AllWhole'
    BY <1>1 DEF Return, AllWhole
  <1>5. \A d \in Clients : Busy(d)' => d # c /\ Busy(d)
    BY <1>2, <1>3 DEF Busy, At
  <1>6. Alone' => \A d \in Clients : ~Busy(d)'
    BY <1>5 DEF WholeInv, SameAlone
  <1> QED BY <1>4, <1>6 DEF WholeInv

LEMMA MovesKeep ==
  ASSUME WholeInv, NEW c \in Clients, Busy(c), Moves(c), SameAlone,
         Alone /\ ~cut /\ Lone(c) => Lone(c)'
  PROVE  WholeInv'
  <1>1. Busy(c)' /\ \A d \in Clients : Busy(d)' => Busy(d)
    BY DEF Moves, Busy, At
  <1>2. Alone' => \A d \in Clients : Busy(d)' => d = c
    BY <1>1 DEF WholeInv, SameAlone
  <1>3. Alone' /\ ~cut' => Lone(c)'
    BY DEF WholeInv, SameAlone, Moves
  <1> QED BY <1>1, <1>2, <1>3 DEF WholeInv

(* Most steps begin and end where nothing is broken.                       *)
LEMMA CalmKeeps ==
  ASSUME TypeInv, WholeInv, NEW c \in Clients, cli[c].at \in Calm, SameAlone, AllWhole => AllWhole',
         Returns(c) \/ (Moves(c) /\ cli'[c].at \in Calm)
  PROVE  WholeInv'
  <1>1. Busy(c)
    BY DEF Calm, Busy, At
  <1>2. CASE Returns(c)
    BY <1>1, <1>2, ReturnKeeps
  <1>3. CASE Moves(c) /\ cli'[c].at \in Calm
    <2>1. Lone(c) => AllWhole
      BY DEF Lone, AllWhole, Calm, Broken
    <2>2. AllWhole' => Lone(c)'
      BY <1>3 DEF Lone, AllWhole, Calm, Broken, Stopped
    <2> QED BY <1>1, <1>3, <2>1, <2>2, MovesKeep
  <1> QED BY <1>2, <1>3

LEMMA Unfiled == ASSUME UNCHANGED files PROVE AllWhole => AllWhole'
  BY DEF files, AllWhole

LEMMA QuietAlone == ASSUME Quiet PROVE SameAlone
  BY DEF Quiet, SameAlone, Alone

LEMMA TakeMoves ==
  ASSUME TypeInv, NEW c \in Clients, NEW me \in ClientState, me.path # "", Take(c, me)
  PROVE  Returns(c) \/ (Moves(c) /\ cli'[c].at \in Calm)
  <1>0. me.path \in {"resume", "table", "slave"}
    BY DEF ClientState
  <1>1. CASE me.path = "resume"
    BY <1>1 DEF Take, Returns, Outcomes
  <1>2. CASE me.path = "table"
    <2> DEFINE rows == FailRows(c, me.slave)
               base == Comparing(me, "table")
               place == IF rows = {} THEN "list" ELSE "master"
               next == [base EXCEPT !.todo = rows, !.at = place]
    <2>1. Becomes(c, next) /\ cut' = cut
      BY <1>2 DEF Take
    <2>2. place \in Calm \ {"idle"}
      BY DEF Calm
    <2>3. next.at = place
      BY DEF Comparing, ClientState
    <2> HIDE DEF next, place
    <2> QED BY <2>1, <2>2, <2>3, BecomesMoves DEF Moves, Calm
  <1>3. CASE me.path = "slave"
    <2>1. Becomes(c, [me EXCEPT !.at = "stop"]) /\ cut' = cut
      BY <1>3 DEF Take
    <2>2. [me EXCEPT !.at = "stop"].at = "stop"
      BY DEF ClientState
    <2> QED BY <2>1, <2>2, BecomesMoves DEF Moves, Calm
  <1> QED BY <1>0, <1>1, <1>2, <1>3

LEMMA JudgedMoves ==
  ASSUME TypeInv, NEW c \in Clients, NEW me \in ClientState, NEW compared \in BOOLEAN, Judged(c, me, compared)
  PROVE  Returns(c) \/ (Moves(c) /\ cli'[c].at \in Calm)
  <1>0. me.judge \in {"choose", "table", "rebuilt"}
    BY DEF ClientState
  <1>1. CASE me.judge = "choose" /\ me.differ # {}
    <2>1. Take(c, [me EXCEPT !.path = "slave"])
      BY <1>1 DEF Judged
    <2>2. [me EXCEPT !.path = "slave"] \in ClientState /\ [me EXCEPT !.path = "slave"].path = "slave"
      BY DEF ClientState
    <2> QED BY <2>1, <2>2, TakeMoves
  <1>2. CASE me.judge = "choose" /\ me.differ = {}
    BY <1>2 DEF Judged, Returns, Outcomes
  <1>3. CASE me.judge = "table"
    BY <1>3 DEF Judged, Returns, Outcomes
  <1>4. CASE me.judge = "rebuilt"
    BY <1>4 DEF Judged, Returns, Outcomes
  <1> QED BY <1>0, <1>1, <1>2, <1>3, <1>4

LEMMA ComparedMoves ==
  ASSUME TypeInv, NEW c \in Clients, cli[c].at \in {"master", "slave"},
         NEW differs \in BOOLEAN, Compared(c, Counted(c), differs)
  PROVE  Returns(c) \/ (Moves(c) /\ cli'[c].at \in Calm)
  <1> DEFINE t == Counted(c)
             me == [cli[c] EXCEPT !.todo = @ \ {t}, !.rows = 0, !.at = "master",
                                  !.differ = IF differs THEN @ \cup {t} ELSE @]
  <1>0. cli[c] \in ClientState /\ cli[c].todo # {}
    BY DEF TypeInv, CliOK, GoodClient
  <1>1. t \in Tables
    BY <1>0 DEF Counted, ClientState
  <1>2. IF me.todo = {} THEN Judged(c, me, TRUE) ELSE Becomes(c, me) /\ cut' = cut
    BY DEF Compared
  <1> HIDE DEF t
  <1>3. me \in ClientState
    BY <1>0, <1>1, Places, ZenonT(60) DEF ClientState
  <1>4. me.at = "master"
    BY <1>0 DEF ClientState
  <1> HIDE DEF me
  <1>5. CASE me.todo = {}
    BY <1>2, <1>3, <1>5, JudgedMoves
  <1>6. CASE me.todo # {}
    BY <1>2, <1>4, <1>6, BecomesMoves DEF Moves, Calm
  <1> QED BY <1>5, <1>6

LEMMA BeginWhole == ASSUME TypeInv, WholeInv, NEW c \in Clients, Begin(c) PROVE WholeInv'
  <1> DEFINE me == cli'[c]
  <1>1. ~Busy(c) /\ db' = db /\ cut' = cut /\ \A d \in Clients \ {c} : cli'[d] = cli[d]
    BY BecomesMoves DEF Begin, Busy, At, files
  <1>2. me.at \in {"read", "start", "createdb"}
    <2>1. \E next \in {m \in ClientState : m.at \in {"read", "start", "createdb"}} : Becomes(c, next)
      <3>1. Fresh \in ClientState
        BY FreshGood DEF Outcomes
      <3>2. Reading(Fresh, "choose") \in ClientState /\ Reading(Fresh, "choose").at = "read"
        BY <3>1, ReadingGood DEF GoodClient, Purposes
      <3>3. ASSUME NEW path \in {"", "resume", "table", "slave"}, NEW target \in DBNodes \cup {Nobody}
            PROVE  /\ [Reading(Fresh, "choose") EXCEPT !.path = path, !.slave = target] \in ClientState
                   /\ [Reading(Fresh, "choose") EXCEPT !.path = path, !.slave = target].at = "read"
        BY <3>2 DEF ClientState
      <3>4. ASSUME NEW target \in DBNodes
            PROVE  /\ [Fresh EXCEPT !.verb = "start", !.at = "start", !.then = "resolve", !.slave = target] \in ClientState
                   /\ [Fresh EXCEPT !.verb = "start", !.at = "start", !.then = "resolve", !.slave = target].at = "start"
        <4>1. [Fresh EXCEPT !.verb = "start", !.at = "start"] \in ClientState
          BY <3>1, Places DEF ClientState
        <4>2. "resolve" \in Purposes /\ target \in DBNodes \cup {Nobody}
          BY DEF Purposes
        <4> QED BY <4>1, <4>2 DEF ClientState
      <3>5. /\ [Fresh EXCEPT !.verb = "up", !.at = "createdb"] \in ClientState
            /\ [Fresh EXCEPT !.verb = "up", !.at = "createdb"].at = "createdb"
        BY <3>1, Places DEF ClientState
      <3> QED BY <3>3, <3>4, <3>5, ZenonT(60) DEF Begin
    <2> QED BY <2>1, BecomesMoves
  <1> HIDE DEF me
  <1>3. CASE \E d \in Clients \ {c} : Busy(d)
    <2>1. ~Alone'
      BY <1>3 DEF Begin, Alone
    <2>2. Busy(c)'
      BY <1>2 DEF me, Busy, At
    <2> QED BY <2>1, <2>2 DEF WholeInv
  <1>4. CASE ~\E d \in Clients \ {c} : Busy(d)
    <2>1. \A d \in Clients : ~Busy(d)
      BY <1>1, <1>4
    <2>2. \A d \in Clients : Busy(d)' => d = c
      BY <1>1, <2>1 DEF Busy, At
    <2>3. ~cut => AllWhole'
      BY <1>1, <2>1 DEF WholeInv, AllWhole
    <2>4. AllWhole' => Lone(c)'
      BY <1>2 DEF me, Lone, AllWhole, Stopped, Broken
    <2>5. ~cut' => AllWhole'
      BY <1>1, <2>3
    <2>6. ~cut' => \A d \in Clients : Busy(d)' => Lone(d)'
      BY <2>2, <2>4, <2>5
    <2> QED BY <2>2, <2>5, <2>6 DEF WholeInv
  <1> QED BY <1>3, <1>4

LEMMA GoesMoves ==
  ASSUME TypeInv, NEW c \in Clients, NEW phase \in Phases \ {"idle"}, Goes(c, phase), cut' = cut
  PROVE  Moves(c) /\ cli'[c].at = phase /\ cli'[c].slave = cli[c].slave /\ cli'[c].master = cli[c].master
  <1>1. cli[c] \in ClientState
    BY DEF TypeInv, CliOK
  <1>2. /\ [cli[c] EXCEPT !.at = phase].at = phase
        /\ [cli[c] EXCEPT !.at = phase].slave = cli[c].slave
        /\ [cli[c] EXCEPT !.at = phase].master = cli[c].master
    BY <1>1 DEF ClientState
  <1> QED BY <1>2, BecomesMoves DEF Goes, Moves

LEMMA LooksMoves ==
  ASSUME TypeInv, NEW c \in Clients, NEW me, Becomes(c, me), cut' = cut, me.at \in Calm
  PROVE  Moves(c) /\ cli'[c].at \in Calm
  BY BecomesMoves DEF Moves, Calm

LEMMA AtRead ==
  ASSUME TypeInv, NEW c \in Clients, NEW purpose
  PROVE  Reading(cli[c], purpose).at = "read" /\ Waiting(cli[c], purpose).at = "read"
  <1>1. cli[c] \in ClientState
    BY DEF TypeInv, CliOK
  <1> QED BY <1>1 DEF Reading, Waiting, ClientState

(* The steps that look, compare, decide and wait.                          *)
LEMMA LookingWhole ==
  ASSUME TypeInv, WholeInv, NEW c \in Clients,
         ReadNode(c) \/ Choose(c) \/ List(c) \/ CountMaster(c) \/ CountSlave(c)
  PROVE  WholeInv'
  <1>0. cli[c] \in ClientState /\ GoodClient(cli[c])
    BY DEF TypeInv, CliOK
  <1>1. UNCHANGED files /\ SameAlone
    <2>1. CASE ReadNode(c) \/ Choose(c)
      BY <2>1 DEF ReadNode, Choose, SameAlone, Alone
    <2>2. CASE List(c)
      BY <2>2 DEF List, SameAlone, Alone
    <2>3. CASE CountMaster(c)
      <3>1. mishaps' = mishaps \/ mishaps' = mishaps \cup {"uncounted"}
        BY <2>3 DEF CountMaster
      <3> QED BY <2>3, <3>1 DEF CountMaster, SameAlone, Alone
    <2>4. CASE CountSlave(c)
      <3>1. mishaps' = mishaps \/ mishaps' = mishaps \cup {"blind"}
        BY <2>4 DEF CountSlave
      <3> QED BY <2>4, <3>1 DEF CountSlave, SameAlone, Alone
    <2> QED BY <2>1, <2>2, <2>3, <2>4
  <1>2. cli[c].at \in Calm
    BY DEF ReadNode, Choose, List, CountMaster, CountSlave, Read, At, Calm
  <1>3. CASE ReadNode(c)
    <2> DEFINE look == IF Expired(c) \/ server[cli[c].slot] = "" THEN Fresh.seen[cli[c].slot]
                       ELSE [server |-> server[cli[c].slot], fail |-> failed[cli[c].slot], behind |-> queue[cli[c].slot] # {}]
               next == [cli[c] EXCEPT !.slot = @ + 1, !.seen[cli[c].slot] = look]
    <2>1. Becomes(c, next) /\ cut' = cut
      BY <1>3 DEF ReadNode
    <2>2. next.at = "read"
      BY <1>0, <1>3 DEF ReadNode, At, ClientState
    <2> HIDE DEF next
    <2> QED BY <1>1, <1>2, <2>1, <2>2, LooksMoves, CalmKeeps, Unfiled DEF Calm
  <1>4. CASE Choose(c)
    <2> DEFINE master == LastOf(seen(c, "active"))
               slave == IF TheSlave(c) # Nobody THEN TheSlave(c) ELSE LastOf(seen(c, "standby"))
               fail == cli[c].seen[slave].fail
               me == [cli[c] EXCEPT !.master = master, !.slave = slave, !.seen = Fresh.seen]
    <2>1. IF Nobody \in {master, slave} \/ master = slave THEN Return(c, "error")
          ELSE IF me.path # "" THEN Take(c, me)
          ELSE IF fail = 0 THEN Becomes(c, Comparing(me, "choose")) /\ cut' = cut
          ELSE Take(c, [me EXCEPT !.path = Path(fail, FailRows(c, slave))])
      BY <1>4 DEF Choose
    <2>2. master \in DBNodes \cup {Nobody} /\ slave \in DBNodes \cup {Nobody}
      BY <1>0, LastIsNode DEF seen, TheSlave, ClientState
    <2>3. slave \in DBNodes => fail \in Fails
      BY <1>0 DEF ClientState, Reads
    <2> HIDE DEF master, slave, fail
    <2>4. me \in ClientState
      BY <1>0, <2>2, NoneSeen DEF ClientState
    <2> HIDE DEF me
    <2>5. CASE Return(c, "error")
      BY <1>1, <1>2, <2>5, CalmKeeps, Unfiled DEF Returns, Outcomes
    <2>6. CASE me.path # "" /\ Take(c, me)
      BY <1>1, <1>2, <2>4, <2>6, TakeMoves, CalmKeeps, Unfiled
    <2>7. CASE Becomes(c, Comparing(me, "choose")) /\ cut' = cut
      <3>1. Comparing(me, "choose").at = "list"
        BY <2>4 DEF Comparing, ClientState
      <3> QED BY <1>1, <1>2, <2>7, <3>1, LooksMoves, CalmKeeps, Unfiled DEF Calm
    <2>8. CASE slave \in DBNodes /\ me.path = "" /\ fail # 0 /\ Take(c, [me EXCEPT !.path = Path(fail, FailRows(c, slave))])
      <3> DEFINE path == Path(fail, FailRows(c, slave))
                 next == [me EXCEPT !.path = path]
      <3>1. fail = 1 \/ fail = 1000
        BY <2>3, <2>8, ZenonT(60) DEF Fails
      <3>2. path \in {"resume", "table", "slave"}
        BY <3>1 DEF Path
      <3>3. Take(c, next)
        BY <2>8
      <3> HIDE DEF path
      <3>4. next \in ClientState /\ next.path # ""
        BY <2>4, <3>2 DEF ClientState
      <3> HIDE DEF next
      <3> QED BY <1>1, <1>2, <3>3, <3>4, TakeMoves, CalmKeeps, Unfiled
    <2> QED BY <2>1, <2>2, <2>5, <2>6, <2>7, <2>8
  <1>5. CASE List(c)
    <2> DEFINE tables == IF Reachable(c, TheMaster(c)) THEN db[TheMaster(c)].tables ELSE {}
               next == [cli[c] EXCEPT !.at = "master", !.todo = tables]
    <2>1. IF tables = {} THEN Judged(c, cli[c], Reachable(c, TheMaster(c))) ELSE Becomes(c, next) /\ cut' = cut
      BY <1>5 DEF List
    <2>2. Reachable(c, TheMaster(c)) \in BOOLEAN
      BY DEF Reachable
    <2>3. next.at = "master"
      BY <1>0 DEF ClientState
    <2> HIDE DEF tables, next
    <2>4. CASE tables = {}
      BY <1>0, <1>1, <1>2, <2>1, <2>2, <2>4, JudgedMoves, CalmKeeps, Unfiled
    <2>5. CASE tables # {}
      BY <1>1, <1>2, <2>1, <2>3, <2>5, LooksMoves, CalmKeeps, Unfiled DEF Calm
    <2> QED BY <2>4, <2>5
  <1>6. CASE CountMaster(c)
    <2> DEFINE t == Counted(c)
               next == [cli[c] EXCEPT !.at = "slave", !.rows = Count(TheMaster(c), t)]
    <2>1. (Becomes(c, next) /\ cut' = cut) \/ Compared(c, t, FALSE)
      BY <1>6 DEF CountMaster
    <2>2. next.at = "slave" /\ cli[c].at = "master"
      BY <1>0, <1>6 DEF ClientState, CountMaster, At
    <2> HIDE DEF next
    <2>3. CASE Becomes(c, next) /\ cut' = cut
      BY <1>1, <1>2, <2>2, <2>3, LooksMoves, CalmKeeps, Unfiled DEF Calm
    <2>4. CASE Compared(c, t, FALSE)
      BY <1>1, <1>2, <2>2, <2>4, ComparedMoves, CalmKeeps, Unfiled
    <2> QED BY <2>1, <2>3, <2>4
  <1>7. CASE CountSlave(c)
    <2>1. PICK differs \in BOOLEAN : Compared(c, Counted(c), differs)
      BY <1>7 DEF CountSlave
    <2>2. cli[c].at = "slave"
      BY <1>7 DEF CountSlave, At
    <2> QED BY <1>1, <1>2, <2>1, <2>2, ComparedMoves, CalmKeeps, Unfiled
  <1> QED BY <1>3, <1>4, <1>5, <1>6, <1>7

(* The waits of a rebuild and of a start, and time.                        *)
LEMMA WaitingWhole ==
  ASSUME TypeInv, WholeInv, NEW c \in Clients,
         Relog(c) \/ Start(c) \/ Back(c) \/ Drain(c) \/ Resolved(c) \/ Joined(c) \/ Rejoined(c) \/ Late(c)
  PROVE  WholeInv'
  <1>0. cli[c] \in ClientState
    BY DEF TypeInv, CliOK
  <1>1. UNCHANGED files /\ Quiet
    BY DEF Relog, Start, Back, Drain, Resolved, Joined, Rejoined, Late
  <1>2. cli[c].at \in Calm
    BY DEF Relog, Start, Back, Drain, Resolved, Joined, Rejoined, Late, Read, At, Calm
  <1>3. CASE Returns(c)
    BY <1>1, <1>2, <1>3, CalmKeeps, Unfiled, QuietAlone
  <1>4. ASSUME NEW me, Becomes(c, me), cut' = cut, me.at \in Calm PROVE WholeInv'
    BY <1>1, <1>2, <1>4, LooksMoves, CalmKeeps, Unfiled, QuietAlone
  <1>5. \A purpose : Reading(cli[c], purpose).at \in Calm /\ Waiting(cli[c], purpose).at \in Calm
    BY AtRead DEF Calm
  <1>6. CASE Relog(c)
    <2> DEFINE next == [cli[c] EXCEPT !.at = "start", !.then = IF cli[c].verb = "resync" THEN "back" ELSE "rejoined"]
    <2>1. Return(c, "error") \/ (Becomes(c, next) /\ cut' = cut)
      BY <1>6 DEF Relog
    <2>2. next.at \in Calm
      BY <1>0 DEF ClientState, Calm
    <2> HIDE DEF next
    <2> QED BY <1>3, <1>4, <2>1, <2>2 DEF Returns, Outcomes
  <1>7. CASE Start(c)
    <2>1. Return(c, "error") \/ (Becomes(c, Waiting(cli[c], cli[c].then)) /\ cut' = cut)
      BY <1>7 DEF Start
    <2> QED BY <1>3, <1>4, <1>5, <2>1 DEF Returns, Outcomes
  <1>8. CASE Back(c)
    <2>1. \/ Return(c, "timeout")
          \/ cut' = cut /\ (Becomes(c, Waiting(cli[c], "drain")) \/ Becomes(c, Reading(cli[c], "back")))
      BY <1>8 DEF Back, Looks
    <2> QED BY <1>3, <1>4, <1>5, <2>1 DEF Returns, Outcomes
  <1>9. CASE Drain(c)
    <2>1. cut' = cut /\ (Becomes(c, Comparing(cli[c], "rebuilt")) \/ Becomes(c, Reading(cli[c], "drain")))
      BY <1>9 DEF Drain, Looks
    <2>2. Comparing(cli[c], "rebuilt").at \in Calm
      BY <1>0 DEF Comparing, ClientState, Calm
    <2> QED BY <1>4, <1>5, <2>1, <2>2
  <1>10. CASE Resolved(c)
    <2> DEFINE base == Waiting(cli[c], "joined")
               next == [base EXCEPT !.master = LastOf(seen(c, "active"))]
    <2>1. Return(c, "started") \/ (Becomes(c, next) /\ cut' = cut)
      BY <1>10 DEF Resolved, Looks
    <2>2. next.at \in Calm
      BY <1>0 DEF Waiting, Reading, ClientState, Calm
    <2> HIDE DEF next
    <2> QED BY <1>3, <1>4, <2>1, <2>2 DEF Returns, Outcomes
  <1>11. CASE Joined(c)
    <2> DEFINE next == [cli[c] EXCEPT !.at = "relog", !.seen = Fresh.seen]
    <2>1. \/ Return(c, "started")
          \/ cut' = cut /\ (Becomes(c, next) \/ Becomes(c, Reading(cli[c], "joined")))
      BY <1>11 DEF Joined, Looks
    <2>2. next.at \in Calm
      BY <1>0 DEF ClientState, Calm
    <2> HIDE DEF next
    <2> QED BY <1>3, <1>4, <1>5, <2>1, <2>2 DEF Returns, Outcomes
  <1>12. CASE Rejoined(c)
    <2>1. \/ Return(c, "rejoined") \/ Return(c, "needs_rebuild")
          \/ cut' = cut /\ Becomes(c, Reading(cli[c], "rejoined"))
      BY <1>12 DEF Rejoined, Looks
    <2> QED BY <1>3, <1>4, <1>5, <2>1 DEF Returns, Outcomes
  <1>13. CASE Late(c)
    <2>1. Becomes(c, [cli[c] EXCEPT !.late = TRUE]) /\ cut' = cut
      BY <1>13 DEF Late
    <2>2. [cli[c] EXCEPT !.late = TRUE].at \in Calm
      BY <1>0, <1>2 DEF ClientState
    <2> QED BY <1>4, <2>1, <2>2
  <1> QED BY <1>6, <1>7, <1>8, <1>9, <1>10, <1>11, <1>12, <1>13

(* An up finds nothing to create or to seed where all is whole.            *)
LEMMA UpWhole ==
  ASSUME TypeInv, WholeInv, NEW c \in Clients, CreateDB(c) \/ Seed(c) \/ StartGroup(c)
  PROVE  WholeInv'
  <1>1. Quiet /\ cli[c].at \in Calm
    BY DEF CreateDB, Seed, StartGroup, At, Calm
  <1>2. Created \in DBNodes
    BY ResyncAssumption DEF Created, DBNodes
  <1>3. CASE CreateDB(c)
    <2>1. AllWhole => AllWhole'
      BY <1>2, <1>3 DEF CreateDB, AllWhole, HasLgat
    <2>2. Returns(c) \/ (Goes(c, "seed") /\ cut' = cut)
      BY <1>3 DEF CreateDB, Returns, Outcomes
    <2> QED BY <1>1, <2>1, <2>2, GoesMoves, CalmKeeps, QuietAlone DEF Phases, Calm
  <1>4. CASE Seed(c)
    <2>1. AllWhole => AllWhole'
      BY <1>4 DEF Seed, AllWhole, Seeded, HasLgat
    <2>2. Goes(c, "group") /\ cut' = cut
      BY <1>4 DEF Seed
    <2> QED BY <1>1, <2>1, <2>2, GoesMoves, CalmKeeps, QuietAlone DEF Phases, Calm
  <1>5. CASE StartGroup(c)
    <2>1. Returns(c) /\ UNCHANGED files
      BY <1>5 DEF StartGroup, Returns, Outcomes
    <2> QED BY <1>1, <2>1, CalmKeeps, Unfiled, QuietAlone
  <1> QED BY <1>3, <1>4, <1>5

(* The rebuild, from the stop to the restore.                              *)
LEMMA RebuildingWhole ==
  ASSUME TypeInv, WholeInv, NEW c \in Clients,
         Stop(c) \/ Prepare(c) \/ Backup(c) \/ Remove(c) \/ Unlink(c) \/ Fetch(c) \/ Restore(c)
  PROVE  WholeInv'
  <1> DEFINE s == cli[c].slave
             m == cli[c].master
  <1>0. /\ s \in DBNodes /\ m \in DBNodes /\ m # s /\ Busy(c) /\ WorldOK
        /\ TheSlave(c) = s /\ TheMaster(c) = m
    <2>1. cli[c].at \in Paired /\ GoodClient(cli[c]) /\ WorldOK
      BY DEF TypeInv, CliOK, Stop, Prepare, Backup, Remove, Unlink, Fetch, Restore, At, Paired
    <2> QED BY <2>1 DEF GoodClient, PairOf, Paired, Busy, At, TheSlave, TheMaster
  <1>1. Quiet
    BY DEF Stop, Prepare, Backup, Remove, Unlink, Fetch, Restore
  <1>2. CASE Returns(c)
    BY <1>0, <1>1, <1>2, ReturnKeeps, QuietAlone
  <1>3. ASSUME NEW phase \in Phases \ {"idle"}, Goes(c, phase), cut' = cut,
               Lone(c) /\ cli'[c].at = phase /\ cli'[c].slave = s /\ cli'[c].master = m => Lone(c)'
        PROVE  WholeInv'
    BY <1>0, <1>1, <1>3, GoesMoves, MovesKeep, QuietAlone
  <1> HIDE DEF s, m
  <1>4. CASE Stop(c)
    <2>1. \/ Returns(c)
          \/ /\ Goes(c, "prepare") /\ cut' = cut /\ db' = db
             /\ hb' = [hb EXCEPT ![s] = FALSE] /\ server' = [server EXCEPT ![s] = ""]
      BY <1>0, <1>4 DEF Stop, Returns, Outcomes, files
    <2>2. CASE /\ Goes(c, "prepare") /\ cut' = cut /\ db' = db
               /\ hb' = [hb EXCEPT ![s] = FALSE] /\ server' = [server EXCEPT ![s] = ""]
      <3>1. hb'[s] = FALSE /\ server'[s] = "" /\ cli[c].at = "stop"
        BY <1>0, <1>4, <2>2 DEF WorldOK, Stop, At
      <3>2. Lone(c) /\ cli'[c].at = "prepare" /\ cli'[c].slave = s /\ cli'[c].master = m => Lone(c)'
        BY <2>2, <3>1 DEF Lone, Broken, Stopped
      <3> QED BY <1>3, <2>2, <3>2 DEF Phases
    <2> QED BY <1>2, <2>1, <2>2
  <1>5. CASE Prepare(c)
    <2>1. Goes(c, "backup") /\ cut' = cut /\ db' = db /\ hb' = hb /\ server' = server /\ cli[c].at = "prepare"
      BY <1>5 DEF Prepare, engine, At
    <2>2. Lone(c) /\ cli'[c].at = "backup" /\ cli'[c].slave = s /\ cli'[c].master = m => Lone(c)'
      BY <2>1 DEF Lone, Broken, Stopped, s
    <2> QED BY <1>3, <2>1, <2>2 DEF Phases
  <1>6. CASE Backup(c)
    <2>1. /\ db' = db /\ hb' = hb /\ server' = server /\ cli[c].at = "backup"
          /\ Returns(c) \/ (Goes(c, "remove") /\ cut' = cut /\ backup' = [backup EXCEPT ![m] = db[m]])
      BY <1>0, <1>6 DEF Backup, engine, At, Returns, Outcomes
    <2>2. CASE Goes(c, "remove") /\ cut' = cut /\ backup' = [backup EXCEPT ![m] = db[m]]
      <3>1. backup'[m] = db[m]
        BY <1>0, <2>2 DEF WorldOK
      <3>2. Lone(c) /\ cli'[c].at = "remove" /\ cli'[c].slave = s /\ cli'[c].master = m => Lone(c)'
        BY <1>0, <2>1, <3>1 DEF Lone, Broken, Stopped, s, m
      <3> QED BY <1>3, <2>2, <3>2 DEF Phases
    <2> QED BY <1>2, <2>1, <2>2
  <1>7. CASE Remove(c)
    <2>1. /\ Goes(c, "unlink") /\ cut' = cut /\ hb' = hb /\ server' = server /\ backup' = backup /\ cli[c].at = "remove"
          /\ db' = [db EXCEPT ![s].state = IF @ = "gone" THEN @ ELSE "torn"]
      BY <1>0, <1>7 DEF Remove, engine, At
    <2>2. \A n \in DBNodes : n = s \/ db'[n] = db[n]
      BY <1>0, <2>1 DEF WorldOK
    <2>3. Lone(c) /\ cli'[c].at = "unlink" /\ cli'[c].slave = s /\ cli'[c].master = m => Lone(c)'
      BY <1>0, <2>1, <2>2 DEF Lone, Broken, Stopped, s, m
    <2> QED BY <1>3, <2>1, <2>3 DEF Phases
  <1>8. CASE Unlink(c)
    <2>1. /\ Goes(c, "fetch") /\ cut' = cut /\ hb' = hb /\ server' = server /\ backup' = backup /\ cli[c].at = "unlink"
          /\ db' = [db EXCEPT ![s] = Nothing]
      BY <1>0, <1>8 DEF Unlink, engine, At
    <2>2. \A n \in DBNodes : n = s \/ db'[n] = db[n]
      BY <1>0, <2>1 DEF WorldOK
    <2>3. Lone(c) /\ cli'[c].at = "fetch" /\ cli'[c].slave = s /\ cli'[c].master = m => Lone(c)'
      BY <1>0, <2>1, <2>2 DEF Lone, Broken, Stopped, s, m
    <2> QED BY <1>3, <2>1, <2>3 DEF Phases
  <1>9. CASE Fetch(c)
    <2>1. /\ Goes(c, "restore") /\ cut' = cut /\ hb' = hb /\ server' = server /\ db' = db /\ cli[c].at = "fetch"
          /\ backup' = [backup EXCEPT ![s] = backup[m]]
      BY <1>0, <1>9 DEF Fetch, engine, At
    <2>2. backup'[s] = backup[m]
      BY <1>0, <2>1 DEF WorldOK
    <2>3. Lone(c) /\ cli'[c].at = "restore" /\ cli'[c].slave = s /\ cli'[c].master = m => Lone(c)'
      BY <1>0, <2>1, <2>2 DEF Lone, Broken, Stopped, s, m
    <2> QED BY <1>3, <2>1, <2>3 DEF Phases
  <1>10. CASE Restore(c)
    <2>1. cli[c].at = "restore"
      BY <1>10 DEF Restore, At
    <2>2. \/ Returns(c)
          \/ Goes(c, "relog") /\ cut' = cut /\ db' = [db EXCEPT ![s] = backup[s]]
      BY <1>0, <1>10 DEF Restore, Returns, Outcomes
    <2>3. CASE Goes(c, "relog") /\ cut' = cut /\ db' = [db EXCEPT ![s] = backup[s]]
      <3>1. \A n \in DBNodes : db'[n] = IF n = s THEN backup[s] ELSE db[n]
        BY <1>0, <2>3 DEF WorldOK
      <3>2. Lone(c) /\ cli'[c].at = "relog" /\ cli'[c].slave = s /\ cli'[c].master = m => Lone(c)'
        BY <1>0, <2>1, <3>1 DEF Lone, Broken, Stopped, s, m
      <3> QED BY <1>3, <2>3, <3>2 DEF Phases
    <2> QED BY <1>2, <2>2, <2>3
  <1> QED BY <1>4, <1>5, <1>6, <1>7, <1>8, <1>9, <1>10

LEMMA EndsWhole == ASSUME TypeInv, WholeInv, NEW c \in Clients, Expire(c) \/ Kill(c) PROVE WholeInv'
  <1>0. cli[c] \in ClientState /\ Busy(c) /\ Quiet
    BY DEF TypeInv, CliOK, Expire, Kill
  <1>1. CASE Expire(c)
    <2> DEFINE next == [cli[c] EXCEPT !.expired = TRUE]
    <2>1. next.at = cli[c].at /\ next.slave = cli[c].slave /\ next.master = cli[c].master
      BY <1>0 DEF ClientState
    <2>2. Becomes(c, next) /\ cut' = cut /\ db' = db /\ backup' = backup /\ hb' = hb /\ server' = server
      BY <1>1 DEF Expire, files, engine
    <2> HIDE DEF next
    <2>3. cli'[c] = next /\ \A d \in Clients \ {c} : cli'[d] = cli[d]
      BY <2>2, BecomesMoves
    <2>4. Moves(c)
      BY <1>0, <2>1, <2>2, <2>3 DEF Moves, Busy, At
    <2>5. Lone(c) => Lone(c)'
      BY <2>1, <2>2, <2>3 DEF Lone
    <2> QED BY <1>0, <2>4, <2>5, MovesKeep, QuietAlone
  <1>2. CASE Kill(c)
    BY <1>0, <1>2, ReturnKeeps, QuietAlone DEF Kill, Returns, Outcomes
  <1> QED BY <1>1, <1>2

(* The engine breaks no database, and starts nothing on a node whose       *)
(* heartbeat is stopped.                                                   *)
LEMMA EngineWhole ==
  ASSUME TypeInv, WholeInv, cli' = cli, cut' = cut, backup' = backup, hb' = hb, SameAlone,
         \A n \in DBNodes : db'[n].state = db[n].state,
         \A n \in DBNodes : hb[n] = FALSE /\ server[n] = "" => server'[n] = ""
  PROVE  WholeInv'
  <1>1. \A c \in Clients : Busy(c)' <=> Busy(c)
    BY DEF Busy, At
  <1>2. AllWhole' <=> AllWhole
    BY DEF AllWhole
  <1>3. \A c \in Clients : cli[c].at \in Stopped => cli[c].slave \in DBNodes
    BY DEF TypeInv, CliOK, GoodClient, PairOf, Paired, Stopped, Broken
  <1>4. \A c \in Clients : Lone(c) => Lone(c)'
    BY <1>3 DEF Lone
  <1> QED BY <1>1, <1>2, <1>4 DEF WholeInv, SameAlone

LEMMA NodeWhole ==
  ASSUME TypeInv, WholeInv, NEW n \in DBNodes,
         Write(n) \/ Apply(n) \/ Misapply(n) \/ Join(n) \/ Complain(n) \/ Fall(n) \/ Elect(n)
  PROVE  WholeInv'
  <1>0. WorldOK /\ db[n] \in Database
    BY DEF TypeInv, WorldOK
  <1>1. cli' = cli /\ cut' = cut /\ backup' = backup /\ hb' = hb
    BY DEF Write, Apply, Misapply, Join, Complain, Fall, Elect, files
  <1>2. mishaps' \in {mishaps, mishaps \cup {"unsettled"}, mishaps \cup {"moved"}}
    BY DEF Write, Apply, Misapply, Join, Complain, Fall, Elect, Disturbs, Event
  <1>3. SameAlone
    BY <1>2 DEF SameAlone, Alone
  <1>4. \A m \in DBNodes : db'[m].state = db[m].state
    <2>1. CASE db' = db
      BY <2>1
    <2>2. ASSUME NEW w, db' = [db EXCEPT ![n].rows = @ \cup {w}] PROVE \A m \in DBNodes : db'[m].state = db[m].state
      <3>1. [db[n] EXCEPT !.rows = @ \cup {w}].state = db[n].state
        BY <1>0 DEF Database
      <3> QED BY <1>0, <2>2, <3>1 DEF WorldOK
    <2> QED BY <2>1, <2>2 DEF Write, Apply, Misapply, Join, Complain, Fall, Elect, files
  <1>5. \A m \in DBNodes : hb[m] = FALSE /\ server[m] = "" => server'[m] = ""
    BY <1>0 DEF WorldOK, Write, Apply, Misapply, Join, Joins, Complain, Fall, Elect
  <1> QED BY <1>1, <1>3, <1>4, <1>5, EngineWhole

LEMMA InitWhole == Init => WholeInv
  <1> SUFFICES ASSUME Init PROVE WholeInv
    OBVIOUS
  <1>1. \A c \in Clients : ~Busy(c)
    BY DEF Init, Busy, At, Fresh
  <1>2. AllWhole
    <2>1. db \in [DBNodes -> {d \in Database : d.state = "whole"}]
      BY ZenonT(60) DEF Init
    <2> QED BY <2>1 DEF AllWhole
  <1> QED BY <1>1, <1>2 DEF WholeInv

LEMMA WholeStep == TypeInv /\ WholeInv /\ [Next]_vars => WholeInv'
  <1> SUFFICES ASSUME TypeInv, WholeInv, [Next]_vars PROVE WholeInv'
    OBVIOUS
  <1>1. ASSUME NEW c \in Clients, Begin(c) \/ Step(c) \/ Late(c) \/ Expire(c) \/ Kill(c) PROVE WholeInv'
    <2>1. CASE Begin(c)
      BY <2>1, BeginWhole
    <2>2. CASE ReadNode(c) \/ Choose(c) \/ List(c) \/ CountMaster(c) \/ CountSlave(c)
      BY <2>2, LookingWhole
    <2>3. CASE Relog(c) \/ Start(c) \/ Back(c) \/ Drain(c) \/ Resolved(c) \/ Joined(c) \/ Rejoined(c) \/ Late(c)
      BY <2>3, WaitingWhole
    <2>4. CASE Stop(c) \/ Prepare(c) \/ Backup(c) \/ Remove(c) \/ Unlink(c) \/ Fetch(c) \/ Restore(c)
      BY <2>4, RebuildingWhole
    <2>5. CASE CreateDB(c) \/ Seed(c) \/ StartGroup(c)
      BY <2>5, UpWhole
    <2>6. CASE Expire(c) \/ Kill(c)
      BY <2>6, EndsWhole
    <2> QED BY <1>1, <2>1, <2>2, <2>3, <2>4, <2>5, <2>6 DEF Step, Rebuilds
  <1>2. ASSUME NEW n \in DBNodes,
               Write(n) \/ Apply(n) \/ Misapply(n) \/ Join(n) \/ Complain(n) \/ Fall(n) \/ Elect(n)
        PROVE  WholeInv'
    BY <1>2, NodeWhole
  <1>3. CASE UNCHANGED vars
    <2>1. db' = db /\ backup' = backup /\ server' = server /\ hb' = hb /\ cli' = cli /\ cut' = cut /\ mishaps' = mishaps
      BY <1>3 DEF vars, files, engine
    <2>2. SameAlone
      BY <2>1 DEF SameAlone, Alone
    <2> QED BY <2>1, <2>2, EngineWhole
  <1> QED BY <1>1, <1>2, <1>3 DEF Next

(* No node serves a database that is torn or createdb's empty one, whoever *)
(* is rebuilt, wherever a rebuild fails and whatever the engine does       *)
(* meanwhile, unless a command was cut off between the removal of a        *)
(* database and its restoring, or two commands met (rebuild.go:69-112).    *)
THEOREM ServedCorrect == Spec => []ServedWhole
  <1>1. TypeInv /\ WholeInv /\ [Next]_vars => TypeInv' /\ WholeInv'
    BY TypeStep, WholeStep
  <1> QED BY <1>1, InitTypes, InitWhole, InvIsServed, PTL DEF Spec
-----------------------------------------------------------------------------
(* What a rebuild takes away and what it promises.  As long as roles keep  *)
(* still, a command that is alone knows its master from when it chose it;  *)
(* its slave is down from the stop to the start; a backup is the master's, *)
(* and has what the slave shared with it but for what replication is still *)
(* to bring; and what it restores stays within what the master has.  While *)
(* no row moves, what has been counted is what there is.                   *)

Comparisons == {"list", "master", "slave"}
Still == Alone /\ "moved" \notin mishaps

TablesHold ==
  \A n \in DBNodes : /\ \A w \in db[n].rows : w[1] \in db[n].tables
                     /\ \A w \in backup[n].rows : w[1] \in backup[n].tables

Tied(c) ==
  /\ cli[c].at \in {"read", "start"} /\ cli[c].then \in {"resolve", "joined"} => cli[c].verb = "start"
  /\ cli[c].at = "start" => cli[c].then \in {"resolve", "back", "rejoined"}
  /\ cli[c].at = "list" => cli[c].todo = {} /\ cli[c].differ = {}

(* Between the restore and the start, and from the restore to the end.     *)
Mending(c) == \/ cli[c].at = "relog" /\ cli[c].verb = "resync"
              \/ cli[c].at = "start" /\ cli[c].then = "back"
Mended(c) == \/ Mending(c)
             \/ cli[c].at = "read" /\ cli[c].then \in {"back", "drain"}
             \/ cli[c].at \in Comparisons /\ cli[c].judge = "rebuilt"

Agrees(c, t) == Count(cli[c].master, t) = Count(cli[c].slave, t)
Tallied(c) ==
  cli[c].at \in {"master", "slave"} /\ cli[c].judge # "table" /\ mishaps \cap {"unsettled", "blind"} = {} =>
    /\ \A t \in cli[c].differ : ~Agrees(c, t)
    /\ "uncounted" \notin mishaps =>
         \A t \in db[cli[c].master].tables \ (cli[c].todo \cup cli[c].differ) : Agrees(c, t)
    /\ cli[c].at = "slave" => cli[c].rows = Count(cli[c].master, Counted(c))

(* Who leads, and what is down.                                            *)
Placed(c) ==
  /\ cli[c].at = "read" /\ cli[c].then = "choose" => \A n \in seen(c, "active") : Active(n)
  /\ (cli[c].at \in Comparisons /\ cli[c].judge = "choose") \/ cli[c].at \in {"stop"} \cup Stopped
       => Active(cli[c].master)
  /\ cli[c].at \in Stopped \/ Mending(c) => ~hb[cli[c].slave] /\ server[cli[c].slave] = ""

(* What the backup has, and what is taken away.                            *)
Backed(c) ==
  LET m == cli[c].master
      s == cli[c].slave
  IN
  /\ cli[c].at = "remove" => /\ backup[m].state = db[m].state
                             /\ db[s].rows \cap db[m].rows \subseteq backup[m].rows \cup queue[s]
  /\ cli[c].at = "unlink" => db[s].state # "whole"
  /\ cli[c].at \in {"fetch", "restore"} => db[s].state = "gone"

(* Nothing comes to the slave that the master does not have.               *)
Within(c) ==
  LET m == cli[c].master
      s == cli[c].slave
  IN
  OnlyMaster(m) =>
    /\ cli[c].at \in {"remove", "unlink", "fetch"} => backup[m].rows \subseteq db[m].rows
    /\ cli[c].at = "restore" => backup[s].rows \subseteq db[m].rows
    /\ Mended(c) => db[s].rows \cup queue[s] \subseteq db[m].rows

RebuildInv ==
  /\ TablesHold
  /\ \A c \in Clients : Busy(c) => Tied(c)
  /\ Alone => \A c \in Clients : Busy(c) => Tallied(c)
  /\ Still => \A c \in Clients : Busy(c) => Placed(c) /\ Backed(c) /\ Within(c)

RInv == TypeInv /\ WholeInv /\ RebuildInv

-----------------------------------------------------------------------------
(* A command that ends, or goes on.                                        *)

LEMMA ReturnStill ==
  ASSUME RInv, NEW c \in Clients, Busy(c), Returns(c), SameAlone, TablesHold'
  PROVE  RebuildInv'
<1>1. PICK result \in Outcomes : Return(c, result)
  BY DEF Returns
<1>2. cli'[c] = [Fresh EXCEPT !.outcome = result] /\ \A d \in Clients \ {c} : cli'[d] = cli[d]
  BY <1>1, BecomesMoves DEF Return, RInv
<1>3. cli'[c].at = "idle"
  BY <1>2 DEF Fresh
<1>4. \A d \in Clients : Busy(d)' => d # c /\ Busy(d)
  BY <1>2, <1>3 DEF Busy, At
<1>5. Alone' => \A d \in Clients : ~Busy(d)'
  BY <1>4 DEF RInv, WholeInv, SameAlone
<1>6. \A d \in Clients : Busy(d)' => Tied(d)'
  BY <1>2, <1>4 DEF RInv, RebuildInv, Tied
<1>7. QED
  BY <1>5, <1>6 DEF RebuildInv, Still

LEMMA MovesStill ==
  ASSUME RInv, NEW c \in Clients, Busy(c), Moves(c), SameAlone, TablesHold', Still' => Still,
         Tied(c) => Tied(c)',
         Alone /\ Tied(c) /\ Tallied(c) => Tallied(c)',
         Still /\ Tied(c) /\ Placed(c) /\ Backed(c) /\ Within(c) => Placed(c)' /\ Backed(c)' /\ Within(c)'
  PROVE  RebuildInv'
<1>1. Busy(c)' /\ \A d \in Clients \ {c} : cli'[d] = cli[d] /\ (Busy(d)' => Busy(d))
  BY DEF Moves, Busy, At
<1>2. Alone' => \A d \in Clients : Busy(d)' => d = c
  BY <1>1 DEF RInv, WholeInv, SameAlone
<1>3. \A d \in Clients : Busy(d)' => Tied(d)'
  BY <1>1 DEF RInv, RebuildInv, Tied
<1>4. Alone' => Tallied(c)'
  BY DEF RInv, RebuildInv, SameAlone
<1>5. Still' => Placed(c)' /\ Backed(c)' /\ Within(c)'
  BY DEF RInv, RebuildInv, SameAlone, Still
<1>6. Still' => Alone'
  BY DEF Still
<1>7. QED
  BY <1>2, <1>3, <1>4, <1>5, <1>6 DEF RebuildInv

LEMMA QuietStill == ASSUME Quiet PROVE SameAlone /\ (Still' => Still) /\ mishaps' = mishaps
BY DEF Quiet, SameAlone, Still, Alone

LEMMA SameTables == ASSUME RInv, UNCHANGED files PROVE TablesHold'
BY DEF RInv, RebuildInv, TablesHold, files

-----------------------------------------------------------------------------
(* What the choice, the comparison and the waits keep of a client.         *)

LEMMA ReadingFields ==
  ASSUME NEW me \in ClientState, NEW purpose
  PROVE  \A next \in {Reading(me, purpose), Waiting(me, purpose)} :
           /\ next.at = "read" /\ next.then = purpose /\ next.seen = Fresh.seen /\ next.verb = me.verb
           /\ next.slave = me.slave /\ next.master = me.master
<1>1. Reading(me, purpose).at = "read" /\ Reading(me, purpose).then = purpose /\ Reading(me, purpose).seen = Fresh.seen
      /\ Reading(me, purpose).verb = me.verb /\ Reading(me, purpose).slave = me.slave /\ Reading(me, purpose).master = me.master
  BY DEF Reading, ClientState
<1>2. Waiting(me, purpose).at = "read" /\ Waiting(me, purpose).then = purpose /\ Waiting(me, purpose).seen = Fresh.seen
      /\ Waiting(me, purpose).verb = me.verb /\ Waiting(me, purpose).slave = me.slave /\ Waiting(me, purpose).master = me.master
  BY DEF Waiting, Reading, ClientState
<1>3. QED
  BY <1>1, <1>2

LEMMA ComparingFields ==
  ASSUME NEW me \in ClientState, NEW judge
  PROVE  LET next == Comparing(me, judge) IN
           /\ next.at = "list" /\ next.judge = judge /\ next.todo = {} /\ next.differ = {}
           /\ next.verb = me.verb /\ next.slave = me.slave /\ next.master = me.master
BY DEF Comparing, ClientState

(* The ways a choice or a comparison goes on.                              *)
Chosen(c, me) ==
  /\ Moves(c) /\ cli'[c].slave = me.slave /\ cli'[c].master = me.master
  /\ \/ cli'[c].at = "stop"
     \/ cli'[c].at = "master" /\ cli'[c].judge = "table"
     \/ cli'[c].at = "list" /\ cli'[c].judge \in {"choose", "table"} /\ cli'[c].todo = {} /\ cli'[c].differ = {}

LEMMA TakeGoes ==
  ASSUME RInv, NEW c \in Clients, NEW me \in ClientState, me.path # "", Take(c, me)
  PROVE  /\ Returns(c) \/ Chosen(c, me)
         /\ me.path = "slave" => Chosen(c, me) /\ cli'[c].at = "stop"
<1>0. me.path \in {"resume", "table", "slave"} /\ TypeInv
  BY DEF ClientState, RInv
<1>1. CASE me.path = "resume"
  BY <1>1 DEF Take, Returns, Outcomes
<1>2. CASE me.path = "table"
  <2> DEFINE rows == FailRows(c, me.slave)
             base == Comparing(me, "table")
             place == IF rows = {} THEN "list" ELSE "master"
             next == [base EXCEPT !.todo = rows, !.at = place]
  <2>1. Becomes(c, next) /\ cut' = cut
    BY <1>2 DEF Take
  <2>2. base.slave = me.slave /\ base.master = me.master /\ base.judge = "table" /\ base.differ = {}
    BY ComparingFields
  <2>3. {"todo", "at", "slave", "master", "judge", "differ"} \subseteq DOMAIN base
    BY DEF Comparing, ClientState
  <2> HIDE DEF base, rows, place
  <2>4. next.at = place /\ next.todo = rows /\ next.slave = me.slave /\ next.master = me.master /\ next.judge = "table" /\ next.differ = {}
    BY <2>2, <2>3
  <2>5. cli'[c] = next /\ \A d \in Clients \ {c} : cli'[d] = cli[d]
    BY <1>0, <2>1, BecomesMoves
  <2> HIDE DEF next
  <2>6. (place = "list" /\ rows = {}) \/ place = "master"
    BY DEF place
  <2>7. Chosen(c, me)
    BY <2>1, <2>4, <2>5, <2>6 DEF Chosen, Moves
  <2>8. QED
    BY <1>2, <2>7
<1>3. CASE me.path = "slave"
  <2>1. Becomes(c, [me EXCEPT !.at = "stop"]) /\ cut' = cut
    BY <1>3 DEF Take
  <2>2. [me EXCEPT !.at = "stop"].at = "stop" /\ [me EXCEPT !.at = "stop"].slave = me.slave
        /\ [me EXCEPT !.at = "stop"].master = me.master
    BY DEF ClientState
  <2>3. QED
    BY <1>0, <2>1, <2>2, BecomesMoves DEF Moves, Chosen
<1>4. QED
  BY <1>0, <1>1, <1>2, <1>3

LEMMA JudgedGoes ==
  ASSUME RInv, NEW c \in Clients, NEW me \in ClientState, NEW compared \in BOOLEAN, Judged(c, me, compared)
  PROVE  \/ Returns(c)
         \/ me.judge = "choose" /\ me.differ # {} /\ Chosen(c, me) /\ cli'[c].at = "stop"
<1>0. me.judge \in {"choose", "table", "rebuilt"}
  BY DEF ClientState
<1>1. CASE me.judge = "choose" /\ me.differ # {}
  <2>1. Take(c, [me EXCEPT !.path = "slave"])
    BY <1>1 DEF Judged
  <2>2. [me EXCEPT !.path = "slave"] \in ClientState /\ [me EXCEPT !.path = "slave"].path = "slave"
        /\ [me EXCEPT !.path = "slave"].slave = me.slave /\ [me EXCEPT !.path = "slave"].master = me.master
    BY DEF ClientState
  <2>3. Chosen(c, [me EXCEPT !.path = "slave"]) /\ cli'[c].at = "stop"
    BY <2>1, <2>2, TakeGoes
  <2>4. QED
    BY <1>1, <2>2, <2>3 DEF Chosen
<1>2. CASE me.judge = "choose" /\ me.differ = {}
  BY <1>2 DEF Judged, Returns, Outcomes
<1>3. CASE me.judge = "table"
  BY <1>3 DEF Judged, Returns, Outcomes
<1>4. CASE me.judge = "rebuilt"
  BY <1>4 DEF Judged, Returns, Outcomes
<1>5. QED
  BY <1>0, <1>1, <1>2, <1>3, <1>4

(* A table that has been looked at.                                        *)
LEMMA ComparedGoes ==
  ASSUME RInv, NEW c \in Clients, cli[c].at \in {"master", "slave"},
         NEW differs \in BOOLEAN, Compared(c, Counted(c), differs)
  PROVE  \E differ \in {IF differs THEN cli[c].differ \cup {Counted(c)} ELSE cli[c].differ} :
           \/ Returns(c)
           \/ cli[c].judge = "choose" /\ differ # {} /\ Chosen(c, cli[c]) /\ cli'[c].at = "stop" /\ cli[c].todo = {Counted(c)}
           \/ /\ Moves(c) /\ cli'[c].slave = cli[c].slave /\ cli'[c].master = cli[c].master
              /\ cli'[c].at = "master" /\ cli'[c].judge = cli[c].judge
              /\ cli'[c].todo = cli[c].todo \ {Counted(c)} /\ cli'[c].differ = differ
<1> DEFINE t == Counted(c)
           differ == IF differs THEN cli[c].differ \cup {t} ELSE cli[c].differ
           me == [cli[c] EXCEPT !.todo = @ \ {t}, !.rows = 0, !.at = "master",
                                !.differ = IF differs THEN @ \cup {t} ELSE @]
<1>0. cli[c] \in ClientState /\ cli[c].todo # {} /\ TypeInv
  BY DEF RInv, TypeInv, CliOK, GoodClient
<1>1. t \in Tables /\ t \in cli[c].todo
  BY <1>0 DEF Counted, ClientState
<1>2. IF me.todo = {} THEN Judged(c, me, TRUE) ELSE Becomes(c, me) /\ cut' = cut
  BY DEF Compared
<1> HIDE DEF t
<1>3. me \in ClientState
  BY <1>0, <1>1, Places, ZenonT(60) DEF ClientState
<1>4. me.at = "master" /\ me.todo = cli[c].todo \ {t} /\ me.differ = differ /\ me.judge = cli[c].judge
      /\ me.slave = cli[c].slave /\ me.master = cli[c].master
  BY <1>0 DEF ClientState
<1> HIDE DEF me, differ
<1>5. CASE me.todo = {}
  <2>1. Judged(c, me, TRUE) /\ cli[c].todo = {t}
    BY <1>1, <1>2, <1>4, <1>5
  <2>2. Returns(c) \/ (me.judge = "choose" /\ me.differ # {} /\ Chosen(c, me) /\ cli'[c].at = "stop")
    BY <1>3, <2>1, JudgedGoes
  <2>3. QED
    BY <1>4, <2>1, <2>2 DEF Chosen, differ, t
<1>6. CASE me.todo # {}
  <2>1. Becomes(c, me) /\ cut' = cut
    BY <1>2, <1>6
  <2>2. cli'[c] = me /\ \A d \in Clients \ {c} : cli'[d] = cli[d]
    BY <1>0, <2>1, BecomesMoves
  <2>3. Moves(c)
    BY <1>4, <2>1, <2>2 DEF Moves
  <2>4. QED
    BY <1>4, <2>2, <2>3 DEF differ, t
<1>7. QED
  BY <1>5, <1>6

-----------------------------------------------------------------------------
(* The steps that look, compare, decide and wait.                          *)

LEMMA ClientOf ==
  ASSUME RInv, NEW c \in Clients
  PROVE  TypeInv /\ cli[c] \in ClientState /\ GoodClient(cli[c]) /\ WorldOK
BY DEF RInv, TypeInv, CliOK

LEMMA BeganStill == ASSUME RInv, NEW c \in Clients, Begin(c) PROVE RebuildInv'
<1> DEFINE me == cli'[c]
<1>1. ~Busy(c) /\ UNCHANGED <<files, engine>> /\ \A d \in Clients \ {c} : cli'[d] = cli[d]
  BY ClientOf, BecomesMoves DEF Begin, Busy, At
<1>2. \/ me.at = "read" /\ me.then = "choose" /\ me.seen = Fresh.seen
      \/ me.at = "start" /\ me.then = "resolve" /\ me.verb = "start"
      \/ me.at = "createdb"
  <2>1. Fresh \in ClientState
    BY FreshGood DEF Outcomes
  <2> DEFINE read == Reading(Fresh, "choose")
             one(path, target) == [read EXCEPT !.path = path, !.slave = target]
             two(target) == [Fresh EXCEPT !.verb = "start", !.at = "start", !.then = "resolve", !.slave = target]
             three == [Fresh EXCEPT !.verb = "up", !.at = "createdb"]
  <2>2. read \in ClientState /\ read.at = "read" /\ read.then = "choose" /\ read.seen = Fresh.seen
    BY <2>1, ReadingGood, ReadingFields DEF GoodClient, Purposes
  <2> HIDE DEF read
  <2>3. \A path, target : one(path, target).at = "read" /\ one(path, target).then = "choose" /\ one(path, target).seen = Fresh.seen
    BY <2>2 DEF ClientState
  <2>4. \A target : two(target).at = "start" /\ two(target).then = "resolve" /\ two(target).verb = "start"
    BY <2>1 DEF ClientState
  <2>5. three.at = "createdb"
    BY <2>1 DEF ClientState
  <2>6. \/ \E path, target : Becomes(c, one(path, target))
        \/ \E target : Becomes(c, two(target))
        \/ Becomes(c, three)
    BY DEF Begin, read
  <2> HIDE DEF one, two, three
  <2>7. \A next : Becomes(c, next) => me = next
    BY ClientOf DEF Becomes, TypeInv, CliOK
  <2>8. QED
    BY <2>3, <2>4, <2>5, <2>6, <2>7
<1>3. \A n \in DBNodes : Fresh.seen[n].server = ""
  BY DEF Fresh
<1> HIDE DEF me
<1>4. Tied(c)'
  BY <1>2 DEF Tied, me
<1>5. Tallied(c)'
  BY <1>2 DEF Tallied, me
<1>6. Placed(c)'
  BY <1>2, <1>3 DEF Placed, Mending, seen, Comparisons, Stopped, Broken, me
<1>7. Backed(c)' /\ Within(c)'
  BY <1>2 DEF Backed, Within, Mended, Mending, Comparisons, me
<1>8. \A d \in Clients : Busy(d)' => Tied(d)'
  BY <1>1, <1>4 DEF RInv, RebuildInv, Tied, Busy, At
<1>9. TablesHold'
  BY <1>1, SameTables
<1>10. CASE \E d \in Clients \ {c} : Busy(d)
  <2>1. ~Alone'
    BY <1>10 DEF Begin, Alone
  <2>2. QED
    BY <1>8, <1>9, <2>1 DEF RebuildInv, Still
<1>11. CASE ~\E d \in Clients \ {c} : Busy(d)
  <2>1. \A d \in Clients : Busy(d)' => d = c
    BY <1>1, <1>11 DEF Busy, At
  <2>2. QED
    BY <1>5, <1>6, <1>7, <1>8, <1>9, <2>1 DEF RebuildInv
<1>12. QED
  BY <1>10, <1>11

(* A step that changes no node: it is about what the client turns to.      *)
LEMMA LookStill ==
  ASSUME RInv, NEW c \in Clients, Busy(c), UNCHANGED <<files, engine>>, SameAlone, Still' => Still,
         \/ Returns(c)
         \/ /\ Moves(c)
            /\ Tied(c) => Tied(c)'
            /\ Alone /\ Tied(c) /\ Tallied(c) => Tallied(c)'
            /\ Still /\ Tied(c) /\ Placed(c) /\ Backed(c) /\ Within(c) => Placed(c)' /\ Backed(c)' /\ Within(c)'
  PROVE  RebuildInv'
BY SameTables, ReturnStill, MovesStill

(* A wait that goes on.                                                    *)
LEMMA WaitStill ==
  ASSUME RInv, NEW c \in Clients, Busy(c), UNCHANGED <<files, engine>>, Quiet, Moves(c), cli'[c].at = "read",
         cli'[c].then # "choose", cli'[c].slave = cli[c].slave, cli'[c].verb = cli[c].verb, 
         Tied(c) /\ cli'[c].then \in {"resolve", "joined"} => cli[c].verb = "start",
         cli'[c].then \in {"back", "drain"} => Mended(c) /\ cli'[c].master = cli[c].master
  PROVE  RebuildInv'
<1>1. Tied(c) => Tied(c)'
  BY DEF Tied
<1>2. Tallied(c)'
  BY DEF Tallied
<1>3. Placed(c)' /\ Backed(c)'
  BY DEF Placed, Backed, Mending, Comparisons, Stopped, Broken
<1>4. Within(c) => Within(c)'
  BY DEF Within, Mended, Mending, Comparisons, files, engine, OnlyMaster, Active
<1>5. QED
  BY <1>1, <1>2, <1>3, <1>4, LookStill, QuietStill

LEMMA ReadNodeStill == ASSUME RInv, NEW c \in Clients, ReadNode(c) PROVE RebuildInv'
<1>0. cli[c] \in ClientState /\ cli[c].at = "read" /\ WorldOK /\ Busy(c)
  BY ClientOf DEF ReadNode, At, Busy
<1> DEFINE n == cli[c].slot
           look == IF Expired(c) \/ server[n] = "" THEN Fresh.seen[n]
                   ELSE [server |-> server[n], fail |-> failed[n], behind |-> queue[n] # {}]
           next == [cli[c] EXCEPT !.slot = @ + 1, !.seen[n] = look]
<1>1. Becomes(c, next) /\ cut' = cut /\ UNCHANGED <<files, engine>> /\ Quiet /\ n \in DBNodes
  BY DEF ReadNode, Quiet
<1>2. look.server = "active" => Active(n)
  BY <1>1 DEF Fresh, Active
<1> HIDE DEF look, n
<1>3. next.at = "read" /\ next.then = cli[c].then /\ next.verb = cli[c].verb /\ next.slave = cli[c].slave
      /\ next.master = cli[c].master /\ next.seen = [cli[c].seen EXCEPT ![n] = look]
  BY <1>0 DEF ClientState
<1>4. cli[c].seen \in [DBNodes -> Reads]
  BY <1>0 DEF ClientState
<1> HIDE DEF next
<1>5. cli'[c] = next /\ Moves(c)
  BY <1>1, <1>3, ClientOf, BecomesMoves DEF Moves
<1>6. \A m \in DBNodes : cli'[c].seen[m] = IF m = n THEN look ELSE cli[c].seen[m]
  BY <1>1, <1>3, <1>4, <1>5
<1>7. Tied(c) => Tied(c)'
  BY <1>0, <1>3, <1>5 DEF Tied
<1>8. Tallied(c)'
  BY <1>3, <1>5 DEF Tallied
<1>9. Placed(c) => Placed(c)'
  <2>1. \A m \in DBNodes : Active(m)' <=> Active(m)
    BY <1>1 DEF Active, engine
  <2>2. QED
    BY <1>0, <1>1, <1>2, <1>3, <1>5, <1>6, <2>1 DEF Placed, Mending, Comparisons, Stopped, Broken, seen
<1>10. Backed(c)'
  BY <1>3, <1>5 DEF Backed
<1>11. Within(c) => Within(c)'
  BY <1>0, <1>1, <1>3, <1>5 DEF Within, Mended, Mending, Comparisons, files, engine, OnlyMaster, Active
<1>12. QED
  BY <1>0, <1>1, <1>5, <1>7, <1>8, <1>9, <1>10, <1>11, LookStill, QuietStill

LEMMA WaitsStill ==
  ASSUME RInv, NEW c \in Clients, Back(c) \/ Drain(c) \/ Resolved(c) \/ Joined(c) \/ Rejoined(c)
  PROVE  RebuildInv'
<1>0. cli[c] \in ClientState /\ cli[c].at = "read" /\ Busy(c)
  BY ClientOf DEF Back, Drain, Resolved, Joined, Rejoined, Read, At, Busy
<1>1. UNCHANGED <<files, engine>> /\ Quiet
  BY DEF Back, Drain, Resolved, Joined, Rejoined
<1>2. CASE Returns(c)
  BY <1>0, <1>1, <1>2, LookStill, QuietStill
<1>3. ASSUME NEW purpose \in {"back", "drain", "joined", "rejoined"}, cut' = cut, 
             NEW next \in {Reading(cli[c], purpose), Waiting(cli[c], purpose)}, Becomes(c, next)
      PROVE  /\ Moves(c) /\ cli'[c].at = "read" /\ cli'[c].then = purpose /\ cli'[c].slave = cli[c].slave
             /\ cli'[c].verb = cli[c].verb /\ cli'[c].master = cli[c].master
  <2>1. next.at = "read" /\ next.then = purpose /\ next.slave = cli[c].slave /\ next.verb = cli[c].verb /\ next.master = cli[c].master
    BY <1>0, ReadingFields
  <2>2. cli'[c] = next /\ \A d \in Clients \ {c} : cli'[d] = cli[d]
    BY <1>3, ClientOf, BecomesMoves
  <2>3. QED
    BY <1>3, <2>1, <2>2 DEF Moves
<1>4. CASE Back(c)
  <2>1. \/ Return(c, "timeout")
        \/ cut' = cut /\ (Becomes(c, Waiting(cli[c], "drain")) \/ Becomes(c, Reading(cli[c], "back")))
    BY <1>4 DEF Back, Looks
  <2>2. cli[c].then = "back"
    BY <1>4 DEF Back, Read
  <2>3. QED
    BY <1>0, <1>1, <1>2, <1>3, <2>1, <2>2, WaitStill DEF Returns, Outcomes, Mended
<1>5. CASE Drain(c)
  <2>0. cli[c].then = "drain"
    BY <1>5 DEF Drain, Read
  <2>1. cut' = cut /\ (Becomes(c, Comparing(cli[c], "rebuilt")) \/ Becomes(c, Reading(cli[c], "drain")))
    BY <1>5 DEF Drain, Looks
  <2>2. CASE Becomes(c, Reading(cli[c], "drain"))
    BY <1>0, <1>1, <1>3, <2>0, <2>1, <2>2, WaitStill DEF Mended
  <2>3. CASE Becomes(c, Comparing(cli[c], "rebuilt"))
    <3> DEFINE next == Comparing(cli[c], "rebuilt")
    <3>1. next.at = "list" /\ next.judge = "rebuilt" /\ next.todo = {} /\ next.differ = {}
          /\ next.slave = cli[c].slave /\ next.master = cli[c].master
      BY <1>0, ComparingFields
    <3> HIDE DEF next
    <3>2. cli'[c] = next /\ Moves(c)
      BY <2>1, <2>3, <3>1, ClientOf, BecomesMoves DEF Moves, next
    <3>3. Tied(c)' /\ Tallied(c)' /\ Placed(c)' /\ Backed(c)'
      BY <3>1, <3>2 DEF Tied, Tallied, Placed, Backed, Mending, Comparisons, Stopped, Broken
    <3>4. Within(c) => Within(c)'
      BY <1>0, <1>1, <2>0, <3>1, <3>2 DEF Within, Mended, Mending, Comparisons, files, engine, OnlyMaster, Active
    <3>5. QED
      BY <1>0, <1>1, <3>2, <3>3, <3>4, LookStill, QuietStill
  <2>4. QED
    BY <2>1, <2>2, <2>3
<1>6. CASE Resolved(c)
  <2>0. cli[c].then = "resolve"
    BY <1>6 DEF Resolved, Read
  <2> DEFINE base == Waiting(cli[c], "joined")
             next == [base EXCEPT !.master = LastOf(seen(c, "active"))]
  <2>1. Return(c, "started") \/ (Becomes(c, next) /\ cut' = cut)
    BY <1>6 DEF Resolved, Looks
  <2>2. next.at = "read" /\ next.then = "joined" /\ next.slave = cli[c].slave /\ next.verb = cli[c].verb
    BY <1>0, ReadingFields DEF Waiting, Reading, ClientState
  <2> HIDE DEF next
  <2>3. CASE Becomes(c, next) /\ cut' = cut
    <3>1. cli'[c] = next /\ Moves(c)
      BY <2>2, <2>3, ClientOf, BecomesMoves DEF Moves
    <3>2. Tied(c) => cli[c].verb = "start"
      BY <1>0, <2>0 DEF Tied
    <3>3. QED
      BY <1>0, <1>1, <2>2, <3>1, <3>2, WaitStill
  <2>4. QED
    BY <1>2, <2>1, <2>3 DEF Returns, Outcomes
<1>7. CASE Joined(c)
  <2>0. cli[c].then = "joined"
    BY <1>7 DEF Joined, Read
  <2> DEFINE next == [cli[c] EXCEPT !.at = "relog", !.seen = Fresh.seen]
  <2>1. \/ Return(c, "started")
        \/ cut' = cut /\ (Becomes(c, next) \/ Becomes(c, Reading(cli[c], "joined")))
    BY <1>7 DEF Joined, Looks
  <2>2. Tied(c) => cli[c].verb = "start"
    BY <1>0, <2>0 DEF Tied
  <2>3. CASE cut' = cut /\ Becomes(c, Reading(cli[c], "joined"))
    BY <1>0, <1>1, <1>3, <2>2, <2>3, WaitStill
  <2>4. CASE cut' = cut /\ Becomes(c, next)
    <3>1. next.at = "relog" /\ next.verb = cli[c].verb
      BY <1>0 DEF ClientState
    <3> HIDE DEF next
    <3>2. cli'[c] = next /\ Moves(c)
      BY <2>4, <3>1, ClientOf, BecomesMoves DEF Moves
    <3>3. Tied(c)' /\ Tallied(c)' /\ Backed(c)' /\ (Tied(c) => Placed(c)' /\ Within(c)')
      BY <2>2, <3>1, <3>2 DEF Tied, Tallied, Placed, Backed, Within, Mended, Mending, Comparisons, Stopped, Broken
    <3>4. QED
      BY <1>0, <1>1, <3>2, <3>3, LookStill, QuietStill
  <2>5. QED
    BY <1>2, <2>1, <2>3, <2>4 DEF Returns, Outcomes
<1>8. CASE Rejoined(c)
  <2>1. \/ Return(c, "rejoined") \/ Return(c, "needs_rebuild")
        \/ cut' = cut /\ Becomes(c, Reading(cli[c], "rejoined"))
    BY <1>8 DEF Rejoined, Looks
  <2>2. QED
    BY <1>0, <1>1, <1>2, <1>3, <2>1, WaitStill DEF Returns, Outcomes
<1>9. QED
  BY <1>4, <1>5, <1>6, <1>7, <1>8

LEMMA ChooseStill == ASSUME RInv, NEW c \in Clients, Choose(c) PROVE RebuildInv'
<1>0. /\ cli[c] \in ClientState /\ cli[c].at = "read" /\ cli[c].then = "choose" /\ Busy(c) /\ WorldOK
      /\ UNCHANGED <<files, engine>> /\ mishaps' = mishaps
  BY ClientOf DEF Choose, Read, At, Busy
<1>1. SameAlone /\ (Still' => Still)
  BY <1>0 DEF SameAlone, Still, Alone
<1> DEFINE master == LastOf(seen(c, "active"))
           slave == IF TheSlave(c) # Nobody THEN TheSlave(c) ELSE LastOf(seen(c, "standby"))
           fail == cli[c].seen[slave].fail
           me == [cli[c] EXCEPT !.master = master, !.slave = slave, !.seen = Fresh.seen]
<1>2. IF Nobody \in {master, slave} \/ master = slave THEN Return(c, "error")
      ELSE IF me.path # "" THEN Take(c, me)
      ELSE IF fail = 0 THEN Becomes(c, Comparing(me, "choose")) /\ cut' = cut
      ELSE Take(c, [me EXCEPT !.path = Path(fail, FailRows(c, slave))])
  BY DEF Choose
<1>3. master \in DBNodes \cup {Nobody} /\ slave \in DBNodes \cup {Nobody}
  BY <1>0, LastIsNode DEF seen, TheSlave, ClientState
<1>4. master # Nobody => master \in seen(c, "active")
  <2>1. seen(c, "active") \in SUBSET DBNodes
    BY DEF seen
  <2>2. QED
    BY <2>1, LastIsOne DEF LastOf
<1>5. slave \in DBNodes => fail \in Fails
  BY <1>0 DEF ClientState, Reads
<1> HIDE DEF master, slave, fail
<1>6. me \in ClientState /\ me.slave = slave /\ me.master = master
  BY <1>0, <1>3, NoneSeen DEF ClientState
<1> HIDE DEF me
<1>7. CASE Returns(c)
  BY <1>0, <1>1, <1>7, LookStill
<1>8. ASSUME Chosen(c, me), master # Nobody
      PROVE  RebuildInv'
  <2>1. Moves(c) /\ cli'[c].master = master /\ cli'[c].slave = slave
    BY <1>6, <1>8 DEF Chosen
  <2>2. \/ cli'[c].at = "stop"
        \/ cli'[c].at = "master" /\ cli'[c].judge = "table"
        \/ cli'[c].at = "list" /\ cli'[c].judge \in {"choose", "table"} /\ cli'[c].todo = {} /\ cli'[c].differ = {}
    BY <1>8 DEF Chosen
  <2>3. Tied(c)' /\ Tallied(c)' /\ Backed(c)' /\ Within(c)'
    BY <2>2 DEF Tied, Tallied, Backed, Within, Mended, Mending, Comparisons
  <2>4. Placed(c) => Active(master)
    BY <1>0, <1>4, <1>8 DEF Placed
  <2>5. Placed(c) => Placed(c)'
    BY <1>0, <2>1, <2>2, <2>4 DEF Placed, Mending, Comparisons, Stopped, Broken, Active, engine
  <2>6. QED
    BY <1>0, <1>1, <2>1, <2>3, <2>5, LookStill
<1>9. CASE Nobody \in {master, slave} \/ master = slave
  BY <1>2, <1>7, <1>9 DEF Returns, Outcomes
<1>10. CASE ~(Nobody \in {master, slave} \/ master = slave) /\ me.path # ""
  <2>1. Take(c, me)
    BY <1>2, <1>10
  <2>2. QED
    BY <1>6, <1>7, <1>8, <1>10, <2>1, TakeGoes
<1>11. CASE ~(Nobody \in {master, slave} \/ master = slave) /\ me.path = "" /\ fail = 0
  <2>1. Becomes(c, Comparing(me, "choose")) /\ cut' = cut
    BY <1>2, <1>11
  <2> DEFINE next == Comparing(me, "choose")
  <2>2. next.at = "list" /\ next.judge = "choose" /\ next.todo = {} /\ next.differ = {}
        /\ next.slave = me.slave /\ next.master = me.master
    BY <1>6, ComparingFields
  <2> HIDE DEF next
  <2>3. cli'[c] = next /\ \A d \in Clients \ {c} : cli'[d] = cli[d]
    BY <2>1, ClientOf, BecomesMoves DEF next
  <2>4. Chosen(c, me)
    BY <2>1, <2>2, <2>3 DEF Chosen, Moves
  <2>5. QED
    BY <1>8, <1>11, <2>4
<1>12. CASE ~(Nobody \in {master, slave} \/ master = slave) /\ me.path = "" /\ fail # 0
  <2> DEFINE path == Path(fail, FailRows(c, slave))
             next == [me EXCEPT !.path = path]
  <2>1. Take(c, next)
    BY <1>2, <1>12
  <2>2. fail = 1 \/ fail = 1000
    <3>1. fail \in Fails
      BY <1>3, <1>5, <1>12
    <3>2. fail # 0
      BY <1>12
    <3>3. QED
      BY <3>1, <3>2 DEF Fails
  <2>3. path \in {"resume", "table", "slave"}
    BY <2>2 DEF Path
  <2> HIDE DEF path
  <2>4. next \in ClientState /\ next.path # "" /\ next.slave = me.slave /\ next.master = me.master
    BY <1>6, <2>3 DEF ClientState
  <2> HIDE DEF next
  <2>5. Returns(c) \/ Chosen(c, next)
    BY <2>1, <2>4, TakeGoes
  <2>6. Chosen(c, next) => Chosen(c, me)
    BY <2>4 DEF Chosen
  <2>7. QED
    BY <1>7, <1>8, <1>12, <2>5, <2>6
<1>13. QED
  BY <1>9, <1>10, <1>11, <1>12

(* What comes after a comparison has its master from before it.            *)
LEMMA ChosenAfter ==
  ASSUME RInv, NEW c \in Clients, cli[c].at \in Comparisons, cli[c].judge = "choose", UNCHANGED <<files, engine>>,
         Chosen(c, cli[c]), cli'[c].at = "stop"
  PROVE  /\ Tied(c)' /\ Tallied(c)' /\ Backed(c)' /\ Within(c)' /\ Moves(c)
         /\ Placed(c) => Placed(c)'
<1>1. cli'[c].master = cli[c].master /\ Moves(c)
  BY DEF Chosen
<1>2. Tied(c)' /\ Tallied(c)' /\ Backed(c)' /\ Within(c)'
  BY DEF Tied, Tallied, Backed, Within, Mended, Mending, Comparisons
<1>3. Placed(c) => Placed(c)'
  BY <1>1 DEF Placed, Mending, Comparisons, Stopped, Broken, Active, engine
<1>4. QED
  BY <1>1, <1>2, <1>3

LEMMA ListStill == ASSUME RInv, NEW c \in Clients, List(c) PROVE RebuildInv'
<1>0. /\ cli[c] \in ClientState /\ cli[c].at = "list" /\ Busy(c) /\ WorldOK
      /\ UNCHANGED <<files, engine>> /\ mishaps' = mishaps \cap {"moved", "overlapped"} /\ PairOf(cli[c])
  BY ClientOf DEF List, At, Busy, GoodClient, Paired
<1>1. SameAlone /\ (Still' => Still)
  BY <1>0 DEF SameAlone, Still, Alone
<1>2. cli[c].todo = {} /\ cli[c].differ = {}
  BY <1>0 DEF RInv, RebuildInv, Tied
<1> DEFINE reach == Reachable(c, TheMaster(c))
           tables == IF reach THEN db[TheMaster(c)].tables ELSE {}
<1>3. IF tables = {} THEN Judged(c, cli[c], reach)
      ELSE Becomes(c, [cli[c] EXCEPT !.at = "master", !.todo = tables]) /\ cut' = cut
  BY DEF List
<1>4. reach \in BOOLEAN /\ (tables # {} => tables = db[cli[c].master].tables)
  BY DEF Reachable, Expired, TheMaster
<1> HIDE DEF tables, reach
<1>5. CASE tables = {}
  <2>1. Returns(c)
    BY <1>0, <1>2, <1>3, <1>4, <1>5, JudgedGoes
  <2>2. QED
    BY <1>0, <1>1, <2>1, LookStill
<1>6. CASE tables # {}
  <2> DEFINE next == [cli[c] EXCEPT !.at = "master", !.todo = tables]
  <2>1. next.at = "master" /\ next.todo = tables /\ next.differ = {} /\ next.judge = cli[c].judge
        /\ next.slave = cli[c].slave /\ next.master = cli[c].master
    BY <1>0, <1>2 DEF ClientState
  <2> HIDE DEF next
  <2>2. cli'[c] = next /\ Moves(c)
    BY <1>3, <1>6, <2>1, ClientOf, BecomesMoves DEF Moves, next
  <2>3. Tied(c)' /\ Backed(c)'
    BY <2>1, <2>2 DEF Tied, Backed
  <2>4. Tallied(c)'
    BY <1>0, <1>4, <1>6, <2>1, <2>2 DEF Tallied, files
  <2>5. Placed(c) => Placed(c)'
    BY <1>0, <2>1, <2>2 DEF Placed, Mending, Comparisons, Stopped, Broken, Active, engine
  <2>6. Within(c) => Within(c)'
    BY <1>0, <2>1, <2>2 DEF Within, Mended, Mending, Comparisons, files, engine, OnlyMaster, Active
  <2>7. QED
    BY <1>0, <1>1, <2>2, <2>3, <2>4, <2>5, <2>6, LookStill
<1>7. QED
  BY <1>5, <1>6

LEMMA CountedIs ==
  ASSUME RInv, NEW c \in Clients, cli[c].at \in {"master", "slave"}
  PROVE  Counted(c) \in cli[c].todo
BY ClientOf DEF GoodClient, Counted

(* Rows of a table that is not there are none.                             *)
LEMMA NoTableNoRows ==
  ASSUME RInv, NEW n \in DBNodes, NEW t, t \notin db[n].tables
  PROVE  Count(n, t) = 0
<1>1. {w \in db[n].rows : w[1] = t} = {}
  BY DEF RInv, RebuildInv, TablesHold
<1>2. QED
  BY <1>1, FS_EmptySet DEF Count

LEMMA CountMasterStill == ASSUME RInv, NEW c \in Clients, CountMaster(c) PROVE RebuildInv'
<1> DEFINE t == Counted(c)
           m == cli[c].master
           there == Reachable(c, m) /\ t \in db[m].tables
<1>0. /\ cli[c] \in ClientState /\ cli[c].at = "master" /\ Busy(c) /\ WorldOK /\ UNCHANGED <<files, engine>>
  BY ClientOf DEF CountMaster, At, Busy
<1>1. \/ /\ there /\ mishaps' = mishaps /\ cut' = cut
         /\ Becomes(c, [cli[c] EXCEPT !.at = "slave", !.rows = Count(m, t)])
      \/ ~there /\ mishaps' = mishaps \cup {"uncounted"} /\ Compared(c, t, FALSE)
  BY DEF CountMaster, TheMaster
<1>2. SameAlone /\ (Still' => Still)
  BY <1>1 DEF SameAlone, Still, Alone
<1>3. CASE /\ there /\ mishaps' = mishaps /\ cut' = cut
           /\ Becomes(c, [cli[c] EXCEPT !.at = "slave", !.rows = Count(m, t)])
  <2> DEFINE next == [cli[c] EXCEPT !.at = "slave", !.rows = Count(m, t)]
  <2>1. next.at = "slave" /\ next.rows = Count(m, t) /\ next.todo = cli[c].todo /\ next.differ = cli[c].differ
        /\ next.judge = cli[c].judge /\ next.slave = cli[c].slave /\ next.master = cli[c].master
    BY <1>0 DEF ClientState
  <2> HIDE DEF next
  <2>2. cli'[c] = next /\ Moves(c)
    BY <1>3, <2>1, ClientOf, BecomesMoves DEF Moves, next
  <2>3. Tied(c)' /\ Backed(c)'
    BY <2>1, <2>2 DEF Tied, Backed
  <2>4. Counted(c)' = t /\ \A n, u : Count(n, u)' = Count(n, u)
    BY <1>0, <2>1, <2>2 DEF Counted, Count, files
  <2>5. Tallied(c) => Tallied(c)'
    BY <1>0, <1>3, <2>1, <2>2, <2>4 DEF Tallied, files, Agrees
  <2>6. Placed(c) => Placed(c)'
    BY <1>0, <2>1, <2>2 DEF Placed, Mending, Comparisons, Stopped, Broken, Active, engine
  <2>7. Within(c) => Within(c)'
    BY <1>0, <2>1, <2>2 DEF Within, Mended, Mending, Comparisons, files, engine, OnlyMaster, Active
  <2>8. QED
    BY <1>0, <1>2, <2>2, <2>3, <2>5, <2>6, <2>7, LookStill
<1>4. CASE ~there /\ mishaps' = mishaps \cup {"uncounted"} /\ Compared(c, t, FALSE)
  <2>1. \/ Returns(c)
        \/ cli[c].judge = "choose" /\ Chosen(c, cli[c]) /\ cli'[c].at = "stop"
        \/ /\ Moves(c) /\ cli'[c].slave = cli[c].slave /\ cli'[c].master = cli[c].master
           /\ cli'[c].at = "master" /\ cli'[c].judge = cli[c].judge
           /\ cli'[c].todo = cli[c].todo \ {t} /\ cli'[c].differ = cli[c].differ
    BY <1>0, <1>4, ComparedGoes
  <2>2. CASE Returns(c)
    BY <1>0, <1>2, <2>2, LookStill
  <2>3. CASE cli[c].judge = "choose" /\ Chosen(c, cli[c]) /\ cli'[c].at = "stop"
    BY <1>0, <1>2, <2>3, ChosenAfter, LookStill DEF Comparisons
  <2>4. CASE /\ Moves(c) /\ cli'[c].slave = cli[c].slave /\ cli'[c].master = cli[c].master
             /\ cli'[c].at = "master" /\ cli'[c].judge = cli[c].judge
             /\ cli'[c].todo = cli[c].todo \ {t} /\ cli'[c].differ = cli[c].differ
    <3>1. Tied(c)' /\ Backed(c)'
      BY <2>4 DEF Tied, Backed
    <3>2. \A n, u : Count(n, u)' = Count(n, u)
      BY <1>0 DEF Count, files
    <3>3. Tallied(c) => Tallied(c)'
      BY <1>0, <1>4, <2>4, <3>2 DEF Tallied, Agrees
    <3>4. Placed(c) => Placed(c)'
      BY <1>0, <2>4 DEF Placed, Mending, Comparisons, Stopped, Broken, Active, engine
    <3>5. Within(c) => Within(c)'
      BY <1>0, <2>4 DEF Within, Mended, Mending, Comparisons, files, engine, OnlyMaster, Active
    <3>6. QED
      BY <1>0, <1>2, <2>4, <3>1, <3>3, <3>4, <3>5, LookStill
  <2>5. QED
    BY <2>1, <2>2, <2>3, <2>4
<1>5. QED
  BY <1>1, <1>3, <1>4

LEMMA CountSlaveStill == ASSUME RInv, NEW c \in Clients, CountSlave(c) PROVE RebuildInv'
<1> DEFINE t == Counted(c)
           s == cli[c].slave
           there == Reachable(c, s) /\ t \in db[s].tables
           rows == IF there THEN Count(s, t) ELSE 0
           differs == rows # cli[c].rows /\ (there \/ cli[c].judge # "table")
           differ == IF differs THEN cli[c].differ \cup {t} ELSE cli[c].differ
<1>0. /\ cli[c] \in ClientState /\ cli[c].at = "slave" /\ Busy(c) /\ WorldOK /\ UNCHANGED <<files, engine>>
      /\ s \in DBNodes /\ t \in cli[c].todo
  BY ClientOf, CountedIs DEF CountSlave, At, Busy, GoodClient, Paired, PairOf
<1>1. /\ Compared(c, t, differs)
      /\ mishaps' = IF Reachable(c, s) THEN mishaps ELSE mishaps \cup {"blind"}
  BY DEF CountSlave, TheSlave
<1>2. SameAlone /\ (Still' => Still)
  BY <1>1 DEF SameAlone, Still, Alone
<1>3. Reachable(c, s) => rows = Count(s, t)
  BY <1>0, NoTableNoRows
<1>4. differs \in BOOLEAN
  OBVIOUS
<1>5. \/ Returns(c)
      \/ cli[c].judge = "choose" /\ Chosen(c, cli[c]) /\ cli'[c].at = "stop"
      \/ /\ Moves(c) /\ cli'[c].slave = s /\ cli'[c].master = cli[c].master
         /\ cli'[c].at = "master" /\ cli'[c].judge = cli[c].judge
         /\ cli'[c].todo = cli[c].todo \ {t} /\ cli'[c].differ = differ
  BY <1>0, <1>1, <1>4, ComparedGoes
<1>6. CASE Returns(c)
  BY <1>0, <1>2, <1>6, LookStill
<1>7. CASE cli[c].judge = "choose" /\ Chosen(c, cli[c]) /\ cli'[c].at = "stop"
  BY <1>0, <1>2, <1>7, ChosenAfter, LookStill DEF Comparisons
<1>8. CASE /\ Moves(c) /\ cli'[c].slave = s /\ cli'[c].master = cli[c].master
           /\ cli'[c].at = "master" /\ cli'[c].judge = cli[c].judge
           /\ cli'[c].todo = cli[c].todo \ {t} /\ cli'[c].differ = differ
  <2>1. Tied(c)' /\ Backed(c)'
    BY <1>8 DEF Tied, Backed
  <2>2. \A n, u : Count(n, u)' = Count(n, u)
    BY <1>0 DEF Count, files
  <2>3. Tallied(c) => Tallied(c)'
    <3> SUFFICES ASSUME Tallied(c), cli[c].judge # "table", mishaps' \cap {"unsettled", "blind"} = {}
                 PROVE  /\ \A u \in differ : ~Agrees(c, u)
                        /\ "uncounted" \notin mishaps' =>
                             \A u \in db[cli[c].master].tables \ ((cli[c].todo \ {t}) \cup differ) : Agrees(c, u)
      BY <1>0, <1>8, <2>2 DEF Tallied, Agrees, files
    <3>1. mishaps' = mishaps /\ rows = Count(s, t)
      BY <1>1, <1>3
    <3>2. cli[c].rows = Count(cli[c].master, t)
      BY <1>0, <3>1 DEF Tallied
    <3>3. Agrees(c, t) <=> ~differs
      BY <3>1, <3>2 DEF Agrees
    <3> HIDE DEF differs, t
    <3>4. QED
      BY <1>0, <3>1, <3>3 DEF Tallied
  <2>4. Placed(c) => Placed(c)'
    BY <1>0, <1>8 DEF Placed, Mending, Comparisons, Stopped, Broken, Active, engine
  <2>5. Within(c) => Within(c)'
    BY <1>0, <1>8 DEF Within, Mended, Mending, Comparisons, files, engine, OnlyMaster, Active
  <2>6. QED
    BY <1>0, <1>2, <1>8, <2>1, <2>3, <2>4, <2>5, LookStill
<1>9. QED
  BY <1>5, <1>6, <1>7, <1>8

LEMMA TimeStill == ASSUME RInv, NEW c \in Clients, Late(c) \/ Expire(c) \/ Kill(c) PROVE RebuildInv'
<1>0. cli[c] \in ClientState /\ Busy(c) /\ UNCHANGED <<files, engine>> /\ Quiet
  BY ClientOf DEF Late, Expire, Kill, Busy, At
<1>1. ASSUME NEW next, Becomes(c, next), cut' = cut,
             \A field \in DOMAIN cli[c] \ {"late", "expired"} : next[field] = cli[c][field]
      PROVE  RebuildInv'
  <2>1. next.at = cli[c].at /\ next.then = cli[c].then /\ next.verb = cli[c].verb /\ next.judge = cli[c].judge
        /\ next.slave = cli[c].slave /\ next.master = cli[c].master /\ next.seen = cli[c].seen /\ next.todo = cli[c].todo
        /\ next.rows = cli[c].rows /\ next.differ = cli[c].differ
    BY <1>0, <1>1 DEF ClientState
  <2>2. cli'[c] = next /\ Moves(c)
    BY <1>0, <1>1, <2>1, ClientOf, BecomesMoves DEF Moves, Busy, At
  <2>3. Tied(c) => Tied(c)'
    BY <2>1, <2>2 DEF Tied
  <2>4. Tallied(c) => Tallied(c)'
    <3>1. Counted(c)' = Counted(c) /\ \A n, t : Count(n, t)' = Count(n, t)
      BY <1>0, <2>1, <2>2 DEF Counted, Count, files
    <3>2. db' = db /\ mishaps' = mishaps
      BY <1>0 DEF files, Quiet
    <3>3. QED
      BY <2>1, <2>2, <3>1, <3>2 DEF Tallied, Agrees
  <2>5. Placed(c) => Placed(c)'
    BY <1>0, <2>1, <2>2 DEF Placed, Mending, Active, engine, seen
  <2>6. Backed(c) => Backed(c)'
    BY <1>0, <2>1, <2>2 DEF Backed, files, engine
  <2>7. Within(c) => Within(c)'
    BY <1>0, <2>1, <2>2 DEF Within, Mended, Mending, Comparisons, files, engine, OnlyMaster, Active
  <2>8. QED
    BY <1>0, <2>2, <2>3, <2>4, <2>5, <2>6, <2>7, LookStill, QuietStill
<1>2. CASE Late(c)
  BY <1>0, <1>1, <1>2 DEF Late, ClientState
<1>3. CASE Expire(c)
  BY <1>0, <1>1, <1>3 DEF Expire, ClientState
<1>4. CASE Kill(c)
  BY <1>0, <1>4, LookStill, QuietStill DEF Kill, Returns, Outcomes
<1>5. QED
  BY <1>2, <1>3, <1>4

-----------------------------------------------------------------------------
(* The rebuild.                                                            *)

(* Whoever is rebuilding is counting nothing, and waits for nothing.       *)
LEMMA RebuildingStill ==
  ASSUME RInv, NEW c \in Clients,
         cli[c].at \in {"stop"} \cup Stopped,
         NEW phase \in Stopped \cup {"relog"}, Goes(c, phase), cut' = cut, Quiet, TablesHold',
         /\ Still /\ Placed(c) /\ Backed(c) /\ Within(c) /\ cli'[c].at = phase /\ cli'[c].verb = cli[c].verb
         /\ cli'[c].slave = cli[c].slave /\ cli'[c].master = cli[c].master
         => /\ phase # "relog" => server'[cli[c].master] = "active"
            /\ ~hb'[cli[c].slave] /\ server'[cli[c].slave] = "" /\ Backed(c)'
            /\ (\A n \in DBNodes : server'[n] = "active" => n = cli[c].master) =>
                 /\ phase \in {"remove", "unlink", "fetch"} => backup'[cli[c].master].rows \subseteq db'[cli[c].master].rows
                 /\ phase = "restore" => backup'[cli[c].slave].rows \subseteq db'[cli[c].master].rows
                 /\ phase = "relog" => db'[cli[c].slave].rows \cup queue'[cli[c].slave] \subseteq db'[cli[c].master].rows
  PROVE  RebuildInv'
<1>0. cli[c] \in ClientState /\ phase \in Phases \ {"idle"} /\ Busy(c)
  BY ClientOf DEF Phases, Stopped, Broken, Busy, At
<1>1. Moves(c) /\ cli'[c].at = phase /\ cli'[c].slave = cli[c].slave /\ cli'[c].master = cli[c].master
  BY <1>0, ClientOf, GoesMoves
<1>2. cli'[c].verb = cli[c].verb
  <2>1. [cli[c] EXCEPT !.at = phase].verb = cli[c].verb
    BY <1>0 DEF ClientState
  <2>2. QED
    BY <2>1, ClientOf, BecomesMoves DEF Goes
<1>3. Tied(c)' /\ Tallied(c)'
  BY <1>1 DEF Tied, Tallied, Stopped, Broken
<1>4. Still /\ Placed(c) /\ Backed(c) /\ Within(c) => Placed(c)'
  BY <1>1, <1>2 DEF Placed, Mending, Comparisons, Stopped, Broken, Active
<1>5. Still /\ Placed(c) /\ Backed(c) /\ Within(c) => Within(c)'
  <2>1. cli'[c].at = "relog" \/ ~Mended(c)'
    BY <1>1 DEF Mended, Mending, Comparisons, Stopped, Broken
  <2>2. QED
    BY <1>1, <1>2, <2>1 DEF Within, OnlyMaster, Active, Stopped, Broken
<1>6. Still /\ Placed(c) /\ Backed(c) /\ Within(c) => Backed(c)'
  BY <1>1, <1>2
<1>7. QED
  BY <1>0, <1>1, <1>3, <1>4, <1>5, <1>6, QuietStill, MovesStill

LEMMA PairFacts ==
  ASSUME RInv, NEW c \in Clients, cli[c].at \in Paired
  PROVE  /\ TheSlave(c) = cli[c].slave /\ TheMaster(c) = cli[c].master /\ Busy(c)
         /\ cli[c].slave \in DBNodes /\ cli[c].master \in DBNodes /\ cli[c].master # cli[c].slave
BY ClientOf DEF GoodClient, PairOf, TheSlave, TheMaster, Busy, At, Paired

LEMMA StopStill == ASSUME RInv, NEW c \in Clients, Stop(c) PROVE RebuildInv'
<1> DEFINE s == cli[c].slave
           m == cli[c].master
<1>0. cli[c].at = "stop" /\ cli[c].at \in Paired /\ s \in DBNodes /\ m \in DBNodes /\ m # s /\ WorldOK /\ Busy(c) /\ TheSlave(c) = s
  BY PairFacts, ClientOf DEF Stop, At, Paired
<1>1. Quiet /\ UNCHANGED files
  BY DEF Stop
<1> HIDE DEF s, m
<1>2. \/ Returns(c)
      \/ Goes(c, "prepare") /\ cut' = cut /\ hb' = [hb EXCEPT ![s] = FALSE] /\ server' = [server EXCEPT ![s] = ""]
  BY <1>0 DEF Stop, Returns, Outcomes
<1>3. CASE Returns(c)
  BY <1>0, <1>1, <1>3, SameTables, QuietStill, ReturnStill
<1>4. CASE Goes(c, "prepare") /\ cut' = cut /\ hb' = [hb EXCEPT ![s] = FALSE] /\ server' = [server EXCEPT ![s] = ""]
  <2>1. ~hb'[s] /\ server'[s] = "" /\ server'[m] = server[m]
    BY <1>0, <1>4 DEF WorldOK
  <2>2. Placed(c) => server'[m] = "active"
    BY <1>0, <2>1 DEF Placed, Active, m
  <2>3. cli'[c].at = "prepare" => Backed(c)'
    BY DEF Backed
  <2>4. QED
    BY <1>0, <1>1, <1>4, <2>1, <2>2, <2>3, SameTables, RebuildingStill DEF Stopped, s, m
<1>5. QED
  BY <1>2, <1>3, <1>4

LEMMA PrepareStill == ASSUME RInv, NEW c \in Clients, Prepare(c) PROVE RebuildInv'
<1> DEFINE s == cli[c].slave
           m == cli[c].master
<1>0. cli[c].at = "prepare" /\ cli[c].at \in Paired /\ s \in DBNodes /\ m \in DBNodes /\ WorldOK /\ TheMaster(c) = m
  BY PairFacts, ClientOf DEF Prepare, At, Paired
<1> HIDE DEF s, m
<1>1. Goes(c, "backup") /\ cut' = cut /\ Quiet /\ db' = db /\ UNCHANGED engine /\ backup' = [backup EXCEPT ![m] = Nothing]
  BY <1>0 DEF Prepare
<1>2. TablesHold'
  <2>1. \A n \in DBNodes : backup'[n] = IF n = m THEN Nothing ELSE backup[n]
    BY <1>0, <1>1 DEF WorldOK
  <2>2. QED
    BY <1>1, <2>1 DEF RInv, RebuildInv, TablesHold, Nothing
<1>3. Placed(c) => server'[m] = "active" /\ ~hb'[s] /\ server'[s] = ""
  BY <1>0, <1>1 DEF Placed, Stopped, Active, engine, s, m
<1>4. cli'[c].at = "backup" => Backed(c)'
  BY DEF Backed
<1>5. QED
  BY <1>0, <1>1, <1>2, <1>3, <1>4, RebuildingStill DEF Stopped, s, m

LEMMA BackupStill == ASSUME RInv, NEW c \in Clients, Backup(c) PROVE RebuildInv'
<1> DEFINE s == cli[c].slave
           m == cli[c].master
<1>0. cli[c].at = "backup" /\ cli[c].at \in Paired /\ s \in DBNodes /\ m \in DBNodes /\ m # s /\ WorldOK /\ TheMaster(c) = m /\ Busy(c)
  BY PairFacts, ClientOf DEF Backup, At, Paired
<1> HIDE DEF s, m
<1>1. Quiet /\ db' = db /\ UNCHANGED engine
  BY DEF Backup
<1>2. \/ Returns(c) /\ (backup' = backup \/ backup' = [backup EXCEPT ![m].state = "torn"])
      \/ Goes(c, "remove") /\ cut' = cut /\ backup' = [backup EXCEPT ![m] = db[m]]
  BY <1>0 DEF Backup, Returns, Outcomes
<1>3. CASE Returns(c) /\ (backup' = backup \/ backup' = [backup EXCEPT ![m].state = "torn"])
  <2>1. backup \in [DBNodes -> Database]
    BY <1>0 DEF WorldOK
  <2>2. \A n \in DBNodes : backup'[n].rows = backup[n].rows /\ backup'[n].tables = backup[n].tables
    BY <1>0, <1>3, <2>1 DEF Database
  <2>3. TablesHold'
    BY <1>1, <2>2 DEF RInv, RebuildInv, TablesHold
  <2>4. QED
    BY <1>0, <1>1, <1>3, <2>3, QuietStill, ReturnStill
<1>4. CASE Goes(c, "remove") /\ cut' = cut /\ backup' = [backup EXCEPT ![m] = db[m]]
  <2>1. \A n \in DBNodes : backup'[n] = IF n = m THEN db[m] ELSE backup[n]
    BY <1>0, <1>4 DEF WorldOK
  <2>2. TablesHold'
    BY <1>0, <1>1, <2>1 DEF RInv, RebuildInv, TablesHold
  <2>3. backup'[m] = db'[m] /\ db'[m] = db[m] /\ db'[s] = db[s]
    BY <1>0, <1>1, <2>1
  <2>4. Placed(c) => server'[m] = "active" /\ ~hb'[s] /\ server'[s] = ""
    BY <1>0, <1>1 DEF Placed, Stopped, Active, engine, s, m
  <2>5. cli'[c].at = "remove" /\ cli'[c].slave = s /\ cli'[c].master = m => Backed(c)'
    BY <2>3 DEF Backed
  <2>6. QED
    BY <1>0, <1>1, <1>4, <2>2, <2>3, <2>4, <2>5, RebuildingStill DEF Stopped, s, m
<1>5. QED
  BY <1>2, <1>3, <1>4

LEMMA RemoveStill == ASSUME RInv, NEW c \in Clients, Remove(c) PROVE RebuildInv'
<1> DEFINE s == cli[c].slave
           m == cli[c].master
<1>0. cli[c].at = "remove" /\ cli[c].at \in Paired /\ s \in DBNodes /\ m \in DBNodes /\ m # s /\ WorldOK /\ TheSlave(c) = s
  BY PairFacts, ClientOf DEF Remove, At, Paired
<1> HIDE DEF s, m
<1>1. /\ Goes(c, "unlink") /\ cut' = cut /\ Quiet /\ backup' = backup /\ UNCHANGED engine
      /\ db' = [db EXCEPT ![s].state = IF @ = "gone" THEN @ ELSE "torn"]
  BY <1>0 DEF Remove
<1>2. \A n \in DBNodes : /\ db'[n].rows = db[n].rows /\ db'[n].tables = db[n].tables
                         /\ db'[n].state = IF n # s THEN db[n].state ELSE IF db[n].state = "gone" THEN "gone" ELSE "torn"
  <2>1. db \in [DBNodes -> Database]
    BY <1>0 DEF WorldOK
  <2>2. QED
    BY <1>0, <1>1, <2>1 DEF Database
<1>3. TablesHold'
  BY <1>1, <1>2 DEF RInv, RebuildInv, TablesHold
<1>4. Placed(c) => server'[m] = "active" /\ ~hb'[s] /\ server'[s] = ""
  BY <1>0, <1>1 DEF Placed, Stopped, Active, engine, s, m
<1>5. cli'[c].at = "unlink" /\ cli'[c].slave = s => Backed(c)'
  BY <1>0, <1>2 DEF Backed
<1>6. Within(c) /\ (\A n \in DBNodes : server'[n] = "active" => n = m) => backup'[m].rows \subseteq db'[m].rows
  BY <1>0, <1>1, <1>2 DEF Within, OnlyMaster, Active, engine, m
<1>7. QED
  BY <1>0, <1>1, <1>3, <1>4, <1>5, <1>6, RebuildingStill DEF Stopped, Broken, s, m

LEMMA UnlinkStill == ASSUME RInv, NEW c \in Clients, Unlink(c) PROVE RebuildInv'
<1> DEFINE s == cli[c].slave
           m == cli[c].master
<1>0. cli[c].at = "unlink" /\ cli[c].at \in Paired /\ s \in DBNodes /\ m \in DBNodes /\ m # s /\ WorldOK /\ TheSlave(c) = s
  BY PairFacts, ClientOf DEF Unlink, At, Paired
<1> HIDE DEF s, m
<1>1. /\ Goes(c, "fetch") /\ cut' = cut /\ Quiet /\ backup' = backup /\ UNCHANGED engine
      /\ db' = [db EXCEPT ![s] = Nothing]
  BY <1>0 DEF Unlink
<1>2. \A n \in DBNodes : db'[n] = IF n = s THEN Nothing ELSE db[n]
  BY <1>0, <1>1 DEF WorldOK
<1>3. TablesHold'
  BY <1>1, <1>2 DEF RInv, RebuildInv, TablesHold, Nothing
<1>4. Placed(c) => server'[m] = "active" /\ ~hb'[s] /\ server'[s] = ""
  BY <1>0, <1>1 DEF Placed, Stopped, Broken, Active, engine, s, m
<1>5. cli'[c].at = "fetch" /\ cli'[c].slave = s => Backed(c)'
  BY <1>0, <1>2 DEF Backed, Nothing
<1>6. Within(c) /\ (\A n \in DBNodes : server'[n] = "active" => n = m) => backup'[m].rows \subseteq db'[m].rows
  BY <1>0, <1>1, <1>2 DEF Within, OnlyMaster, Active, engine, m
<1>7. QED
  BY <1>0, <1>1, <1>3, <1>4, <1>5, <1>6, RebuildingStill DEF Stopped, Broken, s, m

LEMMA FetchStill == ASSUME RInv, NEW c \in Clients, Fetch(c) PROVE RebuildInv'
<1> DEFINE s == cli[c].slave
           m == cli[c].master
<1>0. /\ cli[c].at = "fetch" /\ cli[c].at \in Paired /\ s \in DBNodes /\ m \in DBNodes /\ WorldOK
      /\ TheSlave(c) = s /\ TheMaster(c) = m
  BY PairFacts, ClientOf DEF Fetch, At, Paired
<1> HIDE DEF s, m
<1>1. /\ Goes(c, "restore") /\ cut' = cut /\ Quiet /\ db' = db /\ UNCHANGED engine
      /\ backup' = [backup EXCEPT ![s] = backup[m]]
  BY <1>0 DEF Fetch
<1>2. \A n \in DBNodes : backup'[n] = IF n = s THEN backup[m] ELSE backup[n]
  BY <1>0, <1>1 DEF WorldOK
<1>3. TablesHold'
  BY <1>0, <1>1, <1>2 DEF RInv, RebuildInv, TablesHold
<1>4. Placed(c) => server'[m] = "active" /\ ~hb'[s] /\ server'[s] = ""
  BY <1>0, <1>1 DEF Placed, Stopped, Broken, Active, engine, s, m
<1>5. Backed(c) /\ cli'[c].at = "restore" /\ cli'[c].slave = s => Backed(c)'
  BY <1>0, <1>1 DEF Backed, s
<1>6. Within(c) /\ (\A n \in DBNodes : server'[n] = "active" => n = m) => backup'[s].rows \subseteq db'[m].rows
  BY <1>0, <1>1, <1>2 DEF Within, OnlyMaster, Active, engine, m
<1>7. QED
  BY <1>0, <1>1, <1>3, <1>4, <1>5, <1>6, RebuildingStill DEF Stopped, Broken, s, m

LEMMA RestoreStill == ASSUME RInv, NEW c \in Clients, Restore(c) PROVE RebuildInv'
<1> DEFINE s == cli[c].slave
           m == cli[c].master
<1>0. /\ cli[c].at = "restore" /\ cli[c].at \in Paired /\ s \in DBNodes /\ m \in DBNodes /\ m # s /\ WorldOK /\ Busy(c)
      /\ TheSlave(c) = s /\ TheMaster(c) = m
  BY PairFacts, ClientOf DEF Restore, At, Paired
<1> HIDE DEF s, m
<1>1. Quiet /\ backup' = backup /\ hb' = hb /\ server' = server
  BY DEF Restore
<1>2. \/ Returns(c) /\ (db' = db \/ db' = [db EXCEPT ![s].state = "torn"])
      \/ /\ Goes(c, "relog") /\ cut' = cut /\ db' = [db EXCEPT ![s] = backup[s]]
         /\ queue' = [queue EXCEPT ![s] = db[m].rows \ backup[s].rows]
  BY <1>0 DEF Restore, Returns, Outcomes
<1>3. CASE Returns(c) /\ (db' = db \/ db' = [db EXCEPT ![s].state = "torn"])
  <2>1. db \in [DBNodes -> Database]
    BY <1>0 DEF WorldOK
  <2>2. \A n \in DBNodes : db'[n].rows = db[n].rows /\ db'[n].tables = db[n].tables
    BY <1>0, <1>3, <2>1 DEF Database
  <2>3. TablesHold'
    BY <1>1, <2>2 DEF RInv, RebuildInv, TablesHold
  <2>4. QED
    BY <1>0, <1>1, <1>3, <2>3, QuietStill, ReturnStill
<1>4. CASE /\ Goes(c, "relog") /\ cut' = cut /\ db' = [db EXCEPT ![s] = backup[s]]
           /\ queue' = [queue EXCEPT ![s] = db[m].rows \ backup[s].rows]
  <2>1. /\ \A n \in DBNodes : db'[n] = IF n = s THEN backup[s] ELSE db[n]
        /\ queue'[s] = db[m].rows \ backup[s].rows
    BY <1>0, <1>4 DEF WorldOK
  <2>2. TablesHold'
    BY <1>0, <1>1, <2>1 DEF RInv, RebuildInv, TablesHold
  <2>3. Placed(c) => ~hb'[s] /\ server'[s] = ""
    BY <1>0, <1>1 DEF Placed, Stopped, Broken, s
  <2>4. cli'[c].at = "relog" => Backed(c)'
    BY DEF Backed
  <2>5. Within(c) /\ (\A n \in DBNodes : server'[n] = "active" => n = m) => db'[s].rows \cup queue'[s] \subseteq db'[m].rows
    BY <1>0, <1>1, <2>1 DEF Within, OnlyMaster, Active, s, m
  <2>6. QED
    BY <1>0, <1>1, <1>4, <2>2, <2>3, <2>4, <2>5, RebuildingStill DEF Stopped, Broken, s, m
<1>5. QED
  BY <1>2, <1>3, <1>4

LEMMA RelogStill == ASSUME RInv, NEW c \in Clients, Relog(c) PROVE RebuildInv'
<1>0. cli[c] \in ClientState /\ cli[c].at = "relog" /\ Busy(c) /\ Quiet /\ UNCHANGED files /\ hb' = hb /\ server' = server /\ queue' = queue
  BY ClientOf DEF Relog, At, Busy
<1> DEFINE next == [cli[c] EXCEPT !.at = "start", !.then = IF cli[c].verb = "resync" THEN "back" ELSE "rejoined"]
<1>1. Returns(c) \/ (Becomes(c, next) /\ cut' = cut)
  BY DEF Relog, Returns, Outcomes
<1>2. next.at = "start" /\ next.then = (IF cli[c].verb = "resync" THEN "back" ELSE "rejoined") /\ next.verb = cli[c].verb
      /\ next.slave = cli[c].slave /\ next.master = cli[c].master
  BY <1>0 DEF ClientState
<1> HIDE DEF next
<1>3. CASE Returns(c)
  BY <1>0, <1>3, SameTables, QuietStill, ReturnStill
<1>4. CASE Becomes(c, next) /\ cut' = cut
  <2>1. cli'[c] = next /\ Moves(c)
    BY <1>2, <1>4, ClientOf, BecomesMoves DEF Moves
  <2>2. Tied(c)' /\ Tallied(c)' /\ Backed(c)'
    BY <1>2, <2>1 DEF Tied, Tallied, Backed
  <2>3. Placed(c) => Placed(c)'
    BY <1>0, <1>2, <2>1 DEF Placed, Mending, Comparisons, Stopped, Broken
  <2>4. Within(c) => Within(c)'
    BY <1>0, <1>2, <2>1 DEF Within, Mended, Mending, Comparisons, OnlyMaster, Active, files
  <2>5. QED
    BY <1>0, <2>1, <2>2, <2>3, <2>4, SameTables, QuietStill, MovesStill
<1>5. QED
  BY <1>1, <1>3, <1>4

LEMMA StartStill == ASSUME RInv, NEW c \in Clients, Start(c) PROVE RebuildInv'
<1> DEFINE s == cli[c].slave
<1>0. /\ cli[c] \in ClientState /\ cli[c].at = "start" /\ Busy(c) /\ Quiet /\ UNCHANGED files /\ queue' = queue /\ WorldOK
  BY ClientOf DEF Start, At, Busy
<1> DEFINE next == Waiting(cli[c], cli[c].then)
<1>1. Returns(c) \/ (Becomes(c, next) /\ cut' = cut /\ server' = [server EXCEPT ![s] = ""])
  BY DEF Start, Returns, Outcomes, TheSlave
<1>2. next.at = "read" /\ next.then = cli[c].then /\ next.verb = cli[c].verb
      /\ next.slave = cli[c].slave /\ next.master = cli[c].master /\ next.seen = Fresh.seen
  BY <1>0, ReadingFields
<1> HIDE DEF next
<1>3. CASE Returns(c)
  BY <1>0, <1>3, SameTables, QuietStill, ReturnStill
<1>4. CASE Becomes(c, next) /\ cut' = cut /\ server' = [server EXCEPT ![s] = ""]
  <2>1. cli'[c] = next /\ Moves(c)
    BY <1>2, <1>4, ClientOf, BecomesMoves DEF Moves
  <2>2. Tied(c) => Tied(c)'
    BY <1>0, <1>2, <2>1 DEF Tied
  <2>3. Tallied(c)' /\ Backed(c)'
    BY <1>2, <2>1 DEF Tallied, Backed
  <2>4. Placed(c)'
    <3>1. \A n \in DBNodes : cli'[c].seen[n].server = ""
      <4>1. \A n \in DBNodes : Fresh.seen[n].server = ""
        BY DEF Fresh
      <4>2. QED
        BY <1>2, <2>1, <4>1
    <3>2. QED
      BY <1>2, <2>1, <3>1 DEF Placed, Mending, Comparisons, Stopped, Broken, seen
  <2>5. Tied(c) /\ Placed(c) /\ Within(c) => Within(c)'
    <3>1. CASE cli[c].then = "back"
      <4>1. Mending(c)
        BY <1>0, <3>1 DEF Mending
      <4>2. Placed(c) => server[s] = ""
        BY <4>1 DEF Placed
      <4>3. Placed(c) => server' = server
        BY <1>0, <1>4, <4>2 DEF WorldOK
      <4>4. QED
        BY <1>0, <1>2, <2>1, <4>1, <4>3 DEF Within, Mended, OnlyMaster, Active, files
    <3>2. CASE cli[c].then # "back"
      BY <1>0, <1>2, <2>1, <3>2 DEF Tied, Within, Mended, Mending, Comparisons
    <3>3. QED
      BY <3>1, <3>2
  <2>6. QED
    BY <1>0, <2>1, <2>2, <2>3, <2>4, <2>5, SameTables, QuietStill, MovesStill
<1>5. QED
  BY <1>1, <1>3, <1>4

LEMMA UpStill == ASSUME RInv, NEW c \in Clients, CreateDB(c) \/ Seed(c) \/ StartGroup(c) PROVE RebuildInv'
<1>a. Busy(c) /\ Quiet /\ backup' = backup
  BY DEF CreateDB, Seed, StartGroup, At, Busy, files
<1>b. Created \in DBNodes
  BY ResyncAssumption DEF Created, DBNodes
<1>0. Busy(c) /\ Quiet /\ backup' = backup /\ Created \in DBNodes /\ WorldOK
  BY <1>a, <1>b DEF RInv, TypeInv
<1>1. ASSUME TablesHold', NEW phase \in {"seed", "group"}, Goes(c, phase), cut' = cut
      PROVE  RebuildInv'
  <2>1. Moves(c) /\ cli'[c].at = phase
    BY <1>1, ClientOf, GoesMoves DEF Phases
  <2>2. Tied(c)' /\ Tallied(c)' /\ Placed(c)' /\ Backed(c)' /\ Within(c)'
    BY <2>1 DEF Tied, Tallied, Placed, Backed, Within, Mended, Mending, Comparisons, Stopped, Broken
  <2>3. QED
    BY <1>0, <1>1, <2>1, <2>2, QuietStill, MovesStill
<1>2. CASE CreateDB(c)
  <2>1. \/ Returns(c) /\ db' = db
        \/ Goes(c, "seed") /\ cut' = cut /\ (db' = db \/ db' = [db EXCEPT ![Created] = [Nothing EXCEPT !.state = "fresh"]])
    BY <1>2 DEF CreateDB, Returns, Outcomes
  <2> DEFINE fresh == [Nothing EXCEPT !.state = "fresh"]
  <2>2. fresh.rows = {} /\ fresh.tables = {}
    BY DEF Nothing
  <2> HIDE DEF fresh
  <2>3. \A n \in DBNodes : db'[n] = db[n] \/ db'[n] = fresh
    BY <1>0, <2>1 DEF WorldOK, fresh
  <2>4. TablesHold'
    BY <1>0, <2>2, <2>3 DEF RInv, RebuildInv, TablesHold
  <2>5. QED
    BY <1>0, <1>1, <2>1, <2>4, QuietStill, ReturnStill
<1>3. CASE Seed(c)
  <2>1. Goes(c, "group") /\ cut' = cut /\ \A n \in DBNodes : db'[n] = db[n] \/ db'[n] = Copied
    BY <1>3 DEF Seed
  <2>2. db[Created] \in Database
    BY <1>0 DEF WorldOK
  <2>3. Copied.rows = db[Created].rows /\ Copied.tables = db[Created].tables
    BY <2>2 DEF Copied, Database
  <2>4. TablesHold'
    BY <1>0, <2>1, <2>3 DEF RInv, RebuildInv, TablesHold
  <2>5. QED
    BY <1>1, <2>1, <2>4
<1>4. CASE StartGroup(c)
  <2>1. Returns(c) /\ UNCHANGED files
    BY <1>4 DEF StartGroup, Returns, Outcomes
  <2>2. QED
    BY <1>0, <2>1, SameTables, QuietStill, ReturnStill
<1>5. QED
  BY <1>2, <1>3, <1>4

-----------------------------------------------------------------------------
(* The engine.                                                             *)

LEMMA EngineStill ==
  ASSUME RInv, cli' = cli, SameAlone, TablesHold', Still' => Still,
         \A c \in Clients : Alone /\ Tied(c) /\ Tallied(c) => Tallied(c)',
         \A c \in Clients : Still' /\ Placed(c) /\ Backed(c) /\ Within(c) => Placed(c)' /\ Backed(c)' /\ Within(c)'
  PROVE  RebuildInv'
<1>1. \A c \in Clients : (Busy(c)' <=> Busy(c)) /\ (Tied(c)' <=> Tied(c))
  BY DEF Busy, At, Tied
<1>2. QED
  BY <1>1 DEF RInv, RebuildInv, SameAlone

(* Rows that move while somebody counts leave a mark.                      *)
LEMMA Disturbed ==
  ASSUME cli' = cli, Disturbs
  PROVE  /\ SameAlone /\ (Still' <=> Still)
         /\ \A c \in Clients : Tallied(c)'
<1>1. mishaps' = mishaps \/ mishaps' = mishaps \cup {"unsettled"}
  BY DEF Disturbs
<1>2. \A c \in Clients : cli[c].at \in {"master", "slave"} => "unsettled" \in mishaps'
  BY DEF Disturbs, Comparison
<1>3. QED
  BY <1>1, <1>2 DEF SameAlone, Still, Alone, Tallied

LEMMA DownSlave ==
  ASSUME RInv, NEW c \in Clients, cli[c].at \in Stopped \/ Mending(c)
  PROVE  cli[c].slave \in DBNodes /\ cli[c].master \in DBNodes /\ cli[c].master # cli[c].slave
<1>1. cli[c].at \in Paired \/ (cli[c].at = "start" /\ cli[c].then = "back")
  BY DEF Stopped, Broken, Mending, Paired
<1>2. QED
  BY <1>1, ClientOf DEF GoodClient, Led, PairOf

LEMMA MendedPair ==
  ASSUME RInv, NEW c \in Clients, Mended(c)
  PROVE  cli[c].slave \in DBNodes /\ cli[c].master \in DBNodes /\ cli[c].master # cli[c].slave
<1>1. cli[c].at \in Paired \/ (cli[c].at \in {"start", "read"} /\ cli[c].then \in {"back", "drain"})
  BY DEF Mended, Mending, Comparisons, Paired
<1>2. QED
  BY <1>1, ClientOf DEF GoodClient, Led, PairOf

LEMMA WriteStill == ASSUME RInv, NEW n \in DBNodes, Write(n) PROVE RebuildInv'
<1>0. WorldOK /\ cli' = cli /\ backup' = backup /\ server' = server /\ hb' = hb /\ Disturbs /\ Active(n)
  BY DEF RInv, TypeInv, Write, Active
<1>1. PICK w \in Writes \ db[n].rows :
        /\ w[1] \in db[n].tables /\ db' = [db EXCEPT ![n].rows = @ \cup {w}]
        /\ queue' = [m \in DBNodes |-> IF m # n /\ server[m] # "active" THEN queue[m] \cup {w} ELSE queue[m]]
  BY DEF Write
<1>2. \A m \in DBNodes : /\ db'[m].state = db[m].state /\ db'[m].tables = db[m].tables
                         /\ db'[m].rows = IF m = n THEN db[m].rows \cup {w} ELSE db[m].rows
  <2>1. db \in [DBNodes -> Database]
    BY <1>0 DEF WorldOK
  <2>2. QED
    BY <1>1, <2>1 DEF Database
<1>3. \A m \in DBNodes : queue'[m] = IF m # n /\ server[m] # "active" THEN queue[m] \cup {w} ELSE queue[m]
  BY <1>1
<1>4. TablesHold'
  BY <1>0, <1>1, <1>2 DEF RInv, RebuildInv, TablesHold
<1>5. ASSUME NEW c \in Clients, Placed(c), Backed(c), Within(c)
      PROVE  Placed(c)' /\ Backed(c)' /\ Within(c)'
  <2> DEFINE s == cli[c].slave
             m == cli[c].master
  <2>1. Placed(c)'
    BY <1>0, <1>5 DEF Placed, Mending, Active, seen
  <2>2. cli[c].at \in Stopped => s \in DBNodes /\ m \in DBNodes /\ m # s /\ server[s] = "" /\ s # n
    BY <1>0, <1>5, DownSlave DEF Placed, Active
  <2>3. Backed(c)'
    <3>1. CASE cli[c].at \in Stopped
      <4>1. /\ s \in DBNodes /\ m \in DBNodes /\ s # n
            /\ server[s] = "" /\ m # s
        BY <2>2, <3>1
      <4>2. db'[s].state = db[s].state /\ db'[m].state = db[m].state /\ db'[s].rows = db[s].rows
        BY <1>2, <4>1
      <4>3. queue'[s] = queue[s] \cup {w}
        BY <1>3, <4>1
      <4>4. db'[m].rows \subseteq db[m].rows \cup {w}
        BY <1>2, <4>1
      <4> HIDE DEF s, m
      <4>5. db[s].rows \cap db[m].rows \subseteq backup[m].rows \cup queue[s] =>
              db'[s].rows \cap db'[m].rows \subseteq backup[m].rows \cup queue'[s]
        BY <4>2, <4>3, <4>4
      <4>6. QED
        BY <1>0, <1>5, <4>2, <4>5 DEF Backed, s, m
    <3>2. CASE cli[c].at \notin Stopped
      BY <1>0, <3>2 DEF Backed, Stopped, Broken
    <3>3. QED
      BY <3>1, <3>2
  <2>4. OnlyMaster(m)' => OnlyMaster(m) /\ n = m
    BY <1>0 DEF OnlyMaster, Active
  <2>5. Mended(c)' => Mended(c) /\ s \in DBNodes /\ m # s
    BY <1>0, MendedPair DEF Mended, Mending
  <2>6. Within(c)'
    <3> SUFFICES ASSUME OnlyMaster(m)' PROVE Within(c)'
      BY <1>0 DEF Within
    <3>1. OnlyMaster(m) /\ n = m /\ db'[m].rows = db[m].rows \cup {w}
      BY <1>2, <2>4
    <3>2. Mended(c)' => db'[s].rows = db[s].rows /\ queue'[s] \subseteq queue[s] \cup {w}
      BY <1>2, <1>3, <2>5, <3>1
    <3>3. QED
      BY <1>0, <1>5, <2>5, <3>1, <3>2 DEF Within
  <2>7. QED
    BY <2>1, <2>3, <2>6
<1>6. QED
  BY <1>0, <1>4, <1>5, Disturbed, EngineStill

LEMMA ApplyStill == ASSUME RInv, NEW n \in DBNodes, Apply(n) PROVE RebuildInv'
<1>0. WorldOK /\ cli' = cli /\ backup' = backup /\ server' = server /\ hb' = hb /\ Disturbs /\ server[n] = "standby"
  BY DEF RInv, TypeInv, Apply
<1>1. PICK w \in queue[n] :
        w[1] \in db[n].tables /\ db' = [db EXCEPT ![n].rows = @ \cup {w}] /\ queue' = [queue EXCEPT ![n] = @ \ {w}]
  BY DEF Apply
<1>2. \A m \in DBNodes : /\ db'[m].state = db[m].state /\ db'[m].tables = db[m].tables
                         /\ db'[m].rows = IF m = n THEN db[m].rows \cup {w} ELSE db[m].rows
  <2>1. db \in [DBNodes -> Database]
    BY <1>0 DEF WorldOK
  <2>2. QED
    BY <1>1, <2>1 DEF Database
<1>3. \A m \in DBNodes : queue'[m] = IF m = n THEN queue[m] \ {w} ELSE queue[m]
  BY <1>0, <1>1 DEF WorldOK
<1>4. TablesHold'
  BY <1>0, <1>1, <1>2 DEF RInv, RebuildInv, TablesHold
<1>5. ASSUME NEW c \in Clients, Placed(c), Backed(c), Within(c)
      PROVE  Placed(c)' /\ Backed(c)' /\ Within(c)'
  <2> DEFINE s == cli[c].slave
             m == cli[c].master
  <2>1. Placed(c)'
    BY <1>0, <1>5 DEF Placed, Mending, Active, seen
  <2>2. cli[c].at \in Stopped => /\ s \in DBNodes /\ m \in DBNodes /\ m # s /\ s # n
                                 /\ (cli[c].at = "remove" => m # n)
    BY <1>0, <1>5, DownSlave DEF Placed, Active, Stopped
  <2>3. Backed(c)'
    BY <1>0, <1>2, <1>3, <1>5, <2>2 DEF Backed, Stopped, Broken
  <2>4. OnlyMaster(m)' => OnlyMaster(m)
    BY <1>0 DEF OnlyMaster, Active
  <2>5. Mended(c)' => Mended(c) /\ s \in DBNodes /\ m \in DBNodes
    BY <1>0, MendedPair DEF Mended, Mending
  <2>6. Within(c)'
    <3> SUFFICES ASSUME OnlyMaster(m)' PROVE Within(c)'
      BY <1>0 DEF Within
    <3>1. OnlyMaster(m) /\ (m \in DBNodes => db[m].rows \subseteq db'[m].rows)
      BY <1>2, <2>4
    <3>2. Mended(c)' => db'[s].rows \cup queue'[s] \subseteq db[s].rows \cup queue[s]
      BY <1>1, <1>2, <1>3, <2>5
    <3>3. cli[c].at \in {"remove", "unlink", "fetch", "restore"} => m \in DBNodes
      BY <2>2 DEF Stopped, Broken
    <3>4. QED
      BY <1>0, <1>5, <2>5, <3>1, <3>2, <3>3 DEF Within
  <2>7. QED
    BY <2>1, <2>3, <2>6
<1>6. QED
  BY <1>0, <1>4, <1>5, Disturbed, EngineStill

LEMMA MisapplyStill == ASSUME RInv, NEW n \in DBNodes, Misapply(n) PROVE RebuildInv'
<1>0. WorldOK /\ cli' = cli /\ UNCHANGED files /\ server' = server /\ hb' = hb /\ Disturbs /\ server[n] = "standby"
  BY DEF RInv, TypeInv, Misapply
<1>1. \E w \in queue[n] : queue' = [queue EXCEPT ![n] = @ \ {w}]
  BY DEF Misapply
<1>2. \A m \in DBNodes : queue'[m] \subseteq queue[m] /\ (m # n => queue'[m] = queue[m])
  BY <1>0, <1>1 DEF WorldOK
<1>3. ASSUME NEW c \in Clients, Placed(c), Backed(c), Within(c)
      PROVE  Placed(c)' /\ Backed(c)' /\ Within(c)'
  <2> DEFINE s == cli[c].slave
  <2>1. Placed(c)'
    BY <1>0, <1>3 DEF Placed, Mending, Active, seen
  <2>2. cli[c].at \in Stopped => s \in DBNodes /\ s # n
    BY <1>0, <1>3, DownSlave DEF Placed
  <2>3. Backed(c)'
    BY <1>0, <1>2, <1>3, <2>2 DEF Backed, Stopped, Broken, files
  <2>4. Mended(c)' => Mended(c) /\ s \in DBNodes
    BY <1>0, MendedPair DEF Mended, Mending
  <2>5. Within(c)'
    BY <1>0, <1>2, <1>3, <2>4 DEF Within, files, OnlyMaster, Active
  <2>6. QED
    BY <2>1, <2>3, <2>5
<1>4. QED
  BY <1>0, <1>3, SameTables, Disturbed, EngineStill

(* The steps that move no rows.                                            *)
LEMMA HeartbeatStill ==
  ASSUME RInv, NEW n \in DBNodes, Join(n) \/ Complain(n) \/ Fall(n) \/ Elect(n)
  PROVE  RebuildInv'
<1>0. WorldOK /\ cli' = cli /\ UNCHANGED files /\ hb' = hb
  BY DEF RInv, TypeInv, Join, Complain, Fall, Elect
<1>1. mishaps' = mishaps \/ mishaps' = mishaps \cup {"moved"}
  BY DEF Join, Complain, Fall, Elect, Event
<1>2. SameAlone /\ (Still' => Still)
  BY <1>1 DEF SameAlone, Still, Alone
<1>3. \A c \in Clients : Tallied(c) => Tallied(c)'
  <2>1. \A c, t, m : Counted(c)' = Counted(c) /\ Count(m, t)' = Count(m, t)
    BY <1>0 DEF Counted, Count, files
  <2>2. db' = db
    BY <1>0 DEF files
  <2>3. QED
    BY <1>0, <1>1, <2>1, <2>2 DEF Tallied, Agrees
<1>4. ASSUME NEW c \in Clients, Still', Placed(c), Backed(c), Within(c)
      PROVE  Placed(c)' /\ Backed(c)' /\ Within(c)'
  <2> DEFINE s == cli[c].slave
  <2>1. Join(n) \/ Complain(n)
    BY <1>4 DEF Still, Fall, Elect, Event
  <2>2. queue' = queue /\ \A m \in DBNodes : server'[m] = server[m] \/ (hb[m] /\ server[m] = "" /\ server'[m] = "standby")
    BY <1>0, <2>1 DEF Join, Joins, Complain, WorldOK
  <2>3. \A m \in DBNodes : Active(m)' <=> Active(m)
    BY <2>2 DEF Active
  <2>4. cli[c].at \in Stopped \/ Mending(c) => s \in DBNodes /\ cli[c].master \in DBNodes
    BY DownSlave
  <2>5. (cli[c].at \in Comparisons /\ cli[c].judge = "choose") \/ cli[c].at \in {"stop"} \cup Stopped => cli[c].master \in DBNodes
    <3>1. cli[c].at \in Comparisons \cup {"stop"} \cup Stopped => cli[c].at \in Paired
      BY DEF Comparisons, Stopped, Broken, Paired
    <3>2. QED
      BY <3>1, PairFacts
  <2>6. Placed(c)'
    BY <1>0, <1>4, <2>2, <2>3, <2>4, <2>5 DEF Placed, Mending, seen
  <2>7. Backed(c)'
    BY <1>0, <1>4, <2>2 DEF Backed, files
  <2>8. Within(c)'
    BY <1>0, <1>4, <2>2, <2>3 DEF Within, Mended, Mending, files, OnlyMaster
  <2>9. QED
    BY <2>6, <2>7, <2>8
<1>5. QED
  BY <1>0, <1>2, <1>3, <1>4, SameTables, EngineStill

LEMMA InitStill == Init => RebuildInv
<1> SUFFICES ASSUME Init PROVE RebuildInv
  OBVIOUS
<1>1. \A c \in Clients : ~Busy(c)
  BY DEF Init, Busy, At, Fresh
<1>2. TablesHold
  <2>1. db \in [DBNodes -> {d \in Database : \A w \in d.rows : w[1] \in d.tables}]
    BY ZenonT(60) DEF Init
  <2>2. \A n \in DBNodes : backup[n] = Nothing
    BY DEF Init
  <2>3. QED
    BY <2>1, <2>2 DEF TablesHold, Nothing
<1>3. QED
  BY <1>1, <1>2 DEF RebuildInv

LEMMA RebuildStep == RInv /\ [Next]_vars => RInv'
<1> SUFFICES ASSUME RInv, [Next]_vars PROVE RebuildInv'
  BY TypeStep, WholeStep DEF RInv
<1>1. ASSUME NEW c \in Clients, Begin(c) \/ Step(c) \/ Late(c) \/ Expire(c) \/ Kill(c) PROVE RebuildInv'
  <2>1. CASE Begin(c) \/ ReadNode(c) \/ Choose(c) \/ List(c) \/ CountMaster(c) \/ CountSlave(c)
    BY <2>1, BeganStill, ReadNodeStill, ChooseStill, ListStill, CountMasterStill, CountSlaveStill
  <2>2. CASE Rebuilds(c)
    BY <2>2, StopStill, PrepareStill, BackupStill, RemoveStill, UnlinkStill, FetchStill, RestoreStill,
       RelogStill, StartStill, WaitsStill DEF Rebuilds
  <2>3. CASE Resolved(c) \/ Joined(c) \/ Rejoined(c) \/ CreateDB(c) \/ Seed(c) \/ StartGroup(c)
    BY <2>3, WaitsStill, UpStill
  <2>4. CASE Late(c) \/ Expire(c) \/ Kill(c)
    BY <2>4, TimeStill
  <2>5. QED
    BY <1>1, <2>1, <2>2, <2>3, <2>4 DEF Step
<1>2. ASSUME NEW n \in DBNodes,
             Write(n) \/ Apply(n) \/ Misapply(n) \/ Join(n) \/ Complain(n) \/ Fall(n) \/ Elect(n)
      PROVE  RebuildInv'
  BY <1>2, WriteStill, ApplyStill, MisapplyStill, HeartbeatStill
<1>3. CASE UNCHANGED vars
  <2>1. UNCHANGED <<files, engine, cli, mishaps>>
    BY <1>3 DEF vars
  <2>2. SameAlone /\ (Still' => Still) /\ TablesHold'
    BY <2>1, SameTables DEF SameAlone, Still, Alone
  <2>3. \A c \in Clients : (Tallied(c) => Tallied(c)')
    <3>1. \A c, t, m : Counted(c)' = Counted(c) /\ Count(m, t)' = Count(m, t)
      BY <2>1 DEF Counted, Count, files
    <3>2. db' = db
      BY <2>1 DEF files
    <3>3. QED
      BY <2>1, <3>1, <3>2 DEF Tallied, Agrees
  <2>4. \A c \in Clients : Placed(c) => Placed(c)'
    BY <2>1 DEF Placed, Mending, engine, Active, seen
  <2>5. \A c \in Clients : Backed(c) => Backed(c)'
    BY <2>1 DEF Backed, files, engine
  <2>6. \A c \in Clients : Within(c) => Within(c)'
    BY <2>1 DEF Within, Mended, Mending, files, engine, OnlyMaster, Active
  <2>7. QED
    BY <2>1, <2>2, <2>3, <2>4, <2>5, <2>6, EngineStill
<1>4. QED
  BY <1>1, <1>2, <1>3 DEF Next
-----------------------------------------------------------------------------
(* A database is taken away only by the removal: what Unlink and Restore   *)
(* find is taken away already, and up creates and seeds only what is gone. *)

LEMMA TakenAway ==
  ASSUME RInv, Still, [Next]_vars, NEW n \in DBNodes, db[n].state = "whole", db'[n].state # "whole"
  PROVE  \E c \in Clients : cli[c].at = "remove" /\ cli[c].slave = n
<1>0. db \in [DBNodes -> Database]
  BY DEF RInv, TypeInv, WorldOK
<1>1. ASSUME NEW c \in Clients, Begin(c) \/ Step(c) \/ Late(c) \/ Expire(c) \/ Kill(c)
      PROVE  cli[c].at = "remove" /\ cli[c].slave = n
  <2>1. CASE Begin(c) \/ ReadNode(c) \/ Choose(c) \/ List(c) \/ CountMaster(c) \/ CountSlave(c)
             \/ Late(c) \/ Expire(c) \/ Kill(c)
    BY <2>1 DEF Begin, ReadNode, Choose, List, CountMaster, CountSlave, Late, Expire, Kill, files
  <2>2. CASE Stop(c) \/ Prepare(c) \/ Backup(c) \/ Fetch(c) \/ Relog(c) \/ Start(c)
             \/ Back(c) \/ Drain(c) \/ Resolved(c) \/ Joined(c) \/ Rejoined(c) \/ StartGroup(c)
    BY <2>2 DEF Stop, Prepare, Backup, Fetch, Relog, Start, Back, Drain, Resolved, Joined, Rejoined, StartGroup, files
  <2>3. CASE Remove(c)
    BY <1>0, <2>3 DEF Remove, At, TheSlave
  <2>4. CASE Unlink(c)
    <3>1. db[cli[c].slave].state # "whole"
      BY <2>4 DEF RInv, RebuildInv, Busy, At, Backed, Unlink
    <3>2. QED
      BY <1>0, <2>4, <3>1 DEF Unlink, TheSlave
  <2>5. CASE Restore(c)
    <3>1. db[cli[c].slave].state = "gone"
      BY <2>5 DEF RInv, RebuildInv, Busy, At, Backed, Restore
    <3>2. \A m \in DBNodes : m # cli[c].slave => db'[m] = db[m]
      BY <1>0, <2>5 DEF Restore, TheSlave
    <3>3. QED
      BY <3>1, <3>2
  <2>6. CASE CreateDB(c)
    BY <1>0, <2>6 DEF CreateDB, HasLgat
  <2>7. CASE Seed(c)
    BY <1>0, <2>7 DEF Seed, Seeded, HasLgat
  <2>8. QED
    BY <1>1, <2>1, <2>2, <2>3, <2>4, <2>5, <2>6, <2>7 DEF Step, Rebuilds
<1>2. ASSUME NEW m \in DBNodes, Write(m) \/ Apply(m)
      PROVE  FALSE
  BY <1>0, <1>2 DEF Write, Apply, Database
<1>3. ASSUME NEW m \in DBNodes, Misapply(m) \/ Join(m) \/ Complain(m) \/ Fall(m) \/ Elect(m)
      PROVE  FALSE
  BY <1>3 DEF Misapply, Join, Complain, Fall, Elect, files
<1>4. CASE UNCHANGED vars
  BY <1>4 DEF vars, files
<1>5. QED
  BY <1>1, <1>2, <1>3, <1>4 DEF Next

LEMMA RInvAlways == Spec => []RInv
<1>1. Init => RInv
  BY InitTypes, InitWhole, InitStill DEF RInv
<1>2. QED
  BY <1>1, RebuildStep, PTL DEF Spec

(* A rebuild takes a slave's database away only when the backup of its     *)
(* master is complete, and has every row that the two had in common or     *)
(* that replication still is to bring to the slave (rebuild.go:44-72).     *)
THEOREM BackupFirst == Spec => KeepsUntilBackup
<1> DEFINE Kept ==
      Alone /\ "moved" \notin mishaps => \A n \in DBNodes : db[n].state = "whole" /\ db'[n].state # "whole" =>
        \E c \in Clients : LET b == backup[cli[c].master] IN
          cli[c].slave = n /\ (db[cli[c].master].state = "whole" => b.state = "whole") /\ db[n].rows \cap db[cli[c].master].rows \subseteq b.rows \cup queue[n]
<1>1. RInv /\ [Next]_vars => Kept
  <2> SUFFICES ASSUME RInv, [Next]_vars, Still, NEW n \in DBNodes, db[n].state = "whole", db'[n].state # "whole"
               PROVE  \E c \in Clients : LET b == backup[cli[c].master] IN
                        /\ cli[c].slave = n /\ (db[cli[c].master].state = "whole" => b.state = "whole")
                        /\ db[n].rows \cap db[cli[c].master].rows \subseteq b.rows \cup queue[n]
    BY DEF Still
  <2>1. PICK c \in Clients : cli[c].at = "remove" /\ cli[c].slave = n
    BY TakenAway
  <2>2. Backed(c)
    BY <2>1 DEF RInv, RebuildInv, Busy, At
  <2>3. QED
    BY <2>1, <2>2 DEF Backed
<1>2. RInv /\ [Next]_vars => [Kept]_vars
  BY <1>1
<1>3. QED
  BY <1>2, RInvAlways, PTL DEF Spec, KeepsUntilBackup

-----------------------------------------------------------------------------
(* A step of a client is its own, and only a comparison says `rebuilt`.    *)

Others(c) == \A d \in Clients \ {c} : cli'[d] = cli[d]
Says(c) == cli'[c].outcome = "rebuilt" => cli[c].outcome = "rebuilt"

LEMMA EndsIdle ==
  ASSUME RInv, NEW c \in Clients, Returns(c)
  PROVE  cli'[c].at = "idle"
<1>1. PICK result \in Outcomes : cli'[c] = [Fresh EXCEPT !.outcome = result]
  BY ClientOf DEF TypeInv, CliOK, Returns, Return, Becomes
<1>2. QED
  BY <1>1 DEF Fresh

LEMMA BecomesSays ==
  ASSUME RInv, NEW c \in Clients, NEW me, Becomes(c, me), me.outcome \in {cli[c].outcome} \/ me.outcome # "rebuilt"
  PROVE  Others(c) /\ Says(c)
BY ClientOf, BecomesMoves DEF Others, Says

LEMMA ReturnSays ==
  ASSUME RInv, NEW c \in Clients, NEW result, Return(c, result)
  PROVE  Others(c) /\ (result # "rebuilt" => Says(c))
<1>1. [Fresh EXCEPT !.outcome = result].outcome = result
  BY DEF Fresh
<1>2. QED
  BY <1>1, ClientOf, BecomesMoves DEF Return, Others, Says

LEMMA OtherEnds ==
  ASSUME RInv, NEW c \in Clients
  PROVE  /\ Return(c, "error") => Others(c) /\ Says(c)
         /\ Return(c, "timeout") => Others(c) /\ Says(c)
         /\ Return(c, "started") => Others(c) /\ Says(c)
         /\ Return(c, "rejoined") => Others(c) /\ Says(c)
         /\ Return(c, "needs_rebuild") => Others(c) /\ Says(c)
         /\ Return(c, "up") => Others(c) /\ Says(c)
         /\ Return(c, "none") => Others(c) /\ Says(c)
<1>1. \A result \in Outcomes : Return(c, result) /\ result # "rebuilt" => Others(c) /\ Says(c)
  BY ReturnSays
<1>2. QED
  BY <1>1 DEF Outcomes

LEMMA SameOutcome ==
  ASSUME NEW me \in ClientState, NEW purpose, NEW judge
  PROVE  /\ Reading(me, purpose).outcome = me.outcome /\ Waiting(me, purpose).outcome = me.outcome
         /\ Comparing(me, judge).outcome = me.outcome
BY DEF Reading, Waiting, Comparing, ClientState

LEMMA TakeSays ==
  ASSUME RInv, NEW c \in Clients, NEW me \in ClientState, me.path # "", me.outcome = cli[c].outcome, Take(c, me)
  PROVE  Others(c) /\ Says(c)
<1>0. me.path \in {"resume", "table", "slave"}
  BY DEF ClientState
<1>1. CASE me.path = "resume"
  BY <1>1, ReturnSays DEF Take
<1>2. CASE me.path = "table"
  <2> DEFINE rows == FailRows(c, me.slave)
             base == Comparing(me, "table")
             place == IF rows = {} THEN "list" ELSE "master"
             next == [base EXCEPT !.todo = rows, !.at = place]
  <2>1. Becomes(c, next)
    BY <1>2 DEF Take
  <2>2. base.outcome = me.outcome
    BY SameOutcome
  <2>3. "outcome" \in DOMAIN base
    BY DEF Comparing, ClientState
  <2> HIDE DEF base, rows, place
  <2>4. next.outcome = cli[c].outcome
    BY <2>2, <2>3
  <2> HIDE DEF next
  <2>5. QED
    BY <2>1, <2>4, BecomesSays
<1>3. CASE me.path = "slave"
  <2>1. Becomes(c, [me EXCEPT !.at = "stop"]) /\ [me EXCEPT !.at = "stop"].outcome = me.outcome
    BY <1>3 DEF Take, ClientState
  <2>2. QED
    BY <2>1, BecomesSays
<1>4. QED
  BY <1>0, <1>1, <1>2, <1>3

LEMMA JudgedSays ==
  ASSUME RInv, NEW c \in Clients, NEW me \in ClientState, me.outcome = cli[c].outcome,
         NEW compared \in BOOLEAN, Judged(c, me, compared)
  PROVE  Others(c) /\ (Says(c) \/ (me.judge = "rebuilt" /\ compared /\ me.differ = {}))
<1>0. me.judge \in {"choose", "table", "rebuilt"}
  BY DEF ClientState
<1>1. CASE me.judge = "choose" /\ me.differ # {}
  <2>1. Take(c, [me EXCEPT !.path = "slave"])
    BY <1>1 DEF Judged
  <2>2. [me EXCEPT !.path = "slave"] \in ClientState /\ [me EXCEPT !.path = "slave"].path = "slave"
        /\ [me EXCEPT !.path = "slave"].outcome = me.outcome
    BY DEF ClientState
  <2>3. QED
    BY <2>1, <2>2, TakeSays
<1>2. CASE me.judge = "choose" /\ me.differ = {}
  BY <1>2, ReturnSays DEF Judged
<1>3. CASE me.judge = "table"
  BY <1>3, ReturnSays DEF Judged
<1>4. CASE me.judge = "rebuilt"
  BY <1>4, ReturnSays DEF Judged
<1>5. QED
  BY <1>0, <1>1, <1>2, <1>3, <1>4

LEMMA ComparedSays ==
  ASSUME RInv, NEW c \in Clients, cli[c].at \in {"master", "slave"},
         NEW differs \in BOOLEAN, Compared(c, Counted(c), differs)
  PROVE  /\ Others(c)
         /\ \/ Says(c)
            \/ cli[c].judge = "rebuilt" /\ cli[c].todo = {Counted(c)} /\ ~differs /\ cli[c].differ = {}
<1> DEFINE t == Counted(c)
           me == [cli[c] EXCEPT !.todo = @ \ {t}, !.rows = 0, !.at = "master",
                                !.differ = IF differs THEN @ \cup {t} ELSE @]
<1>0. cli[c] \in ClientState /\ t \in cli[c].todo
  BY ClientOf, CountedIs
<1>1. t \in Tables
  BY <1>0 DEF ClientState
<1>2. IF me.todo = {} THEN Judged(c, me, TRUE) ELSE Becomes(c, me) /\ cut' = cut
  BY DEF Compared
<1> HIDE DEF t
<1>3. me \in ClientState
  BY <1>0, <1>1, Places, ZenonT(60) DEF ClientState
<1>4. me.todo = cli[c].todo \ {t} /\ me.differ = (IF differs THEN cli[c].differ \cup {t} ELSE cli[c].differ)
      /\ me.judge = cli[c].judge /\ me.outcome = cli[c].outcome
  BY <1>0 DEF ClientState
<1> HIDE DEF me
<1>5. CASE me.todo = {}
  <2>1. Others(c) /\ (Says(c) \/ (me.judge = "rebuilt" /\ me.differ = {}))
    BY <1>2, <1>3, <1>4, <1>5, JudgedSays
  <2>2. QED
    BY <1>0, <1>4, <1>5, <2>1 DEF t
<1>6. CASE me.todo # {}
  BY <1>2, <1>4, <1>6, BecomesSays
<1>7. QED
  BY <1>5, <1>6

Compares(c) == List(c) \/ CountMaster(c) \/ CountSlave(c)

LEMMA ChooseSays == ASSUME RInv, NEW c \in Clients, Choose(c) PROVE Others(c) /\ Says(c)
<1> DEFINE master == LastOf(seen(c, "active"))
           slave == IF TheSlave(c) # Nobody THEN TheSlave(c) ELSE LastOf(seen(c, "standby"))
           fail == cli[c].seen[slave].fail
           me == [cli[c] EXCEPT !.master = master, !.slave = slave, !.seen = Fresh.seen]
<1>0. cli[c] \in ClientState /\ WorldOK
  BY ClientOf
<1>1. IF Nobody \in {master, slave} \/ master = slave THEN Return(c, "error")
      ELSE IF me.path # "" THEN Take(c, me)
      ELSE IF fail = 0 THEN Becomes(c, Comparing(me, "choose")) /\ cut' = cut
      ELSE Take(c, [me EXCEPT !.path = Path(fail, FailRows(c, slave))])
  BY DEF Choose
<1>2. master \in DBNodes \cup {Nobody} /\ slave \in DBNodes \cup {Nobody}
  BY <1>0, LastIsNode DEF seen, TheSlave, ClientState
<1>3. slave \in DBNodes => fail \in Fails
  BY <1>0 DEF ClientState, Reads
<1> HIDE DEF master, slave, fail
<1>4. me \in ClientState /\ me.outcome = cli[c].outcome
  BY <1>0, <1>2, NoneSeen DEF ClientState
<1> HIDE DEF me
<1>5. CASE Nobody \in {master, slave} \/ master = slave
  BY <1>1, <1>5, OtherEnds
<1>6. CASE ~(Nobody \in {master, slave} \/ master = slave) /\ me.path # ""
  BY <1>1, <1>4, <1>6, TakeSays
<1>7. CASE ~(Nobody \in {master, slave} \/ master = slave) /\ me.path = "" /\ fail = 0
  BY <1>1, <1>4, <1>7, SameOutcome, BecomesSays
<1>8. CASE ~(Nobody \in {master, slave} \/ master = slave) /\ me.path = "" /\ fail # 0
  <2> DEFINE path == Path(fail, FailRows(c, slave))
             next == [me EXCEPT !.path = path]
  <2>1. Take(c, next)
    BY <1>1, <1>8
  <2>2. fail = 1 \/ fail = 1000
    <3>1. fail \in Fails
      BY <1>2, <1>3, <1>8
    <3>2. fail # 0
      BY <1>8
    <3>3. QED
      BY <3>1, <3>2 DEF Fails
  <2>3. path \in {"resume", "table", "slave"}
    BY <2>2 DEF Path
  <2> HIDE DEF path
  <2>4. next \in ClientState /\ next.path # "" /\ next.outcome = cli[c].outcome
    BY <1>4, <2>3 DEF ClientState
  <2> HIDE DEF next
  <2>5. QED
    BY <2>1, <2>4, TakeSays
<1>9. QED
  BY <1>5, <1>6, <1>7, <1>8

LEMMA WaitSays ==
  ASSUME RInv, NEW c \in Clients, Back(c) \/ Drain(c) \/ Resolved(c) \/ Joined(c) \/ Rejoined(c)
  PROVE  Others(c) /\ Says(c)
<1>0. cli[c] \in ClientState
  BY ClientOf
<1>1. ASSUME NEW purpose, Looks(c, Waiting(cli[c], purpose)) \/ Looks(c, Reading(cli[c], purpose))
             \/ Looks(c, Comparing(cli[c], purpose))
      PROVE  Others(c) /\ Says(c)
  BY <1>0, <1>1, SameOutcome, BecomesSays DEF Looks
<1>2. CASE Back(c)
  BY <1>1, <1>2, OtherEnds DEF Back
<1>3. CASE Drain(c)
  BY <1>1, <1>3 DEF Drain
<1>4. CASE Resolved(c)
  <2> DEFINE base == Waiting(cli[c], "joined")
             next == [base EXCEPT !.master = LastOf(seen(c, "active"))]
  <2>1. Return(c, "started") \/ Becomes(c, next)
    BY <1>4 DEF Resolved, Looks
  <2>2. base.outcome = cli[c].outcome /\ "outcome" \in DOMAIN base
    BY <1>0, SameOutcome DEF Waiting, Reading, ClientState
  <2> HIDE DEF base
  <2>3. next.outcome = cli[c].outcome
    BY <2>2
  <2> HIDE DEF next
  <2>4. QED
    BY <2>1, <2>3, OtherEnds, BecomesSays
<1>5. CASE Joined(c)
  <2> DEFINE next == [cli[c] EXCEPT !.at = "relog", !.seen = Fresh.seen]
  <2>1. next.outcome = cli[c].outcome
    BY <1>0 DEF ClientState
  <2>2. Looks(c, next) => Others(c) /\ Says(c)
    BY <2>1, BecomesSays DEF Looks
  <2>3. QED
    BY <1>1, <1>5, <2>2, OtherEnds DEF Joined
<1>6. CASE Rejoined(c)
  BY <1>1, <1>6, OtherEnds DEF Rejoined
<1>7. QED
  BY <1>2, <1>3, <1>4, <1>5, <1>6

LEMMA GoesSays ==
  ASSUME RInv, NEW c \in Clients, NEW phase, Goes(c, phase)
  PROVE  Others(c) /\ Says(c)
<1>1. [cli[c] EXCEPT !.at = phase].outcome = cli[c].outcome
  BY ClientOf DEF ClientState
<1>2. QED
  BY <1>1, BecomesSays DEF Goes

LEMMA RebuildSays ==
  ASSUME RInv, NEW c \in Clients,
         Stop(c) \/ Prepare(c) \/ Backup(c) \/ Remove(c) \/ Unlink(c) \/ Fetch(c) \/ Restore(c) \/ Relog(c) \/ Start(c)
         \/ CreateDB(c) \/ Seed(c) \/ StartGroup(c)
  PROVE  Others(c) /\ Says(c)
<1>0. cli[c] \in ClientState
  BY ClientOf
<1>1. CASE Relog(c)
  <2> DEFINE next == [cli[c] EXCEPT !.at = "start", !.then = IF cli[c].verb = "resync" THEN "back" ELSE "rejoined"]
  <2>1. next.outcome = cli[c].outcome
    BY <1>0 DEF ClientState
  <2>2. Return(c, "error") \/ Becomes(c, next)
    BY <1>1 DEF Relog
  <2> HIDE DEF next
  <2>3. QED
    BY <2>1, <2>2, OtherEnds, BecomesSays
<1>2. CASE Start(c)
  BY <1>0, <1>2, OtherEnds, SameOutcome, BecomesSays DEF Start
<1>3. CASE Stop(c) \/ Prepare(c) \/ Backup(c) \/ Remove(c) \/ Unlink(c) \/ Fetch(c) \/ Restore(c)
  BY <1>3, OtherEnds, GoesSays DEF Stop, Prepare, Backup, Remove, Unlink, Fetch, Restore
<1>4. CASE CreateDB(c) \/ Seed(c) \/ StartGroup(c)
  BY <1>4, OtherEnds, GoesSays DEF CreateDB, Seed, StartGroup
<1>5. QED
  BY <1>1, <1>2, <1>3, <1>4

LEMMA ClientSays ==
  ASSUME RInv, NEW c \in Clients, Begin(c) \/ Step(c) \/ Late(c) \/ Expire(c) \/ Kill(c), ~Compares(c)
  PROVE  Others(c) /\ Says(c)
<1>0. cli[c] \in ClientState
  BY ClientOf
<1>1. CASE Begin(c)
  <2> DEFINE read == Reading(Fresh, "choose")
             one(path, target) == [read EXCEPT !.path = path, !.slave = target]
             two(target) == [Fresh EXCEPT !.verb = "start", !.at = "start", !.then = "resolve", !.slave = target]
             three == [Fresh EXCEPT !.verb = "up", !.at = "createdb"]
  <2>1. Fresh \in ClientState /\ Fresh.outcome = "none"
    BY FreshGood DEF Outcomes, Fresh
  <2>2. read.outcome = "none" /\ "outcome" \in DOMAIN read
    BY <2>1, SameOutcome DEF Reading, ClientState
  <2>3. two(Nobody).outcome = "none" /\ \A target : two(target).outcome = "none"
    BY <2>1 DEF ClientState
  <2>4. three.outcome = "none"
    BY <2>1 DEF ClientState
  <2>5. \/ \E path, target : Becomes(c, one(path, target))
        \/ \E target : Becomes(c, two(target))
        \/ Becomes(c, three)
    BY <1>1 DEF Begin
  <2> HIDE DEF read
  <2>6. \A path, target : one(path, target).outcome = "none"
    BY <2>2
  <2> HIDE DEF one, two, three
  <2>7. QED
    BY <2>3, <2>4, <2>5, <2>6, BecomesSays
<1>2. CASE ReadNode(c)
  <2> DEFINE n == cli[c].slot
             what == IF Expired(c) \/ server[n] = "" THEN Fresh.seen[n]
                     ELSE [server |-> server[n], fail |-> failed[n], behind |-> queue[n] # {}]
             next == [cli[c] EXCEPT !.slot = @ + 1, !.seen[n] = what]
  <2>1. Becomes(c, next)
    BY <1>2 DEF ReadNode
  <2> HIDE DEF what
  <2>2. next.outcome = cli[c].outcome
    BY <1>0 DEF ClientState
  <2> HIDE DEF next
  <2>3. QED
    BY <2>1, <2>2, BecomesSays
<1>3. CASE Late(c) \/ Expire(c)
  <2>1. [cli[c] EXCEPT !.late = TRUE].outcome = cli[c].outcome /\ [cli[c] EXCEPT !.expired = TRUE].outcome = cli[c].outcome
    BY <1>0 DEF ClientState
  <2>2. QED
    BY <1>3, <2>1, BecomesSays DEF Late, Expire
<1>4. CASE Kill(c)
  BY <1>4, OtherEnds DEF Kill
<1>5. QED
  BY <1>1, <1>2, <1>3, <1>4, ChooseSays, WaitSays, RebuildSays DEF Step, Rebuilds, Compares

-----------------------------------------------------------------------------
(* What a comparison says, and when it says `rebuilt`.                     *)

Finds(c) ==
  /\ cli[c].judge = "rebuilt" /\ cli[c].differ = {}
  /\ \/ cli[c].at = "list" /\ mishaps' = mishaps \cap {"moved", "overlapped"} /\ db[cli[c].master].tables = {}
     \/ cli[c].at = "master" /\ "uncounted" \in mishaps'
     \/ /\ cli[c].at = "slave" /\ cli[c].todo = {Counted(c)} /\ mishaps \subseteq mishaps'
        /\ "blind" \notin mishaps' => Count(cli[c].slave, Counted(c)) = cli[c].rows

LEMMA CompareSays ==
  ASSUME RInv, NEW c \in Clients, Compares(c)
  PROVE  Others(c) /\ (Says(c) \/ Finds(c))
<1>0. cli[c] \in ClientState /\ GoodClient(cli[c])
  BY ClientOf
<1>1. CASE List(c)
  <2> DEFINE reach == Reachable(c, TheMaster(c))
             tables == IF reach THEN db[TheMaster(c)].tables ELSE {}
  <2>1. IF tables = {} THEN Judged(c, cli[c], reach)
        ELSE Becomes(c, [cli[c] EXCEPT !.at = "master", !.todo = tables])
    BY <1>1 DEF List
  <2>2. reach \in BOOLEAN /\ (reach => tables = db[cli[c].master].tables)
    BY DEF Reachable, Expired, TheMaster
  <2>3. cli[c].at = "list" /\ mishaps' = mishaps \cap {"moved", "overlapped"}
    BY <1>1 DEF List, At
  <2> HIDE DEF tables, reach
  <2>4. CASE tables = {}
    <3>1. Others(c) /\ (Says(c) \/ (cli[c].judge = "rebuilt" /\ reach /\ cli[c].differ = {}))
      BY <1>0, <2>1, <2>2, <2>4, JudgedSays
    <3>2. QED
      BY <2>2, <2>3, <2>4, <3>1 DEF Finds
  <2>5. CASE tables # {}
    <3> DEFINE next == [cli[c] EXCEPT !.at = "master", !.todo = tables]
    <3>1. next.outcome = cli[c].outcome
      BY <1>0 DEF ClientState
    <3> HIDE DEF next
    <3>2. Becomes(c, next)
      BY <2>1, <2>5 DEF next
    <3>3. QED
      BY <3>1, <3>2, BecomesSays
  <2>6. QED
    BY <2>4, <2>5
<1>2. CASE CountMaster(c)
  <2> DEFINE t == Counted(c)
             m == cli[c].master
             there == Reachable(c, m) /\ t \in db[m].tables
             next == [cli[c] EXCEPT !.at = "slave", !.rows = Count(m, t)]
  <2>1. \/ there /\ Becomes(c, next)
        \/ ~there /\ mishaps' = mishaps \cup {"uncounted"} /\ Compared(c, t, FALSE)
    BY <1>2 DEF CountMaster, TheMaster
  <2>2. next.outcome = cli[c].outcome
    BY <1>0 DEF ClientState
  <2> HIDE DEF next
  <2>3. CASE Becomes(c, next)
    BY <2>2, <2>3, BecomesSays
  <2>4. CASE mishaps' = mishaps \cup {"uncounted"} /\ Compared(c, t, FALSE)
    <3>1. cli[c].at = "master"
      BY <1>2 DEF CountMaster, At
    <3>2. Others(c) /\ (Says(c) \/ (cli[c].judge = "rebuilt" /\ cli[c].differ = {}))
      BY <2>4, <3>1, ComparedSays
    <3>3. QED
      BY <2>4, <3>1, <3>2 DEF Finds
  <2>5. QED
    BY <2>1, <2>3, <2>4
<1>3. CASE CountSlave(c)
  <2> DEFINE t == Counted(c)
             s == cli[c].slave
             there == Reachable(c, s) /\ t \in db[s].tables
             rows == IF there THEN Count(s, t) ELSE 0
             differs == rows # cli[c].rows /\ (there \/ cli[c].judge # "table")
  <2>1. /\ Compared(c, t, differs) /\ cli[c].at = "slave"
        /\ mishaps' = IF Reachable(c, s) THEN mishaps ELSE mishaps \cup {"blind"}
    BY <1>3 DEF CountSlave, TheSlave, At
  <2>2. differs \in BOOLEAN
    OBVIOUS
  <2>3. Reachable(c, s) => rows = Count(s, t)
    <3>1. s \in DBNodes
      BY <1>0, <2>1 DEF GoodClient, Paired, PairOf
    <3>2. QED
      BY <3>1, NoTableNoRows
  <2> HIDE DEF rows
  <2>4. /\ Others(c)
        /\ Says(c) \/ (cli[c].judge = "rebuilt" /\ cli[c].todo = {t} /\ ~differs /\ cli[c].differ = {})
    BY <2>1, <2>2, ComparedSays
  <2>5. QED
    BY <2>1, <2>3, <2>4 DEF Finds
<1>4. QED
  BY <1>1, <1>2, <1>3 DEF Compares

-----------------------------------------------------------------------------
(* What a comparison that is over says.                                    *)

LEMMA CountsDiffer ==
  ASSUME NEW n, NEW m, NEW t, Count(n, t) # Count(m, t)
  PROVE  db[n].rows # db[m].rows
BY DEF Count

(* One that sends the slave to be rebuilt found a table to differ.         *)
LEMMA SentForCause ==
  ASSUME RInv, [Next]_vars, NEW c \in Clients, cli[c].at \in {"list", "master", "slave"}, cli'[c].at = "stop",
         mishaps' \subseteq {"moved", "uncounted"}
  PROVE  Pair(c)[1].rows # Pair(c)[2].rows
<1> DEFINE m == cli[c].master
           s == cli[c].slave
<1>0. /\ cli[c] \in ClientState /\ GoodClient(cli[c]) /\ cli \in [Clients -> ClientState]
      /\ m \in DBNodes /\ s \in DBNodes
  BY ClientOf DEF RInv, TypeInv, CliOK, GoodClient, Paired, PairOf
<1>1. Alone /\ mishaps \cap {"unsettled", "blind"} = {} => Tallied(c)
  BY DEF RInv, RebuildInv, Busy, At
<1>2. ASSUME NEW t, ~Agrees(c, t) PROVE db[m].rows # db[s].rows
  BY <1>2, CountsDiffer DEF Agrees
<1>3. CASE List(c)
  <2>1. cli[c].differ = {} /\ cli[c].at = "list"
    BY <1>3 DEF List, At, RInv, RebuildInv, Busy, Tied
  <2> DEFINE reach == Reachable(c, TheMaster(c))
             tables == IF reach THEN db[TheMaster(c)].tables ELSE {}
  <2>2. IF tables = {} THEN Judged(c, cli[c], reach)
        ELSE Becomes(c, [cli[c] EXCEPT !.at = "master", !.todo = tables])
    BY <1>3 DEF List
  <2>3. reach \in BOOLEAN
    BY DEF Reachable, Expired
  <2> HIDE DEF tables, reach
  <2>4. CASE tables = {}
    <3>1. Returns(c)
      BY <1>0, <2>1, <2>2, <2>3, <2>4, JudgedGoes
    <3>2. PICK result \in Outcomes : Return(c, result)
      BY <3>1 DEF Returns
    <3>3. cli'[c] = [Fresh EXCEPT !.outcome = result]
      BY <1>0, <3>2 DEF Return, Becomes
    <3>4. cli'[c].at = "idle"
      BY <3>3 DEF Fresh
    <3>5. QED
      BY <3>4
  <2>5. CASE tables # {}
    <3>1. cli'[c] = [cli[c] EXCEPT !.at = "master", !.todo = tables]
      BY <1>0, <2>2, <2>5 DEF Becomes
    <3>2. cli'[c].at = "master"
      BY <1>0, <3>1 DEF ClientState
    <3>3. QED
      BY <3>2
  <2>6. QED
    BY <2>4, <2>5
<1>4. CASE CountMaster(c)
  <2> DEFINE t == Counted(c)
             there == Reachable(c, m) /\ t \in db[m].tables
  <2>1. \/ there /\ Becomes(c, [cli[c] EXCEPT !.at = "slave", !.rows = Count(m, t)])
        \/ ~there /\ mishaps' = mishaps \cup {"uncounted"} /\ Compared(c, t, FALSE)
    BY <1>4 DEF CountMaster, TheMaster
  <2>2. CASE there /\ Becomes(c, [cli[c] EXCEPT !.at = "slave", !.rows = Count(m, t)])
    <3>1. cli'[c] = [cli[c] EXCEPT !.at = "slave", !.rows = Count(m, t)]
      BY <1>0, <2>2 DEF Becomes
    <3>2. cli'[c].at = "slave"
      BY <1>0, <3>1 DEF ClientState
    <3>3. QED
      BY <3>2
  <2>3. CASE ~there /\ mishaps' = mishaps \cup {"uncounted"} /\ Compared(c, t, FALSE)
    <3>0. cli[c].at = "master"
      BY <1>4 DEF CountMaster, At
    <3>1. Returns(c) \/ (cli[c].judge = "choose" /\ cli[c].differ # {}) \/ cli'[c].at = "master"
      BY <2>3, <3>0, ComparedGoes
    <3>2. cli[c].judge = "choose" /\ cli[c].differ # {}
      BY <1>0, <3>1, EndsIdle
    <3>3. Alone /\ mishaps \cap {"unsettled", "blind"} = {}
      BY <2>3 DEF Alone
    <3>4. \A u \in cli[c].differ : ~Agrees(c, u)
      BY <1>1, <3>0, <3>2, <3>3 DEF Tallied
    <3>5. QED
      BY <1>2, <3>2, <3>4 DEF Pair
  <2>4. QED
    BY <2>1, <2>2, <2>3
<1>5. CASE CountSlave(c)
  <2> DEFINE t == Counted(c)
             there == Reachable(c, s) /\ t \in db[s].tables
             rows == IF there THEN Count(s, t) ELSE 0
             differs == rows # cli[c].rows /\ (there \/ cli[c].judge # "table")
  <2>1. /\ Compared(c, t, differs) /\ cli[c].at = "slave"
        /\ mishaps' = IF Reachable(c, s) THEN mishaps ELSE mishaps \cup {"blind"}
    BY <1>5 DEF CountSlave, TheSlave, At
  <2>2. differs \in BOOLEAN
    OBVIOUS
  <2>3. Reachable(c, s) /\ mishaps' = mishaps
    BY <2>1
  <2>4. rows = Count(s, t)
    BY <1>0, <2>3, NoTableNoRows
  <2> HIDE DEF rows
  <2>5. \/ Returns(c) \/ cli'[c].at = "master"
        \/ cli[c].judge = "choose" /\ (differs \/ cli[c].differ # {})
    BY <2>1, <2>2, ComparedGoes
  <2>6. cli[c].judge = "choose" /\ (differs \/ cli[c].differ # {})
    BY <1>0, <2>5, EndsIdle
  <2>7. Alone /\ mishaps \cap {"unsettled", "blind"} = {}
    BY <2>3 DEF Alone
  <2>8. (\A u \in cli[c].differ : ~Agrees(c, u)) /\ cli[c].rows = Count(m, t)
    BY <1>1, <2>1, <2>6, <2>7 DEF Tallied
  <2>9. differs => ~Agrees(c, t)
    BY <2>4, <2>8 DEF Agrees
  <2>10. QED
    BY <1>2, <2>6, <2>8, <2>9 DEF Pair
<1>6. ASSUME ~List(c), ~CountMaster(c), ~CountSlave(c) PROVE FALSE
  <2>1. ASSUME NEW d \in Clients, Begin(d) \/ Step(d) \/ Late(d) \/ Expire(d) \/ Kill(d) PROVE FALSE
    <3>1. CASE d # c
      <4>1. Others(d)
        BY <2>1, ClientSays, CompareSays DEF Compares
      <4>2. QED
        BY <3>1, <4>1 DEF Others
    <3>2. CASE d = c
      <4>1. Expire(c) \/ Kill(c)
        BY <1>6, <2>1, <3>2 DEF Begin, Step, Rebuilds, Late, ReadNode, Choose, Stop, Prepare, Backup, Remove, Unlink,
           Fetch, Restore, Relog, Start, Back, Drain, Resolved, Joined, Rejoined, CreateDB, Seed, StartGroup, Read, At
      <4>2. CASE Expire(c)
        <5>1. cli'[c] = [cli[c] EXCEPT !.expired = TRUE]
          BY <1>0, <4>2 DEF Expire, Becomes
        <5>2. cli'[c].at = cli[c].at
          BY <1>0, <5>1 DEF ClientState
        <5>3. QED
          BY <5>2
      <4>3. CASE Kill(c)
        <5>1. cli'[c].at = "idle"
          BY <4>3, EndsIdle DEF Kill, Returns, Outcomes
        <5>2. QED
          BY <5>1
      <4>4. QED
        BY <4>1, <4>2, <4>3
    <3>3. QED
      BY <3>1, <3>2
  <2>2. ASSUME NEW n \in DBNodes,
               Write(n) \/ Apply(n) \/ Misapply(n) \/ Join(n) \/ Complain(n) \/ Fall(n) \/ Elect(n)
        PROVE  FALSE
    BY <2>2 DEF Write, Apply, Misapply, Join, Complain, Fall, Elect
  <2>3. CASE UNCHANGED vars
    BY <2>3 DEF vars
  <2>4. QED
    BY <2>1, <2>2, <2>3 DEF Next
<1>7. QED
  BY <1>3, <1>4, <1>5, <1>6

(* A comparison sends a node to be rebuilt only if it differs from its     *)
(* master, when none was blind and no row moved meanwhile: a table that    *)
(* the master cannot count is skipped (inspect/diff.go:104-122).           *)
THEOREM SentRightly == Spec => RebuiltForCause
<1> DEFINE Caused ==
      \A c \in Clients : /\ cli[c].at \in {"list", "master", "slave"} /\ cli'[c].at = "stop"
                         /\ mishaps' \subseteq {"moved", "uncounted"}
        => Pair(c)[1].rows # Pair(c)[2].rows
<1>1. RInv /\ [Next]_vars => [Caused]_vars
  <2> SUFFICES ASSUME RInv, [Next]_vars PROVE Caused
    OBVIOUS
  <2>1. QED
    BY SentForCause
<1>2. QED
  BY <1>1, RInvAlways, PTL DEF Spec, RebuiltForCause

-----------------------------------------------------------------------------
(* Rows within the master's, and as many of each table: the same rows.     *)

LEMMA RowsFinite == ASSUME RInv, NEW n \in DBNodes PROVE IsFiniteSet(db[n].rows)
<1>1. IsFiniteSet(Tables \X Rows)
  BY ResyncAssumption, FS_Product
<1>2. db[n].rows \subseteq Tables \X Rows
  BY DEF RInv, TypeInv, WorldOK, Database, Writes
<1>3. QED
  BY <1>1, <1>2, FS_Subset

LEMMA SameRows ==
  ASSUME RInv, NEW m \in DBNodes, NEW s \in DBNodes, db[s].rows \subseteq db[m].rows,
         \A t \in db[m].tables : Count(m, t) = Count(s, t)
  PROVE  db[m].rows = db[s].rows
<1> SUFFICES ASSUME NEW w \in db[m].rows PROVE w \in db[s].rows
  OBVIOUS
<1> DEFINE Of(n) == {v \in db[n].rows : v[1] = w[1]}
<1>1. w[1] \in db[m].tables
  BY DEF RInv, RebuildInv, TablesHold
<1>2. Of(s) \subseteq Of(m)
  OBVIOUS
<1>3. Cardinality(Of(m)) = Cardinality(Of(s))
  BY <1>1 DEF Count
<1>4. IsFiniteSet(Of(m))
  <2>1. Of(m) \subseteq db[m].rows
    OBVIOUS
  <2>2. QED
    BY <2>1, RowsFinite, FS_Subset
<1>5. w \in Of(m)
  OBVIOUS
<1> HIDE DEF Of
<1>6. Of(s) = Of(m)
  BY <1>2, <1>3, <1>4, FS_Subset
<1>7. w \in Of(s)
  BY <1>5, <1>6
<1>8. QED
  BY <1>7 DEF Of

LEMMA RebuiltRight ==
  ASSUME RInv, [Next]_vars, NEW c \in Clients, Answers(c, "rebuilt"), mishaps' = {}, OnlyMaster(cli[c].master)
  PROVE  Pair(c)[1].rows = Pair(c)[2].rows
<1> DEFINE m == cli[c].master
           s == cli[c].slave
<1>1. Finds(c)
  <2>1. ASSUME NEW d \in Clients, Begin(d) \/ Step(d) \/ Late(d) \/ Expire(d) \/ Kill(d) PROVE Finds(c)
    <3>1. Others(d) /\ (Says(d) \/ Finds(d))
      BY <2>1, ClientSays, CompareSays
    <3>2. d = c
      BY <3>1 DEF Others, Answers
    <3>3. QED
      BY <3>1, <3>2 DEF Says, Answers
  <2>2. ASSUME NEW n \in DBNodes,
               Write(n) \/ Apply(n) \/ Misapply(n) \/ Join(n) \/ Complain(n) \/ Fall(n) \/ Elect(n)
        PROVE  FALSE
    BY <2>2 DEF Write, Apply, Misapply, Join, Complain, Fall, Elect, Answers
  <2>3. CASE UNCHANGED vars
    BY <2>3 DEF vars, Answers
  <2>4. QED
    BY <2>1, <2>2, <2>3 DEF Next
<1>2. \/ cli[c].at = "list" /\ mishaps \cap {"moved", "overlapped"} = {} /\ db[m].tables = {}
      \/ /\ cli[c].at = "slave" /\ mishaps = {} /\ cli[c].todo = {Counted(c)}
         /\ Count(s, Counted(c)) = cli[c].rows
  BY <1>1 DEF Finds
<1>3. Still /\ cli[c].at \in Comparisons /\ Busy(c) /\ cli[c].judge = "rebuilt" /\ cli[c].differ = {}
  BY <1>1, <1>2 DEF Still, Alone, Comparisons, Busy, At, Finds
<1>4. m \in DBNodes /\ s \in DBNodes /\ Mended(c)
  BY <1>3, MendedPair DEF Mended
<1>5. db[s].rows \subseteq db[m].rows
  BY <1>3, <1>4 DEF RInv, RebuildInv, Within
<1>6. \A t \in db[m].tables : Count(m, t) = Count(s, t)
  <2>1. CASE cli[c].at = "list"
    BY <1>2, <2>1
  <2>2. CASE cli[c].at = "slave" /\ mishaps = {} /\ cli[c].todo = {Counted(c)} /\ Count(s, Counted(c)) = cli[c].rows
    <3>1. Tallied(c)
      BY <1>3 DEF RInv, RebuildInv, Still
    <3>2. /\ \A t \in db[m].tables \ (cli[c].todo \cup cli[c].differ) : Agrees(c, t)
          /\ cli[c].rows = Count(m, Counted(c))
      BY <1>3, <2>2, <3>1 DEF Tallied
    <3>3. QED
      BY <1>3, <2>2, <3>2 DEF Agrees
  <2>3. QED
    BY <1>2, <2>1, <2>2
<1>7. QED
  BY <1>4, <1>5, <1>6, SameRows DEF Pair

(* `rebuilt` is true: when roles kept still, no other command ran, no row  *)
(* moved while the tables were counted and no other node was a master, the *)
(* slave has its master's rows, though the command has only compared how   *)
(* many there are of each table (inspect.go:1243-1250, diff.go:104-122).   *)
THEOREM RebuiltHonestly == Spec => RebuiltIsTrue
<1> DEFINE True ==
      \A c \in Clients : Answers(c, "rebuilt") /\ mishaps' = {} /\ OnlyMaster(cli[c].master)
        => Pair(c)[1].rows = Pair(c)[2].rows
<1>1. RInv /\ [Next]_vars => [True]_vars
  <2> SUFFICES ASSUME RInv, [Next]_vars PROVE True
    OBVIOUS
  <2>1. QED
    BY RebuiltRight
<1>2. QED
  BY <1>1, RInvAlways, PTL DEF Spec, RebuiltIsTrue
=============================================================================
