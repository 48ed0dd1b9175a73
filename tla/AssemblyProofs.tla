--------------------------- MODULE AssemblyProofs ---------------------------
(***************************************************************************)
(* What is proved of Assembly, for every topology, any number of clients,  *)
(* of files and of pages.                                                  *)
(***************************************************************************)
EXTENDS Assembly, TLAPS

USE DEF DBNodes, Master, world, vars

-----------------------------------------------------------------------------
(* Type correctness.                                                       *)

LEMMA TopologyFacts ==
  ASSUME topo \in Topologies
  PROVE  /\ topo.size \in Nat \ {0}
         /\ topo.haOff \in BOOLEAN /\ topo.withBroker \in BOOLEAN
         /\ topo.haOff <=> topo.size = 1
         /\ Master \in DBNodes
<1>1. /\ topo \in [size : Nat \ {0}, haOff : BOOLEAN, withBroker : BOOLEAN]
      /\ topo.haOff <=> topo.size = 1
  BY TopologyAssumption
<1>2. QED BY <1>1

(* TypeOK is not inductive: a client that copies is at a node, and one     *)
(* that completes a promotion has found a node to complete.                *)
InRange(me) ==
  /\ me.at = "copy" => me.slot \in DBNodes
  /\ me.at \in {"complete", "changemode"} => me.waiting # 0
TypeInv == TypeOK /\ \A c \in Clients : InRange(cli[c])

(* A client that is idle, that returns, that begins a pass.                *)
LEMMA FreshType ==
  ASSUME topo \in Topologies
  PROVE  Fresh \in ClientState /\ InRange(Fresh)
<1>1. 1 \in 1..topo.size + 1 /\ 0 \in 0..topo.size
  BY TopologyFacts
<1>2. 1 \in Files
  BY FilesAssumption DEF Files
<1>3. Unread \in [DBNodes -> ServerStates]
  BY DEF Unread, ServerStates
<1>4. 0 \in 0..StuckLimit
  BY LimitsAssumption
<1>5. QED BY <1>1, <1>2, <1>3, <1>4 DEF Fresh, ClientState, Phases, InRange

LEMMA ReturnType ==
  ASSUME topo \in Topologies, NEW c \in Clients,
         NEW r \in {"none", "serving", "blocked", "error", "down"}
  PROVE  Returned(c, r) \in ClientState /\ InRange(Returned(c, r))
BY FreshType DEF Returned, ClientState, Fresh, InRange

LEMMA NextPassType ==
  ASSUME topo \in Topologies, NEW me \in ClientState
  PROVE  NextPass(me) \in ClientState /\ InRange(NextPass(me))
<1>1. 1 \in 1..topo.size + 1 /\ 0 \in 0..topo.size
  BY TopologyFacts
<1>2. Unread \in [DBNodes -> ServerStates]
  BY DEF Unread, ServerStates
<1>3. QED BY <1>1, <1>2 DEF NextPass, ClientState, Phases, InRange

(* The part of TypeOK that is not about the clients.                       *)
WorldType ==
  /\ topo \in Topologies
  /\ db \in [DBNodes -> [Files -> {"absent", "open", "torn", "good"}]]
  /\ createdb \in BOOLEAN
  /\ hb \in [DBNodes -> {"off", "starting", "on"}]
  /\ server \in [DBNodes -> ServerStates]
  /\ pages \in [DBNodes -> 0..MaxPages]
  /\ fail \in [DBNodes -> BOOLEAN]
  /\ broker \in [DBNodes -> BOOLEAN]
  /\ spoiled \in BOOLEAN

(* One client moves within its type.                                       *)
LEMMA OneClient ==
  ASSUME TypeInv, WorldType', UNCHANGED topo, NEW c \in Clients,
         NEW me, me \in ClientState, InRange(me), Becomes(c, me)
  PROVE  TypeInv'
BY DEF TypeInv, TypeOK, WorldType, Becomes, ClientState, InRange

LEMMA TypeInit == Init => TypeInv
<1> SUFFICES ASSUME Init PROVE TypeInv
  OBVIOUS
<1>1. topo \in Topologies
  BY DEF Init
<1>2. 0 \in 0..MaxPages
  BY LimitsAssumption
<1>3. \A c \in Clients : cli[c] \in ClientState /\ InRange(cli[c])
  BY <1>1, FreshType DEF Init
<1>4. cli \in [Clients -> ClientState]
  BY <1>3 DEF Init
<1>5. QED BY <1>1, <1>2, <1>3, <1>4 DEF Init, TypeInv, TypeOK, ServerStates

LEMMA TypeSeeding ==
  ASSUME TypeInv, NEW c \in Clients, Seeding(c) PROVE TypeInv'
<1>1. /\ WorldType /\ topo.size \in Nat \ {0}
      /\ cli[c] \in ClientState /\ InRange(cli[c])
  BY TopologyFacts DEF TypeInv, TypeOK, WorldType
<1>2. At(c, "seed") /\ MoreNodes(c) => cli[c].slot + 1 \in 1..topo.size + 1
  BY <1>1 DEF MoreNodes
<1>a. CASE SkipSeeded(c)
  <2>1. [cli[c] EXCEPT !.slot = @ + 1] \in ClientState /\ InRange([cli[c] EXCEPT !.slot = @ + 1])
    BY <1>1, <1>2, <1>a DEF SkipSeeded, At, ClientState, InRange
  <2>2. WorldType'
    BY <1>1, <1>a DEF SkipSeeded, WorldType
  <2>3. QED BY <1>a, <2>1, <2>2, OneClient DEF SkipSeeded
<1>b. CASE BeginCopy(c)
  <2>1. 1 \in Files
    BY FilesAssumption DEF Files
  <2>2. /\ [cli[c] EXCEPT !.at = "copy", !.file = 1] \in ClientState
        /\ InRange([cli[c] EXCEPT !.at = "copy", !.file = 1])
    BY <1>1, <1>b, <2>1 DEF BeginCopy, MoreNodes, ClientState, Phases, InRange
  <2>3. WorldType'
    BY <1>1, <1>b DEF BeginCopy, WorldType
  <2>4. QED BY <1>b, <2>2, <2>3, OneClient DEF BeginCopy
<1>c. CASE CopyFile(c)
  <2>1. cli[c].slot \in DBNodes /\ cli[c].file \in Files
    BY <1>1, <1>c DEF CopyFile, At, InRange, ClientState
  <2>2. CopyOf(cli[c].slot, cli[c].file) \in {"absent", "open", "torn", "good"}
    BY <1>1, <2>1 DEF CopyOf, WorldType
  <2>3. WorldType'
    BY <1>1, <1>c, <2>1, <2>2 DEF CopyFile, WorldType
  <2>4. CASE MoreFiles(c)
    <3>1. cli[c].file + 1 \in Files
      BY <2>1, <2>4, FilesAssumption DEF MoreFiles, Files
    <3>2. /\ [cli[c] EXCEPT !.file = @ + 1] \in ClientState
          /\ InRange([cli[c] EXCEPT !.file = @ + 1])
      BY <1>1, <3>1 DEF ClientState, InRange
    <3>3. QED BY <1>c, <2>3, <2>4, <3>2, OneClient DEF CopyFile
  <2>5. CASE ~MoreFiles(c)
    <3>1. cli[c].slot + 1 \in 1..topo.size + 1
      BY <1>1, <2>1
    <3>2. /\ [cli[c] EXCEPT !.at = "seed", !.slot = @ + 1] \in ClientState
          /\ InRange([cli[c] EXCEPT !.at = "seed", !.slot = @ + 1])
      BY <1>1, <3>1 DEF ClientState, Phases, InRange
    <3>3. QED BY <1>c, <2>3, <2>5, <3>2, OneClient DEF CopyFile
  <2>6. QED BY <2>4, <2>5
<1>d. CASE SeedDone(c)
  <2>1. /\ [cli[c] EXCEPT !.at = "heartbeat"] \in ClientState
        /\ InRange([cli[c] EXCEPT !.at = "heartbeat"])
    BY <1>1 DEF ClientState, Phases, InRange
  <2>2. WorldType'
    BY <1>1, <1>d DEF SeedDone, WorldType
  <2>3. QED BY <1>d, <2>1, <2>2, OneClient DEF SeedDone
<1>e. QED BY <1>a, <1>b, <1>c, <1>d DEF Seeding

LEMMA TypeStarting ==
  ASSUME TypeInv, NEW c \in Clients, Starting(c) PROVE TypeInv'
<1>1. WorldType /\ cli[c] \in ClientState /\ InRange(cli[c])
  BY DEF TypeInv, TypeOK, WorldType
<1>2. NextPass(cli[c]) \in ClientState /\ InRange(NextPass(cli[c]))
  BY <1>1, NextPassType DEF WorldType
<1>a. ASSUME NEW n \in DBNodes, StartHeartbeat(c, n) PROVE TypeInv'
  <2>1. /\ [cli[c] EXCEPT !.started = @ \cup {n}] \in ClientState
        /\ InRange([cli[c] EXCEPT !.started = @ \cup {n}])
    BY <1>1 DEF ClientState, InRange
  <2>2. WorldType'
    BY <1>1, <1>a DEF StartHeartbeat, WorldType
  <2>3. QED BY <1>a, <2>1, <2>2, OneClient DEF StartHeartbeat
<1>b. CASE HeartbeatsJoined(c)
  <2>1. WorldType'
    BY <1>1, <1>b DEF HeartbeatsJoined, WorldType
  <2>2. QED BY <1>2, <1>b, <2>1, OneClient DEF HeartbeatsJoined
<1>c. CASE startServers(c)
  <2>1. WorldType'
    BY <1>1, <1>c DEF startServers, WorldType, ServerStates
  <2>2. QED BY <1>2, <1>c, <2>1, OneClient DEF startServers
<1>d. QED BY <1>a, <1>b, <1>c DEF Starting

(* The end of a pass, whatever the client keeps of it.                     *)
LEMMA TypePassEnds ==
  ASSUME TypeInv, WorldType', UNCHANGED topo, NEW c \in Clients,
         NEW me, me \in ClientState, PassEnds(c, me)
  PROVE  TypeInv'
<1>1. topo \in Topologies
  BY DEF TypeInv, TypeOK
<1>a. CASE cli[c].clock = "fresh"
  <2>1. Becomes(c, NextPass(me))
    BY <1>a DEF PassEnds
  <2>2. QED BY <1>1, <2>1, NextPassType, OneClient
<1>b. CASE cli[c].clock # "fresh"
  <2>1. PICK r \in {"blocked", "error"} : Becomes(c, Returned(c, r))
    BY <1>b DEF PassEnds, Return
  <2>2. Returned(c, r) \in ClientState /\ InRange(Returned(c, r))
    BY <1>1, ReturnType
  <2>3. QED BY <2>1, <2>2, OneClient
<1>c. QED BY <1>a, <1>b

LEMMA TypeReturn ==
  ASSUME TypeInv, WorldType', UNCHANGED topo, NEW c \in Clients,
         NEW r \in {"none", "serving", "blocked", "error", "down"}, Return(c, r)
  PROVE  TypeInv'
<1>1. Returned(c, r) \in ClientState /\ InRange(Returned(c, r))
  BY ReturnType DEF TypeInv, TypeOK
<1>2. QED BY <1>1, OneClient DEF Return

LEMMA CountedType ==
  ASSUME TypeInv, NEW c \in Clients PROVE Counted(c) \in ClientState
<1> DEFINE k == IF cli[c].stuck < StuckLimit THEN cli[c].stuck + 1 ELSE cli[c].stuck
<1>1. cli[c] \in ClientState
  BY DEF TypeInv, TypeOK
<1>2. k \in 0..StuckLimit
  BY <1>1, LimitsAssumption DEF ClientState
<1> HIDE DEF k
<1>3. [cli[c] EXCEPT !.stuck = k] \in ClientState
  BY <1>1, <1>2 DEF ClientState
<1>4. QED BY <1>3 DEF Counted, k

LEMMA TypeWaitServing ==
  ASSUME TypeInv, NEW c \in Clients, WaitServing(c) PROVE TypeInv'
<1>1. /\ WorldType /\ topo.size \in Nat \ {0}
      /\ cli[c] \in ClientState /\ InRange(cli[c])
  BY TopologyFacts DEF TypeInv, TypeOK, WorldType
<1>2. NextPass(cli[c]) \in ClientState /\ InRange(NextPass(cli[c]))
  BY <1>1, NextPassType DEF WorldType
<1>3. Counted(c) \in ClientState
  BY CountedType
<1>4. ASSUME NEW x \in BOOLEAN PROVE [cli[c] EXCEPT !.blocked = x] \in ClientState
  BY <1>1 DEF ClientState
<1>5. UNCHANGED world /\ UNCHANGED spoiled => WorldType' /\ UNCHANGED topo
  BY <1>1 DEF WorldType
<1>a. CASE PollNode(c)
  <2> DEFINE st == IF Expired(c) THEN "" ELSE server[cli[c].slot]
             w == IF cli[c].waiting = 0 /\ st = "to_be_active" THEN cli[c].slot ELSE cli[c].waiting
             me == [cli[c] EXCEPT !.slot = cli[c].slot + 1, !.seen[cli[c].slot] = st, !.waiting = w]
  <2>1. cli[c].slot \in DBNodes /\ cli[c].slot + 1 \in 1..topo.size + 1
    BY <1>1, <1>a DEF PollNode, MoreNodes
  <2>2. st \in ServerStates
    BY <1>1, <2>1 DEF WorldType, ServerStates
  <2>3. w \in 0..topo.size
    BY <1>1, <2>1 DEF ClientState
  <2> HIDE DEF st, w
  <2>4. me \in ClientState /\ InRange(me)
    BY <1>1, <1>a, <2>1, <2>2, <2>3 DEF PollNode, At, ClientState, InRange
  <2>5. Becomes(c, me)
    BY <1>a DEF PollNode, st, w
  <2>6. QED BY <1>5, <1>a, <2>4, <2>5, OneClient DEF PollNode
<1>b. CASE PassServing(c)
  <2>1. WorldType' /\ UNCHANGED topo
    BY <1>5, <1>b DEF PassServing
  <2>2. CASE Return(c, "error") \/ Return(c, "serving")
    BY <2>1, <2>2, TypeReturn
  <2>3. CASE Becomes(c, [NextPass(cli[c]) EXCEPT !.at = "broker"])
    <3>1. /\ [NextPass(cli[c]) EXCEPT !.at = "broker"] \in ClientState
          /\ InRange([NextPass(cli[c]) EXCEPT !.at = "broker"])
      BY <1>2 DEF ClientState, Phases, InRange
    <3>2. QED BY <2>1, <2>3, <3>1, OneClient
  <2>4. QED BY <1>b, <2>2, <2>3 DEF PassServing
<1>c. CASE PassIdle(c)
  BY <1>1, <1>5, <1>c, TypePassEnds DEF PassIdle
<1>d. CASE PassStalled(c)
  <2>0. Counted(c).waiting # 0
    BY <1>1, <1>d DEF PassStalled, Counted, ClientState
  <2>1. /\ [Counted(c) EXCEPT !.at = "complete"] \in ClientState
        /\ InRange([Counted(c) EXCEPT !.at = "complete"])
    BY <1>3, <2>0 DEF ClientState, Phases, InRange
  <2>2. WorldType' /\ UNCHANGED topo
    BY <1>5, <1>d DEF PassStalled
  <2>3. CASE Counted(c).stuck >= StuckLimit
    BY <1>d, <2>1, <2>2, <2>3, OneClient DEF PassStalled
  <2>4. CASE ~(Counted(c).stuck >= StuckLimit)
    BY <1>3, <1>d, <2>2, <2>4, TypePassEnds DEF PassStalled
  <2>5. QED BY <2>3, <2>4
<1>e. CASE PromotionUnread(c)
  BY <1>4, <1>5, <1>e, TypePassEnds DEF PromotionUnread
<1>f. CASE PromotionBlocked(c)
  BY <1>4, <1>5, <1>f, TypePassEnds DEF PromotionBlocked
<1>g. CASE PromotionSafe(c)
  <2>1. /\ [cli[c] EXCEPT !.at = "changemode"] \in ClientState
        /\ InRange([cli[c] EXCEPT !.at = "changemode"])
    BY <1>1, <1>g DEF PromotionSafe, At, ClientState, Phases, InRange
  <2>2. QED BY <1>5, <1>g, <2>1, OneClient DEF PromotionSafe
<1>h. CASE Changemode(c)
  <2>1. cli[c].waiting \in DBNodes
    BY <1>1, <1>h DEF Changemode, At, ClientState, InRange
  <2>2. WorldType' /\ UNCHANGED topo
    BY <1>1, <1>h, <2>1 DEF Changemode, WorldType, ServerStates
  <2> DEFINE me == [NextPass(cli[c]) EXCEPT !.forced = @ \cup {cli[c].waiting}, !.blocked = FALSE]
  <2>3. me \in ClientState /\ InRange(me)
    BY <1>2, <2>1 DEF ClientState, InRange
  <2>4. CASE Becomes(c, me)
    BY <2>2, <2>3, <2>4, OneClient
  <2>5. CASE PassEnds(c, [cli[c] EXCEPT !.blocked = TRUE])
    BY <1>4, <2>2, <2>5, TypePassEnds
  <2>6. QED BY <1>h, <2>4, <2>5 DEF Changemode
<1>i. QED BY <1>a, <1>b, <1>c, <1>d, <1>e, <1>f, <1>g, <1>h DEF WaitServing

LEMMA TypeBrokerAndDown ==
  ASSUME TypeInv, NEW c \in Clients, StartBroker(c) \/ Down(c) PROVE TypeInv'
<1>1. /\ WorldType /\ topo.size \in Nat \ {0}
      /\ cli[c] \in ClientState /\ InRange(cli[c])
  BY TopologyFacts DEF TypeInv, TypeOK, WorldType
<1>2. WorldType' /\ UNCHANGED topo
  <2>1. CASE StartBroker(c)
    BY <1>1, <2>1 DEF StartBroker, MoreNodes, WorldType
  <2>2. CASE Down(c)
    <3>1. UNCHANGED <<topo, db, createdb, pages, fail, spoiled>>
      BY <2>2 DEF Down
    <3>2. server' \in [DBNodes -> ServerStates]
      BY <1>1, <2>2 DEF Down, MoreNodes, WorldType, ServerStates
    <3>3. hb' \in [DBNodes -> {"off", "starting", "on"}]
      BY <1>1, <2>2 DEF Down, MoreNodes, WorldType
    <3>4. broker' \in [DBNodes -> BOOLEAN]
      BY <1>1, <2>2 DEF Down, MoreNodes, WorldType
    <3>5. QED BY <1>1, <3>1, <3>2, <3>3, <3>4 DEF WorldType
  <2>3. QED BY <2>1, <2>2
<1>3. ~At(c, "copy")
  BY DEF StartBroker, Down, At
<1>4. CASE MoreNodes(c) /\ Becomes(c, [cli[c] EXCEPT !.slot = @ + 1])
  <2>1. cli[c].slot + 1 \in 1..topo.size + 1
    BY <1>1, <1>4 DEF MoreNodes
  <2>2. [cli[c] EXCEPT !.slot = @ + 1] \in ClientState /\ InRange([cli[c] EXCEPT !.slot = @ + 1])
    BY <1>1, <1>3, <2>1 DEF ClientState, InRange, At
  <2>3. QED BY <1>2, <1>4, <2>2, OneClient
<1>5. CASE Return(c, "error") \/ Return(c, "serving") \/ Return(c, "down")
  BY <1>2, <1>5, TypeReturn
<1>6. QED BY <1>4, <1>5 DEF StartBroker, Down

LEMMA TypeCommand ==
  ASSUME TypeInv, NEW c \in Clients, Command(c) PROVE TypeInv'
<1>1. WorldType /\ Fresh \in ClientState
  BY FreshType DEF TypeInv, TypeOK, WorldType
<1>a. CASE BeginUp(c)
  <2>1. WorldType'
    BY <1>1, <1>a DEF BeginUp, WorldType
  <2>2. 2 \in 1..topo.size + 1
    BY TopologyFacts DEF TypeInv, TypeOK
  <2>3. ASSUME NEW phase \in {"seed", "createdb"}
        PROVE  /\ [Fresh EXCEPT !.at = phase, !.slot = 2] \in ClientState
               /\ InRange([Fresh EXCEPT !.at = phase, !.slot = 2])
    BY <1>1, <2>2 DEF ClientState, Phases, InRange
  <2>4. QED BY <1>a, <2>1, <2>3, OneClient DEF BeginUp
<1>b. CASE BeginDown(c)
  <2>1. WorldType'
    BY <1>1, <1>b DEF BeginDown, WorldType
  <2>2. [Fresh EXCEPT !.at = "down"] \in ClientState /\ InRange([Fresh EXCEPT !.at = "down"])
    BY <1>1 DEF ClientState, Phases, InRange
  <2>3. QED BY <1>b, <2>1, <2>2, OneClient DEF BeginDown
<1>c. QED BY <1>a, <1>b DEF Command

LEMMA TypeTrouble ==
  ASSUME TypeInv, NEW c \in Clients, Trouble(c) \/ CreatedbTimesOut(c) PROVE TypeInv'
<1>1. WorldType /\ cli[c] \in ClientState /\ InRange(cli[c])
  BY DEF TypeInv, TypeOK, WorldType
<1>2. ASSUME NEW clock \in {"late", "expired"}
      PROVE  [cli[c] EXCEPT !.clock = clock] \in ClientState /\ InRange([cli[c] EXCEPT !.clock = clock])
  BY <1>1 DEF ClientState, InRange
<1>3. ASSUME At(c, "copy"), TearFile(c)
      PROVE  /\ db' \in [DBNodes -> [Files -> {"absent", "open", "torn", "good"}]]
             /\ spoiled' \in BOOLEAN
  <2>1. cli[c].slot \in DBNodes /\ cli[c].file \in Files
    BY <1>1, <1>3 DEF At, InRange, ClientState
  <2>2. QED BY <1>1, <1>3, <2>1 DEF TearFile, WorldType
<1>a. CASE CopyFails(c)
  <2>1. WorldType'
    BY <1>1, <1>3, <1>a DEF CopyFails, WorldType
  <2>2. QED BY <1>a, <2>1, TypeReturn DEF CopyFails
<1>b. CASE Late(c)
  <2>1. WorldType'
    BY <1>1, <1>b DEF Late, WorldType
  <2>2. QED BY <1>2, <1>b, <2>1, OneClient DEF Late
<1>c. CASE Expire(c)
  <2>1. WorldType'
    BY <1>1, <1>c DEF Expire, WorldType
  <2>2. QED BY <1>2, <1>c, <2>1, OneClient DEF Expire
<1>d. CASE Killed(c)
  <2>1. WorldType'
    BY <1>1, <1>3, <1>d DEF Killed, WorldType
  <2>2. QED BY <1>d, <2>1, TypeReturn DEF Killed
<1>e. CASE CreatedbTimesOut(c)
  <2>1. WorldType'
    BY <1>1, <1>e DEF CreatedbTimesOut, WorldType
  <2>2. QED BY <1>e, <2>1, TypeReturn DEF CreatedbTimesOut
<1>f. QED BY <1>a, <1>b, <1>c, <1>d, <1>e DEF Trouble

LEMMA TypeEngine ==
  ASSUME TypeInv, Engine PROVE TypeInv'
<1>1. /\ WorldType /\ 1 \in DBNodes
      /\ \A c \in Clients : cli[c] \in ClientState /\ InRange(cli[c])
  BY TopologyFacts DEF TypeInv, TypeOK, WorldType
<1>2. cli \in [Clients -> ClientState]
  BY DEF TypeInv, TypeOK
<1>3. ASSUME WorldType', UNCHANGED topo, UNCHANGED cli PROVE TypeInv'
  BY <1>1, <1>2, <1>3 DEF TypeInv, TypeOK, WorldType, ClientState, InRange
<1>a. CASE CreatedbWrites
  <2>1. WorldType'
    BY <1>1, <1>a DEF CreatedbWrites, WorldType
  <2>2. QED BY <1>3, <1>a, <2>1 DEF CreatedbWrites
<1>b. CASE CreatedbFinishes
  <2>1. WorldType'
    BY <1>1, <1>b DEF CreatedbFinishes, WorldType
  <2>2. \A c \in Clients : [cli[c] EXCEPT !.at = "seed"] \in ClientState /\ InRange([cli[c] EXCEPT !.at = "seed"])
    BY <1>1 DEF ClientState, Phases, InRange
  <2>3. \A c \in Clients : cli'[c] \in ClientState /\ InRange(cli'[c])
    BY <1>1, <1>b, <2>2 DEF CreatedbFinishes
  <2>4. cli' \in [Clients -> ClientState] /\ topo' = topo
    BY <1>2, <1>b, <2>3 DEF CreatedbFinishes
  <2>5. (cli \in [Clients -> ClientState])'
    BY <2>4 DEF ClientState
  <2>6. (\A c \in Clients : InRange(cli[c]))'
    BY <2>3, <2>4 DEF InRange
  <2>7. QED BY <2>1, <2>5, <2>6 DEF TypeInv, TypeOK, WorldType
<1>c. CASE CreatedbFails
  <2>1. db' \in [DBNodes -> [Files -> {"absent", "open", "torn", "good"}]] /\ spoiled' \in BOOLEAN
    <3>1. \A word \in {"absent", "torn"} :
            [f \in Files |-> word] \in [Files -> {"absent", "open", "torn", "good"}]
      OBVIOUS
    <3>2. PICK word \in {"absent", "torn"} : db' = [db EXCEPT ![1] = [f \in Files |-> word]]
      BY <1>c DEF CreatedbFails
    <3>3. db' \in [DBNodes -> [Files -> {"absent", "open", "torn", "good"}]]
      BY <1>1, <3>1, <3>2 DEF WorldType
    <3>4. spoiled' \in BOOLEAN
      BY <1>1, <1>c DEF CreatedbFails, WorldType
    <3>5. QED BY <3>3, <3>4
  <2>2. WorldType'
    BY <1>1, <1>c, <2>1 DEF CreatedbFails, WorldType
  <2>3. \A c \in Clients : Returned(c, "error") \in ClientState /\ InRange(Returned(c, "error"))
    BY <1>1, ReturnType DEF WorldType
  <2>4. \A c \in Clients : cli'[c] \in ClientState /\ InRange(cli'[c])
    BY <1>1, <1>c, <2>3 DEF CreatedbFails
  <2>5. QED BY <1>c, <2>2, <2>4 DEF CreatedbFails, TypeInv, TypeOK, WorldType, ClientState, InRange
<1>d. CASE GroupForms
  <2>1. WorldType'
    BY <1>1, <1>d DEF GroupForms, WorldType, ServerStates
  <2>2. QED BY <1>3, <1>d, <2>1 DEF GroupForms
<1>e. ASSUME NEW n \in DBNodes, Elect(n) \/ Promote(n) PROVE TypeInv'
  <2>1. WorldType'
    BY <1>1, <1>e DEF Elect, Promote, WorldType, ServerStates
  <2>2. QED BY <1>3, <1>e, <2>1 DEF Elect, Promote
<1>f. ASSUME NEW n \in DBNodes, Ship(n) PROVE TypeInv'
  <2>1. pages[n] \in 0..MaxPages /\ MaxPages \in Nat
    BY <1>1, LimitsAssumption DEF WorldType
  <2>2. WorldType'
    BY <1>1, <1>f, <2>1 DEF Ship, WorldType
  <2>3. QED BY <1>3, <1>f, <2>2 DEF Ship
<1>g. ASSUME NEW n \in DBNodes, Apply(n) PROVE TypeInv'
  <2>1. pages[n] \in 0..MaxPages /\ MaxPages \in Nat
    BY <1>1, LimitsAssumption DEF WorldType
  <2>2. pages' \in [DBNodes -> 0..MaxPages]
    BY <1>1, <1>g, <2>1 DEF Apply, WorldType
  <2>3. fail' \in [DBNodes -> BOOLEAN]
    <3>1. PICK lost \in {fail[n], TRUE} : fail' = [fail EXCEPT ![n] = lost]
      BY <1>g DEF Apply
    <3>2. lost \in BOOLEAN
      BY <1>1, <3>1 DEF WorldType
    <3>3. QED BY <1>1, <3>1, <3>2 DEF WorldType
  <2>4. WorldType'
    BY <1>1, <1>g, <2>2, <2>3 DEF Apply, WorldType
  <2>5. QED BY <1>3, <1>g, <2>4 DEF Apply
<1>h. QED BY <1>a, <1>b, <1>c, <1>d, <1>e, <1>f, <1>g DEF Engine

LEMMA TypeStep == TypeInv /\ [Next]_vars => TypeInv'
<1> SUFFICES ASSUME TypeInv, [Next]_vars PROVE TypeInv'
  OBVIOUS
<1>1. ASSUME NEW c \in Clients, Command(c) \/ Step(c) \/ Trouble(c) PROVE TypeInv'
  BY <1>1, TypeCommand, TypeTrouble, TypeSeeding, TypeStarting, TypeWaitServing, TypeBrokerAndDown DEF Step
<1>2. CASE UNCHANGED vars
  BY <1>2 DEF TypeInv, TypeOK, ClientState, InRange
<1>3. QED BY <1>1, <1>2, TypeEngine DEF Next

(* Every variable keeps its type: loops stay inside the node list and the  *)
(* file list, and a promotion is completed at a node of the cluster.       *)
THEOREM TypeCorrect == Spec => []TypeOK
<1>1. TypeInv => TypeOK
  BY DEF TypeInv
<1>2. QED BY <1>1, TypeInit, TypeStep, PTL DEF Spec

-----------------------------------------------------------------------------
(* No half-built database, as long as no build is cut off or overlapped.   *)

(* The pieces of BuildInv, for a state that is not spoiled.                *)
BuildParts == /\ OneBuilder /\ MasterBuilt /\ (\A c \in Clients : LoopAt(c))
              /\ NothingAfterLgat /\ Resumable /\ SeededIsWhole /\ StartedOnWhole

LEMMA BuildInit == Init => BuildInv
<1> SUFFICES ASSUME Init PROVE BuildParts
  BY DEF BuildInv, BuildParts
<1>1. \A c \in Clients : cli[c].at = "idle"
  BY DEF Init, Fresh
<1>2. \A n \in DBNodes : \A f \in Files : db[n][f] = "absent"
  BY DEF Init
<1>3. 1 \in DBNodes
  BY TopologyFacts DEF Init
<1>4. Lgat \in Files
  BY FilesAssumption
<1>5. \A n \in DBNodes : hb[n] = "off" /\ server[n] = ""
  BY DEF Init
<1>6. createdb = FALSE
  BY DEF Init
<1>7. QED BY <1>1, <1>2, <1>3, <1>4, <1>5, <1>6
       DEF BuildParts, OneBuilder, MasterBuilt, LoopAt, NothingAfterLgat, Resumable, SeededIsWhole,
           StartedOnWhole, Builds, PastSeeding, At, HasDB

(* A step in which no database changes, and that makes nobody a builder.   *)
LEMMA Onwards ==
  ASSUME TypeInv, BuildInv, UNCHANGED <<topo, db, createdb, spoiled>>,
         NEW c \in Clients, NEW me, Becomes(c, me),
         cli[c].at \notin {"createdb", "copy"}, me.at \notin {"createdb", "seed", "copy"},
         me.at \in {"heartbeat", "poll", "complete", "changemode", "broker"} => \A n \in DBNodes : Whole(n),
         (\E n \in DBNodes : hb'[n] # "off" \/ server'[n] # "") => \A n \in DBNodes : Whole(n)
  PROVE  BuildInv'
<1> SUFFICES ASSUME ~spoiled PROVE BuildParts'
  BY DEF BuildInv, BuildParts
<1>1. BuildParts
  BY DEF BuildInv, BuildParts
<1>2. cli'[c] = me /\ \A d \in Clients : d # c => cli'[d] = cli[d]
  BY DEF Becomes, TypeInv, TypeOK
<1>3. \A n \in DBNodes : (Whole(n)' <=> Whole(n)) /\ (HasDB(n)' <=> HasDB(n))
  BY DEF Whole, HasDB
<1>4. OneBuilder'
  BY <1>1, <1>2 DEF BuildParts, OneBuilder, Builds
<1>5. MasterBuilt'
  BY <1>1, <1>2 DEF BuildParts, MasterBuilt, At
<1>6. (\A d \in Clients : LoopAt(d))'
  <2>1. ASSUME NEW d \in Clients PROVE LoopAt(d)'
    <3>1. CASE d = c
      BY <1>2, <3>1 DEF LoopAt, At
    <3>2. CASE d # c
      <4>1. LoopAt(d)
        BY <1>1 DEF BuildParts
      <4>2. QED BY <1>2, <1>3, <3>2, <4>1 DEF LoopAt, At
    <3>3. QED BY <3>1, <3>2
  <2>2. QED BY <2>1
<1>7. NothingAfterLgat'
  BY <1>1, <1>3 DEF BuildParts, NothingAfterLgat
<1>8. Resumable'
  BY <1>1, <1>2, <1>3 DEF BuildParts, Resumable, PastSeeding
<1>9. StartedOnWhole'
  BY <1>3 DEF StartedOnWhole
<1>10. SeededIsWhole'
  <2>1. SUFFICES ASSUME NEW n \in DBNodes, n # Master, HasDB(n),
                        \A d \in Clients : ~(At(d, "copy")' /\ cli'[d].slot = n)
                 PROVE  Whole(n)
    BY <1>3 DEF SeededIsWhole, At
  <2>2. \A d \in Clients : ~(At(d, "copy") /\ cli[d].slot = n)
    BY <1>2, <2>1 DEF At
  <2>3. QED BY <1>1, <2>1, <2>2 DEF BuildParts, SeededIsWhole
<1>11. QED BY <1>4, <1>5, <1>6, <1>7, <1>8, <1>9, <1>10 DEF BuildParts

(* The end of a pass, a return and a new pass say where the client goes.   *)
LEMMA WhereTo ==
  ASSUME NEW c \in Clients
  PROVE  /\ \A r : Returned(c, r).at = "idle"
         /\ \A me \in ClientState : NextPass(me).at = "poll"
         /\ \A me \in ClientState : PassEnds(c, me) =>
              \E to : Becomes(c, to) /\ to.at \in {"poll", "idle"}
<1>1. \A r : Returned(c, r).at = "idle"
  BY DEF Returned, Fresh
<1>2. \A me \in ClientState : NextPass(me).at = "poll"
  BY DEF NextPass, ClientState
<1>3. ASSUME NEW me \in ClientState, PassEnds(c, me)
      PROVE  \E to : Becomes(c, to) /\ to.at \in {"poll", "idle"}
  <2>1. \/ Becomes(c, NextPass(me))
        \/ \E r \in {"blocked", "error"} : Becomes(c, Returned(c, r))
    BY <1>3 DEF PassEnds, Return
  <2>2. QED BY <1>1, <1>2, <2>1
<1>4. QED BY <1>1, <1>2, <1>3

(* An up that is past seeding stays there or returns.                     *)
LEMMA PastGoes ==
  ASSUME TypeInv, NEW c \in Clients, Starting(c) \/ WaitServing(c) \/ StartBroker(c)
  PROVE  \E to : Becomes(c, to) /\ to.at \in {"heartbeat", "poll", "complete", "changemode", "broker", "idle"}
<1> DEFINE Past == {"heartbeat", "poll", "complete", "changemode", "broker"}
<1>0. cli[c].at \in Past
  BY DEF Starting, WaitServing, StartHeartbeat, HeartbeatsJoined, startServers, PollNode, PassOver,
         PassServing, PassIdle, PassStalled, PromotionUnread, PromotionBlocked, PromotionSafe,
         Changemode, StartBroker, At
<1>2. cli[c] \in ClientState /\ Counted(c) \in ClientState
  BY CountedType DEF TypeInv, TypeOK
<1>3. ASSUME NEW x \in BOOLEAN
      PROVE  [cli[c] EXCEPT !.blocked = x] \in ClientState
  BY <1>2 DEF ClientState
<1>4. NextPass(cli[c]) \in ClientState
  BY <1>2, NextPassType DEF TypeInv, TypeOK
<1>5. \E to : Becomes(c, to) /\ to.at \in Past \cup {"idle"}
  <2>1. ASSUME NEW n \in DBNodes, StartHeartbeat(c, n)
        PROVE  \E to : Becomes(c, to) /\ to.at \in Past \cup {"idle"}
    BY <1>2, <2>1 DEF StartHeartbeat, ClientState, At
  <2>2. CASE HeartbeatsJoined(c) \/ startServers(c)
    BY <1>2, <2>2, WhereTo DEF HeartbeatsJoined, startServers
  <2>3. CASE PollNode(c)
    <3> DEFINE st == IF Expired(c) THEN "" ELSE server[cli[c].slot]
               w == IF cli[c].waiting = 0 /\ st = "to_be_active" THEN cli[c].slot ELSE cli[c].waiting
               me == [cli[c] EXCEPT !.slot = cli[c].slot + 1, !.seen[cli[c].slot] = st, !.waiting = w]
    <3>1. Becomes(c, me)
      BY <2>3 DEF PollNode
    <3> HIDE DEF st, w
    <3>2. me.at = cli[c].at
      BY <1>2 DEF ClientState
    <3>3. QED BY <1>0, <3>1, <3>2
  <2>4. CASE PassServing(c)
    <3>1. [NextPass(cli[c]) EXCEPT !.at = "broker"].at = "broker"
      BY <1>4 DEF ClientState
    <3>2. QED BY <2>4, <3>1, WhereTo DEF PassServing, Return
  <2>5. CASE PassIdle(c)
    BY <1>2, <2>5, WhereTo DEF PassIdle
  <2>6. CASE PassStalled(c)
    <3>1. [Counted(c) EXCEPT !.at = "complete"].at = "complete"
      BY <1>2 DEF ClientState
    <3>2. QED BY <1>2, <2>6, <3>1, WhereTo DEF PassStalled
  <2>7. CASE PromotionUnread(c) \/ PromotionBlocked(c)
    BY <1>3, <2>7, WhereTo DEF PromotionUnread, PromotionBlocked
  <2>8. CASE PromotionSafe(c)
    BY <1>2, <2>8 DEF PromotionSafe, ClientState
  <2>9. CASE Changemode(c)
    <3> DEFINE me == [NextPass(cli[c]) EXCEPT !.forced = @ \cup {cli[c].waiting}, !.blocked = FALSE]
    <3>1. me.at = "poll"
      BY <1>2, <1>4, WhereTo DEF ClientState
    <3>2. Becomes(c, me) \/ PassEnds(c, [cli[c] EXCEPT !.blocked = TRUE])
      BY <2>9 DEF Changemode
    <3>3. QED BY <1>3, <3>1, <3>2, WhereTo
  <2>10. CASE StartBroker(c)
    <3>1. [cli[c] EXCEPT !.slot = @ + 1].at = cli[c].at
      BY <1>2 DEF ClientState
    <3>2. QED BY <1>0, <2>10, <3>1, WhereTo DEF StartBroker, Return
  <2>11. QED BY <2>1, <2>2, <2>3, <2>4, <2>5, <2>6, <2>7, <2>8, <2>9, <2>10 DEF Starting, WaitServing
<1>6. QED BY <1>5

LEMMA BuildPastSeeding ==
  ASSUME TypeInv, BuildInv, NEW c \in Clients, Starting(c) \/ WaitServing(c) \/ StartBroker(c)
  PROVE  BuildInv'
<1> DEFINE Past == {"heartbeat", "poll", "complete", "changemode", "broker"}
<1>1. UNCHANGED <<topo, db, createdb, spoiled>> /\ cli[c].at \in Past
  BY DEF Starting, WaitServing, StartHeartbeat, HeartbeatsJoined, startServers, PollNode, PassOver,
         PassServing, PassIdle, PassStalled, PromotionUnread, PromotionBlocked, PromotionSafe,
         Changemode, StartBroker, At
<1>2. CASE spoiled
  BY <1>1, <1>2 DEF BuildInv
<1>3. CASE ~spoiled
  <2>1. \A n \in DBNodes : Whole(n)
    BY <1>1, <1>3 DEF BuildInv, Resumable, PastSeeding
  <2>2. PICK to : Becomes(c, to) /\ to.at \in Past \cup {"idle"}
    BY PastGoes
  <2>3. (\E n \in DBNodes : hb'[n] # "off" \/ server'[n] # "") => \A n \in DBNodes : Whole(n)
    BY <2>1
  <2>4. QED BY <1>1, <2>1, <2>2, <2>3, Onwards
<1>4. QED BY <1>2, <1>3

(* A down, from its first step to its last, and a wait that runs late.     *)
LEMMA BuildDown ==
  ASSUME TypeInv, BuildInv, NEW c \in Clients, BeginDown(c) \/ Down(c) \/ Late(c)
  PROVE  BuildInv'
<1>1. cli[c] \in ClientState /\ Fresh \in ClientState
  BY FreshType DEF TypeInv, TypeOK
<1>2. UNCHANGED <<topo, db, createdb, spoiled>>
  BY DEF BeginDown, Down, Late
<1>3. \A n \in DBNodes : (hb'[n] # "off" => hb[n] # "off") /\ (server'[n] # "" => server[n] # "")
  BY DEF BeginDown, Down, Late, TypeInv, TypeOK, MoreNodes
<1>4. CASE spoiled
  BY <1>2, <1>4 DEF BuildInv
<1>5. CASE ~spoiled
  <2>1. (\E n \in DBNodes : hb'[n] # "off" \/ server'[n] # "") => \A n \in DBNodes : Whole(n)
    BY <1>3, <1>5 DEF BuildInv, StartedOnWhole
  <2>2. CASE BeginDown(c)
    <3>1. [Fresh EXCEPT !.at = "down"].at = "down"
      BY <1>1 DEF ClientState
    <3>2. QED BY <1>2, <2>1, <2>2, <3>1, Onwards DEF BeginDown, At
  <2>3. CASE Down(c)
    <3>1. [cli[c] EXCEPT !.slot = @ + 1].at = "down"
      BY <1>1, <2>3 DEF Down, At, ClientState
    <3>2. QED BY <1>2, <2>1, <2>3, <3>1, Onwards, WhereTo DEF Down, At, Return
  <2>4. CASE Late(c)
    <3>1. [cli[c] EXCEPT !.clock = "late"].at = cli[c].at
      BY <1>1 DEF ClientState
    <3>2. \A n \in DBNodes : Whole(n)
      BY <1>5, <2>4 DEF Late, BuildInv, Resumable, PastSeeding
    <3>3. QED BY <1>2, <2>1, <2>4, <3>1, <3>2, Onwards DEF Late
  <2>5. QED BY <2>2, <2>3, <2>4
<1>6. QED BY <1>4, <1>5

(* Only the clock of a client moves.                                       *)
LEMMA BuildExpire ==
  ASSUME TypeInv, BuildInv, NEW c \in Clients, Expire(c) PROVE BuildInv'
<1> SUFFICES ASSUME ~spoiled PROVE BuildParts'
  BY DEF Expire, BuildInv, BuildParts
<1>1. BuildParts
  BY DEF BuildInv, BuildParts
<1>2. UNCHANGED <<topo, db, createdb, hb, server>>
  BY DEF Expire
<1>3. ASSUME NEW d \in Clients
      PROVE  cli'[d].at = cli[d].at /\ cli'[d].slot = cli[d].slot /\ cli'[d].file = cli[d].file
  BY DEF Expire, Becomes, TypeInv, TypeOK, ClientState
<1>4. \A n \in DBNodes : (Whole(n)' <=> Whole(n)) /\ (HasDB(n)' <=> HasDB(n))
  BY <1>2 DEF Whole, HasDB
<1>5. OneBuilder' /\ MasterBuilt' /\ Resumable'
  BY <1>1, <1>2, <1>3, <1>4 DEF BuildParts, OneBuilder, MasterBuilt, Resumable, Builds, PastSeeding, At
<1>6. ASSUME NEW d \in Clients PROVE LoopAt(d)'
  BY <1>1, <1>2, <1>3, <1>4 DEF BuildParts, LoopAt, At
<1>7. NothingAfterLgat' /\ StartedOnWhole'
  BY <1>1, <1>2, <1>4 DEF BuildParts, NothingAfterLgat, StartedOnWhole
<1>8. SeededIsWhole'
  BY <1>1, <1>2, <1>3, <1>4 DEF BuildParts, SeededIsWhole, At
<1>9. QED BY <1>5, <1>6, <1>7, <1>8 DEF BuildParts

LEMMA FileFacts ==
  /\ 1 \in Files /\ Lgat \in Files /\ NFiles \in Nat /\ Lgat \in Nat
  /\ \A f \in Files : f \in Nat /\ f <= NFiles
  /\ \A f \in Nat : f >= 1 /\ f <= NFiles => f \in Files
BY FilesAssumption DEF Files

(* While a client copies, nothing else builds, runs or is past seeding.    *)
LEMMA Copying ==
  ASSUME TypeInv, BuildParts, ~spoiled, NEW c \in Clients, At(c, "copy")
  PROVE  /\ cli[c].slot \in DBNodes /\ cli[c].slot # Master /\ cli[c].file \in Files
         /\ \A d \in Clients : Builds(d) => d = c
         /\ \A d \in Clients : ~PastSeeding(d)
         /\ createdb = FALSE /\ Whole(Master) /\ ~Whole(cli[c].slot)
         /\ \A n \in DBNodes : hb[n] = "off" /\ server[n] = ""
         /\ cli[c].file <= Lgat => ~HasDB(cli[c].slot)
<1>1. /\ cli[c].slot \in DBNodes /\ cli[c].slot >= 2 /\ cli[c].file \in Files
      /\ Lgat \in Files /\ 1 \in DBNodes /\ Lgat \in Nat /\ cli[c].file \in Nat
  BY FilesAssumption, TopologyFacts
     DEF TypeInv, TypeOK, InRange, ClientState, At, BuildParts, LoopAt, Files
<1>2. \A d \in Clients : Builds(d) => d = c
  BY DEF BuildParts, OneBuilder, Builds, At
<1>3. createdb = FALSE
  BY <1>2 DEF BuildParts, MasterBuilt, Builds, At, TypeInv, TypeOK
<1>4. Whole(1)
  BY <1>1 DEF BuildParts, LoopAt, At
<1>5. ~Whole(cli[c].slot) /\ (cli[c].file <= Lgat => ~HasDB(cli[c].slot))
  <2>1. \A f \in Files : f >= cli[c].file /\ f >= Lgat => db[cli[c].slot][f] = "absent"
    BY DEF BuildParts, LoopAt
  <2>2. CASE cli[c].file <= Lgat
    BY <1>1, <2>1, <2>2 DEF Whole, HasDB
  <2>3. CASE ~(cli[c].file <= Lgat)
    BY <1>1, <2>1, <2>3 DEF Whole
  <2>4. QED BY <2>2, <2>3
<1>6. \A d \in Clients : ~PastSeeding(d)
  BY <1>1, <1>5 DEF BuildParts, Resumable
<1>7. \A n \in DBNodes : hb[n] = "off" /\ server[n] = ""
  BY <1>1, <1>5 DEF BuildParts, StartedOnWhole
<1>8. QED BY <1>1, <1>2, <1>3, <1>4, <1>5, <1>6, <1>7

(* A copy that is cut off before it has reached _lgat leaves a database    *)
(* that the next up takes for absent.                                      *)
LEMMA BuildCutOff ==
  ASSUME TypeInv, BuildInv, NEW c \in Clients, At(c, "copy"), NEW r, Return(c, r),
         UNCHANGED <<topo, createdb, hb, server>>, ~spoiled,
         \/ cli[c].file <= Lgat /\ db' = db
         \/ cli[c].file < Lgat /\ db' = [db EXCEPT ![cli[c].slot][cli[c].file] = "torn"]
  PROVE  BuildInv'
<1> SUFFICES BuildParts'
  BY DEF BuildInv, BuildParts
<1> DEFINE s == cli[c].slot
<1>1. BuildParts
  BY DEF BuildInv, BuildParts
<1>2. /\ s \in DBNodes /\ s # 1 /\ cli[c].file \in Files
      /\ \A d \in Clients : Builds(d) => d = c
      /\ \A d \in Clients : ~PastSeeding(d)
      /\ createdb = FALSE /\ Whole(1)
      /\ \A n \in DBNodes : hb[n] = "off" /\ server[n] = ""
      /\ cli[c].file <= Lgat => ~HasDB(s)
  BY <1>1, Copying
<1>3. cli'[c].at = "idle" /\ \A d \in Clients : d # c => cli'[d] = cli[d]
  BY WhereTo DEF Return, Becomes, TypeInv, TypeOK
<1>4. Lgat \in Files /\ Lgat \in Nat /\ cli[c].file \in Nat
  BY <1>2, FileFacts
<1>5. \A n \in DBNodes \ {s} : db'[n] = db[n]
  BY <1>2 DEF TypeInv, TypeOK
<1>6. \A f \in Files : f >= Lgat => db'[s][f] = db[s][f]
  <2>1. \A f \in Files : f # cli[c].file => db'[s][f] = db[s][f]
    <3>1. CASE db' = [db EXCEPT ![s][cli[c].file] = "torn"]
      <4>1. db[s] \in [Files -> {"absent", "open", "torn", "good"}] /\ s \in DOMAIN db
        BY <1>2 DEF TypeInv, TypeOK
      <4>2. db'[s] = [db[s] EXCEPT ![cli[c].file] = "torn"]
        BY <3>1, <4>1
      <4>3. QED BY <4>1, <4>2
    <3>2. QED BY <3>1
  <2>2. cli[c].file >= Lgat => db' = db
    BY <1>4
  <2>3. QED BY <2>1, <2>2
<1>7. /\ \A n \in DBNodes : HasDB(n)' <=> HasDB(n)
      /\ \A n \in DBNodes \ {s} : Whole(n)' <=> Whole(n)
  BY <1>4, <1>5, <1>6 DEF HasDB, Whole
<1>8. \A d \in Clients : ~Builds(d)' /\ ~PastSeeding(d)'
  BY <1>2, <1>3 DEF Builds, PastSeeding
<1>9. OneBuilder' /\ Resumable' /\ \A d \in Clients : LoopAt(d)'
  BY <1>8 DEF OneBuilder, Resumable, LoopAt, Builds, At
<1>10. MasterBuilt'
  <2>1. 1 \in DBNodes
    BY TopologyFacts DEF TypeInv, TypeOK
  <2>2. \A f \in Files : db'[1][f] = "good"
    BY <1>2, <1>5, <2>1 DEF Whole
  <2>3. createdb' = FALSE /\ \A d \in Clients : ~At(d, "createdb")'
    BY <1>2, <1>8 DEF Builds, At
  <2>4. QED BY <2>2, <2>3 DEF MasterBuilt
<1>11. NothingAfterLgat'
  BY <1>1, <1>5, <1>6, <1>7 DEF BuildParts, NothingAfterLgat
<1>12. SeededIsWhole'
  <2>1. ~HasDB(s)
    <3>1. cli[c].file <= Lgat
      BY <1>4
    <3>2. QED BY <1>2, <3>1
  <2>2. \A n \in DBNodes : n # 1 /\ HasDB(n) => Whole(n)
    <3>1. \A n \in DBNodes \ {s} : \A d \in Clients : ~(At(d, "copy") /\ cli[d].slot = n)
      BY <1>2 DEF Builds, At
    <3>2. QED BY <1>1, <2>1, <3>1 DEF BuildParts, SeededIsWhole
  <2>3. QED BY <1>7, <2>1, <2>2 DEF SeededIsWhole
<1>13. StartedOnWhole'
  BY <1>2 DEF StartedOnWhole
<1>14. QED BY <1>9, <1>10, <1>11, <1>12, <1>13 DEF BuildParts

(* The one builder goes on, no database changing: it has found its loop's  *)
(* node seeded, begins to copy to it, or leaves the loop.                  *)
LEMMA BuildLoop ==
  ASSUME TypeInv, BuildInv, NEW c \in Clients, SkipSeeded(c) \/ BeginCopy(c) \/ SeedDone(c)
  PROVE  BuildInv'
<1> SUFFICES ASSUME ~spoiled PROVE BuildParts'
  BY DEF SkipSeeded, BeginCopy, SeedDone, BuildInv, BuildParts
<1>1. BuildParts
  BY DEF BuildInv, BuildParts
<1>2. /\ UNCHANGED <<topo, db, createdb, hb, server, spoiled>>
      /\ At(c, "seed") /\ cli[c].slot \in 1..topo.size + 1 /\ topo.size \in Nat
  BY TopologyFacts DEF SkipSeeded, BeginCopy, SeedDone, TypeInv, TypeOK, ClientState
<1>3. \A n \in DBNodes : (Whole(n)' <=> Whole(n)) /\ (HasDB(n)' <=> HasDB(n))
  BY <1>2 DEF Whole, HasDB
<1>4. \A d \in Clients : d # c => cli'[d] = cli[d]
  BY DEF SkipSeeded, BeginCopy, SeedDone, Becomes, TypeInv, TypeOK
<1>5. /\ \A d \in Clients : Builds(d) => d = c
      /\ cli[c].slot >= 2 /\ \A n \in DBNodes : n < cli[c].slot => Whole(n)
  BY <1>1, <1>2 DEF BuildParts, OneBuilder, LoopAt, Builds, At
<1>6. \A n \in DBNodes : n # 1 /\ HasDB(n) => Whole(n)
  BY <1>1, <1>2, <1>5 DEF BuildParts, SeededIsWhole, Builds, At
<1>7. \/ /\ SkipSeeded(c) /\ cli'[c].at = "seed" /\ cli'[c].slot = cli[c].slot + 1
         /\ MoreNodes(c) /\ HasDB(cli[c].slot)
      \/ /\ BeginCopy(c) /\ cli'[c].at = "copy" /\ cli'[c].slot = cli[c].slot /\ cli'[c].file = 1
         /\ MoreNodes(c) /\ ~HasDB(cli[c].slot)
      \/ SeedDone(c) /\ cli'[c].at = "heartbeat" /\ ~MoreNodes(c)
  <2>1. cli[c] \in ClientState
    BY DEF TypeInv, TypeOK
  <2>2. \A me : Becomes(c, me) => cli'[c] = me
    BY DEF Becomes, TypeInv, TypeOK
  <2>3. CASE SkipSeeded(c)
    <3>1. cli'[c] = [cli[c] EXCEPT !.slot = @ + 1]
      BY <2>2, <2>3 DEF SkipSeeded
    <3>2. QED BY <1>2, <2>1, <2>3, <3>1 DEF SkipSeeded, At, ClientState
  <2>4. CASE BeginCopy(c)
    <3>1. cli'[c] = [cli[c] EXCEPT !.at = "copy", !.file = 1]
      BY <2>2, <2>4 DEF BeginCopy
    <3>2. QED BY <2>1, <2>4, <3>1 DEF BeginCopy, ClientState
  <2>5. CASE SeedDone(c)
    <3>1. cli'[c] = [cli[c] EXCEPT !.at = "heartbeat"]
      BY <2>2, <2>5 DEF SeedDone
    <3>2. QED BY <2>1, <2>5, <3>1 DEF SeedDone, ClientState
  <2>6. QED BY <2>3, <2>4, <2>5
<1>8. OneBuilder' /\ MasterBuilt'
  <2>1. \A d \in Clients : Builds(d)' => d = c
    BY <1>4, <1>5 DEF Builds
  <2>2. \A d \in Clients : At(d, "createdb")' <=> At(d, "createdb")
    BY <1>2, <1>4, <1>7 DEF At
  <2>3. QED BY <1>1, <1>2, <2>1, <2>2 DEF BuildParts, OneBuilder, MasterBuilt
<1>9. Resumable'
  <2>1. ASSUME ~MoreNodes(c) PROVE \A n \in DBNodes : Whole(n)
    <3>1. cli[c].slot = topo.size + 1
      BY <1>2, <2>1 DEF MoreNodes
    <3>2. QED BY <1>2, <1>5, <3>1
  <2>2. ASSUME NEW d \in Clients, PastSeeding(d)' PROVE \A n \in DBNodes : Whole(n)
    <3>1. CASE d = c
      BY <1>7, <2>1, <2>2, <3>1 DEF PastSeeding
    <3>2. CASE d # c
      BY <1>1, <1>4, <2>2, <3>2 DEF BuildParts, Resumable, PastSeeding
    <3>3. QED BY <3>1, <3>2
  <2>3. QED BY <1>2, <1>3, <2>2 DEF Resumable
<1>10. ASSUME NEW d \in Clients PROVE LoopAt(d)'
  <2>1. CASE d # c
    BY <1>1, <1>2, <1>3, <1>4, <2>1 DEF BuildParts, LoopAt, At
  <2>2. CASE d = c /\ SkipSeeded(c)
    <3>1. \A n \in DBNodes : n < cli[c].slot + 1 => n < cli[c].slot \/ n = cli[c].slot
      BY <1>2
    <3>2. Whole(cli[c].slot)
      BY <1>2, <1>5, <1>6, <1>7, <2>2 DEF MoreNodes, SkipSeeded
    <3>3. cli'[c].at = "seed" /\ cli'[c].slot = cli[c].slot + 1
      BY <2>2, <1>7 DEF SkipSeeded, BeginCopy, SeedDone, Becomes, TypeInv, TypeOK, ClientState
    <3>4. QED BY <1>2, <1>3, <1>5, <2>2, <3>1, <3>2, <3>3 DEF LoopAt, At
  <2>3. CASE d = c /\ BeginCopy(c)
    <3>1. cli'[c].at = "copy" /\ cli'[c].slot = cli[c].slot /\ cli'[c].file = 1
      BY <2>3 DEF BeginCopy, Becomes, TypeInv, TypeOK, ClientState
    <3>2. cli[c].slot \in DBNodes /\ cli[c].slot # 1 /\ ~HasDB(cli[c].slot)
      BY <1>2, <1>5, <2>3 DEF BeginCopy, MoreNodes
    <3>3. \A f \in Files : ~(f < 1) /\ (f >= Lgat => db'[cli[c].slot][f] = "absent")
      BY <1>1, <1>2, <3>2, FileFacts DEF BuildParts, NothingAfterLgat, Files
    <3>4. QED BY <1>2, <1>3, <1>5, <2>3, <3>1, <3>3 DEF LoopAt, At
  <2>4. CASE d = c /\ SeedDone(c)
    <3>1. cli'[c].at = "heartbeat"
      BY <2>4 DEF SeedDone, Becomes, TypeInv, TypeOK, ClientState
    <3>2. QED BY <2>4, <3>1 DEF LoopAt, At
  <2>5. QED BY <2>1, <2>2, <2>3, <2>4
<1>11. NothingAfterLgat' /\ StartedOnWhole' /\ SeededIsWhole'
  BY <1>1, <1>2, <1>3, <1>6 DEF BuildParts, NothingAfterLgat, StartedOnWhole, SeededIsWhole
<1>12. QED BY <1>8, <1>9, <1>10, <1>11 DEF BuildParts

(* One file is copied, from a master that is whole and at rest.            *)
LEMMA BuildCopy ==
  ASSUME TypeInv, BuildInv, NEW c \in Clients, CopyFile(c) PROVE BuildInv'
<1> SUFFICES ASSUME ~spoiled PROVE BuildParts'
  BY DEF CopyFile, BuildInv, BuildParts
<1> DEFINE s == cli[c].slot
           k == cli[c].file
<1>1. BuildParts
  BY DEF BuildInv, BuildParts
<1>2. /\ s \in DBNodes /\ s # 1 /\ k \in Files
      /\ \A d \in Clients : Builds(d) => d = c
      /\ \A d \in Clients : ~PastSeeding(d)
      /\ createdb = FALSE /\ Whole(1)
      /\ \A n \in DBNodes : hb[n] = "off" /\ server[n] = ""
      /\ k <= Lgat => ~HasDB(s)
  BY <1>1, Copying DEF CopyFile
<1>3. /\ \A n \in DBNodes : n < s => Whole(n)
      /\ \A f \in Files : /\ f < k => db[s][f] = "good"
                          /\ f >= k /\ f >= Lgat => db[s][f] = "absent"
      /\ s >= 2 /\ s \in Nat /\ topo.size \in Nat /\ 1 \in DBNodes
  <2>1. LoopAt(c) /\ At(c, "copy")
    BY <1>1 DEF BuildParts, CopyFile
  <2>2. topo.size \in Nat /\ 1 \in DBNodes
    BY TopologyFacts DEF TypeInv, TypeOK
  <2>3. s \in Nat
    <3>1. s \in DBNodes
      BY <1>2
    <3>2. QED BY <2>2, <3>1
  <2>4. QED BY <2>1, <2>2, <2>3 DEF LoopAt, At
<1>4. CopyOf(s, k) = "good"
  BY <1>2, <1>3 DEF CopyOf, Whole
<1>5. /\ \A n \in DBNodes : n # s => db'[n] = db[n]
      /\ \A f \in Files : db'[s][f] = IF f = k THEN "good" ELSE db[s][f]
  <2>1. db[s] \in [Files -> {"absent", "open", "torn", "good"}] /\ s \in DOMAIN db
    BY <1>2 DEF TypeInv, TypeOK
  <2>2. db' = [db EXCEPT ![s][k] = "good"]
    BY <1>4 DEF CopyFile
  <2>3. db'[s] = [db[s] EXCEPT ![k] = "good"]
    BY <2>1, <2>2
  <2>4. \A n \in DBNodes : n # s => db'[n] = db[n]
    BY <1>2, <2>2 DEF TypeInv, TypeOK
  <2>5. \A f \in Files : db'[s][f] = IF f = k THEN "good" ELSE db[s][f]
    BY <1>2, <2>1, <2>3
  <2>6. QED BY <2>4, <2>5
<1>6. \A n \in DBNodes : n # s => (Whole(n)' <=> Whole(n)) /\ (HasDB(n)' <=> HasDB(n))
  BY <1>5 DEF Whole, HasDB
<1>7. /\ \A d \in Clients : d # c => cli'[d] = cli[d]
      /\ \/ MoreFiles(c) /\ cli'[c].at = "copy" /\ cli'[c].slot = s /\ cli'[c].file = k + 1
         \/ ~MoreFiles(c) /\ cli'[c].at = "seed" /\ cli'[c].slot = s + 1
  <2>1. cli[c] \in ClientState /\ At(c, "copy")
    BY DEF CopyFile, TypeInv, TypeOK
  <2>2. \A me : Becomes(c, me) => cli'[c] = me /\ \A d \in Clients : d # c => cli'[d] = cli[d]
    BY DEF Becomes, TypeInv, TypeOK
  <2>3. CASE MoreFiles(c)
    <3>1. Becomes(c, [cli[c] EXCEPT !.file = @ + 1])
      BY <2>3 DEF CopyFile
    <3>2. cli'[c] = [cli[c] EXCEPT !.file = @ + 1] /\ \A d \in Clients : d # c => cli'[d] = cli[d]
      BY <2>2, <3>1
    <3>3. QED BY <2>1, <2>3, <3>2 DEF ClientState, At
  <2>4. CASE ~MoreFiles(c)
    <3>1. Becomes(c, [cli[c] EXCEPT !.at = "seed", !.slot = @ + 1])
      BY <2>4 DEF CopyFile
    <3>2. /\ cli'[c] = [cli[c] EXCEPT !.at = "seed", !.slot = @ + 1]
          /\ \A d \in Clients : d # c => cli'[d] = cli[d]
      BY <2>2, <3>1
    <3>3. QED BY <2>1, <2>4, <3>2 DEF ClientState
  <2>5. QED BY <2>3, <2>4
<1>8. \A d \in Clients : Builds(d)' => d = c
  BY <1>2, <1>7 DEF Builds
<1>9. OneBuilder'
  BY <1>8 DEF OneBuilder
<1>10. MasterBuilt'
  <2>1. \A f \in Files : db'[1][f] = "good"
    <3>1. 1 \in DBNodes /\ s # 1 /\ Whole(1)
      BY <1>2, <1>3
    <3>2. db'[1] = db[1]
      BY <1>5, <3>1
    <3>3. QED BY <3>1, <3>2 DEF Whole
  <2>2. createdb' = FALSE
    BY <1>2 DEF CopyFile
  <2>3. \A d \in Clients : ~At(d, "createdb")'
    BY <1>7, <1>8 DEF At, Builds
  <2>4. QED BY <2>1, <2>2, <2>3 DEF MasterBuilt
<1>11. Resumable' /\ StartedOnWhole'
  BY <1>2, <1>7 DEF Resumable, PastSeeding, StartedOnWhole, CopyFile
<1>12. ~MoreFiles(c) => \A f \in Files : db'[s][f] = "good"
  <2>1. ASSUME ~MoreFiles(c), NEW f \in Files PROVE f < k \/ f = k
    <3>1. k \in Nat /\ f \in Nat /\ NFiles \in Nat /\ f <= NFiles
      BY <1>2, FileFacts
    <3>2. ~(k < NFiles)
      BY <2>1 DEF MoreFiles
    <3>3. QED BY <3>1, <3>2
  <2>2. QED BY <1>3, <1>5, <2>1
<1>13. ASSUME NEW d \in Clients PROVE LoopAt(d)'
  <2>1. CASE d # c
    BY <1>2, <1>7, <2>1 DEF LoopAt, At, Builds
  <2>2. CASE d = c /\ MoreFiles(c)
    <3>1. \A n \in DBNodes : n < s => \A f \in Files : db'[n][f] = "good"
      BY <1>3, <1>5 DEF Whole
    <3>2. ASSUME NEW f \in Files
          PROVE  /\ f < k + 1 => db'[s][f] = "good"
                 /\ f >= k + 1 /\ f >= Lgat => db'[s][f] = "absent"
      <4>1. f \in Nat /\ k \in Nat
        BY <1>2, FileFacts
      <4>2. f < k + 1 => f < k \/ f = k
        BY <4>1
      <4>3. f >= k + 1 => f # k /\ f >= k
        BY <4>1
      <4>4. QED BY <1>3, <1>5, <4>2, <4>3
    <3>3. QED BY <1>3, <1>7, <2>2, <3>1, <3>2 DEF LoopAt, At, CopyFile, Whole
  <2>3. CASE d = c /\ ~MoreFiles(c)
    <3>1. \A n \in DBNodes : n < s + 1 => n < s \/ n = s
      BY <1>3
    <3>2. \A n \in DBNodes : n < s + 1 => \A f \in Files : db'[n][f] = "good"
      BY <1>3, <1>5, <1>12, <2>3, <3>1 DEF Whole
    <3>3. cli'[c].at = "seed" /\ cli'[c].slot = s + 1
      BY <1>7, <2>3
    <3>4. cli'[d].at = "seed" /\ cli'[d].slot = s + 1 /\ s + 1 >= 2 /\ UNCHANGED topo
      BY <1>3, <2>3, <3>3 DEF CopyFile
    <3>5. QED BY <1>3, <2>3, <3>2, <3>4 DEF LoopAt, At, Whole
  <2>4. QED BY <2>1, <2>2, <2>3
<1>14. NothingAfterLgat'
  <2>1. ASSUME db'[s][Lgat] = "absent", NEW f \in Files, f >= Lgat PROVE db'[s][f] = "absent"
    <3>1. k \in Nat /\ Lgat \in Nat /\ Lgat \in Files /\ k # Lgat /\ f \in Nat
      BY <1>2, <1>5, <2>1, FileFacts
    <3>2. k < Lgat
      BY <1>3, <1>5, <2>1, <3>1
    <3>3. QED BY <1>3, <1>5, <2>1, <3>1, <3>2
  <2>2. ASSUME NEW n \in DBNodes, n # 1, n # s, db'[n][Lgat] = "absent", NEW f \in Files, f >= Lgat
        PROVE  db'[n][f] = "absent"
    BY <1>1, <1>5, <2>2 DEF BuildParts, NothingAfterLgat, HasDB
  <2>3. UNCHANGED topo
    BY DEF CopyFile
  <2>4. QED BY <2>1, <2>2, <2>3 DEF NothingAfterLgat, HasDB
<1>15. SeededIsWhole'
  <2>1. \A n \in DBNodes : n # 1 /\ n # s /\ HasDB(n) => Whole(n)
    BY <1>1, <1>2 DEF BuildParts, SeededIsWhole, Builds, At
  <2>2. ~MoreFiles(c) => \A n \in DBNodes : n = s => Whole(n)'
    BY <1>12 DEF Whole, CopyFile
  <2>3. MoreFiles(c) => At(c, "copy")' /\ cli'[c].slot = s
    BY <1>7 DEF At
  <2>4. UNCHANGED <<topo, spoiled>>
    BY DEF CopyFile
  <2>5. ASSUME NEW n \in DBNodes, n # 1, HasDB(n)', \A d \in Clients : ~(At(d, "copy") /\ cli[d].slot = n)'
        PROVE  Whole(n)'
    BY <1>6, <2>1, <2>2, <2>3, <2>5
  <2>6. QED BY <2>4, <2>5 DEF SeededIsWhole
<1>16. QED BY <1>9, <1>10, <1>11, <1>13, <1>14, <1>15 DEF BuildParts

(* A new up.  Unless it runs into another build, it finds the master built *)
(* or has nothing to find.                                                 *)
LEMMA BuildBegin ==
  ASSUME TypeInv, BuildInv, NEW c \in Clients, BeginUp(c) PROVE BuildInv'
<1> SUFFICES ASSUME ~spoiled' PROVE BuildParts'
  BY DEF BuildInv, BuildParts
<1>1. ~spoiled /\ \A d \in Clients : ~Builds(d)
  BY DEF BeginUp, Builds
<1>2. BuildParts
  BY <1>1 DEF BuildInv, BuildParts
<1>3. /\ UNCHANGED <<topo, db, hb, server>> /\ 1 \in DBNodes /\ Lgat \in Files
      /\ \A n \in DBNodes : n < 2 => n = 1
  BY TopologyFacts, FileFacts DEF BeginUp, TypeInv, TypeOK
<1>4. \A n \in DBNodes : (Whole(n)' <=> Whole(n)) /\ (HasDB(n)' <=> HasDB(n))
  BY <1>3 DEF Whole, HasDB
<1>5. createdb = FALSE
  BY <1>1, <1>2 DEF BuildParts, MasterBuilt, Builds, At, TypeInv, TypeOK
<1>6. /\ HasDB(1) => Whole(1)
      /\ ~HasDB(1) => \A f \in Files : db[1][f] = "absent"
  BY <1>2, <1>3, <1>5 DEF BuildParts, MasterBuilt, HasDB, Whole
<1>7. /\ \A d \in Clients : d # c => cli'[d] = cli[d]
      /\ cli'[c].slot = 2
      /\ \/ HasDB(1) /\ cli'[c].at = "seed" /\ createdb' = FALSE
         \/ ~HasDB(1) /\ cli'[c].at = "createdb" /\ createdb' = TRUE
  <2>1. Fresh \in ClientState
    BY FreshType DEF TypeInv, TypeOK
  <2>2. \A me : Becomes(c, me) => cli'[c] = me /\ \A d \in Clients : d # c => cli'[d] = cli[d]
    BY DEF Becomes, TypeInv, TypeOK
  <2>3. ASSUME NEW phase, Becomes(c, [Fresh EXCEPT !.at = phase, !.slot = 2])
        PROVE  /\ \A d \in Clients : d # c => cli'[d] = cli[d]
               /\ cli'[c].slot = 2 /\ cli'[c].at = phase
    <3>1. cli'[c] = [Fresh EXCEPT !.at = phase, !.slot = 2] /\ \A d \in Clients : d # c => cli'[d] = cli[d]
      BY <2>2, <2>3
    <3>2. QED BY <3>1 DEF Fresh
  <2>4. CASE HasDB(1) /\ Becomes(c, [Fresh EXCEPT !.at = "seed", !.slot = 2]) /\ UNCHANGED createdb
    BY <1>5, <2>3, <2>4
  <2>5. CASE ~HasDB(1) /\ Becomes(c, [Fresh EXCEPT !.at = "createdb", !.slot = 2]) /\ createdb' = TRUE
    BY <2>3, <2>5
  <2>6. QED BY <2>4, <2>5 DEF BeginUp
<1>8. OneBuilder'
  BY <1>1, <1>7 DEF OneBuilder, Builds
<1>9. MasterBuilt'
  <2>1. \A d \in Clients : d # c => ~At(d, "createdb")'
    BY <1>1, <1>7 DEF Builds, At
  <2>2. CASE HasDB(1)
    BY <1>3, <1>4, <1>6, <1>7, <2>1, <2>2 DEF MasterBuilt, At, Whole
  <2>3. CASE ~HasDB(1)
    BY <1>3, <1>6, <1>7, <2>1, <2>3 DEF MasterBuilt, At
  <2>4. QED BY <2>2, <2>3
<1>10. ASSUME NEW d \in Clients PROVE LoopAt(d)'
  <2>1. CASE d # c
    BY <1>1, <1>7, <2>1 DEF LoopAt, At, Builds
  <2>2. CASE d = c
    <3>1. cli'[c].at = "seed" => Whole(1)
      BY <1>6, <1>7
    <3>2. cli'[c].at # "copy" /\ cli'[c].slot = 2
      BY <1>7
    <3>3. QED BY <1>3, <1>4, <2>2, <3>1, <3>2 DEF LoopAt, At
  <2>3. QED BY <2>1, <2>2
<1>11. Resumable'
  BY <1>2, <1>3, <1>4, <1>7 DEF BuildParts, Resumable, PastSeeding
<1>12. NothingAfterLgat' /\ StartedOnWhole'
  BY <1>1, <1>2, <1>3, <1>4 DEF BuildParts, NothingAfterLgat, StartedOnWhole
<1>13. SeededIsWhole'
  <2>1. \A n \in DBNodes : n # 1 /\ HasDB(n) => Whole(n)
    BY <1>1, <1>2 DEF BuildParts, SeededIsWhole, Builds, At
  <2>2. QED BY <1>3, <1>4, <2>1 DEF SeededIsWhole
<1>14. QED BY <1>8, <1>9, <1>10, <1>11, <1>12, <1>13 DEF BuildParts

(* What ends a client: only what it leaves of a copy matters.              *)
LEMMA BuildTrouble ==
  ASSUME TypeInv, BuildInv, NEW c \in Clients, CopyFails(c) \/ Killed(c) \/ CreatedbTimesOut(c)
  PROVE  BuildInv'
<1> SUFFICES ASSUME ~spoiled' PROVE BuildInv'
  BY DEF BuildInv
<1>1. ~spoiled /\ UNCHANGED <<topo, createdb, hb, server>> /\ ~CreatedbTimesOut(c)
  BY DEF CopyFails, Killed, CreatedbTimesOut, TearFile
<1>2. PICK r : Return(c, r)
  BY DEF CopyFails, Killed, CreatedbTimesOut
<1>3. At(c, "copy") => cli[c].file \in Nat /\ Lgat \in Nat
  BY FileFacts DEF TypeInv, TypeOK, ClientState
<1>4. CASE At(c, "copy")
  <2>1. \/ cli[c].file <= Lgat /\ db' = db
        \/ cli[c].file < Lgat /\ db' = [db EXCEPT ![cli[c].slot][cli[c].file] = "torn"]
    <3>1. CASE TearFile(c)
      <4>1. ~(cli[c].file >= Lgat)
        BY <1>1, <3>1 DEF TearFile
      <4>2. QED BY <1>3, <1>4, <3>1, <4>1 DEF TearFile
    <3>2. CASE UNCHANGED db /\ spoiled' = (spoiled \/ At(c, "createdb") \/ (At(c, "copy") /\ cli[c].file > Lgat))
      <4>1. ~(cli[c].file > Lgat)
        BY <1>1, <1>4, <3>2
      <4>2. QED BY <1>3, <1>4, <3>2, <4>1
    <3>3. QED BY <1>1, <3>1, <3>2 DEF CopyFails, Killed
  <2>2. QED BY <1>1, <1>2, <1>4, <2>1, BuildCutOff
<1>5. CASE ~At(c, "copy")
  <2>1. Killed(c) /\ UNCHANGED <<db, spoiled>> /\ ~At(c, "createdb")
    BY <1>1, <1>5 DEF CopyFails, Killed, TypeInv, TypeOK
  <2>2. (\E n \in DBNodes : hb'[n] # "off" \/ server'[n] # "") => \A n \in DBNodes : Whole(n)
    BY <1>1 DEF BuildInv, StartedOnWhole
  <2>3. QED BY <1>1, <1>2, <1>5, <2>1, <2>2, WhereTo, Onwards DEF Return, At
<1>6. QED BY <1>4, <1>5

(* The engine writes a database in createdb alone, and starts nothing that *)
(* was not started before.                                                 *)
LEMMA BuildEngine ==
  ASSUME TypeInv, BuildInv, Engine PROVE BuildInv'
<1> SUFFICES ASSUME ~spoiled' PROVE BuildParts'
  BY DEF BuildInv, BuildParts
<1>1. ~spoiled /\ UNCHANGED topo
  BY DEF Engine, CreatedbWrites, CreatedbFinishes, CreatedbFails, GroupForms, Elect, Promote, Ship, Apply
<1>2. BuildParts /\ 1 \in DBNodes /\ Lgat \in Files
  BY <1>1, TopologyFacts, FileFacts DEF BuildInv, BuildParts, TypeInv, TypeOK
<1>3. CASE CreatedbWrites \/ CreatedbFinishes \/ CreatedbFails
  <2>1. createdb = TRUE
    BY <1>3 DEF CreatedbWrites, CreatedbFinishes, CreatedbFails, TypeInv, TypeOK
  <2>2. ~Whole(1)
    BY <1>2, <2>1 DEF BuildParts, MasterBuilt, Whole
  <2>3. PICK b \in Clients : At(b, "createdb")
    BY <1>2, <2>1 DEF BuildParts, MasterBuilt
  <2>4. /\ \A d \in Clients : Builds(d) <=> d = b
        /\ cli[b].slot = 2
    BY <1>2, <2>3 DEF BuildParts, OneBuilder, LoopAt, Builds, At
  <2>5. \A d \in Clients : ~PastSeeding(d)
    BY <1>2, <2>2 DEF BuildParts, Resumable
  <2>6. \A n \in DBNodes : hb[n] = "off" /\ server[n] = ""
    BY <1>1, <1>2, <2>2 DEF BuildParts, StartedOnWhole
  <2>7. \A n \in DBNodes : n # 1 => db'[n] = db[n]
    BY <1>3 DEF CreatedbWrites, CreatedbFinishes, CreatedbFails, TypeInv, TypeOK
  <2>8. \A n \in DBNodes : n # 1 /\ HasDB(n) => Whole(n)
    BY <1>1, <1>2, <2>3, <2>4 DEF BuildParts, SeededIsWhole, Builds, At
  <2>9. UNCHANGED <<hb, server>>
    BY <1>3 DEF CreatedbWrites, CreatedbFinishes, CreatedbFails
  <2>10. NothingAfterLgat' /\ SeededIsWhole' /\ StartedOnWhole'
    <3>1. NothingAfterLgat'
      BY <1>1, <1>2, <2>7 DEF BuildParts, NothingAfterLgat, HasDB
    <3>2. StartedOnWhole'
      BY <1>1, <2>6, <2>9 DEF StartedOnWhole
    <3>3. SeededIsWhole'
      BY <1>1, <2>7, <2>8 DEF SeededIsWhole, HasDB, Whole
    <3>4. QED BY <3>1, <3>2, <3>3
  <2>11. CASE CreatedbWrites
    <3>1. UNCHANGED <<cli, createdb>> /\ \A f \in Files : db'[1][f] = "open"
      BY <1>2, <2>11 DEF CreatedbWrites, TypeInv, TypeOK
    <3>2. OneBuilder' /\ MasterBuilt' /\ Resumable'
      BY <1>1, <1>2, <2>1, <2>5, <3>1
         DEF BuildParts, OneBuilder, MasterBuilt, Resumable, Builds, PastSeeding, At
    <3>3. ASSUME NEW d \in Clients PROVE LoopAt(d)'
      BY <2>3, <2>4, <3>1 DEF LoopAt, Builds, At
    <3>4. QED BY <2>10, <3>2, <3>3 DEF BuildParts
  <2>12. CASE CreatedbFinishes
    <3>1. createdb' = FALSE /\ \A f \in Files : db'[1][f] = "good"
      BY <1>2, <2>12 DEF CreatedbFinishes, TypeInv, TypeOK
    <3>2. /\ \A d \in Clients : d # b => cli'[d] = cli[d]
          /\ cli'[b].at = "seed" /\ cli'[b].slot = 2
      <4>1. \A d \in Clients : d # b => ~At(d, "createdb")
        BY <2>4 DEF Builds, At
      <4>2. cli[b] \in ClientState /\ cli'[b] = [cli[b] EXCEPT !.at = "seed"]
        BY <2>3, <2>12 DEF CreatedbFinishes, TypeInv, TypeOK
      <4>3. QED BY <2>4, <2>12, <4>1, <4>2 DEF CreatedbFinishes, ClientState
    <3>3. OneBuilder' /\ MasterBuilt' /\ Resumable'
      BY <1>1, <2>4, <2>5, <3>1, <3>2 DEF OneBuilder, MasterBuilt, Resumable, Builds, PastSeeding, At
    <3>4. ASSUME NEW d \in Clients PROVE LoopAt(d)'
      <4>1. CASE d # b
        BY <2>4, <3>2, <4>1 DEF LoopAt, Builds, At
      <4>2. CASE d = b
        <5>1. \A n \in DBNodes : n < 2 => n = 1
          BY <1>2, TopologyFacts DEF TypeInv, TypeOK
        <5>2. QED BY <1>1, <3>1, <3>2, <4>2, <5>1 DEF LoopAt, At, Whole
      <4>3. QED BY <4>1, <4>2
    <3>5. QED BY <2>10, <3>3, <3>4 DEF BuildParts
  <2>13. CASE CreatedbFails
    <3>1. createdb' = FALSE /\ \A f \in Files : db'[1][f] = "absent"
      <4>1. createdb' = FALSE /\ db' = [db EXCEPT ![1] = [f \in Files |-> "absent"]]
        BY <2>13 DEF CreatedbFails
      <4>2. QED BY <1>2, <4>1 DEF TypeInv, TypeOK
    <3>2. \A d \in Clients : ~Builds(d)' /\ ~PastSeeding(d)'
      <4>1. \A d \in Clients : IF At(d, "createdb") THEN cli'[d].at = "idle" ELSE cli'[d] = cli[d]
        BY <2>13, WhereTo DEF CreatedbFails
      <4>2. QED BY <2>3, <2>4, <2>5, <4>1 DEF Builds, PastSeeding, At
    <3>3. OneBuilder' /\ MasterBuilt' /\ Resumable' /\ \A d \in Clients : LoopAt(d)'
      BY <3>1, <3>2 DEF OneBuilder, MasterBuilt, Resumable, LoopAt, Builds, At
    <3>4. QED BY <2>10, <3>3 DEF BuildParts
  <2>14. QED BY <1>3, <2>11, <2>12, <2>13
<1>4. CASE ~(CreatedbWrites \/ CreatedbFinishes \/ CreatedbFails)
  <2>1. UNCHANGED <<db, createdb, cli, spoiled>>
    BY <1>4 DEF Engine, GroupForms, Elect, Promote, Ship, Apply
  <2>2. (\E n \in DBNodes : hb'[n] # "off" \/ server'[n] # "")
          => \E n \in DBNodes : hb[n] # "off" \/ server[n] # ""
    <3>1. CASE GroupForms
      BY <3>1 DEF GroupForms
    <3>2. ASSUME NEW n \in DBNodes, Elect(n) \/ Promote(n) \/ Ship(n) \/ Apply(n)
          PROVE  (\E m \in DBNodes : hb'[m] # "off" \/ server'[m] # "")
                   => \E m \in DBNodes : hb[m] # "off" \/ server[m] # ""
      BY <3>2 DEF Elect, Promote, Ship, Apply, TypeInv, TypeOK
    <3>3. QED BY <1>4, <3>1, <3>2 DEF Engine
  <2>3. \A n \in DBNodes : (Whole(n)' <=> Whole(n)) /\ (HasDB(n)' <=> HasDB(n))
    BY <2>1 DEF Whole, HasDB
  <2>4. OneBuilder' /\ MasterBuilt' /\ Resumable'
    BY <1>1, <1>2, <2>1, <2>3 DEF BuildParts, OneBuilder, MasterBuilt, Resumable, Builds, PastSeeding, At
  <2>5. ASSUME NEW d \in Clients PROVE LoopAt(d)'
    BY <1>1, <1>2, <2>1, <2>3 DEF BuildParts, LoopAt, At
  <2>6. NothingAfterLgat' /\ StartedOnWhole'
    BY <1>1, <1>2, <2>1, <2>2, <2>3 DEF BuildParts, NothingAfterLgat, StartedOnWhole
  <2>7. SeededIsWhole'
    BY <1>1, <1>2, <2>1, <2>3 DEF BuildParts, SeededIsWhole, At
  <2>8. QED BY <2>4, <2>5, <2>6, <2>7 DEF BuildParts
<1>5. QED BY <1>3, <1>4

LEMMA BuildStep == TypeInv /\ BuildInv /\ [Next]_vars => BuildInv'
<1> SUFFICES ASSUME TypeInv, BuildInv, [Next]_vars PROVE BuildInv'
  OBVIOUS
<1>1. ASSUME NEW c \in Clients, Command(c) \/ Step(c) \/ Trouble(c) PROVE BuildInv'
  BY <1>1, BuildBegin, BuildLoop, BuildCopy, BuildPastSeeding, BuildDown, BuildExpire, BuildTrouble
     DEF Command, Step, Trouble, Seeding
<1>2. CASE UNCHANGED vars
  <2>1. UNCHANGED <<topo, db, createdb, hb, server, cli, spoiled>>
    BY <1>2
  <2>2. OneBuilder' = OneBuilder /\ MasterBuilt' = MasterBuilt /\ Resumable' = Resumable
    BY <2>1 DEF OneBuilder, MasterBuilt, Resumable, Builds, PastSeeding, At, Whole
  <2>3. ASSUME NEW d \in Clients PROVE LoopAt(d)' = LoopAt(d)
    BY <2>1 DEF LoopAt, At, Whole
  <2>4. NothingAfterLgat' = NothingAfterLgat /\ StartedOnWhole' = StartedOnWhole
    BY <2>1 DEF NothingAfterLgat, StartedOnWhole, HasDB, Whole
  <2>5. SeededIsWhole' = SeededIsWhole
    BY <2>1 DEF SeededIsWhole, HasDB, Whole, At
  <2>6. QED BY <2>1, <2>2, <2>3, <2>4, <2>5 DEF BuildInv
<1>3. QED BY <1>1, <1>2, BuildEngine DEF Next

(* The inductive invariant: who may build, and what each builder knows.    *)
THEOREM BuildCorrect == Spec => []BuildInv
<1>1. Spec => [](TypeInv /\ BuildInv)
  BY TypeInit, TypeStep, BuildInit, BuildStep, PTL DEF Spec
<1>2. QED BY <1>1, PTL

(* Unless a build is cut off or overlapped, a standby that Seed would skip *)
(* is a whole database.                                                    *)
THEOREM SeededCorrect == Spec => []SeededIsWhole
<1>1. BuildInv => SeededIsWhole
  BY DEF BuildInv, SeededIsWhole
<1>2. QED BY <1>1, BuildCorrect, PTL

(* And nothing is started in a group that has a node without a whole one.  *)
THEOREM StartedCorrect == Spec => []StartedOnWhole
<1>1. BuildInv => StartedOnWhole
  BY DEF BuildInv, StartedOnWhole
<1>2. QED BY <1>1, BuildCorrect, PTL

(* Only createdb and a copy write databases; a spoiled build stays spoiled. *)
Unwritten ==
  /\ spoiled = TRUE => spoiled' = TRUE
  /\ createdb = FALSE /\ (\A c \in Clients : ~At(c, "copy")) => UNCHANGED db

LEMMA WhoWrites == Next => Unwritten
<1>1. ASSUME NEW c \in Clients, Command(c) PROVE Unwritten
  <2>1. CASE BeginUp(c)
    BY <2>1 DEF Unwritten, BeginUp
  <2>2. CASE BeginDown(c)
    BY <2>2 DEF Unwritten, BeginDown
  <2>3. QED BY <1>1, <2>1, <2>2 DEF Command
<1>2. ASSUME NEW c \in Clients, Step(c) PROVE Unwritten
  <2>1. CASE CreatedbTimesOut(c)
    BY <2>1 DEF Unwritten, CreatedbTimesOut
  <2>2. CASE Seeding(c)
    BY <2>2 DEF Unwritten, Seeding, SkipSeeded, BeginCopy, CopyFile, SeedDone
  <2>3. CASE Starting(c)
    BY <2>3 DEF Unwritten, Starting, StartHeartbeat, HeartbeatsJoined, startServers
  <2>4. CASE WaitServing(c)
    BY <2>4 DEF Unwritten, WaitServing, PollNode, PassServing, PassIdle, PassStalled, PromotionUnread,
                PromotionBlocked, PromotionSafe, Changemode
  <2>5. CASE StartBroker(c) \/ Down(c)
    BY <2>5 DEF Unwritten, StartBroker, Down
  <2>6. QED BY <1>2, <2>1, <2>2, <2>3, <2>4, <2>5 DEF Step
<1>3. ASSUME NEW c \in Clients, Trouble(c) PROVE Unwritten
  <2>1. CASE CopyFails(c)
    BY <2>1 DEF Unwritten, CopyFails, TearFile
  <2>2. CASE Late(c) \/ Expire(c)
    BY <2>2 DEF Unwritten, Late, Expire
  <2>3. CASE Killed(c)
    BY <2>3 DEF Unwritten, Killed, TearFile
  <2>4. QED BY <1>3, <2>1, <2>2, <2>3 DEF Trouble
<1>4. CASE Engine
  <2>1. CASE CreatedbWrites \/ CreatedbFinishes \/ CreatedbFails
    BY <2>1 DEF Unwritten, CreatedbWrites, CreatedbFinishes, CreatedbFails
  <2>2. CASE GroupForms
    BY <2>2 DEF Unwritten, GroupForms
  <2>3. ASSUME NEW n \in DBNodes, Elect(n) \/ Promote(n) \/ Ship(n) \/ Apply(n) PROVE Unwritten
    BY <2>3 DEF Unwritten, Elect, Promote, Ship, Apply
  <2>4. QED BY <1>4, <2>1, <2>2, <2>3 DEF Engine
<1>5. QED BY <1>1, <1>2, <1>3, <1>4 DEF Next

(* And no step writes into the database of a server that is up: only       *)
(* createdb and a copy write, and both exclude a running server.           *)
THEOREM NoCopyCorrect == Spec => NoCopyUnderServer
<1> DEFINE Safe == ~spoiled' => \A n \in DBNodes : server[n] # "" => db'[n] = db[n]
<1>1. ASSUME TypeInv, BuildInv, [Next]_vars PROVE [Safe]_vars
  <2> SUFFICES ASSUME ~spoiled', NEW n \in DBNodes, server[n] # "", Next PROVE db'[n] = db[n]
    BY <1>1
  <2>1. ~spoiled
    BY WhoWrites DEF Unwritten
  <2>2. BuildParts
    BY <1>1, <2>1 DEF BuildInv, BuildParts
  <2>3. \A m \in DBNodes : Whole(m)
    BY <2>1, <2>2 DEF BuildParts, StartedOnWhole
  <2>4. \A c \in Clients : ~At(c, "copy")
    BY <1>1, <2>1, <2>2, <2>3, Copying
  <2>5. createdb = FALSE
    <3>1. 1 \in DBNodes /\ Lgat \in Files
      BY <1>1, TopologyFacts, FileFacts DEF TypeInv, TypeOK
    <3>2. QED BY <1>1, <2>2, <2>3, <3>1 DEF BuildParts, MasterBuilt, Whole, TypeInv, TypeOK
  <2>6. UNCHANGED db
    BY <2>4, <2>5, WhoWrites DEF Unwritten
  <2>7. QED BY <2>6
<1>2. Spec => [](TypeInv /\ BuildInv)
  BY TypeInit, TypeStep, BuildInit, BuildStep, PTL DEF Spec
<1>3. Spec => [][Safe]_vars
  BY <1>1, <1>2, PTL DEF Spec
<1>4. QED BY <1>3 DEF NoCopyUnderServer
-----------------------------------------------------------------------------
(* The ladder.  A server is there only in a group that has formed, and of  *)
(* a pair only one leads, whoever builds, stops or is killed.              *)

Leads(n) == server[n] \in {"to_be_active", "active"}
GroupInv ==
  /\ topo.haOff => \A n \in DBNodes : hb[n] = "off" /\ server[n] \in {"", "standalone"}
  /\ ~topo.haOff => \A n \in DBNodes : server[n] # "standalone" /\ (hb[n] # "on" => server[n] = "")
  /\ \A n, m \in DBNodes : Leads(n) /\ Leads(m) => n = m

(* Who starts and stops heartbeats and servers.                            *)
LEMMA WhoMoves ==
  ASSUME [Next]_vars
  PROVE  /\ UNCHANGED topo
         /\ \/ UNCHANGED <<hb, server>>
            \/ \E c \in Clients : (\E n \in DBNodes : StartHeartbeat(c, n)) \/ startServers(c) \/ Changemode(c) \/ Down(c)
            \/ GroupForms \/ \E n \in DBNodes : Elect(n) \/ Promote(n)
<1>1. ASSUME NEW c \in Clients, Command(c) \/ Seeding(c) \/ Trouble(c) \/ CreatedbTimesOut(c) \/ StartBroker(c)
      PROVE  UNCHANGED <<topo, hb, server>>
  BY <1>1 DEF Command, BeginUp, BeginDown, Seeding, SkipSeeded, BeginCopy, CopyFile, SeedDone, Trouble, CopyFails,
     Late, Expire, Killed, CreatedbTimesOut, StartBroker
<1>2. ASSUME NEW c \in Clients, Starting(c)
      PROVE  UNCHANGED topo /\ (UNCHANGED <<hb, server>> \/ (\E n \in DBNodes : StartHeartbeat(c, n)) \/ startServers(c))
  BY <1>2 DEF Starting, HeartbeatsJoined, StartHeartbeat, startServers
<1>3. ASSUME NEW c \in Clients, WaitServing(c)
      PROVE  UNCHANGED topo /\ (UNCHANGED <<hb, server>> \/ Changemode(c))
  BY <1>3 DEF WaitServing, PollNode, PassServing, PassIdle, PassStalled, PromotionUnread, PromotionBlocked,
     PromotionSafe, Changemode
<1>4. ASSUME NEW c \in Clients, Down(c) PROVE UNCHANGED topo
  BY <1>4 DEF Down
<1>5. CASE Engine
  BY <1>5 DEF Engine, CreatedbWrites, CreatedbFinishes, CreatedbFails, GroupForms, Elect, Promote, Ship, Apply
<1>6. CASE UNCHANGED vars
  BY <1>6
<1>7. QED
  BY <1>1, <1>2, <1>3, <1>4, <1>5, <1>6 DEF Next, Step

LEMMA GroupInit == Init => GroupInv
BY DEF Init, GroupInv, Leads

LEMMA GroupStep == TypeInv /\ GroupInv /\ [Next]_vars => GroupInv'
<1> SUFFICES ASSUME TypeInv, GroupInv, [Next]_vars PROVE GroupInv'
  OBVIOUS
<1>1. /\ UNCHANGED topo /\ hb \in [DBNodes -> {"off", "starting", "on"}] /\ server \in [DBNodes -> ServerStates]
      /\ 1 \in DBNodes
  BY WhoMoves, TopologyFacts DEF TypeInv, TypeOK
<1>2. CASE UNCHANGED <<hb, server>>
  BY <1>1, <1>2 DEF GroupInv, Leads
<1>3. ASSUME NEW c \in Clients, NEW n \in DBNodes, StartHeartbeat(c, n) PROVE GroupInv'
  BY <1>1, <1>3 DEF StartHeartbeat, GroupInv, Leads
<1>4. ASSUME NEW c \in Clients, startServers(c) PROVE GroupInv'
  BY <1>1, <1>4 DEF startServers, GroupInv, Leads
<1>5. ASSUME NEW c \in Clients, Changemode(c) PROVE GroupInv'
  <2>1. \/ server' = server
        \/ Leads(cli[c].waiting) /\ server' = [server EXCEPT ![cli[c].waiting] = "active"]
    BY <1>5 DEF Changemode, Leads
  <2>2. hb' = hb
    BY <1>5 DEF Changemode
  <2>3. CASE Leads(cli[c].waiting) /\ server' = [server EXCEPT ![cli[c].waiting] = "active"]
    <3> DEFINE w == cli[c].waiting
    <3> HIDE DEF w
    <3>1. Leads(w) /\ server' = [server EXCEPT ![w] = "active"]
      BY <2>3 DEF w
    <3>2. \A n \in DBNodes : server'[n] = IF n = w THEN "active" ELSE server[n]
      BY <1>1, <3>1
    <3>3. \A n \in DBNodes : Leads(n)' <=> Leads(n)
      BY <3>1, <3>2 DEF Leads
    <3>4. \A n \in DBNodes : server'[n] = server[n] \/ (Leads(n) /\ server'[n] = "active")
      BY <3>1, <3>2
    <3>5. \A n \in DBNodes : Leads(n) => ~topo.haOff /\ hb[n] = "on"
      BY DEF GroupInv, Leads
    <3>6. QED
      BY <1>1, <2>2, <3>3, <3>4, <3>5 DEF GroupInv
  <2>4. QED
    BY <1>1, <1>2, <2>1, <2>2, <2>3
<1>6. ASSUME NEW c \in Clients, Down(c) PROVE GroupInv'
  <2>1. \/ UNCHANGED <<hb, server>>
        \/ /\ server' = [server EXCEPT ![cli[c].slot] = ""]
           /\ hb' = [hb EXCEPT ![cli[c].slot] = "off"]
    BY <1>6 DEF Down
  <2>2. CASE server' = [server EXCEPT ![cli[c].slot] = ""] /\ hb' = [hb EXCEPT ![cli[c].slot] = "off"]
    <3>1. \A n \in DBNodes : \/ server'[n] = server[n] /\ hb'[n] = hb[n]
                             \/ server'[n] = "" /\ hb'[n] = "off"
      BY <1>1, <2>2
    <3>2. QED
      BY <1>1, <3>1 DEF GroupInv, Leads
  <2>3. QED
    BY <1>2, <2>1, <2>2
<1>7. CASE GroupForms
  <2>1. ~topo.haOff
    BY <1>1, <1>7 DEF GroupForms, GroupInv
  <2>2. \A n \in DBNodes : hb'[n] = "on" /\ (server'[n] = server[n] \/ (server'[n] = "standby" /\ hb[n] = "starting"))
    BY <1>7 DEF GroupForms
  <2>3. QED
    BY <1>1, <2>1, <2>2 DEF GroupInv, Leads
<1>8. ASSUME NEW n \in DBNodes, Elect(n) PROVE GroupInv'
  <2>1. hb' = hb /\ \A m \in DBNodes : server'[m] = IF m = n THEN "to_be_active" ELSE server[m]
    BY <1>1, <1>8 DEF Elect
  <2>2. server[n] = "standby" /\ \A m \in DBNodes : ~Leads(m)
    BY <1>8 DEF Elect, Leads
  <2>3. ~topo.haOff /\ hb[n] = "on"
    BY <2>2 DEF GroupInv
  <2>4. \A m \in DBNodes : Leads(m)' => m = n
    BY <2>1, <2>2 DEF Leads
  <2>5. QED
    BY <1>1, <2>1, <2>3, <2>4 DEF GroupInv
<1>9. ASSUME NEW n \in DBNodes, Promote(n) PROVE GroupInv'
  <2>1. hb' = hb /\ \A m \in DBNodes : server'[m] = IF m = n THEN "active" ELSE server[m]
    BY <1>1, <1>9 DEF Promote
  <2>2. server[n] = "to_be_active"
    BY <1>9 DEF Promote
  <2>3. ~topo.haOff /\ hb[n] = "on"
    BY <2>2 DEF GroupInv
  <2>4. \A m \in DBNodes : Leads(m)' <=> Leads(m)
    BY <2>1, <2>2 DEF Leads
  <2>5. QED
    BY <1>1, <2>1, <2>3, <2>4 DEF GroupInv
<1>10. QED
  BY WhoMoves, <1>2, <1>3, <1>4, <1>5, <1>6, <1>7, <1>8, <1>9

(* A node other than the master keeps a database that it has.              *)
LEMMA KeepsDB ==
  ASSUME TypeInv, [Next]_vars, NEW n \in DBNodes, n # Master, HasDB(n), topo' = topo
  PROVE  HasDB(n)'
<1>1. db \in [DBNodes -> [Files -> {"absent", "open", "torn", "good"}]] /\ Lgat \in Files
  BY FilesAssumption DEF TypeInv, TypeOK
<1>2. ASSUME NEW c \in Clients, Command(c) \/ Step(c) \/ Trouble(c) PROVE HasDB(n)'
  <2>1. CASE CopyFile(c)
    <3> DEFINE s == cli[c].slot
               f == cli[c].file
    <3>1. db' = [db EXCEPT ![s][f] = CopyOf(s, f)]
      BY <2>1 DEF CopyFile
    <3>2. CopyOf(s, f) = "absent" => db[s][f] = "absent"
      BY DEF CopyOf
    <3> HIDE DEF s, f
    <3>3. db'[n][Lgat] = IF n = s /\ Lgat = f THEN CopyOf(s, f) ELSE db[n][Lgat]
      BY <1>1, <3>1
    <3>4. QED
      BY <3>2, <3>3 DEF HasDB
  <2>2. CASE TearFile(c)
    BY <1>1, <2>2 DEF TearFile, HasDB
  <2>3. CASE UNCHANGED db
    BY <2>3 DEF HasDB
  <2>4. QED
    BY <1>2, <2>1, <2>2, <2>3 DEF Command, BeginUp, BeginDown, Step, CreatedbTimesOut, Seeding, SkipSeeded, BeginCopy, SeedDone,
       Starting, StartHeartbeat, HeartbeatsJoined, startServers, WaitServing, PollNode, PassServing, PassIdle, PassStalled,
       PromotionUnread, PromotionBlocked, PromotionSafe, Changemode, StartBroker, Down, Trouble, CopyFails, Late, Expire, Killed
<1>3. CASE Engine
  <2>1. CASE CreatedbWrites \/ CreatedbFinishes \/ CreatedbFails
    BY <1>1, <2>1 DEF CreatedbWrites, CreatedbFinishes, CreatedbFails, HasDB
  <2>2. CASE UNCHANGED db
    BY <2>2 DEF HasDB
  <2>3. QED
    BY <1>3, <2>1, <2>2 DEF Engine, GroupForms, Elect, Promote, Ship, Apply
<1>4. CASE UNCHANGED vars
  BY <1>4 DEF HasDB
<1>5. QED
  BY <1>2, <1>3, <1>4 DEF Next

(* What a step may do to the state that is read off the world.             *)
Rungs ==
  \/ State' = State
  \/ ~topo.haOff /\ State = "defined" /\ State' = "seeded"
  \/ ~topo.haOff /\ State = "seeded" /\ State' = "forming"
  \/ State = (IF topo.haOff THEN "seeded" ELSE "forming") /\ State' = "serving"
  \/ State \in {"forming", "serving"} /\ State' = "seeded"

LEMMA OneRung ==
  ASSUME TypeInv, BuildInv, GroupInv, ~spoiled, [Next]_vars
  PROVE  Rungs
<1>1. /\ UNCHANGED topo /\ hb \in [DBNodes -> {"off", "starting", "on"}] /\ server \in [DBNodes -> ServerStates]
      /\ 1 \in DBNodes /\ topo.size \in Nat \ {0} /\ (topo.haOff <=> topo.size = 1) /\ Lgat \in Files
  BY WhoMoves, TopologyFacts, FilesAssumption DEF TypeInv, TypeOK
<1>2. (\E n \in DBNodes : hb[n] # "off" \/ server[n] # "") => seeded
  <2>1. ASSUME \A n \in DBNodes : Whole(n) PROVE seeded
    <3>1. CASE topo.size < 2
      BY <3>1 DEF seeded
    <3>2. CASE 2 \in DBNodes
      BY <1>1, <2>1, <3>2 DEF seeded, HasDB, Whole
    <3>3. QED
      BY <1>1, <3>1, <3>2
  <2>2. QED
    BY <2>1 DEF BuildInv, StartedOnWhole
<1>3. seeded => seeded'
  <2>1. CASE topo.size < 2
    BY <1>1, <2>1 DEF seeded
  <2>2. CASE 2 \in DBNodes /\ HasDB(2)
    BY <1>1, <2>2, KeepsDB DEF seeded
  <2>3. QED
    BY <1>1, <2>1, <2>2 DEF seeded
<1>4. ~seeded => ~topo.haOff /\ server[1] = ""
  <2>1. ~seeded => topo.size # 1
    BY DEF seeded
  <2>2. ~seeded => ~(server[1] # "")
    BY <1>1, <1>2
  <2>3. QED
    BY <1>1, <2>1, <2>2
<1>5. CASE server'[1] = server[1]
  BY <1>1, <1>3, <1>4, <1>5 DEF Rungs, State, activeState
<1>a. ASSUME server'[1] # server[1] PROVE seeded
  <2>1. ASSUME server[1] = "" PROVE topo.haOff \/ \E n \in DBNodes : hb[n] # "off"
    <3>1. ASSUME NEW c \in Clients, Changemode(c) \/ Down(c) PROVE FALSE
      <4>1. Changemode(c) => server'[1] = server[1]
        BY <1>1, <2>1 DEF Changemode
      <4>2. Down(c) => server' \in {server, [server EXCEPT ![cli[c].slot] = ""]}
        BY DEF Down
      <4>3. Down(c) => server'[1] = server[1]
        BY <1>1, <2>1, <4>2
      <4>4. QED
        BY <1>a, <3>1, <4>1, <4>3
    <3>2. ASSUME NEW n \in DBNodes, Elect(n) \/ Promote(n) PROVE FALSE
      <4>1. Elect(n) => server'[1] = server[1]
        BY <1>1, <2>1 DEF Elect
      <4>2. Promote(n) => server'[1] = server[1]
        BY <1>1, <2>1 DEF Promote
      <4>3. QED
        BY <1>a, <3>2, <4>1, <4>2
    <3>3. ASSUME NEW c \in Clients, startServers(c) PROVE topo.haOff
      BY <3>3 DEF startServers
    <3>4. CASE GroupForms
      BY <3>4 DEF GroupForms
    <3>5. ASSUME NEW c \in Clients, NEW n \in DBNodes, StartHeartbeat(c, n) PROVE FALSE
      BY <1>a, <3>5 DEF StartHeartbeat
    <3>6. QED
      BY <1>a, WhoMoves, <3>1, <3>2, <3>3, <3>4, <3>5
  <2>2. topo.haOff => seeded
    BY <1>4
  <2>3. QED
    BY <1>1, <1>2, <2>1, <2>2
<1>6. ASSUME server'[1] # server[1], seeded, seeded' PROVE Rungs
  <2>1. ASSUME NEW c \in Clients, startServers(c) PROVE Rungs
    BY <1>1, <1>6, <2>1 DEF startServers, GroupInv, Rungs, State, activeState
  <2>2. ASSUME NEW c \in Clients, Changemode(c) PROVE Rungs
    <3>1. server[1] \in {"to_be_active", "active"} /\ server'[1] = "active"
      BY <1>1, <1>6, <2>2 DEF Changemode
    <3>2. ~topo.haOff
      BY <1>1, <3>1 DEF GroupInv
    <3>3. QED
      BY <1>1, <1>6, <3>1, <3>2 DEF Rungs, State, activeState
  <2>3. ASSUME NEW c \in Clients, Down(c) PROVE Rungs
    <3>1. server'[1] = ""
      <4>1. server' \in {server, [server EXCEPT ![cli[c].slot] = ""]}
        BY <2>3 DEF Down
      <4>2. QED
        BY <1>1, <1>6, <4>1
    <3>2. State' = "seeded"
      BY <1>6, <3>1 DEF State, activeState
    <3>3. State \in {"seeded", "serving", "forming"}
      BY <1>6 DEF State
    <3>4. QED
      BY <1>1, <3>2, <3>3 DEF Rungs
  <2>4. CASE GroupForms
    <3>1. ~topo.haOff /\ server[1] = "" /\ server'[1] = "standby"
      BY <1>1, <1>6, <2>4 DEF GroupForms, GroupInv
    <3>2. QED
      BY <1>1, <1>6, <3>1 DEF Rungs, State, activeState
  <2>5. ASSUME NEW n \in DBNodes, Elect(n) \/ Promote(n) PROVE Rungs
    <3>1. \/ server[1] = "standby" /\ server'[1] = "to_be_active"
          \/ server[1] = "to_be_active" /\ server'[1] = "active"
      BY <1>1, <1>6, <2>5 DEF Elect, Promote
    <3>2. ~topo.haOff
      BY <1>1, <3>1 DEF GroupInv
    <3>3. QED
      BY <1>1, <1>6, <3>1, <3>2 DEF Rungs, State, activeState
  <2>6. ASSUME NEW c \in Clients, NEW n \in DBNodes, StartHeartbeat(c, n) PROVE Rungs
    BY <1>6, <2>6 DEF StartHeartbeat
  <2>7. QED
    BY <1>6, WhoMoves, <2>1, <2>2, <2>3, <2>4, <2>5, <2>6
<1>7. QED
  BY <1>3, <1>5, <1>a, <1>6

(* Assembler.State climbs and falls as Stages says, whatever csb processes *)
(* and the engine do, unless a build was cut off or overlapped: no cluster *)
(* serves that has not formed, none forms that has not been seeded, and a  *)
(* down takes it back to its databases (assembly.go:67-92).               *)
THEOREM StagesCorrect == Spec => StagesInOrder
<1> DEFINE Climbs == ~spoiled' => [Ladder!Next]_<<topo.haOff, State>>
<1>1. Init => Ladder!Init
  <2> SUFFICES ASSUME Init PROVE Ladder!Init
    OBVIOUS
  <2>1. topo.haOff \in BOOLEAN /\ (topo.haOff <=> topo.size = 1) /\ topo.size \in Nat \ {0} /\ 1 \in DBNodes
    BY TopologyFacts DEF Init
  <2>2. server[1] = "" /\ (2 \in DBNodes => ~HasDB(2))
    <3>1. Lgat \in Files
      BY FilesAssumption
    <3>2. \A n \in DBNodes : server[n] = "" /\ db[n][Lgat] = "absent"
      BY <3>1 DEF Init
    <3>3. QED
      BY <2>1, <3>2 DEF HasDB
  <2>3. seeded <=> topo.haOff
    <3>1. CASE topo.size = 1
      BY <2>1, <3>1 DEF seeded
    <3>2. CASE topo.size # 1
      <4>1. 2 \in DBNodes /\ ~(topo.size < 2)
        BY <2>1, <3>2
      <4>2. QED
        BY <2>1, <2>2, <3>2, <4>1 DEF seeded
    <3>3. QED
      BY <3>1, <3>2
  <2>4. State = IF topo.haOff THEN "seeded" ELSE "defined"
    BY <2>2, <2>3 DEF State, activeState
  <2>5. QED
    BY <2>1, <2>4 DEF Ladder!Init
<1>2. TypeInv /\ BuildInv /\ GroupInv /\ [Next]_vars => [Climbs]_vars
  <2> SUFFICES ASSUME TypeInv, BuildInv, GroupInv, Next, ~spoiled' PROVE [Ladder!Next]_<<topo.haOff, State>>
    OBVIOUS
  <2>1. ~spoiled
    BY WhoWrites DEF Unwritten, TypeInv, TypeOK
  <2>2. Rungs /\ topo' = topo
    BY <2>1, OneRung, WhoMoves
  <2>3. QED
    BY <2>2 DEF Rungs, Ladder!Next, Ladder!Seeded, Ladder!Forming, Ladder!Serving, Ladder!Stopped
<1>3. Spec => [](TypeInv /\ BuildInv /\ GroupInv)
  BY TypeInit, TypeStep, BuildInit, BuildStep, GroupInit, GroupStep, PTL DEF Spec
<1>4. Spec => Ladder!Init /\ [][Climbs]_vars
  BY <1>1, <1>2, <1>3, PTL DEF Spec
<1>5. QED
  BY <1>4 DEF StagesInOrder

-----------------------------------------------------------------------------
(* A csb process that is alone.  Whatever it is killed in, and whatever a  *)
(* createdb that it left behind does, no file is written under a server:   *)
(* the master's files are all of one kind, and a copy that lacks _lgat has *)
(* nothing good from there on, so what is being copied cannot be served.   *)

Alone == \A c, d \in Clients : c = d
Builders == {"createdb", "seed", "copy"}

Served == \A n \in DBNodes : server[n] # "" => Whole(n)
OnePiece ==
  /\ \A f \in Files : db[Master][f] = db[Master][Lgat]
  /\ createdb => db[Master][Lgat] \in {"absent", "open"}
Headless == \A n \in DBNodes \ {Master} : ~HasDB(n) => \A f \in Files : f >= Lgat => db[n][f] # "good"
Seeder(c) ==
  /\ cli[c].at \in Builders => cli[c].slot >= 2
  /\ cli[c].at \in {"seed", "copy"} /\ createdb => HasDB(Master)
  /\ At(c, "copy") =>
       /\ cli[c].file <= Lgat => ~HasDB(cli[c].slot)
       /\ cli[c].file > Lgat /\ ~HasDB(cli[c].slot) => ~HasDB(Master)
       /\ \A f \in Files : f >= cli[c].file /\ f >= Lgat => db[cli[c].slot][f] # "good"
FilesInv == Served /\ OnePiece /\ Headless /\ \A c \in Clients : Seeder(c)

LEMMA FilesInit == Init => FilesInv
<1> SUFFICES ASSUME Init PROVE FilesInv
  OBVIOUS
<1>1. Lgat \in Files /\ 1 \in DBNodes
  BY FilesAssumption, TopologyFacts DEF Init
<1>2. \A c \in Clients : cli[c].at = "idle"
  BY DEF Init, Fresh
<1>3. QED
  BY <1>1, <1>2 DEF Init, FilesInv, Served, OnePiece, Headless, Seeder, At, Builders

(* A server comes up only on a whole database.                             *)
LEMMA StartsOnWhole ==
  ASSUME TypeInv, [Next]_vars, NEW n \in DBNodes, server'[n] # ""
  PROVE  server[n] # "" \/ Whole(n)
<1>1. server \in [DBNodes -> ServerStates] /\ topo' = topo
  BY WhoMoves DEF TypeInv, TypeOK
<1>2. ASSUME NEW c \in Clients, startServers(c) \/ Changemode(c) \/ Down(c) PROVE server[n] # "" \/ Whole(n)
  BY <1>1, <1>2 DEF startServers, Changemode, Down
<1>3. ASSUME NEW c \in Clients, NEW m \in DBNodes, StartHeartbeat(c, m) PROVE server[n] # "" \/ Whole(n)
  BY <1>3 DEF StartHeartbeat
<1>4. CASE GroupForms
  BY <1>1, <1>4 DEF GroupForms
<1>5. ASSUME NEW m \in DBNodes, Elect(m) \/ Promote(m) PROVE server[n] # "" \/ Whole(n)
  BY <1>1, <1>5 DEF Elect, Promote
<1>6. QED
  BY WhoMoves, <1>2, <1>3, <1>4, <1>5

(* A step that writes no file, and makes nobody a builder.                 *)
LEMMA FilesKept ==
  ASSUME TypeInv, FilesInv, [Next]_vars, UNCHANGED <<db, createdb>>,
         \A c \in Clients : cli'[c].at \in Builders =>
           cli'[c].at = cli[c].at /\ cli'[c].slot = cli[c].slot /\ cli'[c].file = cli[c].file
  PROVE  FilesInv'
<1>1. topo' = topo
  BY WhoMoves
<1>2. \A n \in DBNodes : Whole(n)' = Whole(n) /\ HasDB(n)' = HasDB(n)
  BY DEF Whole, HasDB
<1>3. Served'
  BY <1>1, <1>2, StartsOnWhole DEF FilesInv, Served
<1>4. OnePiece' /\ Headless'
  BY <1>1 DEF FilesInv, OnePiece, Headless, HasDB
<1>5. ASSUME NEW c \in Clients PROVE Seeder(c)'
  BY <1>1 DEF FilesInv, Seeder, HasDB, At, Builders
<1>6. QED
  BY <1>3, <1>4, <1>5 DEF FilesInv

(* Where a step of a client that writes no file takes it.                  *)
LEMMA GoesOn ==
  ASSUME TypeInv, NEW c \in Clients,
         BeginDown(c) \/ CreatedbTimesOut(c) \/ SeedDone(c) \/ Starting(c) \/ WaitServing(c) \/ StartBroker(c)
         \/ Down(c) \/ Late(c) \/ Expire(c)
  PROVE  /\ UNCHANGED <<db, createdb>> /\ \A d \in Clients \ {c} : cli'[d] = cli[d]
         /\ cli'[c].at \in Builders => cli'[c].at = cli[c].at /\ cli'[c].slot = cli[c].slot /\ cli'[c].file = cli[c].file
<1>1. cli \in [Clients -> ClientState] /\ cli[c] \in ClientState
  BY DEF TypeInv, TypeOK
<1>2. CASE Starting(c) \/ WaitServing(c) \/ StartBroker(c)
  <2>1. PICK to : Becomes(c, to) /\ to.at \in {"heartbeat", "poll", "complete", "changemode", "broker", "idle"}
    BY <1>2, PastGoes
  <2>2. UNCHANGED <<db, createdb>>
    BY <1>2 DEF Starting, StartHeartbeat, HeartbeatsJoined, startServers, WaitServing, PollNode, PassServing, PassIdle,
       PassStalled, PromotionUnread, PromotionBlocked, PromotionSafe, Changemode, StartBroker
  <2>3. QED
    BY <1>1, <2>1, <2>2 DEF Becomes, Builders
<1>3. CASE CreatedbTimesOut(c)
  <2>1. Becomes(c, Returned(c, "error")) /\ UNCHANGED <<db, createdb>>
    BY <1>3 DEF CreatedbTimesOut, Return
  <2>2. QED
    BY <1>1, <2>1, WhereTo DEF Becomes, Builders
<1>4. CASE BeginDown(c)
  <2>1. cli' = [cli EXCEPT ![c] = [Fresh EXCEPT !.at = "down"]] /\ UNCHANGED <<db, createdb>>
    BY <1>4 DEF BeginDown, Becomes
  <2>2. [Fresh EXCEPT !.at = "down"].at = "down"
    BY DEF Fresh
  <2>3. QED
    BY <1>1, <2>1, <2>2 DEF Builders
<1>5. CASE SeedDone(c)
  <2>1. cli' = [cli EXCEPT ![c] = [cli[c] EXCEPT !.at = "heartbeat"]] /\ UNCHANGED <<db, createdb>>
    BY <1>5 DEF SeedDone, Becomes
  <2>2. [cli[c] EXCEPT !.at = "heartbeat"].at = "heartbeat"
    BY <1>1 DEF ClientState
  <2>3. QED
    BY <1>1, <2>1, <2>2 DEF Builders
<1>6. CASE Down(c)
  <2>1. UNCHANGED <<db, createdb>> /\ cli[c].at = "down"
    BY <1>6 DEF Down, At
  <2>2. \/ cli' = [cli EXCEPT ![c] = [cli[c] EXCEPT !.slot = @ + 1]]
        \/ \E r : cli' = [cli EXCEPT ![c] = Returned(c, r)]
    BY <1>6 DEF Down, Becomes, Return
  <2>3. [cli[c] EXCEPT !.slot = @ + 1].at = cli[c].at
    BY <1>1 DEF ClientState
  <2>4. QED
    BY <1>1, <2>1, <2>2, <2>3, WhereTo DEF Builders
<1>7. CASE Late(c) \/ Expire(c)
  <2>1. UNCHANGED <<db, createdb>> /\ \E to \in {"late", "expired"} : cli' = [cli EXCEPT ![c] = [cli[c] EXCEPT !.clock = to]]
    BY <1>7 DEF Late, Expire, Becomes
  <2>2. PICK to \in {"late", "expired"} : cli' = [cli EXCEPT ![c] = [cli[c] EXCEPT !.clock = to]]
    BY <2>1
  <2>3. cli'[c] = [cli[c] EXCEPT !.clock = to] /\ \A d \in Clients \ {c} : cli'[d] = cli[d]
    BY <1>1, <2>2
  <2>4. QED
    BY <1>1, <2>1, <2>3 DEF ClientState
<1>8. QED
  BY <1>2, <1>3, <1>4, <1>5, <1>6, <1>7

(* What is being copied, or created, is not whole, and under no server.    *)
LEMMA CopiedIsDown ==
  ASSUME TypeInv, FilesInv, NEW c \in Clients, At(c, "copy")
  PROVE  /\ cli[c] \in ClientState /\ cli[c].slot \in DBNodes /\ cli[c].slot # Master /\ cli[c].file \in Files
         /\ ~Whole(cli[c].slot)
<1>1. /\ cli[c] \in ClientState /\ cli[c].slot \in DBNodes /\ topo.size \in Nat \ {0}
      /\ cli[c].file \in Files /\ Lgat \in Files /\ Lgat \in Nat /\ cli[c].file \in Nat
  BY TopologyFacts, FilesAssumption DEF TypeInv, TypeOK, InRange, ClientState, At, Files
<1>2. cli[c].slot >= 2 /\ \A f \in Files : f >= cli[c].file /\ f >= Lgat => db[cli[c].slot][f] # "good"
  BY DEF FilesInv, Seeder, At, Builders
<1>3. ~Whole(cli[c].slot)
  <2>1. CASE cli[c].file >= Lgat
    BY <1>1, <1>2, <2>1 DEF Whole
  <2>2. CASE ~(cli[c].file >= Lgat)
    BY <1>1, <1>2, <2>2 DEF Whole
  <2>3. QED
    BY <2>1, <2>2
<1>4. cli[c].slot # 1
  BY <1>1, <1>2
<1>5. QED
  BY <1>1, <1>3, <1>4

LEMMA CreatedIsDown ==
  ASSUME TypeInv, FilesInv, createdb
  PROVE  server[Master] = ""
<1>1. 1 \in DBNodes /\ Lgat \in Files
  BY TopologyFacts, FilesAssumption DEF TypeInv, TypeOK
<1>2. QED
  BY <1>1 DEF FilesInv, Served, OnePiece, Whole

(* A file that a client that is alone has copied, or torn in the copying.  *)
LEMMA FileWritten ==
  ASSUME TypeInv, FilesInv, UNCHANGED <<topo, createdb, server>>,
         NEW s \in DBNodes, NEW f \in Files, s # Master, ~Whole(s),
         f > Lgat /\ ~HasDB(s) => ~HasDB(Master),
         NEW x, db' = [db EXCEPT ![s][f] = x],
         x = db[s][f] \/ x = "torn" \/ (x = "good" /\ HasDB(Master))
  PROVE  Served' /\ OnePiece' /\ Headless'
<1>1. /\ Lgat \in Files /\ 1 \in DBNodes /\ topo.size \in Nat \ {0}
      /\ Lgat \in Nat /\ f \in Nat
  BY FilesAssumption, TopologyFacts DEF TypeInv, TypeOK, Files
<1>2. /\ db \in [DBNodes -> [Files -> {"absent", "open", "torn", "good"}]]
      /\ db[s] \in [Files -> {"absent", "open", "torn", "good"}]
  BY DEF TypeInv, TypeOK
<1>3. db'[s] = [db[s] EXCEPT ![f] = x] /\ \A n \in DBNodes : n # s => db'[n] = db[n]
  BY <1>2
<1>4. /\ \A n \in DBNodes : n # s => db'[n] = db[n]
      /\ \A g \in Files : db'[s][g] = IF g = f THEN x ELSE db[s][g]
  BY <1>2, <1>3
<1>5. Served'
  <2>1. ASSUME NEW n \in DBNodes, server[n] # "" PROVE Whole(n)'
    <3>1. Whole(n) /\ n # s
      BY <2>1 DEF FilesInv, Served
    <3>2. QED
      BY <1>4, <3>1 DEF Whole
  <2>2. QED
    BY <2>1 DEF Served
<1>6. OnePiece'
  BY <1>1, <1>4 DEF FilesInv, OnePiece
<1>7. ASSUME NEW n \in DBNodes \ {1}, ~HasDB(n)', NEW g \in Files, g >= Lgat PROVE db'[n][g] # "good"
  <2>1. CASE n # s
    BY <1>1, <1>4, <1>7, <2>1 DEF FilesInv, Headless, HasDB
  <2>2. CASE n = s
    <3>1. ~(f = Lgat /\ x \in {"torn", "good"})
      BY <1>1, <1>4, <1>7, <2>2 DEF HasDB
    <3>2. CASE x = db[s][f]
      BY <1>1, <1>4, <1>7, <2>2, <3>2 DEF FilesInv, Headless, HasDB
    <3>3. CASE f # Lgat
      <4>1. ~HasDB(s)
        BY <1>1, <1>4, <1>7, <2>2, <3>3 DEF HasDB
      <4>2. db[s][g] # "good"
        BY <1>1, <1>7, <4>1 DEF FilesInv, Headless
      <4>3. CASE g # f
        BY <1>4, <1>7, <2>2, <4>2, <4>3
      <4>4. CASE g = f
        <5>1. f > Lgat
          BY <1>1, <1>7, <3>3, <4>4
        <5>2. QED
          BY <1>4, <1>7, <2>2, <4>1, <4>2, <4>4, <5>1
      <4>5. QED
        BY <4>3, <4>4
    <3>4. QED
      BY <3>1, <3>2, <3>3
  <2>3. QED
    BY <2>1, <2>2
<1>8. Headless'
  BY <1>7 DEF Headless
<1>9. QED
  BY <1>5, <1>6, <1>8

(* What the loop knows of the files it has yet to copy.                    *)
LEMMA LoopGoes ==
  ASSUME NEW s, NEW f \in Files, NEW x, x = "absent" => db[1][f] = "absent",
         f <= Lgat => ~HasDB(s),
         f > Lgat /\ ~HasDB(s) => ~HasDB(1),
         \A g \in Files : g >= f /\ g >= Lgat => db[s][g] # "good",
         \A g \in Files : db'[s][g] = IF g = f THEN x ELSE db[s][g],
         db'[1] = db[1]
  PROVE  /\ f + 1 <= Lgat => ~HasDB(s)'
         /\ f + 1 > Lgat /\ ~HasDB(s)' => ~HasDB(1)'
         /\ \A g \in Files : g >= f + 1 /\ g >= Lgat => db'[s][g] # "good"
<1>1. Lgat \in Files /\ Lgat \in Nat /\ f \in Nat /\ \A g \in Files : g \in Nat
  BY FilesAssumption DEF Files
<1>2. f + 1 <= Lgat => ~HasDB(s)'
  BY <1>1 DEF HasDB
<1>3. ASSUME f + 1 > Lgat, ~HasDB(s)' PROVE ~HasDB(1)'
  <2>1. CASE f = Lgat
    BY <1>1, <1>3, <2>1 DEF HasDB
  <2>2. CASE f > Lgat
    BY <1>1, <1>3, <2>2 DEF HasDB
  <2>3. QED
    BY <1>1, <1>3, <2>1, <2>2
<1>4. ASSUME NEW g \in Files, g >= f + 1, g >= Lgat PROVE db'[s][g] # "good"
  <2>1. g # f /\ g >= f
    BY <1>1, <1>4
  <2>2. db'[s][g] = db[s][g]
    BY <2>1
  <2>3. QED
    BY <1>4, <2>1, <2>2
<1>5. QED
  BY <1>2, <1>3, <1>4

LEMMA FilesCopy ==
  ASSUME TypeInv, FilesInv, Alone, NEW c \in Clients, CopyFile(c) PROVE FilesInv'
<1> DEFINE Here(s, f, x) == s = cli[c].slot /\ f = cli[c].file /\ x = CopyOf(s, f)
<1> SUFFICES ASSUME NEW s, NEW f, NEW x, Here(s, f, x) PROVE FilesInv'
  OBVIOUS
<1> HIDE DEF Here
<1>1. /\ At(c, "copy") /\ cli[c] \in ClientState /\ s \in DBNodes /\ s # 1 /\ f \in Files
      /\ db \in [DBNodes -> [Files -> {"absent", "open", "torn", "good"}]] /\ Lgat \in Files
      /\ 1 \in DBNodes /\ topo.size \in Nat \ {0}
  BY CopiedIsDown, FilesAssumption, TopologyFacts DEF CopyFile, TypeInv, TypeOK, Here
<1>a. Lgat \in Nat /\ \A g \in Files : g \in Nat
  BY FilesAssumption DEF Files
<1>2. /\ db' = [db EXCEPT ![s][f] = x]
      /\ UNCHANGED <<topo, createdb, server>>
  BY DEF CopyFile, Here
<1>3. x = db[s][f] \/ x = "torn" \/ (x = "good" /\ HasDB(1))
  BY <1>1 DEF CopyOf, FilesInv, OnePiece, HasDB, Here
<1>4. Served' /\ OnePiece' /\ Headless' /\ db'[1] = db[1]
      /\ \A g \in Files : db'[s][g] = IF g = f THEN x ELSE db[s][g]
  <2>1. f > Lgat /\ ~HasDB(s) => ~HasDB(1)
    BY <1>1 DEF FilesInv, Seeder, Here
  <2>2. ~Whole(s)
    BY <1>1, CopiedIsDown DEF Here
  <2>3. s \in DBNodes /\ f \in Files /\ s # 1
    BY <1>1
  <2>4. Served' /\ OnePiece' /\ Headless'
    BY <1>2, <1>3, <2>1, <2>2, <2>3, FileWritten, Zenon
  <2>5. db' = [db EXCEPT ![s] = [db[s] EXCEPT ![f] = x]]
    BY <1>2
  <2>6. db'[1] = db[1] /\ db'[s] = [db[s] EXCEPT ![f] = x]
    BY <1>1, <2>5
  <2>7. \A g \in Files : db'[s][g] = IF g = f THEN x ELSE db[s][g]
    BY <1>1, <2>6
  <2>8. QED
    BY <2>4, <2>6, <2>7
<1>b. s >= 2 /\ (createdb => HasDB(1))
  BY <1>1 DEF FilesInv, Seeder, At, Builders, Here
<1>5. /\ f <= Lgat => ~HasDB(s)
      /\ f > Lgat /\ ~HasDB(s) => ~HasDB(1)
      /\ \A g \in Files : g >= f /\ g >= Lgat => db[s][g] # "good"
  BY <1>1 DEF FilesInv, Seeder, At, Builders, Here
<1>6. x = "absent" => db[1][f] = "absent"
  BY DEF CopyOf, Here
<1>7. \/ cli'[c] = [cli[c] EXCEPT !.file = f + 1]
      \/ cli'[c] = [cli[c] EXCEPT !.at = "seed", !.slot = s + 1]
  BY <1>1 DEF CopyFile, Becomes, TypeInv, TypeOK, Here
<1>8. \/ cli'[c].at = "seed" /\ cli'[c].slot = s + 1
      \/ cli'[c].at = "copy" /\ cli'[c].slot = s /\ cli'[c].file = f + 1
  BY <1>1, <1>7 DEF ClientState, At, Here
<1>10. Seeder(c)'
  <2>1. CASE cli'[c].at = "seed" /\ cli'[c].slot = s + 1
    BY <1>1, <1>2, <1>b, <1>4, <2>1 DEF Seeder, Builders, At, HasDB
  <2>2. CASE cli'[c].at = "copy" /\ cli'[c].slot = s /\ cli'[c].file = f + 1
    <3>1. /\ f + 1 <= Lgat => ~HasDB(s)'
          /\ f + 1 > Lgat /\ ~HasDB(s)' => ~HasDB(1)'
          /\ \A g \in Files : g >= f + 1 /\ g >= Lgat => db'[s][g] # "good"
      <4>1. f \in Files
        BY <1>1
      <4>2. QED
        BY <1>5, <1>4, <1>6, <4>1, LoopGoes
    <3>2. createdb' => HasDB(1)'
      BY <1>2, <1>b, <1>4 DEF HasDB
    <3>3. QED
      BY <1>b, <2>2, <3>1, <3>2 DEF Seeder, Builders, At
  <2>3. QED
    BY <1>8, <2>1, <2>2
<1>11. \A d \in Clients : Seeder(d)'
  BY <1>10 DEF Alone
<1>12. QED
  BY <1>4, <1>11 DEF FilesInv

LEMMA FilesTorn ==
  ASSUME TypeInv, FilesInv, Alone, NEW c \in Clients, At(c, "copy"), TearFile(c), cli'[c].at = "idle",
         UNCHANGED <<topo, createdb, server>>
  PROVE  FilesInv'
<1> DEFINE Here(s, f) == s = cli[c].slot /\ f = cli[c].file
<1> SUFFICES ASSUME NEW s, NEW f, Here(s, f) PROVE FilesInv'
  OBVIOUS
<1> HIDE DEF Here
<1>1. s \in DBNodes /\ f \in Files /\ s # 1 /\ ~Whole(s)
  BY CopiedIsDown DEF Here
<1>2. db' = [db EXCEPT ![s][f] = "torn"]
  BY DEF TearFile, Here
<1>3. f > Lgat /\ ~HasDB(s) => ~HasDB(1)
  BY DEF FilesInv, Seeder, Here
<1>4. Served' /\ OnePiece' /\ Headless'
  BY <1>1, <1>2, <1>3, FileWritten, Zenon
<1>5. \A d \in Clients : Seeder(d)'
  BY DEF Alone, Seeder, Builders, At
<1>6. QED
  BY <1>4, <1>5 DEF FilesInv

(* A build begins, and takes the next node.                                *)
LEMMA FilesBegin ==
  ASSUME TypeInv, FilesInv, Alone, NEW c \in Clients, BeginUp(c) \/ SkipSeeded(c) \/ BeginCopy(c)
  PROVE  FilesInv'
<1>1. UNCHANGED <<topo, db, server>> /\ cli \in [Clients -> ClientState] /\ cli[c] \in ClientState
  BY DEF BeginUp, SkipSeeded, BeginCopy, TypeInv, TypeOK
<1>2. \A n \in DBNodes : Whole(n)' = Whole(n) /\ HasDB(n)' = HasDB(n)
  BY <1>1 DEF Whole, HasDB
<1>3. Served' /\ Headless'
  BY <1>1, <1>2 DEF FilesInv, Served, Headless
<1>4. topo.size \in Nat \ {0} /\ 1 \in DBNodes /\ Lgat \in Files /\ Lgat \in Nat /\ 1 \in Files
  BY TopologyFacts, FilesAssumption DEF TypeInv, TypeOK, Files
<1>a. CASE BeginUp(c)
  <2>1. \/ /\ HasDB(1) /\ createdb' = createdb
           /\ cli' = [cli EXCEPT ![c] = [Fresh EXCEPT !.at = "seed", !.slot = 2]]
        \/ /\ ~HasDB(1)
           /\ cli' = [cli EXCEPT ![c] = [Fresh EXCEPT !.at = "createdb", !.slot = 2]]
    BY <1>a DEF BeginUp, Becomes
  <2>2. /\ [Fresh EXCEPT !.at = "seed", !.slot = 2].at = "seed" /\ [Fresh EXCEPT !.at = "seed", !.slot = 2].slot = 2
        /\ [Fresh EXCEPT !.at = "createdb", !.slot = 2].at = "createdb" /\ [Fresh EXCEPT !.at = "createdb", !.slot = 2].slot = 2
    BY DEF Fresh
  <2>3. \/ HasDB(1) /\ createdb' = createdb /\ cli'[c].at = "seed" /\ cli'[c].slot = 2
        \/ ~HasDB(1) /\ cli'[c].at = "createdb" /\ cli'[c].slot = 2
    BY <1>1, <2>1, <2>2
  <2>4. Seeder(c)'
    BY <1>2, <1>4, <2>3 DEF Seeder, Builders, At
  <2>5. OnePiece'
    <3>1. \A f \in Files : db'[1][f] = db'[1][Lgat]
      BY <1>1 DEF FilesInv, OnePiece
    <3>2. CASE HasDB(1) /\ createdb' = createdb
      BY <1>1, <3>1, <3>2 DEF FilesInv, OnePiece
    <3>3. CASE ~HasDB(1)
      BY <1>1, <3>1, <3>3 DEF OnePiece, HasDB
    <3>4. QED
      BY <2>3, <3>2, <3>3
  <2>6. QED
    BY <1>3, <2>4, <2>5 DEF FilesInv, Alone
<1>b. CASE SkipSeeded(c) \/ BeginCopy(c)
  <2>1. cli[c].at = "seed" /\ createdb' = createdb /\ cli[c].slot \in DBNodes /\ cli[c].slot >= 2
    BY <1>b DEF SkipSeeded, BeginCopy, At, MoreNodes, FilesInv, Seeder, Builders
  <2>2. \/ cli' = [cli EXCEPT ![c] = [cli[c] EXCEPT !.slot = @ + 1]]
        \/ ~HasDB(cli[c].slot) /\ cli' = [cli EXCEPT ![c] = [cli[c] EXCEPT !.at = "copy", !.file = 1]]
    BY <1>b DEF SkipSeeded, BeginCopy, Becomes
  <2>3. OnePiece' /\ (createdb => HasDB(1))
    BY <1>1, <2>1 DEF FilesInv, OnePiece, Seeder
  <2>4. CASE cli' = [cli EXCEPT ![c] = [cli[c] EXCEPT !.slot = @ + 1]]
    <3>1. cli'[c].at = "seed" /\ cli'[c].slot = cli[c].slot + 1
      BY <1>1, <2>1, <2>4 DEF ClientState
    <3>2. Seeder(c)'
      BY <1>2, <1>4, <2>1, <2>3, <3>1 DEF Seeder, Builders, At
    <3>3. QED
      BY <1>3, <2>3, <3>2 DEF FilesInv, Alone
  <2>5. CASE ~HasDB(cli[c].slot) /\ cli' = [cli EXCEPT ![c] = [cli[c] EXCEPT !.at = "copy", !.file = 1]]
    <3>1. cli'[c].at = "copy" /\ cli'[c].slot = cli[c].slot /\ cli'[c].file = 1
      BY <1>1, <2>1, <2>5 DEF ClientState
    <3>2. \A f \in Files : f >= Lgat => db[cli[c].slot][f] # "good"
      BY <1>4, <2>1, <2>5 DEF FilesInv, Headless
    <3>3. ~(1 > Lgat)
      BY FilesAssumption DEF Files
    <3>4. Seeder(c)'
      BY <1>1, <1>2, <1>4, <2>1, <2>3, <2>5, <3>1, <3>2, <3>3 DEF Seeder, Builders, At
    <3>5. QED
      BY <1>3, <2>3, <3>4 DEF FilesInv, Alone
  <2>6. QED
    BY <2>2, <2>4, <2>5
<1>c. QED
  BY <1>a, <1>b

(* createdb writes under nobody, whoever is still waiting for it.          *)
LEMMA FilesCreated ==
  ASSUME TypeInv, FilesInv, CreatedbWrites \/ CreatedbFinishes \/ CreatedbFails
  PROVE  FilesInv'
<1>1. /\ createdb /\ UNCHANGED <<topo, server>> /\ \A n \in DBNodes : n # 1 => db'[n] = db[n]
      /\ cli \in [Clients -> ClientState] /\ db \in [DBNodes -> [Files -> {"absent", "open", "torn", "good"}]]
  BY DEF CreatedbWrites, CreatedbFinishes, CreatedbFails, TypeInv, TypeOK
<1>2. 1 \in DBNodes /\ Lgat \in Files /\ server[1] = ""
  BY <1>1, TopologyFacts, FilesAssumption, CreatedIsDown DEF TypeInv, TypeOK
<1>3. Served'
  <2>1. ASSUME NEW n \in DBNodes, server[n] # "" PROVE Whole(n)'
    <3>1. Whole(n) /\ n # 1
      BY <1>2, <2>1 DEF FilesInv, Served
    <3>2. QED
      BY <1>1, <3>1 DEF Whole
  <2>2. QED
    BY <1>1, <2>1 DEF Served
<1>4. Headless'
  BY <1>1 DEF FilesInv, Headless, HasDB
<1>5. \A c \in Clients : cli[c].at \in Builders => cli[c].slot >= 2
  BY DEF FilesInv, Seeder
<1>6. \A c \in Clients : cli[c].at \in {"seed", "copy"} => HasDB(1)
  BY <1>1 DEF FilesInv, Seeder
<1>7. \A c \in Clients : At(c, "copy") => cli[c].slot \in DBNodes /\ cli[c].slot # 1
  BY CopiedIsDown
<1>8. CASE CreatedbWrites
  <2>1. UNCHANGED <<cli, createdb>> /\ \A f \in Files : db[1][f] = "absent" /\ db'[1][f] = "open"
    BY <1>1, <1>2, <1>8 DEF CreatedbWrites
  <2>2. ~HasDB(1)
    BY <1>2, <2>1 DEF HasDB
  <2>3. \A c \in Clients : Seeder(c)'
    BY <1>5, <1>6, <2>1, <2>2 DEF Seeder, At, Builders
  <2>4. OnePiece'
    BY <1>1, <1>2, <2>1 DEF OnePiece
  <2>5. QED
    BY <1>3, <1>4, <2>3, <2>4 DEF FilesInv
<1>9. CASE CreatedbFinishes
  <2>1. ~createdb' /\ \A f \in Files : db'[1][f] = "good"
    BY <1>1, <1>2, <1>9 DEF CreatedbFinishes
  <2>2. OnePiece'
    BY <1>1, <1>2, <2>1 DEF OnePiece
  <2>3. HasDB(1)
    BY <1>9 DEF CreatedbFinishes
  <2>4. ASSUME NEW c \in Clients PROVE Seeder(c)'
    <3>1. CASE At(c, "createdb")
      <4>1. cli'[c] = [cli[c] EXCEPT !.at = "seed"] /\ cli[c] \in ClientState
        BY <1>1, <1>9, <3>1 DEF CreatedbFinishes
      <4>2. cli'[c].at = "seed" /\ cli'[c].slot = cli[c].slot
        BY <4>1 DEF ClientState
      <4>3. QED
        BY <1>5, <2>1, <3>1, <4>2 DEF Seeder, At, Builders
    <3>2. CASE ~At(c, "createdb")
      <4>1. cli'[c] = cli[c]
        BY <1>9, <3>2 DEF CreatedbFinishes
      <4>2. Seeder(c)
        BY DEF FilesInv
      <4>3. At(c, "copy") => db'[cli[c].slot] = db[cli[c].slot]
        BY <1>1, <1>7
      <4>4. QED
        BY <2>1, <2>3, <4>1, <4>2, <4>3 DEF Seeder, At, HasDB
    <3>3. QED
      BY <3>1, <3>2
  <2>5. QED
    BY <1>3, <1>4, <2>2, <2>4 DEF FilesInv
<1>10. CASE CreatedbFails
  <2>1. /\ ~createdb'
        /\ \/ \A f \in Files : db'[1][f] = "absent"
           \/ HasDB(1) /\ \A f \in Files : db'[1][f] = "torn"
    <3>1. \/ db' = [db EXCEPT ![1] = [f \in Files |-> "absent"]]
          \/ HasDB(1) /\ db' = [db EXCEPT ![1] = [f \in Files |-> "torn"]]
      BY <1>10 DEF CreatedbFails
    <3>2. ~createdb'
      BY <1>10 DEF CreatedbFails
    <3>3. CASE db' = [db EXCEPT ![1] = [f \in Files |-> "absent"]]
      <4>1. db'[1] = [f \in Files |-> "absent"]
        BY <1>1, <1>2, <3>3
      <4>2. QED
        BY <3>2, <4>1
    <3>4. CASE HasDB(1) /\ db' = [db EXCEPT ![1] = [f \in Files |-> "torn"]]
      <4>1. db'[1] = [f \in Files |-> "torn"]
        BY <1>1, <1>2, <3>4
      <4>2. QED
        BY <3>2, <3>4, <4>1
    <3>5. QED
      BY <3>1, <3>3, <3>4
  <2>2. OnePiece'
    BY <1>1, <1>2, <2>1 DEF OnePiece
  <2>3. HasDB(1)' => HasDB(1)
    BY <1>2, <2>1 DEF HasDB
  <2>4. ASSUME NEW c \in Clients PROVE Seeder(c)'
    <3>1. CASE At(c, "createdb")
      <4>1. cli'[c].at = "idle"
        BY <1>10, <3>1, WhereTo DEF CreatedbFails
      <4>2. QED
        BY <4>1 DEF Seeder, At, Builders
    <3>2. CASE ~At(c, "createdb")
      <4>1. cli'[c] = cli[c]
        BY <1>10, <3>2 DEF CreatedbFails
      <4>2. Seeder(c)
        BY DEF FilesInv
      <4>3. At(c, "copy") => db'[cli[c].slot] = db[cli[c].slot]
        BY <1>1, <1>7
      <4>4. QED
        BY <2>1, <2>3, <4>1, <4>2, <4>3 DEF Seeder, At, HasDB
    <3>3. QED
      BY <3>1, <3>2
  <2>5. QED
    BY <1>3, <1>4, <2>2, <2>4 DEF FilesInv
<1>11. QED
  BY <1>8, <1>9, <1>10

LEMMA FilesStep == TypeInv /\ FilesInv /\ Alone /\ [Next]_vars => FilesInv'
<1> SUFFICES ASSUME TypeInv, FilesInv, Alone, [Next]_vars PROVE FilesInv'
  OBVIOUS
<1>1. CASE UNCHANGED vars
  BY <1>1, FilesKept
<1>2. CASE Engine
  <2>1. CASE CreatedbWrites \/ CreatedbFinishes \/ CreatedbFails
    BY <2>1, FilesCreated
  <2>2. CASE UNCHANGED <<db, createdb, cli>>
    BY <2>2, FilesKept
  <2>3. QED
    BY <1>2, <2>1, <2>2 DEF Engine, GroupForms, Elect, Promote, Ship, Apply
<1>3. ASSUME NEW c \in Clients, Command(c) \/ Step(c) \/ Trouble(c) PROVE FilesInv'
  <2>1. CASE BeginUp(c) \/ SkipSeeded(c) \/ BeginCopy(c)
    BY <2>1, FilesBegin
  <2>2. CASE CopyFile(c)
    BY <2>2, FilesCopy
  <2>3. CASE CopyFails(c)
    <3>1. cli'[c].at = "idle"
      BY <2>3, WhereTo DEF CopyFails, Return, Becomes, TypeInv, TypeOK
    <3>2. QED
      BY <2>3, <3>1, FilesTorn DEF CopyFails
  <2>4. CASE Killed(c)
    <3>1. cli'[c].at = "idle"
      BY <2>4, WhereTo DEF Killed, Return, Becomes, TypeInv, TypeOK
    <3>2. CASE At(c, "copy") /\ TearFile(c)
      BY <2>4, <3>1, <3>2, FilesTorn DEF Killed
    <3>3. CASE UNCHANGED db
      <4>1. UNCHANGED <<db, createdb>>
        BY <2>4, <3>3 DEF Killed
      <4>2. \A d \in Clients : cli'[d].at \notin Builders
        BY <3>1 DEF Alone, Builders
      <4>3. QED
        BY <4>1, <4>2, FilesKept
    <3>4. QED
      BY <2>4, <3>2, <3>3 DEF Killed
  <2>5. CASE BeginDown(c) \/ CreatedbTimesOut(c) \/ SeedDone(c) \/ Starting(c) \/ WaitServing(c) \/ StartBroker(c)
             \/ Down(c) \/ Late(c) \/ Expire(c)
    <3>1. /\ UNCHANGED <<db, createdb>>
          /\ cli'[c].at \in Builders => cli'[c].at = cli[c].at /\ cli'[c].slot = cli[c].slot /\ cli'[c].file = cli[c].file
      BY <2>5, GoesOn
    <3>2. \A d \in Clients : cli'[d].at \in Builders =>
             cli'[d].at = cli[d].at /\ cli'[d].slot = cli[d].slot /\ cli'[d].file = cli[d].file
      BY <3>1 DEF Alone
    <3>3. QED
      BY <3>1, <3>2, FilesKept
  <2>6. QED
    BY <1>3, <2>1, <2>2, <2>3, <2>4, <2>5 DEF Command, Step, Trouble, Seeding
<1>4. QED
  BY <1>1, <1>2, <1>3 DEF Next

-----------------------------------------------------------------------------
(* What such a process has read still holds when it acts on it: nobody but *)
(* itself takes a server away, the group never demotes one, and the log of *)
(* a node that leads only drains.                                          *)

Waits == {"poll", "complete", "changemode"}
Reads(c) == cli[c].at \in Waits => \A n \in DBNodes :
              /\ cli[c].seen[n] # "" => server[n] # ""
              /\ cli[c].seen[n] = activeState => server[n] = activeState
Leader(c) == cli[c].at \in Waits /\ cli[c].waiting # 0 => Leads(cli[c].waiting)
Clean(c) == At(c, "changemode") => pages[cli[c].waiting] = 0 /\ ~fail[cli[c].waiting]
Serves(c) == At(c, "broker") => (\E n \in DBNodes : server[n] = activeState) /\ \A n \in DBNodes : server[n] # ""
Sees(c) == Reads(c) /\ Leader(c) /\ Clean(c) /\ Serves(c)

LEMMA SeesInit == Init => \A c \in Clients : Sees(c)
<1> SUFFICES ASSUME Init PROVE \A c \in Clients : Sees(c)
  OBVIOUS
<1>1. \A c \in Clients : cli[c].at = "idle"
  BY DEF Init, Fresh
<1>2. QED
  BY <1>1 DEF Sees, Reads, Leader, Clean, Serves, At, Waits

(* The engine moves on under it.                                           *)
LEMMA EngineGoesOn ==
  ASSUME TypeInv, GroupInv, Engine
  PROVE  /\ UNCHANGED topo
         /\ \A n \in DBNodes : /\ server[n] # "" => server'[n] # ""
                               /\ server[n] = activeState => server'[n] = activeState
                               /\ Leads(n) => Leads(n)'
                               /\ Leads(n) /\ pages[n] = 0 => pages'[n] = 0 /\ fail'[n] = fail[n]
         /\ \A c \in Clients : cli'[c].at \in Waits \cup {"broker"} => cli'[c] = cli[c]
<1>1. /\ server \in [DBNodes -> ServerStates] /\ pages \in [DBNodes -> 0..MaxPages] /\ fail \in [DBNodes -> BOOLEAN]
      /\ cli \in [Clients -> ClientState]
  BY DEF TypeInv, TypeOK
<1>2. UNCHANGED topo
  BY DEF Engine, CreatedbWrites, CreatedbFinishes, CreatedbFails, GroupForms, Elect, Promote, Ship, Apply
<1>3. CASE CreatedbWrites \/ CreatedbFinishes \/ CreatedbFails
  <2>1. UNCHANGED <<server, pages, fail>>
    BY <1>3 DEF CreatedbWrites, CreatedbFinishes, CreatedbFails
  <2>2. ASSUME NEW c \in Clients, cli'[c].at \in Waits \cup {"broker"} PROVE cli'[c] = cli[c]
    <3>1. CASE CreatedbWrites \/ ~At(c, "createdb")
      BY <1>3, <3>1 DEF CreatedbWrites, CreatedbFinishes, CreatedbFails
    <3>2. CASE At(c, "createdb") /\ CreatedbFinishes
      <4>1. cli'[c] = [cli[c] EXCEPT !.at = "seed"] /\ cli[c] \in ClientState
        BY <1>1, <3>2 DEF CreatedbFinishes
      <4>2. QED
        BY <2>2, <4>1 DEF ClientState, Waits
    <3>3. CASE At(c, "createdb") /\ CreatedbFails
      <4>1. cli'[c] = Returned(c, "error")
        BY <3>3 DEF CreatedbFails
      <4>2. QED
        BY <2>2, <4>1, WhereTo DEF Waits
    <3>4. QED
      BY <1>3, <3>1, <3>2, <3>3
  <2>3. QED
    BY <1>2, <2>1, <2>2 DEF Leads
<1>4. CASE GroupForms
  <2>1. UNCHANGED <<pages, fail, cli>>
    BY <1>4 DEF GroupForms
  <2>2. \A n \in DBNodes : server[n] # "" => server'[n] = server[n]
    <3>1. ~topo.haOff
      BY <1>4 DEF GroupForms, GroupInv
    <3>2. \A n \in DBNodes : hb[n] = "starting" => server[n] = ""
      BY <3>1 DEF GroupInv
    <3>3. QED
      BY <1>4, <3>2 DEF GroupForms
  <2>3. activeState # ""
    BY DEF activeState
  <2>4. QED
    BY <1>2, <2>1, <2>2, <2>3 DEF Leads
<1>5. ASSUME NEW m \in DBNodes, Elect(m) \/ Promote(m)
      PROVE  \A n \in DBNodes : /\ server[n] # "" => server'[n] # ""
                                /\ server[n] = activeState => server'[n] = activeState
                                /\ Leads(n) => Leads(n)'
  <2>1. /\ server[m] \in {"standby", "to_be_active"}
        /\ \A n \in DBNodes : server'[n] = server[n] \/ (n = m /\ server'[n] \in {"to_be_active", "active"})
    BY <1>1, <1>5 DEF Elect, Promote
  <2>2. server[m] # activeState
    BY <2>1 DEF activeState
  <2>3. QED
    BY <2>1, <2>2 DEF Leads
<1>6. ASSUME NEW m \in DBNodes, Elect(m) \/ Promote(m) \/ Ship(m) \/ Apply(m)
      PROVE  /\ cli' = cli
             /\ \A n \in DBNodes : Leads(n) /\ pages[n] = 0 => pages'[n] = 0 /\ fail'[n] = fail[n]
  <2>1. CASE Elect(m) \/ Promote(m)
    BY <2>1 DEF Elect, Promote
  <2>2. CASE Ship(m)
    BY <1>1, <2>2 DEF Ship, Leads
  <2>3. CASE Apply(m)
    <3>1. cli' = cli /\ ~(pages[m] = 0)
      BY <2>3 DEF Apply
    <3>2. \A n \in DBNodes : n # m => pages'[n] = pages[n] /\ fail'[n] = fail[n]
      BY <1>1, <2>3 DEF Apply
    <3>3. QED
      BY <3>1, <3>2
  <2>4. QED
    BY <1>6, <2>1, <2>2, <2>3
<1>7. ASSUME NEW m \in DBNodes, Ship(m) \/ Apply(m) PROVE server' = server
  BY <1>7 DEF Ship, Apply
<1>8. QED
  BY <1>2, <1>3, <1>4, <1>5, <1>6, <1>7 DEF Engine, Leads

(* A pass that begins has read nothing; elsewhere nothing is kept.         *)
Anew(c) == cli'[c].at \notin Waits \cup {"broker"}
           \/ (cli'[c].at = "poll" /\ cli'[c].seen = Unread /\ cli'[c].waiting = 0)

LEMMA SeesAnew ==
  ASSUME TypeInv, UNCHANGED topo, NEW c \in Clients, Anew(c) PROVE Sees(c)'
<1>1. \A n \in DBNodes : Unread[n] = ""
  BY DEF Unread
<1>2. CASE cli'[c].at \notin Waits \cup {"broker"}
  BY <1>2 DEF Sees, Reads, Leader, Clean, Serves, At, Waits
<1>3. CASE cli'[c].at = "poll" /\ cli'[c].seen = Unread /\ cli'[c].waiting = 0
  BY <1>1, <1>3 DEF Sees, Reads, Leader, Clean, Serves, At, Waits, activeState
<1>4. QED
  BY <1>2, <1>3 DEF Anew

LEMMA ReturnAnew ==
  ASSUME TypeInv, NEW c \in Clients, NEW r, Return(c, r)
  PROVE  Anew(c) /\ cli'[c].forced = {} /\ cli'[c].outcome = r
<1>1. cli'[c] = Returned(c, r)
  BY DEF Return, Becomes, TypeInv, TypeOK
<1>2. QED
  BY <1>1 DEF Returned, Fresh, Anew, Waits

LEMMA PassAnew ==
  ASSUME TypeInv, NEW c \in Clients, NEW me \in ClientState
  PROVE  /\ Becomes(c, NextPass(me)) => Anew(c) /\ cli'[c].forced = me.forced /\ cli'[c].outcome = me.outcome
         /\ PassEnds(c, me) => Anew(c) /\ cli'[c].forced \in {me.forced, {}}
                               /\ cli'[c].outcome \in {me.outcome, "blocked", "error"}
<1>1. /\ NextPass(me).at = "poll" /\ NextPass(me).seen = Unread /\ NextPass(me).waiting = 0
      /\ NextPass(me).forced = me.forced /\ NextPass(me).outcome = me.outcome
  BY DEF NextPass, ClientState
<1>2. Becomes(c, NextPass(me)) => Anew(c) /\ cli'[c].forced = me.forced /\ cli'[c].outcome = me.outcome
  BY <1>1 DEF Becomes, Anew, TypeInv, TypeOK
<1>3. PassEnds(c, me) => Becomes(c, NextPass(me)) \/ \E r \in {"blocked", "error"} : Return(c, r)
  BY DEF PassEnds
<1>4. \A r \in {"blocked", "error"} : Return(c, r) => Anew(c) /\ cli'[c].forced = {} /\ cli'[c].outcome = r
  BY ReturnAnew
<1>5. QED
  BY <1>2, <1>3, <1>4

LEMMA WaitsForNode ==
  ASSUME TypeInv, NEW c \in Clients PROVE cli[c].waiting # 0 => cli[c].waiting \in DBNodes
<1>1. cli[c].waiting \in 0..topo.size /\ topo.size \in Nat \ {0}
  BY TopologyFacts DEF TypeInv, TypeOK, ClientState
<1>2. QED
  BY <1>1

(* It keeps what it has read, and the group goes on from there.            *)
LEMMA SeesKept ==
  ASSUME TypeInv, UNCHANGED topo, NEW c \in Clients, Sees(c),
         cli'[c].at = cli[c].at, cli'[c].seen = cli[c].seen, cli'[c].waiting = cli[c].waiting,
         \A n \in DBNodes : /\ server[n] # "" => server'[n] # ""
                            /\ server[n] = activeState => server'[n] = activeState
                            /\ Leads(n) => Leads(n)'
                            /\ Leads(n) /\ pages[n] = 0 => pages'[n] = 0 /\ fail'[n] = fail[n]
  PROVE  Sees(c)'
<1>1. activeState' = activeState
  BY DEF activeState
<1>2. cli[c].at \in Waits /\ cli[c].waiting # 0 => cli[c].waiting \in DBNodes
  BY WaitsForNode
<1>3. Reads(c)' /\ Serves(c)'
  BY <1>1 DEF Sees, Reads, Serves, At
<1>4. Leader(c)'
  <2>1. cli[c].at \in Waits /\ cli[c].waiting # 0 => Leads(cli[c].waiting)'
    <3> DEFINE w == cli[c].waiting
    <3>1. cli'[c].waiting = cli[c].waiting
      OBVIOUS
    <3>2. cli[c].at \in Waits /\ w # 0 => server'[w] \in {"to_be_active", "active"}
      BY <1>2 DEF Sees, Leader, Leads
    <3>3. QED
      BY <3>1, <3>2 DEF Leads
  <2>2. QED
    BY <2>1 DEF Leader
<1>5. Clean(c)'
  <2>1. At(c, "changemode") => cli[c].waiting \in DBNodes /\ Leads(cli[c].waiting)
    BY <1>2 DEF Sees, Leader, TypeInv, InRange, At, Waits
  <2>2. QED
    BY <2>1 DEF Sees, Clean, At
<1>6. QED
  BY <1>3, <1>4, <1>5 DEF Sees

(* What a step of a client may say, and whom it may promote.               *)
Tells(c) ==
  /\ cli'[c].outcome = "serving" =>
       cli[c].outcome = "serving" \/ ((\E n \in DBNodes : server[n] = activeState) /\ \A n \in DBNodes : server[n] # "")
  /\ cli'[c].forced \in {cli[c].forced, {}}
     \/ /\ cli'[c].forced = cli[c].forced \cup {cli[c].waiting}
        /\ cli[c].waiting \in DBNodes /\ Leads(cli[c].waiting)
        /\ pages[cli[c].waiting] = 0 /\ ~fail[cli[c].waiting]

(* Before it waits, and after: no more is kept than the phase.             *)
LEMMA ElsewhereSees ==
  ASSUME TypeInv, UNCHANGED topo, NEW c \in Clients,
         Command(c) \/ CreatedbTimesOut(c) \/ Seeding(c) \/ (\E n \in DBNodes : StartHeartbeat(c, n)) \/ HeartbeatsJoined(c)
         \/ startServers(c) \/ Down(c) \/ CopyFails(c) \/ Killed(c)
  PROVE  Sees(c)' /\ Tells(c)
<1>1. cli \in [Clients -> ClientState] /\ cli[c] \in ClientState
  BY DEF TypeInv, TypeOK
<1>2. CASE Command(c)
  <2>1. \E phase \in {"seed", "createdb", "down"} :
          cli' = [cli EXCEPT ![c] = [Fresh EXCEPT !.at = phase, !.slot = 2]] \/ cli' = [cli EXCEPT ![c] = [Fresh EXCEPT !.at = phase]]
    BY <1>2 DEF Command, BeginUp, BeginDown, Becomes
  <2>2. cli'[c].at \in {"seed", "createdb", "down"} /\ cli'[c].forced = {} /\ cli'[c].outcome = "none"
    <3>1. PICK phase \in {"seed", "createdb", "down"} :
            cli'[c] = [Fresh EXCEPT !.at = phase, !.slot = 2] \/ cli'[c] = [Fresh EXCEPT !.at = phase]
      BY <1>1, <2>1
    <3>2. ASSUME NEW me, me \in {[Fresh EXCEPT !.at = phase, !.slot = 2], [Fresh EXCEPT !.at = phase]}
          PROVE  me.at = phase /\ me.forced = {} /\ me.outcome = "none"
      BY <3>2 DEF Fresh
    <3>3. QED
      BY <3>1, <3>2
  <2>3. Anew(c) /\ Tells(c)
    BY <2>2 DEF Anew, Tells, Waits
  <2>4. QED
    BY <2>3, SeesAnew
<1>3. CASE CreatedbTimesOut(c) \/ CopyFails(c) \/ Killed(c)
  <2>1. Return(c, "error") \/ Return(c, "none")
    BY <1>3 DEF CreatedbTimesOut, CopyFails, Killed
  <2>2. Anew(c) /\ cli'[c].forced = {} /\ cli'[c].outcome \in {"error", "none"}
    BY <2>1, ReturnAnew
  <2>3. Tells(c)
    BY <2>2 DEF Tells
  <2>4. QED
    BY <2>2, <2>3, SeesAnew
<1>4. CASE Seeding(c) \/ (\E n \in DBNodes : StartHeartbeat(c, n))
  <2>1. /\ cli'[c].at \in {"seed", "copy", "heartbeat"}
        /\ cli'[c].forced = cli[c].forced /\ cli'[c].outcome = cli[c].outcome
    <3>1. CASE SkipSeeded(c)
      BY <1>1, <3>1 DEF SkipSeeded, Becomes, At, ClientState
    <3>2. CASE BeginCopy(c)
      BY <1>1, <3>2 DEF BeginCopy, Becomes, At, ClientState
    <3>3. CASE CopyFile(c)
      <4>1. \/ At(c, "copy") /\ cli'[c] = [cli[c] EXCEPT !.file = @ + 1]
            \/ cli'[c] = [cli[c] EXCEPT !.at = "seed", !.slot = @ + 1]
        BY <1>1, <3>3 DEF CopyFile, Becomes
      <4>2. QED
        BY <1>1, <4>1 DEF At, ClientState
    <3>4. CASE SeedDone(c)
      BY <1>1, <3>4 DEF SeedDone, Becomes, At, ClientState
    <3>5. ASSUME NEW n \in DBNodes, StartHeartbeat(c, n)
          PROVE  cli'[c].at = "heartbeat" /\ cli'[c].forced = cli[c].forced /\ cli'[c].outcome = cli[c].outcome
      BY <1>1, <3>5 DEF StartHeartbeat, Becomes, At, ClientState
    <3>6. QED
      BY <1>4, <3>1, <3>2, <3>3, <3>4, <3>5 DEF Seeding
  <2>2. Anew(c) /\ Tells(c)
    BY <2>1 DEF Anew, Tells, Waits
  <2>3. QED
    BY <2>2, SeesAnew
<1>5. CASE HeartbeatsJoined(c) \/ startServers(c)
  <2>1. Becomes(c, NextPass(cli[c]))
    BY <1>5 DEF HeartbeatsJoined, startServers
  <2>2. Anew(c) /\ cli'[c].forced = cli[c].forced /\ cli'[c].outcome = cli[c].outcome
    BY <1>1, <2>1, PassAnew
  <2>3. Tells(c)
    BY <2>2 DEF Tells
  <2>4. QED
    BY <2>2, <2>3, SeesAnew
<1>6. CASE Down(c)
  <2>1. \/ Return(c, "error") \/ Return(c, "down")
        \/ At(c, "down") /\ Becomes(c, [cli[c] EXCEPT !.slot = @ + 1])
    BY <1>6 DEF Down
  <2>2. CASE Return(c, "error") \/ Return(c, "down")
    <3>1. Anew(c) /\ cli'[c].forced = {} /\ cli'[c].outcome \in {"error", "down"}
      BY <2>2, ReturnAnew
    <3>2. Tells(c)
      BY <3>1 DEF Tells
    <3>3. QED
      BY <3>1, <3>2, SeesAnew
  <2>3. CASE At(c, "down") /\ Becomes(c, [cli[c] EXCEPT !.slot = @ + 1])
    <3>1. cli'[c].at = "down" /\ cli'[c].forced = cli[c].forced /\ cli'[c].outcome = cli[c].outcome
      BY <1>1, <2>3 DEF Becomes, At, ClientState
    <3>2. Anew(c) /\ Tells(c)
      BY <3>1 DEF Anew, Tells, Waits
    <3>3. QED
      BY <3>2, SeesAnew
  <2>4. QED
    BY <2>1, <2>2, <2>3
<1>7. QED
  BY <1>2, <1>3, <1>4, <1>5, <1>6

(* WaitServing: one node is read, and held against what was read before.   *)
LEMMA PollSees ==
  ASSUME TypeInv, GroupInv, UNCHANGED topo, NEW c \in Clients, Sees(c), PollNode(c)
  PROVE  Sees(c)' /\ Tells(c)
<1> DEFINE n == cli[c].slot
           st == IF Expired(c) THEN "" ELSE server[n]
           w == IF cli[c].waiting = 0 /\ st = "to_be_active" THEN n ELSE cli[c].waiting
           me == [cli[c] EXCEPT !.slot = n + 1, !.seen[n] = st, !.waiting = w]
<1>1. /\ cli \in [Clients -> ClientState] /\ cli[c] \in ClientState /\ n \in DBNodes
      /\ At(c, "poll") /\ UNCHANGED <<server, pages, fail>>
  BY DEF PollNode, MoreNodes, TypeInv, TypeOK
<1>2. cli'[c] = me
  BY <1>1 DEF PollNode, Becomes
<1>3. /\ st # "" => server[n] = st
      /\ w # cli[c].waiting => w = n /\ server[n] = "to_be_active"
  OBVIOUS
<1>4. /\ cli'[c].at = "poll" /\ cli'[c].forced = cli[c].forced /\ cli'[c].outcome = cli[c].outcome
      /\ cli'[c].waiting = w /\ \A m \in DBNodes : cli'[c].seen[m] = IF m = n THEN st ELSE cli[c].seen[m]
  <2> HIDE DEF st, w, n
  <2>1. /\ me.at = cli[c].at /\ me.forced = cli[c].forced /\ me.outcome = cli[c].outcome /\ me.waiting = w
        /\ me.seen = [cli[c].seen EXCEPT ![n] = st] /\ cli[c].seen \in [DBNodes -> ServerStates]
    BY <1>1 DEF ClientState
  <2> HIDE DEF me
  <2>2. \A m \in DBNodes : me.seen[m] = IF m = n THEN st ELSE cli[c].seen[m]
    BY <2>1
  <2>3. QED
    BY <1>1, <1>2, <2>1, <2>2 DEF At
<1> HIDE DEF st, w, n, me
<1>5. activeState' = activeState /\ activeState # ""
  BY DEF activeState
<1>6. Reads(c)'
  <2>1. ASSUME NEW m \in DBNodes
        PROVE  /\ cli'[c].seen[m] # "" => server[m] # ""
               /\ cli'[c].seen[m] = activeState => server[m] = activeState
    <3>1. CASE m = n
      BY <1>3, <1>4, <1>5, <3>1
    <3>2. CASE m # n
      BY <1>1, <1>4, <3>2 DEF Sees, Reads, At, Waits
    <3>3. QED
      BY <3>1, <3>2
  <2>2. QED
    BY <1>1, <1>5, <2>1 DEF Reads
<1>7. w # 0 => Leads(w)
  BY <1>1, <1>3 DEF Sees, Leader, Leads, At, Waits
<1>8. Leader(c)'
  <2>1. cli'[c].waiting # 0 => server'[cli'[c].waiting] \in {"to_be_active", "active"}
    BY <1>1, <1>4, <1>7 DEF Leads
  <2>2. QED
    BY <2>1 DEF Leader, Leads
<1>9. Clean(c)' /\ Serves(c)' /\ Tells(c)
  BY <1>4 DEF Clean, Serves, At, Tells
<1>10. QED
  BY <1>6, <1>8, <1>9 DEF Sees

(* It ends with somebody serving.                                          *)
LEMMA PassServingSees ==
  ASSUME TypeInv, UNCHANGED topo, NEW c \in Clients, Sees(c), PassServing(c)
  PROVE  Sees(c)' /\ Tells(c)
<1>1. /\ cli \in [Clients -> ClientState] /\ cli[c] \in ClientState /\ 1 \in DBNodes
      /\ At(c, "poll") /\ ServingSeen(c) /\ UNCHANGED <<server, topo>>
  BY TopologyFacts DEF PassServing, PassOver, TypeInv, TypeOK
<1>2. AllRegistered(c) => (\E n \in DBNodes : server[n] = activeState) /\ \A n \in DBNodes : server[n] # ""
  <2>1. \E n \in DBNodes : cli[c].seen[n] = activeState
    BY <1>1 DEF ServingSeen, activeState
  <2>2. QED
    BY <1>1, <2>1 DEF Sees, Reads, AllRegistered, At, Waits
<1>3. CASE Return(c, "error")
  <2>1. Anew(c) /\ cli'[c].forced = {} /\ cli'[c].outcome = "error"
    BY <1>3, ReturnAnew
  <2>2. Tells(c)
    BY <2>1 DEF Tells
  <2>3. QED
    BY <2>1, <2>2, SeesAnew
<1>4. CASE AllRegistered(c) /\ Return(c, "serving")
  <2>1. Anew(c) /\ cli'[c].forced = {} /\ cli'[c].outcome = "serving"
    BY <1>4, ReturnAnew
  <2>2. Tells(c)
    BY <1>2, <1>4, <2>1 DEF Tells
  <2>3. QED
    BY <2>1, <2>2, SeesAnew
<1>5. CASE AllRegistered(c) /\ Becomes(c, [NextPass(cli[c]) EXCEPT !.at = "broker"])
  <2>1. /\ [NextPass(cli[c]) EXCEPT !.at = "broker"].at = "broker"
        /\ [NextPass(cli[c]) EXCEPT !.at = "broker"].forced = cli[c].forced
        /\ [NextPass(cli[c]) EXCEPT !.at = "broker"].outcome = cli[c].outcome
    BY <1>1 DEF NextPass, ClientState
  <2>2. cli'[c].at = "broker" /\ cli'[c].forced = cli[c].forced /\ cli'[c].outcome = cli[c].outcome
    BY <1>1, <1>5, <2>1 DEF Becomes
  <2>3. activeState' = activeState
    BY DEF activeState
  <2>4. Serves(c)'
    BY <1>1, <1>2, <1>5, <2>3 DEF Serves
  <2>5. Reads(c)' /\ Leader(c)' /\ Clean(c)' /\ Tells(c)
    BY <2>2 DEF Reads, Leader, Clean, Tells, At, Waits
  <2>6. QED
    BY <2>4, <2>5 DEF Sees
<1>6. QED
  BY <1>3, <1>4, <1>5 DEF PassServing

(* It ends with nobody serving, or is thrown away.                         *)
LEMMA PassEndsSees ==
  ASSUME TypeInv, UNCHANGED topo, NEW c \in Clients,
         NEW me \in ClientState, me.forced = cli[c].forced, me.outcome = cli[c].outcome, PassEnds(c, me)
  PROVE  Sees(c)' /\ Tells(c)
<1>1. Anew(c) /\ cli'[c].forced \in {cli[c].forced, {}} /\ cli'[c].outcome \in {cli[c].outcome, "blocked", "error"}
  BY PassAnew
<1>2. Tells(c)
  BY <1>1 DEF Tells
<1>3. QED
  BY <1>1, <1>2, SeesAnew

LEMMA PassOverSees ==
  ASSUME TypeInv, UNCHANGED topo, NEW c \in Clients, Sees(c),
         PassIdle(c) \/ PassStalled(c) \/ PromotionUnread(c) \/ PromotionBlocked(c) \/ PromotionSafe(c)
  PROVE  Sees(c)' /\ Tells(c)
<1>1. /\ cli \in [Clients -> ClientState] /\ cli[c] \in ClientState /\ Counted(c) \in ClientState
      /\ UNCHANGED <<server, pages, fail>>
  BY CountedType DEF PassIdle, PassStalled, PromotionUnread, PromotionBlocked, PromotionSafe, TypeInv, TypeOK
<1>2. /\ Counted(c).forced = cli[c].forced /\ Counted(c).outcome = cli[c].outcome
      /\ Counted(c).seen = cli[c].seen /\ Counted(c).waiting = cli[c].waiting
  BY <1>1 DEF Counted, ClientState
<1>3. \A b \in BOOLEAN : /\ [cli[c] EXCEPT !.blocked = b] \in ClientState
                         /\ [cli[c] EXCEPT !.blocked = b].forced = cli[c].forced
                         /\ [cli[c] EXCEPT !.blocked = b].outcome = cli[c].outcome
  BY <1>1 DEF ClientState
<1>4. CASE PassIdle(c)
  BY <1>1, <1>4, PassEndsSees DEF PassIdle
<1>5. CASE PromotionUnread(c)
  BY <1>3, <1>5, PassEndsSees DEF PromotionUnread
<1>6. CASE PromotionBlocked(c)
  BY <1>3, <1>6, PassEndsSees DEF PromotionBlocked
<1>7. CASE PassStalled(c)
  <2>1. CASE PassEnds(c, Counted(c))
    BY <1>1, <1>2, <2>1, PassEndsSees
  <2>2. CASE Becomes(c, [Counted(c) EXCEPT !.at = "complete"])
    <3>1. At(c, "poll") /\ cli'[c] = [Counted(c) EXCEPT !.at = "complete"]
      BY <1>1, <1>7, <2>2 DEF PassStalled, PassOver, Becomes
    <3>2. /\ cli'[c].at = "complete" /\ cli'[c].seen = cli[c].seen /\ cli'[c].waiting = cli[c].waiting
          /\ cli'[c].forced = cli[c].forced /\ cli'[c].outcome = cli[c].outcome
      BY <1>1, <1>2, <3>1 DEF ClientState
    <3>3. activeState' = activeState
      BY DEF activeState
    <3>4. Reads(c)' /\ Leader(c)'
      BY <1>1, <3>1, <3>2, <3>3 DEF Sees, Reads, Leader, Leads, At, Waits
    <3>5. Clean(c)' /\ Serves(c)' /\ Tells(c)
      BY <3>2 DEF Clean, Serves, Tells, At
    <3>6. QED
      BY <3>4, <3>5 DEF Sees
  <2>3. QED
    BY <1>7, <2>1, <2>2 DEF PassStalled
<1>8. CASE PromotionSafe(c)
  <2>1. At(c, "complete") /\ cli'[c] = [cli[c] EXCEPT !.at = "changemode"] /\ pages[cli[c].waiting] = 0 /\ ~fail[cli[c].waiting]
    BY <1>1, <1>8 DEF PromotionSafe, Becomes, promotionBlocker
  <2>2. /\ cli'[c].at = "changemode" /\ cli'[c].seen = cli[c].seen /\ cli'[c].waiting = cli[c].waiting
        /\ cli'[c].forced = cli[c].forced /\ cli'[c].outcome = cli[c].outcome
    BY <1>1, <2>1 DEF ClientState
  <2>3. activeState' = activeState
    BY DEF activeState
  <2>4. Reads(c)' /\ Leader(c)'
    BY <1>1, <2>1, <2>2, <2>3 DEF Sees, Reads, Leader, Leads, At, Waits
  <2>5. Clean(c)'
    BY <1>1, <2>1, <2>2 DEF Clean
  <2>6. Serves(c)' /\ Tells(c)
    BY <2>2 DEF Serves, Tells, At
  <2>7. QED
    BY <2>4, <2>5, <2>6 DEF Sees
<1>9. QED
  BY <1>4, <1>5, <1>6, <1>7, <1>8

LEMMA ChangemodeSees ==
  ASSUME TypeInv, UNCHANGED topo, NEW c \in Clients, Sees(c), Changemode(c)
  PROVE  Sees(c)' /\ Tells(c)
<1>1. cli \in [Clients -> ClientState] /\ cli[c] \in ClientState
  BY DEF TypeInv, TypeOK
<1>2. At(c, "changemode") /\ cli[c].waiting \in DBNodes
  BY WaitsForNode DEF Changemode, TypeInv, InRange, At
<1>3. Leads(cli[c].waiting) /\ pages[cli[c].waiting] = 0 /\ ~fail[cli[c].waiting]
  BY <1>2 DEF Sees, Leader, Clean, TypeInv, InRange, At, Waits
<1>4. CASE Becomes(c, [NextPass(cli[c]) EXCEPT !.forced = @ \cup {cli[c].waiting}, !.blocked = FALSE])
  <2>1. cli'[c] = [NextPass(cli[c]) EXCEPT !.forced = cli[c].forced \cup {cli[c].waiting}, !.blocked = FALSE]
    <3>1. NextPass(cli[c]).forced = cli[c].forced
      BY <1>1 DEF NextPass, ClientState
    <3>2. QED
      BY <1>1, <1>4, <3>1 DEF Becomes
  <2>2. /\ NextPass(cli[c]).at = "poll" /\ NextPass(cli[c]).seen = Unread /\ NextPass(cli[c]).waiting = 0
        /\ NextPass(cli[c]).outcome = cli[c].outcome /\ NextPass(cli[c]) \in ClientState
    BY <1>1, NextPassType DEF NextPass, ClientState, TypeInv, TypeOK
  <2>3. /\ cli'[c].at = "poll" /\ cli'[c].seen = Unread /\ cli'[c].waiting = 0
        /\ cli'[c].outcome = cli[c].outcome /\ cli'[c].forced = cli[c].forced \cup {cli[c].waiting}
    BY <2>1, <2>2 DEF ClientState
  <2>4. Anew(c) /\ Tells(c)
    BY <1>2, <1>3, <2>3 DEF Anew, Tells
  <2>5. QED
    BY <2>4, SeesAnew
<1>5. CASE PassEnds(c, [cli[c] EXCEPT !.blocked = TRUE])
  <2>1. /\ [cli[c] EXCEPT !.blocked = TRUE] \in ClientState /\ [cli[c] EXCEPT !.blocked = TRUE].forced = cli[c].forced
        /\ [cli[c] EXCEPT !.blocked = TRUE].outcome = cli[c].outcome
    BY <1>1 DEF ClientState
  <2>2. QED
    BY <1>5, <2>1, PassEndsSees
<1>6. QED
  BY <1>4, <1>5 DEF Changemode

LEMMA WaitingSees ==
  ASSUME TypeInv, GroupInv, UNCHANGED topo, NEW c \in Clients, Sees(c), WaitServing(c)
  PROVE  Sees(c)' /\ Tells(c)
<1>1. PollNode(c) => Sees(c)' /\ Tells(c)
  BY PollSees
<1>2. PassServing(c) => Sees(c)' /\ Tells(c)
  BY PassServingSees
<1>3. PassIdle(c) \/ PassStalled(c) \/ PromotionUnread(c) \/ PromotionBlocked(c) \/ PromotionSafe(c) => Sees(c)' /\ Tells(c)
  BY PassOverSees
<1>4. Changemode(c) => Sees(c)' /\ Tells(c)
  BY ChangemodeSees
<1>5. QED
  BY <1>1, <1>2, <1>3, <1>4 DEF WaitServing

(* The brokers are started in front of a cluster that goes on serving; and *)
(* that time runs out changes nothing that was read.                       *)
LEMMA BrokerSees ==
  ASSUME TypeInv, UNCHANGED topo, NEW c \in Clients, Sees(c), StartBroker(c) \/ Late(c) \/ Expire(c)
  PROVE  Sees(c)' /\ Tells(c)
<1>1. /\ cli \in [Clients -> ClientState] /\ cli[c] \in ClientState /\ UNCHANGED <<server, pages, fail>>
  BY DEF StartBroker, Late, Expire, TypeInv, TypeOK
<1>2. ASSUME cli'[c].at = cli[c].at, cli'[c].seen = cli[c].seen, cli'[c].waiting = cli[c].waiting,
             cli'[c].forced = cli[c].forced, cli'[c].outcome = cli[c].outcome
      PROVE  Sees(c)' /\ Tells(c)
  <2>1. activeState' = activeState
    BY DEF activeState
  <2>2. Sees(c)'
    BY <1>1, <1>2, <2>1 DEF Sees, Reads, Leader, Clean, Serves, Leads, At
  <2>3. QED
    BY <1>2, <2>2 DEF Tells
<1>3. CASE Return(c, "error")
  <2>1. Anew(c) /\ cli'[c].forced = {} /\ cli'[c].outcome = "error"
    BY <1>3, ReturnAnew
  <2>2. Tells(c)
    BY <2>1 DEF Tells
  <2>3. QED
    BY <2>1, <2>2, SeesAnew
<1>4. CASE At(c, "broker") /\ Return(c, "serving")
  <2>1. Anew(c) /\ cli'[c].forced = {} /\ cli'[c].outcome = "serving"
    BY <1>4, ReturnAnew
  <2>2. Tells(c)
    BY <1>4, <2>1 DEF Tells, Sees, Serves
  <2>3. QED
    BY <2>1, <2>2, SeesAnew
<1>5. CASE Becomes(c, [cli[c] EXCEPT !.slot = @ + 1])
  <2>1. cli'[c] = [cli[c] EXCEPT !.slot = cli[c].slot + 1]
    BY <1>1, <1>5 DEF Becomes
  <2>2. QED
    BY <1>1, <1>2, <2>1 DEF ClientState
<1>6. ASSUME NEW to, Becomes(c, [cli[c] EXCEPT !.clock = to]) PROVE Sees(c)' /\ Tells(c)
  <2>1. cli'[c] = [cli[c] EXCEPT !.clock = to]
    BY <1>1, <1>6 DEF Becomes
  <2>2. QED
    BY <1>1, <1>2, <2>1 DEF ClientState
<1>7. QED
  BY <1>3, <1>4, <1>5, <1>6 DEF StartBroker, Late, Expire

LEMMA OwnSees ==
  ASSUME TypeInv, GroupInv, [Next]_vars, NEW c \in Clients, Sees(c), Command(c) \/ Step(c) \/ Trouble(c)
  PROVE  Sees(c)' /\ Tells(c)
<1>1. UNCHANGED topo
  BY WhoMoves
<1>2. Command(c) \/ CreatedbTimesOut(c) \/ Seeding(c) \/ (\E n \in DBNodes : StartHeartbeat(c, n)) \/ HeartbeatsJoined(c)
         \/ startServers(c) \/ Down(c) \/ CopyFails(c) \/ Killed(c) => Sees(c)' /\ Tells(c)
  BY <1>1, ElsewhereSees
<1>3. WaitServing(c) => Sees(c)' /\ Tells(c)
  BY <1>1, WaitingSees
<1>4. StartBroker(c) \/ Late(c) \/ Expire(c) => Sees(c)' /\ Tells(c)
  BY <1>1, BrokerSees
<1>5. QED
  BY <1>2, <1>3, <1>4 DEF Step, Trouble, Starting

LEMMA EngineSees ==
  ASSUME TypeInv, GroupInv, Engine, NEW c \in Clients, Sees(c)
  PROVE  Sees(c)'
<1>1. CASE cli'[c].at \in Waits \cup {"broker"}
  <2>1. cli'[c] = cli[c]
    BY <1>1, EngineGoesOn
  <2>2. QED
    BY <2>1, EngineGoesOn, SeesKept
<1>2. CASE cli'[c].at \notin Waits \cup {"broker"}
  BY <1>2, EngineGoesOn, SeesAnew DEF Anew
<1>3. QED
  BY <1>1, <1>2

(* A step of the engine says nothing and promotes nobody for a client.     *)
LEMMA EngineTells ==
  ASSUME TypeInv, Engine, NEW c \in Clients
  PROVE  cli'[c].forced \in {cli[c].forced, {}} /\ cli'[c].outcome \in {cli[c].outcome, "error"}
<1>1. cli \in [Clients -> ClientState] /\ cli[c] \in ClientState
  BY DEF TypeInv, TypeOK
<1>2. CASE cli'[c] = cli[c]
  BY <1>2
<1>3. CASE CreatedbFinishes /\ At(c, "createdb")
  <2>1. cli'[c] = [cli[c] EXCEPT !.at = "seed"]
    BY <1>3 DEF CreatedbFinishes
  <2>2. QED
    BY <1>1, <2>1 DEF ClientState
<1>4. CASE CreatedbFails /\ At(c, "createdb")
  <2>1. cli'[c] = Returned(c, "error")
    BY <1>4 DEF CreatedbFails
  <2>2. QED
    BY <2>1 DEF Returned, Fresh
<1>5. QED
  BY <1>1, <1>2, <1>3, <1>4 DEF Engine, CreatedbWrites, CreatedbFinishes, CreatedbFails, GroupForms, Elect, Promote, Ship, Apply

(* A step of a client moves no other client.                               *)
LEMMA OnlyItself ==
  ASSUME TypeInv, NEW c \in Clients, NEW d \in Clients, c # d, Command(d) \/ Step(d) \/ Trouble(d)
  PROVE  cli'[c] = cli[c]
<1>1. \E me : Becomes(d, me)
  <2>1. CASE Starting(d) \/ WaitServing(d) \/ StartBroker(d)
    BY <2>1, PastGoes
  <2>2. CASE Command(d) \/ CreatedbTimesOut(d) \/ Seeding(d) \/ Down(d) \/ Trouble(d)
    BY <2>2 DEF Command, BeginUp, BeginDown, CreatedbTimesOut, Seeding, SkipSeeded, BeginCopy, CopyFile, SeedDone, Down,
       Trouble, CopyFails, Late, Expire, Killed, Return
  <2>3. QED
    BY <2>1, <2>2 DEF Step
<1>2. QED
  BY <1>1 DEF Becomes, TypeInv, TypeOK

(* Nor does another up take away what was read: of the commands only a     *)
(* down stops a server.                                                    *)
LEMMA OtherSees ==
  ASSUME TypeInv, GroupInv, [Next]_vars, NEW c \in Clients, Sees(c), NEW d \in Clients, c # d,
         Command(d) \/ Step(d) \/ Trouble(d), At(d, "down") => cli[c].at \notin Waits \cup {"broker"}
  PROVE  Sees(c)'
<1>1. /\ server \in [DBNodes -> ServerStates] /\ cli \in [Clients -> ClientState] /\ UNCHANGED topo
  BY WhoMoves DEF TypeInv, TypeOK
<1>2. UNCHANGED <<pages, fail>> /\ cli'[c] = cli[c]
  <2>1. UNCHANGED <<pages, fail>>
    BY DEF Command, BeginUp, BeginDown, Step, CreatedbTimesOut, Seeding, SkipSeeded, BeginCopy, CopyFile, SeedDone,
       Starting, StartHeartbeat, HeartbeatsJoined, startServers, WaitServing, PollNode, PassServing, PassIdle, PassStalled,
       PromotionUnread, PromotionBlocked, PromotionSafe, Changemode, StartBroker, Down, Trouble, CopyFails, Late, Expire, Killed
  <2>2. QED
    BY <2>1, OnlyItself
<1>3. CASE At(d, "down")
  BY <1>1, <1>2, <1>3, SeesAnew DEF Anew
<1>4. CASE ~At(d, "down")
  <2>1. \A n \in DBNodes : /\ server[n] # "" => server'[n] # ""
                           /\ server[n] = activeState => server'[n] = activeState
                           /\ Leads(n) => Leads(n)'
    <3>1. CASE UNCHANGED server
      BY <3>1 DEF Leads
    <3>2. CASE startServers(d)
      <4>1. topo.haOff /\ \A n \in DBNodes : server'[n] = "standalone" \/ server'[n] = server[n]
        BY <3>2 DEF startServers
      <4>2. \A n \in DBNodes : server[n] \in {"", "standalone"}
        BY <4>1 DEF GroupInv
      <4>3. QED
        BY <4>1, <4>2 DEF Leads, activeState
    <3>3. CASE Changemode(d)
      <4>1. server' = server \/ (Leads(cli[d].waiting) /\ server' = [server EXCEPT ![cli[d].waiting] = "active"])
        BY <3>3 DEF Changemode, Leads
      <4>2. At(d, "changemode") => cli[d].waiting \in DBNodes
        BY WaitsForNode DEF TypeInv, InRange, At
      <4>3. At(d, "changemode")
        BY <3>3 DEF Changemode
      <4>4. ASSUME NEW w \in DBNodes, Leads(w), server' = [server EXCEPT ![w] = "active"]
            PROVE  \A n \in DBNodes : server'[n] = server[n] \/ (Leads(n) /\ server'[n] = "active")
        BY <1>1, <4>4
      <4>5. \A n \in DBNodes : server'[n] = server[n] \/ (Leads(n) /\ server'[n] = "active")
        BY <4>1, <4>2, <4>3, <4>4
      <4>6. \A n \in DBNodes : Leads(n) => ~topo.haOff
        BY DEF GroupInv, Leads
      <4>7. QED
        BY <4>5, <4>6 DEF Leads, activeState
    <3>4. QED
      BY <1>4, <3>1, <3>2, <3>3 DEF Command, BeginUp, BeginDown, Step, CreatedbTimesOut, Seeding, SkipSeeded, BeginCopy, CopyFile,
         SeedDone, Starting, StartHeartbeat, HeartbeatsJoined, WaitServing, PollNode, PassServing, PassIdle, PassStalled,
         PromotionUnread, PromotionBlocked, PromotionSafe, StartBroker, Down, Trouble, CopyFails, Late, Expire, Killed
  <2>2. QED
    BY <1>1, <1>2, <2>1, SeesKept
<1>5. QED
  BY <1>3, <1>4

(* The inductive invariant of ups that no down runs into.                  *)
Undisturbed == \A c, d \in Clients : At(d, "down") => cli[c].at \notin Waits \cup {"broker"}
SeesInv == TypeInv /\ GroupInv /\ \A c \in Clients : Sees(c)

LEMMA SeesFirst == Init => SeesInv
BY TypeInit, GroupInit, SeesInit DEF SeesInv

LEMMA SeesStep == Undisturbed /\ SeesInv /\ [Next]_vars => SeesInv'
<1> SUFFICES ASSUME Undisturbed, SeesInv, [Next]_vars PROVE SeesInv'
  OBVIOUS
<1>1. TypeInv' /\ GroupInv'
  BY TypeStep, GroupStep DEF SeesInv
<1>2. ASSUME NEW c \in Clients PROVE Sees(c)'
  <2>1. Sees(c) /\ TypeInv /\ GroupInv
    BY DEF SeesInv
  <2>2. CASE UNCHANGED vars
    BY <2>1, <2>2 DEF Sees, Reads, Leader, Clean, Serves, Leads, At, activeState
  <2>3. CASE Engine
    BY <2>1, <2>3, EngineSees
  <2>4. ASSUME NEW d \in Clients, Command(d) \/ Step(d) \/ Trouble(d) PROVE Sees(c)'
    <3>1. CASE c = d
      BY <2>1, <2>4, <3>1, OwnSees
    <3>2. CASE c # d
      BY <2>1, <2>4, <3>2, OtherSees DEF Undisturbed
    <3>3. QED
      BY <3>1, <3>2
  <2>5. QED
    BY <2>2, <2>3, <2>4 DEF Next
<1>3. QED
  BY <1>1, <1>2 DEF SeesInv

(* What a step may say and promote, whoever takes it.                      *)
LEMMA StepTells ==
  ASSUME SeesInv, [Next]_vars, NEW c \in Clients
  PROVE  Tells(c)
<1>1. TypeInv /\ GroupInv /\ Sees(c) /\ cli \in [Clients -> ClientState]
  BY DEF SeesInv, TypeInv, TypeOK
<1>2. CASE cli'[c] = cli[c]
  BY <1>2 DEF Tells
<1>3. CASE Engine
  <2>1. cli'[c].forced \in {cli[c].forced, {}} /\ cli'[c].outcome \in {cli[c].outcome, "error"}
    BY <1>1, <1>3, EngineTells
  <2>2. QED
    BY <2>1 DEF Tells
<1>4. ASSUME NEW d \in Clients, Command(d) \/ Step(d) \/ Trouble(d) PROVE Tells(c) \/ cli'[c] = cli[c]
  <2>1. CASE c = d
    BY <1>1, <1>4, <2>1, OwnSees
  <2>2. CASE c # d
    BY <1>1, <1>4, <2>2, OnlyItself
  <2>3. QED
    BY <2>1, <2>2
<1>5. QED
  BY <1>2, <1>3, <1>4 DEF Next

(* A promotion that WaitServing completes itself is safe when changemode   *)
(* runs, and not only when db_ha_apply_info was read, of any number of ups *)
(* at once: what a down stops under them is all that could make it false.  *)
THEOREM ForcedCorrect == Spec /\ []Undisturbed => ForcedOnlyClean
<1> DEFINE Forced(c, n) ==
             /\ pages[n] = 0 /\ ~fail[n]
             /\ \A m \in DBNodes \ {n} : server[m] # "active"
           Safe == \A c \in Clients : \A n \in cli'[c].forced \ cli[c].forced : Forced(c, n)
<1>1. ASSUME SeesInv, [Next]_vars, NEW c \in Clients, NEW n \in cli'[c].forced \ cli[c].forced PROVE Forced(c, n)
  <2>1. n \in DBNodes /\ Leads(n) /\ pages[n] = 0 /\ ~fail[n]
    <3>1. Tells(c)
      BY <1>1, StepTells
    <3>2. QED
      BY <1>1, <3>1 DEF Tells
  <2>2. \A m \in DBNodes \ {n} : server[m] # "active"
    BY <1>1, <2>1 DEF SeesInv, GroupInv, Leads
  <2>3. QED
    BY <2>1, <2>2
<1>2. SeesInv /\ [Next]_vars => [Safe]_vars
  BY <1>1
<1>3. Spec /\ []Undisturbed => [][Safe]_vars
  BY <1>2, SeesFirst, SeesStep, PTL DEF Spec
<1>4. QED
  BY <1>3 DEF ForcedOnlyClean

(* And an up reports serving only of a cluster that serves, whole, when it *)
(* reports it, although it has read the nodes one after another: any ups   *)
(* at once, while no build has been cut off or run into by another.        *)
THEOREM ServingCorrect == Spec /\ []Undisturbed /\ [](~spoiled) => ServingIsServing
<1> DEFINE Told(c) == cli[c].outcome # "serving" /\ cli'[c].outcome = "serving" =>
                        /\ \E n \in DBNodes : server[n] = activeState
                        /\ \A n \in DBNodes : server[n] # "" /\ Whole(n)
           True == \A c \in Clients : Told(c)
<1>1. ASSUME SeesInv, BuildInv, ~spoiled, [Next]_vars,
             NEW c \in Clients, cli[c].outcome # "serving", cli'[c].outcome = "serving"
      PROVE  /\ \E n \in DBNodes : server[n] = activeState
             /\ \A n \in DBNodes : server[n] # "" /\ Whole(n)
  <2>1. (\E n \in DBNodes : server[n] = activeState) /\ \A n \in DBNodes : server[n] # ""
    BY <1>1, StepTells DEF Tells
  <2>2. QED
    BY <1>1, <2>1 DEF BuildInv, StartedOnWhole
<1>2. SeesInv /\ BuildInv /\ ~spoiled /\ [Next]_vars => [True]_vars
  BY <1>1
<1>3. Spec /\ []Undisturbed => []SeesInv
  BY SeesFirst, SeesStep, PTL DEF Spec
<1>4. Spec /\ []Undisturbed /\ [](~spoiled) => [][True]_vars
  BY <1>2, <1>3, BuildCorrect, PTL DEF Spec
<1>5. QED
  BY <1>4 DEF ServingIsServing

(* The inductive invariant of a process that is alone.                     *)
AloneInv == SeesInv /\ FilesInv

LEMMA AloneInit == Init => AloneInv
BY SeesFirst, FilesInit DEF AloneInv

LEMMA AloneStep == Alone /\ AloneInv /\ [Next]_vars => AloneInv'
<1>1. Alone => Undisturbed
  BY DEF Alone, Undisturbed, At, Waits
<1>2. QED
  BY <1>1, SeesStep, FilesStep DEF AloneInv, SeesInv

(* The same of a process that is alone, without exception: whatever an up  *)
(* before it was cut off in, the one that reports serving serves.          *)
THEOREM ServingAlone ==
  ASSUME Alone PROVE Spec => ServingIsServing
<1> DEFINE Told(c) == cli[c].outcome # "serving" /\ cli'[c].outcome = "serving" =>
                        /\ \E n \in DBNodes : server[n] = activeState
                        /\ \A n \in DBNodes : server[n] # "" /\ Whole(n)
           True == \A c \in Clients : Told(c)
<1>1. ASSUME AloneInv, [Next]_vars, NEW c \in Clients, cli[c].outcome # "serving", cli'[c].outcome = "serving"
      PROVE  /\ \E n \in DBNodes : server[n] = activeState
             /\ \A n \in DBNodes : server[n] # "" /\ Whole(n)
  <2>1. SeesInv /\ Served
    BY <1>1 DEF AloneInv, FilesInv
  <2>2. (\E n \in DBNodes : server[n] = activeState) /\ \A n \in DBNodes : server[n] # ""
    BY <1>1, <2>1, StepTells DEF Tells
  <2>3. QED
    BY <2>1, <2>2 DEF Served
<1>2. AloneInv /\ [Next]_vars => [True]_vars
  BY <1>1
<1>3. Spec => [][True]_vars
  BY <1>2, AloneInit, AloneStep, PTL DEF Spec
<1>4. QED
  BY <1>3 DEF ServingIsServing
=============================================================================
