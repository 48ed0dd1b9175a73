---------------------------- MODULE FaultsProofs ----------------------------
(* Theorems about Faults, for every cluster, every set of processes and    *)
(* every bound: its types, and that what is in force is owned.             *)
(*                                                                         *)
(* Being owned is an account, kept for every effect while several          *)
(* processes work from lists they read at different times: no more is in   *)
(* force than the file names and the processes that are entering have      *)
(* added.  BalanceProofs keeps the other side of it.                       *)
EXTENDS Faults, SequenceTheorems, FiniteSetTheorems, FunctionTheorems, TLAPS

(* TypeOK is not inductive by itself: a process that enters a condition    *)
(* has one to enter.                                                       *)
Planned == \A c \in Clients : cli[c].at \in {"mode", "apply"} => cli[c].plan # <<>>
TypeInv == TypeOK /\ Planned

(* What one client of TypeInv is.                                          *)
Sound(me) == me \in ClientState /\ (me.at \in {"mode", "apply"} => me.plan # <<>>)

(* A step that gives one client a sound state keeps every client sound.    *)
LEMMA OneClient ==
  ASSUME TypeInv, NEW c \in Clients, NEW me, Sound(me), Becomes(c, me)
  PROVE  cli' \in [Clients -> ClientState] /\ Planned'
<1>1. cli' = [cli EXCEPT ![c] = me]
  BY DEF Becomes
<1>2. cli \in [Clients -> ClientState]
  BY DEF TypeInv, TypeOK
<1>3. me \in ClientState
  BY DEF Sound
<1>4. cli' \in [Clients -> ClientState]
  BY <1>1, <1>2, <1>3
<1>5. ASSUME NEW d \in Clients, cli'[d].at \in {"mode", "apply"}
      PROVE  cli'[d].plan # <<>>
  <2>1. CASE d = c
    <3>1. cli'[d] = me
      BY <1>1, <1>2, <2>1
    <3>2. QED
      BY <3>1, <1>5 DEF Sound
  <2>2. CASE d # c
    <3>1. cli'[d] = cli[d]
      BY <1>1, <1>2, <2>2
    <3>2. QED
      BY <3>1, <1>5 DEF TypeInv, Planned
  <2>3. QED
    BY <2>1, <2>2
<1>6. QED
  BY <1>4, <1>5 DEF Planned

(* A command that returns keeps nothing.                                   *)
LEMMA ReturnedSound ==
  ASSUME NEW result \in {"none", "entered", "cleared", "resumed", "error"}
  PROVE  Sound(Returned(result))
BY DEF Returned, Sound, ClientState

LEMMA ReturnKeeps ==
  ASSUME TypeInv, NEW c \in Clients, NEW result \in {"none", "entered", "cleared", "resumed", "error"},
         Return(c, result)
  PROVE  cli' \in [Clients -> ClientState] /\ Planned'
<1>1. Becomes(c, Returned(result))
  BY DEF Return
<1>2. Sound(Returned(result))
  BY ReturnedSound
<1>3. QED
  BY <1>1, <1>2, OneClient

(* A function on 1..n is a sequence.                                       *)
LEMMA FunctionIsSeq ==
  ASSUME NEW S, NEW n \in Nat, NEW f \in [1..n -> S]
  PROVE  f \in Seq(S)
BY SeqDef

(* The execs that enter a condition, and those that reverse it.            *)
LEMMA EnteringType ==
  ASSUME NEW effects \in Seq(Effects)
  PROVE  Entering(effects) \in Seq(ExecStep)
<1>1. DOMAIN effects = 1..Len(effects) /\ Len(effects) \in Nat
  BY LenProperties
<1>2. \A i \in 1..Len(effects) : [sets |-> TRUE, effect |-> effects[i]] \in ExecStep
  BY ElementOfSeq DEF ExecStep
<1>3. QED
  BY <1>1, <1>2, FunctionIsSeq DEF Entering

LEMMA ReversalType ==
  ASSUME NEW a \in Condition, NEW verb
  PROVE  Reversal(a, verb) \in Seq(ExecStep)
<1>1. a.effects \in Seq(Effects) /\ a.broken \in BOOLEAN
  BY DEF Condition
<1>2. DOMAIN a.effects = 1..Len(a.effects) /\ Len(a.effects) \in Nat
  BY <1>1, LenProperties
<1>3. \A i \in 1..Len(a.effects) : [sets |-> a.broken, effect |-> a.effects[i]] \in ExecStep
  BY <1>1, ElementOfSeq DEF ExecStep
<1>4. [i \in DOMAIN a.effects |-> [sets |-> a.broken, effect |-> a.effects[i]]] \in Seq(ExecStep)
  BY <1>2, <1>3, FunctionIsSeq
<1>5. <<>> \in Seq(ExecStep)
  BY EmptySeq
<1>6. QED
  BY <1>4, <1>5 DEF Reversal

(* A client that turns to the next condition of its plan, or returns.      *)
LEMMA TurnedSound ==
  ASSUME NEW me \in ClientState
  PROVE  Sound(Turned(me))
<1>1. CASE me.plan = <<>>
  <2>1. me.outcome \in {"none", "entered", "cleared", "resumed", "error"}
    BY DEF ClientState
  <2>2. QED
    BY <1>1, <2>1, ReturnedSound DEF Turned
<1>2. CASE me.plan # <<>>
  <2>1. Head(me.plan) \in Condition
    BY <1>2, HeadTailProperties DEF ClientState
  <2>2. Entering(Head(me.plan).effects) \in Seq(ExecStep)
    BY <2>1, EnteringType DEF Condition
  <2>3. Turned(me) = [me EXCEPT !.at = Phase(Head(me.plan)), !.todo = Entering(Head(me.plan).effects)]
    BY <1>2 DEF Turned
  <2>4. Phase(Head(me.plan)) \in {"mode", "apply"}
    BY DEF Phase
  <2>5. Turned(me) \in ClientState
    BY <2>2, <2>3, <2>4 DEF ClientState
  <2>6. Turned(me).plan # <<>>
    BY <1>2, <2>3 DEF ClientState
  <2>7. QED
    BY <2>5, <2>6 DEF Sound
<1>3. QED
  BY <1>1, <1>2

(* An exec changes how often its effect is in force, and nothing else.     *)
LEMMA DoneType ==
  ASSUME TypeOK, NEW s \in ExecStep
  PROVE  Done(s) \in [Effects -> Nat]
<1>1. force \in [Effects -> Nat] /\ s.effect \in Effects
  BY DEF TypeOK, ExecStep
<1>2. QED
  BY <1>1 DEF Done

-----------------------------------------------------------------------------
(* The conditions that commands enter.                                     *)

LEMMA PicksAreSeqs == \A s \in Picks : s \in Seq(Nodes)
<1>1. \A k \in 1..NNodes : \A s \in [1..k -> Nodes] : s \in Seq(Nodes)
  <2>1. TAKE k \in 1..NNodes
  <2>2. k \in Nat
    BY NodesAssumption
  <2>3. QED
    BY <2>2, FunctionIsSeq
<1>2. QED
  BY <1>1 DEF Picks

LEMMA CutsType ==
  ASSUME NEW kind \in {"blackhole", "drop"}, NEW target \in Nodes, NEW peers \in Picks
  PROVE  Cuts(kind, target, peers) \in Seq(Effects)
<1>1. peers \in Seq(Nodes)
  BY PicksAreSeqs
<1>2. Len(peers) \in Nat
  BY <1>1, LenProperties
<1>3. 2 * Len(peers) \in Nat
  BY <1>2
<1>4. ASSUME NEW i \in 1..2 * Len(peers)
      PROVE  peers[(i + 1) \div 2] \in Nodes
  <2>1. (i + 1) \div 2 \in 1..Len(peers)
    BY <1>2
  <2>2. QED
    BY <1>1, <2>1, ElementOfSeq
<1>5. \A p \in Nodes : <<kind, target, p>> \in Effects /\ <<kind, p, target>> \in Effects
  BY DEF Effects
<1> DEFINE cut(i) == LET peer == peers[(i + 1) \div 2]
                     IN  IF i % 2 = 1 THEN <<kind, target, peer>> ELSE <<kind, peer, target>>
<1>6. \A i \in 1..2 * Len(peers) : cut(i) \in Effects
  BY <1>4, <1>5
<1>7. Cuts(kind, target, peers) = [i \in 1..2 * Len(peers) |-> cut(i)]
  BY DEF Cuts
<1> HIDE DEF cut
<1>8. [i \in 1..2 * Len(peers) |-> cut(i)] \in [1..2 * Len(peers) -> Effects]
  BY <1>6
<1>9. QED
  BY <1>3, <1>7, <1>8, FunctionIsSeq

(* A sequence of one.                                                      *)
LEMMA OneIsSeq ==
  ASSUME NEW S, NEW x \in S
  PROVE  <<x>> \in Seq(S) /\ <<x>> # <<>>
OBVIOUS

LEMMA SingleType ==
  ASSUME NEW kind \in Kinds, NEW n \in Nodes, NEW arg, <<kind, n, arg>> \in Effects
  PROVE  Single(kind, n, arg) \in Condition
<1>1. <<<<kind, n, arg>>>> \in Seq(Effects)
  BY OneIsSeq
<1>2. QED
  BY <1>1 DEF Single, Condition

(* A command that enters conditions keeps TypeInv.                         *)
LEMMA EnterKeeps ==
  ASSUME TypeInv, NEW c \in Clients, NEW plan \in Seq(Condition), Enter(c, plan)
  PROVE  TypeInv'
<1> DEFINE me == [Returned("entered") EXCEPT !.list = file.list, !.plan = plan]
<1>1. file.list \in Seq(Condition)
  BY DEF TypeInv, TypeOK
<1>2. Returned("entered") \in ClientState
  BY ReturnedSound DEF Sound
<1>3. me \in ClientState
  BY <1>1, <1>2 DEF ClientState
<1>4. Becomes(c, Turned(me))
  BY DEF Enter
<1> HIDE DEF me
<1>5. Sound(Turned(me))
  BY <1>3, TurnedSound
<1>6. cli' \in [Clients -> ClientState] /\ Planned'
  BY <1>4, <1>5, OneClient
<1>7. QED
  BY <1>6 DEF Enter, TypeInv, TypeOK

LEMMA CommandsKeep ==
  ASSUME TypeInv, NEW c \in Clients, Command(c)
  PROVE  TypeInv'
<1>1. CASE CannotOpen(c)
  <2>1. cli' \in [Clients -> ClientState] /\ Planned'
    BY <1>1, ReturnKeeps DEF CannotOpen
  <2>2. QED
    BY <1>1, <2>1 DEF CannotOpen, TypeInv, TypeOK
<1>2. CASE Quiesce(c)
  <2> DEFINE a == [kind |-> "quiesce", target |-> Nodes, broken |-> FALSE,
                   effects |-> [n \in Nodes |-> <<"quiesce", n, 0>>]]
  <2>1. [n \in Nodes |-> <<"quiesce", n, 0>>] \in [1..NNodes -> Effects]
    BY DEF Nodes, Effects
  <2>2. [n \in Nodes |-> <<"quiesce", n, 0>>] \in Seq(Effects)
    BY <2>1, NodesAssumption, FunctionIsSeq
  <2>3. a \in Condition
    BY <2>2 DEF Condition, Kinds
  <2>4. Enter(c, <<a>>)
    BY <1>2 DEF Quiesce
  <2> HIDE DEF a
  <2>5. QED
    BY <2>3, <2>4, OneIsSeq, EnterKeeps
<1>3. ASSUME NEW verb \in {"cleared", "resumed"}, NEW lifts \in SUBSET Condition, Lift(c, verb, lifts)
      PROVE  TypeInv'
  <2> DEFINE me == [Returned(verb) EXCEPT !.at = "undo", !.plan = file.list, !.lifts = lifts]
  <2>1. file.list \in Seq(Condition)
    BY DEF TypeInv, TypeOK
  <2>2. Returned(verb) \in ClientState
    BY ReturnedSound DEF Sound
  <2>3. me \in ClientState /\ me.at = "undo"
    BY <2>1, <2>2 DEF ClientState
  <2>4. Becomes(c, me)
    BY <1>3 DEF Lift
  <2> HIDE DEF me
  <2>5. cli' \in [Clients -> ClientState] /\ Planned'
    BY <2>3, <2>4, OneClient DEF Sound
  <2>6. QED
    BY <1>3, <2>5 DEF Lift, TypeInv, TypeOK
<1>4. OnRecord \in SUBSET Condition
  <2>1. file.list \in Seq(Condition)
    BY DEF TypeInv, TypeOK
  <2>2. QED
    BY <2>1, LenProperties, ElementOfSeq DEF OnRecord
<1>5. CASE Resume(c)
  BY <1>3, <1>4, <1>5 DEF Resume
<1>6. ASSUME NEW who, Clear(c, who)
      PROVE  TypeInv'
  BY <1>3, <1>4, <1>6 DEF Clear
<1>7. ASSUME NEW n \in Nodes, NEW kind \in Kinds, Lag(c, kind, n)
      PROVE  TypeInv'
  <2> DEFINE arg == IF kind = "suspend" THEN pid[n] ELSE 0
  <2>1. pid[n] \in Pids
    BY DEF TypeInv, TypeOK
  <2>2. kind \in {"suspend", "delay"}
    BY <1>7 DEF Lag
  <2>3. <<kind, n, arg>> \in Effects
    BY <2>1, <2>2 DEF Effects
  <2>4. Enter(c, <<Single(kind, n, arg)>>)
    BY <1>7 DEF Lag
  <2> HIDE DEF arg
  <2>5. Single(kind, n, arg) \in Condition
    BY <2>3, SingleType
  <2>6. QED
    BY <2>4, <2>5, OneIsSeq, EnterKeeps
<1>8. ASSUME NEW n \in Nodes, NEW peers \in Picks, NEW kind \in Kinds, Partition(c, kind, n, peers)
      PROVE  TypeInv'
  <2> DEFINE a == [kind |-> kind, target |-> {n}, broken |-> FALSE, effects |-> Cuts(kind, n, peers)]
  <2>1. kind \in {"blackhole", "drop"}
    BY <1>8 DEF Partition
  <2>2. Cuts(kind, n, peers) \in Seq(Effects)
    BY <2>1, CutsType
  <2>3. a \in Condition
    BY <2>2 DEF Condition
  <2>4. Enter(c, <<a>>)
    BY <1>8 DEF Partition
  <2> HIDE DEF a
  <2>5. QED
    BY <2>3, <2>4, OneIsSeq, EnterKeeps
<1>9. ASSUME NEW n \in Nodes, NEW p \in Pids, Contend(c, n, p)
      PROVE  TypeInv'
  <2>1. <<"contention", n, p>> \in Effects /\ "contention" \in Kinds
    BY DEF Effects, Kinds
  <2>2. Single("contention", n, p) \in Condition
    BY <2>1, SingleType
  <2>3. QED
    BY <1>9, <2>2, OneIsSeq, EnterKeeps DEF Contend
<1>10. ASSUME NEW names \in Picks, NEW kind \in Kinds, PingUnavailable(c, kind, names)
       PROVE  TypeInv'
  <2>1. kind \in {"binary", "icmp"}
    BY <1>10 DEF PingUnavailable
  <2>2. \A n \in Nodes : <<kind, n, 0>> \in Effects
    BY <2>1 DEF Effects
  <2>3. \A n \in Nodes : Single(kind, n, 0) \in Condition
    BY <2>2, SingleType
  <2>4. names \in Seq(Nodes)
    BY PicksAreSeqs
  <2>5. DOMAIN names = 1..Len(names) /\ Len(names) \in Nat /\ \A i \in 1..Len(names) : names[i] \in Nodes
    BY <2>4, LenProperties, ElementOfSeq
  <2>6. [i \in DOMAIN names |-> Single(kind, names[i], 0)] \in [1..Len(names) -> Condition]
    BY <2>3, <2>5
  <2>7. [i \in DOMAIN names |-> Single(kind, names[i], 0)] \in Seq(Condition)
    BY <2>5, <2>6, FunctionIsSeq
  <2>8. QED
    BY <1>10, <2>7, EnterKeeps DEF PingUnavailable
<1>11. QED
  BY <1>1, <1>2, <1>5, <1>6, <1>7, <1>8, <1>9, <1>10 DEF Command

-----------------------------------------------------------------------------
(* The steps of a running command.                                         *)

LEMMA StepsKeep ==
  ASSUME TypeInv, NEW c \in Clients, Step(c)
  PROVE  TypeInv'
<1> DEFINE kept == cli' \in [Clients -> ClientState] /\ Planned'
<1>1. cli[c] \in ClientState /\ file \in [list : Seq(Condition), torn : BOOLEAN]
      /\ mishaps \subseteq Mishaps /\ force \in [Effects -> Nat] /\ pid \in [Nodes -> Pids]
  BY DEF TypeInv, TypeOK
<1>2. /\ cli[c].plan \in Seq(Condition) /\ cli[c].todo \in Seq(ExecStep)
      /\ cli[c].list \in Seq(Condition) /\ cli[c].lifts \in SUBSET Condition
      /\ cli[c].outcome \in {"none", "entered", "cleared", "resumed", "error"}
  BY <1>1 DEF ClientState
<1>3. At(c, "mode") \/ At(c, "apply") => cli[c].plan # <<>>
  BY DEF TypeInv, Planned, At
<1>4. cli[c].plan # <<>> => /\ Head(cli[c].plan) \in Condition /\ Tail(cli[c].plan) \in Seq(Condition)
                            /\ Append(cli[c].list, Head(cli[c].plan)) \in Seq(Condition)
  BY <1>2, HeadTailProperties, AppendProperties
<1>5. cli[c].todo # <<>> => Head(cli[c].todo) \in ExecStep /\ Tail(cli[c].todo) \in Seq(ExecStep)
  BY <1>2, HeadTailProperties
<1>6. ASSUME NEW s \in ExecStep
      PROVE  Done(s) \in [Effects -> Nat]
  BY DoneType DEF TypeInv
<1>7. CASE ReadMode(c)
  <2> DEFINE broken == force[Head(cli[c].plan).effects[1]] > 0
             rest == <<[Head(cli[c].plan) EXCEPT !.broken = broken]>> \o Tail(cli[c].plan)
             me == [cli[c] EXCEPT !.at = "apply", !.plan = rest]
  <2>1. Becomes(c, me) /\ mishaps' = IF broken THEN mishaps \cup {"overwritten"} ELSE mishaps
    BY <1>7 DEF ReadMode
  <2>2. cli[c].plan # <<>>
    BY <1>3, <1>7 DEF ReadMode
  <2>3. broken \in BOOLEAN
    OBVIOUS
  <2> HIDE DEF broken
  <2>4. [Head(cli[c].plan) EXCEPT !.broken = broken] \in Condition
    BY <1>4, <2>2, <2>3 DEF Condition
  <2>5. rest \in Seq(Condition) /\ rest # <<>>
    BY <1>4, <2>2, <2>4, OneIsSeq, ConcatProperties, ConcatEqualIffEmpty
  <2> HIDE DEF rest
  <2>6. me \in ClientState /\ me.plan # <<>>
    BY <1>1, <2>5 DEF ClientState
  <2>7. Becomes(c, me)
    BY <2>1
  <2> HIDE DEF me
  <2>8. kept
    BY <2>6, <2>7, OneClient DEF Sound
  <2>9. mishaps' \subseteq Mishaps
    BY <1>1, <2>1 DEF Mishaps
  <2>10. QED
    BY <1>1, <1>7, <2>8, <2>9 DEF ReadMode, TypeInv, TypeOK
<1>8. CASE Apply(c)
  <2> DEFINE me == [cli[c] EXCEPT !.todo = Tail(@)]
  <2>1. me \in ClientState /\ me.plan # <<>>
    BY <1>1, <1>3, <1>5, <1>8 DEF Apply, ClientState
  <2>2. Becomes(c, me)
    BY <1>8 DEF Apply
  <2> HIDE DEF me
  <2>3. kept
    BY <2>1, <2>2, OneClient DEF Sound
  <2>4. force' \in [Effects -> Nat]
    BY <1>5, <1>6, <1>8 DEF Apply
  <2>5. QED
    BY <1>1, <1>8, <2>3, <2>4 DEF Apply, TypeInv, TypeOK
<1>9. CASE ApplyRefused(c)
  <2>1. kept
    BY <1>9, ReturnKeeps DEF ApplyRefused
  <2>2. mishaps' \subseteq Mishaps
    BY <1>1, <1>9 DEF ApplyRefused, Mishaps
  <2>3. QED
    BY <1>1, <1>9, <2>1, <2>2 DEF ApplyRefused, TypeInv, TypeOK
<1>10. CASE Add(c)
  <2> DEFINE me == [cli[c] EXCEPT !.at = "save", !.list = Append(@, Head(cli[c].plan)), !.plan = Tail(@)]
  <2>1. me \in ClientState /\ me.at = "save"
    BY <1>1, <1>3, <1>4, <1>10 DEF Add, ClientState
  <2>2. Becomes(c, me)
    BY <1>10 DEF Add
  <2> HIDE DEF me
  <2>3. kept
    BY <2>1, <2>2, OneClient DEF Sound
  <2>4. QED
    BY <1>1, <1>10, <2>3 DEF Add, TypeInv, TypeOK
<1>11. CASE Keep(c)
  <2> DEFINE me == [cli[c] EXCEPT !.list = Append(@, Head(cli[c].plan)), !.plan = Tail(@)]
  <2>1. me \in ClientState /\ me.at = "undo"
    BY <1>1, <1>4, <1>11 DEF Keep, At, ClientState
  <2>2. Becomes(c, me)
    BY <1>11 DEF Keep
  <2> HIDE DEF me
  <2>3. kept
    BY <2>1, <2>2, OneClient DEF Sound
  <2>4. QED
    BY <1>1, <1>11, <2>3 DEF Keep, TypeInv, TypeOK
<1>12. CASE Reverse(c)
  <2> DEFINE todo == Reversal(Head(cli[c].plan), cli[c].outcome)
             me == [cli[c] EXCEPT !.todo = todo, !.plan = Tail(@)]
  <2>1. Becomes(c, me) /\ mishaps' = IF todo = <<>> THEN mishaps \cup {"dropped"} ELSE mishaps
    BY <1>12 DEF Reverse
  <2>2. todo \in Seq(ExecStep)
    BY <1>4, <1>12, ReversalType DEF Reverse
  <2> HIDE DEF todo
  <2>3. me \in ClientState /\ me.at = "undo"
    BY <1>1, <1>4, <1>12, <2>2 DEF Reverse, At, ClientState
  <2>4. Becomes(c, me)
    BY <2>1
  <2> HIDE DEF me
  <2>5. kept
    BY <2>3, <2>4, OneClient DEF Sound
  <2>6. mishaps' \subseteq Mishaps
    BY <1>1, <2>1 DEF Mishaps
  <2>7. QED
    BY <1>1, <1>12, <2>5, <2>6 DEF Reverse, TypeInv, TypeOK
<1>13. CASE Undo(c)
  <2> DEFINE me == [cli[c] EXCEPT !.todo = Tail(@)]
  <2>1. me \in ClientState /\ me.at = "undo"
    BY <1>1, <1>5, <1>13 DEF Undo, At, ClientState
  <2>2. Becomes(c, me)
    BY <1>13 DEF Undo
  <2> HIDE DEF me
  <2>3. kept
    BY <2>1, <2>2, OneClient DEF Sound
  <2>4. force' \in [Effects -> Nat]
    BY <1>5, <1>6, <1>13 DEF Undo
  <2>5. QED
    BY <1>1, <1>13, <2>3, <2>4 DEF Undo, TypeInv, TypeOK
<1>14. CASE UndoDone(c)
  <2> DEFINE me == [cli[c] EXCEPT !.at = "save", !.lifts = {}]
  <2>1. me \in ClientState /\ me.at = "save"
    BY <1>1 DEF ClientState
  <2>2. Becomes(c, me)
    BY <1>14 DEF UndoDone
  <2> HIDE DEF me
  <2>3. kept
    BY <2>1, <2>2, OneClient DEF Sound
  <2>4. QED
    BY <1>1, <1>14, <2>3 DEF UndoDone, TypeInv, TypeOK
<1>15. CASE SaveTruncates(c)
  <2> DEFINE me == [cli[c] EXCEPT !.at = "write"]
  <2>1. me \in ClientState /\ me.at = "write"
    BY <1>1 DEF ClientState
  <2>2. Becomes(c, me)
    BY <1>15 DEF SaveTruncates
  <2> HIDE DEF me
  <2>3. kept
    BY <2>1, <2>2, OneClient DEF Sound
  <2>4. mishaps' \subseteq Mishaps
    BY <1>1, <1>15 DEF SaveTruncates, Raced, Mishaps
  <2>5. QED
    BY <1>1, <1>15, <2>3, <2>4 DEF SaveTruncates, TypeInv, TypeOK
<1>16. CASE SaveWrites(c)
  <2> DEFINE new(d) == IF d = c THEN Turned(cli[c]) ELSE [cli[d] EXCEPT !.stale = ~At(d, "idle")]
  <2>1. cli' = [d \in Clients |-> new(d)]
    BY <1>16 DEF SaveWrites
  <2>2. ASSUME NEW d \in Clients
        PROVE  Sound(new(d))
    <3>1. CASE d = c
      BY <1>1, <3>1, TurnedSound
    <3>2. CASE d # c
      <4>1. cli[d] \in ClientState /\ (cli[d].at \in {"mode", "apply"} => cli[d].plan # <<>>)
        BY DEF TypeInv, TypeOK, Planned
      <4> DEFINE late == ~At(d, "idle")
      <4>2. late \in BOOLEAN
        OBVIOUS
      <4>3. new(d) = [cli[d] EXCEPT !.stale = late]
        BY <3>2
      <4> HIDE DEF late, new
      <4>4. QED
        BY <4>1, <4>2, <4>3 DEF Sound, ClientState
    <3>3. QED
      BY <3>1, <3>2
  <2> HIDE DEF new
  <2>3. kept
    BY <2>1, <2>2 DEF Sound, Planned
  <2>4. mishaps' \subseteq Mishaps
    BY <1>1, <1>16 DEF SaveWrites, Raced, Mishaps
  <2>5. file' \in [list : Seq(Condition), torn : BOOLEAN]
    BY <1>2, <1>16 DEF SaveWrites
  <2>6. QED
    BY <1>1, <1>16, <2>3, <2>4, <2>5 DEF SaveWrites, TypeInv, TypeOK
<1>17. QED
  BY <1>7, <1>8, <1>9, <1>10, <1>11, <1>12, <1>13, <1>14, <1>15, <1>16 DEF Step

LEMMA TroubleKeeps ==
  ASSUME TypeInv, NEW c \in Clients, Trouble(c)
  PROVE  TypeInv'
<1> DEFINE kept == cli' \in [Clients -> ClientState] /\ Planned'
<1>1. /\ cli[c] \in ClientState /\ cli[c].todo \in Seq(ExecStep)
      /\ mishaps \subseteq Mishaps /\ force \in [Effects -> Nat]
  BY DEF TypeInv, TypeOK, ClientState
<1>2. cli[c].todo # <<>> => Head(cli[c].todo) \in ExecStep /\ Tail(cli[c].todo) \in Seq(ExecStep)
  BY <1>1, HeadTailProperties
<1>3. CASE ModeFails(c)
  <2>1. kept
    BY <1>3, ReturnKeeps DEF ModeFails
  <2>2. QED
    BY <1>3, <2>1 DEF ModeFails, TypeInv, TypeOK
<1>4. CASE ApplyFails(c)
  <2>1. kept
    BY <1>4, ReturnKeeps DEF ApplyFails
  <2>2. Done(Head(cli[c].todo)) \in [Effects -> Nat]
    BY <1>2, <1>4, DoneType DEF ApplyFails, TypeInv
  <2>3. PICK f \in {force, Done(Head(cli[c].todo))} :
          /\ force' = f
          /\ mishaps' = IF Begun(c) \/ f # force THEN mishaps \cup {"failed"} ELSE mishaps
    BY <1>4 DEF ApplyFails
  <2>4. force' \in [Effects -> Nat] /\ mishaps' \subseteq Mishaps
    BY <1>1, <2>2, <2>3 DEF Mishaps
  <2>5. QED
    BY <1>4, <2>1, <2>4 DEF ApplyFails, TypeInv, TypeOK
<1>5. ASSUME SuspendUnheeded(c) \/ UndoFails(c)
      PROVE  TypeInv'
  <2> DEFINE me == [cli[c] EXCEPT !.todo = Tail(@)]
  <2>1. me \in ClientState /\ me.at = cli[c].at /\ me.plan = cli[c].plan
    BY <1>1, <1>2, <1>5 DEF SuspendUnheeded, UndoFails, ClientState
  <2>2. Becomes(c, me)
    BY <1>5 DEF SuspendUnheeded, UndoFails
  <2> HIDE DEF me
  <2>3. Sound(me)
    BY <2>1 DEF Sound, TypeInv, Planned
  <2>4. kept
    BY <2>2, <2>3, OneClient
  <2>5. QED
    BY <1>1, <1>5, <2>4 DEF SuspendUnheeded, UndoFails, Mishaps, TypeInv, TypeOK
<1>6. CASE Killed(c)
  <2>1. kept
    BY <1>6, ReturnKeeps DEF Killed
  <2>2. mishaps' \subseteq Mishaps
    BY <1>1, <1>6 DEF Killed, Mishaps
  <2>3. QED
    BY <1>6, <2>1, <2>2 DEF Killed, TypeInv, TypeOK
<1>7. QED
  BY <1>3, <1>4, <1>5, <1>6 DEF Trouble

LEMMA RestartKeeps ==
  ASSUME TypeInv, NEW n \in Nodes, Restart(n)
  PROVE  TypeInv'
<1>1. pid[n] \in Pids /\ pid \in [Nodes -> Pids] /\ force \in [Effects -> Nat]
  BY DEF TypeInv, TypeOK
<1>2. pid' \in [Nodes -> Pids]
  BY <1>1, BoundsAssumption DEF Restart, Pids
<1>3. force' \in [Effects -> Nat]
  BY <1>1 DEF Restart
<1>4. QED
  BY <1>2, <1>3 DEF Restart, TypeInv, TypeOK, Planned

LEMMA TypeInvariant == Spec => []TypeInv
<1>1. Init => TypeInv
  <2> SUFFICES ASSUME Init PROVE TypeInv
    OBVIOUS
  <2>1. Returned("none") \in ClientState /\ Returned("none").at = "idle"
    BY ReturnedSound DEF Sound, Returned
  <2>2. cli = [c \in Clients |-> Returned("none")]
    BY DEF Init
  <2>3. <<>> \in Seq(Condition)
    BY EmptySeq
  <2>4. pid \in [Nodes -> Pids]
    BY BoundsAssumption DEF Init, Pids
  <2>5. QED
    BY <2>1, <2>2, <2>3, <2>4 DEF Init, TypeInv, TypeOK, Planned, Mishaps
<1>2. TypeInv /\ [Next]_vars => TypeInv'
  <2> SUFFICES ASSUME TypeInv, [Next]_vars PROVE TypeInv'
    OBVIOUS
  <2>1. ASSUME NEW c \in Clients, Command(c) \/ Step(c) \/ Trouble(c)
        PROVE  TypeInv'
    BY <2>1, CommandsKeep, StepsKeep, TroubleKeeps
  <2>2. ASSUME NEW n \in Nodes, Restart(n)
        PROVE  TypeInv'
    BY <2>2, RestartKeeps
  <2>3. CASE UNCHANGED vars
    BY <2>3 DEF vars, TypeInv, TypeOK, Planned
  <2>4. QED
    BY <2>1, <2>2, <2>3 DEF Next
<1>3. QED
  BY <1>1, <1>2, PTL DEF Spec

(* Every state the commands, their failures and the restarts of nodes lead *)
(* to is one the variables were declared for: no effect is in force a      *)
(* negative number of times, and no process enters a condition it has not. *)
THEOREM TypeCorrect == Spec => []TypeOK
<1>1. TypeInv => TypeOK
  BY DEF TypeInv
<1>2. QED
  BY <1>1, TypeInvariant, PTL

-----------------------------------------------------------------------------
(* The conditions and the execs the commands make.                         *)

Mirror(e) == <<e[1], e[3], e[2]>>
Cutting == {"blackhole", "drop"}
Dying == {"suspend", "quiesce"}       \* these end with the processes of a node
Tried == {"binary", "contention"}     \* entered by one exec that refuses nothing

Fine(a, broke) ==
  /\ a.effects # <<>>
  /\ \A i \in DOMAIN a.effects : a.effects[i][1] = a.kind
  /\ \A i, j \in DOMAIN a.effects : a.effects[i] = a.effects[j] => i = j
  /\ a.kind \in Tried => Len(a.effects) = 1
  /\ a.kind \in Cutting => \A e \in Effects : Names(a, e) => Names(a, Mirror(e))
  /\ a.broken => broke
AllFine(s, broke) == \A i \in DOMAIN s : Fine(s[i], broke)

(* The effects of execs to come, and execs that are left of a condition's. *)
Coming(todo) == {todo[i].effect : i \in DOMAIN todo}
Distinct(todo) == \A i, j \in DOMAIN todo : todo[i].effect = todo[j].effect => i = j
Remains(todo, effects) ==
  /\ Len(todo) <= Len(effects)
  /\ \A i \in DOMAIN todo :
       todo[i] = [sets |-> TRUE, effect |-> effects[Len(effects) - Len(todo) + i]]
Lastly(s) == s[Len(s)]

(* What a client keeps goes with the phase it is in, and with the file as  *)
(* long as nobody has written it since.                                    *)
Stage(me, list, broke) ==
  /\ AllFine(me.list, broke) /\ AllFine(me.plan, broke)
  /\ me.at \in {"idle", "save", "write"} => me.todo = <<>>
  /\ me.at \in {"mode", "apply"} =>
       /\ me.outcome = "entered"
       /\ Remains(me.todo, Head(me.plan).effects)
       /\ ~me.stale => me.list = list
  /\ me.at = "mode" => Len(me.todo) = Len(Head(me.plan).effects)
  /\ me.at = "undo" =>
       /\ me.outcome # "entered" /\ Distinct(me.todo)
       /\ \A i \in DOMAIN me.todo : me.todo[i].sets => broke
  /\ me.at \in {"save", "write"} =>
       IF me.outcome = "entered"
       THEN me.list # <<>> /\ (~me.stale => me.list = Append(list, Lastly(me.list)))
       ELSE me.plan = <<>>

Broke == "overwritten" \in mishaps
Ledger == AllFine(file.list, Broke) /\ \A c \in Clients : Stage(cli[c], file.list, Broke)

-----------------------------------------------------------------------------
(* Counting the conditions of a list that name an effect.                  *)

Naming(list, e) == Cardinality(Lists(list, e))
One(p) == IF p THEN 1 ELSE 0

LEMMA NamingType ==
  ASSUME NEW S, NEW s \in Seq(S), NEW e
  PROVE  /\ IsFiniteSet(Lists(s, e)) /\ Naming(s, e) \in Nat
         /\ Lists(s, e) # {} <=> Naming(s, e) > 0
<1>1. DOMAIN s = 1..Len(s) /\ Len(s) \in Nat
  BY LenProperties
<1>2. IsFiniteSet(1..Len(s))
  BY <1>1, FS_Interval
<1>3. Lists(s, e) \subseteq 1..Len(s)
  BY <1>1 DEF Lists
<1>4. IsFiniteSet(Lists(s, e))
  BY <1>2, <1>3, FS_Subset
<1>5. Cardinality(Lists(s, e)) \in Nat
  BY <1>4, FS_CardinalityType
<1>6. Cardinality(Lists(s, e)) = 0 <=> Lists(s, e) = {}
  BY <1>4, FS_EmptySet
<1>7. QED
  BY <1>4, <1>5, <1>6 DEF Naming

LEMMA NamingEmpty ==
  ASSUME NEW e
  PROVE  Naming(<<>>, e) = 0
<1>1. Lists(<<>>, e) = {}
  BY DEF Lists
<1>2. QED
  BY <1>1, FS_EmptySet DEF Naming

LEMMA NamingAppend ==
  ASSUME NEW S, NEW s \in Seq(S), NEW a \in S, NEW e
  PROVE  Naming(Append(s, a), e) = Naming(s, e) + One(Names(a, e))
<1> DEFINE t == Append(s, a)
           n == Len(s) + 1
<1>1. DOMAIN s = 1..Len(s) /\ Len(s) \in Nat /\ t \in Seq(S) /\ DOMAIN t = 1..n
      /\ (\A i \in 1..Len(s) : t[i] = s[i]) /\ t[n] = a
  BY LenProperties, AppendProperties
<1>2. IsFiniteSet(Lists(s, e)) /\ Naming(s, e) \in Nat
  BY NamingType
<1>3. n \notin Lists(s, e)
  BY <1>1 DEF Lists
<1> HIDE DEF t
<1>4. CASE Names(a, e)
  <2>1. Lists(t, e) = Lists(s, e) \cup {n}
    BY <1>1, <1>4 DEF Lists
  <2>2. Cardinality(Lists(t, e)) = Cardinality(Lists(s, e)) + 1
    BY <1>2, <1>3, <2>1, FS_AddElement
  <2>3. QED
    BY <1>4, <2>2 DEF Naming, One, t
<1>5. CASE ~Names(a, e)
  <2>1. Lists(t, e) = Lists(s, e)
    BY <1>1, <1>5 DEF Lists
  <2>2. QED
    BY <1>2, <1>5, <2>1 DEF Naming, One, t
<1>6. QED
  BY <1>4, <1>5

LEMMA NamingHead ==
  ASSUME NEW S, NEW s \in Seq(S), s # <<>>, NEW e
  PROVE  Naming(s, e) = One(Names(Head(s), e)) + Naming(Tail(s), e)
<1> DEFINE t == Tail(s)
<1>1. DOMAIN s = 1..Len(s) /\ Len(s) \in Nat /\ t \in Seq(S) /\ Len(t) = Len(s) - 1 /\ Len(s) >= 1
      /\ DOMAIN t = 1..Len(t) /\ (\A i \in 1..Len(t) : t[i] = s[i + 1]) /\ Head(s) = s[1]
  BY LenProperties, HeadTailProperties, EmptySeq
<1>2. IsFiniteSet(Lists(s, e)) /\ Naming(s, e) \in Nat /\ IsFiniteSet(Lists(t, e)) /\ Naming(t, e) \in Nat
  BY <1>1, NamingType
<1> HIDE DEF t
<1> DEFINE rest == Lists(s, e) \ {1}
           f == [i \in Lists(t, e) |-> i + 1]
<1>3. \A i \in Lists(t, e) : i \in Nat /\ i + 1 \in rest
  BY <1>1 DEF Lists
<1>4. \A j \in rest : j - 1 \in Lists(t, e) /\ (j - 1) + 1 = j
  BY <1>1 DEF Lists
<1>5. f \in Bijection(Lists(t, e), rest)
  <2>1. f \in [Lists(t, e) -> rest]
    BY <1>3
  <2>2. \A i, j \in Lists(t, e) : f[i] = f[j] => i = j
    BY <1>3
  <2>3. \A j \in rest : \E i \in Lists(t, e) : f[i] = j
    BY <1>4
  <2>4. QED
    BY <2>1, <2>2, <2>3, Fun_IsBij
<1>6. Cardinality(rest) = Cardinality(Lists(t, e)) /\ IsFiniteSet(rest)
  BY <1>2, <1>5, FS_Bijection DEF ExistsBijection
<1>7. CASE Names(Head(s), e)
  <2>1. Lists(s, e) = rest \cup {1} /\ 1 \notin rest
    BY <1>1, <1>7 DEF Lists
  <2>2. Cardinality(Lists(s, e)) = Cardinality(rest) + 1
    BY <1>6, <2>1, FS_AddElement
  <2>3. QED
    BY <1>2, <1>6, <1>7, <2>2 DEF Naming, One, t
<1>8. CASE ~Names(Head(s), e)
  <2>1. Lists(s, e) = rest
    BY <1>1, <1>8 DEF Lists
  <2> HIDE DEF rest, f
  <2>2. Naming(s, e) = Naming(t, e)
    BY <1>6, <2>1 DEF Naming
  <2>3. QED
    BY <1>2, <1>8, <2>2 DEF One, t
<1>9. QED
  BY <1>7, <1>8

-----------------------------------------------------------------------------
(* The execs that are left.                                                *)

(* The first of them is done: its effect is not to come again.             *)
LEMMA ComingTail ==
  ASSUME NEW todo \in Seq(ExecStep), todo # <<>>, Distinct(todo)
  PROVE  /\ Distinct(Tail(todo)) /\ Head(todo).effect \in Coming(todo)
         /\ Coming(Tail(todo)) = Coming(todo) \ {Head(todo).effect}
<1> DEFINE t == Tail(todo)
<1>1. DOMAIN todo = 1..Len(todo) /\ Len(todo) \in Nat /\ Len(t) = Len(todo) - 1 /\ Len(todo) >= 1
      /\ DOMAIN t = 1..Len(t) /\ (\A i \in 1..Len(t) : t[i] = todo[i + 1]) /\ Head(todo) = todo[1]
  BY LenProperties, HeadTailProperties, EmptySeq
<1> HIDE DEF t
<1>2. Distinct(t)
  <2> SUFFICES ASSUME NEW i \in DOMAIN t, NEW j \in DOMAIN t, t[i].effect = t[j].effect
               PROVE  i = j
    BY DEF Distinct
  <2>1. i + 1 \in DOMAIN todo /\ j + 1 \in DOMAIN todo /\ i \in Nat /\ j \in Nat
    BY <1>1
  <2>2. todo[i + 1].effect = todo[j + 1].effect
    BY <1>1
  <2>3. i + 1 = j + 1
    BY <2>1, <2>2 DEF Distinct
  <2>4. QED
    BY <2>1, <2>3
<1>3. 1 \in DOMAIN todo
  BY <1>1
<1>4. Head(todo).effect \in Coming(todo)
  BY <1>1, <1>3 DEF Coming
<1>5. \A i \in DOMAIN t : t[i].effect \in Coming(todo) /\ t[i].effect # Head(todo).effect
  <2> TAKE i \in DOMAIN t
  <2>1. i + 1 \in DOMAIN todo /\ i + 1 # 1 /\ t[i] = todo[i + 1]
    BY <1>1
  <2>2. QED
    BY <1>1, <1>3, <2>1 DEF Coming, Distinct
<1>6. \A i \in DOMAIN todo : todo[i].effect # Head(todo).effect => todo[i].effect \in Coming(t)
  <2> SUFFICES ASSUME NEW i \in DOMAIN todo, todo[i].effect # Head(todo).effect
               PROVE  todo[i].effect \in Coming(t)
    OBVIOUS
  <2>1. i # 1 /\ i - 1 \in DOMAIN t /\ t[i - 1] = todo[i]
    BY <1>1
  <2>2. QED
    BY <2>1 DEF Coming
<1>7. Coming(t) = Coming(todo) \ {Head(todo).effect}
  BY <1>5, <1>6 DEF Coming
<1>8. QED
  BY <1>2, <1>4, <1>7 DEF t

(* What is left of the execs that enter a condition.                       *)
LEMMA RemainsFacts ==
  ASSUME NEW a \in Condition, NEW broke, Fine(a, broke), NEW todo \in Seq(ExecStep), Remains(todo, a.effects)
  PROVE  /\ Distinct(todo)
         /\ \A e \in Coming(todo) : Names(a, e)
         /\ todo # <<>> => Remains(Tail(todo), a.effects) /\ Head(todo).sets = TRUE
         /\ Len(todo) = Len(a.effects) => \A e : Names(a, e) => e \in Coming(todo)
<1> DEFINE t == Tail(todo)
           w == a.effects
           k == Len(w) - Len(todo)
<1>1. w \in Seq(Effects)
  BY DEF Condition
<1>2. DOMAIN w = 1..Len(w) /\ Len(w) \in Nat /\ DOMAIN todo = 1..Len(todo) /\ Len(todo) \in Nat
      /\ Len(todo) <= Len(w) /\ k \in Nat
  BY <1>1, LenProperties DEF Remains
<1>3. \A i \in DOMAIN todo : k + i \in DOMAIN w /\ todo[i].effect = w[k + i] /\ todo[i].sets = TRUE
  BY <1>2 DEF Remains
<1>4. Distinct(todo)
  <2> SUFFICES ASSUME NEW i \in DOMAIN todo, NEW j \in DOMAIN todo, todo[i].effect = todo[j].effect
               PROVE  i = j
    BY DEF Distinct
  <2>1. k + i \in DOMAIN w /\ k + j \in DOMAIN w /\ w[k + i] = w[k + j]
    BY <1>3
  <2>2. k + i = k + j
    BY <2>1 DEF Fine
  <2>3. QED
    BY <1>2, <2>2
<1>5. \A e \in Coming(todo) : Names(a, e)
  BY <1>3 DEF Coming, Names
<1>6. ASSUME todo # <<>>
      PROVE  Remains(t, w) /\ Head(todo).sets = TRUE
  <2>1. Len(t) = Len(todo) - 1 /\ Len(todo) >= 1 /\ DOMAIN t = 1..Len(t) /\ Head(todo) = todo[1]
        /\ (\A i \in 1..Len(t) : t[i] = todo[i + 1])
    BY <1>6, <1>2, LenProperties, HeadTailProperties, EmptySeq
  <2> HIDE DEF t
  <2>2. ASSUME NEW i \in DOMAIN t
        PROVE  t[i] = [sets |-> TRUE, effect |-> w[Len(w) - Len(t) + i]]
    <3>1. i + 1 \in DOMAIN todo /\ t[i] = todo[i + 1]
      BY <1>2, <2>1
    <3>2. i \in Nat
      BY <1>2, <2>1
    <3>3. Len(w) \in Nat /\ Len(todo) \in Nat /\ Len(t) = Len(todo) - 1
      BY <1>2, <2>1
    <3>4. \A j : \A m, l, n \in Nat : j = n - 1 => m - j + l = m - n + (l + 1)
      OBVIOUS
    <3> HIDE DEF w, k
    <3>5. Len(w) - Len(t) + i = Len(w) - Len(todo) + (i + 1)
      BY <3>2, <3>3, <3>4
    <3>6. QED
      BY <3>1, <3>5 DEF Remains, w
  <2>3. QED
    BY <1>2, <1>3, <2>1, <2>2 DEF Remains
<1>7. ASSUME Len(todo) = Len(w), NEW e, Names(a, e)
      PROVE  e \in Coming(todo)
  <2>1. PICK i \in DOMAIN w : w[i] = e
    BY <1>7 DEF Names
  <2>2. i \in DOMAIN todo /\ k + i = i
    BY <1>2, <1>7
  <2>3. QED
    BY <1>3, <2>1, <2>2 DEF Coming
<1>8. QED
  BY <1>4, <1>5, <1>6, <1>7

(* All of them, before the first.                                          *)
LEMMA EnteringRemains ==
  ASSUME NEW effects \in Seq(Effects)
  PROVE  Remains(Entering(effects), effects) /\ Len(Entering(effects)) = Len(effects)
<1> DEFINE t == Entering(effects)
<1>1. t \in Seq(ExecStep)
  BY EnteringType
<1>2. DOMAIN effects = 1..Len(effects) /\ Len(effects) \in Nat /\ DOMAIN t = 1..Len(t) /\ Len(t) \in Nat
  BY <1>1, LenProperties
<1>3. DOMAIN t = DOMAIN effects /\ \A i \in DOMAIN effects : t[i] = [sets |-> TRUE, effect |-> effects[i]]
  BY DEF Entering
<1> HIDE DEF t
<1>4. Len(t) = Len(effects)
  <2>1. \A m, n \in Nat : 1..m = 1..n => m = n
    OBVIOUS
  <2>2. 1..Len(t) = 1..Len(effects)
    BY <1>2, <1>3
  <2>3. QED
    BY <1>2, <2>1, <2>2
<1>5. \A i \in DOMAIN t : Len(effects) - Len(t) + i = i
  BY <1>2, <1>4
<1>6. Remains(t, effects)
  BY <1>2, <1>3, <1>4, <1>5 DEF Remains
<1>7. QED
  BY <1>4, <1>6 DEF t

(* The execs that put a condition back.                                    *)
LEMMA ReversalFacts ==
  ASSUME NEW a \in Condition, NEW broke, Fine(a, broke), NEW verb
  PROVE  LET todo == Reversal(a, verb)
         IN /\ Distinct(todo)
            /\ \A i \in DOMAIN todo : todo[i].sets => broke
            /\ todo # <<>> => \A e : e \in Coming(todo) <=> Names(a, e)
<1> DEFINE full == [i \in DOMAIN a.effects |-> [sets |-> a.broken, effect |-> a.effects[i]]]
<1>1. CASE Reversal(a, verb) = <<>>
  BY <1>1 DEF Distinct
<1>2. CASE Reversal(a, verb) = full
  <2>1. Distinct(full)
    BY DEF Fine, Distinct
  <2>2. \A i \in DOMAIN full : full[i].sets => broke
    BY DEF Fine
  <2>3. \A e : e \in Coming(full) <=> Names(a, e)
    BY DEF Coming, Names
  <2> HIDE DEF full
  <2>4. QED
    BY <1>2, <2>1, <2>2, <2>3
<1>3. QED
  BY <1>1, <1>2 DEF Reversal

-----------------------------------------------------------------------------
(* The conditions that commands enter are fine.                            *)

LEMMA SingleFine ==
  ASSUME NEW kind \in Kinds \ Cutting, NEW n, NEW arg, NEW broke
  PROVE  Fine(Single(kind, n, arg), broke)
<1> DEFINE a == Single(kind, n, arg)
<1>1. a.effects = <<<<kind, n, arg>>>> /\ a.kind = kind /\ a.broken = FALSE
  BY DEF Single
<1>2. DOMAIN a.effects = {1} /\ Len(a.effects) = 1 /\ a.effects[1][1] = kind /\ a.effects # <<>>
  BY <1>1
<1> HIDE DEF a
<1>3. Fine(a, broke)
  BY <1>1, <1>2 DEF Fine
<1>4. QED
  BY <1>3 DEF a

LEMMA QuiesceFine ==
  ASSUME NEW broke
  PROVE  Fine([kind |-> "quiesce", target |-> Nodes, broken |-> FALSE,
               effects |-> [n \in Nodes |-> <<"quiesce", n, 0>>]], broke)
<1> DEFINE w == [n \in Nodes |-> <<"quiesce", n, 0>>]
<1>1. DOMAIN w = Nodes /\ 1 \in Nodes
  BY NodesAssumption DEF Nodes
<1>2. w # <<>>
  BY <1>1
<1>3. \A n \in Nodes : w[n][1] = "quiesce" /\ w[n][2] = n
  OBVIOUS
<1>4. \A n, m \in Nodes : w[n] = w[m] => n = m
  BY <1>3
<1> HIDE DEF w
<1>5. QED
  BY <1>1, <1>2, <1>3, <1>4 DEF Fine, Tried, Cutting

LEMMA CutsFacts ==
  ASSUME NEW kind \in Cutting, NEW target \in Nodes, NEW peers \in Picks,
         \A i \in DOMAIN peers : peers[i] # target
  PROVE  LET w == Cuts(kind, target, peers)
         IN /\ w # <<>>
            /\ \A i \in DOMAIN w : w[i][1] = kind /\ \E j \in DOMAIN w : w[j] = Mirror(w[i])
            /\ \A i, j \in DOMAIN w : w[i] = w[j] => i = j
<1> DEFINE w == Cuts(kind, target, peers)
           n == Len(peers)
<1>1. peers \in Seq(Nodes)
  BY PicksAreSeqs
<1>2. DOMAIN peers = 1..n /\ n \in Nat
  BY <1>1, LenProperties
<1>3. n >= 1
  <2>1. PICK k \in 1..NNodes : peers \in [1..k -> Nodes]
    BY DEF Picks
  <2>2. k \in Nat /\ 1 \in DOMAIN peers
    BY <2>1, NodesAssumption
  <2>3. QED
    BY <1>2, <2>2
<1>4. \A i, j \in 1..n : peers[i] = peers[j] => i = j
  <2> SUFFICES ASSUME NEW i \in 1..n, NEW j \in 1..n, peers[i] = peers[j] PROVE i = j
    OBVIOUS
  <2>1. \A x, y \in DOMAIN peers : x < y => peers[x] < peers[y]
    BY DEF Picks
  <2>2. peers[i] \in Nat /\ peers[j] \in Nat
    BY <1>1, <1>2, ElementOfSeq, NodesAssumption DEF Nodes
  <2>3. ~(i < j) /\ ~(j < i)
    BY <1>2, <2>1, <2>2
  <2>4. QED
    BY <1>2, <2>3
<1>5. DOMAIN w = 1..2 * n
  BY DEF Cuts
<1>6. ASSUME NEW i \in 1..2 * n
      PROVE  /\ i \in Nat /\ (i + 1) \div 2 \in 1..n
             /\ i % 2 = 1 => w[i] = <<kind, target, peers[(i + 1) \div 2]>>
             /\ i % 2 # 1 => w[i] = <<kind, peers[(i + 1) \div 2], target>>
  <2>1. i \in Nat /\ (i + 1) \div 2 \in 1..n
    BY <1>2
  <2>2. QED
    BY <2>1 DEF Cuts
<1> HIDE DEF w
<1>7. ASSUME NEW i \in 1..2 * n
      PROVE  w[i][1] = kind /\ \E j \in 1..2 * n : w[j] = Mirror(w[i])
  <2>1. CASE i % 2 = 1
    <3>1. i + 1 \in 1..2 * n /\ (i + 1) % 2 # 1 /\ ((i + 1) + 1) \div 2 = (i + 1) \div 2
      BY <1>2, <2>1
    <3>2. w[i + 1] = <<kind, peers[(i + 1) \div 2], target>>
      BY <1>6, <3>1
    <3>3. w[i] = <<kind, target, peers[(i + 1) \div 2]>>
      BY <1>6, <2>1
    <3>4. QED
      BY <3>1, <3>2, <3>3 DEF Mirror
  <2>2. CASE i % 2 # 1
    <3>1. i - 1 \in 1..2 * n /\ (i - 1) % 2 = 1 /\ ((i - 1) + 1) \div 2 = (i + 1) \div 2
      BY <1>2, <2>2
    <3>2. w[i - 1] = <<kind, target, peers[(i + 1) \div 2]>>
      BY <1>6, <3>1
    <3>3. w[i] = <<kind, peers[(i + 1) \div 2], target>>
      BY <1>6, <2>2
    <3>4. Mirror(w[i]) = <<kind, target, peers[(i + 1) \div 2]>>
      BY <3>3 DEF Mirror
    <3>5. w[i][1] = kind
      BY <3>3
    <3>6. w[i - 1] = Mirror(w[i])
      BY <3>2, <3>4
    <3>7. QED
      BY <3>1, <3>5, <3>6
  <2>3. QED
    BY <2>1, <2>2
<1>8. ASSUME NEW i \in 1..2 * n, NEW j \in 1..2 * n, w[i] = w[j]
      PROVE  i = j
  <2> DEFINE hi == (i + 1) \div 2
             hj == (j + 1) \div 2
  <2>1. hi \in 1..n /\ hj \in 1..n /\ i \in Nat /\ j \in Nat
    BY <1>6
  <2>2. peers[hi] # target /\ peers[hj] # target
    BY <1>2, <2>1
  <2>3. (i % 2 = 1 <=> j % 2 = 1) /\ peers[hi] = peers[hj]
    BY <1>6, <1>8, <2>2
  <2>4. hi = hj
    BY <1>4, <2>1, <2>3
  <2>5. QED
    BY <2>1, <2>3, <2>4
<1>9. w # <<>>
  BY <1>2, <1>3, <1>5
<1>10. QED
  BY <1>5, <1>7, <1>8, <1>9 DEF w

LEMMA PartitionFine ==
  ASSUME NEW kind \in Cutting, NEW target \in Nodes, NEW peers \in Picks,
         \A i \in DOMAIN peers : peers[i] # target, NEW broke
  PROVE  Fine([kind |-> kind, target |-> {target}, broken |-> FALSE,
               effects |-> Cuts(kind, target, peers)], broke)
<1> DEFINE w == Cuts(kind, target, peers)
           a == [kind |-> kind, target |-> {target}, broken |-> FALSE, effects |-> w]
<1>1. /\ w # <<>>
      /\ \A i \in DOMAIN w : w[i][1] = kind /\ \E j \in DOMAIN w : w[j] = Mirror(w[i])
      /\ \A i, j \in DOMAIN w : w[i] = w[j] => i = j
  BY CutsFacts
<1>2. a.kind = kind /\ a.effects = w /\ a.broken = FALSE /\ kind \notin Tried
  BY DEF Cutting, Tried
<1>3. \A e : Names(a, e) => Names(a, Mirror(e))
  BY <1>1, <1>2 DEF Names
<1> HIDE DEF w, a
<1>4. Fine(a, broke)
  BY <1>1, <1>2, <1>3 DEF Fine
<1>5. QED
  BY <1>4 DEF a, w

-----------------------------------------------------------------------------
(* Lists and stages.                                                       *)

LEMMA FineLists ==
  ASSUME NEW S, NEW s \in Seq(S), NEW broke, AllFine(s, broke)
  PROVE  /\ s # <<>> => Fine(Head(s), broke) /\ AllFine(Tail(s), broke)
         /\ \A a \in S : Fine(a, broke) => AllFine(Append(s, a), broke)
         /\ \A later : (broke => later) => AllFine(s, later)
<1>1. DOMAIN s = 1..Len(s) /\ Len(s) \in Nat
  BY LenProperties
<1>2. ASSUME s # <<>>
      PROVE  Fine(Head(s), broke) /\ AllFine(Tail(s), broke)
  <2>1. Len(s) >= 1 /\ Head(s) = s[1] /\ DOMAIN Tail(s) = 1..(Len(s) - 1)
        /\ \A i \in 1..(Len(s) - 1) : Tail(s)[i] = s[i + 1]
    BY <1>1, <1>2, LenProperties, HeadTailProperties, EmptySeq
  <2>2. 1 \in DOMAIN s /\ \A i \in 1..(Len(s) - 1) : i + 1 \in DOMAIN s
    BY <1>1, <2>1
  <2>3. QED
    BY <2>1, <2>2 DEF AllFine
<1>3. ASSUME NEW a \in S, Fine(a, broke)
      PROVE  AllFine(Append(s, a), broke)
  <2>1. DOMAIN Append(s, a) = 1..(Len(s) + 1)
        /\ (\A i \in 1..Len(s) : Append(s, a)[i] = s[i]) /\ Append(s, a)[Len(s) + 1] = a
    BY <1>1, AppendProperties, LenProperties
  <2>2. \A i \in 1..(Len(s) + 1) : i \in 1..Len(s) \/ i = Len(s) + 1
    BY <1>1
  <2>3. QED
    BY <1>1, <1>3, <2>1, <2>2 DEF AllFine
<1>4. ASSUME NEW later, broke => later
      PROVE  AllFine(s, later)
  BY <1>4 DEF AllFine, Fine
<1>5. QED
  BY <1>2, <1>3, <1>4

LEMMA LastlyAppended ==
  ASSUME NEW S, NEW s \in Seq(S), NEW a \in S
  PROVE  Lastly(Append(s, a)) = a /\ Append(s, a) # <<>>
<1>1. Len(Append(s, a)) = Len(s) + 1 /\ Append(s, a)[Len(s) + 1] = a /\ Append(s, a) # <<>>
  BY AppendProperties
<1>2. QED
  BY <1>1 DEF Lastly

LEMMA StageMore ==
  ASSUME NEW me \in ClientState, NEW list, NEW broke, NEW later, broke => later, Stage(me, list, broke)
  PROVE  Stage(me, list, later)
<1>1. me.list \in Seq(Condition) /\ me.plan \in Seq(Condition)
  BY DEF ClientState
<1>2. AllFine(me.list, later) /\ AllFine(me.plan, later)
  BY <1>1, FineLists DEF Stage
<1>3. QED
  BY <1>2 DEF Stage

LEMMA ReturnedStage ==
  ASSUME NEW result, NEW list, NEW broke
  PROVE  Stage(Returned(result), list, broke)
BY DEF Returned, Stage, AllFine

LEMMA TurnedStage ==
  ASSUME NEW me \in ClientState, NEW list, NEW broke, AllFine(me.list, broke), AllFine(me.plan, broke),
         me.plan # <<>> => me.outcome = "entered", ~me.stale => me.list = list
  PROVE  Stage(Turned(me), list, broke)
<1>1. CASE me.plan = <<>>
  BY <1>1, ReturnedStage DEF Turned
<1>2. CASE me.plan # <<>>
  <2> DEFINE a == Head(me.plan)
             todo == Entering(a.effects)
             you == [me EXCEPT !.at = Phase(a), !.todo = todo]
  <2>1. Turned(me) = you
    BY <1>2 DEF Turned
  <2>2. a \in Condition
    BY <1>2, HeadTailProperties DEF ClientState
  <2>3. Remains(todo, a.effects) /\ Len(todo) = Len(a.effects)
    BY <2>2, EnteringRemains DEF Condition
  <2>4. Phase(a) \in {"mode", "apply"}
    BY DEF Phase
  <2> HIDE DEF a, todo
  <2>5. /\ you.at = Phase(a) /\ you.todo = todo /\ you.list = me.list /\ you.plan = me.plan
        /\ you.stale = me.stale /\ you.outcome = me.outcome
    BY DEF ClientState
  <2> HIDE DEF you
  <2>6. you.at \in {"mode", "apply"}
    BY <2>4, <2>5
  <2>7. Head(you.plan) = a
    BY <2>5 DEF a
  <2>8. Stage(you, list, broke)
    BY <1>2, <2>3, <2>5, <2>6, <2>7 DEF Stage
  <2>9. QED
    BY <2>1, <2>8
<1>3. QED
  BY <1>1, <1>2

(* A step of one client that does not write the file.                      *)
LEMMA LedgerOne ==
  ASSUME TypeInv, Ledger, NEW c \in Clients, NEW me, Becomes(c, me), file'.list = file.list,
         mishaps \subseteq mishaps', Stage(me, file.list, Broke')
  PROVE  Ledger'
<1>1. Broke => Broke'
  BY DEF Broke
<1>2. cli \in [Clients -> ClientState] /\ file.list \in Seq(Condition)
  BY DEF TypeInv, TypeOK
<1>3. AllFine(file.list, Broke')
  BY <1>1, <1>2, FineLists DEF Ledger
<1>4. ASSUME NEW d \in Clients
      PROVE  Stage(cli'[d], file.list, Broke')
  <2>1. CASE d = c
    BY <1>2, <2>1 DEF Becomes
  <2>2. CASE d # c
    <3>1. cli'[d] = cli[d]
      BY <1>2, <2>2 DEF Becomes
    <3>2. Stage(cli[d], file.list, Broke) /\ cli[d] \in ClientState
      BY <1>2 DEF Ledger
    <3>3. Stage(cli[d], file.list, Broke')
      BY <1>1, <3>2, StageMore
    <3>4. QED
      BY <3>1, <3>3
  <2>3. QED
    BY <2>1, <2>2
<1>5. QED
  BY <1>3, <1>4 DEF Ledger

-----------------------------------------------------------------------------
(* The ledger is kept by every action.                                     *)

LEMMA EnterLedger ==
  ASSUME TypeInv, Ledger, NEW c \in Clients, NEW plan \in Seq(Condition), AllFine(plan, Broke), Enter(c, plan)
  PROVE  Ledger'
<1> DEFINE me == [Returned("entered") EXCEPT !.list = file.list, !.plan = plan]
<1>1. file.list \in Seq(Condition) /\ AllFine(file.list, Broke)
  BY DEF TypeInv, TypeOK, Ledger
<1>2. Returned("entered") \in ClientState
  BY ReturnedSound DEF Sound
<1>3. me \in ClientState
  BY <1>1, <1>2 DEF ClientState
<1>4. me.list = file.list /\ me.plan = plan /\ me.outcome = "entered"
  BY DEF Returned
<1>5. Becomes(c, Turned(me)) /\ UNCHANGED <<file, mishaps>>
  BY DEF Enter
<1> HIDE DEF me
<1>6. Stage(Turned(me), file.list, Broke)
  BY <1>1, <1>3, <1>4, TurnedStage
<1>7. Broke' = Broke
  BY <1>5 DEF Broke
<1>8. QED
  BY <1>5, <1>6, <1>7, LedgerOne

LEMMA OneFine ==
  ASSUME NEW a, NEW broke, Fine(a, broke)
  PROVE  AllFine(<<a>>, broke)
BY DEF AllFine

(* What a command starts: one of its plan's conditions after another, all  *)
(* of them fine, or the loop over the file's.                              *)
Starts(c, plan) ==
  /\ plan \in Seq(Condition) /\ AllFine(plan, FALSE) /\ Enter(c, plan)
  /\ \A i \in DOMAIN plan :
       plan[i].kind = "contention" => i = 1 /\ force[plan[i].effects[1]] = 0
Lifts(c) == \E verb \in {"cleared", "resumed"} : \E lifts : Lift(c, verb, lifts)

LEMMA OneStarts ==
  ASSUME NEW c, NEW a \in Condition, Fine(a, FALSE), Enter(c, <<a>>),
         a.kind = "contention" => force[a.effects[1]] = 0
  PROVE  Starts(c, <<a>>)
<1>1. DOMAIN <<a>> = {1} /\ <<a>>[1] = a
  OBVIOUS
<1>2. QED
  BY <1>1, OneIsSeq, OneFine DEF Starts

LEMMA CommandKinds ==
  ASSUME TypeInv, NEW c \in Clients, Command(c)
  PROVE  CannotOpen(c) \/ (\E plan : Starts(c, plan)) \/ Lifts(c)
<1>1. CASE CannotOpen(c)
  BY <1>1
<1>2. CASE Quiesce(c)
  <2> DEFINE a == [kind |-> "quiesce", target |-> Nodes, broken |-> FALSE,
                   effects |-> [n \in Nodes |-> <<"quiesce", n, 0>>]]
  <2>1. [n \in Nodes |-> <<"quiesce", n, 0>>] \in [1..NNodes -> Effects]
    BY DEF Nodes, Effects
  <2>2. [n \in Nodes |-> <<"quiesce", n, 0>>] \in Seq(Effects)
    BY <2>1, NodesAssumption, FunctionIsSeq
  <2>3. a \in Condition
    BY <2>2 DEF Condition, Kinds
  <2>4. Enter(c, <<a>>) /\ a.kind = "quiesce"
    BY <1>2 DEF Quiesce
  <2>5. Fine(a, FALSE)
    BY QuiesceFine
  <2> HIDE DEF a
  <2>6. QED
    BY <2>3, <2>4, <2>5, OneStarts
<1>3. ASSUME Resume(c) \/ \E who : Clear(c, who)
      PROVE  Lifts(c)
  BY <1>3 DEF Lifts, Resume, Clear
<1>4. ASSUME NEW n \in Nodes, NEW kind \in Kinds, Lag(c, kind, n)
      PROVE  \E plan : Starts(c, plan)
  <2> DEFINE arg == IF kind = "suspend" THEN pid[n] ELSE 0
  <2>1. pid[n] \in Pids
    BY DEF TypeInv, TypeOK
  <2>2. kind \in {"suspend", "delay"}
    BY <1>4 DEF Lag
  <2>3. <<kind, n, arg>> \in Effects
    BY <2>1, <2>2 DEF Effects
  <2>4. Enter(c, <<Single(kind, n, arg)>>)
    BY <1>4 DEF Lag
  <2>5. kind \in Kinds \ Cutting
    BY <2>2 DEF Kinds, Cutting
  <2> HIDE DEF arg
  <2>6. Single(kind, n, arg) \in Condition /\ Fine(Single(kind, n, arg), FALSE)
        /\ Single(kind, n, arg).kind # "contention"
    BY <2>2, <2>3, <2>5, SingleType, SingleFine DEF Single
  <2>7. QED
    BY <2>4, <2>6, OneStarts
<1>5. ASSUME NEW n \in Nodes, NEW peers \in Picks, NEW kind \in Kinds, Partition(c, kind, n, peers)
      PROVE  \E plan : Starts(c, plan)
  <2> DEFINE a == [kind |-> kind, target |-> {n}, broken |-> FALSE, effects |-> Cuts(kind, n, peers)]
  <2>1. kind \in {"blackhole", "drop"} /\ \A i \in DOMAIN peers : peers[i] # n
    BY <1>5 DEF Partition
  <2>2. Cuts(kind, n, peers) \in Seq(Effects)
    BY <2>1, CutsType
  <2>3. a \in Condition
    BY <2>2 DEF Condition
  <2>4. Enter(c, <<a>>) /\ a.kind # "contention"
    BY <1>5, <2>1 DEF Partition
  <2>5. Fine(a, FALSE)
    BY <2>1, PartitionFine DEF Cutting
  <2> HIDE DEF a
  <2>6. QED
    BY <2>3, <2>4, <2>5, OneStarts
<1>6. ASSUME NEW n \in Nodes, NEW p \in Pids, Contend(c, n, p)
      PROVE  \E plan : Starts(c, plan)
  <2> DEFINE a == Single("contention", n, p)
  <2>1. <<"contention", n, p>> \in Effects /\ "contention" \in Kinds \ Cutting
    BY DEF Effects, Kinds, Cutting
  <2>2. a \in Condition /\ Fine(a, FALSE) /\ a.effects[1] = <<"contention", n, p>>
    BY <2>1, SingleType, SingleFine DEF Single
  <2>3. Enter(c, <<a>>) /\ force[<<"contention", n, p>>] = 0
    BY <1>6 DEF Contend
  <2> HIDE DEF a
  <2>4. QED
    BY <2>2, <2>3, OneStarts
<1>7. ASSUME NEW names \in Picks, NEW kind \in Kinds, PingUnavailable(c, kind, names)
      PROVE  \E plan : Starts(c, plan)
  <2> DEFINE plan == [i \in DOMAIN names |-> Single(kind, names[i], 0)]
  <2>1. kind \in {"binary", "icmp"} /\ kind \in Kinds \ Cutting
    BY <1>7 DEF PingUnavailable, Kinds, Cutting
  <2>2. \A n \in Nodes : <<kind, n, 0>> \in Effects
    BY <2>1 DEF Effects
  <2>3. \A n \in Nodes : Single(kind, n, 0) \in Condition
    BY <2>2, SingleType
  <2>4. names \in Seq(Nodes)
    BY PicksAreSeqs
  <2>5. DOMAIN names = 1..Len(names) /\ Len(names) \in Nat /\ \A i \in 1..Len(names) : names[i] \in Nodes
    BY <2>4, LenProperties, ElementOfSeq
  <2>6. plan \in [1..Len(names) -> Condition]
    BY <2>3, <2>5
  <2>7. plan \in Seq(Condition)
    BY <2>5, <2>6, FunctionIsSeq
  <2>8. \A n : Fine(Single(kind, n, 0), FALSE) /\ Single(kind, n, 0).kind # "contention"
    BY <2>1, SingleFine DEF Single
  <2>9. AllFine(plan, FALSE) /\ \A i \in DOMAIN plan : plan[i].kind # "contention"
    BY <2>8 DEF AllFine
  <2>10. Enter(c, plan)
    BY <1>7 DEF PingUnavailable
  <2> HIDE DEF plan
  <2>11. QED
    BY <2>7, <2>9, <2>10 DEF Starts
<1>8. QED
  BY <1>1, <1>2, <1>3, <1>4, <1>5, <1>6, <1>7 DEF Command

LEMMA CommandLedger ==
  ASSUME TypeInv, Ledger, NEW c \in Clients, Command(c)
  PROVE  Ledger'
<1>1. CASE CannotOpen(c)
  <2>1. Becomes(c, Returned("error")) /\ UNCHANGED <<file, mishaps>>
    BY <1>1 DEF CannotOpen, Return
  <2>2. Stage(Returned("error"), file.list, Broke')
    BY ReturnedStage
  <2>3. QED
    BY <2>1, <2>2, LedgerOne
<1>2. ASSUME NEW plan, Starts(c, plan)
      PROVE  Ledger'
  <2>1. plan \in Seq(Condition) /\ AllFine(plan, Broke) /\ Enter(c, plan)
    BY <1>2, FineLists DEF Starts
  <2>2. QED
    BY <2>1, EnterLedger
<1>3. ASSUME NEW verb \in {"cleared", "resumed"}, NEW lifts, Lift(c, verb, lifts)
      PROVE  Ledger'
  <2> DEFINE me == [Returned(verb) EXCEPT !.at = "undo", !.plan = file.list, !.lifts = lifts]
  <2>1. AllFine(file.list, Broke)
    BY DEF Ledger
  <2>2. /\ me.at = "undo" /\ me.list = <<>> /\ me.plan = file.list /\ me.todo = <<>>
        /\ me.outcome = verb
    BY DEF Returned
  <2>3. Becomes(c, me) /\ UNCHANGED <<file, mishaps>>
    BY <1>3 DEF Lift
  <2> HIDE DEF me
  <2>4. AllFine(<<>>, Broke) /\ Distinct(<<>>)
    BY DEF AllFine, Distinct
  <2>5. Stage(me, file.list, Broke)
    BY <2>1, <2>2, <2>4 DEF Stage
  <2>6. Broke' = Broke
    BY <2>3 DEF Broke
  <2>7. QED
    BY <2>3, <2>5, <2>6, LedgerOne
<1>4. QED
  BY <1>1, <1>2, <1>3, CommandKinds DEF Lifts

(* What a step leaves a client with, field by field.                       *)
Tailed(me) == [me EXCEPT !.todo = Tail(@)]
Passed(me) == [me EXCEPT !.list = Append(@, Head(me.plan)), !.plan = Tail(@)]
Added(me) == [Passed(me) EXCEPT !.at = "save"]
Reversing(me, todo) == [me EXCEPT !.todo = todo, !.plan = Tail(@)]
Moded(me, broken) ==
  [me EXCEPT !.at = "apply", !.plan = <<[Head(me.plan) EXCEPT !.broken = broken]>> \o Tail(@)]
Saving(me) == [me EXCEPT !.at = "save", !.lifts = {}]
Writing(me) == [me EXCEPT !.at = "write"]

LEMMA StepFields ==
  ASSUME NEW me \in ClientState
  PROVE  /\ LET x == Tailed(me)
            IN /\ x.at = me.at /\ x.list = me.list /\ x.plan = me.plan /\ x.todo = Tail(me.todo)
               /\ x.stale = me.stale /\ x.outcome = me.outcome
         /\ LET x == Passed(me)
            IN /\ x.at = me.at /\ x.list = Append(me.list, Head(me.plan)) /\ x.plan = Tail(me.plan)
               /\ x.todo = me.todo /\ x.stale = me.stale /\ x.outcome = me.outcome
         /\ LET x == Added(me)
            IN /\ x.at = "save" /\ x.list = Append(me.list, Head(me.plan)) /\ x.plan = Tail(me.plan)
               /\ x.todo = me.todo /\ x.stale = me.stale /\ x.outcome = me.outcome
         /\ \A todo : LET x == Reversing(me, todo)
            IN /\ x.at = me.at /\ x.list = me.list /\ x.plan = Tail(me.plan) /\ x.todo = todo
               /\ x.stale = me.stale /\ x.outcome = me.outcome
         /\ LET x == Saving(me)
            IN /\ x.at = "save" /\ x.list = me.list /\ x.plan = me.plan /\ x.todo = me.todo
               /\ x.stale = me.stale /\ x.outcome = me.outcome
         /\ LET x == Writing(me)
            IN /\ x.at = "write" /\ x.list = me.list /\ x.plan = me.plan /\ x.todo = me.todo
               /\ x.stale = me.stale /\ x.outcome = me.outcome
BY DEF ClientState, Tailed, Passed, Added, Reversing, Saving, Writing

(* The one client a step of a command changes, and what of it.             *)
LEMMA StepShapes ==
  ASSUME TypeInv, NEW c \in Clients
  PROVE  LET me == cli[c]
         IN /\ Apply(c) \/ SuspendUnheeded(c) \/ Undo(c) \/ UndoFails(c) => Becomes(c, Tailed(me))
            /\ Keep(c) => Becomes(c, Passed(me))
            /\ Add(c) => Becomes(c, Added(me))
            /\ Reverse(c) => Becomes(c, Reversing(me, Reversal(Head(me.plan), me.outcome)))
            /\ ReadMode(c) => Becomes(c, Moded(me, force[Head(me.plan).effects[1]] > 0))
            /\ UndoDone(c) => Becomes(c, Saving(me))
            /\ SaveTruncates(c) => Becomes(c, Writing(me))
<1>1. cli[c] \in ClientState
  BY DEF TypeInv, TypeOK
<1>2. Add(c) => Becomes(c, Added(cli[c]))
  BY <1>1 DEF Add, Added, Passed, ClientState
<1>3. ReadMode(c) => Becomes(c, Moded(cli[c], force[Head(cli[c].plan).effects[1]] > 0))
  BY DEF ReadMode, Moded
<1>4. QED
  BY <1>2, <1>3 DEF Apply, SuspendUnheeded, Undo, UndoFails, Keep, Reverse, UndoDone, SaveTruncates,
                    Tailed, Passed, Reversing, Saving, Writing

(* A condition with its mode read is otherwise the condition it was.       *)
LEMMA ModedFacts ==
  ASSUME NEW me \in ClientState, me.plan # <<>>, NEW broken \in BOOLEAN
  PROVE  LET plan == Moded(me, broken).plan
         IN /\ plan \in Seq(Condition) /\ plan # <<>> /\ Head(plan).broken = broken
            /\ Head(plan).effects = Head(me.plan).effects /\ Head(plan).kind = Head(me.plan).kind
            /\ \A i \in DOMAIN plan : i # 1 => i \in DOMAIN me.plan /\ plan[i] = me.plan[i]
<1> DEFINE a == Head(me.plan)
           b == [a EXCEPT !.broken = broken]
           rest == Tail(me.plan)
           plan == <<b>> \o rest
<1>1. a \in Condition /\ rest \in Seq(Condition) /\ me.plan \in Seq(Condition)
  BY HeadTailProperties DEF ClientState
<1>2. b \in Condition /\ b.effects = a.effects /\ b.kind = a.kind /\ b.broken = broken
  BY <1>1 DEF Condition
<1> HIDE DEF b
<1>3. plan \in Seq(Condition) /\ plan # <<>> /\ Head(plan) = b /\ Len(plan) = Len(rest) + 1
  BY <1>1, <1>2, OneIsSeq, ConcatProperties, ConcatEqualIffEmpty
<1>4. Len(rest) = Len(me.plan) - 1 /\ Len(rest) \in Nat /\ DOMAIN rest = 1..Len(rest)
      /\ DOMAIN me.plan = 1..Len(me.plan) /\ \A i \in 1..Len(rest) : rest[i] = me.plan[i + 1]
  BY <1>1, HeadTailProperties, LenProperties, EmptySeq
<1>5. DOMAIN plan = 1..Len(plan)
  BY <1>3, LenProperties
<1>6. ASSUME NEW i \in DOMAIN plan, i # 1
      PROVE  i \in DOMAIN me.plan /\ plan[i] = me.plan[i]
  <2>1. i \in 1..Len(plan) /\ i - 1 \in 1..Len(rest) /\ i \in 1..Len(me.plan)
    BY <1>3, <1>4, <1>5, <1>6
  <2>2. plan[i] = rest[i - 1]
    BY <1>1, <1>2, <2>1, OneIsSeq, ConcatProperties
  <2>3. QED
    BY <1>4, <2>1, <2>2
<1> HIDE DEF a, rest
<1>7. Moded(me, broken).plan = plan
  BY DEF Moded, ClientState, a, rest, b
<1> HIDE DEF plan
<1>8. QED
  BY <1>2, <1>3, <1>6, <1>7 DEF a

LEMMA ReturnLedger ==
  ASSUME TypeInv, Ledger, NEW c \in Clients, NEW result, Return(c, result),
         UNCHANGED file, mishaps \subseteq mishaps'
  PROVE  Ledger'
<1>1. Becomes(c, Returned(result)) /\ file'.list = file.list
  BY DEF Return
<1>2. Stage(Returned(result), file.list, Broke')
  BY ReturnedStage
<1>3. QED
  BY <1>1, <1>2, LedgerOne

(* What Ledger and TypeInv say of one client.                              *)
LEMMA ClientFacts ==
  ASSUME TypeInv, Ledger, NEW c \in Clients
  PROVE  LET me == cli[c]
         IN /\ me \in ClientState /\ Stage(me, file.list, Broke)
            /\ me.list \in Seq(Condition) /\ me.plan \in Seq(Condition) /\ me.todo \in Seq(ExecStep)
            /\ me.at \in {"mode", "apply"} => me.plan # <<>>
            /\ me.plan # <<>> => /\ Head(me.plan) \in Condition /\ Fine(Head(me.plan), Broke)
                                 /\ AllFine(Tail(me.plan), Broke)
                                 /\ AllFine(Append(me.list, Head(me.plan)), Broke)
<1>1. cli[c] \in ClientState /\ Stage(cli[c], file.list, Broke)
  BY DEF TypeInv, TypeOK, Ledger
<1>2. cli[c].list \in Seq(Condition) /\ cli[c].plan \in Seq(Condition) /\ cli[c].todo \in Seq(ExecStep)
  BY <1>1 DEF ClientState
<1>3. cli[c].at \in {"mode", "apply"} => cli[c].plan # <<>>
  BY DEF TypeInv, Planned
<1>4. AllFine(cli[c].list, Broke) /\ AllFine(cli[c].plan, Broke)
  BY <1>1 DEF Stage
<1>5. ASSUME cli[c].plan # <<>>
      PROVE  /\ Head(cli[c].plan) \in Condition /\ Fine(Head(cli[c].plan), Broke)
             /\ AllFine(Tail(cli[c].plan), Broke)
  BY <1>2, <1>4, <1>5, FineLists, HeadTailProperties
<1>6. ASSUME cli[c].plan # <<>>
      PROVE  AllFine(Append(cli[c].list, Head(cli[c].plan)), Broke)
  BY <1>2, <1>4, <1>5, <1>6, FineLists
<1>7. QED
  BY <1>1, <1>2, <1>3, <1>5, <1>6

LEMMA StepLedger ==
  ASSUME TypeInv, Ledger, NEW c \in Clients, Step(c) \/ Trouble(c)
  PROVE  Ledger'
<1> DEFINE me == cli[c]
           a == Head(me.plan)
<1>1. /\ me \in ClientState /\ Stage(me, file.list, Broke)
      /\ me.list \in Seq(Condition) /\ me.plan \in Seq(Condition) /\ me.todo \in Seq(ExecStep)
      /\ me.at \in {"mode", "apply"} => me.plan # <<>>
      /\ me.plan # <<>> => /\ a \in Condition /\ Fine(a, Broke) /\ AllFine(Tail(me.plan), Broke)
                           /\ AllFine(Append(me.list, a), Broke)
  BY ClientFacts
<1>2. AllFine(me.list, Broke) /\ AllFine(me.plan, Broke)
  BY <1>1 DEF Stage
<1>3. ASSUME Apply(c) \/ SuspendUnheeded(c)
      PROVE  Ledger'
  <2>1. me.at = "apply" /\ me.todo # <<>> /\ UNCHANGED file /\ mishaps \subseteq mishaps'
    BY <1>3 DEF Apply, SuspendUnheeded, At
  <2>2. Remains(Tail(me.todo), a.effects)
    BY <1>1, <2>1, RemainsFacts DEF Stage
  <2> DEFINE x == Tailed(me)
  <2>3. /\ x.at = "apply" /\ x.list = me.list /\ x.plan = me.plan /\ x.todo = Tail(me.todo)
        /\ x.stale = me.stale /\ x.outcome = me.outcome
    BY <1>1, <2>1, StepFields
  <2> HIDE DEF x
  <2>4. Stage(x, file.list, Broke)
    BY <1>1, <2>1, <2>2, <2>3 DEF Stage
  <2>5. AllFine(x.list, Broke') /\ AllFine(x.plan, Broke')
    <3>1. Broke => Broke'
      BY <2>1 DEF Broke
    <3>2. QED
      BY <1>1, <1>2, <2>3, <3>1, FineLists
  <2>6. Stage(x, file.list, Broke')
    BY <2>3, <2>4, <2>5 DEF Stage
  <2>7. Becomes(c, x)
    BY <1>3, StepShapes DEF x
  <2>8. QED
    BY <2>1, <2>6, <2>7, LedgerOne
<1>4. ASSUME Undo(c) \/ UndoFails(c)
      PROVE  Ledger'
  <2>1. me.at = "undo" /\ me.todo # <<>> /\ UNCHANGED file /\ mishaps \subseteq mishaps'
    BY <1>4 DEF Undo, UndoFails, At
  <2>2. Broke => Broke'
    BY <2>1 DEF Broke
  <2>3. Stage(me, file.list, Broke')
    BY <1>1, <2>2, StageMore
  <2>4. Distinct(Tail(me.todo))
    BY <1>1, <2>1, ComingTail DEF Stage
  <2>5. \A i \in DOMAIN Tail(me.todo) : Tail(me.todo)[i].sets => Broke'
    <3>1. DOMAIN Tail(me.todo) = 1..(Len(me.todo) - 1) /\ DOMAIN me.todo = 1..Len(me.todo)
          /\ Len(me.todo) \in Nat /\ \A i \in 1..(Len(me.todo) - 1) : Tail(me.todo)[i] = me.todo[i + 1]
      BY <1>1, <2>1, HeadTailProperties, LenProperties, EmptySeq
    <3>2. \A i \in DOMAIN me.todo : me.todo[i].sets => Broke'
      BY <2>1, <2>3 DEF Stage
    <3>3. \A i \in DOMAIN Tail(me.todo) : i + 1 \in DOMAIN me.todo
      BY <3>1
    <3>4. QED
      BY <3>1, <3>2, <3>3
  <2> DEFINE x == Tailed(me)
  <2>6. /\ x.at = "undo" /\ x.list = me.list /\ x.plan = me.plan /\ x.todo = Tail(me.todo)
        /\ x.stale = me.stale /\ x.outcome = me.outcome
    BY <1>1, <2>1, StepFields
  <2> HIDE DEF x
  <2>7. Stage(x, file.list, Broke')
    BY <2>1, <2>3, <2>4, <2>5, <2>6 DEF Stage
  <2>8. Becomes(c, x)
    BY <1>4, StepShapes DEF x
  <2>9. QED
    BY <2>1, <2>7, <2>8, LedgerOne
<1>5. CASE ReadMode(c)
  <2>1. me.at = "mode" /\ UNCHANGED file /\ me.plan # <<>>
    BY <1>1, <1>5 DEF ReadMode, At
  <2> DEFINE broken == force[a.effects[1]] > 0
             x == Moded(me, broken)
  <2>2. mishaps' = IF broken THEN mishaps \cup {"overwritten"} ELSE mishaps
    BY <1>5 DEF ReadMode
  <2>3. broken \in BOOLEAN
    OBVIOUS
  <2>4. Becomes(c, x)
    BY <1>5, StepShapes
  <2> HIDE DEF broken
  <2>5. (Broke => Broke') /\ (broken => Broke') /\ mishaps \subseteq mishaps'
    BY <2>2 DEF Broke
  <2>6. /\ x.at = "apply" /\ x.list = me.list /\ x.todo = me.todo
        /\ x.stale = me.stale /\ x.outcome = me.outcome
    BY <1>1 DEF Moded, ClientState
  <2>7. /\ x.plan \in Seq(Condition) /\ x.plan # <<>> /\ Head(x.plan).broken = broken
        /\ Head(x.plan).effects = a.effects /\ Head(x.plan).kind = a.kind
        /\ \A i \in DOMAIN x.plan : i # 1 => i \in DOMAIN me.plan /\ x.plan[i] = me.plan[i]
    BY <1>1, <2>1, <2>3, ModedFacts
  <2> HIDE DEF x
  <2>8. Fine(Head(x.plan), Broke')
    <3> DEFINE b == Head(x.plan)
    <3>1. b.effects = a.effects /\ b.kind = a.kind /\ b.broken = broken /\ Fine(a, Broke)
      BY <1>1, <2>1, <2>7
    <3> HIDE DEF a, b
    <3>2. Fine(b, Broke')
      BY <2>5, <3>1 DEF Fine, Names
    <3>3. QED
      BY <3>2 DEF b
  <2>9. AllFine(x.list, Broke') /\ AllFine(me.plan, Broke')
    BY <1>1, <1>2, <2>5, <2>6, FineLists
  <2>10. AllFine(x.plan, Broke')
    BY <2>7, <2>8, <2>9 DEF AllFine
  <2>11. Stage(x, file.list, Broke')
    BY <1>1, <2>1, <2>6, <2>7, <2>9, <2>10 DEF Stage
  <2>12. QED
    BY <2>1, <2>4, <2>5, <2>11, LedgerOne
<1>6. CASE Add(c)
  <2>1. me.at = "apply" /\ me.todo = <<>> /\ UNCHANGED <<file, mishaps>> /\ me.plan # <<>>
    BY <1>1, <1>6 DEF Add, At
  <2> DEFINE x == Added(me)
  <2>2. /\ x.at = "save" /\ x.list = Append(me.list, a) /\ x.plan = Tail(me.plan)
        /\ x.todo = me.todo /\ x.stale = me.stale /\ x.outcome = me.outcome
    BY <1>1, StepFields
  <2>3. Becomes(c, x)
    BY <1>6, StepShapes
  <2> HIDE DEF x
  <2>4. Lastly(x.list) = a /\ x.list # <<>>
    <3>1. a \in Condition /\ me.list \in Seq(Condition)
      BY <1>1, <2>1
    <3>2. Lastly(Append(me.list, a)) = a /\ Append(me.list, a) # <<>>
      BY <3>1, LastlyAppended
    <3>3. QED
      BY <2>2, <3>2
  <2>5. Stage(x, file.list, Broke)
    BY <1>1, <2>1, <2>2, <2>4 DEF Stage
  <2>6. Broke' = Broke
    BY <2>1 DEF Broke
  <2>7. QED
    BY <2>1, <2>3, <2>5, <2>6, LedgerOne
<1>7. CASE Keep(c)
  <2>1. me.at = "undo" /\ me.todo = <<>> /\ UNCHANGED <<file, mishaps>> /\ me.plan # <<>>
    BY <1>7 DEF Keep, At
  <2> DEFINE x == Passed(me)
  <2>2. /\ x.at = "undo" /\ x.list = Append(me.list, a) /\ x.plan = Tail(me.plan)
        /\ x.todo = me.todo /\ x.stale = me.stale /\ x.outcome = me.outcome
    BY <1>1, <2>1, StepFields
  <2>3. Becomes(c, x)
    BY <1>7, StepShapes
  <2> HIDE DEF x
  <2>4. Stage(x, file.list, Broke)
    BY <1>1, <2>1, <2>2 DEF Stage
  <2>5. Broke' = Broke
    BY <2>1 DEF Broke
  <2>6. QED
    BY <2>1, <2>3, <2>4, <2>5, LedgerOne
<1>8. CASE Reverse(c)
  <2> DEFINE todo == Reversal(a, me.outcome)
             x == Reversing(me, todo)
  <2>1. me.at = "undo" /\ UNCHANGED file /\ mishaps \subseteq mishaps' /\ me.plan # <<>>
    BY <1>8 DEF Reverse, At
  <2>2. /\ x.at = "undo" /\ x.list = me.list /\ x.plan = Tail(me.plan) /\ x.todo = todo
        /\ x.stale = me.stale /\ x.outcome = me.outcome
    BY <1>1, <2>1, StepFields
  <2>3. Becomes(c, x)
    BY <1>8, StepShapes
  <2>4. Broke => Broke'
    BY <2>1 DEF Broke
  <2>5. Stage(me, file.list, Broke') /\ AllFine(Tail(me.plan), Broke') /\ Fine(a, Broke')
    <3>1. Stage(me, file.list, Broke')
      BY <1>1, <2>4, StageMore
    <3>2. AllFine(me.plan, Broke')
      BY <3>1 DEF Stage
    <3>3. QED
      BY <1>1, <2>1, <3>1, <3>2, FineLists
  <2>6. Distinct(todo) /\ \A i \in DOMAIN todo : todo[i].sets => Broke'
    BY <1>1, <2>1, <2>5, ReversalFacts
  <2> HIDE DEF x, todo
  <2>7. Stage(x, file.list, Broke')
    BY <2>1, <2>2, <2>5, <2>6 DEF Stage
  <2>8. QED
    BY <2>1, <2>3, <2>7, LedgerOne
<1>9. CASE UndoDone(c)
  <2> DEFINE x == Saving(me)
  <2>1. me.at = "undo" /\ me.todo = <<>> /\ me.plan = <<>> /\ UNCHANGED <<file, mishaps>>
    BY <1>9 DEF UndoDone, At
  <2>2. /\ x.at = "save" /\ x.list = me.list /\ x.plan = me.plan /\ x.todo = me.todo
        /\ x.stale = me.stale /\ x.outcome = me.outcome
    BY <1>1, StepFields
  <2>3. Becomes(c, x)
    BY <1>9, StepShapes
  <2> HIDE DEF x
  <2>4. Stage(x, file.list, Broke)
    BY <1>1, <2>1, <2>2 DEF Stage
  <2>5. Broke' = Broke
    BY <2>1 DEF Broke
  <2>6. QED
    BY <2>1, <2>3, <2>4, <2>5, LedgerOne
<1>10. CASE SaveTruncates(c)
  <2> DEFINE x == Writing(me)
  <2>1. me.at = "save" /\ file'.list = file.list /\ mishaps \subseteq mishaps'
    BY <1>10 DEF SaveTruncates, At, Raced, TypeInv, TypeOK
  <2>2. /\ x.at = "write" /\ x.list = me.list /\ x.plan = me.plan /\ x.todo = me.todo
        /\ x.stale = me.stale /\ x.outcome = me.outcome
    BY <1>1, StepFields
  <2>3. Becomes(c, x)
    BY <1>10, StepShapes
  <2>4. Broke => Broke'
    BY <2>1 DEF Broke
  <2>5. Stage(me, file.list, Broke')
    BY <1>1, <2>4, StageMore
  <2> HIDE DEF x
  <2>6. Stage(x, file.list, Broke')
    BY <2>1, <2>2, <2>5 DEF Stage
  <2>7. QED
    BY <2>1, <2>3, <2>6, LedgerOne
<1>11. CASE SaveWrites(c)
  <2>1. /\ me.at = "write" /\ mishaps \subseteq mishaps' /\ file'.list = me.list
        /\ cli' = [d \in Clients |-> IF d = c THEN Turned(me) ELSE [cli[d] EXCEPT !.stale = ~At(d, "idle")]]
    BY <1>11 DEF SaveWrites, At, Raced
  <2>2. Broke => Broke'
    BY <2>1 DEF Broke
  <2>3. AllFine(me.list, Broke') /\ AllFine(me.plan, Broke')
    BY <1>1, <1>2, <2>2, FineLists
  <2>4. me.plan # <<>> => me.outcome = "entered"
    BY <1>1, <2>1 DEF Stage
  <2>5. Stage(Turned(me), me.list, Broke')
    BY <1>1, <2>3, <2>4, TurnedStage
  <2>6. ASSUME NEW d \in Clients, d # c
        PROVE  Stage(cli'[d], me.list, Broke')
    <3> DEFINE y == cli'[d]
    <3>1. cli[d] \in ClientState /\ Stage(cli[d], file.list, Broke)
      BY ClientFacts
    <3>2. Stage(cli[d], file.list, Broke')
      BY <2>2, <3>1, StageMore
    <3>3. /\ y.at = cli[d].at /\ y.list = cli[d].list /\ y.plan = cli[d].plan /\ y.todo = cli[d].todo
          /\ y.stale = (cli[d].at # "idle") /\ y.outcome = cli[d].outcome
      BY <2>1, <2>6, <3>1 DEF At, ClientState
    <3> HIDE DEF y
    <3>4. Stage(y, me.list, Broke')
      BY <3>2, <3>3 DEF Stage
    <3>5. QED
      BY <3>4 DEF y
  <2>7. ASSUME NEW d \in Clients
        PROVE  Stage(cli'[d], me.list, Broke')
    BY <2>1, <2>5, <2>6
  <2>8. QED
    BY <2>1, <2>3, <2>7 DEF Ledger
<1>12. ASSUME ModeFails(c) \/ ApplyFails(c) \/ Killed(c) \/ ApplyRefused(c)
       PROVE  Ledger'
  <2>1. (\E result : Return(c, result)) /\ UNCHANGED file /\ mishaps \subseteq mishaps'
    BY <1>12 DEF ModeFails, ApplyFails, Killed, ApplyRefused
  <2>2. QED
    BY <2>1, ReturnLedger
<1>13. QED
  BY <1>3, <1>4, <1>5, <1>6, <1>7, <1>8, <1>9, <1>10, <1>11, <1>12 DEF Step, Trouble

LEMMA LedgerKept ==
  TypeInv /\ Ledger /\ [Next]_vars => Ledger'
<1> SUFFICES ASSUME TypeInv, Ledger, [Next]_vars PROVE Ledger'
  OBVIOUS
<1>1. ASSUME NEW c \in Clients, Command(c) \/ Step(c) \/ Trouble(c)
      PROVE  Ledger'
  BY <1>1, CommandLedger, StepLedger
<1>2. ASSUME NEW n \in Nodes, Restart(n)
      PROVE  Ledger'
  BY <1>2 DEF Restart, Ledger, Broke
<1>3. CASE UNCHANGED vars
  BY <1>3 DEF vars, Ledger, Broke
<1>4. QED
  BY <1>1, <1>2, <1>3 DEF Next

LEMMA LedgerInit == Init => Ledger
<1> SUFFICES ASSUME Init PROVE Ledger
  OBVIOUS
<1>1. \A c \in Clients : cli[c] = Returned("none")
  BY DEF Init
<1>2. Stage(Returned("none"), file.list, Broke)
  BY ReturnedStage
<1>3. file.list = <<>>
  BY DEF Init
<1>4. AllFine(file.list, Broke)
  BY <1>3 DEF AllFine
<1>5. QED
  BY <1>1, <1>2, <1>4 DEF Ledger

-----------------------------------------------------------------------------
(* No more is in force than the file names and the processes have added.   *)

(* What the condition c is entering, or has entered and not yet written    *)
(* down, has added.                                                        *)
Adds(me, e) ==
  /\ me.outcome = "entered"
  /\ \/ me.at = "apply" /\ Names(Head(me.plan), e) /\ e \notin Coming(me.todo)
     \/ me.at \in {"save", "write"} /\ Names(Lastly(me.list), e)
Adders(e) == {c \in Clients : Adds(cli[c], e)}

(* A clear or a resume that works from the file as it is, and what will be *)
(* on record when it ends.                                                 *)
Lifting(me) == me.at # "idle" /\ me.outcome # "entered" /\ ~me.stale
Leaves(me, e) == Naming(me.list, e) + Naming(me.plan, e) + One(e \in Coming(me.todo))

AtMost ==
  mishaps \subseteq {"halved"} =>
    /\ \A e \in Effects : IsFiniteSet(Adders(e)) /\ force[e] <= Naming(file.list, e) + Cardinality(Adders(e))
    /\ \A c \in Clients, e \in Effects :
         Lifting(cli[c]) => force[e] <= Leaves(cli[c], e) + Cardinality(Adders(e))
    /\ file.torn => \E c \in Clients : At(c, "write") /\ ~cli[c].stale

(* Of a stage that is no more, nothing is suspended.                       *)
GoneIsFree == \A e \in Effects : Gone(e) => force[e] = 0

LEMMA DoneFacts ==
  ASSUME TypeOK, NEW s \in ExecStep
  PROVE  /\ Done(s) \in [Effects -> Nat] /\ s.effect \in Effects
         /\ \A e \in Effects : e # s.effect \/ Gone(e) => Done(s)[e] = force[e]
         /\ s.sets => Done(s)[s.effect] <= force[s.effect] + 1
         /\ s.sets /\ ~Gone(s.effect) =>
              Done(s)[s.effect] = IF s.effect[1] \in Stacking THEN force[s.effect] + 1 ELSE 1
         /\ ~s.sets /\ ~Gone(s.effect) =>
              Done(s)[s.effect] = IF force[s.effect] > 0 THEN force[s.effect] - 1 ELSE 0
<1>1. force \in [Effects -> Nat] /\ s.effect \in Effects
  BY DEF TypeOK, ExecStep
<1>2. Done(s) \in [Effects -> Nat]
  BY DoneType
<1>3. CASE Gone(s.effect)
  BY <1>1, <1>2, <1>3 DEF Done
<1>4. CASE ~Gone(s.effect)
  <2>1. \A e \in Effects : e # s.effect => Done(s)[e] = force[e]
    BY <1>1, <1>4 DEF Done
  <2>2. s.sets => Done(s)[s.effect] = IF s.effect[1] \in Stacking THEN force[s.effect] + 1 ELSE 1
    BY <1>1, <1>4 DEF Done
  <2>3. ~s.sets => Done(s)[s.effect] = IF force[s.effect] > 0 THEN force[s.effect] - 1 ELSE 0
    BY <1>1, <1>4 DEF Done
  <2>4. force[s.effect] \in Nat
    BY <1>1
  <2>5. QED
    BY <1>1, <1>2, <1>4, <2>1, <2>2, <2>3, <2>4
<1>5. QED
  BY <1>3, <1>4

(* One client's part of the count.                                         *)
LEMMA CountOne ==
  ASSUME NEW c \in Clients, NEW e, IsFiniteSet(Adders(e)),
         \A d \in Clients \ {c} : Adds(cli'[d], e) <=> Adds(cli[d], e)
  PROVE  /\ IsFiniteSet(Adders(e)') /\ Cardinality(Adders(e)) \in Nat /\ Cardinality(Adders(e)') \in Nat
         /\ Cardinality(Adders(e)') + One(Adds(cli[c], e)) = Cardinality(Adders(e)) + One(Adds(cli'[c], e))
<1> DEFINE old == Adders(e)
           new == Adders(e)'
           rest == old \ {c}
<1>1. IsFiniteSet(rest)
  BY FS_Subset
<1>2. old = IF Adds(cli[c], e) THEN rest \cup {c} ELSE rest
  BY DEF Adders
<1>3. new = IF Adds(cli'[c], e) THEN rest \cup {c} ELSE rest
  BY DEF Adders
<1>4. c \notin rest
  OBVIOUS
<1> HIDE DEF old, new, rest
<1>5. /\ Cardinality(rest) \in Nat /\ IsFiniteSet(rest \cup {c})
      /\ Cardinality(rest \cup {c}) = Cardinality(rest) + 1
  BY <1>1, <1>4, FS_CardinalityType, FS_AddElement
<1>6. Cardinality(old) = Cardinality(rest) + One(Adds(cli[c], e))
  BY <1>2, <1>5 DEF One
<1>7. Cardinality(new) = Cardinality(rest) + One(Adds(cli'[c], e)) /\ IsFiniteSet(new)
  BY <1>1, <1>3, <1>5 DEF One
<1>8. One(Adds(cli[c], e)) \in Nat /\ One(Adds(cli'[c], e)) \in Nat
  BY DEF One
<1> DEFINE x == One(Adds(cli[c], e))
           y == One(Adds(cli'[c], e))
<1> HIDE DEF x, y
<1>9. Cardinality(new) + x = Cardinality(old) + y /\ Cardinality(old) \in Nat /\ Cardinality(new) \in Nat
  BY <1>5, <1>6, <1>7, <1>8 DEF x, y
<1>10. QED
  BY <1>7, <1>9 DEF old, new, x, y

(* A step of one client that does not write the file: what comes in force  *)
(* is added by the client.                                                 *)
LEMMA MostOne ==
  ASSUME TypeInv, AtMost, mishaps \subseteq {"halved"}, force' \in [Effects -> Nat],
         NEW c \in Clients, NEW me, Becomes(c, me), file'.list = file.list,
         \A e \in Effects : force'[e] + One(Adds(cli[c], e)) <= force[e] + One(Adds(me, e)),
         \A e \in Effects : Lifting(me) =>
           ~Adds(cli[c], e) /\ force'[e] <= Leaves(me, e) + Cardinality(Adders(e)),
         file'.torn => (file.torn /\ ~At(c, "write")) \/ (me.at = "write" /\ ~me.stale)
  PROVE  AtMost'
<1>1. cli \in [Clients -> ClientState] /\ force \in [Effects -> Nat] /\ file.list \in Seq(Condition)
  BY DEF TypeInv, TypeOK
<1>2. cli'[c] = me /\ \A d \in Clients \ {c} : cli'[d] = cli[d]
  BY <1>1 DEF Becomes
<1>3. ASSUME NEW e \in Effects
      PROVE  /\ IsFiniteSet(Adders(e)') /\ Cardinality(Adders(e)) \in Nat /\ Cardinality(Adders(e)') \in Nat
             /\ force'[e] - Cardinality(Adders(e)') <= force[e] - Cardinality(Adders(e))
             /\ ~Adds(cli[c], e) /\ ~Adds(me, e) => Cardinality(Adders(e)') = Cardinality(Adders(e))
  <2> DEFINE m == Cardinality(Adders(e))
             n == Cardinality(Adders(e)')
             x == One(Adds(cli[c], e))
             y == One(Adds(me, e))
  <2>1. IsFiniteSet(Adders(e))
    BY DEF AtMost
  <2>2. IsFiniteSet(Adders(e)') /\ m \in Nat /\ n \in Nat /\ n + x = m + y
    BY <1>2, <2>1, CountOne
  <2>3. force'[e] + x <= force[e] + y
    OBVIOUS
  <2>4. x \in Nat /\ y \in Nat /\ (~Adds(cli[c], e) /\ ~Adds(me, e) => x = 0 /\ y = 0)
    BY DEF One
  <2>5. force'[e] \in Nat /\ force[e] \in Nat
    BY <1>1
  <2> HIDE DEF m, n, x, y
  <2>6. force'[e] - n <= force[e] - m
    BY <2>2, <2>3, <2>4, <2>5
  <2>7. QED
    BY <2>2, <2>4, <2>6 DEF m, n
<1>4. ASSUME NEW e \in Effects
      PROVE  force'[e] <= Naming(file'.list, e) + Cardinality(Adders(e)')
  <2>1. force[e] <= Naming(file.list, e) + Cardinality(Adders(e))
    BY DEF AtMost
  <2>2. Naming(file.list, e) \in Nat /\ force[e] \in Nat /\ force'[e] \in Nat
    BY <1>1, NamingType
  <2>3. QED
    BY <1>3, <2>1, <2>2
<1>5. ASSUME NEW d \in Clients, NEW e \in Effects, Lifting(cli'[d])
      PROVE  force'[e] <= Leaves(cli'[d], e) + Cardinality(Adders(e)')
  <2>1. CASE d = c
    <3>1. Lifting(me)
      BY <1>2, <1>5, <2>1
    <3>2. ~Adds(cli[c], e) /\ ~Adds(me, e)
      BY <3>1 DEF Lifting, Adds
    <3>3. QED
      BY <1>2, <1>3, <2>1, <3>1, <3>2
  <2>2. CASE d # c
    <3>1. Lifting(cli[d]) /\ cli'[d] = cli[d]
      BY <1>2, <1>5, <2>2
    <3>2. force[e] <= Leaves(cli[d], e) + Cardinality(Adders(e))
      BY <3>1 DEF AtMost
    <3>3. Leaves(cli[d], e) \in Nat
      <4>1. Naming(cli[d].list, e) \in Nat /\ Naming(cli[d].plan, e) \in Nat
        BY <1>1, NamingType DEF ClientState
      <4>2. QED
        BY <4>1 DEF Leaves, One
    <3>4. force[e] \in Nat /\ force'[e] \in Nat
      BY <1>1
    <3>5. QED
      BY <1>3, <3>1, <3>2, <3>3, <3>4
  <2>3. QED
    BY <2>1, <2>2
<1>6. ASSUME file'.torn
      PROVE  \E d \in Clients : cli'[d].at = "write" /\ ~cli'[d].stale
  <2>1. CASE file.torn /\ ~At(c, "write")
    <3>1. PICK d \in Clients : At(d, "write") /\ ~cli[d].stale
      BY <2>1 DEF AtMost
    <3>2. cli'[d] = cli[d]
      BY <1>2, <2>1, <3>1 DEF At
    <3>3. QED
      BY <3>1, <3>2 DEF At
  <2>2. CASE me.at = "write" /\ ~me.stale
    BY <1>2, <2>2
  <2>3. QED
    BY <1>6, <2>1, <2>2
<1>7. QED
  BY <1>3, <1>4, <1>5, <1>6 DEF AtMost, At

(* A client that has not begun, or only starts, has added nothing.         *)
LEMMA NothingAdded ==
  ASSUME TypeInv, Ledger, NEW c \in Clients,
         At(c, "idle") \/ At(c, "mode") \/ (At(c, "apply") /\ ~Begun(c)) \/ cli[c].outcome # "entered"
  PROVE  \A e : ~Adds(cli[c], e)
<1> DEFINE me == cli[c]
           a == Head(me.plan)
<1>1. me \in ClientState /\ Stage(me, file.list, Broke) /\ me.todo \in Seq(ExecStep)
  BY ClientFacts
<1>2. CASE At(c, "apply") /\ ~Begun(c)
  <2>1. a \in Condition /\ Fine(a, Broke)
    BY <1>2, ClientFacts DEF At
  <2>2. Remains(me.todo, a.effects)
    BY <1>1, <1>2 DEF Stage, At
  <2>3. Len(me.todo) <= Len(a.effects) /\ ~(Len(me.todo) < Len(a.effects))
    BY <1>2, <2>2 DEF Begun, Remains
  <2>4. Len(me.todo) \in Nat /\ Len(a.effects) \in Nat
    BY <1>1, <2>1, LenProperties DEF Condition
  <2>5. Len(me.todo) = Len(a.effects)
    BY <2>3, <2>4
  <2>6. \A e : Names(a, e) => e \in Coming(me.todo)
    BY <1>1, <2>1, <2>2, <2>5, RemainsFacts
  <2>7. QED
    BY <1>2, <2>6 DEF Adds, At
<1>3. CASE At(c, "idle") \/ At(c, "mode") \/ me.outcome # "entered"
  BY <1>3 DEF Adds, At
<1>4. QED
  BY <1>2, <1>3

LEMMA TurnedAdds ==
  ASSUME NEW me \in ClientState, NEW broke, AllFine(me.plan, broke), me.plan # <<>> => me.outcome = "entered"
  PROVE  /\ \A e : ~Adds(Turned(me), e)
         /\ ~Lifting(Turned(me)) /\ Turned(me).at \notin {"undo", "save", "write"}
<1>1. CASE me.plan = <<>>
  BY <1>1 DEF Turned, Returned, Adds, Lifting
<1>2. CASE me.plan # <<>>
  <2> DEFINE a == Head(me.plan)
             todo == Entering(a.effects)
             you == [me EXCEPT !.at = Phase(a), !.todo = todo]
  <2>1. Turned(me) = you
    BY <1>2 DEF Turned
  <2>2. a \in Condition /\ Fine(a, broke)
    BY <1>2, HeadTailProperties, FineLists DEF ClientState
  <2>3. Remains(todo, a.effects) /\ Len(todo) = Len(a.effects) /\ todo \in Seq(ExecStep)
    BY <2>2, EnteringRemains, EnteringType DEF Condition
  <2>4. \A e : Names(a, e) => e \in Coming(todo)
    BY <2>2, <2>3, RemainsFacts
  <2>5. Phase(a) \in {"mode", "apply"}
    BY DEF Phase
  <2> HIDE DEF a, todo
  <2>6. you.at = Phase(a) /\ you.todo = todo /\ you.plan = me.plan /\ you.outcome = "entered"
    BY <1>2 DEF ClientState
  <2> HIDE DEF you
  <2>7. Head(you.plan) = a
    BY <2>6 DEF a
  <2>8. QED
    BY <2>1, <2>4, <2>5, <2>6, <2>7 DEF Adds, Lifting
<1>3. QED
  BY <1>1, <1>2

(* A step that puts nothing in force and adds nothing.                     *)
LEMMA QuietMost ==
  ASSUME TypeInv, Ledger, AtMost, mishaps \subseteq {"halved"}, NEW c \in Clients, NEW me, Becomes(c, me),
         UNCHANGED <<force, file>>, ~At(c, "write"), ~Lifting(me),
         \A e : ~Adds(cli[c], e) /\ ~Adds(me, e)
  PROVE  AtMost'
<1>1. force \in [Effects -> Nat]
  BY DEF TypeInv, TypeOK
<1>2. \A e \in Effects : force'[e] + One(Adds(cli[c], e)) <= force[e] + One(Adds(me, e))
  BY <1>1 DEF One
<1>3. \A e \in Effects : Lifting(me) =>
        ~Adds(cli[c], e) /\ force'[e] <= Leaves(me, e) + Cardinality(Adders(e))
  OBVIOUS
<1>4. file'.torn => (file.torn /\ ~At(c, "write")) \/ (me.at = "write" /\ ~me.stale)
  <2>1. file' = file
    OBVIOUS
  <2>2. file'.torn = file.torn
    BY <2>1
  <2>3. QED
    BY <2>2
<1>5. file'.list = file.list /\ force' \in [Effects -> Nat]
  BY <1>1
<1>6. QED
  BY <1>2, <1>3, <1>4, <1>5, MostOne

LEMMA EnterMost ==
  ASSUME TypeInv, Ledger, AtMost, mishaps \subseteq {"halved"}, NEW c \in Clients,
         NEW plan \in Seq(Condition), AllFine(plan, Broke), Enter(c, plan)
  PROVE  AtMost'
<1> DEFINE me == [Returned("entered") EXCEPT !.list = file.list, !.plan = plan]
<1>1. file.list \in Seq(Condition)
  BY DEF TypeInv, TypeOK
<1>2. Returned("entered") \in ClientState
  BY ReturnedSound DEF Sound
<1>3. me \in ClientState
  BY <1>1, <1>2 DEF ClientState
<1>4. me.plan = plan /\ me.outcome = "entered"
  BY DEF Returned
<1>5. Becomes(c, Turned(me)) /\ UNCHANGED <<force, file>> /\ At(c, "idle")
  BY DEF Enter
<1> HIDE DEF me
<1>6. (\A e : ~Adds(Turned(me), e)) /\ ~Lifting(Turned(me))
  BY <1>3, <1>4, TurnedAdds
<1>7. (\A e : ~Adds(cli[c], e)) /\ ~At(c, "write")
  BY <1>5, NothingAdded DEF At
<1>8. QED
  BY <1>5, <1>6, <1>7, QuietMost

LEMMA ReturnMost ==
  ASSUME TypeInv, Ledger, AtMost, mishaps \subseteq {"halved"}, NEW c \in Clients, NEW result, Return(c, result),
         UNCHANGED <<force, file>>, ~At(c, "write"), \A e : ~Adds(cli[c], e)
  PROVE  AtMost'
<1>1. Becomes(c, Returned(result)) /\ ~Lifting(Returned(result)) /\ \A e : ~Adds(Returned(result), e)
  BY DEF Return, Returned, Lifting, Adds
<1>2. QED
  BY <1>1, QuietMost

LEMMA CommandMost ==
  ASSUME TypeInv, Ledger, AtMost, mishaps \subseteq {"halved"}, NEW c \in Clients, Command(c)
  PROVE  AtMost'
<1>1. CASE CannotOpen(c)
  <2>1. Return(c, "error") /\ UNCHANGED <<force, file>> /\ At(c, "idle")
    BY <1>1 DEF CannotOpen
  <2>2. (\A e : ~Adds(cli[c], e)) /\ ~At(c, "write")
    BY <2>1, NothingAdded DEF At
  <2>3. QED
    BY <2>1, <2>2, ReturnMost
<1>2. ASSUME NEW plan, Starts(c, plan)
      PROVE  AtMost'
  <2>1. plan \in Seq(Condition) /\ AllFine(plan, Broke) /\ Enter(c, plan)
    BY <1>2, FineLists DEF Starts
  <2>2. QED
    BY <2>1, EnterMost
<1>3. ASSUME NEW verb \in {"cleared", "resumed"}, NEW lifts, Lift(c, verb, lifts)
      PROVE  AtMost'
  <2> DEFINE me == [Returned(verb) EXCEPT !.at = "undo", !.plan = file.list, !.lifts = lifts]
  <2>1. /\ me.at = "undo" /\ me.list = <<>> /\ me.plan = file.list /\ me.todo = <<>>
        /\ me.outcome = verb /\ me.stale = FALSE
    BY DEF Returned
  <2>2. Becomes(c, me) /\ UNCHANGED <<force, file>> /\ At(c, "idle")
    BY <1>3 DEF Lift
  <2> HIDE DEF me
  <2>3. \A e : ~Adds(cli[c], e) /\ ~Adds(me, e)
    BY <2>1, <2>2, NothingAdded DEF Adds
  <2>4. force \in [Effects -> Nat] /\ file.list \in Seq(Condition)
    BY DEF TypeInv, TypeOK
  <2>5. \A e \in Effects : force'[e] + One(Adds(cli[c], e)) <= force[e] + One(Adds(me, e))
    BY <2>2, <2>3, <2>4 DEF One
  <2>6. ASSUME NEW e \in Effects
        PROVE  force'[e] <= Leaves(me, e) + Cardinality(Adders(e))
    <3>1. Naming(<<>>, e) = 0 /\ Naming(file.list, e) \in Nat
      BY <2>4, NamingEmpty, NamingType
    <3>2. One(e \in Coming(me.todo)) = 0
      BY <2>1 DEF Coming, One
    <3>3. Leaves(me, e) = Naming(file.list, e)
      BY <2>1, <3>1, <3>2 DEF Leaves
    <3>4. force[e] <= Naming(file.list, e) + Cardinality(Adders(e))
      BY DEF AtMost
    <3>5. QED
      BY <2>2, <3>3, <3>4
  <2>7. \A e \in Effects : Lifting(me) =>
          ~Adds(cli[c], e) /\ force'[e] <= Leaves(me, e) + Cardinality(Adders(e))
    BY <2>3, <2>6
  <2>8. file'.list = file.list /\ force' \in [Effects -> Nat]
        /\ (file'.torn => (file.torn /\ ~At(c, "write")) \/ (me.at = "write" /\ ~me.stale))
    BY <2>2, <2>4 DEF At
  <2>9. QED
    BY <2>2, <2>5, <2>7, <2>8, MostOne
<1>4. QED
  BY <1>1, <1>2, <1>3, CommandKinds DEF Lifts

(* A step that changes of the file nothing but that it is being written.   *)
LEMMA StepMost ==
  ASSUME TypeInv, Ledger, AtMost, GoneIsFree, mishaps \subseteq {"halved"}, mishaps' \subseteq {"halved"},
         NEW c \in Clients, Step(c) \/ Trouble(c)
  PROVE  AtMost'
<1> DEFINE me == cli[c]
           a == Head(me.plan)
           s == Head(me.todo)
           h == s.effect
<1>1. /\ me \in ClientState /\ Stage(me, file.list, Broke)
      /\ me.list \in Seq(Condition) /\ me.plan \in Seq(Condition) /\ me.todo \in Seq(ExecStep)
      /\ me.at \in {"mode", "apply"} => me.plan # <<>>
      /\ me.plan # <<>> => a \in Condition /\ Fine(a, Broke)
  BY ClientFacts
<1>2. ~Broke /\ TypeOK /\ force \in [Effects -> Nat] /\ file \in [list : Seq(Condition), torn : BOOLEAN]
  BY DEF Broke, TypeInv, TypeOK
<1>3. me.todo # <<>> => s \in ExecStep /\ h \in Effects
  <2>1. me.todo # <<>> => s \in ExecStep
    BY <1>1, HeadTailProperties
  <2>2. QED
    BY <2>1 DEF ExecStep
<1>4. \A e \in Effects : /\ force[e] \in Nat /\ Naming(file.list, e) \in Nat
                         /\ Naming(me.list, e) \in Nat /\ Naming(me.plan, e) \in Nat
                         /\ force[e] <= Naming(file.list, e) + Cardinality(Adders(e))
                         /\ Lifting(me) => force[e] <= Leaves(me, e) + Cardinality(Adders(e))
  BY <1>1, <1>2, NamingType DEF AtMost
<1>5. ASSUME NEW e \in Effects
      PROVE  Cardinality(Adders(e)) \in Nat
  <2>1. IsFiniteSet(Adders(e))
    BY DEF AtMost
  <2>2. QED
    BY <2>1, FS_CardinalityType
<1>6. \A p : One(p) \in Nat /\ (p => One(p) = 1) /\ (~p => One(p) = 0)
  BY DEF One
<1>7. ASSUME Apply(c) \/ SuspendUnheeded(c)
      PROVE  AtMost'
  <2>1. me.at = "apply" /\ me.todo # <<>> /\ UNCHANGED file /\ force' \in {force, Done(s)}
    BY <1>7 DEF Apply, SuspendUnheeded, At
  <2>2. me.outcome = "entered" /\ Remains(me.todo, a.effects)
    BY <1>1, <2>1 DEF Stage
  <2>3. Distinct(me.todo) /\ Names(a, h) /\ s.sets = TRUE
        /\ h \in Coming(me.todo) /\ Coming(Tail(me.todo)) = Coming(me.todo) \ {h}
    <3>1. a \in Condition /\ Fine(a, Broke)
      BY <1>1, <2>1
    <3>2. Distinct(me.todo) /\ s.sets = TRUE /\ \A e \in Coming(me.todo) : Names(a, e)
      BY <1>1, <2>1, <2>2, <3>1, RemainsFacts
    <3>3. h \in Coming(me.todo) /\ Coming(Tail(me.todo)) = Coming(me.todo) \ {h}
      BY <1>1, <2>1, <3>2, ComingTail
    <3>4. QED
      BY <3>2, <3>3
  <2> DEFINE x == Tailed(me)
  <2>4. /\ x.at = "apply" /\ x.plan = me.plan /\ x.todo = Tail(me.todo) /\ x.outcome = "entered"
    BY <1>1, <2>1, <2>2, StepFields
  <2>5. Becomes(c, x)
    BY <1>7, StepShapes
  <2> HIDE DEF x
  <2>6. ~Adds(me, h) /\ Adds(x, h) /\ \A e : e # h => (Adds(x, e) <=> Adds(me, e))
    BY <2>1, <2>2, <2>3, <2>4 DEF Adds
  <2>7. force' \in [Effects -> Nat] /\ force'[h] <= force[h] + 1 /\ \A e \in Effects : e # h => force'[e] = force[e]
    <3>1. CASE force' = force
      BY <1>2, <1>3, <1>4, <2>1, <3>1
    <3>2. CASE force' = Done(s)
      <4>1. s \in ExecStep /\ s.sets /\ TypeOK
        BY <1>2, <1>3, <2>1, <2>3
      <4>2. /\ Done(s) \in [Effects -> Nat] /\ Done(s)[h] <= force[h] + 1
            /\ \A e \in Effects : e # h => Done(s)[e] = force[e]
        BY <4>1, DoneFacts
      <4>3. QED
        BY <3>2, <4>2
    <3>3. QED
      BY <2>1, <3>1, <3>2
  <2>8. \A e \in Effects : force'[e] + One(Adds(me, e)) <= force[e] + One(Adds(x, e))
    <3> TAKE e \in Effects
    <3>1. CASE e = h
      <4>1. One(Adds(me, e)) = 0 /\ One(Adds(x, e)) = 1
        BY <2>6, <3>1 DEF One
      <4>2. force'[e] \in Nat /\ force[e] \in Nat
        BY <1>4, <2>7
      <4>3. QED
        BY <2>7, <3>1, <4>1, <4>2
    <3>2. CASE e # h
      <4>1. One(Adds(me, e)) = One(Adds(x, e)) /\ One(Adds(me, e)) \in Nat
        BY <2>6, <3>2 DEF One
      <4>2. force'[e] = force[e] /\ force[e] \in Nat
        BY <1>4, <2>7, <3>2
      <4>3. QED
        BY <4>1, <4>2
    <3>3. QED
      BY <3>1, <3>2
  <2>9. ~Lifting(x)
    BY <2>4 DEF Lifting
  <2>10. \A e \in Effects : Lifting(x) => ~Adds(me, e) /\ force'[e] <= Leaves(x, e) + Cardinality(Adders(e))
    BY <2>9
  <2>11. file'.list = file.list /\ (file'.torn => (file.torn /\ ~At(c, "write")) \/ (x.at = "write" /\ ~x.stale))
    BY <2>1 DEF At
  <2>12. QED
    BY <2>5, <2>7, <2>8, <2>10, <2>11, MostOne
<1>8. CASE Undo(c)
  <2>1. me.at = "undo" /\ me.todo # <<>> /\ UNCHANGED file /\ force' = Done(s)
    BY <1>8 DEF Undo, At
  <2>2. me.outcome # "entered" /\ Distinct(me.todo) /\ ~s.sets
    <3>1. 1 \in DOMAIN me.todo /\ s = me.todo[1]
      BY <1>1, <2>1, LenProperties, HeadTailProperties, EmptySeq
    <3>2. QED
      BY <1>1, <1>2, <2>1, <3>1 DEF Stage
  <2>3. h \in Coming(me.todo) /\ Coming(Tail(me.todo)) = Coming(me.todo) \ {h}
    BY <1>1, <2>1, <2>2, ComingTail
  <2> DEFINE x == Tailed(me)
  <2>4. /\ x.at = "undo" /\ x.list = me.list /\ x.plan = me.plan /\ x.todo = Tail(me.todo)
        /\ x.outcome = me.outcome /\ x.stale = me.stale
    BY <1>1, <2>1, StepFields
  <2>5. Becomes(c, x)
    BY <1>8, StepShapes
  <2> HIDE DEF x
  <2>6. \A e : ~Adds(me, e) /\ ~Adds(x, e)
    BY <2>2, <2>4 DEF Adds
  <2>7. force' \in [Effects -> Nat] /\ (\A e \in Effects : e # h => force'[e] = force[e])
        /\ force'[h] = IF force[h] > 0 THEN force[h] - 1 ELSE 0
    <3>1. Gone(h) => force[h] = 0
      BY <1>3, <2>1 DEF GoneIsFree
    <3>2. CASE Gone(h)
      BY <1>2, <1>3, <2>1, <2>2, <3>1, <3>2, DoneFacts
    <3>3. CASE ~Gone(h)
      BY <1>2, <1>3, <2>1, <2>2, <3>3, DoneFacts
    <3>4. QED
      BY <3>2, <3>3
  <2>8. \A e \in Effects : force'[e] <= force[e] /\ force'[e] \in Nat
    BY <1>4, <2>7
  <2>9. \A e \in Effects : force'[e] + One(Adds(me, e)) <= force[e] + One(Adds(x, e))
    BY <1>4, <1>6, <2>6, <2>8
  <2>10. ASSUME NEW e \in Effects, Lifting(x)
         PROVE  force'[e] <= Leaves(x, e) + Cardinality(Adders(e))
    <3>1. Lifting(me)
      BY <2>1, <2>4, <2>10 DEF Lifting
    <3>2. force[e] <= Leaves(me, e) + Cardinality(Adders(e)) /\ Cardinality(Adders(e)) \in Nat
      BY <1>4, <1>5, <3>1
    <3>3. CASE e = h
      <4>1. One(e \in Coming(me.todo)) = 1 /\ One(e \in Coming(x.todo)) = 0
        BY <2>3, <2>4, <3>3 DEF One
      <4>2. Leaves(me, e) = Leaves(x, e) + 1 /\ Leaves(x, e) \in Nat
        BY <1>4, <2>4, <4>1 DEF Leaves
      <4>3. force[e] \in Nat
        BY <1>4
      <4>4. QED
        BY <2>7, <3>2, <3>3, <4>2, <4>3
    <3>4. CASE e # h
      <4>1. (e \in Coming(me.todo)) <=> (e \in Coming(x.todo))
        BY <2>3, <2>4, <3>4
      <4>2. One(e \in Coming(me.todo)) = One(e \in Coming(x.todo))
        BY <4>1 DEF One
      <4>3. Leaves(me, e) = Leaves(x, e)
        BY <2>4, <4>2 DEF Leaves
      <4>4. QED
        BY <2>7, <3>2, <3>4, <4>3
    <3>5. QED
      BY <3>3, <3>4
  <2>11. \A e \in Effects : Lifting(x) => ~Adds(me, e) /\ force'[e] <= Leaves(x, e) + Cardinality(Adders(e))
    BY <2>6, <2>10
  <2>12. file'.list = file.list /\ (file'.torn => (file.torn /\ ~At(c, "write")) \/ (x.at = "write" /\ ~x.stale))
    BY <2>1 DEF At
  <2>13. QED
    BY <2>5, <2>7, <2>9, <2>11, <2>12, MostOne
<1>9. ASSUME NEW x, Becomes(c, x), UNCHANGED force, file'.list = file.list,
             \A e \in Effects : (Adds(x, e) <=> Adds(me, e)) /\ (Lifting(x) => Leaves(x, e) = Leaves(me, e)),
             Lifting(x) => Lifting(me),
             file'.torn => (file.torn /\ ~At(c, "write")) \/ (x.at = "write" /\ ~x.stale)
      PROVE  AtMost'
  <2>1. \A e \in Effects : force'[e] + One(Adds(me, e)) <= force[e] + One(Adds(x, e))
    <3> TAKE e \in Effects
    <3>1. One(Adds(me, e)) = One(Adds(x, e)) /\ One(Adds(me, e)) \in Nat
      BY <1>9 DEF One
    <3>2. QED
      BY <1>4, <1>9, <3>1
  <2>2. \A e \in Effects : Lifting(x) => ~Adds(me, e) /\ force'[e] <= Leaves(x, e) + Cardinality(Adders(e))
    <3> TAKE e \in Effects
    <3>1. Lifting(x) => ~Adds(me, e)
      BY <1>9 DEF Lifting, Adds
    <3>2. Lifting(x) => force[e] <= Leaves(me, e) + Cardinality(Adders(e))
      BY <1>4, <1>9
    <3>3. QED
      BY <1>9, <3>1, <3>2
  <2>3. force' \in [Effects -> Nat]
    BY <1>2, <1>9
  <2>4. QED
    BY <1>9, <2>1, <2>2, <2>3, MostOne
<1>10. CASE ReadMode(c)
  <2> DEFINE x == Moded(me, force[a.effects[1]] > 0)
  <2>1. me.at = "mode" /\ UNCHANGED <<force, file>> /\ me.plan # <<>>
    BY <1>1, <1>10 DEF ReadMode, At
  <2>2. Becomes(c, x)
    BY <1>10, StepShapes
  <2>3. x.at = "apply" /\ x.todo = me.todo /\ x.outcome = me.outcome
    BY <1>1 DEF Moded, ClientState
  <2>4. Head(x.plan).effects = a.effects
    <3> DEFINE broken == force[a.effects[1]] > 0
    <3>1. broken \in BOOLEAN
      OBVIOUS
    <3> HIDE DEF broken
    <3>2. Head(Moded(me, broken).plan).effects = a.effects
      BY <1>1, <2>1, <3>1, ModedFacts
    <3>3. QED
      BY <3>2 DEF broken
  <2>5. me.outcome = "entered" /\ Remains(me.todo, a.effects) /\ Len(me.todo) = Len(a.effects)
    BY <1>1, <2>1 DEF Stage
  <2> HIDE DEF x
  <2>6. \A e : Names(a, e) => e \in Coming(me.todo)
    BY <1>1, <2>1, <2>5, RemainsFacts
  <2>7. \A e : ~Adds(me, e) /\ ~Adds(x, e)
    BY <2>1, <2>3, <2>4, <2>6 DEF Adds, Names
  <2>8. ~Lifting(x)
    BY <2>3, <2>5 DEF Lifting
  <2>9. QED
    BY <2>1, <2>2, <2>7, <2>8, QuietMost DEF At
<1>11. CASE Add(c)
  <2> DEFINE x == Added(me)
  <2>1. me.at = "apply" /\ me.todo = <<>> /\ UNCHANGED <<force, file>> /\ me.plan # <<>>
    BY <1>1, <1>11 DEF Add, At
  <2>2. x.at = "save" /\ x.list = Append(me.list, a) /\ x.outcome = me.outcome
    BY <1>1, StepFields
  <2>3. Becomes(c, x)
    BY <1>11, StepShapes
  <2> HIDE DEF x
  <2>4. Lastly(x.list) = a /\ Coming(me.todo) = {} /\ me.outcome = "entered"
    <3>1. a \in Condition /\ me.list \in Seq(Condition)
      BY <1>1, <2>1
    <3>2. Lastly(Append(me.list, a)) = a
      BY <3>1, LastlyAppended
    <3>3. QED
      BY <1>1, <2>1, <2>2, <3>2 DEF Coming, Stage
  <2>5. (\A e : Adds(x, e) <=> Adds(me, e)) /\ ~Lifting(x)
    BY <2>1, <2>2, <2>4 DEF Adds, Lifting
  <2>6. file'.list = file.list /\ (file'.torn => (file.torn /\ ~At(c, "write")) \/ (x.at = "write" /\ ~x.stale))
    BY <2>1 DEF At
  <2>7. QED
    BY <1>9, <2>1, <2>3, <2>5, <2>6
<1>12. CASE Keep(c)
  <2> DEFINE x == Passed(me)
  <2>1. me.at = "undo" /\ me.todo = <<>> /\ UNCHANGED <<force, file>> /\ me.plan # <<>>
    BY <1>12 DEF Keep, At
  <2>2. /\ x.at = "undo" /\ x.list = Append(me.list, a) /\ x.plan = Tail(me.plan)
        /\ x.todo = me.todo /\ x.stale = me.stale /\ x.outcome = me.outcome
    BY <1>1, <2>1, StepFields
  <2>3. Becomes(c, x)
    BY <1>12, StepShapes
  <2> HIDE DEF x
  <2>4. me.outcome # "entered"
    BY <1>1, <2>1 DEF Stage
  <2>5. (\A e : ~Adds(x, e) /\ ~Adds(me, e)) /\ (Lifting(x) => Lifting(me))
    BY <2>1, <2>2, <2>4 DEF Adds, Lifting
  <2>6. ASSUME NEW e \in Effects
        PROVE  Leaves(x, e) = Leaves(me, e)
    <3>1. Naming(x.list, e) = Naming(me.list, e) + One(Names(a, e))
          /\ Naming(me.plan, e) = One(Names(a, e)) + Naming(x.plan, e) /\ Naming(x.plan, e) \in Nat
      <4>1. a \in Condition /\ x.plan \in Seq(Condition)
        BY <1>1, <2>1, <2>2, HeadTailProperties
      <4>2. Naming(x.list, e) = Naming(me.list, e) + One(Names(a, e))
        BY <1>1, <2>2, <4>1, NamingAppend
      <4>3. Naming(me.plan, e) = One(Names(a, e)) + Naming(x.plan, e)
        BY <1>1, <2>1, <2>2, NamingHead
      <4>4. QED
        BY <4>1, <4>2, <4>3, NamingType
    <3>2. One(Names(a, e)) \in Nat /\ One(e \in Coming(me.todo)) \in Nat /\ Naming(me.list, e) \in Nat
      BY <1>4 DEF One
    <3>3. QED
      BY <2>2, <3>1, <3>2 DEF Leaves
  <2>7. file'.list = file.list /\ (file'.torn => (file.torn /\ ~At(c, "write")) \/ (x.at = "write" /\ ~x.stale))
    BY <2>1 DEF At
  <2>8. QED
    BY <1>9, <2>1, <2>3, <2>5, <2>6, <2>7
<1>13. CASE Reverse(c)
  <2> DEFINE todo == Reversal(a, me.outcome)
             x == Reversing(me, todo)
  <2>1. me.at = "undo" /\ me.todo = <<>> /\ UNCHANGED <<force, file>> /\ me.plan # <<>>
        /\ mishaps' = IF todo = <<>> THEN mishaps \cup {"dropped"} ELSE mishaps
    BY <1>13 DEF Reverse, At
  <2>2. /\ x.at = "undo" /\ x.list = me.list /\ x.plan = Tail(me.plan)
        /\ x.todo = todo /\ x.stale = me.stale /\ x.outcome = me.outcome
    BY <1>1, <2>1, StepFields
  <2>3. Becomes(c, x)
    BY <1>13, StepShapes
  <2>4. todo # <<>>
    BY <2>1
  <2>5. \A e : e \in Coming(todo) <=> Names(a, e)
    BY <1>1, <2>1, <2>4, ReversalFacts
  <2> HIDE DEF x, todo
  <2>6. me.outcome # "entered"
    BY <1>1, <2>1 DEF Stage
  <2>7. (\A e : ~Adds(x, e) /\ ~Adds(me, e)) /\ (Lifting(x) => Lifting(me))
    BY <2>1, <2>2, <2>6 DEF Adds, Lifting
  <2>8. ASSUME NEW e \in Effects
        PROVE  Leaves(x, e) = Leaves(me, e)
    <3>1. Naming(me.plan, e) = One(Names(a, e)) + Naming(x.plan, e) /\ Naming(x.plan, e) \in Nat
      <4>1. x.plan \in Seq(Condition)
        BY <1>1, <2>1, <2>2, HeadTailProperties
      <4>2. Naming(me.plan, e) = One(Names(a, e)) + Naming(x.plan, e)
        BY <1>1, <2>1, <2>2, NamingHead
      <4>3. QED
        BY <4>1, <4>2, NamingType
    <3>2. One(Names(a, e)) \in Nat /\ Naming(me.list, e) \in Nat
      BY <1>4 DEF One
    <3>3. One(e \in Coming(me.todo)) = 0
      BY <2>1 DEF One, Coming
    <3>4. One(e \in Coming(x.todo)) = One(Names(a, e))
      BY <2>2, <2>5 DEF One
    <3>5. QED
      BY <2>2, <3>1, <3>2, <3>3, <3>4 DEF Leaves
  <2>9. file'.list = file.list /\ (file'.torn => (file.torn /\ ~At(c, "write")) \/ (x.at = "write" /\ ~x.stale))
    BY <2>1 DEF At
  <2>10. QED
    BY <1>9, <2>1, <2>3, <2>7, <2>8, <2>9
<1>14. CASE UndoDone(c)
  <2> DEFINE x == Saving(me)
  <2>1. me.at = "undo" /\ UNCHANGED <<force, file>>
    BY <1>14 DEF UndoDone, At
  <2>2. /\ x.at = "save" /\ x.list = me.list /\ x.plan = me.plan /\ x.todo = me.todo
        /\ x.stale = me.stale /\ x.outcome = me.outcome
    BY <1>1, StepFields
  <2>3. Becomes(c, x)
    BY <1>14, StepShapes
  <2> HIDE DEF x
  <2>4. me.outcome # "entered"
    BY <1>1, <2>1 DEF Stage
  <2>5. (\A e : (~Adds(x, e) /\ ~Adds(me, e)) /\ Leaves(x, e) = Leaves(me, e)) /\ (Lifting(x) => Lifting(me))
    BY <2>1, <2>2, <2>4 DEF Adds, Lifting, Leaves
  <2>6. file'.list = file.list /\ (file'.torn => (file.torn /\ ~At(c, "write")) \/ (x.at = "write" /\ ~x.stale))
    BY <2>1 DEF At
  <2>7. QED
    BY <1>9, <2>1, <2>3, <2>5, <2>6
<1>15. CASE SaveTruncates(c)
  <2> DEFINE x == Writing(me)
  <2>1. me.at = "save" /\ UNCHANGED force /\ file'.list = file.list /\ ~me.stale
    BY <1>2, <1>15 DEF SaveTruncates, At, Raced
  <2>2. /\ x.at = "write" /\ x.list = me.list /\ x.plan = me.plan /\ x.todo = me.todo
        /\ x.stale = me.stale /\ x.outcome = me.outcome
    BY <1>1, StepFields
  <2>3. Becomes(c, x)
    BY <1>15, StepShapes
  <2> HIDE DEF x
  <2>4. (\A e : (Adds(x, e) <=> Adds(me, e)) /\ Leaves(x, e) = Leaves(me, e)) /\ (Lifting(x) => Lifting(me))
    BY <2>1, <2>2 DEF Adds, Lifting, Leaves
  <2>5. file'.torn => (file.torn /\ ~At(c, "write")) \/ (x.at = "write" /\ ~x.stale)
    BY <2>1, <2>2
  <2>6. QED
    BY <1>9, <2>1, <2>3, <2>4, <2>5
<1>16. CASE SaveWrites(c)
  <2>1. /\ me.at = "write" /\ ~me.stale /\ UNCHANGED force /\ file' = [list |-> me.list, torn |-> FALSE]
        /\ cli' = [d \in Clients |-> IF d = c THEN Turned(me) ELSE [cli[d] EXCEPT !.stale = ~At(d, "idle")]]
    BY <1>16 DEF SaveWrites, At, Raced
  <2>2. me.plan # <<>> => me.outcome = "entered"
    BY <1>1, <2>1 DEF Stage
  <2>3. AllFine(me.plan, Broke)
    BY <1>1 DEF Stage
  <2>4. (\A e : ~Adds(Turned(me), e)) /\ ~Lifting(Turned(me))
    BY <1>1, <2>2, <2>3, TurnedAdds
  <2>5. cli'[c] = Turned(me)
    BY <2>1
  <2>6. ASSUME NEW d \in Clients, d # c
        PROVE  (\A e : Adds(cli'[d], e) <=> Adds(cli[d], e)) /\ ~Lifting(cli'[d])
    <3> DEFINE y == cli'[d]
    <3>1. cli[d] \in ClientState
      BY ClientFacts
    <3>2. /\ y.at = cli[d].at /\ y.list = cli[d].list /\ y.plan = cli[d].plan /\ y.todo = cli[d].todo
          /\ y.stale = (cli[d].at # "idle") /\ y.outcome = cli[d].outcome
      BY <2>1, <2>6, <3>1 DEF At, ClientState
    <3> HIDE DEF y
    <3>3. (\A e : Adds(y, e) <=> Adds(cli[d], e)) /\ ~Lifting(y)
      BY <3>2 DEF Adds, Lifting
    <3>4. QED
      BY <3>3 DEF y
  <2>7. ASSUME NEW e \in Effects
        PROVE  IsFiniteSet(Adders(e)') /\ force'[e] <= Naming(me.list, e) + Cardinality(Adders(e)')
    <3>1. IsFiniteSet(Adders(e))
      BY DEF AtMost
    <3>2. /\ IsFiniteSet(Adders(e)') /\ Cardinality(Adders(e)) \in Nat /\ Cardinality(Adders(e)') \in Nat
          /\ Cardinality(Adders(e)') + One(Adds(me, e)) = Cardinality(Adders(e)) + One(Adds(cli'[c], e))
      BY <2>6, <3>1, CountOne
    <3>3. One(Adds(cli'[c], e)) = 0 /\ One(Adds(me, e)) \in Nat
      BY <2>4, <2>5 DEF One
    <3>4. CASE me.outcome = "entered"
      <4>1. me.list # <<>> /\ me.list = Append(file.list, Lastly(me.list))
        BY <1>1, <2>1, <3>4 DEF Stage
      <4>2. Lastly(me.list) \in Condition
        BY <1>1, <4>1, LenProperties, ElementOfSeq, EmptySeq DEF Lastly
      <4>3. Naming(me.list, e) = Naming(file.list, e) + One(Names(Lastly(me.list), e))
        <5>1. file.list \in Seq(Condition)
          BY <1>2
        <5>2. Naming(Append(file.list, Lastly(me.list)), e) = Naming(file.list, e) + One(Names(Lastly(me.list), e))
          BY <4>2, <5>1, NamingAppend
        <5>3. QED
          BY <4>1, <5>2
      <4>4. Adds(me, e) <=> Names(Lastly(me.list), e)
        BY <2>1, <3>4 DEF Adds
      <4>5. One(Adds(me, e)) = One(Names(Lastly(me.list), e))
        BY <4>4 DEF One
      <4>6. force'[e] = force[e] /\ force[e] <= Naming(file.list, e) + Cardinality(Adders(e))
            /\ force[e] \in Nat /\ Naming(file.list, e) \in Nat
        BY <1>4, <2>1
      <4>7. QED
        BY <3>2, <3>3, <4>3, <4>5, <4>6
    <3>5. CASE me.outcome # "entered"
      <4>1. Lifting(me) /\ me.plan = <<>> /\ me.todo = <<>>
        BY <1>1, <2>1, <3>5 DEF Lifting, Stage
      <4>2. One(Adds(me, e)) = 0 /\ One(e \in Coming(me.todo)) = 0 /\ Naming(me.plan, e) = 0
        BY <3>5, <4>1, NamingEmpty DEF Adds, One, Coming
      <4>3. Leaves(me, e) = Naming(me.list, e) /\ Naming(me.list, e) \in Nat
        BY <1>4, <4>2 DEF Leaves
      <4>4. force'[e] = force[e] /\ force[e] <= Leaves(me, e) + Cardinality(Adders(e)) /\ force[e] \in Nat
        BY <1>4, <2>1, <4>1
      <4>5. QED
        BY <3>2, <3>3, <4>2, <4>3, <4>4
    <3>6. QED
      BY <3>2, <3>4, <3>5
  <2>8. \A d \in Clients : ~Lifting(cli'[d])
    BY <2>4, <2>5, <2>6
  <2>9. file'.list = me.list /\ file'.torn = FALSE
    BY <2>1
  <2>10. QED
    BY <2>7, <2>8, <2>9 DEF AtMost
<1>17. CASE ModeFails(c)
  <2>1. Return(c, "error") /\ UNCHANGED <<force, file>> /\ At(c, "mode")
    BY <1>17 DEF ModeFails
  <2>2. (\A e : ~Adds(cli[c], e)) /\ ~At(c, "write")
    BY <2>1, NothingAdded DEF At
  <2>3. QED
    BY <2>1, <2>2, ReturnMost
<1>18. ASSUME ApplyFails(c) \/ ApplyRefused(c)
       PROVE  AtMost'
  <2>1. Return(c, "error") /\ UNCHANGED <<force, file>> /\ At(c, "apply") /\ ~Begun(c)
    BY <1>18 DEF ApplyFails, ApplyRefused
  <2>2. (\A e : ~Adds(cli[c], e)) /\ ~At(c, "write")
    BY <2>1, NothingAdded DEF At
  <2>3. QED
    BY <2>1, <2>2, ReturnMost
<1>19. CASE Killed(c)
  <2>1. Return(c, "none") /\ UNCHANGED <<force, file>> /\ ~At(c, "idle")
        /\ ~(At(c, "write") \/ (me.outcome = "entered" /\ (Begun(c) \/ At(c, "save"))))
    BY <1>19 DEF Killed
  <2>2. me.at \in {"idle", "mode", "apply", "undo", "save", "write"}
    BY <1>1 DEF ClientState
  <2>3. me.at = "undo" => me.outcome # "entered"
    BY <1>1 DEF Stage
  <2>4. At(c, "mode") \/ (At(c, "apply") /\ ~Begun(c)) \/ me.outcome # "entered"
    BY <2>1, <2>2, <2>3 DEF At
  <2>5. \A e : ~Adds(cli[c], e)
    BY <2>4, NothingAdded
  <2>6. QED
    BY <2>1, <2>5, ReturnMost
<1>20. CASE UndoFails(c)
  BY <1>20 DEF UndoFails
<1>21. QED
  BY <1>7, <1>8, <1>10, <1>11, <1>12, <1>13, <1>14, <1>15, <1>16, <1>17, <1>18, <1>19, <1>20
     DEF Step, Trouble

LEMMA RestartMost ==
  ASSUME TypeInv, AtMost, NEW n \in Nodes, Restart(n)
  PROVE  AtMost'
<1> SUFFICES ASSUME mishaps \subseteq {"halved"} PROVE AtMost'
  BY DEF Restart, AtMost
<1>1. UNCHANGED <<file, cli>> /\ force \in [Effects -> Nat] /\ cli \in [Clients -> ClientState]
      /\ file.list \in Seq(Condition)
  BY DEF Restart, TypeInv, TypeOK
<1>2. \A e \in Effects : force[e] \in Nat /\ force'[e] \in Nat /\ force'[e] <= force[e]
  BY <1>1 DEF Restart
<1>3. \A e : Adders(e)' = Adders(e)
  BY <1>1 DEF Adders
<1>4. ASSUME NEW e \in Effects
      PROVE  IsFiniteSet(Adders(e)) /\ force'[e] <= Naming(file.list, e) + Cardinality(Adders(e))
  <2>1. IsFiniteSet(Adders(e)) /\ force[e] <= Naming(file.list, e) + Cardinality(Adders(e))
    BY DEF AtMost
  <2>2. Naming(file.list, e) \in Nat /\ Cardinality(Adders(e)) \in Nat
    BY <1>1, <2>1, NamingType, FS_CardinalityType
  <2>3. QED
    BY <1>2, <2>1, <2>2
<1>5. ASSUME NEW c \in Clients, NEW e \in Effects, Lifting(cli[c])
      PROVE  force'[e] <= Leaves(cli[c], e) + Cardinality(Adders(e))
  <2>1. force[e] <= Leaves(cli[c], e) + Cardinality(Adders(e))
    BY <1>5 DEF AtMost
  <2>2. cli[c].list \in Seq(Condition) /\ cli[c].plan \in Seq(Condition)
    BY <1>1 DEF ClientState
  <2>3. Leaves(cli[c], e) \in Nat
    BY <2>2, NamingType DEF Leaves, One
  <2>4. Cardinality(Adders(e)) \in Nat
    BY <1>4, FS_CardinalityType
  <2>5. QED
    BY <1>2, <2>1, <2>3, <2>4
<1>6. file.torn => \E c \in Clients : At(c, "write") /\ ~cli[c].stale
  BY DEF AtMost
<1>7. QED
  BY <1>1, <1>3, <1>4, <1>5, <1>6 DEF AtMost, At

(* What any step of a process does besides: a mishap is not forgotten, and *)
(* what comes in force or ends is of one exec.                             *)
LEMMA OneExec ==
  ASSUME TypeInv, NEW c \in Clients, Command(c) \/ Step(c) \/ Trouble(c)
  PROVE  /\ mishaps \subseteq mishaps' /\ pid' = pid
         /\ force' = force \/ \E s \in ExecStep : force' = Done(s)
<1>1. cli[c] \in ClientState
  BY DEF TypeInv, TypeOK
<1>2. cli[c].todo # <<>> => Head(cli[c].todo) \in ExecStep
  BY <1>1, HeadTailProperties DEF ClientState
<1>3. ASSUME Command(c)
      PROVE  UNCHANGED <<force, pid, mishaps>>
  <2>1. CannotOpen(c) \/ (\E plan : Starts(c, plan)) \/ Lifts(c)
    BY <1>3, CommandKinds
  <2>2. QED
    BY <2>1 DEF CannotOpen, Starts, Enter, Lifts, Lift
<1>4. ASSUME Apply(c) \/ ApplyFails(c) \/ Undo(c)
      PROVE  /\ mishaps \subseteq mishaps' /\ pid' = pid
             /\ force' = force \/ \E s \in ExecStep : force' = Done(s)
  BY <1>2, <1>4 DEF Apply, ApplyFails, Undo
<1>5. ASSUME Step(c) \/ Trouble(c), ~Apply(c), ~ApplyFails(c), ~Undo(c)
      PROVE  mishaps \subseteq mishaps' /\ UNCHANGED <<force, pid>>
  <2>1. CASE ReadMode(c) \/ ApplyRefused(c) \/ Add(c) \/ Keep(c) \/ Reverse(c) \/ UndoDone(c)
    BY <2>1 DEF ReadMode, ApplyRefused, Add, Keep, Reverse, UndoDone
  <2>2. CASE SaveTruncates(c) \/ SaveWrites(c)
    BY <2>2 DEF SaveTruncates, SaveWrites, Raced
  <2>3. CASE ModeFails(c) \/ SuspendUnheeded(c) \/ UndoFails(c) \/ Killed(c)
    BY <2>3 DEF ModeFails, SuspendUnheeded, UndoFails, Killed
  <2>4. QED
    BY <1>5, <2>1, <2>2, <2>3 DEF Step, Trouble
<1>6. QED
  BY <1>3, <1>4, <1>5

LEMMA GoneKept ==
  TypeInv /\ GoneIsFree /\ [Next]_vars => GoneIsFree'
<1> SUFFICES ASSUME TypeInv, GoneIsFree, [Next]_vars PROVE GoneIsFree'
  OBVIOUS
<1>1. ASSUME NEW c \in Clients, Command(c) \/ Step(c) \/ Trouble(c)
      PROVE  GoneIsFree'
  <2>1. pid' = pid /\ (force' = force \/ \E s \in ExecStep : force' = Done(s))
    BY <1>1, OneExec
  <2>2. \A e \in Effects : Gone(e) => force'[e] = force[e]
    <3>1. TypeOK
      BY DEF TypeInv
    <3>2. QED
      BY <2>1, <3>1, DoneFacts
  <2>3. QED
    BY <2>1, <2>2 DEF GoneIsFree, Gone
<1>2. ASSUME NEW n \in Nodes, Restart(n)
      PROVE  GoneIsFree'
  <2>1. force \in [Effects -> Nat] /\ pid \in [Nodes -> Pids]
    BY DEF TypeInv, TypeOK
  <2>2. ASSUME NEW e \in Effects, Gone(e)'
        PROVE  force'[e] = 0
    <3>1. e[1] = "suspend" /\ pid'[e[2]] # e[3]
      BY <2>2 DEF Gone
    <3>2. CASE e[2] = n
      BY <1>2, <3>1, <3>2 DEF Restart
    <3>3. CASE e[2] # n
      <4>1. pid'[e[2]] = pid[e[2]]
        <5>1. e[2] \in Nodes
          BY <3>1 DEF Effects
        <5>2. QED
          BY <1>2, <2>1, <3>3, <5>1 DEF Restart
      <4>2. force[e] = 0
        BY <3>1, <4>1 DEF GoneIsFree, Gone
      <4>3. QED
        BY <1>2, <2>1, <3>3, <4>2 DEF Restart
    <3>4. QED
      BY <3>2, <3>3
  <2>3. QED
    BY <2>2 DEF GoneIsFree
<1>3. CASE UNCHANGED vars
  BY <1>3 DEF vars, GoneIsFree, Gone
<1>4. QED
  BY <1>1, <1>2, <1>3 DEF Next

LEMMA MostKept ==
  TypeInv /\ Ledger /\ AtMost /\ GoneIsFree /\ [Next]_vars => AtMost'
<1> SUFFICES ASSUME TypeInv, Ledger, AtMost, GoneIsFree, [Next]_vars PROVE AtMost'
  OBVIOUS
<1>1. ASSUME NEW c \in Clients, Command(c) \/ Step(c) \/ Trouble(c), mishaps' \subseteq {"halved"}
      PROVE  AtMost'
  <2>1. mishaps \subseteq {"halved"}
    BY <1>1, OneExec
  <2>2. QED
    BY <1>1, <2>1, CommandMost, StepMost
<1>2. ~(mishaps' \subseteq {"halved"}) => AtMost'
  BY DEF AtMost
<1>3. CASE UNCHANGED vars
  <2>1. UNCHANGED <<force, file, cli, mishaps>>
    BY <1>3 DEF vars
  <2>2. \A e : Adders(e)' = Adders(e)
    BY <2>1 DEF Adders
  <2>3. QED
    BY <2>1, <2>2 DEF AtMost, At
<1>4. QED
  BY <1>1, <1>2, <1>3, RestartMost DEF Next

LEMMA MostInit == Init => AtMost /\ GoneIsFree
<1> SUFFICES ASSUME Init PROVE AtMost /\ GoneIsFree
  OBVIOUS
<1>1. \A c \in Clients : cli[c] = Returned("none")
  BY DEF Init
<1>2. \A e : Adders(e) = {}
  BY <1>1 DEF Adders, Adds, Returned
<1>3. \A c \in Clients : ~Lifting(cli[c])
  BY <1>1 DEF Lifting, Returned
<1>4. \A e \in Effects : force[e] = 0 /\ Naming(file.list, e) = 0
  BY NamingEmpty DEF Init
<1>5. \A e : IsFiniteSet(Adders(e)) /\ Cardinality(Adders(e)) = 0
  BY <1>2, FS_EmptySet
<1>6. ~file.torn
  BY DEF Init
<1>7. QED
  BY <1>3, <1>4, <1>5, <1>6 DEF AtMost, GoneIsFree

LEMMA LedgerInvariant == Spec => [](TypeInv /\ Ledger /\ GoneIsFree /\ AtMost)
BY TypeInvariant, LedgerInit, LedgerKept, GoneKept, MostInit, MostKept, PTL DEF Spec

(* What is in force has an owner.                                          *)
LEMMA OwnedFollows ==
  ASSUME TypeInv, Ledger, AtMost
  PROVE  Owned
<1> SUFFICES ASSUME mishaps \subseteq {"halved"}, NEW e \in Effects, force[e] > 0
             PROVE  \/ ~file.torn /\ Lists(file.list, e) # {}
                    \/ \E c \in Clients : Lists(cli[c].list, e) # {} \/ Lists(cli[c].plan, e) # {}
  BY DEF Owned
<1>1. force[e] \in Nat /\ file.list \in Seq(Condition)
  BY DEF TypeInv, TypeOK
<1>2. ASSUME NEW c \in Clients, Adds(cli[c], e)
      PROVE  Lists(cli[c].list, e) # {} \/ Lists(cli[c].plan, e) # {}
  <2> DEFINE me == cli[c]
  <2>1. /\ Stage(me, file.list, Broke) /\ me.list \in Seq(Condition) /\ me.plan \in Seq(Condition)
        /\ me.at \in {"mode", "apply"} => me.plan # <<>>
    BY ClientFacts
  <2> HIDE DEF me
  <2>2. CASE me.at = "apply" /\ Names(Head(me.plan), e)
    <3>1. 1 \in DOMAIN me.plan /\ Head(me.plan) = me.plan[1]
      BY <2>1, <2>2, HeadTailProperties, LenProperties, EmptySeq
    <3>2. 1 \in Lists(me.plan, e)
      BY <2>2, <3>1 DEF Lists
    <3>3. QED
      BY <3>2 DEF me
  <2>3. CASE me.outcome = "entered" /\ me.at \in {"save", "write"} /\ Names(Lastly(me.list), e)
    <3>1. me.list # <<>>
      BY <2>1, <2>3 DEF Stage
    <3>2. Len(me.list) \in DOMAIN me.list
      BY <2>1, <3>1, LenProperties, EmptySeq
    <3>3. Len(me.list) \in Lists(me.list, e)
      BY <2>3, <3>2 DEF Lists, Lastly
    <3>4. QED
      BY <3>3 DEF me
  <2>4. QED
    BY <1>2, <2>2, <2>3 DEF Adds, me
<1>3. CASE \A c \in Clients : ~Adds(cli[c], e)
  <2>1. Adders(e) = {}
    BY <1>3 DEF Adders
  <2>2. Cardinality(Adders(e)) = 0
    BY <2>1, FS_EmptySet
  <2>3. force[e] <= Naming(file.list, e) + Cardinality(Adders(e))
    BY DEF AtMost
  <2>4. Naming(file.list, e) \in Nat
    BY <1>1, NamingType
  <2>5. Naming(file.list, e) > 0
    BY <1>1, <2>2, <2>3, <2>4
  <2>6. CASE ~file.torn
    BY <1>1, <2>5, <2>6, NamingType
  <2>7. CASE file.torn
    <3>1. PICK c \in Clients : At(c, "write") /\ ~cli[c].stale
      BY <2>7 DEF AtMost
    <3> DEFINE me == cli[c]
    <3>2. Stage(me, file.list, Broke) /\ me.list \in Seq(Condition)
      BY ClientFacts
    <3>3. me.at = "write" /\ ~me.stale /\ (Lifting(me) => force[e] <= Leaves(me, e) + Cardinality(Adders(e)))
      BY <3>1 DEF At, AtMost
    <3> HIDE DEF me
    <3>4. Naming(me.list, e) \in Nat
      BY <3>2, NamingType
    <3>5. CASE me.outcome = "entered"
      <4>1. me.list # <<>> /\ me.list = Append(file.list, Lastly(me.list))
        BY <3>2, <3>3, <3>5 DEF Stage
      <4>2. Lastly(me.list) \in Condition
        BY <3>2, <4>1, LenProperties, ElementOfSeq, EmptySeq DEF Lastly
      <4>3. Naming(Append(file.list, Lastly(me.list)), e)
              = Naming(file.list, e) + One(Names(Lastly(me.list), e))
        BY <1>1, <4>2, NamingAppend
      <4>4. One(Names(Lastly(me.list), e)) \in Nat
        BY DEF One
      <4>5. Naming(me.list, e) = Naming(file.list, e) + One(Names(Lastly(me.list), e))
        BY <4>1, <4>3
      <4>6. Naming(me.list, e) > 0
        BY <2>4, <2>5, <4>4, <4>5
      <4>7. QED
        BY <3>2, <4>6, NamingType DEF me
    <3>6. CASE me.outcome # "entered"
      <4>1. Lifting(me) /\ me.plan = <<>> /\ me.todo = <<>>
        BY <3>2, <3>3, <3>6 DEF Lifting, Stage
      <4>2. One(e \in Coming(me.todo)) = 0 /\ Naming(me.plan, e) = 0
        BY <4>1, NamingEmpty DEF One, Coming
      <4>3. Naming(me.list, e) > 0
        BY <1>1, <2>2, <3>3, <3>4, <4>1, <4>2 DEF Leaves
      <4>4. QED
        BY <3>2, <4>3, NamingType DEF me
    <3>7. QED
      BY <3>5, <3>6
  <2>8. QED
    BY <2>6, <2>7
<1>4. QED
  BY <1>2, <1>3

(* Whatever a clear that was killed half way or a kill -STOP that nobody   *)
(* heeded leave behind, nothing is in force in a node that neither         *)
(* faults.json nor a process that still runs accounts for: what a process  *)
(* has put in force and not yet recorded it is still to record, and a file *)
(* that is being written is written by a process that has all of it.       *)
THEOREM EffectsAreOwned == Spec => []Owned
BY LedgerInvariant, OwnedFollows, PTL

=============================================================================
