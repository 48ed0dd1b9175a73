---------------------------- MODULE BalanceProofs ---------------------------
(* What is on record stays in force: the other side of the account that    *)
(* FaultsProofs keeps.                                                     *)
(*                                                                         *)
(* Two processes that change something at the same time can each put back  *)
(* what the other has entered, and no bound on what is in force holds then *)
(* at every step.  What holds is that such a pair does not end well: the   *)
(* first of them that writes faults.json leaves the other with a list that *)
(* is no longer the file's, and what the other writes is a mishap.  So the *)
(* invariant has four cases: a process that has changed something works    *)
(* from an old list; two have changed something; one has, and what it will *)
(* write is in force; none has, and the file is in force.                  *)
EXTENDS FaultsProofs

-----------------------------------------------------------------------------
(* The invariant.                                                          *)

(* It has changed something inside a node, or is about to put back.        *)
Working(me) == \/ me.at \in {"undo", "save", "write"}
               \/ me.at = "apply" /\ Len(me.todo) < Len(Head(me.plan).effects)

(* What of e a client that works counts on, and what it will have made of  *)
(* the two sides of a cut when its execs are done.                         *)
Owes(me, e) ==
  Naming(me.list, e) +
    IF me.at = "undo" THEN Naming(me.plan, e) + One(e \in Coming(me.todo))
    ELSE One(me.at = "apply" /\ Adds(me, e))
Even(f, me, e) ==
  IF me.at = "undo"
  THEN f[e] + One(Mirror(e) \in Coming(me.todo)) = f[Mirror(e)] + One(e \in Coming(me.todo))
  ELSE f[e] + One(e \in Coming(me.todo)) = f[Mirror(e)] + One(Mirror(e) \in Coming(me.todo))

FairFile(f, list) ==
  \A e \in Effects : /\ e[1] \notin Dying => f[e] >= Naming(list, e)
                     /\ e[1] \in Cutting => f[e] = f[Mirror(e)]
FairTo(f, me) ==
  \A e \in Effects : /\ e[1] \notin Dying => f[e] >= Owes(me, e)
                     /\ e[1] \in Cutting => Even(f, me, e)

(* Before an exec that neither is refused nor adds to what is there, there *)
(* is nothing: the mode has been read, the pid is new.                     *)
Tries(f, me) ==
  me.at = "apply" /\ ~Working(me) /\ ~me.stale /\ Head(me.plan).kind \in Tried
  => f[Head(me.plan).effects[1]] = 0

Doomed == \E c \in Clients : Working(cli[c]) /\ cli[c].stale
Crowd == \E c, d \in Clients : c # d /\ Working(cli[c]) /\ Working(cli[d])

AtLeast ==
  mishaps = {} =>
    /\ \/ Doomed \/ Crowd
       \/ \E c \in Clients : Working(cli[c]) /\ FairTo(force, cli[c])
       \/ (\A c \in Clients : ~Working(cli[c])) /\ FairFile(force, file.list)
    /\ \A c \in Clients : Tries(force, cli[c]) \/ \E d \in Clients \ {c} : Working(cli[d])

(* A contention is entered by itself.                                      *)
Alone(me) ==
  me.outcome = "entered" => \A i \in DOMAIN me.plan :
    i # 1 \/ me.at \in {"save", "write"} => me.plan[i].kind # "contention"
Apart == \A c \in Clients : Alone(cli[c])

-----------------------------------------------------------------------------
(* The two sides of a cut.                                                 *)

LEMMA MirrorFacts ==
  ASSUME NEW e \in Effects, e[1] \in Cutting
  PROVE  /\ Mirror(e) \in Effects /\ Mirror(e)[1] = e[1] /\ Mirror(Mirror(e)) = e
         /\ e[1] \notin Dying /\ Mirror(e)[1] \in Cutting /\ Mirror(e)[1] \notin Dying
<1>1. e \in {"blackhole", "drop"} \X Nodes \X Nodes
  BY DEF Effects, Cutting
<1>2. Mirror(e) \in {"blackhole", "drop"} \X Nodes \X Nodes /\ Mirror(e)[1] = e[1] /\ Mirror(Mirror(e)) = e
  BY <1>1 DEF Mirror
<1>3. QED
  BY <1>1, <1>2 DEF Effects, Cutting, Dying

LEMMA NamesBoth ==
  ASSUME NEW a \in Condition, NEW broke, Fine(a, broke), NEW e \in Effects, e[1] \in Cutting
  PROVE  Names(a, e) <=> Names(a, Mirror(e))
<1>1. Mirror(e) \in Effects /\ Mirror(e)[1] = e[1] /\ Mirror(Mirror(e)) = e
  BY MirrorFacts
<1>2. Names(a, e) \/ Names(a, Mirror(e)) => a.kind = e[1]
  BY <1>1 DEF Fine, Names
<1>3. QED
  BY <1>1, <1>2 DEF Fine

-----------------------------------------------------------------------------
(* A step of one client that does not write the file: it goes on with what *)
(* it has begun, and only a client that works changes anything.            *)
LEMMA LeastOne ==
  ASSUME TypeInv, AtLeast, mishaps = {}, NEW c \in Clients, NEW me, Becomes(c, me), file'.list = file.list,
         Working(cli[c]) => Working(me) /\ me.stale = cli[c].stale,
         ~Working(me) => force' = force /\ Tries(force, me),
         Working(cli[c]) /\ FairTo(force, cli[c]) => FairTo(force', me),
         ~Working(cli[c]) /\ Working(me) /\ ~me.stale /\ FairFile(force, file.list) /\ Tries(force, cli[c])
           => FairTo(force', me)
  PROVE  AtLeast'
<1>1. cli \in [Clients -> ClientState]
  BY DEF TypeInv, TypeOK
<1>2. cli'[c] = me /\ \A d \in Clients \ {c} : cli'[d] = cli[d]
  BY <1>1 DEF Becomes
<1>3. \A d \in Clients : Working(cli[d]) => Working(cli'[d]) /\ cli'[d].stale = cli[d].stale
  BY <1>2
<1>4. ASSUME Doomed
      PROVE  Doomed'
  <2>1. PICK d \in Clients : Working(cli[d]) /\ cli[d].stale
    BY <1>4 DEF Doomed
  <2>2. Working(cli'[d]) /\ cli'[d].stale
    BY <1>3, <2>1
  <2>3. QED
    BY <2>2 DEF Doomed
<1>5. ASSUME Crowd
      PROVE  Crowd'
  BY <1>3, <1>5 DEF Crowd
<1>6. ASSUME NEW d \in Clients, Working(cli[d]), FairTo(force, cli[d])
      PROVE  Crowd' \/ \E b \in Clients : Working(cli'[b]) /\ FairTo(force', cli'[b])
  <2>1. CASE d = c
    BY <1>2, <1>6, <2>1
  <2>2. CASE d # c /\ Working(me)
    BY <1>2, <1>6, <2>2 DEF Crowd
  <2>3. CASE d # c /\ ~Working(me)
    BY <1>2, <1>6, <2>3
  <2>4. QED
    BY <2>1, <2>2, <2>3
<1>7. ASSUME \A d \in Clients : ~Working(cli[d]), FairFile(force, file.list)
      PROVE  \/ Doomed'
             \/ \E b \in Clients : Working(cli'[b]) /\ FairTo(force', cli'[b])
             \/ (\A b \in Clients : ~Working(cli'[b])) /\ FairFile(force', file'.list)
  <2>1. Tries(force, cli[c])
    BY <1>7 DEF AtLeast
  <2>2. CASE ~Working(me)
    BY <1>2, <1>7, <2>2
  <2>3. CASE Working(me) /\ me.stale
    BY <1>2, <2>3 DEF Doomed
  <2>4. CASE Working(me) /\ ~me.stale
    BY <1>2, <1>7, <2>1, <2>4
  <2>5. QED
    BY <2>2, <2>3, <2>4
<1>8. \/ Doomed' \/ Crowd'
      \/ \E b \in Clients : Working(cli'[b]) /\ FairTo(force', cli'[b])
      \/ (\A b \in Clients : ~Working(cli'[b])) /\ FairFile(force', file'.list)
  BY <1>4, <1>5, <1>6, <1>7 DEF AtLeast
<1>9. ASSUME NEW d \in Clients
      PROVE  Tries(force', cli'[d]) \/ \E b \in Clients \ {d} : Working(cli'[b])
  <2>1. CASE d = c
    <3>1. CASE Working(me)
      BY <1>2, <2>1, <3>1 DEF Tries
    <3>2. CASE ~Working(me)
      BY <1>2, <2>1, <3>2
    <3>3. QED
      BY <3>1, <3>2
  <2>2. CASE d # c /\ Working(me)
    BY <1>2, <2>2
  <2>3. CASE d # c /\ ~Working(me)
    <3>1. Tries(force, cli[d]) \/ \E b \in Clients \ {d} : Working(cli[b])
      BY DEF AtLeast
    <3>2. force' = force /\ cli'[d] = cli[d]
      BY <1>2, <2>3
    <3>3. QED
      BY <1>3, <3>1, <3>2
  <2>4. QED
    BY <2>1, <2>2, <2>3
<1>10. QED
  BY <1>8, <1>9 DEF AtLeast

-----------------------------------------------------------------------------
(* The steps that change what is in force.                                 *)

LEMMA OneType == \A p : One(p) \in Nat /\ (p => One(p) = 1) /\ (~p => One(p) = 0)
BY DEF One

(* What a client starts from: the file is in force, and on both sides.     *)
LEMMA BeginsFair ==
  ASSUME TypeInv, Ledger, NEW c \in Clients, At(c, "apply"), ~Working(cli[c]), ~cli[c].stale,
         FairFile(force, file.list)
  PROVE  FairTo(force, cli[c])
<1> DEFINE me == cli[c]
           a == Head(me.plan)
<1>1. me.at = "apply" /\ a \in Condition /\ Fine(a, Broke) /\ me.todo \in Seq(ExecStep)
  BY ClientFacts DEF At
<1>2. me.list = file.list /\ Remains(me.todo, a.effects)
  BY <1>1, ClientFacts DEF Stage
<1>3. Len(me.todo) = Len(a.effects)
  <2>1. Len(me.todo) \in Nat /\ Len(a.effects) \in Nat
    BY <1>1, LenProperties DEF Condition
  <2>2. ~(Len(me.todo) < Len(a.effects)) /\ Len(me.todo) <= Len(a.effects)
    BY <1>1, <1>2 DEF Working, Remains
  <2>3. QED
    BY <2>1, <2>2
<1>4. \A e : e \in Coming(me.todo) <=> Names(a, e)
  BY <1>1, <1>2, <1>3, RemainsFacts
<1>5. force \in [Effects -> Nat] /\ file.list \in Seq(Condition)
  BY DEF TypeInv, TypeOK
<1> HIDE DEF me, a
<1>6. ASSUME NEW e \in Effects, e[1] \notin Dying
      PROVE  force[e] >= Owes(me, e)
  <2>1. ~Adds(me, e)
    BY <1>1, <1>4 DEF Adds, a
  <2>2. Owes(me, e) = Naming(file.list, e) + 0
    BY <1>1, <1>2, <2>1 DEF Owes, One
  <2>3. Naming(file.list, e) \in Nat
    BY <1>5, NamingType
  <2>4. force[e] >= Naming(file.list, e)
    BY <1>6 DEF FairFile
  <2>5. QED
    BY <2>2, <2>3, <2>4
<1>7. ASSUME NEW e \in Effects, e[1] \in Cutting
      PROVE  Even(force, me, e)
  <2>1. force[e] = force[Mirror(e)]
    BY <1>7 DEF FairFile
  <2>2. (e \in Coming(me.todo)) <=> (Mirror(e) \in Coming(me.todo))
    BY <1>1, <1>4, <1>7, NamesBoth
  <2>3. One(e \in Coming(me.todo)) = One(Mirror(e) \in Coming(me.todo))
    BY <2>2 DEF One
  <2>4. QED
    BY <1>1, <2>1, <2>3 DEF Even
<1>8. QED
  BY <1>6, <1>7 DEF FairTo, me

(* An exec that enters: where it changes nothing there was nothing.        *)
LEMMA ApplyFair ==
  ASSUME TypeInv, Ledger, NEW c \in Clients, Apply(c), FairTo(force, cli[c]),
         Head(cli[c].plan).kind \in Tried => force[Head(cli[c].todo).effect] = 0
  PROVE  FairTo(force', Tailed(cli[c]))
<1> DEFINE me == cli[c]
           a == Head(me.plan)
           s == Head(me.todo)
           h == s.effect
           x == Tailed(me)
<1>1. me.at = "apply" /\ me.todo # <<>> /\ ~Refused(h) /\ force' = Done(s)
  BY DEF Apply, At
<1>2. /\ me \in ClientState /\ a \in Condition /\ Fine(a, Broke)
      /\ me.todo \in Seq(ExecStep) /\ me.list \in Seq(Condition)
  BY <1>1, ClientFacts
<1>3. me.outcome = "entered" /\ Remains(me.todo, a.effects)
  BY <1>1, ClientFacts DEF Stage
<1>4. Distinct(me.todo) /\ s.sets = TRUE /\ (\A e \in Coming(me.todo) : Names(a, e)) /\ s \in ExecStep
  BY <1>1, <1>2, <1>3, RemainsFacts, HeadTailProperties
<1>5. h \in Coming(me.todo) /\ Coming(Tail(me.todo)) = Coming(me.todo) \ {h}
  BY <1>1, <1>2, <1>4, ComingTail
<1>6. Names(a, h) /\ h[1] = a.kind /\ h[1] \in Kinds /\ h \in Effects
  <2>1. Names(a, h) /\ h \in Effects
    BY <1>4, <1>5 DEF ExecStep
  <2>2. h[1] = a.kind
    BY <1>2, <2>1 DEF Names, Fine
  <2>3. a.kind \in Kinds
    BY <1>2 DEF Condition
  <2>4. QED
    BY <2>1, <2>2, <2>3
<1>7. x.at = "apply" /\ x.list = me.list /\ x.plan = me.plan /\ x.todo = Tail(me.todo) /\ x.outcome = "entered"
  BY <1>1, <1>2, <1>3, StepFields
<1>8. TypeOK /\ force \in [Effects -> Nat]
  BY DEF TypeInv, TypeOK
<1>9. /\ Done(s) \in [Effects -> Nat] /\ \A e \in Effects : e # h => Done(s)[e] = force[e]
      /\ ~Gone(h) => Done(s)[h] = IF h[1] \in Stacking THEN force[h] + 1 ELSE 1
  BY <1>4, <1>8, DoneFacts
<1>10. h[1] \notin Dying => Done(s)[h] = force[h] + 1
  <2> SUFFICES ASSUME h[1] \notin Dying PROVE Done(s)[h] = force[h] + 1
    OBVIOUS
  <2>1. ~Gone(h)
    BY DEF Gone, Dying
  <2>2. force[h] \in Nat
    BY <1>6, <1>8
  <2>3. CASE h[1] \in Stacking
    BY <1>9, <2>1, <2>3
  <2>4. CASE h[1] \in Exclusive
    <3>1. force[h] = 0
      BY <1>1, <2>2, <2>4 DEF Refused
    <3>2. h[1] \notin Stacking
      BY <2>4 DEF Exclusive, Stacking
    <3>3. QED
      BY <1>9, <2>1, <3>1, <3>2
  <2>5. CASE h[1] \in Tried
    <3>1. force[h] = 0
      BY <1>6, <2>5
    <3>2. h[1] \notin Stacking
      BY <2>5 DEF Tried, Stacking
    <3>3. QED
      BY <1>9, <2>1, <3>1, <3>2
  <2>6. QED
    BY <1>6, <2>3, <2>4, <2>5 DEF Kinds, Dying, Stacking, Exclusive, Tried
<1> HIDE DEF s, x, a
<1>11. ~Adds(me, h) /\ Adds(x, h) /\ \A e : e # h => (Adds(x, e) <=> Adds(me, e))
  BY <1>1, <1>3, <1>5, <1>6, <1>7 DEF Adds, a
<1>12. ASSUME NEW e \in Effects, e[1] \notin Dying
       PROVE  /\ force'[e] >= Owes(x, e) /\ force[e] \in Nat /\ force'[e] \in Nat
              /\ force'[e] + One(e \in Coming(x.todo)) = force[e] + One(e \in Coming(me.todo))
  <2>1. force[e] >= Owes(me, e) /\ force[e] \in Nat /\ force'[e] \in Nat
    BY <1>1, <1>8, <1>9, <1>12 DEF FairTo
  <2>2. Naming(me.list, e) \in Nat
    BY <1>2, NamingType
  <2>3. Owes(me, e) = Naming(me.list, e) + One(Adds(me, e)) /\ Owes(x, e) = Naming(me.list, e) + One(Adds(x, e))
    BY <1>1, <1>7 DEF Owes, One
  <2>4. CASE e = h
    <3>1. One(Adds(me, e)) = 0 /\ One(Adds(x, e)) = 1
          /\ One(e \in Coming(me.todo)) = 1 /\ One(e \in Coming(x.todo)) = 0
      BY <1>5, <1>7, <1>11, <2>4 DEF One
    <3>2. force'[e] = force[e] + 1
      BY <1>1, <1>10, <1>12, <2>4
    <3>3. QED
      BY <2>1, <2>2, <2>3, <3>1, <3>2
  <2>5. CASE e # h
    <3>1. One(Adds(me, e)) = One(Adds(x, e)) /\ One(e \in Coming(me.todo)) = One(e \in Coming(x.todo))
      BY <1>5, <1>7, <1>11, <2>5 DEF One
    <3>2. force'[e] = force[e]
      BY <1>1, <1>9, <2>5
    <3>3. QED
      BY <2>1, <2>3, <3>1, <3>2
  <2>6. QED
    BY <2>4, <2>5
<1>13. ASSUME NEW e \in Effects, e[1] \in Cutting
       PROVE  Even(force', x, e)
  <2>1. Mirror(e) \in Effects /\ Mirror(e)[1] \notin Dying /\ e[1] \notin Dying
    BY <1>13, MirrorFacts
  <2>2. /\ force'[e] + One(e \in Coming(x.todo)) = force[e] + One(e \in Coming(me.todo))
        /\ force'[Mirror(e)] + One(Mirror(e) \in Coming(x.todo))
              = force[Mirror(e)] + One(Mirror(e) \in Coming(me.todo))
    BY <1>12, <2>1
  <2>3. Even(force, me, e)
    BY <1>13 DEF FairTo
  <2>4. QED
    BY <1>1, <1>7, <2>2, <2>3 DEF Even
<1>14. QED
  BY <1>12, <1>13 DEF FairTo, x

(* An exec that puts back: it was in force, it is one less.                *)
LEMMA UndoFair ==
  ASSUME TypeInv, Ledger, mishaps = {}, NEW c \in Clients, Undo(c), FairTo(force, cli[c])
  PROVE  FairTo(force', Tailed(cli[c]))
<1> DEFINE me == cli[c]
           s == Head(me.todo)
           h == s.effect
           x == Tailed(me)
<1>1. me.at = "undo" /\ me.todo # <<>> /\ force' = Done(s)
  BY DEF Undo, At
<1>2. /\ me \in ClientState /\ me.todo \in Seq(ExecStep)
      /\ me.list \in Seq(Condition) /\ me.plan \in Seq(Condition)
  BY ClientFacts
<1>3. Distinct(me.todo) /\ ~s.sets
  <2>1. 1 \in DOMAIN me.todo /\ s = me.todo[1]
    BY <1>1, <1>2, LenProperties, HeadTailProperties, EmptySeq
  <2>2. ~Broke
    BY DEF Broke
  <2>3. Stage(me, file.list, Broke)
    BY ClientFacts
  <2>4. QED
    BY <1>1, <2>1, <2>2, <2>3 DEF Stage
<1>4. h \in Coming(me.todo) /\ Coming(Tail(me.todo)) = Coming(me.todo) \ {h}
  BY <1>1, <1>2, <1>3, ComingTail
<1>5. s \in ExecStep /\ h \in Effects
  <2>1. s \in ExecStep
    BY <1>1, <1>2, HeadTailProperties
  <2>2. QED
    BY <2>1 DEF ExecStep
<1>6. x.at = "undo" /\ x.list = me.list /\ x.plan = me.plan /\ x.todo = Tail(me.todo)
  BY <1>1, <1>2, StepFields
<1>7. TypeOK /\ force \in [Effects -> Nat]
  BY DEF TypeInv, TypeOK
<1>8. /\ Done(s) \in [Effects -> Nat] /\ \A e \in Effects : e # h => Done(s)[e] = force[e]
      /\ ~Gone(h) => Done(s)[h] = IF force[h] > 0 THEN force[h] - 1 ELSE 0
  BY <1>3, <1>5, <1>7, DoneFacts
<1> HIDE DEF s, x
<1>9. ASSUME NEW e \in Effects, e[1] \notin Dying
      PROVE  /\ force'[e] >= Owes(x, e) /\ force[e] \in Nat /\ force'[e] \in Nat
             /\ force'[e] + One(e \in Coming(me.todo)) = force[e] + One(e \in Coming(x.todo))
  <2>1. force[e] >= Owes(me, e) /\ force[e] \in Nat /\ force'[e] \in Nat
    BY <1>1, <1>7, <1>8, <1>9 DEF FairTo
  <2>2. Naming(me.list, e) \in Nat /\ Naming(me.plan, e) \in Nat
    BY <1>2, NamingType
  <2>3. /\ Owes(me, e) = Naming(me.list, e) + (Naming(me.plan, e) + One(e \in Coming(me.todo)))
        /\ Owes(x, e) = Naming(me.list, e) + (Naming(me.plan, e) + One(e \in Coming(x.todo)))
    BY <1>1, <1>6 DEF Owes
  <2>4. CASE e = h
    <3>1. One(e \in Coming(me.todo)) = 1 /\ One(e \in Coming(x.todo)) = 0
      BY <1>4, <1>6, <2>4 DEF One
    <3>2. ~Gone(h)
      BY <1>9, <2>4 DEF Gone, Dying
    <3>3. force[e] >= 1
      BY <2>1, <2>2, <2>3, <3>1
    <3>4. force'[e] = force[e] - 1
      BY <1>1, <1>8, <2>1, <2>4, <3>2, <3>3
    <3>5. QED
      BY <2>1, <2>2, <2>3, <3>1, <3>3, <3>4
  <2>5. CASE e # h
    <3>1. One(e \in Coming(me.todo)) = One(e \in Coming(x.todo))
      BY <1>4, <1>6, <2>5 DEF One
    <3>2. force'[e] = force[e]
      BY <1>1, <1>8, <2>5
    <3>3. QED
      BY <2>1, <2>3, <3>1, <3>2
  <2>6. QED
    BY <2>4, <2>5
<1>10. ASSUME NEW e \in Effects, e[1] \in Cutting
       PROVE  Even(force', x, e)
  <2>1. Mirror(e) \in Effects /\ Mirror(e)[1] \notin Dying /\ e[1] \notin Dying
    BY <1>10, MirrorFacts
  <2> DEFINE f == force[e]
             g == force'[e]
             fm == force[Mirror(e)]
             gm == force'[Mirror(e)]
             i == One(e \in Coming(me.todo))
             j == One(e \in Coming(x.todo))
             im == One(Mirror(e) \in Coming(me.todo))
             jm == One(Mirror(e) \in Coming(x.todo))
  <2>2. g + i = f + j /\ gm + im = fm + jm
    BY <1>9, <2>1
  <2>3. f \in Nat /\ g \in Nat /\ fm \in Nat /\ gm \in Nat
    BY <1>9, <2>1
  <2>4. i \in Nat /\ j \in Nat /\ im \in Nat /\ jm \in Nat
    BY DEF One
  <2>5. f + im = fm + i
    BY <1>1, <1>10 DEF FairTo, Even
  <2> HIDE DEF f, g, fm, gm, i, j, im, jm
  <2>6. g + jm = gm + j
    BY <2>2, <2>3, <2>4, <2>5
  <2>7. QED
    BY <1>6, <2>6 DEF Even, g, gm, j, jm
<1>11. QED
  BY <1>9, <1>10 DEF FairTo, x

-----------------------------------------------------------------------------
(* A contention is entered by itself.                                      *)

LEMMA AloneOne ==
  ASSUME TypeInv, Apart, NEW c \in Clients, NEW me, Becomes(c, me), Alone(me)
  PROVE  Apart'
BY DEF TypeInv, TypeOK, Apart, Becomes

LEMMA AloneReturned == \A result : Alone(Returned(result))
BY DEF Alone, Returned

LEMMA AloneTurned ==
  ASSUME NEW me \in ClientState, Alone(me)
  PROVE  Alone(Turned(me))
<1>1. CASE me.plan = <<>>
  BY <1>1, AloneReturned DEF Turned
<1>2. CASE me.plan # <<>>
  <2>1. Turned(me).plan = me.plan /\ Turned(me).outcome = me.outcome /\ Turned(me).at \in {"mode", "apply"}
    BY <1>2 DEF Turned, ClientState, Phase
  <2>2. QED
    BY <2>1 DEF Alone
<1>3. QED
  BY <1>1, <1>2

LEMMA AloneKept ==
  TypeInv /\ Ledger /\ Apart /\ [Next]_vars => Apart'
<1> SUFFICES ASSUME TypeInv, Ledger, Apart, [Next]_vars PROVE Apart'
  OBVIOUS
<1>1. ASSUME NEW c \in Clients, Command(c)
      PROVE  Apart'
  <2>1. CASE CannotOpen(c)
    BY <2>1, AloneReturned, AloneOne DEF CannotOpen, Return
  <2>2. ASSUME NEW plan, Starts(c, plan)
        PROVE  Apart'
    <3> DEFINE me == [Returned("entered") EXCEPT !.list = file.list, !.plan = plan]
    <3>1. file.list \in Seq(Condition) /\ plan \in Seq(Condition)
      BY <2>2 DEF TypeInv, TypeOK, Starts
    <3>2. Returned("entered") \in ClientState
      BY ReturnedSound DEF Sound
    <3>3. me \in ClientState
      BY <3>1, <3>2 DEF ClientState
    <3>4. me.plan = plan /\ me.at = "idle"
      BY DEF Returned
    <3>5. Becomes(c, Turned(me))
      BY <2>2 DEF Starts, Enter
    <3> HIDE DEF me
    <3>6. Alone(me)
      BY <2>2, <3>4 DEF Alone, Starts
    <3>7. QED
      BY <3>3, <3>5, <3>6, AloneTurned, AloneOne
  <2>3. ASSUME NEW verb \in {"cleared", "resumed"}, NEW lifts, Lift(c, verb, lifts)
        PROVE  Apart'
    <3> DEFINE me == [Returned(verb) EXCEPT !.at = "undo", !.plan = file.list, !.lifts = lifts]
    <3>1. me.outcome # "entered"
      BY DEF Returned
    <3>2. Becomes(c, me)
      BY <2>3 DEF Lift
    <3> HIDE DEF me
    <3>3. Alone(me)
      BY <3>1 DEF Alone
    <3>4. QED
      BY <3>2, <3>3, AloneOne
  <2>4. QED
    BY <1>1, <2>1, <2>2, <2>3, CommandKinds DEF Lifts
<1>2. ASSUME NEW c \in Clients, Step(c) \/ Trouble(c)
      PROVE  Apart'
  <2> DEFINE me == cli[c]
  <2>1. /\ me \in ClientState /\ Stage(me, file.list, Broke) /\ me.plan \in Seq(Condition)
        /\ me.at \in {"mode", "apply"} => me.plan # <<>>
    BY ClientFacts
  <2>2. Alone(me)
    BY DEF Apart
  <2>3. ASSUME NEW x, Becomes(c, x), x.plan = me.plan, x.outcome = me.outcome,
               x.at = me.at \/ me.at \in {"save", "write"}
        PROVE  Apart'
    BY <2>2, <2>3, AloneOne DEF Alone
  <2>4. ASSUME NEW x, Becomes(c, x), x.outcome # "entered"
        PROVE  Apart'
    BY <2>4, AloneOne DEF Alone
  <2>5. ASSUME NEW result, Return(c, result)
        PROVE  Apart'
    BY <2>5, AloneReturned, AloneOne DEF Return
  <2>6. CASE Apply(c) \/ SuspendUnheeded(c) \/ Undo(c) \/ UndoFails(c)
    BY <2>1, <2>3, <2>6, StepShapes, StepFields
  <2>7. ASSUME Keep(c) \/ Reverse(c) \/ UndoDone(c)
        PROVE  Apart'
    <3>1. me.outcome # "entered"
      BY <2>1, <2>7 DEF Keep, Reverse, UndoDone, At, Stage
    <3>2. Passed(me).outcome = me.outcome /\ Saving(me).outcome = me.outcome
          /\ \A todo : Reversing(me, todo).outcome = me.outcome
      BY <2>1, StepFields
    <3>3. Becomes(c, Passed(me)) \/ Becomes(c, Saving(me))
          \/ Becomes(c, Reversing(me, Reversal(Head(me.plan), me.outcome)))
      BY <2>7, StepShapes
    <3>4. QED
      BY <2>4, <3>1, <3>2, <3>3
  <2>8. CASE SaveTruncates(c)
    <3>1. Becomes(c, Writing(me)) /\ me.at = "save"
      BY <2>8, StepShapes DEF SaveTruncates, At
    <3>2. QED
      BY <2>1, <2>3, <3>1, StepFields
  <2>9. CASE Add(c)
    <3> DEFINE x == Added(me)
    <3>1. Becomes(c, x) /\ me.plan # <<>>
      BY <2>1, <2>9, StepShapes DEF Add, At
    <3>2. x.plan = Tail(me.plan) /\ x.outcome = me.outcome
      BY <2>1, StepFields
    <3> HIDE DEF x
    <3>3. DOMAIN Tail(me.plan) = 1..(Len(me.plan) - 1) /\ DOMAIN me.plan = 1..Len(me.plan)
          /\ Len(me.plan) \in Nat /\ \A i \in 1..(Len(me.plan) - 1) : Tail(me.plan)[i] = me.plan[i + 1]
      BY <2>1, <3>1, HeadTailProperties, LenProperties, EmptySeq
    <3>4. \A i \in DOMAIN x.plan : i + 1 \in DOMAIN me.plan /\ i + 1 # 1 /\ x.plan[i] = me.plan[i + 1]
      BY <3>2, <3>3
    <3>5. Alone(x)
      BY <2>2, <3>2, <3>4 DEF Alone
    <3>6. QED
      BY <3>1, <3>5, AloneOne
  <2>10. CASE ReadMode(c)
    <3> DEFINE broken == force[Head(me.plan).effects[1]] > 0
               x == Moded(me, broken)
    <3>1. Becomes(c, x) /\ me.plan # <<>> /\ broken \in BOOLEAN
      <4>1. Becomes(c, x)
        BY <2>10, StepShapes
      <4>2. me.plan # <<>>
        BY <2>1, <2>10 DEF ReadMode, At
      <4>3. broken \in BOOLEAN
        OBVIOUS
      <4>4. QED
        BY <4>1, <4>2, <4>3
    <3>2. x.outcome = me.outcome /\ x.at = "apply"
      BY <2>1 DEF Moded, ClientState
    <3> HIDE DEF broken
    <3>3. \A i \in DOMAIN x.plan : i # 1 => i \in DOMAIN me.plan /\ x.plan[i] = me.plan[i]
      BY <2>1, <3>1, ModedFacts
    <3> HIDE DEF x
    <3>4. Alone(x)
      BY <2>2, <3>2, <3>3 DEF Alone
    <3>5. QED
      BY <3>1, <3>4, AloneOne
  <2>11. CASE SaveWrites(c)
    <3>1. cli' = [d \in Clients |-> IF d = c THEN Turned(me) ELSE [cli[d] EXCEPT !.stale = ~At(d, "idle")]]
      BY <2>11 DEF SaveWrites
    <3>2. Alone(Turned(me))
      BY <2>1, <2>2, AloneTurned
    <3>3. ASSUME NEW d \in Clients, d # c
          PROVE  Alone(cli'[d])
      <4> DEFINE y == cli'[d]
      <4>1. cli[d] \in ClientState
        BY ClientFacts
      <4>2. y.at = cli[d].at /\ y.plan = cli[d].plan /\ y.outcome = cli[d].outcome
        BY <3>1, <3>3, <4>1 DEF ClientState
      <4> HIDE DEF y
      <4>3. Alone(cli[d])
        BY DEF Apart
      <4>4. Alone(y)
        BY <4>2, <4>3 DEF Alone
      <4>5. QED
        BY <4>4 DEF y
    <3>4. QED
      BY <3>1, <3>2, <3>3 DEF Apart
  <2>12. CASE ModeFails(c) \/ ApplyFails(c) \/ Killed(c) \/ ApplyRefused(c)
    BY <2>5, <2>12 DEF ModeFails, ApplyFails, Killed, ApplyRefused
  <2>13. QED
    BY <1>2, <2>6, <2>7, <2>8, <2>9, <2>10, <2>11, <2>12 DEF Step, Trouble
<1>3. ASSUME UNCHANGED cli
      PROVE  Apart'
  BY <1>3 DEF Apart
<1>4. QED
  BY <1>1, <1>2, <1>3 DEF Next, Restart, vars

-----------------------------------------------------------------------------
(* The invariant is kept by every action.                                  *)

(* Turning to a condition changes nothing yet.                             *)
LEMMA TurnedTries ==
  ASSUME NEW me \in ClientState, NEW f,
         \A i \in DOMAIN me.plan : me.plan[i].kind = "contention" => f[me.plan[i].effects[1]] = 0
  PROVE  ~Working(Turned(me)) /\ Tries(f, Turned(me))
<1>1. CASE me.plan = <<>>
  BY <1>1 DEF Turned, Returned, Working, Tries
<1>2. CASE me.plan # <<>>
  <2> DEFINE a == Head(me.plan)
             todo == Entering(a.effects)
             you == [me EXCEPT !.at = Phase(a), !.todo = todo]
  <2>1. Turned(me) = you
    BY <1>2 DEF Turned
  <2>2. me.plan \in Seq(Condition) /\ a \in Condition /\ a = me.plan[1] /\ 1 \in DOMAIN me.plan
    BY <1>2, HeadTailProperties, LenProperties, EmptySeq DEF ClientState
  <2>3. Len(todo) = Len(a.effects) /\ Len(a.effects) \in Nat
    BY <2>2, EnteringRemains, LenProperties DEF Condition
  <2> HIDE DEF a, todo
  <2>4. you.at = Phase(a) /\ you.todo = todo /\ you.plan = me.plan
    BY DEF ClientState
  <2> HIDE DEF you
  <2>5. Head(you.plan) = a
    BY <2>4 DEF a
  <2>6. ~Working(you)
    BY <2>3, <2>4, <2>5 DEF Working, Phase
  <2>7. you.at = "apply" /\ a.kind \in Tried => f[a.effects[1]] = 0
    BY <2>2, <2>4 DEF Phase, Tried
  <2>8. QED
    BY <2>1, <2>5, <2>6, <2>7 DEF Tries
<1>3. QED
  BY <1>1, <1>2

LEMMA CommandLeast ==
  ASSUME TypeInv, Ledger, AtLeast, mishaps = {}, NEW c \in Clients, Command(c)
  PROVE  AtLeast'
<1>1. CASE CannotOpen(c)
  <2> DEFINE me == Returned("error")
  <2>1. Becomes(c, me) /\ UNCHANGED <<force, file>> /\ ~Working(cli[c])
    BY <1>1 DEF CannotOpen, Return, At, Working
  <2>2. ~Working(me) /\ Tries(force, me)
    BY DEF Returned, Working, Tries
  <2> HIDE DEF me
  <2>3. QED
    BY <2>1, <2>2, LeastOne
<1>2. ASSUME NEW plan, Starts(c, plan)
      PROVE  AtLeast'
  <2> DEFINE me == [Returned("entered") EXCEPT !.list = file.list, !.plan = plan]
             x == Turned(me)
  <2>1. file.list \in Seq(Condition) /\ plan \in Seq(Condition)
    BY <1>2 DEF TypeInv, TypeOK, Starts
  <2>2. Returned("entered") \in ClientState
    BY ReturnedSound DEF Sound
  <2>3. me \in ClientState
    BY <2>1, <2>2 DEF ClientState
  <2>4. me.plan = plan
    BY DEF Returned
  <2>5. Becomes(c, x) /\ UNCHANGED <<force, file>> /\ ~Working(cli[c])
    BY <1>2 DEF Starts, Enter, At, Working
  <2> HIDE DEF me
  <2>6. ~Working(x) /\ Tries(force, x)
    <3>1. \A i \in DOMAIN plan : plan[i].kind = "contention" => force[plan[i].effects[1]] = 0
      BY <1>2 DEF Starts
    <3>2. QED
      BY <2>1, <2>3, <2>4, <3>1, TurnedTries
  <2> HIDE DEF x
  <2>7. QED
    BY <2>5, <2>6, LeastOne
<1>3. ASSUME NEW verb \in {"cleared", "resumed"}, NEW lifts, Lift(c, verb, lifts)
      PROVE  AtLeast'
  <2> DEFINE me == [Returned(verb) EXCEPT !.at = "undo", !.plan = file.list, !.lifts = lifts]
  <2>1. me.at = "undo" /\ me.list = <<>> /\ me.plan = file.list /\ me.todo = <<>>
    BY DEF Returned
  <2>2. Becomes(c, me) /\ UNCHANGED <<force, file>> /\ ~Working(cli[c])
    BY <1>3 DEF Lift, At, Working
  <2> HIDE DEF me
  <2>3. Working(me)
    BY <2>1 DEF Working
  <2>4. ASSUME FairFile(force, file.list)
        PROVE  FairTo(force, me)
    <3>1. \A e : One(e \in Coming(me.todo)) = 0
      BY <2>1 DEF Coming, One
    <3>2. force \in [Effects -> Nat] /\ file.list \in Seq(Condition)
      BY DEF TypeInv, TypeOK
    <3>3. ASSUME NEW e \in Effects, e[1] \notin Dying
          PROVE  force[e] >= Owes(me, e)
      <4>1. Naming(<<>>, e) = 0 /\ Naming(file.list, e) \in Nat
        BY <3>2, NamingEmpty, NamingType
      <4>2. Owes(me, e) = Naming(file.list, e)
        BY <2>1, <3>1, <4>1 DEF Owes
      <4>3. QED
        BY <2>4, <3>3, <4>2 DEF FairFile
    <3>4. ASSUME NEW e \in Effects, e[1] \in Cutting
          PROVE  Even(force, me, e)
      BY <2>1, <2>4, <3>1, <3>4 DEF Even, FairFile
    <3>5. QED
      BY <3>3, <3>4 DEF FairTo
  <2>5. QED
    BY <2>2, <2>3, <2>4, LeastOne
<1>4. QED
  BY <1>1, <1>2, <1>3, CommandKinds DEF Lifts

(* The client that writes the file has been the only one at work, or the   *)
(* others work from an old list now.                                       *)
LEMMA WrittenLeast ==
  ASSUME TypeInv, Ledger, Apart, AtLeast, mishaps = {}, mishaps' = {}, NEW c \in Clients, SaveWrites(c)
  PROVE  AtLeast'
<1> DEFINE me == cli[c]
<1>1. /\ me.at = "write" /\ ~me.stale /\ UNCHANGED force /\ file' = [list |-> me.list, torn |-> FALSE]
      /\ cli' = [d \in Clients |-> IF d = c THEN Turned(me) ELSE [cli[d] EXCEPT !.stale = ~At(d, "idle")]]
  BY DEF SaveWrites, At, Raced
<1>2. /\ me \in ClientState /\ me.todo = <<>> /\ me.list \in Seq(Condition)
      /\ me.outcome # "entered" => me.plan = <<>>
  BY <1>1, ClientFacts DEF Stage
<1>3. \A i \in DOMAIN me.plan : me.plan[i].kind = "contention" => force[me.plan[i].effects[1]] = 0
  BY <1>1, <1>2 DEF Apart, Alone
<1>4. cli'[c] = Turned(me) /\ ~Working(Turned(me)) /\ Tries(force', Turned(me))
  BY <1>1, <1>2, <1>3, TurnedTries
<1>5. ASSUME NEW d \in Clients, d # c
      PROVE  /\ Working(cli'[d]) <=> Working(cli[d])
             /\ Working(cli[d]) => cli'[d].stale
             /\ Tries(force', cli'[d])
  <2> DEFINE y == cli'[d]
  <2>1. cli[d] \in ClientState
    BY ClientFacts
  <2>2. /\ y.at = cli[d].at /\ y.list = cli[d].list /\ y.plan = cli[d].plan /\ y.todo = cli[d].todo
        /\ y.stale = (cli[d].at # "idle")
    BY <1>1, <1>5, <2>1 DEF At, ClientState
  <2> HIDE DEF y
  <2>3. (Working(y) <=> Working(cli[d])) /\ (Working(cli[d]) => y.stale) /\ Tries(force', y)
    BY <2>2 DEF Working, Tries
  <2>4. QED
    BY <2>3 DEF y
<1>6. CASE \E d \in Clients : d # c /\ Working(cli[d])
  <2>1. Doomed'
    BY <1>5, <1>6 DEF Doomed
  <2>2. QED
    BY <1>4, <1>5, <2>1 DEF AtLeast
<1>7. CASE \A d \in Clients : Working(cli[d]) => d = c
  <2>1. Working(me)
    BY <1>1 DEF Working
  <2>2. ~Doomed /\ ~Crowd
    BY <1>1, <1>7 DEF Doomed, Crowd
  <2>3. FairTo(force, me)
    BY <1>7, <2>1, <2>2 DEF AtLeast
  <2>4. force \in [Effects -> Nat]
    BY DEF TypeInv, TypeOK
  <2>5. FairFile(force, me.list)
    <3>1. \A e : One(e \in Coming(me.todo)) = 0
      BY <1>2 DEF Coming, One
    <3>2. ASSUME NEW e \in Effects, e[1] \notin Dying
          PROVE  force[e] >= Naming(me.list, e)
      <4>1. Naming(me.list, e) \in Nat
        BY <1>2, NamingType
      <4>2. Owes(me, e) = Naming(me.list, e)
        BY <1>1, <4>1 DEF Owes, One
      <4>3. QED
        BY <2>3, <3>2, <4>2 DEF FairTo
    <3>3. ASSUME NEW e \in Effects, e[1] \in Cutting
          PROVE  force[e] = force[Mirror(e)]
      <4>1. Even(force, me, e) /\ force[e] \in Nat /\ force[Mirror(e)] \in Nat
        BY <2>3, <2>4, <3>3, MirrorFacts DEF FairTo
      <4>2. QED
        BY <1>1, <3>1, <4>1 DEF Even
    <3>4. QED
      BY <3>2, <3>3 DEF FairFile
  <2>6. \A d \in Clients : ~Working(cli'[d])
    BY <1>4, <1>5, <1>7
  <2>7. file'.list = me.list /\ force' = force
    BY <1>1
  <2>8. QED
    BY <1>4, <1>5, <2>5, <2>6, <2>7 DEF AtLeast
<1>8. QED
  BY <1>6, <1>7

LEMMA StepLeast ==
  ASSUME TypeInv, Ledger, Apart, AtLeast, mishaps = {}, mishaps' = {}, NEW c \in Clients, Step(c) \/ Trouble(c)
  PROVE  AtLeast'
<1> DEFINE me == cli[c]
           a == Head(me.plan)
           h == Head(me.todo).effect
<1>1. /\ me \in ClientState /\ Stage(me, file.list, Broke)
      /\ me.list \in Seq(Condition) /\ me.plan \in Seq(Condition) /\ me.todo \in Seq(ExecStep)
      /\ me.at \in {"mode", "apply"} => me.plan # <<>>
      /\ me.plan # <<>> => a \in Condition /\ Fine(a, Broke)
  BY ClientFacts
<1>2. me.at \in {"mode", "apply"} =>
        /\ Remains(me.todo, a.effects) /\ a.effects \in Seq(Effects) /\ a.effects # <<>>
        /\ Len(me.todo) \in Nat /\ Len(a.effects) \in Nat /\ Len(a.effects) > 0
        /\ Len(me.todo) <= Len(a.effects)
  <2> SUFFICES ASSUME me.at \in {"mode", "apply"}
               PROVE  /\ Remains(me.todo, a.effects) /\ a.effects \in Seq(Effects) /\ a.effects # <<>>
                      /\ Len(me.todo) \in Nat /\ Len(a.effects) \in Nat /\ Len(a.effects) > 0
                      /\ Len(me.todo) <= Len(a.effects)
    OBVIOUS
  <2>1. Remains(me.todo, a.effects) /\ a.effects \in Seq(Effects) /\ a.effects # <<>>
    BY <1>1 DEF Stage, Condition, Fine
  <2>2. Len(me.todo) \in Nat /\ Len(a.effects) \in Nat /\ Len(a.effects) > 0
    BY <1>1, <2>1, LenProperties, EmptySeq
  <2>3. QED
    BY <2>1, <2>2 DEF Remains
<1>3. force \in [Effects -> Nat]
  BY DEF TypeInv, TypeOK
<1>4. ASSUME NEW x, Becomes(c, x), UNCHANGED force, file'.list = file.list,
             Working(me), Working(x), x.stale = me.stale,
             \A e \in Effects : Owes(x, e) = Owes(me, e),
             \A e \in Effects : e[1] \in Cutting /\ Even(force, me, e) => Even(force, x, e)
      PROVE  AtLeast'
  <2>1. FairTo(force, me) => FairTo(force', x)
    BY <1>4 DEF FairTo
  <2>2. QED
    BY <1>4, <2>1, LeastOne
<1>5. ASSUME NEW result, Return(c, result), UNCHANGED <<force, file>>, ~Working(me)
      PROVE  AtLeast'
  <2> DEFINE x == Returned(result)
  <2>1. ~Working(x) /\ Tries(force, x)
    BY DEF Returned, Working, Tries
  <2>2. Becomes(c, x)
    BY <1>5 DEF Return
  <2> HIDE DEF x
  <2>3. QED
    BY <1>5, <2>1, <2>2, LeastOne
<1>6. CASE Apply(c)
  <2> DEFINE x == Tailed(me)
  <2>1. me.at = "apply" /\ me.todo # <<>> /\ UNCHANGED file
    BY <1>6 DEF Apply, At
  <2>2. x.at = "apply" /\ x.plan = me.plan /\ x.todo = Tail(me.todo) /\ x.stale = me.stale
    BY <1>1, <2>1, StepFields
  <2>3. Becomes(c, x)
    BY <1>6, StepShapes
  <2>4. FairTo(force, me) /\ (a.kind \in Tried => force[h] = 0) => FairTo(force', x)
    BY <1>6, ApplyFair
  <2> HIDE DEF x
  <2>5. Len(Tail(me.todo)) = Len(me.todo) - 1 /\ Len(me.todo) > 0
    BY <1>1, <2>1, HeadTailProperties, LenProperties, EmptySeq
  <2>6. Working(x)
    <3>1. Len(me.todo) \in Nat /\ Len(a.effects) \in Nat /\ Len(me.todo) <= Len(a.effects)
      BY <1>2, <2>1
    <3>2. Len(x.todo) < Len(Head(x.plan).effects)
      BY <2>2, <2>5, <3>1
    <3>3. QED
      BY <2>2, <3>2 DEF Working
  <2>7. a.kind \in Tried => Len(a.effects) = 1
    BY <1>1, <2>1 DEF Fine
  <2>8. Working(me) => a.kind \notin Tried
    <3>1. Len(me.todo) \in Nat /\ Len(a.effects) \in Nat
      BY <1>2, <2>1
    <3>2. Working(me) => Len(me.todo) < Len(a.effects)
      BY <2>1 DEF Working
    <3> DEFINE k == Len(me.todo)
               m == Len(a.effects)
    <3>3. k \in Nat /\ m \in Nat /\ k > 0 /\ (Working(me) => k < m) /\ (a.kind \in Tried => m = 1)
      BY <2>5, <2>7, <3>1, <3>2
    <3> HIDE DEF k, m
    <3>4. QED
      BY <3>3
  <2>9. ASSUME ~Working(me), ~me.stale, FairFile(force, file.list), Tries(force, me)
        PROVE  FairTo(force, me) /\ (a.kind \in Tried => force[h] = 0)
    <3>1. FairTo(force, me)
      BY <2>1, <2>9, BeginsFair DEF At
    <3>2. ASSUME a.kind \in Tried
          PROVE  force[h] = 0
      <4>1. force[a.effects[1]] = 0
        BY <2>1, <2>9, <3>2 DEF Tries
      <4>2. Len(me.todo) = 1 /\ Len(a.effects) = 1
        <5>1. Len(me.todo) \in Nat /\ Len(me.todo) <= Len(a.effects)
          BY <1>2, <2>1
        <5> DEFINE k == Len(me.todo)
                   m == Len(a.effects)
        <5>2. k \in Nat /\ k > 0 /\ k <= m /\ m = 1
          BY <2>5, <2>7, <3>2, <5>1
        <5> HIDE DEF k, m
        <5>3. k = 1 /\ m = 1
          BY <5>2
        <5>4. QED
          BY <5>3 DEF k, m
      <4>3. 1 \in DOMAIN me.todo /\ Head(me.todo) = me.todo[1]
        BY <1>1, <2>1, <4>2, LenProperties, HeadTailProperties
      <4>4. h = a.effects[1]
        <5>1. Remains(me.todo, a.effects)
          BY <1>2, <2>1
        <5>2. Head(me.todo) = [sets |-> TRUE, effect |-> a.effects[Len(a.effects) - Len(me.todo) + 1]]
          BY <4>3, <5>1 DEF Remains
        <5> DEFINE i == Len(a.effects) - Len(me.todo) + 1
        <5>3. i = 1
          BY <4>2
        <5> HIDE DEF i
        <5>4. Head(me.todo) = [sets |-> TRUE, effect |-> a.effects[i]]
          BY <5>2 DEF i
        <5>5. QED
          BY <5>3, <5>4
      <4>5. QED
        BY <4>1, <4>4
    <3>3. QED
      BY <3>1, <3>2
  <2>10. QED
    BY <2>1, <2>2, <2>3, <2>4, <2>6, <2>8, <2>9, LeastOne
<1>7. CASE Undo(c)
  <2> DEFINE x == Tailed(me)
  <2>1. me.at = "undo" /\ UNCHANGED file
    BY <1>7 DEF Undo, At
  <2>2. x.at = "undo" /\ x.stale = me.stale
    BY <1>1, <2>1, StepFields
  <2>3. Becomes(c, x)
    BY <1>7, StepShapes
  <2>4. FairTo(force, me) => FairTo(force', x)
    BY <1>7, UndoFair
  <2> HIDE DEF x
  <2>5. Working(me) /\ Working(x)
    BY <2>1, <2>2 DEF Working
  <2>6. QED
    BY <2>1, <2>2, <2>3, <2>4, <2>5, LeastOne
<1>8. CASE ReadMode(c)
  <2> DEFINE broken == force[a.effects[1]] > 0
             x == Moded(me, broken)
  <2>1. me.at = "mode" /\ UNCHANGED <<force, file>> /\ me.plan # <<>>
        /\ mishaps' = IF broken THEN mishaps \cup {"overwritten"} ELSE mishaps
    BY <1>1, <1>8 DEF ReadMode, At
  <2>2. ~broken
    BY <2>1
  <2>3. Becomes(c, x)
    BY <1>8, StepShapes
  <2>4. broken \in BOOLEAN
    OBVIOUS
  <2>5. a.effects[1] \in Effects /\ force[a.effects[1]] = 0
    <3>1. a.effects[1] \in Effects
      BY <1>2, <2>1, LenProperties, ElementOfSeq
    <3>2. QED
      BY <1>3, <2>2, <3>1
  <2> HIDE DEF broken
  <2>6. x.at = "apply" /\ x.todo = me.todo /\ x.stale = me.stale
    BY <1>1 DEF Moded, ClientState
  <2>7. Head(x.plan).effects = a.effects
    BY <1>1, <2>1, <2>4, ModedFacts
  <2>8. Len(me.todo) = Len(a.effects)
    BY <1>1, <2>1 DEF Stage
  <2> HIDE DEF x
  <2>9. ~Working(me) /\ ~Working(x) /\ Tries(force, x)
    BY <1>2, <2>1, <2>5, <2>6, <2>7, <2>8 DEF Working, Tries
  <2>10. QED
    BY <2>1, <2>3, <2>9, LeastOne
<1>9. CASE Add(c)
  <2> DEFINE x == Added(me)
  <2>1. me.at = "apply" /\ me.todo = <<>> /\ UNCHANGED <<force, file>> /\ me.plan # <<>>
    BY <1>1, <1>9 DEF Add, At
  <2>2. /\ x.at = "save" /\ x.list = Append(me.list, a) /\ x.todo = me.todo /\ x.stale = me.stale
    BY <1>1, StepFields
  <2>3. Becomes(c, x)
    BY <1>9, StepShapes
  <2> HIDE DEF x
  <2>4. Working(me) /\ Working(x)
    BY <1>2, <2>1, <2>2 DEF Working
  <2>5. ASSUME NEW e \in Effects
        PROVE  Owes(x, e) = Owes(me, e)
    <3>1. me.outcome = "entered" /\ e \notin Coming(me.todo)
      BY <1>1, <2>1 DEF Stage, Coming
    <3>2. Adds(me, e) <=> Names(a, e)
      BY <2>1, <3>1 DEF Adds
    <3>3. a \in Condition
      BY <1>1, <2>1
    <3>4. Naming(Append(me.list, a), e) = Naming(me.list, e) + One(Names(a, e)) /\ Naming(me.list, e) \in Nat
      BY <1>1, <3>3, NamingAppend, NamingType
    <3>5. Owes(me, e) = Naming(me.list, e) + One(Names(a, e))
      BY <2>1, <3>2 DEF Owes, One
    <3>6. Owes(x, e) = Naming(Append(me.list, a), e) + 0
      BY <2>2 DEF Owes, One
    <3>7. One(Names(a, e)) \in Nat
      BY DEF One
    <3>8. QED
      BY <3>4, <3>5, <3>6, <3>7
  <2>6. \A e \in Effects : Even(force, me, e) => Even(force, x, e)
    BY <2>1, <2>2 DEF Even
  <2>7. QED
    BY <1>4, <2>1, <2>2, <2>3, <2>4, <2>5, <2>6
<1>10. CASE Keep(c)
  <2> DEFINE x == Passed(me)
  <2>1. me.at = "undo" /\ UNCHANGED <<force, file>> /\ me.plan # <<>>
    BY <1>10 DEF Keep, At
  <2>2. /\ x.at = "undo" /\ x.list = Append(me.list, a) /\ x.plan = Tail(me.plan) /\ x.todo = me.todo
        /\ x.stale = me.stale
    BY <1>1, <2>1, StepFields
  <2>3. Becomes(c, x)
    BY <1>10, StepShapes
  <2> HIDE DEF x
  <2>4. Working(me) /\ Working(x)
    BY <2>1, <2>2 DEF Working
  <2>5. ASSUME NEW e \in Effects
        PROVE  Owes(x, e) = Owes(me, e)
    <3>1. a \in Condition /\ Tail(me.plan) \in Seq(Condition)
      BY <1>1, <2>1, HeadTailProperties
    <3>2. Naming(Append(me.list, a), e) = Naming(me.list, e) + One(Names(a, e))
      BY <1>1, <3>1, NamingAppend
    <3>3. Naming(me.plan, e) = One(Names(a, e)) + Naming(Tail(me.plan), e)
      BY <1>1, <2>1, NamingHead
    <3>4. Naming(me.list, e) \in Nat /\ Naming(Tail(me.plan), e) \in Nat
      BY <1>1, <3>1, NamingType
    <3>5. Owes(me, e) = Naming(me.list, e) + (Naming(me.plan, e) + One(e \in Coming(me.todo)))
      BY <2>1 DEF Owes
    <3>6. Owes(x, e) = Naming(Append(me.list, a), e) + (Naming(Tail(me.plan), e) + One(e \in Coming(me.todo)))
      BY <2>2 DEF Owes
    <3>7. One(Names(a, e)) \in Nat /\ One(e \in Coming(me.todo)) \in Nat
      BY OneType
    <3>8. QED
      BY <3>2, <3>3, <3>4, <3>5, <3>6, <3>7
  <2>6. \A e \in Effects : Even(force, me, e) => Even(force, x, e)
    BY <2>1, <2>2 DEF Even
  <2>7. QED
    BY <1>4, <2>1, <2>2, <2>3, <2>4, <2>5, <2>6
<1>11. CASE Reverse(c)
  <2> DEFINE todo == Reversal(a, me.outcome)
             x == Reversing(me, todo)
  <2>1. me.at = "undo" /\ me.todo = <<>> /\ UNCHANGED <<force, file>> /\ me.plan # <<>> /\ todo # <<>>
    BY <1>11 DEF Reverse, At
  <2>2. /\ x.at = "undo" /\ x.list = me.list /\ x.plan = Tail(me.plan) /\ x.todo = todo
        /\ x.stale = me.stale
    BY <1>1, <2>1, StepFields
  <2>3. Becomes(c, x)
    BY <1>11, StepShapes
  <2>4. a \in Condition /\ Fine(a, Broke)
    BY <1>1, <2>1
  <2>5. \A e : e \in Coming(todo) <=> Names(a, e)
    BY <2>1, <2>4, ReversalFacts
  <2> HIDE DEF x, todo
  <2>6. Working(me) /\ Working(x)
    BY <2>1, <2>2 DEF Working
  <2>7. \A e : One(e \in Coming(me.todo)) = 0
    BY <2>1 DEF Coming, One
  <2>8. ASSUME NEW e \in Effects
        PROVE  Owes(x, e) = Owes(me, e)
    <3>1. Tail(me.plan) \in Seq(Condition)
      BY <1>1, <2>1, HeadTailProperties
    <3>2. Naming(me.plan, e) = One(Names(a, e)) + Naming(Tail(me.plan), e)
      BY <1>1, <2>1, NamingHead
    <3>3. Naming(me.list, e) \in Nat /\ Naming(Tail(me.plan), e) \in Nat
      BY <1>1, <3>1, NamingType
    <3>4. Owes(me, e) = Naming(me.list, e) + (Naming(me.plan, e) + 0)
      BY <2>1, <2>7 DEF Owes
    <3>5. Owes(x, e) = Naming(me.list, e) + (Naming(Tail(me.plan), e) + One(e \in Coming(todo)))
      BY <2>2 DEF Owes
    <3>6. One(Names(a, e)) \in Nat /\ One(e \in Coming(todo)) = One(Names(a, e))
      BY <2>5 DEF One
    <3>7. QED
      BY <3>2, <3>3, <3>4, <3>5, <3>6
  <2>9. ASSUME NEW e \in Effects, e[1] \in Cutting, Even(force, me, e)
        PROVE  Even(force, x, e)
    <3>1. Mirror(e) \in Effects /\ force[e] \in Nat /\ force[Mirror(e)] \in Nat
      BY <1>3, <2>9, MirrorFacts
    <3>2. force[e] = force[Mirror(e)]
      BY <2>1, <2>7, <2>9, <3>1 DEF Even
    <3>3. Names(a, e) <=> Names(a, Mirror(e))
      BY <2>4, <2>9, NamesBoth
    <3>4. One(e \in Coming(todo)) = One(Mirror(e) \in Coming(todo))
      BY <2>5, <3>3 DEF One
    <3>5. QED
      BY <2>2, <3>2, <3>4 DEF Even
  <2>10. QED
    BY <1>4, <2>1, <2>2, <2>3, <2>6, <2>8, <2>9
<1>12. CASE UndoDone(c)
  <2> DEFINE x == Saving(me)
  <2>1. me.at = "undo" /\ me.todo = <<>> /\ me.plan = <<>> /\ UNCHANGED <<force, file>>
    BY <1>12 DEF UndoDone, At
  <2>2. x.at = "save" /\ x.list = me.list /\ x.todo = me.todo /\ x.stale = me.stale
    BY <1>1, StepFields
  <2>3. Becomes(c, x)
    BY <1>12, StepShapes
  <2> HIDE DEF x
  <2>4. Working(me) /\ Working(x)
    BY <2>1, <2>2 DEF Working
  <2>5. \A e : One(e \in Coming(me.todo)) = 0 /\ Naming(me.plan, e) = 0
    BY <2>1, NamingEmpty DEF Coming, One
  <2>6. \A e \in Effects : Owes(x, e) = Owes(me, e)
    BY <2>1, <2>2, <2>5 DEF Owes, One
  <2>7. \A e \in Effects : Even(force, me, e) => Even(force, x, e)
    BY <2>1, <2>2, <2>5 DEF Even
  <2>8. QED
    BY <1>4, <2>1, <2>2, <2>3, <2>4, <2>6, <2>7
<1>13. CASE SaveTruncates(c)
  <2> DEFINE x == Writing(me)
  <2>1. me.at = "save" /\ UNCHANGED force /\ file'.list = file.list
    BY <1>13 DEF SaveTruncates, At, TypeInv, TypeOK
  <2>2. x.at = "write" /\ x.list = me.list /\ x.todo = me.todo /\ x.stale = me.stale
    BY <1>1, StepFields
  <2>3. Becomes(c, x)
    BY <1>13, StepShapes
  <2> HIDE DEF x
  <2>4. Working(me) /\ Working(x)
    BY <2>1, <2>2 DEF Working
  <2>5. \A e \in Effects : Owes(x, e) = Owes(me, e) /\ (Even(force, me, e) => Even(force, x, e))
    BY <2>1, <2>2 DEF Owes, Even, One
  <2>6. QED
    BY <1>4, <2>1, <2>2, <2>3, <2>4, <2>5
<1>14. CASE ModeFails(c) \/ ApplyFails(c) \/ ApplyRefused(c)
  <2>1. Return(c, "error") /\ UNCHANGED <<force, file>> /\ (me.at = "mode" \/ (me.at = "apply" /\ ~Begun(c)))
    BY <1>14 DEF ModeFails, ApplyFails, ApplyRefused, At
  <2>2. ~Working(me)
    BY <2>1 DEF Working, Begun, At
  <2>3. QED
    BY <1>5, <2>1, <2>2
<1>15. CASE Killed(c)
  <2>1. Return(c, "none") /\ UNCHANGED <<force, file>> /\ me.at # "write" /\ me.outcome = "entered"
        /\ ~Begun(c) /\ me.at # "save"
    BY <1>15 DEF Killed, At
  <2>2. me.at # "undo"
    BY <1>1, <2>1 DEF Stage
  <2>3. ~Working(me)
    BY <2>1, <2>2 DEF Working, Begun, At
  <2>4. QED
    BY <1>5, <2>1, <2>3
<1>16. CASE SuspendUnheeded(c) \/ UndoFails(c)
  BY <1>16 DEF SuspendUnheeded, UndoFails
<1>17. QED
  BY <1>6, <1>7, <1>8, <1>9, <1>10, <1>11, <1>12, <1>13, <1>14, <1>15, <1>16, WrittenLeast DEF Step, Trouble

(* What dies with the processes of a node is not in the account.           *)
LEMMA RestartLeast ==
  ASSUME TypeInv, Ledger, AtLeast, mishaps = {}, NEW n \in Nodes, Restart(n)
  PROVE  AtLeast'
<1>1. UNCHANGED <<file, cli>> /\ \A e \in Effects : e[1] \notin Dying => force'[e] = force[e]
  BY DEF Restart, Dying
<1>2. \A list : FairFile(force, list) => FairFile(force', list)
  BY <1>1, MirrorFacts DEF FairFile
<1>3. \A me : FairTo(force, me) => FairTo(force', me)
  <2> SUFFICES ASSUME NEW me, FairTo(force, me), NEW e \in Effects
               PROVE  /\ e[1] \notin Dying => force'[e] >= Owes(me, e)
                      /\ e[1] \in Cutting => Even(force', me, e)
    BY DEF FairTo
  <2>1. e[1] \notin Dying => force'[e] >= Owes(me, e)
    BY <1>1 DEF FairTo
  <2>2. ASSUME e[1] \in Cutting
        PROVE  Even(force', me, e)
    <3>1. force'[e] = force[e] /\ force'[Mirror(e)] = force[Mirror(e)]
      BY <1>1, <2>2, MirrorFacts
    <3>2. QED
      BY <2>2, <3>1 DEF FairTo, Even
  <2>3. QED
    BY <2>1, <2>2
<1>4. ASSUME NEW c \in Clients, Tries(force, cli[c])
      PROVE  Tries(force', cli[c])
  <2> SUFFICES ASSUME cli[c].at = "apply", ~Working(cli[c]), ~cli[c].stale, Head(cli[c].plan).kind \in Tried
               PROVE  force'[Head(cli[c].plan).effects[1]] = 0
    BY DEF Tries
  <2> DEFINE a == Head(cli[c].plan)
             e == a.effects[1]
  <2>1. a \in Condition /\ Fine(a, Broke)
    BY ClientFacts
  <2>2. a.effects \in Seq(Effects) /\ a.effects # <<>>
    BY <2>1 DEF Condition, Fine
  <2>3. 1 \in DOMAIN a.effects /\ e \in Effects
    BY <2>2, LenProperties, ElementOfSeq, EmptySeq
  <2>4. e[1] \in Tried
    BY <2>1, <2>3 DEF Fine
  <2>5. e[1] \notin Dying
    BY <2>4 DEF Tried, Dying
  <2>6. force[e] = 0
    BY <1>4 DEF Tries
  <2>7. QED
    BY <1>1, <2>3, <2>5, <2>6
<1>5. mishaps' = {}
  BY DEF Restart
<1>6. QED
  BY <1>1, <1>2, <1>3, <1>4 DEF AtLeast, Doomed, Crowd

LEMMA LeastKept ==
  TypeInv /\ Ledger /\ Apart /\ AtLeast /\ [Next]_vars => AtLeast'
<1> SUFFICES ASSUME TypeInv, Ledger, Apart, AtLeast, [Next]_vars, mishaps' = {} PROVE AtLeast'
  BY DEF AtLeast
<1>1. ASSUME NEW c \in Clients, Command(c) \/ Step(c) \/ Trouble(c)
      PROVE  AtLeast'
  <2>1. mishaps = {}
    BY <1>1, OneExec
  <2>2. QED
    BY <1>1, <2>1, CommandLeast, StepLeast
<1>2. ASSUME NEW n \in Nodes, Restart(n)
      PROVE  AtLeast'
  BY <1>2, RestartLeast DEF Restart
<1>3. CASE UNCHANGED vars
  BY <1>3 DEF vars, AtLeast, Doomed, Crowd
<1>4. QED
  BY <1>1, <1>2, <1>3 DEF Next

LEMMA LeastInit == Init => AtLeast /\ Apart
<1> SUFFICES ASSUME Init PROVE AtLeast /\ Apart
  OBVIOUS
<1>1. \A c \in Clients : cli[c] = Returned("none")
  BY DEF Init
<1>2. ~Working(Returned("none")) /\ Tries(force, Returned("none"))
  BY DEF Returned, Working, Tries
<1>3. FairFile(force, file.list)
  BY NamingEmpty, MirrorFacts DEF Init, FairFile
<1>4. QED
  BY <1>1, <1>2, <1>3, AloneReturned DEF AtLeast, Apart

LEMMA BalanceInvariant == Spec => [](AtLeast /\ TypeInv)
BY LedgerInvariant, LeastInit, LeastKept, AloneKept, PTL DEF Spec

(* Between commands, when none of them met trouble, the file is in force.  *)
LEMMA FairWhenQuiet ==
  ASSUME TypeInv, AtLeast, mishaps = {}, Quiet
  PROVE  FairFile(force, file.list)
<1>1. \A c \in Clients : ~Working(cli[c])
  BY DEF Quiet, At, Working
<1>2. QED
  BY <1>1 DEF AtLeast, Doomed, Crowd

(* Clearing one condition, or entering another, lifts none that stays on   *)
(* record, as long as every command ends well and none writes over what    *)
(* another has recorded since it read the file.                            *)
THEOREM RecordedIsHeld == Spec => []Held
<1>1. TypeInv /\ AtLeast => Held
  BY FairWhenQuiet DEF Held, FairFile, Dying, Naming
<1>2. QED
  BY <1>1, BalanceInvariant, PTL

(* Between commands a partition cuts on both sides or on none.             *)
THEOREM CutsAreBothWays == Spec => []BothWays
<1>1. TypeInv /\ AtLeast => BothWays
  <2> SUFFICES ASSUME TypeInv, AtLeast, mishaps = {}, Quiet,
                      NEW kind \in {"blackhole", "drop"}, NEW m \in Nodes, NEW n \in Nodes
               PROVE  force[<<kind, m, n>>] = force[<<kind, n, m>>]
    BY DEF BothWays
  <2> DEFINE e == <<kind, m, n>>
  <2>1. e \in Effects /\ e[1] \in Cutting /\ Mirror(e) = <<kind, n, m>>
    BY DEF Effects, Cutting, Mirror
  <2>2. FairFile(force, file.list)
    BY FairWhenQuiet
  <2> HIDE DEF e
  <2>3. force[e] = force[Mirror(e)]
    BY <2>1, <2>2 DEF FairFile
  <2>4. QED
    BY <2>1, <2>3 DEF e
<1>2. QED
  BY <1>1, BalanceInvariant, PTL

=============================================================================
