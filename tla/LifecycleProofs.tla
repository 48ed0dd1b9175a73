-------------------------- MODULE LifecycleProofs ---------------------------
(***************************************************************************)
(* Theorems about Lifecycle, for every set of clusters, processes,         *)
(* backends, options and artifacts.                                        *)
(*                                                                         *)
(* One invariant carries them.  A command holds what its next steps need:  *)
(* a create an artifact the assembly can build from, and then the nodes it *)
(* is to make, a destroy the clusters left to it, a reader the logs it is  *)
(* to read.  Whatever is kept of a cluster is in its directory.  A harvest *)
(* is under way only in a reader that is harvesting.  And the record has   *)
(* the invariant of RecordProofs.  A second stands on it, for what a       *)
(* destroy leaves: what stands of a cluster that has not strayed is where  *)
(* its artifact records, and a destroy has still to remove what it has     *)
(* not, place by place.  A third is for what a record opens with: the      *)
(* create that opened it builds first, or the cluster is misopened.        *)
(***************************************************************************)
EXTENDS Lifecycle, RecordProofs, FiniteSetTheorems, WellFoundedInduction, NaturalsInduction, TLAPS

-----------------------------------------------------------------------------
(* Lists.                                                                  *)

\* A set of places has a last one: the distances to the end have a least.
LEMMA LastPlace ==
  ASSUME NEW N \in Nat, NEW T \in SUBSET (1..N), T # {}
  PROVE  \E m \in T : \A i \in T : i <= m
  <1> DEFINE D == {d \in Nat : N - d \in T}
  <1>1. D \subseteq Nat /\ D # {}
    <2>1. PICK i \in T : TRUE
      OBVIOUS
    <2>2. N - i \in Nat /\ N - (N - i) = i
      BY <2>1
    <2> QED BY <2>1, <2>2
  <1> DEFINE less == {ss \in Nat \X Nat : ss[1] < ss[2]}
  <1>2. IsWellFoundedOn(less, Nat)
    BY NatLessThanWellFounded DEF OpToRel
  <1> HIDE DEF D
  <1>3. PICK d \in D : \A e \in D : ~(<<e, d>> \in less)
    <2> HIDE DEF less
    <2> QED BY <1>1, <1>2, WFMin
  <1>4. ASSUME NEW e \in D
        PROVE  d <= e
    <2>1. d \in Nat /\ e \in Nat /\ <<e, d>> \notin less
      BY <1>1, <1>3
    <2>2. <<e, d>> \in Nat \X Nat /\ <<e, d>>[1] = e /\ <<e, d>>[2] = d
      BY <2>1
    <2>3. ~(e < d)
      BY <2>1, <2>2
    <2> QED BY <2>1, <2>3
  <1> USE DEF D
  <1>5. N - d \in T
    BY <1>3
  <1>6. ASSUME NEW i \in T
        PROVE  i <= N - d
    <2>1. i \in Nat /\ N - i \in Nat /\ N - (N - i) = i
      OBVIOUS
    <2>2. N - i \in D
      BY <2>1
    <2>3. d <= N - i /\ d \in Nat
      BY <1>4, <1>1, <2>2
    <2> QED BY <2>1, <2>3
  <1> QED BY <1>5, <1>6

LEMMA ListPlaces ==
  ASSUME NEW s, IsList(s)
  PROVE  Len(s) \in Nat /\ DOMAIN s = 1..Len(s)
  BY DEF IsList

\* The map a list of assignments leaves has each key's value from an
\* assignment of that key.
LEMMA AssignedIsGiven ==
  ASSUME NEW kvs, NEW N \in Nat, DOMAIN kvs \subseteq 1..N
  PROVE  /\ DOMAIN Assigned(kvs) = KeysOf(kvs)
         /\ \A k \in KeysOf(kvs) : \E i \in DOMAIN kvs : kvs[i].key = k /\ Assigned(kvs)[k] = kvs[i].value
  <1>1. DOMAIN Assigned(kvs) = KeysOf(kvs)
    BY DEF Assigned
  <1>2. ASSUME NEW k \in KeysOf(kvs)
        PROVE  \E i \in DOMAIN kvs : kvs[i].key = k /\ Assigned(kvs)[k] = kvs[i].value
    <2> DEFINE T == {i \in DOMAIN kvs : kvs[i].key = k}
               IsLast(i) == kvs[i].key = k /\ \A j \in DOMAIN kvs : kvs[j].key = k => j <= i
               last == CHOOSE i \in DOMAIN kvs : IsLast(i)
    <2>1. T \in SUBSET (1..N) /\ T # {}
      BY DEF KeysOf
    <2>2. PICK m \in T : \A i \in T : i <= m
      BY <2>1, LastPlace
    <2>3. m \in DOMAIN kvs /\ IsLast(m)
      BY <2>2
    <2>4. last \in DOMAIN kvs /\ IsLast(last)
      BY <2>3
    <2>5. Assigned(kvs)[k] = kvs[last].value
      BY DEF Assigned
    <2> QED BY <2>4, <2>5
  <1> QED BY <1>1, <1>2

-----------------------------------------------------------------------------
(* The sync mode, the names of keys, and the nodes of a topology.          *)

LEMMA PerNodeSpells ==
  ASSUME NEW n \in Nat, NEW v, Spellable(v, n)
  PROVE  Len(PerNode(v, n).entries) = n
  <1>1. CASE Bare(v)
    <2>1. PerNode(v, n).entries = [i \in 1..n |-> v.entries[1]]
      BY <1>1 DEF PerNode
    <2> QED BY <2>1
  <1>2. CASE ~Bare(v)
    BY <1>2 DEF PerNode, Spellable
  <1> QED BY <1>1, <1>2

LEMMA FoldedKeys ==
  ASSUME NEW kvs, \A i \in DOMAIN kvs : {"key", "value"} \subseteq DOMAIN kvs[i]
  PROVE  /\ DOMAIN Folded(kvs) = DOMAIN kvs
         /\ Shouted \notin KeysOf(Folded(kvs))
  <1>1. DOMAIN Folded(kvs) = DOMAIN kvs
    BY DEF Folded
  <1>2. ASSUME NEW i \in DOMAIN kvs
        PROVE  Folded(kvs)[i].key # Shouted
    <2>1. CASE kvs[i].key = Shouted
      <3>1. Folded(kvs)[i] = [kvs[i] EXCEPT !.key = perNodeKey]
        BY <2>1 DEF Folded
      <3>2. "key" \in DOMAIN kvs[i]
        OBVIOUS
      <3>3. Folded(kvs)[i].key = perNodeKey
        BY <3>1, <3>2
      <3> QED BY <3>3 DEF perNodeKey, Shouted
    <2>2. CASE kvs[i].key # Shouted
      BY <2>2 DEF Folded
    <2> QED BY <2>1, <2>2
  <1> QED BY <1>1, <1>2 DEF KeysOf

LEMMA DBPlaces ==
  ASSUME NEW t
  PROVE  DOMAIN DBNodes(t) = {i \in DOMAIN t.nodes : t.nodes[i].name.kind # "client"}
  BY DEF DBNodes, RestrictValues, Restrict, IsClient

LEMMA ClientPlaces ==
  ASSUME NEW t
  PROVE  DOMAIN Clients(t) = {i \in DOMAIN t.nodes : t.nodes[i].name.kind = "client"}
  BY DEF Clients, RestrictValues, Restrict, IsClient

LEMMA CountedByKind ==
  ASSUME NEW t, IsList(t.nodes)
  PROVE  Count(DBNodes(t)) \in Nat /\ Count(Clients(t)) \in Nat
  <1>1. Len(t.nodes) \in Nat /\ DOMAIN t.nodes = 1..Len(t.nodes)
    BY ListPlaces
  <1>2. IsFiniteSet(1..Len(t.nodes))
    BY <1>1, FS_Interval
  <1>3. DOMAIN DBNodes(t) \in SUBSET (1..Len(t.nodes)) /\ DOMAIN Clients(t) \in SUBSET (1..Len(t.nodes))
    BY <1>1, DBPlaces, ClientPlaces
  <1> QED BY <1>2, <1>3, FS_Subset, FS_CardinalityType DEF Count

\* What a topology has to be for the assembly to build it.
SpeltOut(t) == perNodeKey \in DOMAIN t.ha => Len(t.ha[perNodeKey].entries) = Count(DBNodes(t))
Fits(n, t) == Written(n, t) /\ SpeltOut(t) /\ Placed(n, t)

-----------------------------------------------------------------------------
(* Resolve.                                                                *)

LEMMA SequencesAreLists ==
  ASSUME NEW S, NEW s \in Seq(S)
  PROVE  IsList(s)
  <1>1. Len(s) \in Nat /\ s \in [1..Len(s) -> S] /\ DOMAIN s = 1..Len(s)
    OBVIOUS
  <1>2. s \in [1..Len(s) -> Range(s)]
    BY <1>1 DEF Range
  <1> QED BY <1>1, <1>2 DEF IsList

LEMMA NodeRecord ==
  ASSUME NEW c, NEW k, NEW i, NEW r, NEW h,
         NEW x, x = [name |-> NodeOf(c, k, i), role |-> r, host |-> h]
  PROVE  {"name", "host"} \subseteq DOMAIN x /\ x.name = NodeOf(c, k, i) /\ x.name.of = c /\ x.name.kind = k
  <1>1. DOMAIN x = {"name", "role", "host"} /\ x.name = NodeOf(c, k, i)
    OBVIOUS
  <1>2. NodeOf(c, k, i).of = c /\ NodeOf(c, k, i).kind = k
    BY DEF NodeOf
  <1> QED BY <1>1, <1>2

\* The nodes of what Resolve answers: as many database nodes as were asked
\* for, and every node named after the cluster.
LEMMA ResolveNodes ==
  ASSUME NEW o, o.nodes \in Int, o.clients \in Int, ~Refuses(o)
  PROVE  /\ IsList(Resolve(o).nodes)
         /\ \A i \in DOMAIN Resolve(o).nodes : /\ {"name", "host"} \subseteq DOMAIN Resolve(o).nodes[i]
                                               /\ Resolve(o).nodes[i].name.of = o.name
         /\ NodeCount(o) \in Nat /\ Count(DBNodes(Resolve(o))) = NodeCount(o)
         /\ Count(Clients(Resolve(o))) = IF o.clients < 0 THEN 0 ELSE o.clients
         /\ \A i \in DOMAIN Resolve(o).nodes :
              \/ \E j \in 1..NodeCount(o) : Resolve(o).nodes[i].name = NodeOf(o.name, "db", j)
              \/ \E j \in 1..o.clients : Resolve(o).nodes[i].name = NodeOf(o.name, "client", j)
  <1> DEFINE n == NodeCount(o)
             single == PresetOf(o) = "single"
             node(k, i, role) == [name |-> NodeOf(o.name, k, i), role |-> role, host |-> o.host]
             dbs == [i \in 1..n |-> node("db", i, IF single THEN "standalone"
                                                  ELSE IF i = 1 THEN "master" ELSE "slave")]
             clients == [i \in 1..o.clients |-> node("client", i, Unset)]
             S == {dbs[i] : i \in DOMAIN dbs} \cup {clients[i] : i \in DOMAIN clients}
             m == IF o.clients < 0 THEN 0 ELSE o.clients
  <1>1. n \in Nat
    BY DEF NodeCount, Refuses
  <1>2. Resolve(o).nodes = dbs \o clients
    BY DEF Resolve
  <1>3. m \in Nat /\ 1..o.clients = 1..m
    OBVIOUS
  <1>4. /\ dbs \in [1..n -> S] /\ clients \in [1..m -> S]
        /\ dbs \in Seq(S) /\ Len(dbs) = n
        /\ clients \in Seq(S) /\ Len(clients) = m
    <2>1. dbs \in [1..n -> S]
      OBVIOUS
    <2>2. clients \in [1..m -> S]
      BY <1>3
    <2> HIDE DEF dbs, clients, S, m, n
    <2> QED BY <1>1, <1>3, <2>1, <2>2
  <1> DEFINE all == dbs \o clients
  <1>5. /\ all \in Seq(S) /\ Len(all) = n + m
        /\ \A i \in 1..(n + m) : all[i] = IF i <= n THEN dbs[i] ELSE clients[i - n]
    <2> HIDE DEF dbs, clients, S, m, n
    <2> QED BY <1>1, <1>3, <1>4
  <1>6. DOMAIN all = 1..(n + m)
    <2> HIDE DEF dbs, clients, S, m, n
    <2> QED BY <1>1, <1>3, <1>5
  <1>7. ASSUME NEW i \in 1..(n + m)
        PROVE  /\ {"name", "host"} \subseteq DOMAIN all[i] /\ all[i].name.of = o.name
               /\ all[i].name.kind = IF i <= n THEN "db" ELSE "client"
               /\ \/ \E j \in 1..n : all[i].name = NodeOf(o.name, "db", j)
                  \/ \E j \in 1..o.clients : all[i].name = NodeOf(o.name, "client", j)
    <2>1. CASE i <= n
      <3>1. i \in 1..n
        BY <1>1, <1>3, <2>1
      <3>2. all[i] = dbs[i]
        BY <1>5, <2>1
      <3>3. PICK role : dbs[i] = [name |-> NodeOf(o.name, "db", i), role |-> role, host |-> o.host]
        BY <3>1
      <3>4. /\ {"name", "host"} \subseteq DOMAIN dbs[i]
            /\ dbs[i].name.of = o.name /\ dbs[i].name.kind = "db"
            /\ dbs[i].name = NodeOf(o.name, "db", i)
        BY <3>3, NodeRecord
      <3> HIDE DEF dbs, clients, all, n, m
      <3> QED BY <2>1, <3>1, <3>2, <3>4
    <2>2. CASE ~(i <= n)
      <3>1. i - n \in 1..o.clients
        BY <1>1, <1>3, <2>2
      <3>2. all[i] = clients[i - n]
        BY <1>5, <2>2
      <3>3. clients[i - n] = [name |-> NodeOf(o.name, "client", i - n), role |-> Unset, host |-> o.host]
        BY <3>1
      <3>4. /\ {"name", "host"} \subseteq DOMAIN clients[i - n]
            /\ clients[i - n].name.of = o.name /\ clients[i - n].name.kind = "client"
            /\ clients[i - n].name = NodeOf(o.name, "client", i - n)
        BY <3>3, NodeRecord
      <3> HIDE DEF dbs, clients, all, n, m
      <3> QED BY <2>2, <3>1, <3>2, <3>4
    <2> QED BY <2>1, <2>2
  <1> HIDE DEF dbs, clients, S, m, n
  <1>8. IsList(all)
    BY <1>5, SequencesAreLists
  <1>9. Count(DBNodes(Resolve(o))) = n
    <2>1. DOMAIN DBNodes(Resolve(o)) = {i \in DOMAIN all : all[i].name.kind # "client"}
      BY <1>2, DBPlaces
    <2>2. {i \in DOMAIN all : all[i].name.kind # "client"} = 1..n
      BY <1>1, <1>3, <1>6, <1>7
    <2>3. Cardinality(1..n) = n
      BY <1>1, FS_Interval
    <2> QED BY <2>1, <2>2, <2>3 DEF Count
  <1>12. Count(Clients(Resolve(o))) = m
    <2>1. DOMAIN Clients(Resolve(o)) = {i \in DOMAIN all : all[i].name.kind = "client"}
      BY <1>2, ClientPlaces
    <2>2. {i \in DOMAIN all : all[i].name.kind = "client"} = (n + 1)..(n + m)
      BY <1>1, <1>3, <1>6, <1>7
    <2>3. Cardinality((n + 1)..(n + m)) = m
      <3>1. n + 1 \in Int /\ n + m \in Int
        BY <1>1, <1>3
      <3>2. Cardinality((n + 1)..(n + m)) = IF n + 1 > n + m THEN 0 ELSE (n + m) - (n + 1) + 1
        BY <3>1, FS_Interval
      <3> QED BY <1>1, <1>3, <3>2
    <2> QED BY <2>1, <2>2, <2>3 DEF Count
  <1> HIDE DEF all
  <1>10. Resolve(o).nodes = all
    BY <1>2 DEF all
  <1>11. /\ \A i \in DOMAIN Resolve(o).nodes : /\ {"name", "host"} \subseteq DOMAIN Resolve(o).nodes[i]
                                               /\ Resolve(o).nodes[i].name.of = o.name
         /\ IsList(Resolve(o).nodes)
         /\ \A i \in DOMAIN Resolve(o).nodes :
              \/ \E j \in 1..n : Resolve(o).nodes[i].name = NodeOf(o.name, "db", j)
              \/ \E j \in 1..o.clients : Resolve(o).nodes[i].name = NodeOf(o.name, "client", j)
    BY <1>10, <1>6, <1>7, <1>8
  <1> QED BY <1>1, <1>9, <1>11, <1>12 DEF n, m

\* Its nodes are among the Nodes.
LEMMA ResolvePlaced ==
  ASSUME NEW o, o.nodes \in Int, o.clients \in Int, ~Refuses(o),
         o.name \in Names, o.backend \in Backends \cup {Unset},
         NodeCount(o) <= MaxNodes, o.clients <= MaxNodes
  PROVE  Placed(o.name, Resolve(o))
  <1> DEFINE t == Resolve(o)
  <1>1. t.backend = o.backend
    BY DEF Resolve
  <1> HIDE DEF t
  <1>2. /\ NodeCount(o) \in Nat /\ Count(DBNodes(t)) = NodeCount(o)
        /\ Count(Clients(t)) = IF o.clients < 0 THEN 0 ELSE o.clients
        /\ \A i \in DOMAIN t.nodes :
             \/ \E j \in 1..NodeCount(o) : t.nodes[i].name = NodeOf(o.name, "db", j)
             \/ \E j \in 1..o.clients : t.nodes[i].name = NodeOf(o.name, "client", j)
    BY ResolveNodes DEF t
  <1>3. /\ \A k \in {"db", "client"}, i \in 1..MaxNodes : NodeOf(o.name, k, i) \in Nodes
        /\ MaxNodes \in Nat
    BY LifecycleAssumption
  <1>4. ASSUME NEW i \in DOMAIN t.nodes
        PROVE  t.nodes[i].name \in Nodes
    <2>1. ASSUME NEW j \in 1..NodeCount(o)
          PROVE  NodeOf(o.name, "db", j) \in Nodes
      <3>1. j \in 1..MaxNodes
        BY <1>2, <1>3
      <3> QED BY <1>3, <3>1
    <2>2. ASSUME NEW j \in 1..o.clients
          PROVE  NodeOf(o.name, "client", j) \in Nodes
      <3>1. j \in 1..MaxNodes
        BY <1>3
      <3> QED BY <1>3, <3>1
    <2> QED BY <1>2, <2>1, <2>2
  <1>5. Count(DBNodes(t)) <= MaxNodes /\ Count(Clients(t)) <= MaxNodes
    BY <1>2, <1>3
  <1> QED BY <1>1, <1>4, <1>5 DEF Placed, t

\* Whether a topology is placed depends on its nodes' names and its backend.
LEMMA PlacedAlike ==
  ASSUME NEW n, NEW t, NEW u, Placed(n, t), u.nodes = t.nodes, u.backend = t.backend
  PROVE  Placed(n, u)
  <1>1. DBNodes(u) = DBNodes(t) /\ Clients(u) = Clients(t)
    BY DEF DBNodes, Clients
  <1> QED BY <1>1 DEF Placed

\* Everything else of it.
LEMMA ResolveFields ==
  ASSUME NEW o
  PROVE  /\ DOMAIN Resolve(o) = ArtifactFields
         /\ Resolve(o).cluster = o.name
         /\ Resolve(o).preset = PresetOf(o)
         /\ HAOff(Resolve(o)) <=> PresetOf(o) = "single"
  <1> DEFINE t == Resolve(o)
  <1>1. DOMAIN t = ArtifactFields
    BY DEF Resolve, ArtifactFields
  <1>2. t.cluster = o.name /\ t.preset = PresetOf(o)
    BY DEF Resolve
  <1>3. t.haMode = IF PresetOf(o) = "single" THEN "off" ELSE "on"
    BY DEF Resolve
  <1> QED BY <1>1, <1>2, <1>3 DEF HAOff

\* Backend and labels are taken as they are.
LEMMA ResolveMeans ==
  ASSUME NEW o
  PROVE  Resolve(o).backend = o.backend /\ Resolve(o).labels = Assigned(o.labels)
  BY DEF Resolve

\* A topology has no labels but those it was given.
Labelled(t, kvs) == \A k \in DOMAIN t.labels : k \in KeysOf(kvs) /\ t.labels[k] = Assigned(kvs)[k]

LEMMA AssignedLabels ==
  ASSUME NEW t, NEW kvs, t.labels = Assigned(kvs)
  PROVE  Labelled(t, kvs)
  <1>1. DOMAIN Assigned(kvs) = KeysOf(kvs)
    BY DEF Assigned
  <1> QED BY <1>1 DEF Labelled

\* A topology that was resolved from options fits its cluster.
LEMMA ResolveFits ==
  ASSUME NEW o, o.nodes \in Int, o.clients \in Int,
         NEW N \in Nat, DOMAIN o.set \subseteq 1..N,
         \A i \in DOMAIN o.set : {"key", "value"} \subseteq DOMAIN o.set[i],
         ~Refuses(o),
         o.name \in Names, o.backend \in Backends \cup {Unset},
         NodeCount(o) <= MaxNodes, o.clients <= MaxNodes
  PROVE  Fits(o.name, Resolve(o))
  <1> DEFINE t == Resolve(o)
             kvs == Folded(o.set)
             given == Assigned(kvs)
             n == NodeCount(o)
             HAKeys == {k \in DOMAIN given : IsHAKey(k)}
  <1>1. DOMAIN kvs \subseteq 1..N /\ Shouted \notin KeysOf(kvs)
    BY FoldedKeys
  <1>2. /\ DOMAIN given = KeysOf(kvs)
        /\ \A k \in KeysOf(kvs) : \E i \in DOMAIN kvs : kvs[i].key = k /\ given[k] = kvs[i].value
    <2> HIDE DEF kvs
    <2> QED BY <1>1, AssignedIsGiven
  <1>3. /\ t.common = Only(given, {k \in DOMAIN given : ~IsHAKey(k)})
        /\ t.ha = [k \in HAKeys |-> IF k = perNodeKey THEN PerNode(given[k], n) ELSE given[k]]
    BY DEF Resolve
  <1> HIDE DEF given
  <1>4. Shouted \notin DOMAIN t.common
    BY <1>1, <1>2, <1>3 DEF Only
  <1>5. DOMAIN t.ha = HAKeys
    BY <1>3
  <1>6. PresetOf(o) = "single" => DOMAIN t.ha = {}
    <2>1. PresetOf(o) = "single" => ~\E k \in KeysOf(kvs) : IsHAKey(k)
      BY DEF Refuses
    <2> HIDE DEF kvs, t
    <2> QED BY <1>2, <1>5, <2>1
  <1>7. n \in Nat /\ Count(DBNodes(t)) = n
    BY ResolveNodes
  <1>8. SpeltOut(t)
    <2>1. SUFFICES ASSUME perNodeKey \in DOMAIN t.ha
                   PROVE  Len(t.ha[perNodeKey].entries) = n
      BY <1>7 DEF SpeltOut
    <2>2. perNodeKey \in KeysOf(kvs) /\ t.ha[perNodeKey] = PerNode(given[perNodeKey], n)
      <3> HIDE DEF t, kvs, n
      <3> QED BY <1>2, <1>3, <1>5, <2>1
    <2>3. PICK i \in DOMAIN kvs : kvs[i].key = perNodeKey /\ given[perNodeKey] = kvs[i].value
      BY <1>2, <2>2
    <2>4. Spellable(kvs[i].value, n)
      <3>1. ~(kvs[i].key = perNodeKey /\ ~Spellable(kvs[i].value, n))
        BY <2>3 DEF Refuses
      <3> QED BY <2>3, <3>1
    <2> QED BY <1>7, <2>2, <2>3, <2>4, PerNodeSpells
  <1>9. Written(o.name, t)
    <2>1. /\ IsList(t.nodes)
          /\ \A i \in DOMAIN t.nodes : {"name", "host"} \subseteq DOMAIN t.nodes[i] /\ t.nodes[i].name.of = o.name
      BY ResolveNodes
    <2>2. /\ ArtifactFields \subseteq DOMAIN t /\ t.cluster = o.name
          /\ t.preset = "single" \/ HAOff(t) => PresetOf(o) = "single"
      BY ResolveFields
    <2> HIDE DEF t
    <2> QED BY <1>4, <1>6, <2>1, <2>2 DEF Written
  <1> QED BY <1>8, <1>9, ResolvePlaced DEF Fits

-----------------------------------------------------------------------------
(* A conf, and what a create asks for with it.                             *)

LEMMA Shift ==
  ASSUME NEW a \in Nat, NEW b \in Nat, NEW j \in 1..b
  PROVE  a + j \in 1..(a + b)
  OBVIOUS

\* The conf's assignments come first, the command's after them.
LEMMA WithConfAsks ==
  ASSUME NEW o, Askable(o), NEW d
  PROVE  LET full == Decided(WithConf(o, o.conf), d)
         IN /\ full.name = o.name /\ full.preset = o.preset
            /\ full.nodes = o.nodes /\ full.clients = o.clients
            /\ \E N \in Nat : DOMAIN full.set \subseteq 1..N
            /\ \A i \in DOMAIN full.set : {"key", "value"} \subseteq DOMAIN full.set[i]
            /\ full.backend = backendFor(Unset, o.backend, d) /\ full.labels = o.labels
            /\ Refuses(full) <=> Refuses(WithConf(o, o.conf))
  <1> DEFINE w == WithConf(o, o.conf)
             full == Decided(w, d)
             conf == o.conf
             keys == ParseCTPConf(conf)
             engine == {i \in DOMAIN keys : keys[i].section \in Engines}
             these(S) == [i \in S |-> [key |-> keys[i].key, value |-> keys[i].value]]
             got == these({i \in engine : keys[i].key \notin measuredHidden})
             shifted == [i \in {Len(conf) + j : j \in DOMAIN o.set} |-> o.set[i - Len(conf)]]
             b == backendFor(Unset, w.backend, d)
             N == Len(conf) + Len(o.set)
  <1>1. /\ DOMAIN w = DOMAIN o
        /\ \A x \in OptionFields \ {"set", "hidden"} : w[x] = o[x]
        /\ w.set = Over(got, shifted)
    <2>1. OptionFields \subseteq DOMAIN o
      BY DEF Askable
    <2>2. CTPSets(keys).sets = got
      BY DEF CTPSets
    <2>3. PICK h : w = [o EXCEPT !.set = Over(CTPSets(keys).sets, shifted), !.hidden = h]
      BY DEF WithConf
    <2>4. "set" \in DOMAIN o /\ "hidden" \in DOMAIN o
      BY <2>1 DEF OptionFields
    <2> HIDE DEF w, keys, got, shifted
    <2> QED BY <2>1, <2>2, <2>3, <2>4
  <1>2. full = [w EXCEPT !.backend = b]
    BY DEF Decided
  <1>3. OptionFields \subseteq DOMAIN w
    BY <1>1 DEF Askable
  <1>15. b = backendFor(Unset, o.backend, d)
    BY <1>1 DEF OptionFields
  <1> HIDE DEF w, full, b
  <1>16. full.backend = backendFor(Unset, o.backend, d)
    BY <1>2, <1>3, <1>15 DEF OptionFields
  <1>4. \A x \in OptionFields \ {"backend"} : full[x] = w[x]
    BY <1>2, <1>3
  <1>5. full.set = Over(got, shifted)
    BY <1>1, <1>4 DEF OptionFields
  <1>6. /\ Len(conf) \in Nat /\ DOMAIN conf = 1..Len(conf)
        /\ Len(o.set) \in Nat /\ DOMAIN o.set = 1..Len(o.set)
    BY ListPlaces DEF Askable
  <1>7. DOMAIN got \subseteq 1..Len(conf)
    <2>1. DOMAIN keys \subseteq DOMAIN conf
      BY DEF ParseCTPConf, RestrictValues, Restrict
    <2> HIDE DEF keys
    <2> QED BY <1>6, <2>1
  <1>8. ASSUME NEW i \in DOMAIN got
        PROVE  {"key", "value"} \subseteq DOMAIN got[i]
    OBVIOUS
  <1>9. ASSUME NEW i \in DOMAIN shifted
        PROVE  i \in 1..N /\ {"key", "value"} \subseteq DOMAIN shifted[i]
    <2>1. PICK j \in DOMAIN o.set : i = Len(conf) + j
      OBVIOUS
    <2>2. shifted[i] = o.set[j]
      BY <1>6, <2>1
    <2>3. {"key", "value"} \subseteq DOMAIN o.set[j]
      BY DEF Askable
    <2>4. j \in 1..Len(o.set)
      BY <1>6
    <2>5. i \in 1..N
      BY <1>6, <2>1, <2>4, Shift
    <2> QED BY <2>2, <2>3, <2>5
  <1> HIDE DEF got, shifted, keys, conf
  <1>10. /\ DOMAIN full.set = DOMAIN got \cup DOMAIN shifted
         /\ \A i \in DOMAIN full.set : full.set[i] = IF i \in DOMAIN got THEN got[i] ELSE shifted[i]
    BY <1>5 DEF Over
  <1>11. DOMAIN full.set \subseteq 1..N /\ N \in Nat
    BY <1>6, <1>7, <1>9, <1>10
  <1>12. \A i \in DOMAIN full.set : {"key", "value"} \subseteq DOMAIN full.set[i]
    BY <1>8, <1>9, <1>10
  <1>13. /\ full.name = o.name /\ full.preset = o.preset /\ full.labels = o.labels
         /\ full.nodes = o.nodes /\ full.clients = o.clients
    BY <1>1, <1>4 DEF OptionFields
  <1>14. Refuses(full) <=> Refuses(w)
    <2>1. /\ full.preset = w.preset /\ full.nodes = w.nodes /\ full.network = w.network
          /\ full.ping = w.ping /\ full.clients = w.clients /\ full.clientCPUSet = w.clientCPUSet
          /\ full.clientImage = w.clientImage /\ full.set = w.set /\ full.hidden = w.hidden
          /\ full.brokerSet = w.brokerSet /\ full.withBroker = w.withBroker
      BY <1>4 DEF OptionFields
    <2>2. NodeCount(full) = NodeCount(w) /\ PresetOf(full) = PresetOf(w)
      BY <2>1 DEF NodeCount, PresetOf
    <2> QED BY <2>1, <2>2, Zenon DEF Refuses
  <1> QED BY <1>11, <1>12, <1>13, <1>14, <1>16 DEF full, w

\* What a create from options starts with.
LEMMA CreateFits ==
  ASSUME NEW o \in Options, NEW d \in Backends, ~Refusal(o)
  PROVE  LET full == Decided(WithConf(o, o.conf), d)
         IN /\ Fits(o.name, Resolve(full)) /\ full.backend \in Backends
            /\ Resolve(full).backend = full.backend /\ Labelled(Resolve(full), o.labels)
  <1> DEFINE full == Decided(WithConf(o, o.conf), d)
  <1>1. Askable(o)
    BY LifecycleAssumption
  <1>2. ~Refuses(WithConf(o, o.conf))
    BY DEF Refusal
  <1>3. /\ full.name = o.name /\ full.nodes = o.nodes /\ full.clients = o.clients
        /\ full.preset = o.preset /\ full.backend = backendFor(Unset, o.backend, d)
        /\ full.labels = o.labels
        /\ \E N \in Nat : DOMAIN full.set \subseteq 1..N
        /\ \A i \in DOMAIN full.set : {"key", "value"} \subseteq DOMAIN full.set[i]
        /\ ~Refuses(full)
    <2> HIDE DEF full
    <2> QED BY <1>1, <1>2, WithConfAsks, Zenon DEF full
  <1>4. o.nodes \in Int /\ o.clients \in Int
    BY <1>1 DEF Askable
  <1> HIDE DEF full
  <1>5. PICK N \in Nat : DOMAIN full.set \subseteq 1..N
    BY <1>3
  <1>7. /\ o.name \in Names /\ o.backend \in Backends \cup {Unset}
        /\ NodeCount(o) <= MaxNodes /\ o.clients <= MaxNodes
    BY LifecycleAssumption
  <1>8. full.backend \in Backends
    BY <1>3, <1>7 DEF backendFor
  <1>9. NodeCount(full) = NodeCount(o)
    BY <1>3 DEF NodeCount, PresetOf
  <1>6. Fits(full.name, Resolve(full))
    BY <1>3, <1>4, <1>5, <1>7, <1>8, <1>9, ResolveFits
  <1>10. Resolve(full).backend = full.backend /\ Labelled(Resolve(full), o.labels)
    BY <1>3, ResolveMeans, AssignedLabels
  <1> QED BY <1>3, <1>6, <1>8, <1>10 DEF full

-----------------------------------------------------------------------------
(* From an artifact.                                                       *)

\* Another machine's name in every node, and other labels, change no node's
\* kind and no parameter.
LEMMA HostedFits ==
  ASSUME NEW n, NEW a, Written(n, a), NEW here, NEW labels
  PROVE  LET t == Relabelled(Hosted(a, here), labels)
         IN /\ Written(n, t) /\ t.ha = a.ha /\ t.preset = a.preset /\ t.cluster = a.cluster
            /\ t.common = a.common
            /\ HAOff(t) <=> HAOff(a)
            /\ CanSpell(t) <=> CanSpell(a)
            /\ \A name : OptionsFrom(t, name) = OptionsFrom(a, name)
            /\ t.backend = a.backend /\ t.labels = Assigned(labels)
            /\ Placed(n, a) => Placed(n, t)
  <1> DEFINE h == Hosted(a, here)
             t == Relabelled(h, labels)
             hosted == [i \in DOMAIN a.nodes |-> [a.nodes[i] EXCEPT !.host = here]]
  <1>1. ArtifactFields \subseteq DOMAIN a
    BY DEF Written
  <1>2. /\ DOMAIN h = DOMAIN a /\ h.nodes = hosted
        /\ \A x \in ArtifactFields \ {"nodes"} : h[x] = a[x]
    BY <1>1 DEF Hosted, ArtifactFields
  <1> HIDE DEF h
  <1>3. /\ DOMAIN t = DOMAIN a
        /\ \A x \in ArtifactFields \ {"labels"} : t[x] = h[x]
        /\ t.labels = Assigned(labels)
    BY <1>1, <1>2 DEF Relabelled, ArtifactFields
  <1> HIDE DEF t
  <1>4. t.nodes = hosted
    BY <1>2, <1>3 DEF ArtifactFields
  <1>5. /\ t.ha = a.ha /\ t.preset = a.preset /\ t.cluster = a.cluster /\ t.common = a.common
        /\ t.haMode = a.haMode
    BY <1>2, <1>3 DEF ArtifactFields
  <1>6. HAOff(t) <=> HAOff(a)
    BY <1>5 DEF HAOff
  <1>7. ASSUME NEW i \in DOMAIN a.nodes
        PROVE  /\ hosted[i].name = a.nodes[i].name
               /\ {"name", "host"} \subseteq DOMAIN hosted[i] /\ hosted[i].name.of = n
    <2>1. {"name", "host"} \subseteq DOMAIN a.nodes[i] /\ a.nodes[i].name.of = n
      BY DEF Written
    <2>2. hosted[i] = [a.nodes[i] EXCEPT !.host = here]
      OBVIOUS
    <2> HIDE DEF hosted
    <2> QED BY <2>1, <2>2
  <1>8. DOMAIN hosted = DOMAIN a.nodes
    OBVIOUS
  <1>9. IsList(hosted)
    <2>1. Len(a.nodes) \in Nat /\ DOMAIN a.nodes = 1..Len(a.nodes)
      BY ListPlaces DEF Written
    <2>2. hosted \in [1..Len(a.nodes) -> Range(hosted)]
      BY <2>1 DEF Range
    <2>3. hosted \in Seq(Range(hosted))
      <3> HIDE DEF hosted
      <3> QED BY <2>1, <2>2
    <2> QED BY <2>3 DEF IsList
  <1> HIDE DEF hosted
  <1>10. Written(n, t)
    <2>1. a.cluster = n /\ (a.preset = "single" \/ HAOff(a) => DOMAIN a.ha = {}) /\ Shouted \notin DOMAIN a.common
      BY DEF Written
    <2> QED BY <1>1, <1>3, <1>4, <1>5, <1>6, <1>7, <1>8, <1>9, <2>1 DEF Written
  <1> DEFINE KindAt(x, i) == x.nodes[i].name.kind
  <1>11. DOMAIN t.nodes = DOMAIN a.nodes /\ \A i \in DOMAIN a.nodes : KindAt(t, i) = KindAt(a, i)
    BY <1>4, <1>7, <1>8
  <1>12. /\ \A x : DOMAIN DBNodes(x) = {i \in DOMAIN x.nodes : KindAt(x, i) # "client"}
         /\ \A x : DOMAIN Clients(x) = {i \in DOMAIN x.nodes : KindAt(x, i) = "client"}
    BY DBPlaces, ClientPlaces DEF KindAt
  <1> HIDE DEF KindAt
  <1>13. Count(DBNodes(t)) = Count(DBNodes(a))
    <2>1. DOMAIN DBNodes(t) = DOMAIN DBNodes(a)
      <3>1. DOMAIN DBNodes(t) = {i \in DOMAIN t.nodes : KindAt(t, i) # "client"}
        BY <1>12
      <3>2. DOMAIN DBNodes(a) = {i \in DOMAIN a.nodes : KindAt(a, i) # "client"}
        BY <1>12
      <3> QED BY <1>11, <3>1, <3>2
    <2> QED BY <2>1 DEF Count
  <1>14. Count(Clients(t)) = Count(Clients(a))
    <2>1. DOMAIN Clients(t) = DOMAIN Clients(a)
      <3>1. DOMAIN Clients(t) = {i \in DOMAIN t.nodes : KindAt(t, i) = "client"}
        BY <1>12
      <3>2. DOMAIN Clients(a) = {i \in DOMAIN a.nodes : KindAt(a, i) = "client"}
        BY <1>12
      <3> QED BY <1>11, <3>1, <3>2
    <2> QED BY <2>1 DEF Count
  <1>15. CanSpell(t) <=> CanSpell(a)
    BY <1>5, <1>13 DEF CanSpell
  <1>16. \A name : OptionsFrom(t, name) = OptionsFrom(a, name)
    <2>1. /\ t.ping = a.ping /\ t.withBroker = a.withBroker /\ t.tools = a.tools
          /\ t.clientImage = a.clientImage /\ t.clientCPUSet = a.clientCPUSet
      BY <1>2, <1>3 DEF ArtifactFields
    <2> QED BY <1>5, <1>13, <1>14, <2>1 DEF OptionsFrom
  <1>17. t.backend = a.backend
    BY <1>2, <1>3 DEF ArtifactFields
  <1>18. Placed(n, a) => Placed(n, t)
    BY <1>4, <1>7, <1>8, <1>13, <1>14, <1>17 DEF Placed
  <1> QED BY <1>3, <1>5, <1>6, <1>10, <1>15, <1>16, <1>17, <1>18 DEF t, h

\* A rename resolves the derived fields anew and carries the parameters.
LEMMA RenamedFits ==
  ASSUME NEW n, NEW t, Written(n, t), NEW name, Renames(t, name),
         ~Refuses(OptionsFrom(t, name)), CanSpell(t), name \in Names, Placed(n, t)
  PROVE  LET r == Renamed(t, name)
         IN Written(name, r) /\ CanSpell(r) /\ Placed(name, r) /\ DOMAIN r.labels = {}
  <1> DEFINE o == OptionsFrom(t, name)
             q == Resolve(o)
             r == Renamed(t, name)
  <1>1. /\ o.name = name /\ o.preset = t.preset
        /\ o.nodes = Count(DBNodes(t)) /\ o.clients = Count(Clients(t))
        /\ o.backend = Unset
    BY DEF OptionsFrom
  <1>2. IsList(t.nodes)
    BY DEF Written
  <1>3. o.nodes \in Int /\ o.clients \in Int
    BY <1>1, <1>2, CountedByKind
  <1> HIDE DEF o
  <1>4. /\ IsList(q.nodes)
        /\ \A i \in DOMAIN q.nodes : {"name", "host"} \subseteq DOMAIN q.nodes[i] /\ q.nodes[i].name.of = o.name
        /\ Count(DBNodes(q)) = NodeCount(o) /\ NodeCount(o) \in Nat
    BY <1>3, ResolveNodes DEF o
  <1>5. /\ DOMAIN q = ArtifactFields /\ q.cluster = o.name /\ q.preset = PresetOf(o)
        /\ HAOff(q) <=> PresetOf(o) = "single"
    BY ResolveFields
  <1>6. r = [q EXCEPT !.common = t.common, !.ha = t.ha, !.hidden = t.hidden,
                      !.unverified = t.unverified, !.broker = t.broker]
    BY DEF Renamed, o
  <1> HIDE DEF q, r
  <1>7. /\ DOMAIN r = ArtifactFields /\ r.common = t.common /\ r.ha = t.ha
        /\ r.nodes = q.nodes /\ r.cluster = name /\ r.preset = PresetOf(o) /\ r.haMode = q.haMode
        /\ r.backend = q.backend /\ r.labels = q.labels
    BY <1>1, <1>5, <1>6 DEF ArtifactFields
  <1>8. PresetOf(o) = "single" => DOMAIN r.ha = {}
    <2>1. PresetOf(o) = "single" => t.preset = "single"
      BY <1>1 DEF PresetOf
    <2>2. t.preset = "single" => DOMAIN t.ha = {}
      BY DEF Written
    <2> QED BY <1>7, <2>1, <2>2
  <1>9. Written(name, r)
    <2>1. HAOff(r) <=> PresetOf(o) = "single"
      BY <1>5, <1>7 DEF HAOff
    <2>2. Shouted \notin DOMAIN r.common
      BY <1>7 DEF Written
    <2>3. /\ IsList(r.nodes)
          /\ \A i \in DOMAIN r.nodes : {"name", "host"} \subseteq DOMAIN r.nodes[i] /\ r.nodes[i].name.of = name
      BY <1>1, <1>4, <1>7
    <2> QED BY <1>7, <1>8, <2>1, <2>2, <2>3 DEF Written
  <1>10. CanSpell(r)
    <2>1. SUFFICES ASSUME perNodeKey \in DOMAIN t.ha
                   PROVE  Spellable(t.ha[perNodeKey], Count(DBNodes(r)))
      BY <1>7 DEF CanSpell
    <2>2. Spellable(t.ha[perNodeKey], Count(DBNodes(t)))
      BY <2>1 DEF CanSpell
    <2>3. Count(DBNodes(r)) = NodeCount(o)
      <3>1. DBNodes(r) = DBNodes(q)
        BY <1>7 DEF DBNodes
      <3> QED BY <1>4, <3>1
    <2>4. CASE Bare(t.ha[perNodeKey])
      BY <2>4 DEF Spellable
    <2>5. CASE ~Bare(t.ha[perNodeKey])
      <3>1. /\ t.ha[perNodeKey].entries # <<>>
            /\ Len(t.ha[perNodeKey].entries) = Count(DBNodes(t))
        BY <2>2, <2>5 DEF Spellable
      <3>2. CASE o.nodes # 0
        <4>1. NodeCount(o) = Count(DBNodes(t))
          BY <1>1, <3>2 DEF NodeCount
        <4> QED BY <2>2, <2>3, <4>1
      <3>3. CASE o.nodes = 0
        BY <1>1, <3>1, <3>3
      <3> QED BY <3>2, <3>3
    <2> QED BY <2>4, <2>5
  <1>11. Placed(name, r)
    <2>1. /\ Count(DBNodes(t)) \in Nat /\ Count(Clients(t)) \in Nat
          /\ Count(DBNodes(t)) <= MaxNodes /\ Count(Clients(t)) <= MaxNodes
      BY <1>2, CountedByKind DEF Placed
    <2>2. MaxNodes \in Nat /\ MaxNodes >= 2
      BY LifecycleAssumption
    <2>3. NodeCount(o) <= MaxNodes /\ o.clients <= MaxNodes
      BY <1>1, <2>1, <2>2 DEF NodeCount
    <2>4. Placed(name, q)
      <3>1. ~Refuses(o)
        BY DEF o
      <3>2. Placed(o.name, Resolve(o))
        BY <1>1, <1>3, <2>3, <3>1, ResolvePlaced
      <3> QED BY <1>1, <3>2 DEF q
    <2> QED BY <1>7, <2>4, PlacedAlike
  <1>12. DOMAIN r.labels = {}
    <2>1. q.labels = Assigned(<<>>)
      <3>1. o.labels = <<>>
        BY DEF o, OptionsFrom
      <3> QED BY <3>1, ResolveMeans DEF q
    <2>2. DOMAIN Assigned(<<>>) = {}
      BY DEF Assigned, KeysOf
    <2> QED BY <1>7, <2>1, <2>2
  <1> QED BY <1>9, <1>10, <1>11, <1>12 DEF r

\* Spelled for its nodes, a topology that can be is one the assembly builds.
LEMMA SpellFits ==
  ASSUME NEW n, NEW t, Written(n, t), CanSpell(t), Placed(n, t)
  PROVE  /\ Fits(n, SpellPerNode(t)) /\ SpellPerNode(t).backend = t.backend
         /\ SpellPerNode(t).labels = t.labels
  <1>1. CASE perNodeKey \notin DOMAIN t.ha
    BY <1>1 DEF SpellPerNode, Fits, SpeltOut
  <1>2. CASE perNodeKey \in DOMAIN t.ha
    <2> DEFINE k == Count(DBNodes(t))
               v == PerNode(t.ha[perNodeKey], k)
               ha == [t.ha EXCEPT ![perNodeKey] = v]
               s == SpellPerNode(t)
    <2>1. k \in Nat /\ Len(v.entries) = k
      <3>1. k \in Nat
        BY CountedByKind DEF Written
      <3>2. Spellable(t.ha[perNodeKey], k)
        BY <1>2 DEF CanSpell
      <3> HIDE DEF k
      <3> QED BY <3>1, <3>2, PerNodeSpells
    <2>2. s = [t EXCEPT !.ha = ha]
      BY <1>2 DEF SpellPerNode
    <2>3. ArtifactFields \subseteq DOMAIN t
      BY DEF Written
    <2>4. DOMAIN ha = DOMAIN t.ha /\ ha[perNodeKey] = v
      BY <1>2
    <2> HIDE DEF s, k, v, ha
    <2>5. /\ DOMAIN s = DOMAIN t /\ s.ha = ha
          /\ \A x \in ArtifactFields \ {"ha"} : s[x] = t[x]
      BY <2>2, <2>3 DEF ArtifactFields
    <2>6. /\ s.nodes = t.nodes /\ s.cluster = t.cluster /\ s.preset = t.preset
          /\ s.haMode = t.haMode /\ s.common = t.common /\ s.backend = t.backend
          /\ s.labels = t.labels
      BY <2>5 DEF ArtifactFields
    <2>7. Count(DBNodes(s)) = k
      BY <2>6 DEF DBNodes, k
    <2>8. SpeltOut(s)
      BY <2>1, <2>4, <2>5, <2>7 DEF SpeltOut
    <2>9. HAOff(s) <=> HAOff(t)
      BY <2>6 DEF HAOff
    <2>10. Written(n, s)
      BY <2>3, <2>4, <2>5, <2>6, <2>9 DEF Written
    <2>11. Placed(n, s)
      BY <2>6, PlacedAlike
    <2> QED BY <2>6, <2>8, <2>10, <2>11 DEF Fits, s
  <1> QED BY <1>1, <1>2

\* What a create --from starts with.
LEMMA FromArtifactFits ==
  ASSUME NEW n, NEW a, Written(n, a), Placed(n, a), NEW name \in Names \cup {Unset}, NEW labels, NEW here,
         Rebuildable(a, name)
  PROVE  LET t == FromArtifact(a, name, labels, here)
         IN /\ Fits(IF name = Unset THEN n ELSE name, t)
            /\ t.backend = Unset => Renames(a, name) \/ a.backend = Unset
            /\ Labelled(t, labels)
  <1> DEFINE h == Relabelled(Hosted(a, here), labels)
             r == Renamed(h, name)
             new == IF name = Unset THEN n ELSE name
  <1>1. /\ Written(n, h) /\ h.cluster = a.cluster
        /\ CanSpell(h) <=> CanSpell(a)
        /\ OptionsFrom(h, name) = OptionsFrom(a, name)
        /\ Placed(n, h) /\ h.backend = a.backend /\ h.labels = Assigned(labels)
    BY HostedFits
  <1>2. CanSpell(h) /\ (Renames(h, name) => ~Refuses(OptionsFrom(h, name)))
    <2>1. CanSpell(a) /\ (Renames(a, name) => ~Refuses(OptionsFrom(a, name)))
      BY DEF Rebuildable
    <2> HIDE DEF h
    <2>2. Renames(h, name) <=> Renames(a, name)
      BY <1>1 DEF Renames
    <2> QED BY <1>1, <2>1, <2>2
  <1>3. n = a.cluster
    BY DEF Written
  <1> HIDE DEF h
  <1>4. /\ Written(new, r) /\ CanSpell(r) /\ Placed(new, r) /\ Labelled(r, labels)
        /\ r.backend = Unset => Renames(a, name) \/ a.backend = Unset
    <2>1. CASE Renames(h, name)
      <3>1. new = name /\ name \in Names
        BY <2>1 DEF Renames
      <3> HIDE DEF new
      <3>2. Written(name, r) /\ CanSpell(r) /\ Placed(name, r) /\ DOMAIN r.labels = {}
        BY <1>1, <1>2, <2>1, <3>1, RenamedFits
      <3>3. Renames(a, name)
        BY <1>1, <2>1 DEF Renames
      <3> QED BY <3>1, <3>2, <3>3 DEF Labelled
    <2>2. CASE ~Renames(h, name)
      <3>1. r = h
        BY <2>2 DEF Renamed
      <3>2. new = n
        BY <1>1, <1>3, <2>2 DEF Renames
      <3>3. Labelled(r, labels)
        BY <1>1, <3>1, AssignedLabels
      <3> QED BY <1>1, <1>2, <3>1, <3>2, <3>3
    <2> QED BY <2>1, <2>2
  <1>5. FromArtifact(a, name, labels, here) = SpellPerNode(r)
    BY DEF FromArtifact, h
  <1> HIDE DEF r, new
  <1>6. /\ Fits(new, SpellPerNode(r)) /\ SpellPerNode(r).backend = r.backend
        /\ SpellPerNode(r).labels = r.labels
    BY <1>4, SpellFits
  <1>7. Labelled(SpellPerNode(r), labels)
    BY <1>4, <1>6 DEF Labelled
  <1> QED BY <1>4, <1>5, <1>6, <1>7 DEF new

-----------------------------------------------------------------------------
(* The commands.  What a command holds is what its next steps need: a      *)
(* create the artifact it is to write, and then the nodes it is to make, a *)
(* destroy the clusters that are left, a reader the nodes to read.         *)

Building == {"image", "store", "network", "describe", "snapshot"}
Removing == {"rm", "empty", "purge"}
Given == {"n", "t", "on", "rec", "left", "then", "nodes", "labels", "renamed", "old"}
Needs == Building \cup Removing \cup {"nodes", "harvest"}
NodesOf(n) == {x \in Nodes : x.of = n}
Meant(c) ==
  /\ IF c.t.backend = Unset THEN c.renamed \/ c.old ELSE c.on = c.t.backend
  /\ Labelled(c.t, c.labels)
HasArtifact(c) ==
  /\ {"n", "t", "on", "rec", "labels", "renamed", "old"} \subseteq DOMAIN c
  /\ Fits(c.n, c.t) /\ c.on \in Backends /\ c.rec \in Names /\ Meant(c)
HasNodes(c) ==
  {"n", "t", "on", "left"} \subseteq DOMAIN c /\ c.n \in Names /\ c.on \in Backends /\ c.left \in Seq(NodesOf(c.n))
HasClusters(c) ==
  {"n", "then", "on", "boxes", "kept"} \subseteq DOMAIN c /\ c.n \in Names /\ c.then \subseteq Names
HasLogs(c) == {"n", "nodes"} \subseteq DOMAIN c /\ c.n \in Names /\ c.nodes \in Seq(Nodes)
Holds(c) ==
  /\ "at" \in DOMAIN c
  /\ c.at \in Building => HasArtifact(c)
  /\ c.at = "nodes" => HasNodes(c)
  /\ c.at \in Removing => HasClusters(c)
  /\ c.at = "harvest" => HasLogs(c)
AllFit == \A n \in Names : describe[n].is => Fits(n, describe[n].v)
FitsInv ==
  /\ DOMAIN cmd = Processes /\ DOMAIN describe = Names
  /\ AllFit
  /\ \A p \in Processes : Holds(cmd[p])

\* The nodes of an artifact, by name.
LEMMA NamedNodes ==
  ASSUME NEW n, NEW t, Fits(n, t)
  PROVE  /\ NodeNames(t) \in Seq(NodesOf(n)) /\ NodeNames(t) \in Seq(Nodes)
         /\ Len(t.nodes) \in Nat /\ DOMAIN t.nodes = 1..Len(t.nodes)
  <1>1. Len(t.nodes) \in Nat /\ DOMAIN t.nodes = 1..Len(t.nodes)
    BY ListPlaces DEF Fits, Written
  <1>2. \A i \in DOMAIN t.nodes : t.nodes[i].name \in NodesOf(n) /\ t.nodes[i].name \in Nodes
    BY DEF Fits, Written, Placed, NodesOf
  <1>3. NodeNames(t) \in [1..Len(t.nodes) -> NodesOf(n)] /\ NodeNames(t) \in [1..Len(t.nodes) -> Nodes]
    BY <1>1, <1>2 DEF NodeNames
  <1> DEFINE s == NodeNames(t)
  <1> HIDE DEF s
  <1>4. s \in Seq(NodesOf(n)) /\ s \in Seq(Nodes)
    BY <1>1, <1>3 DEF s
  <1> QED BY <1>1, <1>4 DEF s

\* A command that is at none of these places holds nothing.
LEMMA NeedsNothing ==
  ASSUME NEW c, "at" \in DOMAIN c, c.at \notin Needs
  PROVE  Holds(c)
  BY DEF Holds, Needs

\* A command that has changed in other fields still holds what it held.
LEMMA StillHolds ==
  ASSUME NEW c, Holds(c), NEW d, DOMAIN c \subseteq DOMAIN d,
         \A x \in Given \cap DOMAIN c : d[x] = c[x],
         d.at \in Building => c.at \in Building,
         d.at \in Removing => c.at \in Removing,
         d.at \in {"nodes", "harvest"} => d.at = c.at
  PROVE  Holds(d)
  <1>1. "at" \in DOMAIN d
    BY DEF Holds
  <1>2. ASSUME d.at \in Building PROVE HasArtifact(d)
    BY <1>2 DEF Holds, HasArtifact, Meant, Given
  <1>3. ASSUME d.at = "nodes" PROVE HasNodes(d)
    BY <1>3 DEF Holds, HasNodes, Given
  <1>4. ASSUME d.at \in Removing PROVE HasClusters(d)
    BY <1>4 DEF Holds, HasClusters, Given
  <1>5. ASSUME d.at = "harvest" PROVE HasLogs(d)
    BY <1>5 DEF Holds, HasLogs, Given
  <1> QED BY <1>1, <1>2, <1>3, <1>4, <1>5 DEF Holds

\* One process's command changes, and no artifact.
LEMMA CommandChanges ==
  ASSUME FitsInv, NEW p \in Processes, NEW c, Holds(c), cmd' = [cmd EXCEPT ![p] = c], describe' = describe
  PROVE  FitsInv'
  <1>1. DOMAIN cmd' = Processes /\ DOMAIN describe' = Names /\ AllFit'
    BY DEF FitsInv, AllFit
  <1>2. ASSUME NEW q \in Processes
        PROVE  Holds(cmd'[q])
    <2>1. cmd'[q] = IF q = p THEN c ELSE cmd[q]
      BY DEF FitsInv
    <2> QED BY <2>1 DEF FitsInv
  <1>3. \A q \in Processes : Holds(cmd[q])'
    BY <1>2 DEF Holds, HasArtifact, HasNodes, HasClusters, HasLogs, Meant
  <1> QED BY <1>1, <1>3 DEF FitsInv

LEMMA NothingChanges ==
  ASSUME FitsInv, cmd' = cmd, describe' = describe
  PROVE  FitsInv'
  BY DEF FitsInv, AllFit, Holds, HasArtifact, HasNodes, HasClusters, HasLogs, Meant

\* A command goes on to its next step with what it has.
LEMMA GoesOn ==
  ASSUME FitsInv, NEW p \in Processes, NEW at, Go(p, at),
         at \in Building => cmd[p].at \in Building,
         at \in Removing => cmd[p].at \in Removing,
         at \notin {"nodes", "harvest"},
         describe' = describe
  PROVE  FitsInv'
  <1> DEFINE c == [cmd[p] EXCEPT !.at = at]
  <1>1. "at" \in DOMAIN cmd[p] /\ DOMAIN c = DOMAIN cmd[p] /\ c.at = at
    BY DEF FitsInv, Holds
  <1>2. \A x \in DOMAIN cmd[p] : x # "at" => c[x] = cmd[p][x]
    OBVIOUS
  <1>3. cmd' = [cmd EXCEPT ![p] = c]
    BY DEF Go
  <1> HIDE DEF c
  <1>4. \A x \in Given \cap DOMAIN cmd[p] : c[x] = cmd[p][x]
    BY <1>2 DEF Given
  <1>5. Holds(cmd[p])
    BY DEF FitsInv
  <1>6. Holds(c)
    BY <1>1, <1>4, <1>5, StillHolds
  <1> QED BY <1>3, <1>6, CommandChanges

LEMMA Answers ==
  ASSUME FitsInv, NEW p \in Processes, NEW out, Answer(p, out), describe' = describe
  PROVE  FitsInv'
  <1> DEFINE c == [at |-> "answered", out |-> out]
  <1>1. Holds(c)
    <2>1. "at" \in DOMAIN c /\ c.at \notin Needs
      BY DEF Needs, Building, Removing
    <2> HIDE DEF c
    <2> QED BY <2>1, NeedsNothing
  <1>2. cmd' = [cmd EXCEPT ![p] = c]
    BY DEF Answer
  <1> HIDE DEF c
  <1> QED BY <1>1, <1>2, CommandChanges

\* A command starts with what it is given.
LEMMA Enters ==
  ASSUME FitsInv, NEW p \in Processes, NEW verb, NEW c, Enter(p, verb, c), describe' = describe,
         Holds(c)
  PROVE  FitsInv'
  <1> DEFINE d == Over(c, [verb |-> verb])
  <1>1. \A x \in DOMAIN c : x \in DOMAIN d /\ d[x] = c[x]
    BY DEF Over
  <1>2. cmd' = [cmd EXCEPT ![p] = d]
    BY DEF Enter
  <1> HIDE DEF d
  <1>3. "at" \in DOMAIN c
    BY DEF Holds
  <1>4. Holds(d)
    BY <1>1, <1>3, StillHolds
  <1> QED BY <1>2, <1>4, CommandChanges

\* A command that has no more to do holds nothing.
LEMMA EntersOver ==
  ASSUME FitsInv, NEW p \in Processes, NEW verb, NEW c, Enter(p, verb, c), describe' = describe,
         "at" \in DOMAIN c, c.at \notin Needs
  PROVE  FitsInv'
  BY NeedsNothing, Enters

LEMMA RefusedIsOver == "at" \in DOMAIN Refused /\ Refused.at \notin Needs
  BY DEF Refused, Needs, Building, Removing

\* The record a command has, and the one dispatch writes to, are a cluster's.
LEMMA RecordsNamed ==
  ASSUME NEW session \in Names \cup {Unset}, NEW n \in Names
  PROVE  RecordOf(session, n) \in Names
  BY DEF RecordOf

LEMMA CreateKeeps ==
  ASSUME FitsInv, NEW p \in Processes, Create(p)
  PROVE  FitsInv'
  <1>1. PICK o \in Options, d \in Backends :
          LET full == Decided(WithConf(o, o.conf), d)
          IN /\ Enter(p, "create", IF Refusal(o) THEN Refused
                                   ELSE [at |-> "image", n |-> o.name, t |-> Resolve(full), on |-> full.backend,
                                         rec |-> RecordOf(o.session, o.name),
                                         labels |-> o.labels, renamed |-> FALSE, old |-> FALSE])
             /\ describe' = describe
    BY DEF Create, SameArtifacts
  <1> DEFINE full == Decided(WithConf(o, o.conf), d)
             rec == RecordOf(o.session, o.name)
             c == [at |-> "image", n |-> o.name, t |-> Resolve(full), on |-> full.backend, rec |-> rec,
                   labels |-> o.labels, renamed |-> FALSE, old |-> FALSE]
  <1>2. CASE Refusal(o)
    BY <1>1, <1>2, EntersOver, RefusedIsOver
  <1>3. CASE ~Refusal(o)
    <2>1. /\ Fits(o.name, Resolve(full)) /\ full.backend \in Backends
          /\ Resolve(full).backend = full.backend /\ Labelled(Resolve(full), o.labels)
      BY <1>3, CreateFits
    <2>2. Enter(p, "create", c) /\ describe' = describe
      BY <1>1, <1>3
    <2>3. /\ DOMAIN c = {"at", "n", "t", "on", "rec", "labels", "renamed", "old"} /\ c.at = "image"
          /\ c.n = o.name /\ c.t = Resolve(full) /\ c.on = full.backend /\ c.rec = rec
          /\ c.labels = o.labels
      OBVIOUS
    <2>7. rec \in Names
      BY LifecycleAssumption, RecordsNamed DEF Session
    <2> HIDE DEF c, full, rec
    <2>6. Unset \notin Backends
      BY LifecycleAssumption
    <2>4. HasArtifact(c)
      BY <2>1, <2>3, <2>6, <2>7 DEF HasArtifact, Meant
    <2>5. Holds(c)
      BY <2>3, <2>4 DEF Holds, Removing
    <2> QED BY <2>2, <2>5, Enters
  <1> QED BY <1>2, <1>3

LEMMA CreateFromKeeps ==
  ASSUME FitsInv, NEW p \in Processes, CreateFrom(p)
  PROVE  FitsInv'
  <1>1. PICK f \in Rebuilds, a \in Artifacts, d \in Backends :
          LET t == FromArtifact(a, f.name, f.labels, f.host)
              n == IF f.name = Unset THEN a.cluster ELSE f.name
          IN /\ Enter(p, "create", IF ~Rebuildable(a, f.name) THEN Refused
                                   ELSE [at |-> "image", n |-> n, t |-> t,
                                         on |-> backendFor(t.backend, f.backend, d),
                                         rec |-> RecordOf(f.session, n),
                                         labels |-> f.labels, renamed |-> Renames(a, f.name),
                                         old |-> a.backend = Unset])
             /\ describe' = describe
    BY DEF CreateFrom, SameArtifacts
  <1> DEFINE t == FromArtifact(a, f.name, f.labels, f.host)
             n == IF f.name = Unset THEN a.cluster ELSE f.name
             on == backendFor(t.backend, f.backend, d)
             rec == RecordOf(f.session, n)
             renamed == Renames(a, f.name)
             old == a.backend = Unset
             c == [at |-> "image", n |-> n, t |-> t, on |-> on, rec |-> rec,
                   labels |-> f.labels, renamed |-> renamed, old |-> old]
  <1>2. Written(a.cluster, a) /\ Placed(a.cluster, a)
    <2>1. CASE a \in Attached
      BY <2>1, LifecycleAssumption
    <2>2. CASE a \notin Attached
      <3>1. PICK m \in Names : describe[m].is /\ a = describe[m].v
        BY <2>2 DEF Artifacts
      <3>2. Written(m, a) /\ Placed(m, a)
        BY <3>1 DEF FitsInv, AllFit, Fits
      <3>3. a.cluster = m
        BY <3>2 DEF Written
      <3> QED BY <3>2, <3>3
    <2> QED BY <2>1, <2>2
  <1>5. f.name \in Names \cup {Unset} /\ f.backend \in Backends \cup {Unset}
    BY LifecycleAssumption
  <1>3. CASE ~Rebuildable(a, f.name)
    BY <1>1, <1>3, EntersOver, RefusedIsOver
  <1>4. CASE Rebuildable(a, f.name)
    <2>1. Fits(n, t) /\ (t.backend = Unset => renamed \/ old) /\ Labelled(t, f.labels)
      BY <1>2, <1>4, <1>5, FromArtifactFits
    <2>2. Enter(p, "create", c) /\ describe' = describe
      BY <1>1, <1>4
    <2> HIDE DEF n, t, renamed, old
    <2>8. rec \in Names
      <3>1. n \in Names
        BY <2>1 DEF Fits, Placed
      <3> QED BY <3>1, LifecycleAssumption, RecordsNamed DEF Session
    <2> HIDE DEF rec
    <2>4. on \in Backends
      <3>1. t.backend \in Backends \cup {Unset}
        BY <2>1 DEF Fits, Placed
      <3> QED BY <1>5, <3>1 DEF backendFor
    <2>7. t.backend # Unset => on = t.backend
      BY DEF backendFor
    <2> HIDE DEF on
    <2>3. /\ DOMAIN c = {"at", "n", "t", "on", "rec", "labels", "renamed", "old"} /\ c.at = "image"
          /\ c.n = n /\ c.t = t /\ c.on = on /\ c.rec = rec
          /\ c.labels = f.labels /\ c.renamed = renamed /\ c.old = old
      OBVIOUS
    <2> HIDE DEF c
    <2>5. HasArtifact(c)
      BY <2>1, <2>3, <2>4, <2>7, <2>8 DEF HasArtifact, Meant
    <2>6. Holds(c)
      BY <2>3, <2>5 DEF Holds, Removing
    <2> QED BY <2>2, <2>6, Enters
  <1> QED BY <1>3, <1>4

\* What a destroy starts with, for the cluster it names or the first it found.
LEMMA RemovesHolds ==
  ASSUME NEW n \in Names, NEW d, NEW x, NEW S \in SUBSET Names,
         {"at", "then"} \subseteq DOMAIN x, x.at = "rm", x.then = S
  PROVE  Holds(Over(ToRemove(n, d), x))
  <1> DEFINE r == ToRemove(n, d)
             c == Over(r, x)
  <1>1. DOMAIN r = {"n", "on", "boxes", "kept"} /\ r.n = n
    BY DEF ToRemove
  <1> HIDE DEF r
  <1>2. /\ {"at", "n", "then", "on", "boxes", "kept"} \subseteq DOMAIN c
        /\ c.at = "rm" /\ c.n = n /\ c.then = S
    BY <1>1 DEF Over
  <1> HIDE DEF c
  <1>3. HasClusters(c)
    BY <1>2 DEF HasClusters
  <1>4. Holds(c)
    BY <1>2, <1>3 DEF Holds, Building
  <1> QED BY <1>4 DEF c, r

LEMMA DestroyKeeps ==
  ASSUME FitsInv, dir \subseteq Names, NEW p \in Processes, Destroy(p) \/ DestroyByLabel(p)
  PROVE  FitsInv'
  <1>1. CASE Destroy(p)
    <2>1. PICK n \in Names, purge \in BOOLEAN, d \in Backends :
            /\ Enter(p, "destroy", Over(ToRemove(n, d),
                       [at |-> "rm", purge |-> purge, then |-> {}, env |-> Unset, sel |-> Nil]))
            /\ describe' = describe
      BY <1>1 DEF Destroy, SameArtifacts
    <2> DEFINE x == [at |-> "rm", purge |-> purge, then |-> {}, env |-> Unset, sel |-> Nil]
    <2>2. {"at", "then"} \subseteq DOMAIN x /\ x.at = "rm" /\ x.then = {}
      OBVIOUS
    <2> HIDE DEF x
    <2>3. Holds(Over(ToRemove(n, d), x))
      BY <2>2, RemovesHolds
    <2>4. Enter(p, "destroy", Over(ToRemove(n, d), x)) /\ describe' = describe
      BY <2>1 DEF x
    <2> QED BY <2>3, <2>4, Enters
  <1>2. CASE DestroyByLabel(p)
    <2>1. PICK s \in Selectors, purge \in BOOLEAN, d \in Backends :
            LET hits == IF s.session = Unset THEN Hits(s) ELSE {}
                n == CHOOSE n \in hits : TRUE
            IN /\ Enter(p, "destroy", IF hits = {} THEN Refused
                                      ELSE Over(ToRemove(n, d),
                                        [at |-> "rm", purge |-> purge, then |-> hits \ {n},
                                         env |-> IF hits = {n} THEN Unset ELSE d, sel |-> Just(s)]))
               /\ describe' = describe
      BY <1>2 DEF DestroyByLabel, SameArtifacts
    <2> DEFINE hits == IF s.session = Unset THEN Hits(s) ELSE {}
               n == CHOOSE n \in hits : TRUE
               x == [at |-> "rm", purge |-> purge, then |-> hits \ {n},
                     env |-> IF hits = {n} THEN Unset ELSE d, sel |-> Just(s)]
    <2>2. CASE hits = {}
      BY <2>1, <2>2, EntersOver, RefusedIsOver
    <2>3. CASE hits # {}
      <3>1. hits \subseteq Names
        BY DEF Hits
      <3>2. n \in hits
        BY <2>3
      <3>3. Enter(p, "destroy", Over(ToRemove(n, d), x)) /\ describe' = describe
        BY <2>1, <2>3
      <3> HIDE DEF n, hits
      <3>4. {"at", "then"} \subseteq DOMAIN x /\ x.at = "rm" /\ x.then = hits \ {n}
        OBVIOUS
      <3> HIDE DEF x
      <3>5. Holds(Over(ToRemove(n, d), x))
        BY <3>1, <3>2, <3>4, RemovesHolds
      <3> QED BY <3>3, <3>5, Enters
    <2> QED BY <2>2, <2>3
  <1> QED BY <1>1, <1>2

\* A reader that can load the cluster has its nodes to read.
LEMMA ShowKeeps ==
  ASSUME FitsInv, dir \subseteq Names, NEW p \in Processes, Show(p)
  PROVE  FitsInv'
  <1>1. PICK n \in dir :
          /\ Enter(p, "show", IF describe[n].is
                              THEN [at |-> "harvest", n |-> n, nodes |-> NodeNames(describe[n].v)]
                              ELSE [at |-> "read", n |-> n])
          /\ describe' = describe
    BY DEF Show, SameArtifacts
  <1>2. CASE describe[n].is
    <2> DEFINE c == [at |-> "harvest", n |-> n, nodes |-> NodeNames(describe[n].v)]
    <2>1. DOMAIN c = {"at", "n", "nodes"} /\ c.at = "harvest" /\ c.n = n /\ c.nodes = NodeNames(describe[n].v)
      OBVIOUS
    <2>2. Enter(p, "show", c) /\ describe' = describe
      BY <1>1, <1>2
    <2>3. n \in Names /\ Fits(n, describe[n].v)
      BY <1>2 DEF FitsInv, AllFit
    <2>4. NodeNames(describe[n].v) \in Seq(Nodes)
      BY <2>3, NamedNodes
    <2> HIDE DEF c
    <2>5. HasLogs(c)
      BY <2>1, <2>3, <2>4 DEF HasLogs
    <2>6. Holds(c)
      BY <2>1, <2>5 DEF Holds, Building, Removing
    <2> QED BY <2>2, <2>6, Enters
  <1>3. CASE ~describe[n].is
    <2> DEFINE c == [at |-> "read", n |-> n]
    <2>1. "at" \in DOMAIN c /\ c.at \notin Needs
      BY DEF Needs, Building, Removing
    <2>2. Enter(p, "show", c) /\ describe' = describe
      BY <1>1, <1>3
    <2> HIDE DEF c
    <2> QED BY <2>1, <2>2, EntersOver
  <1> QED BY <1>2, <1>3

LEMMA CommandsKeep ==
  ASSUME FitsInv, dir \subseteq Names, NEW p \in Processes, Command(p)
  PROVE  FitsInv'
  <1>1. ASSUME NEW verb, NEW out, Enter(p, verb, [at |-> "answered", out |-> out]), describe' = describe
        PROVE  FitsInv'
    <2> DEFINE c == [at |-> "answered", out |-> out]
    <2>1. "at" \in DOMAIN c /\ c.at \notin Needs
      BY DEF Needs, Building, Removing
    <2>2. Enter(p, verb, c)
      BY <1>1
    <2> HIDE DEF c
    <2> QED BY <1>1, <2>1, <2>2, EntersOver
  <1>2. CASE Up(p)
    <2>1. PICK out : Enter(p, "up", [at |-> "answered", out |-> out]) /\ describe' = describe
      BY <1>2 DEF Up, SameArtifacts
    <2> QED BY <1>1, <2>1
  <1>3. CASE Act(p)
    <2>1. Enter(p, "act", [at |-> "answered", out |-> "done"]) /\ describe' = describe
      BY <1>3 DEF Act, SameArtifacts
    <2> QED BY <1>1, <2>1
  <1> QED BY <1>2, <1>3, CreateKeeps, CreateFromKeeps, DestroyKeeps, ShowKeeps DEF Command

-----------------------------------------------------------------------------
(* The steps.                                                              *)

\* Something other than the place changes in a command.
LEMMA StaysThere ==
  ASSUME FitsInv, NEW p \in Processes, NEW c, cmd' = [cmd EXCEPT ![p] = c], describe' = describe,
         "at" \in DOMAIN c, c.at \notin Needs
  PROVE  FitsInv'
  BY CommandChanges, NeedsNothing

\* The one step that writes an artifact writes the one its create holds.
LEMMA WriteDescribeKeeps ==
  ASSUME FitsInv, NEW p \in Processes, WriteDescribe(p)
  PROVE  FitsInv'
  <1> DEFINE c == cmd[p]
  <1>1. /\ c.at = "describe" /\ Go(p, "snapshot")
        /\ describe' = [describe EXCEPT ![c.n] = Just(c.t)]
    BY DEF WriteDescribe, Is
  <1>2. Fits(c.n, c.t)
    BY <1>1 DEF FitsInv, Holds, Building, HasArtifact
  <1>3. /\ DOMAIN describe' = Names
        /\ \A n \in Names : describe'[n] = IF n = c.n THEN Just(c.t) ELSE describe[n]
    BY <1>1 DEF FitsInv
  <1>4. AllFit'
    <2> HIDE DEF c
    <2>1. Just(c.t).v = c.t
      BY DEF Just
    <2> QED BY <1>2, <1>3, <2>1 DEF FitsInv, AllFit
  <1>5. DOMAIN cmd' = Processes /\ \A q \in Processes : Holds(cmd'[q])
    <2> DEFINE d == [c EXCEPT !.at = "snapshot"]
    <2>1. Holds(c)
      BY DEF FitsInv
    <2>2. cmd' = [cmd EXCEPT ![p] = d]
      BY <1>1 DEF Go
    <2>3. \A q \in Processes : cmd'[q] = IF q = p THEN d ELSE cmd[q]
      BY <2>2 DEF FitsInv
    <2> HIDE DEF c
    <2>4. DOMAIN d = DOMAIN c /\ d.at = "snapshot" /\ \A x \in DOMAIN c : x # "at" => d[x] = c[x]
      BY <2>1 DEF Holds
    <2> HIDE DEF d
    <2>5. \A x \in Given \cap DOMAIN c : d[x] = c[x]
      BY <2>4 DEF Given
    <2>6. c.at \in Building /\ d.at \notin Removing /\ d.at \notin {"nodes", "harvest"}
      BY <1>1, <2>4 DEF Building, Removing
    <2>7. Holds(d)
      BY <2>1, <2>4, <2>5, <2>6, StillHolds
    <2> QED BY <2>2, <2>3, <2>7 DEF FitsInv
  <1>6. \A q \in Processes : Holds(cmd[q])'
    BY <1>5 DEF Holds, HasArtifact, HasNodes, HasClusters, HasLogs, Meant
  <1> QED BY <1>3, <1>4, <1>5, <1>6 DEF FitsInv

\* The artifact a create holds gives it the nodes to make.
LEMMA SnapshotKeeps ==
  ASSUME FitsInv, NEW p \in Processes, SnapshotDescribe(p)
  PROVE  FitsInv'
  <1> DEFINE c == cmd[p]
             x == [at |-> "nodes", left |-> NodeNames(c.t)]
             d == Over(x, c)
  <1>1. c.at = "snapshot" /\ describe' = describe /\ cmd' = [cmd EXCEPT ![p] = d]
    BY DEF SnapshotDescribe, Is
  <1>2. HasArtifact(c)
    BY <1>1 DEF FitsInv, Holds, Building
  <1> HIDE DEF c
  <1>3. NodeNames(c.t) \in Seq(NodesOf(c.n)) /\ c.n \in Names
    BY <1>2, NamedNodes DEF HasArtifact, Fits, Placed
  <1>4. DOMAIN x = {"at", "left"} /\ x.at = "nodes" /\ x.left = NodeNames(c.t)
    OBVIOUS
  <1> HIDE DEF x
  <1>5. /\ {"n", "t", "on", "left", "at"} \subseteq DOMAIN d
        /\ d.at = "nodes" /\ d.left = NodeNames(c.t) /\ d.n = c.n /\ d.on = c.on
    BY <1>2, <1>4 DEF Over, HasArtifact
  <1> HIDE DEF d
  <1>6. HasNodes(d)
    BY <1>2, <1>3, <1>5 DEF HasNodes, HasArtifact
  <1>7. Holds(d)
    BY <1>5, <1>6 DEF Holds, Building, Removing
  <1> QED BY <1>1, <1>7, CommandChanges

\* One node after another.
LEMMA CreateNodeKeeps ==
  ASSUME FitsInv, NEW p \in Processes, CreateNode(p)
  PROVE  FitsInv'
  <1>1. /\ cmd[p].at = "nodes" /\ cmd[p].left # <<>> /\ describe' = describe
        /\ cmd' = [cmd EXCEPT ![p].left = Tail(@)] \/ Answer(p, "failed")
    BY DEF CreateNode, Is
  <1>2. CASE cmd' = [cmd EXCEPT ![p].left = Tail(@)]
    <2> DEFINE c == cmd[p]
               d == [c EXCEPT !.left = Tail(@)]
    <2>1. cmd' = [cmd EXCEPT ![p] = d]
      BY <1>2
    <2>2. HasNodes(c) /\ "at" \in DOMAIN c /\ c.at = "nodes" /\ c.left # <<>>
      BY <1>1 DEF FitsInv, Holds
    <2> HIDE DEF c
    <2>3. /\ DOMAIN d = DOMAIN c /\ d.left = Tail(c.left)
          /\ \A x \in DOMAIN c : x # "left" => d[x] = c[x]
      BY <2>2 DEF HasNodes
    <2> HIDE DEF d
    <2>4. Tail(c.left) \in Seq(NodesOf(c.n))
      BY <2>2 DEF HasNodes
    <2>5. {"n", "t", "on", "left"} \subseteq DOMAIN d /\ d.n = c.n /\ d.on = c.on /\ d.at = "nodes"
      BY <2>2, <2>3 DEF HasNodes
    <2>6. HasNodes(d)
      BY <2>2, <2>3, <2>4, <2>5 DEF HasNodes
    <2>7. Holds(d)
      BY <2>2, <2>3, <2>5, <2>6 DEF Holds, Building, Removing
    <2> QED BY <1>1, <2>1, <2>7, CommandChanges
  <1> QED BY <1>1, <1>2, Answers

LEMMA CreateStepsKeep ==
  ASSUME FitsInv, NEW p \in Processes,
         Image(p) \/ EnsureCluster(p) \/ EnsureNetwork(p) \/ NowhereToWrite(p) \/ Assemble(p)
  PROVE  FitsInv'
  <1>1. CASE Image(p)
    <2>1. /\ cmd[p].at = "image" /\ describe' = describe
          /\ Go(p, "store") \/ Answer(p, "unusable")
      BY <1>1 DEF Image, Is, SameDisk, diskVars
    <2>2. cmd[p].at \in Building /\ "store" \notin Removing
      BY <2>1 DEF Building, Removing
    <2> QED BY <2>1, <2>2, GoesOn, Answers
  <1>2. CASE EnsureCluster(p)
    <2>1. cmd[p].at = "store" /\ describe' = describe /\ Go(p, "network")
      BY <1>2 DEF EnsureCluster, Is, SameArtifacts
    <2>2. cmd[p].at \in Building /\ "network" \notin Removing
      BY <2>1 DEF Building, Removing
    <2> QED BY <2>1, <2>2, GoesOn
  <1>3. CASE EnsureNetwork(p)
    <2>1. /\ cmd[p].at = "network" /\ describe' = describe
          /\ Go(p, "describe") \/ Answer(p, "failed")
      BY <1>3 DEF EnsureNetwork, Is, SameDisk, diskVars
    <2>2. cmd[p].at \in Building /\ "describe" \notin Removing
      BY <2>1 DEF Building, Removing
    <2> QED BY <2>1, <2>2, GoesOn, Answers
  <1>4. CASE NowhereToWrite(p)
    <2>1. Answer(p, "failed") /\ describe' = describe
      BY <1>4 DEF NowhereToWrite, SameDisk, diskVars
    <2> QED BY <2>1, Answers
  <1>5. CASE Assemble(p)
    <2>1. PICK out : Answer(p, out) /\ describe' = describe
      BY <1>5 DEF Assemble, SameDisk, diskVars
    <2> QED BY <2>1, Answers
  <1> QED BY <1>1, <1>2, <1>3, <1>4, <1>5

\* A destroy changes an artifact only in Purged, which leaves none, and goes
\* on to a cluster that was left to it.
LEMMA PurgeKeeps ==
  ASSUME FitsInv, NEW p \in Processes, Purge(p)
  PROVE  FitsInv'
  <1> DEFINE c == cmd[p]
             n == CHOOSE n \in c.then : TRUE
             x == [at |-> "rm", then |-> c.then \ {n}]
             d == Over(x, Over(ToRemove(n, c.env), c))
  <1>1. /\ c.at = "purge"
        /\ IF c.then = {} THEN Answer(p, "removed") ELSE cmd' = [cmd EXCEPT ![p] = d]
        /\ describe' = describe \/ \E m : describe' = [describe EXCEPT ![m] = Nil]
    <2>1. describe' = describe \/ \E m : describe' = [describe EXCEPT ![m] = Nil]
      BY DEF Purge, Purged, SameDisk, diskVars
    <2>2. c.at = "purge" /\ IF c.then = {} THEN Answer(p, "removed") ELSE cmd' = [cmd EXCEPT ![p] = d]
      BY DEF Purge, Is
    <2> QED BY <2>1, <2>2
  <1>2. \E u : Holds(u) /\ cmd' = [cmd EXCEPT ![p] = u]
    <2>1. CASE c.then = {}
      <3> DEFINE u == [at |-> "answered", out |-> "removed"]
      <3>1. "at" \in DOMAIN u /\ u.at \notin Needs
        BY DEF Needs, Building, Removing
      <3>2. cmd' = [cmd EXCEPT ![p] = u]
        BY <1>1, <2>1 DEF Answer
      <3> HIDE DEF u
      <3> QED BY <3>1, <3>2, NeedsNothing
    <2>2. CASE c.then # {}
      <3>1. cmd' = [cmd EXCEPT ![p] = d]
        BY <1>1, <2>2
      <3>2. n \in c.then
        BY <2>2
      <3>3. c.then \subseteq Names
        BY <1>1 DEF FitsInv, Holds, Removing, HasClusters
      <3> HIDE DEF n, c
      <3>4. DOMAIN x = {"at", "then"} /\ x.at = "rm" /\ x.then = c.then \ {n}
        OBVIOUS
      <3>5. /\ {"n", "on", "boxes", "kept"} \subseteq DOMAIN Over(ToRemove(n, c.env), c)
            /\ Over(ToRemove(n, c.env), c).n = n
        BY DEF Over, ToRemove
      <3> HIDE DEF x
      <3>6. /\ {"at", "n", "then", "on", "boxes", "kept"} \subseteq DOMAIN d
            /\ d.at = "rm" /\ d.n = n /\ d.then = c.then \ {n}
        <4> DEFINE g == Over(ToRemove(n, c.env), c)
        <4> HIDE DEF g
        <4>1. {"at", "n", "then", "on", "boxes", "kept"} \subseteq DOMAIN Over(x, g)
          BY <3>4, <3>5 DEF Over, g
        <4>2. Over(x, g).at = "rm" /\ Over(x, g).n = n /\ Over(x, g).then = c.then \ {n}
          BY <3>4, <3>5 DEF Over, g
        <4> QED BY <4>1, <4>2 DEF g
      <3> HIDE DEF d
      <3>7. HasClusters(d)
        BY <3>2, <3>3, <3>6 DEF HasClusters
      <3>8. Holds(d)
        BY <3>6, <3>7 DEF Holds, Building
      <3> QED BY <3>1, <3>8
    <2> QED BY <2>1, <2>2
  <1>3. DOMAIN cmd' = Processes /\ \A q \in Processes : Holds(cmd'[q])
    <2>1. PICK u : Holds(u) /\ cmd' = [cmd EXCEPT ![p] = u]
      BY <1>2
    <2>2. DOMAIN cmd' = Processes /\ \A q \in Processes : cmd'[q] = IF q = p THEN u ELSE cmd[q]
      BY <2>1 DEF FitsInv
    <2> QED BY <2>1, <2>2 DEF FitsInv
  <1>4. DOMAIN describe' = Names /\ AllFit'
    <2>1. CASE describe' = describe
      BY <2>1 DEF FitsInv, AllFit
    <2>2. ASSUME NEW m, describe' = [describe EXCEPT ![m] = Nil]
          PROVE  DOMAIN describe' = Names /\ AllFit'
      <3>1. /\ DOMAIN describe' = Names
            /\ \A k \in Names : describe'[k] = IF k = m THEN Nil ELSE describe[k]
        BY <2>2 DEF FitsInv
      <3>2. ~Nil.is
        BY DEF Nil
      <3> QED BY <3>1, <3>2 DEF FitsInv, AllFit
    <2> QED BY <1>1, <2>1, <2>2
  <1>5. \A q \in Processes : Holds(cmd[q])'
    BY <1>3 DEF Holds, HasArtifact, HasNodes, HasClusters, HasLogs, Meant
  <1> QED BY <1>3, <1>4, <1>5 DEF FitsInv

\* A destroy notes what it could not remove beside the clusters it has.
LEMMA NotesKept ==
  ASSUME FitsInv, NEW p \in Processes, cmd[p].at \in Removing, NEW at \in Removing, NEW d,
         DOMAIN d = DOMAIN cmd[p], d.at = at,
         \A x \in DOMAIN cmd[p] : x \notin {"at", "boxes", "kept"} => d[x] = cmd[p][x],
         cmd' = [cmd EXCEPT ![p] = d], describe' = describe
  PROVE  FitsInv'
  <1>1. \A x \in Given \cap DOMAIN cmd[p] : d[x] = cmd[p][x]
    BY DEF Given
  <1>2. Holds(cmd[p])
    BY DEF FitsInv
  <1>3. d.at \notin Building /\ d.at \notin {"nodes", "harvest"}
    BY DEF Removing, Building
  <1>4. Holds(d)
    BY <1>1, <1>2, <1>3, StillHolds
  <1> QED BY <1>4, CommandChanges

LEMMA DestroyStepsKeep ==
  ASSUME FitsInv, NEW p \in Processes, Remove(p) \/ EmptyDir(p)
  PROVE  FitsInv'
  <1>1. "at" \in DOMAIN cmd[p]
    BY DEF FitsInv, Holds
  <1>2. CASE Is(p, "destroy", "rm") /\ Rm(p)
    <2>1. /\ cmd[p].at = "rm" /\ describe' = describe
          /\ \E x, kept : \/ cmd' = [cmd EXCEPT ![p].boxes = x]
                          \/ cmd' = [cmd EXCEPT ![p].boxes = x, ![p].kept = kept]
      BY <1>2 DEF Is, Rm, SameDisk, diskVars
    <2>2. cmd[p].at \in Removing
      BY <2>1 DEF Removing
    <2>3. ASSUME NEW x, cmd' = [cmd EXCEPT ![p].boxes = x]
          PROVE  FitsInv'
      <3> DEFINE d == [cmd[p] EXCEPT !.boxes = x]
      <3>1. /\ DOMAIN d = DOMAIN cmd[p] /\ d.at = "rm"
            /\ \A y \in DOMAIN cmd[p] : y \notin {"at", "boxes", "kept"} => d[y] = cmd[p][y]
        BY <1>1, <2>1
      <3>2. cmd' = [cmd EXCEPT ![p] = d]
        BY <2>3
      <3> HIDE DEF d
      <3> QED BY <2>1, <2>2, <3>1, <3>2, NotesKept
    <2>4. ASSUME NEW x, NEW kept, cmd' = [cmd EXCEPT ![p].boxes = x, ![p].kept = kept]
          PROVE  FitsInv'
      <3> DEFINE d == [cmd[p] EXCEPT !.boxes = x, !.kept = kept]
      <3>1. /\ DOMAIN d = DOMAIN cmd[p] /\ d.at = "rm"
            /\ \A y \in DOMAIN cmd[p] : y \notin {"at", "boxes", "kept"} => d[y] = cmd[p][y]
        BY <1>1, <2>1
      <3>2. cmd' = [cmd EXCEPT ![p] = d]
        BY <2>4 DEF FitsInv
      <3> HIDE DEF d
      <3> QED BY <2>1, <2>2, <3>1, <3>2, NotesKept
    <2> QED BY <2>1, <2>3, <2>4
  <1>3. CASE Is(p, "destroy", "rm") /\ RmNetwork(p)
    <2>1. /\ cmd[p].at = "rm" /\ describe' = describe
          /\ Go(p, "empty") \/ cmd' = [cmd EXCEPT ![p].at = "empty", ![p].kept = TRUE]
      BY <1>3 DEF Is, RmNetwork, SameDisk, diskVars
    <2>2. cmd[p].at \in Removing /\ "empty" \in Removing /\ "empty" \notin Building
      BY <2>1 DEF Building, Removing
    <2>3. CASE Go(p, "empty")
      BY <2>1, <2>2, <2>3, GoesOn
    <2>4. CASE cmd' = [cmd EXCEPT ![p].at = "empty", ![p].kept = TRUE]
      <3> DEFINE d == [cmd[p] EXCEPT !.at = "empty", !.kept = TRUE]
      <3>1. /\ DOMAIN d = DOMAIN cmd[p] /\ d.at = "empty"
            /\ \A y \in DOMAIN cmd[p] : y \notin {"at", "boxes", "kept"} => d[y] = cmd[p][y]
        BY <1>1, <2>1
      <3>2. cmd' = [cmd EXCEPT ![p] = d]
        BY <2>4 DEF FitsInv
      <3> HIDE DEF d
      <3> QED BY <2>1, <2>2, <3>1, <3>2, NotesKept
    <2> QED BY <2>1, <2>3, <2>4
  <1>4. CASE EmptyDir(p)
    <2>1. /\ cmd[p].at = "empty" /\ describe' = describe
          /\ Go(p, "purge") \/ cmd' = [cmd EXCEPT ![p].at = "purge", ![p].kept = TRUE]
      BY <1>4 DEF EmptyDir, Is
    <2>2. cmd[p].at \in Removing /\ "purge" \in Removing /\ "purge" \notin Building
      BY <2>1 DEF Building, Removing
    <2>3. CASE Go(p, "purge")
      BY <2>1, <2>2, <2>3, GoesOn
    <2>4. CASE cmd' = [cmd EXCEPT ![p].at = "purge", ![p].kept = TRUE]
      <3> DEFINE d == [cmd[p] EXCEPT !.at = "purge", !.kept = TRUE]
      <3>1. /\ DOMAIN d = DOMAIN cmd[p] /\ d.at = "purge"
            /\ \A y \in DOMAIN cmd[p] : y \notin {"at", "boxes", "kept"} => d[y] = cmd[p][y]
        BY <1>1, <2>1
      <3>2. cmd' = [cmd EXCEPT ![p] = d]
        BY <2>4 DEF FitsInv
      <3> HIDE DEF d
      <3> QED BY <2>1, <2>2, <3>1, <3>2, NotesKept
    <2> QED BY <2>1, <2>3, <2>4
  <1> QED BY <1>2, <1>3, <1>4 DEF Remove

LEMMA ShowStepsKeep ==
  ASSUME FitsInv, NEW p \in Processes, Harvest(p) \/ HarvestStep(p) \/ Export(p)
  PROVE  FitsInv'
  <1>1. CASE Harvest(p)
    <2>1. Go(p, "harvesting") /\ describe' = describe
      BY <1>1 DEF Harvest, SameDisk, diskVars
    <2>2. "harvesting" \notin Building /\ "harvesting" \notin Removing
      BY DEF Building, Removing
    <2> QED BY <2>1, <2>2, GoesOn
  <1>2. CASE HarvestStep(p)
    <2>1. (cmd' = [cmd EXCEPT ![p].at = "read"] \/ cmd' = cmd) /\ describe' = describe
      BY <1>2 DEF HarvestStep, SameArtifacts
    <2>2. cmd' = [cmd EXCEPT ![p].at = "read"] => Go(p, "read")
      BY DEF Go
    <2>3. "read" \notin Building /\ "read" \notin Removing
      BY DEF Building, Removing
    <2> QED BY <2>1, <2>2, <2>3, GoesOn, NothingChanges
  <1>3. CASE Export(p)
    <2>1. PICK doc : cmd' = [cmd EXCEPT ![p] = [at |-> "answered", doc |-> doc]] /\ describe' = describe
      BY <1>3 DEF Export, SameDisk, diskVars
    <2> DEFINE c == [at |-> "answered", doc |-> doc]
    <2>2. "at" \in DOMAIN c /\ c.at \notin Needs
      BY DEF Needs, Building, Removing
    <2> HIDE DEF c
    <2>3. cmd' = [cmd EXCEPT ![p] = c]
      BY <2>1 DEF c
    <2> QED BY <2>1, <2>2, <2>3, StaysThere
  <1> QED BY <1>1, <1>2, <1>3

-----------------------------------------------------------------------------
(* Every step of the system keeps what its commands hold.                  *)

LEMMA FitsInit == Init => FitsInv
  <1> SUFFICES ASSUME Init PROVE FitsInv
    OBVIOUS
  <1>1. /\ DOMAIN cmd = Processes /\ DOMAIN describe = Names
        /\ \A n \in Names : describe[n] = Nil
        /\ \A p \in Processes : cmd[p] = NoCmd
    BY DEF Init
  <1>2. ~Nil.is
    BY DEF Nil
  <1>3. Holds(NoCmd)
    BY NeedsNothing DEF NoCmd, Needs, Building, Removing
  <1> QED BY <1>1, <1>2, <1>3 DEF FitsInv, AllFit

LEMMA FitsNext ==
  ASSUME FitsInv, dir \subseteq Names, Next
  PROVE  FitsInv'
  <1>1. ASSUME NEW p \in Processes, Command(p)
        PROVE  FitsInv'
    BY <1>1, CommandsKeep
  <1>2. ASSUME NEW p \in Processes, Step(p)
        PROVE  FitsInv'
    BY <1>2, CreateStepsKeep, WriteDescribeKeeps, SnapshotKeeps, CreateNodeKeeps, PurgeKeeps,
       DestroyStepsKeep, ShowStepsKeep DEF Step
  <1>3. ASSUME NEW p \in Processes, Kill(p)
        PROVE  FitsInv'
    <2>1. cmd' = [cmd EXCEPT ![p] = NoCmd] /\ describe' = describe
      BY <1>3 DEF Kill, SameDisk, diskVars
    <2>2. Holds(NoCmd)
      BY NeedsNothing DEF NoCmd, Needs, Building, Removing
    <2> QED BY <2>1, <2>2, CommandChanges
  <1>4. CASE Halt \/ Around
    <2>1. cmd' = cmd /\ describe' = describe
      BY <1>4 DEF Halt, Around, SameDisk, diskVars
    <2> QED BY <2>1, NothingChanges
  <1> QED BY <1>1, <1>2, <1>3, <1>4 DEF Next

-----------------------------------------------------------------------------
(* The disk: what is kept of a cluster is in its directory.                *)

DiskInv ==
  /\ dir \subseteq Names
  /\ DOMAIN opened = Names /\ DOMAIN work = Names
  /\ \A n \in Names : describe[n].is \/ opened[n].is \/ record[n] # <<>> => n \in dir
  /\ \A n \in Names : \A x \in work[n] : x.of = n

\* Directories are made, and records written only there.
LEMMA DiskGrows ==
  ASSUME DiskInv, UNCHANGED <<describe, opened, work>>, NEW D \in SUBSET Names, dir' = dir \cup D,
         \A n \in Names \ D : record'[n] = record[n]
  PROVE  DiskInv'
  BY DEF DiskInv

LEMMA DiskStays ==
  ASSUME DiskInv, UNCHANGED <<diskVars, record>>
  PROVE  DiskInv'
  BY DEF DiskInv, diskVars

LEMMA DiskMutates ==
  ASSUME DiskInv, RTypes, NEW n \in Names, Mutates(n), SameArtifacts
  PROVE  DiskInv'
  <1>1. dir' = dir \cup {n} /\ \A m \in Names \ {n} : record'[m] = record[m]
    BY DEF Mutates, RTypes
  <1>2. UNCHANGED <<describe, opened, work>> /\ {n} \in SUBSET Names
    BY DEF SameArtifacts
  <1> QED BY <1>1, <1>2, DiskGrows

LEMMA DiskUnrecorded ==
  ASSUME DiskInv, Unrecorded, SameArtifacts
  PROVE  DiskInv'
  BY DiskStays DEF Unrecorded, SameArtifacts, diskVars, recordVars

LEMMA CommandsDisk ==
  ASSUME FitsInv, DiskInv, RTypes, NEW p \in Processes, Command(p)
  PROVE  DiskInv'
  <1>1. CASE Create(p) \/ CreateFrom(p) \/ DestroyByLabel(p)
    <2>1. PICK session \in Names \cup {Unset} : Dispatched(session) /\ SameArtifacts
      BY <1>1, LifecycleAssumption DEF Create, CreateFrom, DestroyByLabel, Session
    <2> QED BY <2>1, DiskMutates, DiskUnrecorded DEF Dispatched
  <1>2. CASE Show(p)
    <2>1. Unrecorded /\ SameArtifacts
      BY <1>2 DEF Show
    <2> QED BY <2>1, DiskUnrecorded
  <1>3. CASE Up(p) \/ Destroy(p) \/ Act(p)
    <2>1. PICK n \in Names : Mutates(n) /\ SameArtifacts
      BY <1>3 DEF Up, Destroy, Act
    <2> QED BY <2>1, DiskMutates
  <1> QED BY <1>1, <1>2, <1>3 DEF Command

\* What a create makes is in the directory of a cluster that has one.
LEMMA BuildsIn ==
  ASSUME FitsInv, NEW p \in Processes, cmd[p].at \in Building \cup {"nodes"}
  PROVE  cmd[p].n \in Names /\ cmd[p].on \in Backends
  <1>1. CASE cmd[p].at \in Building
    BY <1>1 DEF FitsInv, Holds, HasArtifact, Fits, Placed
  <1>2. CASE cmd[p].at = "nodes"
    BY <1>2 DEF FitsInv, Holds, HasNodes
  <1> QED BY <1>1, <1>2

\* The record a create snapshots into is a cluster's.
LEMMA SnapshotsInto ==
  ASSUME FitsInv, NEW p \in Processes, SnapshotDescribe(p)
  PROVE  cmd[p].rec \in Names /\ cmd[p].n \in Names
  <1>1. cmd[p].at \in Building
    BY DEF SnapshotDescribe, Is, Building
  <1> QED BY <1>1 DEF FitsInv, Holds, HasArtifact, Fits, Placed

LEMMA CreateDisk ==
  ASSUME FitsInv, DiskInv, NEW p \in Processes,
         EnsureCluster(p) \/ WriteDescribe(p) \/ SnapshotDescribe(p) \/ CreateNode(p)
  PROVE  DiskInv'
  <1> DEFINE n == cmd[p].n
  <1>1. n \in Names
    <2>1. cmd[p].at \in Building \cup {"nodes"}
      BY DEF EnsureCluster, WriteDescribe, SnapshotDescribe, CreateNode, Is, Building
    <2> QED BY <2>1, BuildsIn
  <1>2. CASE EnsureCluster(p)
    <2>1. dir' = dir \cup {n} /\ UNCHANGED <<describe, opened, work>> /\ UNCHANGED record
      BY <1>2 DEF EnsureCluster, SameArtifacts, recordVars
    <2> HIDE DEF n
    <2> QED BY <1>1, <2>1, DiskGrows
  <1>3. CASE WriteDescribe(p)
    <2>1. /\ n \in dir /\ UNCHANGED <<dir, opened, work, record>>
          /\ describe' = [describe EXCEPT ![n] = Just(cmd[p].t)]
      BY <1>3 DEF WriteDescribe, recordVars
    <2>2. \A m \in Names : m # n => describe'[m] = describe[m]
      BY <2>1 DEF FitsInv
    <2> HIDE DEF n
    <2> QED BY <2>1, <2>2 DEF DiskInv
  <1>4. CASE SnapshotDescribe(p)
    <2> DEFINE rec == cmd[p].rec
    <2>1. /\ dir' = dir \cup {rec} /\ UNCHANGED <<describe, work, record>>
          /\ \E v : opened' = [opened EXCEPT ![rec] = v]
      BY <1>4 DEF SnapshotDescribe, recordVars
    <2>2. DOMAIN opened' = Names /\ \A m \in Names : m # rec => opened'[m] = opened[m]
      BY <2>1 DEF DiskInv
    <2>3. rec \in Names
      BY <1>4, SnapshotsInto
    <2> HIDE DEF rec
    <2> QED BY <2>1, <2>2, <2>3 DEF DiskInv
  <1>5. CASE CreateNode(p)
    <2>1. /\ dir' = dir \cup {n} /\ UNCHANGED <<describe, opened, record>>
          /\ work' = [work EXCEPT ![n] = @ \cup {cmd[p].left[1]}]
          /\ cmd[p].at = "nodes" /\ cmd[p].left # <<>>
      BY <1>5 DEF CreateNode, recordVars, Is
    <2>2. cmd[p].left \in Seq(NodesOf(n))
      BY <2>1 DEF FitsInv, Holds, HasNodes
    <2> DEFINE left == cmd[p].left
    <2> HIDE DEF n, left
    <2>3. left[1].of = n
      <3>1. left[1] \in NodesOf(n)
        BY <2>1, <2>2 DEF left
      <3> QED BY <3>1 DEF NodesOf
    <2>4. /\ DOMAIN work' = Names
          /\ \A m \in Names : work'[m] = IF m = n THEN work[n] \cup {left[1]} ELSE work[m]
      BY <1>1, <2>1 DEF DiskInv, left
    <2> QED BY <1>1, <2>1, <2>3, <2>4 DEF DiskInv
  <1> QED BY <1>2, <1>3, <1>4, <1>5

LEMMA DestroyDisk ==
  ASSUME FitsInv, DiskInv, RTypes, NEW p \in Processes, EmptyDir(p) \/ Purge(p)
  PROVE  DiskInv'
  <1> DEFINE n == cmd[p].n
  <1>1. CASE EmptyDir(p)
    <2>1. PICK gone : work' = [work EXCEPT ![n] = @ \ gone] /\ UNCHANGED <<dir, describe, opened, record>>
      BY <1>1 DEF EmptyDir
    <2> HIDE DEF n
    <2>2. DOMAIN work' = Names /\ \A m \in Names : work'[m] \subseteq work[m]
      BY <2>1 DEF DiskInv
    <2> QED BY <2>1, <2>2 DEF DiskInv
  <1>2. CASE Purge(p)
    <2>1. CASE Purged(n)
      <3>1. /\ dir' = dir \ {n} /\ work' = [work EXCEPT ![n] = {}]
            /\ describe' = [describe EXCEPT ![n] = Nil] /\ opened' = [opened EXCEPT ![n] = Nil]
            /\ record' = [record EXCEPT ![n] = <<>>]
        BY <2>1 DEF Purged
      <3> HIDE DEF n
      <3>2. DOMAIN work' = Names /\ \A m \in Names : work'[m] \subseteq work[m]
        BY <3>1 DEF DiskInv
      <3>3. DOMAIN opened' = Names /\ \A m \in Names : opened'[m] = IF m = n THEN Nil ELSE opened[m]
        BY <3>1 DEF DiskInv
      <3>4. \A m \in Names : describe'[m] = IF m = n THEN Nil ELSE describe[m]
        BY <3>1 DEF FitsInv
      <3>5. \A m \in Names : record'[m] = IF m = n THEN <<>> ELSE record[m]
        BY <3>1 DEF RTypes
      <3>6. ~Nil.is
        BY DEF Nil
      <3> QED BY <3>1, <3>2, <3>3, <3>4, <3>5, <3>6 DEF DiskInv
    <2>2. CASE ~Purged(n)
      <3>1. SameDisk /\ UNCHANGED recordVars
        BY <1>2, <2>2 DEF Purge
      <3> QED BY <3>1, DiskStays DEF SameDisk, recordVars
    <2> QED BY <2>1, <2>2
  <1> QED BY <1>1, <1>2

\* A harvest makes the directory it appends in.
LEMMA HarvestDisk ==
  ASSUME FitsInv, DiskInv, RTypes, NEW p \in Processes, HarvestStep(p)
  PROVE  DiskInv'
  <1>1. UNCHANGED <<describe, opened, work>>
    BY DEF HarvestStep, SameArtifacts
  <1>2. CASE record' = record
    <2>1. dir' = dir
      BY <1>2 DEF HarvestStep
    <2> QED BY <1>1, <1>2, <2>1, DiskStays DEF diskVars
  <1>3. CASE record' # record
    <2>1. dir' = dir \cup {reader[p].n}
      BY <1>3 DEF HarvestStep
    <2>2. ReadLine(p)
      BY <1>3 DEF HarvestStep, OpenFile, NoFile, EndOfFile, AllRead, SaveOffsets, LoseOffsets,
                  AppendFails, DropHarvest
    <2>3. reader[p].at = "scan" /\ \E e : record' = [record EXCEPT ![reader[p].n] = e]
      <3>1. reader[p].at = "scan"
        BY <2>2 DEF ReadLine
      <3>2. record' = [record EXCEPT ![reader[p].n] =
                         Append(@, EngineEntry(InHand(p).lines[reader[p].line + 1], reader[p].last))]
        BY <1>3, <2>2 DEF ReadLine
      <3> QED BY <3>1, <3>2
    <2>4. reader[p].n \in Names
      BY <2>3 DEF RTypes, Reader, Idle
    <2>5. \A m \in Names \ {reader[p].n} : record'[m] = record[m]
      BY <2>3, <2>4 DEF RTypes
    <2> DEFINE D == {reader[p].n}
    <2>6. D \in SUBSET Names /\ dir' = dir \cup D /\ \A m \in Names \ D : record'[m] = record[m]
      BY <2>1, <2>4, <2>5
    <2> HIDE DEF D
    <2> QED BY <1>1, <2>6, DiskGrows
  <1> QED BY <1>2, <1>3

LEMMA DiskNext ==
  ASSUME FitsInv, DiskInv, RTypes, Next
  PROVE  DiskInv'
  <1>1. ASSUME NEW p \in Processes, Step(p)
        PROVE  DiskInv'
    <2>1. CASE \/ EnsureCluster(p) \/ WriteDescribe(p) \/ SnapshotDescribe(p) \/ CreateNode(p)
               \/ EmptyDir(p) \/ Purge(p) \/ HarvestStep(p)
      BY <2>1, CreateDisk, DestroyDisk, HarvestDisk
    <2>2. CASE Image(p) \/ EnsureNetwork(p) \/ NowhereToWrite(p) \/ Assemble(p) \/ Remove(p) \/ Export(p)
      <3>1. SameDisk /\ UNCHANGED record
        BY <2>2 DEF Image, EnsureNetwork, NowhereToWrite, Assemble, Remove, Rm, RmNetwork, Export, recordVars
      <3> QED BY <3>1, DiskStays DEF SameDisk
    <2>3. CASE Harvest(p)
      <3>1. SameDisk /\ UNCHANGED record
        BY <2>3 DEF Harvest, LoadOffsets
      <3> QED BY <3>1, DiskStays DEF SameDisk
    <2> QED BY <1>1, <2>1, <2>2, <2>3 DEF Step
  <1>2. ASSUME NEW p \in Processes, Kill(p)
        PROVE  DiskInv'
    <2>1. SameDisk /\ UNCHANGED record
      BY <1>2 DEF Kill, DropHarvest, recordVars
    <2> QED BY <2>1, DiskStays DEF SameDisk
  <1>3. CASE Halt \/ Around
    <2>1. UNCHANGED <<diskVars, record>>
      <3>1. CASE Halt
        BY <3>1 DEF Halt, SameDisk, recordVars
      <3>2. CASE Around
        <4>1. UNCHANGED diskVars
          BY <3>2 DEF Around
        <4>2. UNCHANGED record
          BY <3>2 DEF Around, Engine, Time, Tick, Stamp, Words, Newline, Rotate
        <4> QED BY <4>1, <4>2
      <3> QED BY <1>3, <3>1, <3>2
    <2> QED BY <2>1, DiskStays
  <1> QED BY <1>1, <1>2, <1>3, CommandsDisk DEF Next

-----------------------------------------------------------------------------
(* The backends, and the counters.                                         *)

WorldInv ==
  /\ containers \subseteq Boxed /\ running \subseteq containers
  /\ networks \subseteq [of : Names, on : Backends]
BooksInv ==
  /\ strayed \subseteq Names /\ misopened \subseteq Names
  /\ begun \in 0..MaxCommands /\ mishaps \in 0..MaxMishaps /\ halts \in 0..MaxHalts

LEMMA WorldStays ==
  ASSUME WorldInv, UNCHANGED worldVars
  PROVE  WorldInv'
  BY DEF WorldInv, worldVars

\* up starts what there is up to the first container that is missing.
LEMMA UpWorld ==
  ASSUME FitsInv, WorldInv, NEW p \in Processes, Up(p)
  PROVE  WorldInv'
  <1>1. PICK n \in Names, d \in Backends :
          LET b == backendFor(Recorded(n), Unset, d)
              all == IF describe[n].is THEN NodeNames(describe[n].v) ELSE <<>>
              boxes == [i \in DOMAIN all |-> [node |-> all[i], on |-> b]]
              missing == {i \in DOMAIN boxes : boxes[i] \notin containers}
          IN /\ running' = running \cup {boxes[i] : i \in {i \in DOMAIN boxes : \A m \in missing : i < m}}
             /\ UNCHANGED <<containers, networks>>
    BY DEF Up
  <1> DEFINE b == backendFor(Recorded(n), Unset, d)
             all == IF describe[n].is THEN NodeNames(describe[n].v) ELSE <<>>
             boxes == [i \in DOMAIN all |-> [node |-> all[i], on |-> b]]
             missing == {i \in DOMAIN boxes : boxes[i] \notin containers}
             started == {boxes[i] : i \in {i \in DOMAIN boxes : \A m \in missing : i < m}}
  <1>2. running' = running \cup started /\ UNCHANGED <<containers, networks>>
    BY <1>1
  <1>3. DOMAIN boxes \subseteq Nat
    <2>1. CASE describe[n].is
      <3>1. Fits(n, describe[n].v)
        BY <2>1 DEF FitsInv, AllFit
      <3>2. all \in Seq(Nodes)
        BY <2>1, <3>1, NamedNodes
      <3>3. DOMAIN boxes = DOMAIN all
        OBVIOUS
      <3> HIDE DEF all, boxes
      <3> QED BY <3>2, <3>3
    <2>2. CASE ~describe[n].is
      <3>1. DOMAIN boxes = DOMAIN << >>
        BY <2>2
      <3> QED BY <3>1
    <2> QED BY <2>1, <2>2
  <1>4. started \subseteq containers
    <2> SUFFICES ASSUME NEW i \in DOMAIN boxes, \A m \in missing : i < m
                 PROVE  boxes[i] \in containers
      OBVIOUS
    <2> HIDE DEF boxes
    <2>1. i \in Nat
      BY <1>3
    <2>2. i \notin missing
      BY <2>1
    <2> QED BY <2>2
  <1> HIDE DEF started
  <1> QED BY <1>2, <1>4 DEF WorldInv

\* A create adds a network and a container of a node, on its backend.
LEMMA CreateWorld ==
  ASSUME FitsInv, WorldInv, NEW p \in Processes, EnsureNetwork(p) \/ CreateNode(p)
  PROVE  WorldInv'
  <1> DEFINE c == cmd[p]
  <1>1. CASE EnsureNetwork(p)
    <2>1. /\ c.at = "network" /\ UNCHANGED <<containers, running>>
          /\ networks' = networks \cup {[of |-> c.n, on |-> c.on]} \/ UNCHANGED networks
      BY <1>1 DEF EnsureNetwork, Is
    <2>2. c.n \in Names /\ c.on \in Backends
      BY <2>1, BuildsIn DEF Building
    <2> HIDE DEF c
    <2>3. [of |-> c.n, on |-> c.on] \in [of : Names, on : Backends]
      BY <2>2
    <2> QED BY <2>1, <2>3 DEF WorldInv
  <1>2. CASE CreateNode(p)
    <2> DEFINE box == [node |-> c.left[1], on |-> c.on]
    <2>1. /\ c.at = "nodes" /\ c.left # <<>> /\ UNCHANGED networks
          /\ \/ containers' = containers \cup {box} /\ running' = running \cup {box}
             \/ UNCHANGED <<containers, running>>
      BY <1>2 DEF CreateNode, Is
    <2>2. c.on \in Backends /\ c.left \in Seq(NodesOf(c.n))
      BY <2>1 DEF FitsInv, Holds, HasNodes
    <2> HIDE DEF c
    <2>3. c.left[1] \in NodesOf(c.n)
      BY <2>1, <2>2
    <2>4. box \in Boxed
      BY <2>2, <2>3 DEF Boxed, NodesOf
    <2> HIDE DEF box
    <2> QED BY <2>1, <2>4 DEF WorldInv
  <1> QED BY <1>1, <1>2

LEMMA RemoveWorld ==
  ASSUME WorldInv, NEW p \in Processes, Remove(p)
  PROVE  WorldInv'
  <1>1. /\ \/ \E c : containers' = containers \ {c} /\ running' = running \ {c}
           \/ UNCHANGED <<containers, running>>
        /\ networks' \subseteq networks
    <2>1. CASE Rm(p)
      BY <2>1 DEF Rm
    <2>2. CASE RmNetwork(p)
      BY <2>2 DEF RmNetwork
    <2> QED BY <2>1, <2>2 DEF Remove
  <1> QED BY <1>1 DEF WorldInv

LEMMA WorldNext ==
  ASSUME FitsInv, WorldInv, Next
  PROVE  WorldInv'
  <1>1. ASSUME NEW p \in Processes, Command(p)
        PROVE  WorldInv'
    <2>1. CASE Create(p) \/ CreateFrom(p) \/ Destroy(p) \/ DestroyByLabel(p) \/ Act(p) \/ Show(p)
      <3>1. SameWorld
        BY <2>1 DEF Create, CreateFrom, Destroy, DestroyByLabel, Act, Show
      <3> QED BY <3>1, WorldStays DEF SameWorld
    <2> QED BY <1>1, <2>1, UpWorld DEF Command
  <1>2. ASSUME NEW p \in Processes, Step(p)
        PROVE  WorldInv'
    <2>1. CASE \/ Image(p) \/ EnsureCluster(p) \/ WriteDescribe(p) \/ NowhereToWrite(p)
               \/ SnapshotDescribe(p) \/ Assemble(p) \/ EmptyDir(p) \/ Purge(p)
               \/ Harvest(p) \/ HarvestStep(p) \/ Export(p)
      <3>1. SameWorld
        BY <2>1 DEF Image, EnsureCluster, WriteDescribe, NowhereToWrite, SnapshotDescribe, Assemble,
                    EmptyDir, Purge, Harvest, HarvestStep, Export
      <3> QED BY <3>1, WorldStays DEF SameWorld
    <2> QED BY <1>2, <2>1, CreateWorld, RemoveWorld DEF Step
  <1>3. ASSUME NEW p \in Processes, Kill(p)
        PROVE  WorldInv'
    BY <1>3, WorldStays DEF Kill, SameWorld
  <1>4. CASE Halt
    <2>1. running' = {} /\ UNCHANGED <<containers, networks>>
      BY <1>4 DEF Halt
    <2> QED BY <2>1 DEF WorldInv
  <1>5. CASE Around
    BY <1>5, WorldStays DEF Around
  <1> QED BY <1>1, <1>2, <1>3, <1>4, <1>5 DEF Next

\* Where a create's cluster is left out of reach or misopened, it has a name.
LEMMA BooksNamed ==
  ASSUME FitsInv, DiskInv, BooksInv, Next
  PROVE  strayed' \subseteq Names /\ misopened' \subseteq Names
  <1>1. strayed \subseteq Names /\ misopened \subseteq Names
    BY DEF BooksInv
  <1>2. ASSUME SameBooks
        PROVE  strayed' \subseteq Names /\ misopened' \subseteq Names
    BY <1>1, <1>2 DEF SameBooks, bookVars
  <1>3. ASSUME NEW p \in Processes, Command(p)
        PROVE  strayed' \subseteq Names /\ misopened' \subseteq Names
    <2>1. SameBooks
      BY <1>3 DEF Command, Create, CreateFrom, Up, Destroy, DestroyByLabel, Act, Show
    <2> QED BY <1>2, <2>1
  <1>4. ASSUME NEW p \in Processes, Step(p)
        PROVE  strayed' \subseteq Names /\ misopened' \subseteq Names
    <2>1. CASE \/ Image(p) \/ EnsureCluster(p)
               \/ Remove(p) \/ EmptyDir(p) \/ Harvest(p) \/ HarvestStep(p) \/ Export(p)
      <3>1. SameBooks
        BY <2>1 DEF Image, EnsureCluster,
                    Remove, Rm, RmNetwork, EmptyDir, Harvest, HarvestStep, Export
      <3> QED BY <1>2, <3>1
    <2>2. CASE EnsureNetwork(p) \/ WriteDescribe(p) \/ NowhereToWrite(p) \/ CreateNode(p) \/ Assemble(p)
      <3>1. cmd[p].n \in Names
        <4>1. cmd[p].at \in Building \cup {"nodes"}
          BY <2>2 DEF EnsureNetwork, WriteDescribe, NowhereToWrite, CreateNode, Assemble, Is, Building
        <4> QED BY <4>1, BuildsIn
      <3>2. strayed' \subseteq strayed \cup {cmd[p].n} /\ misopened' \subseteq misopened \cup {cmd[p].n}
        BY <2>2 DEF EnsureNetwork, WriteDescribe, NowhereToWrite, CreateNode, Assemble, Crossed, Unlocated, NotYet, Outrun
      <3> QED BY <1>1, <3>1, <3>2
    <2>3. CASE Purge(p)
      <3>1. cmd[p].n \in Names
        <4>1. cmd[p].at \in Removing
          BY <2>3 DEF Purge, Is, Removing
        <4> QED BY <4>1 DEF FitsInv, Holds, HasClusters
      <3>2. CASE Purged(cmd[p].n)
        <4>1. strayed' \subseteq strayed \cup {cmd[p].n} /\ misopened' \subseteq misopened \cup {cmd[p].n}
          BY <3>2 DEF Purged
        <4> QED BY <1>1, <3>1, <4>1
      <3>3. CASE ~Purged(cmd[p].n)
        <4>1. SameBooks
          BY <2>3, <3>3 DEF Purge
        <4> QED BY <1>2, <4>1
      <3> QED BY <3>2, <3>3
    <2>4. CASE SnapshotDescribe(p)
      <3>1. strayed' = strayed /\ misopened' \subseteq misopened \cup {cmd[p].rec, cmd[p].n}
        BY <2>4 DEF SnapshotDescribe, Misfiled
      <3> QED BY <1>1, <2>4, <3>1, SnapshotsInto
    <2> QED BY <1>4, <2>1, <2>2, <2>3, <2>4 DEF Step
  <1>5. ASSUME NEW p \in Processes, Kill(p)
        PROVE  strayed' \subseteq Names /\ misopened' \subseteq Names
    <2>1. /\ strayed' = strayed \cup (IF cmd[p].at = "describe" THEN Unlocated(p) ELSE {})
          /\ misopened' = misopened \cup (IF cmd[p].at = "nodes" THEN NotYet(cmd[p].n) ELSE {})
      BY <1>5 DEF Kill
    <2>2. cmd[p].at \in {"describe", "nodes"} => cmd[p].n \in Names
      BY BuildsIn DEF Building
    <2> QED BY <1>1, <2>1, <2>2 DEF Unlocated, NotYet
  <1>6. CASE Halt \/ Around
    <2>1. SameBooks
      BY <1>6 DEF Halt, Around, SameBooks
    <2> QED BY <1>2, <2>1
  <1> QED BY <1>3, <1>4, <1>5, <1>6 DEF Next

\* Whatever a command is, it begins by entering its process under a verb.
LEMMA BeginsByEntering ==
  ASSUME NEW p, Command(p)
  PROVE  \E verb, c : Enter(p, verb, c)
  <1>1. CASE Create(p)
    BY <1>1, SMT DEF Create
  <1>2. CASE CreateFrom(p)
    BY <1>2, SMT DEF CreateFrom
  <1>3. CASE Up(p)
    BY <1>3, SMT DEF Up
  <1>4. CASE Act(p)
    BY <1>4, SMT DEF Act
  <1>5. CASE Destroy(p)
    BY <1>5, SMT DEF Destroy
  <1>6. CASE DestroyByLabel(p)
    BY <1>6, SMT DEF DestroyByLabel
  <1>7. CASE Show(p)
    BY <1>7, SMT DEF Show
  <1> QED BY <1>1, <1>2, <1>3, <1>4, <1>5, <1>6, <1>7 DEF Command

\* What is bounded stays in its bound.
LEMMA BooksCount ==
  ASSUME BooksInv, Next
  PROVE  begun' \in 0..MaxCommands /\ mishaps' \in 0..MaxMishaps /\ halts' \in 0..MaxHalts
  <1> DEFINE Bounded == begun' \in 0..MaxCommands /\ mishaps' \in 0..MaxMishaps /\ halts' \in 0..MaxHalts
  <1>1. /\ begun \in 0..MaxCommands /\ mishaps \in 0..MaxMishaps /\ halts \in 0..MaxHalts
        /\ MaxCommands \in Nat /\ MaxMishaps \in Nat /\ MaxHalts \in Nat
    BY LifecycleAssumption DEF BooksInv
  <1>2. Steady => Bounded
    BY <1>1 DEF Steady
  <1>3. Mishap => Bounded
    BY <1>1 DEF Mishap
  <1>4. ASSUME NEW p \in Processes, Command(p)
        PROVE  Bounded
    <2>1. PICK verb, c : Enter(p, verb, c)
      BY <1>4, BeginsByEntering
    <2> QED BY <1>1, <2>1 DEF Enter
  <1>5. ASSUME NEW p \in Processes, Step(p)
        PROVE  Steady \/ Mishap
    <2>1. CASE Image(p) \/ EnsureCluster(p) \/ EnsureNetwork(p) \/ CreateNode(p)
      BY <2>1 DEF Image, EnsureCluster, EnsureNetwork, CreateNode
    <2>2. CASE WriteDescribe(p) \/ NowhereToWrite(p) \/ SnapshotDescribe(p) \/ Assemble(p)
      BY <2>2 DEF WriteDescribe, NowhereToWrite, SnapshotDescribe, Assemble
    <2>3. CASE Remove(p) \/ EmptyDir(p) \/ Purge(p)
      BY <2>3 DEF Remove, Rm, RmNetwork, EmptyDir, Purge
    <2>4. CASE Harvest(p) \/ HarvestStep(p) \/ Export(p)
      BY <2>4 DEF Harvest, HarvestStep, Export
    <2> QED BY <1>5, <2>1, <2>2, <2>3, <2>4 DEF Step
  <1>6. ASSUME NEW p \in Processes, Kill(p)
        PROVE  Mishap
    BY <1>6 DEF Kill
  <1>7. CASE Halt
    BY <1>1, <1>7 DEF Halt
  <1>8. CASE Around
    BY <1>1, <1>8 DEF Around
  <1> QED BY <1>2, <1>3, <1>4, <1>5, <1>6, <1>7, <1>8 DEF Next

-----------------------------------------------------------------------------
(* The record.  A harvest is a reader's, so that a command that is in       *)
(* another step, or in none, has no harvest under way.                     *)

Tie == \A p \in Processes : Harvesting(p) => cmd[p].at = "harvesting"

LEMMA RecordStays ==
  ASSUME RecordInv, UNCHANGED recordVars
  PROVE  RecordInv'
  <1>1. now' \in Nat /\ UNCHANGED <<said, record, offsets, log, reader, spoilt>>
    BY DEF recordVars, RecordInv, RTypes
  <1> QED BY <1>1, TickKeeps

\* Unlinking a log does not move a harvest on.
LEMMA UnlinkStays ==
  ASSUME RTypes, NEW X, Unlink(X)
  PROVE  \A q \in Processes : reader'[q].at = reader[q].at
  <1> SUFFICES ASSUME NEW q \in Processes
               PROVE  reader'[q].at = reader[q].at
    OBVIOUS
  <1>1. reader'[q] = IF Moved(q, X) THEN [reader[q] EXCEPT !.held = Just(log[reader[q].left[1]])] ELSE reader[q]
    BY DEF Unlink
  <1>2. reader[q] \in {Idle} \cup Reader
    BY DEF RTypes
  <1>3. DOMAIN reader[q] = {"at"} \/ "at" \in DOMAIN reader[q]
    BY <1>2 DEF Idle, Reader
  <1> QED BY <1>1, <1>3

\* While no harvest moves on, a command that is not harvesting may change.
LEMMA TieStays ==
  ASSUME FitsInv, Tie, NEW p \in Processes, cmd[p].at # "harvesting",
         \A q \in Processes : q # p => cmd'[q] = cmd[q],
         \A q \in Processes : reader'[q].at = reader[q].at
  PROVE  Tie'
  <1> SUFFICES ASSUME NEW q \in Processes, Harvesting(q)'
               PROVE  cmd'[q].at = "harvesting"
    BY DEF Tie
  <1>1. Harvesting(q)
    BY DEF Harvesting
  <1>2. cmd[q].at = "harvesting"
    BY <1>1 DEF Tie
  <1> QED BY <1>2

LEMMA OneCommand ==
  ASSUME FitsInv, NEW p \in Processes, Command(p) \/ Step(p) \/ Kill(p)
  PROVE  \A q \in Processes : q # p => cmd'[q] = cmd[q]
  <1>1. ASSUME NEW c, cmd' = [cmd EXCEPT ![p] = c]
        PROVE  \A q \in Processes : q # p => cmd'[q] = cmd[q]
    BY <1>1 DEF FitsInv
  <1>2. ASSUME NEW verb, NEW c, Enter(p, verb, c)
        PROVE  \A q \in Processes : q # p => cmd'[q] = cmd[q]
    BY <1>1, <1>2 DEF Enter
  <1>3. ASSUME NEW at, Go(p, at)
        PROVE  \A q \in Processes : q # p => cmd'[q] = cmd[q]
    <2>1. cmd' = [cmd EXCEPT ![p] = [cmd[p] EXCEPT !.at = at]]
      BY <1>3 DEF Go
    <2> QED BY <1>1, <2>1
  <1>4. ASSUME NEW out, Answer(p, out)
        PROVE  \A q \in Processes : q # p => cmd'[q] = cmd[q]
    BY <1>1, <1>4 DEF Answer
  <1>5. CASE Command(p)
    <2>1. PICK verb, c : Enter(p, verb, c)
      BY <1>5, BeginsByEntering
    <2> QED BY <1>2, <2>1
  <1>6. CASE Image(p) \/ EnsureCluster(p) \/ EnsureNetwork(p) \/ WriteDescribe(p) \/ NowhereToWrite(p)
    <2>1. \/ \E at : Go(p, at)
          \/ \E out : Answer(p, out)
      BY <1>6 DEF Image, EnsureCluster, EnsureNetwork, WriteDescribe, NowhereToWrite
    <2> QED BY <1>3, <1>4, <2>1
  <1>7. CASE SnapshotDescribe(p)
    BY <1>7 DEF SnapshotDescribe, FitsInv
  <1>8. CASE CreateNode(p)
    <2>1. CASE cmd' = [cmd EXCEPT ![p].left = Tail(@)]
      BY <2>1 DEF FitsInv
    <2> QED BY <1>4, <1>8, <2>1 DEF CreateNode
  <1>9. CASE Assemble(p)
    BY <1>4, <1>9 DEF Assemble
  <1>10. CASE Remove(p)
    <2>1. CASE Rm(p)
      BY <2>1 DEF Rm, FitsInv
    <2>2. CASE RmNetwork(p)
      <3>1. Go(p, "empty") \/ cmd' = [cmd EXCEPT ![p].at = "empty", ![p].kept = TRUE]
        BY <2>2 DEF RmNetwork
      <3>2. CASE cmd' = [cmd EXCEPT ![p].at = "empty", ![p].kept = TRUE]
        BY <3>2 DEF FitsInv
      <3> QED BY <1>3, <3>1, <3>2
    <2> QED BY <1>10, <2>1, <2>2 DEF Remove
  <1>11. CASE EmptyDir(p)
    <2>1. Go(p, "purge") \/ cmd' = [cmd EXCEPT ![p].at = "purge", ![p].kept = TRUE]
      BY <1>11 DEF EmptyDir
    <2>2. CASE cmd' = [cmd EXCEPT ![p].at = "purge", ![p].kept = TRUE]
      BY <2>2 DEF FitsInv
    <2> QED BY <1>3, <2>1, <2>2
  <1>12. CASE Purge(p)
    <2>1. Answer(p, "removed") \/ \E c : cmd' = [cmd EXCEPT ![p] = c]
      BY <1>12 DEF Purge
    <2> QED BY <1>1, <1>4, <2>1
  <1>13. CASE Harvest(p)
    BY <1>3, <1>13 DEF Harvest
  <1>14. CASE HarvestStep(p)
    <2>1. cmd' = [cmd EXCEPT ![p].at = "read"] \/ cmd' = cmd
      BY <1>14 DEF HarvestStep
    <2> QED BY <2>1 DEF FitsInv
  <1>15. CASE Export(p)
    BY <1>15 DEF Export, FitsInv
  <1>16. CASE Kill(p)
    BY <1>16 DEF Kill, FitsInv
  <1> QED BY <1>5, <1>6, <1>7, <1>8, <1>9, <1>10, <1>11, <1>12, <1>13, <1>14, <1>15, <1>16 DEF Step

\* Steps that leave the record and its readers alone.
LEMMA RecordLeft ==
  ASSUME FitsInv, Tie, RecordInv, NEW p \in Processes, Command(p) \/ Step(p) \/ Kill(p),
         cmd[p].at # "harvesting", UNCHANGED recordVars
  PROVE  RecordInv' /\ Tie'
  <1>1. \A q \in Processes : reader'[q].at = reader[q].at
    BY DEF recordVars
  <1> QED BY <1>1, OneCommand, TieStays, RecordStays

\* A command is at most an entry in its cluster's record.
LEMMA CommandsRecord ==
  ASSUME FitsInv, Tie, RecordInv, NEW p \in Processes, Command(p)
  PROVE  RecordInv' /\ Tie'
  <1>1. cmd[p].at # "harvesting"
    <2>1. PICK verb, c : Enter(p, verb, c)
      BY BeginsByEntering
    <2> QED BY <2>1 DEF Enter
  <1>2. ASSUME NEW n \in Names, Mutates(n)
        PROVE  RecordInv' /\ Tie'
    <2>1. /\ record' = [record EXCEPT ![n] = Append(@, ToolEntry)]
          /\ UNCHANGED <<now, said, offsets, log, reader, spoilt>>
      BY <1>2 DEF Mutates
    <2>2. RecordInv'
      BY <2>1, ToolKeeps
    <2>3. \A q \in Processes : reader'[q].at = reader[q].at
      BY <2>1
    <2> QED BY <1>1, <2>2, <2>3, OneCommand, TieStays
  <1>3. ASSUME Unrecorded
        PROVE  RecordInv' /\ Tie'
    BY <1>1, <1>3, RecordLeft DEF Unrecorded
  <1>4. CASE Create(p) \/ CreateFrom(p) \/ DestroyByLabel(p)
    <2>1. PICK session \in Names \cup {Unset} : Dispatched(session)
      BY <1>4, LifecycleAssumption DEF Create, CreateFrom, DestroyByLabel, Session
    <2> QED BY <1>2, <1>3, <2>1 DEF Dispatched
  <1>5. CASE Show(p)
    BY <1>3, <1>5 DEF Show
  <1>6. CASE Up(p) \/ Destroy(p) \/ Act(p)
    BY <1>2, <1>6 DEF Up, Destroy, Act
  <1> QED BY <1>4, <1>5, <1>6 DEF Command

\* A destroy's logs go, and if it purges the record with them.
LEMMA DestroyRecord ==
  ASSUME FitsInv, Tie, RecordInv, NEW p \in Processes, EmptyDir(p) \/ Purge(p)
  PROVE  RecordInv' /\ Tie'
  <1>1. RTypes
    BY DEF RecordInv
  <1>2. cmd[p].at # "harvesting" /\ \A q \in Processes : q # p => cmd'[q] = cmd[q]
    <2>1. cmd[p].at # "harvesting"
      BY DEF EmptyDir, Purge, Is
    <2> QED BY <2>1, OneCommand DEF Step
  <1>3. ASSUME NEW X, Unlink(X)
        PROVE  Tie'
    BY <1>1, <1>2, <1>3, UnlinkStays, TieStays
  <1>4. CASE EmptyDir(p)
    <2>1. PICK gone : Unlink(gone) /\ UNCHANGED <<now, said, record, offsets, spoilt>>
      BY <1>4 DEF EmptyDir
    <2>2. RecordInv'
      BY <1>1, <2>1, UnlinkInv DEF RTypes
    <2> QED BY <1>3, <2>1, <2>2
  <1>5. CASE Purge(p)
    <2> DEFINE n == cmd[p].n
    <2>1. CASE Purged(n)
      <3>1. n \in Names
        <4>1. cmd[p].at \in Removing
          BY <1>5 DEF Purge, Is, Removing
        <4> QED BY <4>1 DEF FitsInv, Holds, HasClusters
      <3> DEFINE s == IF \E q \in Processes : Harvests(q, n) THEN spoilt[n] \cup {"purged"} ELSE {}
      <3>2. /\ Unlink(work[n]) /\ UNCHANGED <<now, said>>
            /\ record' = [record EXCEPT ![n] = <<>>] /\ offsets' = [offsets EXCEPT ![n] = Unread]
            /\ spoilt' = [spoilt EXCEPT ![n] = s]
        BY <2>1 DEF Purged, Harvests
      <3>3. s \in SUBSET Spoils /\ ((\E q \in Processes : Harvests(q, n)) => spoilt[n] \cup {"purged"} \subseteq s)
        BY <1>1, <3>1 DEF RTypes, Spoils
      <3> HIDE DEF n, s
      <3>4. Unread \in Offsets /\ <<>> \in Seq(Entry)
        BY DEF Unread, Offsets
      <3>5. /\ record' \in [Names -> Seq(Entry)]
            /\ \A m \in Names : record'[m] = IF m = n THEN <<>> ELSE record[m]
        BY <1>1, <3>2, <3>4 DEF RTypes
      <3>6. /\ offsets' \in [Names -> Offsets]
            /\ \A m \in Names : offsets'[m] = IF m = n THEN Unread ELSE offsets[m]
        BY <1>1, <3>2, <3>4 DEF RTypes
      <3>7. /\ spoilt' \in [Names -> SUBSET Spoils]
            /\ \A m \in Names : spoilt'[m] = IF m = n THEN s ELSE spoilt[m]
        BY <1>1, <3>2, <3>3 DEF RTypes
      <3>8. \A m \in Names :
              \/ record'[m] = record[m] /\ offsets'[m] = offsets[m] /\ spoilt'[m] = spoilt[m]
              \/ /\ record'[m] = <<>> /\ offsets'[m] = Unread
                 /\ (\E q \in Processes : Harvests(q, m)) => spoilt[m] \cup {"purged"} \subseteq spoilt'[m]
        BY <3>3, <3>5, <3>6, <3>7
      <3>9. RecordInv'
        BY <3>2, <3>5, <3>6, <3>7, <3>8, UnlinkInv
      <3> QED BY <1>3, <3>2, <3>9
    <2>2. CASE ~Purged(n)
      <3>1. UNCHANGED recordVars
        BY <1>5, <2>2 DEF Purge
      <3> QED BY <1>2, <1>5, <3>1, RecordLeft DEF Step
    <2> QED BY <2>1, <2>2
  <1> QED BY <1>4, <1>5

\* A reader harvests before it reads, and a killed one leaves its harvest.
LEMMA ReadersRecord ==
  ASSUME FitsInv, DiskInv, Tie, RecordInv, NEW p \in Processes, Harvest(p) \/ HarvestStep(p) \/ Kill(p)
  PROVE  RecordInv' /\ Tie'
  <1>1. RTypes
    BY DEF RecordInv
  <1>2. \A q \in Processes : q # p => cmd'[q] = cmd[q]
    BY OneCommand DEF Step
  <1>3. CASE Harvest(p)
    <2>1. cmd[p].at = "harvest" /\ Go(p, "harvesting") /\ LoadOffsets(p, cmd[p].n, cmd[p].nodes)
      BY <1>3 DEF Harvest, Is
    <2>2. ~Harvesting(p)
      BY <2>1 DEF Tie
    <2>3. cmd[p].n \in Names /\ cmd[p].nodes \in Seq(Nodes)
      BY <2>1 DEF FitsInv, Holds, HasLogs
    <2>4. RecordInv'
      BY <2>1, <2>2, <2>3, HarvestKeeps
    <2>5. \A q \in Processes : q # p => reader'[q] = reader[q]
      BY <1>1, <2>1 DEF LoadOffsets, RTypes
    <2>6. cmd'[p].at = "harvesting"
      BY <2>1 DEF Go, FitsInv, Holds
    <2>7. Tie'
      BY <1>2, <2>5, <2>6 DEF Tie, Harvesting
    <2> QED BY <2>4, <2>7
  <1>4. CASE HarvestStep(p)
    <2>1. \/ OpenFile(p) \/ NoFile(p) \/ ReadLine(p) \/ EndOfFile(p) \/ AllRead(p) \/ SaveOffsets(p)
          \/ (LoseOffsets(p) /\ record[reader[p].n] = <<>>) \/ DropHarvest(p)
      <3>1. \/ OpenFile(p) \/ NoFile(p) \/ ReadLine(p) \/ EndOfFile(p) \/ AllRead(p) \/ SaveOffsets(p)
            \/ (reader[p].n \notin dir /\ LoseOffsets(p)) \/ DropHarvest(p)
        BY <1>4 DEF HarvestStep, AppendFails
      <3>2. ASSUME reader[p].n \notin dir, LoseOffsets(p)
            PROVE  record[reader[p].n] = <<>>
        <4>1. reader[p].n \in Names
          BY <1>1, <3>2 DEF LoseOffsets, RTypes, Reader, Idle
        <4> QED BY <3>2, <4>1 DEF DiskInv
      <3> QED BY <3>1, <3>2
    <2>2. RecordInv'
      BY <2>1, HarvestKeeps
    <2>3. Harvesting(p) /\ \A q \in Processes : q # p => reader'[q] = reader[q]
      <3>1. CASE OpenFile(p)
        BY <1>1, <3>1 DEF OpenFile, Harvesting, RTypes
      <3>2. CASE NoFile(p) \/ AllRead(p)
        BY <1>1, <3>2 DEF NoFile, AllRead, Harvesting, RTypes
      <3>3. CASE ReadLine(p)
        BY <1>1, <3>3, LineIs
      <3>4. CASE EndOfFile(p)
        BY <1>1, <3>4, EndIs
      <3>5. CASE SaveOffsets(p) \/ LoseOffsets(p) \/ DropHarvest(p)
        BY <1>1, <3>5, OverIs
      <3> QED BY <2>1, <3>1, <3>2, <3>3, <3>4, <3>5
    <2>4. cmd[p].at = "harvesting"
      BY <2>3 DEF Tie
    <2>5. Harvesting(p)' => cmd'[p].at = "harvesting"
      <3>1. Harvesting(p)' => reader'[p] # Idle
        BY DEF Harvesting, Idle
      <3>2. reader'[p] # Idle => cmd' = cmd
        BY <1>4 DEF HarvestStep
      <3> QED BY <2>4, <3>1, <3>2
    <2>6. Tie'
      BY <1>2, <2>3, <2>5 DEF Tie, Harvesting
    <2> QED BY <2>2, <2>6
  <1>5. CASE Kill(p)
    <2>1. IF Harvesting(p) THEN DropHarvest(p) ELSE UNCHANGED recordVars
      BY <1>5 DEF Kill
    <2>2. RecordInv' /\ ~Harvesting(p)' /\ \A q \in Processes : q # p => reader'[q] = reader[q]
      <3>1. CASE Harvesting(p)
        BY <1>1, <2>1, <3>1, HarvestKeeps, OverIs
      <3>2. CASE ~Harvesting(p)
        <4>1. UNCHANGED recordVars
          BY <2>1, <3>2
        <4>2. reader' = reader
          BY <4>1 DEF recordVars
        <4> QED BY <3>2, <4>1, <4>2, RecordStays DEF Harvesting
      <3> QED BY <3>1, <3>2
    <2>3. Tie'
      BY <1>2, <2>2 DEF Tie, Harvesting
    <2> QED BY <2>2, <2>3
  <1> QED BY <1>3, <1>4, <1>5

LEMMA RecordNext ==
  ASSUME FitsInv, DiskInv, Tie, RecordInv, Next
  PROVE  RecordInv' /\ Tie'
  <1>1. ASSUME NEW p \in Processes, Step(p)
        PROVE  RecordInv' /\ Tie'
    <2>1. CASE EmptyDir(p) \/ Purge(p) \/ Harvest(p) \/ HarvestStep(p)
      BY <2>1, DestroyRecord, ReadersRecord
    <2>2. CASE \/ Image(p) \/ EnsureCluster(p) \/ EnsureNetwork(p) \/ WriteDescribe(p) \/ NowhereToWrite(p)
               \/ SnapshotDescribe(p) \/ CreateNode(p) \/ Assemble(p) \/ Remove(p) \/ Export(p)
      <3>1. cmd[p].at # "harvesting"
        BY <2>2 DEF Image, EnsureCluster, EnsureNetwork, WriteDescribe, NowhereToWrite, SnapshotDescribe,
                    CreateNode, Assemble, Remove, Export, Is
      <3>2. UNCHANGED recordVars
        BY <2>2 DEF Image, EnsureCluster, EnsureNetwork, WriteDescribe, NowhereToWrite, SnapshotDescribe,
                    CreateNode, Assemble, Remove, Rm, RmNetwork, Export
      <3> QED BY <1>1, <3>1, <3>2, RecordLeft
    <2> QED BY <1>1, <2>1, <2>2 DEF Step
  <1>2. ASSUME UNCHANGED cmd, \A q \in Processes : reader'[q].at = reader[q].at
        PROVE  Tie'
    BY <1>2 DEF Tie, Harvesting
  <1>3. CASE Halt
    <2>1. UNCHANGED recordVars /\ UNCHANGED cmd
      BY <1>3 DEF Halt
    <2>2. \A q \in Processes : reader'[q].at = reader[q].at
      BY <2>1 DEF recordVars
    <2> QED BY <1>2, <2>1, <2>2, RecordStays
  <1>4. CASE Around
    <2>1. UNCHANGED cmd
      BY <1>4 DEF Around
    <2>2. CASE Engine
      <3>1. PICK x \in Nodes : Stamp(x) \/ Words(x) \/ Newline(x) \/ Rotate(x)
        BY <2>2 DEF Engine
      <3>2. \A q \in Processes : reader'[q].at = reader[q].at
        <4>1. CASE Stamp(x) \/ Words(x) \/ Newline(x)
          BY <4>1 DEF Stamp, Words, Newline
        <4>2. CASE Rotate(x)
          <5>1. Unlink({x}) /\ RTypes
            BY <4>2 DEF Rotate, RecordInv
          <5> QED BY <5>1, UnlinkStays
        <4> QED BY <3>1, <4>1, <4>2
      <3> QED BY <1>2, <2>1, <3>1, <3>2, EngineKeeps
    <2>3. CASE Time
      <3>1. now' \in Nat /\ UNCHANGED <<said, record, offsets, log, reader, spoilt>>
        BY <2>3 DEF Time, Tick, RecordInv, RTypes
      <3>2. \A q \in Processes : reader'[q].at = reader[q].at
        BY <3>1
      <3> QED BY <1>2, <2>1, <3>1, <3>2, TickKeeps
    <2> QED BY <1>4, <2>2, <2>3 DEF Around
  <1> QED BY <1>1, <1>3, <1>4, CommandsRecord, ReadersRecord DEF Next

-----------------------------------------------------------------------------
(* The invariant of the whole, and the theorems.                           *)

LifeInv == FitsInv /\ DiskInv /\ WorldInv /\ BooksInv /\ Tie /\ RecordInv

LEMMA LifeInit == Init => LifeInv
  <1> SUFFICES ASSUME Init PROVE LifeInv
    OBVIOUS
  <1>1. FitsInv
    BY FitsInit
  <1>2. RecordInv
    BY RecordStarts DEF Init
  <1>3. /\ dir = {} /\ containers = {} /\ running = {} /\ networks = {} /\ strayed = {} /\ misopened = {}
        /\ opened = describe /\ work = [n \in Names |-> {}] /\ begun = 0 /\ mishaps = 0 /\ halts = 0
        /\ record = [n \in Names |-> <<>>] /\ describe = [n \in Names |-> Nil]
        /\ cmd = [p \in Processes |-> NoCmd] /\ reader = [p \in Processes |-> Idle]
    BY DEF Init, RecordInit
  <1>4. DiskInv
    BY <1>3 DEF DiskInv, Nil
  <1>5. WorldInv /\ BooksInv
    BY <1>3, LifecycleAssumption DEF WorldInv, BooksInv
  <1>6. Tie
    BY <1>3 DEF Tie, Harvesting, Idle
  <1> QED BY <1>1, <1>2, <1>4, <1>5, <1>6 DEF LifeInv

LEMMA LifeNext ==
  ASSUME LifeInv, [Next]_vars
  PROVE  LifeInv'
  <1>1. FitsInv /\ DiskInv /\ WorldInv /\ BooksInv /\ Tie /\ RecordInv
    BY DEF LifeInv
  <1>2. CASE UNCHANGED vars
    <2>1. UNCHANGED <<recordVars, diskVars, worldVars, cmd, begun, mishaps, halts, bookVars>>
      BY <1>2 DEF vars
    <2>2. FitsInv'
      BY <1>1, <2>1, NothingChanges DEF diskVars
    <2>3. DiskInv' /\ WorldInv'
      BY <1>1, <2>1, DiskStays, WorldStays DEF recordVars
    <2>4. BooksInv'
      BY <1>1, <2>1 DEF BooksInv, bookVars
    <2>5. RecordInv' /\ Tie'
      BY <1>1, <2>1, RecordStays DEF recordVars, Tie, Harvesting
    <2> QED BY <2>2, <2>3, <2>4, <2>5 DEF LifeInv
  <1>3. CASE Next
    <2>1. FitsInv'
      BY <1>1, <1>3, FitsNext DEF DiskInv
    <2>2. DiskInv'
      BY <1>1, <1>3, DiskNext DEF RecordInv
    <2>3. WorldInv'
      BY <1>1, <1>3, WorldNext
    <2>4. BooksInv'
      BY <1>1, <1>3, BooksNamed, BooksCount DEF BooksInv
    <2>5. RecordInv' /\ Tie'
      BY <1>1, <1>3, RecordNext
    <2> QED BY <2>1, <2>2, <2>3, <2>4, <2>5 DEF LifeInv
  <1> QED BY <1>2, <1>3

LEMMA LifeIsInvariant == Spec => []LifeInv
  <1>1. LifeInv /\ [Next]_vars => LifeInv'
    BY LifeNext
  <1> QED BY <1>1, LifeInit, PTL DEF Spec

(* Whatever is kept of a cluster is in its directory, a node's directory   *)
(* in its own cluster's, an artifact under the name it carries; a container *)
(* that runs is one the backend holds, of a node there is on a backend     *)
(* there is - for every set of clusters, processes, backends, options and   *)
(* artifacts, and wherever a command is cut off.                           *)
THEOREM TypesCorrect == Spec => []TypeOK
  <1>1. LifeInv => TypeOK
    <2> SUFFICES ASSUME LifeInv PROVE TypeOK
      OBVIOUS
    <2>1. \A n \in Names : describe[n].is => describe[n].v.cluster = n
      BY DEF LifeInv, FitsInv, AllFit, Fits, Written
    <2> QED BY <2>1 DEF TypeOK, LifeInv, DiskInv, WorldInv, BooksInv
  <1> QED BY <1>1, LifeIsInvariant, PTL

LEMMA FittingIsServable == FitsInv => Servable
  <1> SUFFICES ASSUME FitsInv, NEW n \in Names, describe[n].is
               PROVE  LET t == describe[n].v
                      IN /\ perNodeKey \in DOMAIN t.ha => Len(t.ha[perNodeKey].entries) = Count(DBNodes(t))
                         /\ HAOff(t) => DOMAIN t.ha = {}
                         /\ Shouted \notin DOMAIN t.common
                         /\ \A i \in DOMAIN t.nodes : t.nodes[i].name.of = n
    BY DEF Servable
  <1>1. Fits(n, describe[n].v)
    BY DEF FitsInv, AllFit
  <1> QED BY <1>1 DEF Fits, Written, SpeltOut

(* Every artifact on disk is one the assembly can build a group from, the  *)
(* sync mode once for each database node among it, for any options and any *)
(* artifact a csb wrote: create spells, refuses and folds, a rename        *)
(* resolves the derived fields anew and carries the parameters, and a      *)
(* create that has yet to write holds what it will write.                  *)
THEOREM ServableCorrect == Spec => []Servable
  <1>1. LifeInv => Servable
    BY FittingIsServable DEF LifeInv
  <1> QED BY <1>1, LifeIsInvariant, PTL

(* One thing the engine said is one entry of the record, however the       *)
(* harvests of any number of processes interleave with the engine's        *)
(* writing, its new files, what a destroy unlinks and other commands'      *)
(* entries - unless a harvest was cut off, two overlapped, or one read a   *)
(* line whose newline was still to come.                                   *)
THEOREM HarvestedOnceCorrect == Spec => []HarvestedOnce
  <1>1. LifeInv => HarvestedOnce
    BY RecordGives DEF LifeInv
  <1> QED BY <1>1, LifeIsInvariant, PTL

(* No line of a log is counted as read that is not in the record, in the   *)
(* same interleavings and with harvests that overlap or are cut off, but   *)
(* for a new log that outgrew the old one's offset and a record purged     *)
(* under a harvest.                                                        *)
THEOREM NothingSkippedCorrect == Spec => []NothingSkipped
  <1>1. LifeInv => NothingSkipped
    BY RecordGives DEF LifeInv
  <1> QED BY <1>1, LifeIsInvariant, PTL

-----------------------------------------------------------------------------
(* What a destroy leaves.  What stands of a cluster that has not strayed   *)
(* is where its artifact records, and a destroy sets out from there.       *)

\* Nothing stands but where the artifact records, or where a create that is
\* about to write records it.
Located(n) ==
  \A b \in Backends :
    /\ Boxes(n, b) # {} => b = Recorded(n)
    /\ Networked(n, b) => b = Recorded(n) \/ Placing(n, b)
LocatedInv == \A n \in Names \ strayed : Located(n)

\* What is still to go, and what has gone, at each place of a destroy.
Razed(c) ==
  /\ Recorded(c.n) \in {Unset, c.on}
  /\ c.at = "rm" =>
       /\ ~c.kept => Boxes(c.n, c.on) \subseteq c.boxes
       /\ \A b \in Backends :
            /\ Boxes(c.n, b) # {} => b = c.on
            /\ Networked(c.n, b) => b = c.on \/ Placing(c.n, b)
  /\ c.at # "rm" /\ ~c.kept =>
       \A b \in Backends : Boxes(c.n, b) = {} /\ (Networked(c.n, b) => b # c.on /\ Placing(c.n, b))
  /\ c.at = "purge" /\ ~c.kept => work[c.n] = {}
RazedInv == \A p \in Processes : cmd[p].at \in Removing /\ cmd[p].n \notin strayed => Razed(cmd[p])

\* A create that leaves the place where it was about to write has written, or
\* what it would have written is what stands there, or the cluster strays.
Resigns(q) ==
  cmd[q].at = "describe" =>
    cmd'[q] = cmd[q] \/ cmd[q].n \in strayed' \/ Recorded(cmd[q].n) = cmd[q].on

LEMMA PlacingStays ==
  ASSUME NEW n, n \notin strayed', NEW b, Placing(n, b), \A q \in Processes : cmd[q].n = n => Resigns(q)
  PROVE  Placing(n, b)' \/ Recorded(n) = b
  BY DEF Placing, Resigns

\* A step that adds nothing to the world but for one set of clusters.
LEMMA OthersStay ==
  ASSUME FitsInv, LocatedInv, RazedInv, strayed \subseteq strayed', NEW S,
         \A n \in Names \ S :
           /\ Recorded(n)' = Recorded(n) /\ work'[n] \subseteq work[n]
           /\ \A b : Boxes(n, b)' \subseteq Boxes(n, b) /\ (Networked(n, b)' => Networked(n, b)),
         \A n \in Names \cap S : n \notin strayed' => Located(n)',
         \A q \in Processes : cmd[q].n \notin S => Resigns(q),
         \A q \in Processes :
           \/ cmd'[q] = cmd[q] /\ cmd[q].n \notin S
           \/ cmd'[q].at \in Removing /\ cmd'[q].n \notin strayed' => Razed(cmd[q])'
  PROVE  LocatedInv' /\ RazedInv'
  <1>1. LocatedInv'
    <2>1. ASSUME NEW n \in Names \ S, n \notin strayed', NEW b \in Backends
          PROVE  /\ Boxes(n, b)' # {} => b = Recorded(n)'
                 /\ Networked(n, b)' => b = Recorded(n)' \/ Placing(n, b)'
      <3>1. /\ Boxes(n, b) # {} => b = Recorded(n)
            /\ Networked(n, b) => b = Recorded(n) \/ Placing(n, b)
        BY <2>1 DEF LocatedInv, Located
      <3>2. Placing(n, b) => Placing(n, b)' \/ Recorded(n) = b
        BY <2>1, PlacingStays
      <3>3. Recorded(n)' = Recorded(n) /\ Boxes(n, b)' \subseteq Boxes(n, b) /\ (Networked(n, b)' => Networked(n, b))
        OBVIOUS
      <3> QED BY <3>1, <3>2, <3>3
    <2> QED BY <2>1 DEF LocatedInv, Located
  <1>2. ASSUME NEW q \in Processes, NEW c, c = cmd[q], c = cmd'[q], c.at \in Removing,
               c.n \notin S, c.n \notin strayed'
        PROVE  Razed(c)'
    <2>1. Razed(c) /\ c.n \in Names
      BY <1>2 DEF RazedInv, FitsInv, Holds, HasClusters
    <2>2. \A b : Placing(c.n, b) => Placing(c.n, b)' \/ Recorded(c.n) = b
      BY <1>2, PlacingStays
    <2>3. /\ Recorded(c.n)' = Recorded(c.n) /\ work'[c.n] \subseteq work[c.n]
          /\ \A b : Boxes(c.n, b)' \subseteq Boxes(c.n, b) /\ (Networked(c.n, b)' => Networked(c.n, b))
      BY <1>2, <2>1
    <2>4. Unset \notin Backends
      BY LifecycleAssumption
    <2>5. Recorded(c.n)' \in {Unset, c.on}
      BY <2>1, <2>3 DEF Razed
    <2>6. ASSUME c.at = "rm"
          PROVE  /\ ~c.kept => Boxes(c.n, c.on)' \subseteq c.boxes
                 /\ \A b \in Backends :
                      /\ Boxes(c.n, b)' # {} => b = c.on
                      /\ Networked(c.n, b)' => b = c.on \/ Placing(c.n, b)'
      BY <2>1, <2>2, <2>3, <2>4, <2>6 DEF Razed
    <2>7. ASSUME c.at # "rm", ~c.kept
          PROVE  \A b \in Backends :
                   Boxes(c.n, b)' = {} /\ (Networked(c.n, b)' => b # c.on /\ Placing(c.n, b)')
      BY <2>1, <2>2, <2>3, <2>4, <2>7 DEF Razed
    <2>8. c.at = "purge" /\ ~c.kept => work'[c.n] = {}
      BY <2>1, <2>3 DEF Razed
    <2> QED BY <2>5, <2>6, <2>7, <2>8 DEF Razed
  <1>3. RazedInv'
    <2> SUFFICES ASSUME NEW q \in Processes, cmd'[q].at \in Removing, cmd'[q].n \notin strayed'
                 PROVE  Razed(cmd[q])'
      BY DEF RazedInv
    <2>1. CASE cmd'[q] = cmd[q] /\ cmd[q].n \notin S
      <3>1. PICK c : c = cmd[q]
        OBVIOUS
      <3>2. c = cmd'[q] /\ c.at \in Removing /\ c.n \notin S /\ c.n \notin strayed'
        BY <2>1, <3>1
      <3>3. Razed(c)'
        BY <1>2, <3>1, <3>2
      <3> QED BY <3>2, <3>3 DEF Razed
    <2> QED BY <2>1
  <1> QED BY <1>1, <1>3

\* A step of one process that adds nothing at all.
LEMMA Lessens ==
  ASSUME FitsInv, LocatedInv, RazedInv, NEW p \in Processes,
         strayed \subseteq strayed', describe' = describe,
         containers' \subseteq containers, networks' \subseteq networks,
         \A n \in Names : work'[n] \subseteq work[n],
         \A q \in Processes \ {p} : cmd'[q] = cmd[q],
         Resigns(p),
         cmd'[p].at \in Removing /\ cmd'[p].n \notin strayed' => Razed(cmd[p])'
  PROVE  LocatedInv' /\ RazedInv'
  <1>1. \A n, b : Boxes(n, b)' \subseteq Boxes(n, b) /\ (Networked(n, b)' => Networked(n, b))
    BY DEF Boxes, Networked
  <1>2. \A n : Recorded(n)' = Recorded(n)
    BY DEF Recorded
  <1>3. \A q \in Processes : Resigns(q)
    BY DEF Resigns
  <1>4. ASSUME NEW q \in Processes
        PROVE  \/ cmd'[q] = cmd[q]
               \/ cmd'[q].at \in Removing /\ cmd'[q].n \notin strayed' => Razed(cmd[q])'
    OBVIOUS
  <1> DEFINE S == {}
  <1>5. \A n \in Names \ S :
          /\ Recorded(n)' = Recorded(n) /\ work'[n] \subseteq work[n]
          /\ \A b : Boxes(n, b)' \subseteq Boxes(n, b) /\ (Networked(n, b)' => Networked(n, b))
    BY <1>1, <1>2
  <1>6. /\ \A n \in Names \cap S : n \notin strayed' => Located(n)'
        /\ \A q : q \notin S
    OBVIOUS
  <1> HIDE DEF S
  <1> QED BY <1>3, <1>4, <1>5, <1>6, OthersStay

\* A step that leaves the disk and the world alone, of a command that is not,
\* then, a destroy.
LEMMA Passes ==
  ASSUME FitsInv, LocatedInv, RazedInv, NEW p \in Processes, Command(p) \/ Step(p) \/ Kill(p),
         strayed \subseteq strayed', UNCHANGED <<describe, work, containers, networks>>,
         cmd'[p].at \notin Removing, Resigns(p)
  PROVE  LocatedInv' /\ RazedInv'
  <1>1. \A q \in Processes \ {p} : cmd'[q] = cmd[q]
    BY OneCommand
  <1>2. \A n \in Names : work'[n] \subseteq work[n]
    OBVIOUS
  <1>3. containers' \subseteq containers /\ networks' \subseteq networks
    OBVIOUS
  <1> QED BY <1>1, <1>2, <1>3, Lessens

\* A command begins where it is told to, and when no other runs.
LEMMA Begins ==
  ASSUME FitsInv, NEW p \in Processes, NEW verb, NEW c, Enter(p, verb, c), "at" \in DOMAIN c
  PROVE  /\ \A x \in DOMAIN c : cmd'[p][x] = c[x]
         /\ cmd[p].at \in {"idle", "answered"} /\ Resigns(p)
  <1>1. cmd'[p] = Over(c, [verb |-> verb])
    BY DEF Enter, FitsInv
  <1>2. \A x \in DOMAIN c : Over(c, [verb |-> verb])[x] = c[x]
    BY DEF Over
  <1> QED BY <1>1, <1>2 DEF Enter, Resigns

\* A create, an up, a reader and any other command starts with nothing taken
\* down.
LEMMA OthersBegin ==
  ASSUME FitsInv, NEW p \in Processes, Create(p) \/ CreateFrom(p) \/ Up(p) \/ Act(p) \/ Show(p)
  PROVE  cmd'[p].at \notin Removing /\ Resigns(p)
  <1>1. \E verb, c : Enter(p, verb, c) /\ "at" \in DOMAIN c /\ c.at \notin Removing
    <2>1. "at" \in DOMAIN Refused /\ Refused.at \notin Removing
      BY DEF Refused, Removing
    <2>2. CASE Create(p)
      <3>1. PICK c : Enter(p, "create", c) /\ (c = Refused \/ \E n, t, on, rec, labels : c =
                       [at |-> "image", n |-> n, t |-> t, on |-> on, rec |-> rec, labels |-> labels,
                        renamed |-> FALSE, old |-> FALSE])
        BY <2>2 DEF Create
      <3> QED BY <2>1, <3>1 DEF Removing
    <2>3. CASE CreateFrom(p)
      <3>1. PICK c : Enter(p, "create", c) /\ (c = Refused \/ \E n, t, on, rec, labels, renamed, old : c =
                       [at |-> "image", n |-> n, t |-> t, on |-> on, rec |-> rec, labels |-> labels,
                        renamed |-> renamed, old |-> old])
        BY <2>3 DEF CreateFrom
      <3> QED BY <2>1, <3>1 DEF Removing
    <2>4. CASE Up(p) \/ Act(p)
      <3>1. PICK verb, out : Enter(p, verb, [at |-> "answered", out |-> out])
        BY <2>4 DEF Up, Act
      <3> QED BY <3>1 DEF Removing
    <2>5. CASE Show(p)
      <3>1. PICK n : Enter(p, "show", IF describe[n].is
                                      THEN [at |-> "harvest", n |-> n, nodes |-> NodeNames(describe[n].v)]
                                      ELSE [at |-> "read", n |-> n])
        BY <2>5 DEF Show
      <3> QED BY <3>1 DEF Removing
    <2> QED BY <2>2, <2>3, <2>4, <2>5
  <1>2. PICK verb, c : Enter(p, verb, c) /\ "at" \in DOMAIN c /\ c.at \notin Removing
    BY <1>1
  <1> QED BY <1>2, Begins

LEMMA CommandsRaze ==
  ASSUME FitsInv, LocatedInv, RazedInv, NEW p \in Processes,
         Create(p) \/ CreateFrom(p) \/ Up(p) \/ Act(p) \/ Show(p)
  PROVE  LocatedInv' /\ RazedInv'
  <1>1. UNCHANGED <<describe, work, containers, networks, strayed>>
    BY DEF Create, CreateFrom, Up, Act, Show, SameArtifacts, SameWorld, worldVars, SameBooks, bookVars
  <1>2. Command(p)
    BY DEF Command
  <1> QED BY <1>1, <1>2, OthersBegin, Passes

\* Where a command goes on to.
LEMMA GoesTo ==
  ASSUME FitsInv, NEW p \in Processes, NEW at, Go(p, at)
  PROVE  /\ cmd'[p].at = at
         /\ \A x \in DOMAIN cmd[p] : x # "at" => cmd'[p][x] = cmd[p][x]
  <1>1. "at" \in DOMAIN cmd[p]
    BY DEF FitsInv, Holds
  <1> QED BY <1>1 DEF Go, FitsInv

LEMMA AnswersAt ==
  ASSUME FitsInv, NEW p \in Processes, NEW out, Answer(p, out)
  PROVE  cmd'[p].at \notin Removing
  BY DEF Answer, FitsInv, Removing

\* The steps of a create that build nothing, and a reader's.
LEMMA PassingSteps ==
  ASSUME FitsInv, NEW p \in Processes,
         \/ Image(p) \/ EnsureCluster(p) \/ SnapshotDescribe(p) \/ Assemble(p)
         \/ Harvest(p) \/ HarvestStep(p) \/ Export(p)
  PROVE  cmd'[p].at \notin Removing /\ Resigns(p)
  <1>1. ASSUME NEW at, Go(p, at), at \notin Removing
        PROVE  cmd'[p].at \notin Removing
    BY <1>1, GoesTo
  <1>2. {"store", "network", "nodes", "harvesting", "read"} \cap Removing = {}
    BY DEF Removing
  <1>3. CASE Image(p) \/ EnsureCluster(p) \/ Assemble(p) \/ Harvest(p)
    BY <1>1, <1>2, <1>3, AnswersAt DEF Image, EnsureCluster, Assemble, Harvest, Is, Resigns
  <1>4. CASE SnapshotDescribe(p)
    <2>1. /\ cmd[p].at = "snapshot"
          /\ cmd'[p] = Over([at |-> "nodes", left |-> NodeNames(cmd[p].t)], cmd[p])
      BY <1>4 DEF SnapshotDescribe, Is, FitsInv
    <2>2. cmd'[p].at = "nodes"
      BY <2>1 DEF Over
    <2> QED BY <1>2, <2>1, <2>2 DEF Resigns
  <1>5. CASE HarvestStep(p)
    <2>1. cmd[p].at = "harvesting" /\ (cmd' = [cmd EXCEPT ![p].at = "read"] \/ cmd' = cmd)
      BY <1>5 DEF HarvestStep, Is
    <2>2. cmd' = [cmd EXCEPT ![p].at = "read"] => cmd'[p].at = "read"
      BY GoesTo DEF Go
    <2> QED BY <1>2, <2>1, <2>2 DEF Resigns
  <1>6. CASE Export(p)
    BY <1>6 DEF Export, Is, FitsInv, Removing, Resigns
  <1> QED BY <1>3, <1>4, <1>5, <1>6

LEMMA PassingStepsRaze ==
  ASSUME FitsInv, LocatedInv, RazedInv, NEW p \in Processes,
         \/ Image(p) \/ EnsureCluster(p) \/ SnapshotDescribe(p) \/ Assemble(p)
         \/ Harvest(p) \/ HarvestStep(p) \/ Export(p)
  PROVE  LocatedInv' /\ RazedInv'
  <1>1. UNCHANGED <<describe, work, containers, networks, strayed>>
    BY DEF Image, EnsureCluster, SnapshotDescribe, Assemble, Harvest, HarvestStep, Export,
           SameArtifacts, SameDisk, diskVars, SameWorld, worldVars, SameBooks, bookVars
  <1>2. Step(p)
    BY DEF Step
  <1> QED BY <1>1, <1>2, PassingSteps, Passes

\* A create that cannot write, and a command that is cut off.
LEMMA CutOffRaze ==
  ASSUME FitsInv, LocatedInv, RazedInv, NEW p \in Processes, NowhereToWrite(p) \/ Kill(p)
  PROVE  LocatedInv' /\ RazedInv'
  <1>1. UNCHANGED <<describe, work, containers, networks>> /\ strayed \subseteq strayed'
    BY DEF NowhereToWrite, Kill, SameDisk, diskVars, SameWorld, worldVars
  <1>2. Step(p) \/ Kill(p)
    BY DEF Step
  <1>3. cmd'[p].at \notin Removing
    <2>1. CASE NowhereToWrite(p)
      BY <2>1, AnswersAt DEF NowhereToWrite
    <2>2. CASE Kill(p)
      BY <2>2 DEF Kill, NoCmd, FitsInv, Removing
    <2> QED BY <2>1, <2>2
  <1>4. Resigns(p)
    <2>1. cmd[p].at = "describe" => strayed' = strayed \cup Unlocated(p)
      BY DEF NowhereToWrite, Kill, Is
    <2> QED BY <2>1 DEF Unlocated, Resigns
  <1> QED BY <1>1, <1>2, <1>3, <1>4, Passes

\* A step of a create that builds: in its own cluster, which strays if that
\* is being destroyed.
LEMMA BuildsThere ==
  ASSUME FitsInv, LocatedInv, RazedInv, NEW p \in Processes, Step(p), strayed \subseteq strayed',
         NEW n \in Names, cmd[p].n = n, cmd'[p].at \notin Removing, Crossed(n) \subseteq strayed',
         \A m \in Names \ {n} :
           /\ Recorded(m)' = Recorded(m) /\ work'[m] \subseteq work[m]
           /\ \A b : Boxes(m, b)' \subseteq Boxes(m, b) /\ (Networked(m, b)' => Networked(m, b)),
         n \notin strayed' => Located(n)'
  PROVE  LocatedInv' /\ RazedInv'
  <1> DEFINE S == {n}
  <1>1. \A q \in Processes \ {p} : cmd'[q] = cmd[q]
    BY OneCommand
  <1>2. \A q \in Processes : cmd[q].n \notin S => Resigns(q)
    BY <1>1 DEF Resigns
  <1>3. ASSUME NEW q \in Processes
        PROVE  \/ cmd'[q] = cmd[q] /\ cmd[q].n \notin S
               \/ cmd'[q].at \in Removing /\ cmd'[q].n \notin strayed' => Razed(cmd[q])'
    <2>1. n \notin strayed' => ~(cmd[q].at \in Removing /\ cmd[q].n = n)
      BY DEF Crossed, Removing
    <2> QED BY <1>1, <2>1
  <1>4. \A m \in Names \cap S : m \notin strayed' => Located(m)'
    OBVIOUS
  <1> HIDE DEF S
  <1>5. \A m \in Names \ S :
          /\ Recorded(m)' = Recorded(m) /\ work'[m] \subseteq work[m]
          /\ \A b : Boxes(m, b)' \subseteq Boxes(m, b) /\ (Networked(m, b)' => Networked(m, b))
    BY DEF S
  <1> QED BY <1>2, <1>3, <1>4, <1>5, OthersStay

\* The network is made where the create will write that it builds.
LEMMA EnsureNetworkRazes ==
  ASSUME FitsInv, LocatedInv, RazedInv, NEW p \in Processes, EnsureNetwork(p)
  PROVE  LocatedInv' /\ RazedInv'
  <1>1. /\ cmd[p].at = "network" /\ UNCHANGED <<describe, work, containers>>
        /\ strayed' = strayed \cup Crossed(cmd[p].n)
    BY DEF EnsureNetwork, Is, SameDisk, diskVars
  <1>2. Step(p)
    BY DEF Step
  <1>3. CASE networks' = networks /\ \E out : Answer(p, out)
    <2>1. cmd'[p].at \notin Removing /\ Resigns(p)
      BY <1>1, <1>3, AnswersAt DEF Resigns
    <2> QED BY <1>1, <1>2, <1>3, <2>1, Passes
  <1>4. CASE networks' = networks \cup {[of |-> cmd[p].n, on |-> cmd[p].on]} /\ Go(p, "describe")
    <2>1. PICK n, on : n = cmd[p].n /\ on = cmd[p].on
      OBVIOUS
    <2>2. n \in Names
      BY <1>1, <2>1, BuildsIn DEF Building
    <2>3. cmd'[p].at = "describe" /\ cmd'[p].n = n /\ cmd'[p].on = on
      <3>1. {"n", "on"} \subseteq DOMAIN cmd[p]
        BY <1>1 DEF FitsInv, Holds, HasArtifact, Building
      <3> QED BY <1>4, <2>1, <3>1, GoesTo
    <2>4. Placing(n, on)'
      BY <2>3 DEF Placing
    <2>5. \A m, b : /\ Recorded(m)' = Recorded(m) /\ Boxes(m, b)' = Boxes(m, b)
                    /\ Networked(m, b)' => Networked(m, b) \/ (m = n /\ b = on)
      BY <1>1, <1>4, <2>1 DEF Recorded, Boxes, Networked
    <2>6. \A m \in Names \ {n} :
            /\ Recorded(m)' = Recorded(m) /\ work'[m] \subseteq work[m]
            /\ \A b : Boxes(m, b)' \subseteq Boxes(m, b) /\ (Networked(m, b)' => Networked(m, b))
      BY <1>1, <2>5
    <2>7. ASSUME n \notin strayed' PROVE Located(n)'
      <3>1. Located(n)
        BY <1>1, <2>2, <2>7 DEF LocatedInv
      <3>2. \A b : Placing(n, b) => Placing(n, b)'
        <4>1. \A q \in Processes \ {p} : cmd'[q] = cmd[q]
          BY <1>2, OneCommand
        <4> QED BY <1>1, <4>1 DEF Placing
      <3> QED BY <2>4, <2>5, <3>1, <3>2 DEF Located
    <2>8. cmd'[p].at \notin Removing /\ Crossed(n) \subseteq strayed' /\ cmd[p].n = n /\ strayed \subseteq strayed'
      BY <1>1, <2>1, <2>3 DEF Removing
    <2> QED BY <1>2, <2>2, <2>6, <2>7, <2>8, BuildsThere
  <1> QED BY <1>3, <1>4 DEF EnsureNetwork

\* What is written down is where the create builds, and all that stands.
LEMMA WriteDescribeRazes ==
  ASSUME FitsInv, LocatedInv, RazedInv, NEW p \in Processes, WriteDescribe(p)
  PROVE  LocatedInv' /\ RazedInv'
  <1> DEFINE c == cmd[p]
  <1>1. /\ c.at = "describe" /\ Go(p, "snapshot") /\ UNCHANGED <<work, containers, networks>>
        /\ describe' = [describe EXCEPT ![c.n] = Just(c.t)]
        /\ strayed' = strayed \cup (IF Left(p, c.n) THEN {c.n} ELSE {}) \cup Crossed(c.n)
    BY DEF WriteDescribe, Is, SameWorld, worldVars
  <1>2. Step(p)
    BY DEF Step
  <1>3. PICK n, on, t : n = c.n /\ on = c.on /\ t = c.t
    OBVIOUS
  <1>4. /\ n \in Names /\ IF t.backend = Unset THEN c.renamed \/ c.old ELSE on = t.backend
    BY <1>1, <1>3, BuildsIn DEF FitsInv, Holds, HasArtifact, Meant, Building
  <1>5. /\ \A m, b : Boxes(m, b)' = Boxes(m, b) /\ Networked(m, b)' = Networked(m, b)
        /\ \A m \in Names \ {n} : Recorded(m)' = Recorded(m)
        /\ Recorded(n)' = t.backend
    BY <1>1, <1>3, <1>4 DEF Boxes, Networked, Recorded, Just, FitsInv
  <1>6. \A m \in Names \ {n} :
          /\ Recorded(m)' = Recorded(m) /\ work'[m] \subseteq work[m]
          /\ \A b : Boxes(m, b)' \subseteq Boxes(m, b) /\ (Networked(m, b)' => Networked(m, b))
    BY <1>1, <1>5
  <1>7. ASSUME n \notin strayed' PROVE Located(n)'
    <2>1. ~Left(p, n)
      BY <1>1, <1>3, <1>7
    <2>2. \A b \in Backends \ {on} : Boxes(n, b) = {} /\ ~Networked(n, b)
      BY <1>3, <2>1 DEF Left, Stands, Networked
    <2>3. on = t.backend
      BY <1>3, <1>4, <2>1 DEF Left
    <2> QED BY <1>5, <2>2, <2>3 DEF Located
  <1>8. cmd'[p].at \notin Removing /\ Crossed(n) \subseteq strayed' /\ strayed \subseteq strayed'
    BY <1>1, <1>3, GoesTo DEF Removing
  <1> QED BY <1>2, <1>3, <1>4, <1>6, <1>7, <1>8, BuildsThere

\* A container is made where the artifact records, or the cluster strays.
LEMMA CreateNodeRazes ==
  ASSUME FitsInv, DiskInv, LocatedInv, RazedInv, NEW p \in Processes, CreateNode(p)
  PROVE  LocatedInv' /\ RazedInv'
  <1> DEFINE c == cmd[p]
             box == [node |-> c.left[1], on |-> c.on]
  <1>1. /\ c.at = "nodes" /\ c.left # <<>> /\ UNCHANGED <<describe, networks>>
        /\ containers' = containers \/ containers' = containers \cup {box}
        /\ work' = [work EXCEPT ![c.n] = @ \cup {box.node}]
        /\ strayed' = strayed \cup Unlocated(p) \cup Crossed(c.n)
    BY DEF CreateNode, Is
  <1>2. Step(p)
    BY DEF Step
  <1>3. PICK n, on, x : n = c.n /\ on = c.on /\ x = c.left[1]
    OBVIOUS
  <1>4. n \in Names /\ on \in Backends /\ x.of = n
    <2>1. c.n \in Names /\ c.on \in Backends /\ c.left \in Seq(NodesOf(c.n))
      BY <1>1 DEF FitsInv, Holds, HasNodes
    <2>2. c.left[1] \in NodesOf(c.n)
      BY <1>1, <2>1
    <2> QED BY <1>3, <2>1, <2>2 DEF NodesOf
  <1>5. \A m, b : /\ Recorded(m)' = Recorded(m) /\ Networked(m, b)' = Networked(m, b)
                  /\ m # n \/ b # on => Boxes(m, b)' = Boxes(m, b)
    BY <1>1, <1>3, <1>4 DEF Boxes, Networked, Recorded
  <1>6. \A m \in Names \ {n} :
          /\ Recorded(m)' = Recorded(m) /\ work'[m] \subseteq work[m]
          /\ \A b : Boxes(m, b)' \subseteq Boxes(m, b) /\ (Networked(m, b)' => Networked(m, b))
    BY <1>1, <1>3, <1>5 DEF DiskInv
  <1>7. \A q \in Processes \ {p} : cmd'[q] = cmd[q]
    BY <1>2, OneCommand
  <1>8. ASSUME n \notin strayed' PROVE Located(n)'
    <2>1. Recorded(n) = on /\ n \notin strayed
      BY <1>1, <1>3, <1>8 DEF Unlocated
    <2>2. Located(n)
      BY <1>4, <2>1 DEF LocatedInv
    <2>3. \A b : Placing(n, b) => Placing(n, b)'
      BY <1>1, <1>7 DEF Placing
    <2> QED BY <1>5, <2>1, <2>2, <2>3 DEF Located
  <1>9. cmd'[p].at \notin Removing
    <2>1. CASE cmd' = [cmd EXCEPT ![p].left = Tail(@)]
      BY <1>1, <2>1 DEF FitsInv, Holds, Removing
    <2>2. CASE Answer(p, "failed")
      BY <2>2, AnswersAt
    <2> QED BY <2>1, <2>2 DEF CreateNode
  <1>10. Crossed(n) \subseteq strayed' /\ strayed \subseteq strayed'
    BY <1>1, <1>3
  <1> QED BY <1>2, <1>3, <1>4, <1>6, <1>8, <1>9, <1>10, BuildsThere

\* A create that is about to write is not disturbed by another command.
LEMMA PlacingBeside ==
  ASSUME FitsInv, NEW p \in Processes, Command(p) \/ Step(p), cmd[p].at # "describe", NEW n, NEW b, Placing(n, b)
  PROVE  Placing(n, b)'
  <1>1. \A q \in Processes \ {p} : cmd'[q] = cmd[q]
    BY OneCommand
  <1> QED BY <1>1 DEF Placing

\* A destroy sets out for all that stands, where it stands.
LEMMA SetsOut ==
  ASSUME NEW n \in Names, Located(n), UNCHANGED <<containers, networks>>,
         Recorded(n)' \in {Unset, Recorded(n)},
         \A b : Placing(n, b) => Placing(n, b)',
         NEW d, NEW c, c.at = "rm", \A x \in {"n", "on", "boxes", "kept"} : c[x] = ToRemove(n, d)[x]
  PROVE  Razed(c)'
  <1>1. /\ c.n = n /\ c.on = backendFor(Recorded(n), Unset, d)
        /\ c.boxes = Boxes(n, c.on) /\ c.kept = FALSE
    BY DEF ToRemove, Listed
  <1>2. \A b : Boxes(n, b)' = Boxes(n, b) /\ Networked(n, b)' = Networked(n, b)
    BY DEF Boxes, Networked
  <1>3. Recorded(n) # Unset => c.on = Recorded(n)
    BY <1>1 DEF backendFor
  <1>4. Unset \notin Backends
    BY LifecycleAssumption
  <1>5. /\ \A b \in Backends : /\ Boxes(n, b)' # {} => b = c.on
                               /\ Networked(n, b)' => b = c.on \/ Placing(n, b)'
        /\ Recorded(n)' \in {Unset, c.on}
    BY <1>2, <1>3, <1>4 DEF Located
  <1>6. Boxes(n, c.on)' \subseteq c.boxes
    BY <1>1, <1>2
  <1> QED BY <1>1, <1>5, <1>6 DEF Razed

LEMMA DestroyRazes ==
  ASSUME FitsInv, DiskInv, LocatedInv, RazedInv, NEW p \in Processes, Destroy(p) \/ DestroyByLabel(p)
  PROVE  LocatedInv' /\ RazedInv'
  <1>1. UNCHANGED <<describe, work, containers, networks, strayed>>
    BY DEF Destroy, DestroyByLabel, SameArtifacts, SameWorld, worldVars, SameBooks, bookVars
  <1>2. Command(p)
    BY DEF Command
  <1>3. cmd[p].at \in {"idle", "answered"}
    BY DEF Destroy, DestroyByLabel, Enter
  <1>4. \/ cmd'[p].at \notin Removing
        \/ \E n \in Names, d \in Backends :
             /\ cmd'[p].at = "rm"
             /\ \A x \in {"n", "on", "boxes", "kept"} : cmd'[p][x] = ToRemove(n, d)[x]
    <2>1. ASSUME NEW n \in Names, NEW d \in Backends, NEW r, "at" \in DOMAIN r, r.at = "rm",
                 Enter(p, "destroy", Over(ToRemove(n, d), r))
          PROVE  /\ cmd'[p].at = "rm"
                 /\ \A x \in {"n", "on", "boxes", "kept"} : cmd'[p][x] = ToRemove(n, d)[x]
      <3> DEFINE c == Over(ToRemove(n, d), r)
      <3>1. DOMAIN ToRemove(n, d) = {"n", "on", "boxes", "kept"}
        BY DEF ToRemove
      <3>2. /\ "at" \in DOMAIN c /\ c.at = "rm"
            /\ \A x \in {"n", "on", "boxes", "kept"} : x \in DOMAIN c /\ c[x] = ToRemove(n, d)[x]
        BY <2>1, <3>1 DEF Over
      <3>3. Enter(p, "destroy", c)
        BY <2>1
      <3> HIDE DEF c
      <3>4. \A x \in DOMAIN c : cmd'[p][x] = c[x]
        BY <3>2, <3>3, Begins
      <3> QED BY <3>2, <3>4
    <2>2. CASE Destroy(p)
      <3>1. PICK n \in Names, purge \in BOOLEAN, d \in Backends :
              Enter(p, "destroy", Over(ToRemove(n, d),
                       [at |-> "rm", purge |-> purge, then |-> {}, env |-> Unset, sel |-> Nil]))
        BY <2>2 DEF Destroy
      <3> DEFINE r == [at |-> "rm", purge |-> purge, then |-> {}, env |-> Unset, sel |-> Nil]
      <3>2. "at" \in DOMAIN r /\ r.at = "rm"
        OBVIOUS
      <3>3. Enter(p, "destroy", Over(ToRemove(n, d), r))
        BY <3>1
      <3> HIDE DEF r
      <3> QED BY <2>1, <3>2, <3>3
    <2>3. CASE DestroyByLabel(p)
      <3>1. PICK s \in Selectors, purge \in BOOLEAN, d \in Backends :
              LET hits == IF s.session = Unset THEN Hits(s) ELSE {}
                  n == CHOOSE n \in hits : TRUE
              IN Enter(p, "destroy", IF hits = {} THEN Refused
                                     ELSE Over(ToRemove(n, d),
                                       [at |-> "rm", purge |-> purge, then |-> hits \ {n},
                                        env |-> IF hits = {n} THEN Unset ELSE d, sel |-> Just(s)]))
        BY <2>3 DEF DestroyByLabel
      <3> DEFINE hits == IF s.session = Unset THEN Hits(s) ELSE {}
                 n == CHOOSE n \in hits : TRUE
                 r == [at |-> "rm", purge |-> purge, then |-> hits \ {n},
                       env |-> IF hits = {n} THEN Unset ELSE d, sel |-> Just(s)]
      <3>2. CASE hits = {}
        <4>1. "at" \in DOMAIN Refused /\ Refused.at \notin Removing
          BY DEF Refused, Removing
        <4> QED BY <3>1, <3>2, <4>1, Begins
      <3>3. CASE hits # {}
        <4>1. n \in Names
          <5>1. n \in hits
            BY <3>3
          <5> QED BY <5>1 DEF Hits, DiskInv
        <4>2. "at" \in DOMAIN r /\ r.at = "rm"
          OBVIOUS
        <4>3. Enter(p, "destroy", Over(ToRemove(n, d), r))
          BY <3>1, <3>3
        <4> HIDE DEF hits, n, r
        <4> QED BY <2>1, <4>1, <4>2, <4>3
      <3> QED BY <3>2, <3>3
    <2> QED BY <2>2, <2>3
  <1>5. cmd'[p].at \in Removing /\ cmd'[p].n \notin strayed' => Razed(cmd[p])'
    <2> SUFFICES ASSUME cmd'[p].at \in Removing, cmd'[p].n \notin strayed'
                 PROVE  Razed(cmd[p])'
      OBVIOUS
    <2>1. PICK c : c = cmd'[p]
      OBVIOUS
    <2>2. PICK n \in Names, d \in Backends :
            c.at = "rm" /\ \A x \in {"n", "on", "boxes", "kept"} : c[x] = ToRemove(n, d)[x]
      BY <1>4, <2>1
    <2>3. Located(n)
      BY <1>1, <2>2, <2>1 DEF LocatedInv, ToRemove
    <2>4. \A b : Placing(n, b) => Placing(n, b)'
      BY <1>2, <1>3, PlacingBeside
    <2>5. Recorded(n)' \in {Unset, Recorded(n)}
      BY <1>1 DEF Recorded
    <2>6. Razed(c)'
      BY <1>1, <2>2, <2>3, <2>4, <2>5, SetsOut
    <2> QED BY <2>6, <2>1 DEF Razed
  <1>6. /\ \A q \in Processes \ {p} : cmd'[q] = cmd[q]
        /\ \A n \in Names : work'[n] \subseteq work[n]
    BY <1>1, <1>2, OneCommand
  <1>7. Resigns(p) /\ containers' \subseteq containers /\ networks' \subseteq networks /\ strayed \subseteq strayed'
    BY <1>1, <1>3 DEF Resigns
  <1> QED BY <1>1, <1>5, <1>6, <1>7, Lessens

\* A destroy's own steps: what is left is what it has still to remove.
LEMMA RemoveRazes ==
  ASSUME FitsInv, LocatedInv, RazedInv, NEW p \in Processes, Remove(p)
  PROVE  LocatedInv' /\ RazedInv'
  <1>1. /\ cmd[p].at = "rm" /\ UNCHANGED <<describe, work, strayed>>
        /\ containers' \subseteq containers /\ networks' \subseteq networks
    BY DEF Remove, Rm, RmNetwork, Is, SameDisk, diskVars, SameBooks, bookVars
  <1>2. Step(p)
    BY DEF Step
  <1>3. PICK c : c = cmd[p]
    OBVIOUS
  <1>4. {"at", "n", "on", "boxes", "kept"} \subseteq DOMAIN c /\ c.n \in Names /\ c.at = "rm"
    BY <1>1, <1>3 DEF FitsInv, Holds, HasClusters, Removing
  <1>5. /\ \A n, b : Placing(n, b) => Placing(n, b)'
        /\ \A n, b : Boxes(n, b)' \subseteq Boxes(n, b) /\ (Networked(n, b)' => Networked(n, b))
        /\ \A n : Recorded(n)' = Recorded(n)
    BY <1>1, <1>2, PlacingBeside DEF Boxes, Networked, Recorded
  <1>6. ASSUME NEW d, d = cmd'[p], d.n \notin strayed'
        PROVE  Razed(d)'
    <2>1. CASE Rm(p)
      <3>1. PICK x \in c.boxes :
              \/ containers' = containers \ {x} /\ cmd' = [cmd EXCEPT ![p].boxes = @ \ {x}]
              \/ cmd' = [cmd EXCEPT ![p].boxes = @ \ {x}, ![p].kept = TRUE]
        BY <1>3, <2>1 DEF Rm
      <3>2. /\ d.at = "rm" /\ d.n = c.n /\ d.on = c.on
            /\ d.kept \/ (d.kept = c.kept /\ d.boxes = c.boxes \ {x} /\ containers' = containers \ {x})
        BY <1>3, <1>4, <1>6, <3>1 DEF FitsInv
      <3>3. Razed(c)
        BY <1>1, <1>3, <1>4, <1>6, <3>2 DEF RazedInv, Removing
      <3>4. ~d.kept => Boxes(d.n, d.on)' \subseteq d.boxes
        <4>1. containers' = containers \ {x} => x \notin Boxes(d.n, d.on)'
          BY DEF Boxes
        <4> QED BY <1>4, <1>5, <3>2, <3>3, <4>1 DEF Razed
      <3>5. \A b \in Backends : /\ Boxes(d.n, b)' # {} => b = d.on
                                /\ Networked(d.n, b)' => b = d.on \/ Placing(d.n, b)'
        BY <1>4, <1>5, <3>2, <3>3 DEF Razed
      <3>6. Recorded(d.n)' \in {Unset, d.on}
        BY <1>5, <3>2, <3>3 DEF Razed
      <3> QED BY <3>2, <3>4, <3>5, <3>6 DEF Razed
    <2>2. CASE RmNetwork(p)
      <3> DEFINE net == [of |-> c.n, on |-> c.on]
      <3>1. /\ c.boxes = {}
            /\ \/ /\ cmd' = [cmd EXCEPT ![p].at = "empty"]
                  /\ Boxes(c.n, c.on) = {} => networks' = networks \ {net}
               \/ cmd' = [cmd EXCEPT ![p].at = "empty", ![p].kept = TRUE]
        BY <1>3, <2>2 DEF RmNetwork, Go
      <3>2. /\ d.at = "empty" /\ d.n = c.n /\ d.on = c.on
            /\ d.kept \/ (d.kept = c.kept /\ (Boxes(c.n, c.on) = {} => networks' = networks \ {net}))
        BY <1>3, <1>4, <1>6, <3>1 DEF FitsInv
      <3>3. Razed(c)
        BY <1>1, <1>3, <1>4, <1>6, <3>2 DEF RazedInv, Removing
      <3>4. ~d.kept /\ Boxes(c.n, c.on) = {} => ~Networked(c.n, c.on)'
        BY <3>2 DEF Networked
      <3>5. ASSUME ~d.kept, NEW b \in Backends
            PROVE  Boxes(d.n, b)' = {} /\ (Networked(d.n, b)' => b # d.on /\ Placing(d.n, b)')
        BY <1>4, <1>5, <3>1, <3>2, <3>3, <3>4, <3>5 DEF Razed
      <3>6. Recorded(d.n)' \in {Unset, d.on}
        BY <1>5, <3>2, <3>3 DEF Razed
      <3> QED BY <3>2, <3>5, <3>6 DEF Razed
    <2> QED BY <2>1, <2>2 DEF Remove
  <1>7. cmd'[p].n \notin strayed' => Razed(cmd[p])'
    <2>1. PICK d : d = cmd'[p]
      OBVIOUS
    <2> QED BY <1>6, <2>1 DEF Razed
  <1>8. /\ \A q \in Processes \ {p} : cmd'[q] = cmd[q]
        /\ \A n \in Names : work'[n] \subseteq work[n]
        /\ Resigns(p) /\ strayed \subseteq strayed'
    BY <1>1, <1>2, OneCommand DEF Resigns
  <1> QED BY <1>1, <1>7, <1>8, Lessens

LEMMA EmptyDirRazes ==
  ASSUME FitsInv, DiskInv, LocatedInv, RazedInv, NEW p \in Processes, EmptyDir(p)
  PROVE  LocatedInv' /\ RazedInv'
  <1>1. /\ cmd[p].at = "empty" /\ UNCHANGED <<describe, containers, networks, strayed>>
    BY DEF EmptyDir, Is, SameWorld, worldVars, SameBooks, bookVars
  <1>2. Step(p)
    BY DEF Step
  <1>3. PICK c : c = cmd[p]
    OBVIOUS
  <1>4. {"at", "n", "on", "boxes", "kept"} \subseteq DOMAIN c /\ c.n \in Names /\ c.at = "empty"
    BY <1>1, <1>3 DEF FitsInv, Holds, HasClusters, Removing
  <1>5. /\ \A n, b : Placing(n, b) => Placing(n, b)'
        /\ \A n, b : Boxes(n, b)' = Boxes(n, b) /\ Networked(n, b)' = Networked(n, b)
        /\ \A n : Recorded(n)' = Recorded(n)
    BY <1>1, <1>2, PlacingBeside DEF Boxes, Networked, Recorded
  <1>6. PICK gone \in SUBSET work[c.n] :
          /\ work' = [work EXCEPT ![c.n] = @ \ gone]
          /\ \/ gone = work[c.n] /\ cmd' = [cmd EXCEPT ![p].at = "purge"]
             \/ cmd' = [cmd EXCEPT ![p].at = "purge", ![p].kept = TRUE]
    BY <1>3 DEF EmptyDir, Go
  <1>7. /\ \A n \in Names : work'[n] \subseteq work[n]
        /\ gone = work[c.n] => work'[c.n] = {}
    BY <1>4, <1>6 DEF DiskInv
  <1>8. ASSUME NEW d, d = cmd'[p], d.n \notin strayed'
        PROVE  Razed(d)'
    <2>1. /\ d.at = "purge" /\ d.n = c.n /\ d.on = c.on
          /\ d.kept \/ (d.kept = c.kept /\ work'[d.n] = {})
      BY <1>3, <1>4, <1>6, <1>7, <1>8 DEF FitsInv
    <2>2. Razed(c)
      BY <1>1, <1>3, <1>4, <1>8, <2>1 DEF RazedInv, Removing
    <2>3. ASSUME ~d.kept, NEW b \in Backends
          PROVE  Boxes(d.n, b)' = {} /\ (Networked(d.n, b)' => b # d.on /\ Placing(d.n, b)')
      BY <1>4, <1>5, <2>1, <2>2, <2>3 DEF Razed
    <2>4. Recorded(d.n)' \in {Unset, d.on}
      BY <1>5, <2>1, <2>2 DEF Razed
    <2> QED BY <2>1, <2>3, <2>4 DEF Razed
  <1>9. cmd'[p].n \notin strayed' => Razed(cmd[p])'
    <2>1. PICK d : d = cmd'[p]
      OBVIOUS
    <2> QED BY <1>8, <2>1 DEF Razed
  <1>10. /\ \A q \in Processes \ {p} : cmd'[q] = cmd[q]
         /\ Resigns(p) /\ strayed \subseteq strayed'
         /\ containers' \subseteq containers /\ networks' \subseteq networks
    BY <1>1, <1>2, OneCommand DEF Resigns
  <1> QED BY <1>1, <1>7, <1>9, <1>10, Lessens

\* The next cluster of a destroy by label is taken on as the first was.
LEMMA PurgeSetsOut ==
  ASSUME FitsInv, LocatedInv, NEW p \in Processes, Purge(p), strayed \subseteq strayed',
         UNCHANGED <<containers, networks>>,
         \A n \in Names : Recorded(n)' \in {Unset, Recorded(n)}
  PROVE  cmd'[p].at \in Removing /\ cmd'[p].n \notin strayed' => Razed(cmd[p])'
  <1>1. PICK c : c = cmd[p]
    OBVIOUS
  <1>2. /\ c.at = "purge" /\ {"n", "then"} \subseteq DOMAIN c /\ c.then \subseteq Names
    BY <1>1 DEF Purge, Is, FitsInv, Holds, HasClusters, Removing
  <1>3. CASE c.then = {}
    <2>1. cmd'[p].at \notin Removing
      BY <1>1, <1>3, AnswersAt DEF Purge
    <2> QED BY <2>1
  <1>4. CASE c.then # {}
    <2> DEFINE n == CHOOSE n \in c.then : TRUE
               r == [at |-> "rm", then |-> c.then \ {n}]
               g == Over(ToRemove(n, c.env), c)
    <2>1. cmd' = [cmd EXCEPT ![p] = Over(r, g)]
      BY <1>1, <1>4 DEF Purge
    <2>2. n \in Names
      BY <1>2, <1>4
    <2>3. DOMAIN r = {"at", "then"} /\ r.at = "rm"
      OBVIOUS
    <2> HIDE DEF n, r
    <2>4. \A x \in {"n", "on", "boxes", "kept"} : x \in DOMAIN g /\ g[x] = ToRemove(n, c.env)[x]
      BY DEF Over, ToRemove
    <2> HIDE DEF g
    <2>5. PICK d : d = Over(r, g)
      OBVIOUS
    <2>6. d.at = "rm" /\ \A x \in {"n", "on", "boxes", "kept"} : d[x] = ToRemove(n, c.env)[x]
      BY <2>3, <2>4, <2>5 DEF Over
    <2>7. cmd'[p] = d
      BY <2>1, <2>5 DEF FitsInv
    <2> SUFFICES ASSUME cmd'[p].n \notin strayed'
                 PROVE  Razed(cmd[p])'
      OBVIOUS
    <2>8. Located(n)
      BY <2>2, <2>6, <2>7 DEF LocatedInv, ToRemove
    <2>9. \A b : Placing(n, b) => Placing(n, b)'
      BY <1>1, <1>2, PlacingBeside DEF Step
    <2>10. Razed(d)'
      BY <2>2, <2>6, <2>8, <2>9, SetsOut
    <2> QED BY <2>7, <2>10 DEF Razed
  <1> QED BY <1>3, <1>4

\* What a purge takes away is gone, or the cluster strays.
LEMMA PurgeRazes ==
  ASSUME FitsInv, DiskInv, LocatedInv, RazedInv, NEW p \in Processes, Purge(p)
  PROVE  LocatedInv' /\ RazedInv'
  <1>1. cmd[p].at = "purge" /\ UNCHANGED <<containers, networks>>
    BY DEF Purge, Is, SameWorld, worldVars
  <1>2. Step(p)
    BY DEF Step
  <1>3. PICK n \in Names : n = cmd[p].n
    BY <1>1 DEF FitsInv, Holds, HasClusters, Removing
  <1>4. /\ \A q \in Processes \ {p} : cmd'[q] = cmd[q]
        /\ Resigns(p)
    BY <1>1, <1>2, OneCommand DEF Resigns
  <1>5. CASE SameDisk /\ SameBooks
    <2>1. UNCHANGED <<describe, work, strayed>>
      BY <1>5 DEF SameDisk, diskVars, SameBooks, bookVars
    <2>2. \A m \in Names : Recorded(m)' \in {Unset, Recorded(m)} /\ work'[m] \subseteq work[m]
      BY <2>1 DEF Recorded
    <2>3. strayed \subseteq strayed' /\ containers' \subseteq containers /\ networks' \subseteq networks
      BY <1>1, <2>1
    <2>4. cmd'[p].at \in Removing /\ cmd'[p].n \notin strayed' => Razed(cmd[p])'
      BY <1>1, <2>2, <2>3, PurgeSetsOut
    <2> QED BY <1>4, <2>1, <2>2, <2>3, <2>4, Lessens
  <1>6. CASE Purged(n)
    <2> DEFINE S == {n}
    <2>1. /\ describe' = [describe EXCEPT ![n] = Nil] /\ work' = [work EXCEPT ![n] = {}]
          /\ strayed' = strayed \cup (IF \E b \in Backends : Stands(n, b) THEN {n} ELSE {})
      BY <1>6 DEF Purged
    <2>2. /\ Recorded(n)' = Unset /\ work'[n] = {}
          /\ \A m \in Names \ S : Recorded(m)' = Recorded(m) /\ work'[m] = work[m]
      BY <2>1 DEF Recorded, Nil, FitsInv, DiskInv
    <2>3. \A m, b : Boxes(m, b)' = Boxes(m, b) /\ Networked(m, b)' = Networked(m, b)
      BY <1>1 DEF Boxes, Networked
    <2>4. n \notin strayed' => \A b \in Backends : Boxes(n, b) = {} /\ ~Networked(n, b)
      BY <2>1 DEF Stands, Networked
    <2>5. strayed \subseteq strayed'
      BY <2>1
    <2>6. cmd'[p].at \in Removing /\ cmd'[p].n \notin strayed' => Razed(cmd[p])'
      <3>1. \A m \in Names : Recorded(m)' \in {Unset, Recorded(m)}
        BY <2>2
      <3> QED BY <1>1, <2>5, <3>1, PurgeSetsOut
    <2>7. ASSUME NEW q \in Processes, NEW c, c = cmd[q], c = cmd'[q], c.at \in Removing,
                 c.n = n, n \notin strayed'
          PROVE  Razed(c)'
      <3>1. Razed(c)
        BY <2>5, <2>7 DEF RazedInv
      <3> QED BY <2>2, <2>3, <2>4, <2>7, <3>1 DEF Razed
    <2>8. ASSUME NEW q \in Processes
          PROVE  \/ cmd'[q] = cmd[q] /\ cmd[q].n \notin S
                 \/ cmd'[q].at \in Removing /\ cmd'[q].n \notin strayed' => Razed(cmd[q])'
      <3>1. CASE q = p
        BY <2>6, <3>1
      <3>2. CASE q # p
        <4>1. PICK c : c = cmd[q] /\ c = cmd'[q]
          BY <1>4, <3>2
        <4>2. c.at \in Removing /\ c.n = n /\ n \notin strayed' => Razed(c)'
          BY <2>7, <4>1
        <4>3. Razed(c)' => Razed(cmd[q])'
          BY <4>1 DEF Razed
        <4> QED BY <4>1, <4>2, <4>3
      <3> QED BY <3>1, <3>2
    <2>9. \A m \in Names \cap S : m \notin strayed' => Located(m)'
      BY <2>3, <2>4 DEF Located
    <2>10. \A q \in Processes : cmd[q].n \notin S => Resigns(q)
      BY <1>4 DEF Resigns
    <2> HIDE DEF S
    <2>11. \A m \in Names \ S :
             /\ Recorded(m)' = Recorded(m) /\ work'[m] \subseteq work[m]
             /\ \A b : Boxes(m, b)' \subseteq Boxes(m, b) /\ (Networked(m, b)' => Networked(m, b))
      BY <2>2, <2>3
    <2> QED BY <2>5, <2>8, <2>9, <2>10, <2>11, OthersStay
  <1> QED BY <1>3, <1>5, <1>6 DEF Purge

\* What is written down has the labels of the create that wrote it, or fewer.
LabelsInv ==
  /\ DOMAIN claimed = Names
  /\ \A n \in Names : describe[n].is => Labelled(describe[n].v, claimed[n])

LEMMA LabelsNext ==
  ASSUME FitsInv, LabelsInv, Next
  PROVE  LabelsInv'
  <1>1. ASSUME describe' = describe, claimed' = claimed
        PROVE  LabelsInv'
    BY <1>1 DEF LabelsInv
  <1>2. ASSUME NEW p \in Processes, Command(p)
        PROVE  describe' = describe /\ claimed' = claimed
    BY <1>2 DEF Command, Create, CreateFrom, Up, Destroy, DestroyByLabel, Act, Show,
                SameArtifacts, SameBooks, bookVars
  <1>3. ASSUME NEW p \in Processes, Step(p)
        PROVE  LabelsInv'
    <2>1. CASE \/ Image(p) \/ EnsureCluster(p) \/ EnsureNetwork(p) \/ NowhereToWrite(p) \/ SnapshotDescribe(p)
               \/ CreateNode(p) \/ Assemble(p) \/ Remove(p) \/ EmptyDir(p)
               \/ Harvest(p) \/ HarvestStep(p) \/ Export(p)
      <3>1. describe' = describe /\ claimed' = claimed
        BY <2>1 DEF Image, EnsureCluster, EnsureNetwork, NowhereToWrite, SnapshotDescribe, CreateNode, Assemble,
                    Remove, Rm, RmNetwork, EmptyDir, Harvest, HarvestStep, Export,
                    SameArtifacts, SameDisk, diskVars, SameBooks, bookVars
      <3> QED BY <1>1, <3>1
    <2>2. CASE WriteDescribe(p)
      <3>1. PICK n, t, kvs : /\ n = cmd[p].n /\ t = cmd[p].t /\ kvs = cmd[p].labels
                             /\ describe' = [describe EXCEPT ![n] = Just(t)]
                             /\ claimed' = [claimed EXCEPT ![n] = kvs]
        BY <2>2 DEF WriteDescribe
      <3>2. Labelled(t, kvs)
        BY <2>2, <3>1 DEF WriteDescribe, Is, FitsInv, Holds, HasArtifact, Meant, Building
      <3>3. \A m \in Names : m # n => describe'[m] = describe[m] /\ claimed'[m] = claimed[m]
        BY <3>1 DEF FitsInv, LabelsInv
      <3>4. n \in Names => describe'[n] = Just(t) /\ claimed'[n] = kvs
        BY <3>1 DEF FitsInv, LabelsInv
      <3>5. DOMAIN claimed' = Names
        BY <3>1 DEF LabelsInv
      <3>6. ASSUME NEW m \in Names, describe'[m].is
            PROVE  Labelled(describe[m].v, claimed[m])'
        <4>1. CASE m = n
          BY <3>2, <3>4, <4>1 DEF Just, Labelled
        <4>2. CASE m # n
          <5>1. Labelled(describe[m].v, claimed[m])
            BY <3>3, <3>6, <4>2 DEF LabelsInv
          <5> QED BY <3>3, <4>2, <5>1 DEF Labelled
        <4> QED BY <4>1, <4>2
      <3> QED BY <3>5, <3>6 DEF LabelsInv
    <2>3. CASE Purge(p)
      <3>1. CASE SameDisk /\ SameBooks
        BY <1>1, <3>1 DEF SameDisk, diskVars, SameBooks, bookVars
      <3>2. CASE Purged(cmd[p].n)
        <4>1. PICK n : n = cmd[p].n
          OBVIOUS
        <4>2. describe' = [describe EXCEPT ![n] = Nil] /\ claimed' = [claimed EXCEPT ![n] = <<>>]
          BY <3>2, <4>1 DEF Purged
        <4>3. /\ DOMAIN claimed' = Names
              /\ \A m \in Names : m # n => describe'[m] = describe[m] /\ claimed'[m] = claimed[m]
              /\ n \in Names => ~describe'[n].is
          BY <4>2 DEF FitsInv, LabelsInv, Nil
        <4>4. ASSUME NEW m \in Names, describe'[m].is
              PROVE  Labelled(describe[m].v, claimed[m])'
          <5>1. m # n
            BY <4>3, <4>4
          <5>2. Labelled(describe[m].v, claimed[m])
            BY <4>3, <4>4, <5>1 DEF LabelsInv
          <5> QED BY <4>3, <5>1, <5>2 DEF Labelled
        <4> QED BY <4>3, <4>4 DEF LabelsInv
      <3> QED BY <2>3, <3>1, <3>2 DEF Purge
    <2> QED BY <1>3, <2>1, <2>2, <2>3 DEF Step
  <1>4. ASSUME NEW p \in Processes, Kill(p)
        PROVE  describe' = describe /\ claimed' = claimed
    BY <1>4 DEF Kill, SameDisk, diskVars
  <1>5. CASE Halt \/ Around
    BY <1>1, <1>5 DEF Halt, Around, SameDisk, diskVars, SameBooks, bookVars
  <1> QED BY <1>1, <1>2, <1>3, <1>4, <1>5 DEF Next

RazeInv == LocatedInv /\ RazedInv /\ LabelsInv

LEMMA RazeInit == Init => RazeInv
  <1> SUFFICES ASSUME Init PROVE RazeInv
    OBVIOUS
  <1>1. /\ containers = {} /\ networks = {} /\ describe = [n \in Names |-> Nil]
        /\ claimed = [n \in Names |-> <<>>] /\ cmd = [p \in Processes |-> NoCmd]
    BY DEF Init
  <1>2. LocatedInv
    BY <1>1 DEF LocatedInv, Located, Boxes, Networked
  <1>3. RazedInv
    BY <1>1 DEF RazedInv, NoCmd, Removing
  <1>4. LabelsInv
    BY <1>1 DEF LabelsInv, Nil
  <1> QED BY <1>2, <1>3, <1>4 DEF RazeInv

LEMMA StandsStill ==
  ASSUME LocatedInv, RazedInv, UNCHANGED <<describe, work, containers, networks, cmd, strayed>>
  PROVE  LocatedInv' /\ RazedInv'
  <1>1. LocatedInv'
    <2>1. \A n, b : /\ Boxes(n, b)' = Boxes(n, b) /\ Networked(n, b)' = Networked(n, b)
                   /\ Recorded(n)' = Recorded(n) /\ Placing(n, b)' = Placing(n, b)
      BY DEF Boxes, Networked, Recorded, Placing
    <2> QED BY <2>1 DEF LocatedInv, Located
  <1>2. ASSUME NEW q \in Processes, cmd'[q].at \in Removing, cmd'[q].n \notin strayed'
        PROVE  Razed(cmd[q])'
    <2>1. Razed(cmd[q])
      BY <1>2 DEF RazedInv
    <2> QED BY <2>1 DEF Razed, Boxes, Networked, Recorded, Placing
  <1> QED BY <1>1, <1>2 DEF RazedInv

LEMMA RazeNext ==
  ASSUME LifeInv, RazeInv, [Next]_vars
  PROVE  RazeInv'
  <1>1. FitsInv /\ DiskInv /\ LocatedInv /\ RazedInv /\ LabelsInv
    BY DEF LifeInv, RazeInv
  <1>2. CASE UNCHANGED vars
    <2>1. UNCHANGED <<describe, work, containers, networks, cmd, strayed, claimed>>
      BY <1>2 DEF vars, diskVars, worldVars, bookVars
    <2>2. LabelsInv'
      BY <1>1, <2>1 DEF LabelsInv, Labelled
    <2> QED BY <1>1, <2>1, <2>2, StandsStill DEF RazeInv
  <1>3. CASE Next
    <2>1. ASSUME NEW p \in Processes, Command(p)
          PROVE  LocatedInv' /\ RazedInv'
      BY <1>1, <2>1, CommandsRaze, DestroyRazes DEF Command
    <2>2. ASSUME NEW p \in Processes, Step(p)
          PROVE  LocatedInv' /\ RazedInv'
      <3>1. CASE \/ Image(p) \/ EnsureCluster(p) \/ SnapshotDescribe(p) \/ Assemble(p)
                 \/ Harvest(p) \/ HarvestStep(p) \/ Export(p)
        BY <1>1, <3>1, PassingStepsRaze
      <3>2. CASE NowhereToWrite(p)
        BY <1>1, <3>2, CutOffRaze
      <3>3. CASE EnsureNetwork(p) \/ WriteDescribe(p) \/ CreateNode(p)
        BY <1>1, <3>3, EnsureNetworkRazes, WriteDescribeRazes, CreateNodeRazes
      <3>4. CASE Remove(p) \/ EmptyDir(p) \/ Purge(p)
        BY <1>1, <3>4, RemoveRazes, EmptyDirRazes, PurgeRazes
      <3> QED BY <2>2, <3>1, <3>2, <3>3, <3>4 DEF Step
    <2>3. ASSUME NEW p \in Processes, Kill(p)
          PROVE  LocatedInv' /\ RazedInv'
      BY <1>1, <2>3, CutOffRaze
    <2>4. ASSUME Halt \/ Around
          PROVE  LocatedInv' /\ RazedInv'
      <3>1. UNCHANGED <<describe, work, containers, networks, cmd, strayed>>
        BY <2>4 DEF Halt, Around, SameDisk, diskVars, worldVars, SameBooks, bookVars
      <3> QED BY <1>1, <3>1, StandsStill
    <2>5. LabelsInv'
      BY <1>1, <1>3, LabelsNext
    <2> QED BY <1>3, <2>1, <2>2, <2>3, <2>4, <2>5 DEF Next, RazeInv
  <1> QED BY <1>2, <1>3

LEMMA RazeIsInvariant == Spec => [](LifeInv /\ RazeInv)
  <1>1. LifeInv /\ RazeInv /\ [Next]_vars => RazeInv'
    BY RazeNext
  <1> QED BY <1>1, RazeInit, LifeIsInvariant, PTL DEF Spec

(* After a destroy a cluster is gone - its containers, its networks and    *)
(* what is in its work directory - for any number of processes that create *)
(* and destroy at once, wherever one is cut off, unless something would    *)
(* not go or the cluster had strayed: what stands of the others is where   *)
(* the artifact records, and there a destroy lists and removes it.         *)
THEOREM DestroyedCorrect == Spec => []DestroyedIsGone
  <1>1. LifeInv /\ RazeInv => DestroyedIsGone
    <2> SUFFICES ASSUME RazeInv, NEW p \in Processes, Is(p, "destroy", "purge"), ~cmd[p].kept,
                        cmd[p].n \notin strayed
                 PROVE  /\ work[cmd[p].n] = {}
                        /\ \A b \in Backends : /\ Boxes(cmd[p].n, b) = {}
                                               /\ Networked(cmd[p].n, b) => Placing(cmd[p].n, b)
      BY DEF DestroyedIsGone
    <2>1. cmd[p].at = "purge" /\ Razed(cmd[p])
      BY DEF RazeInv, RazedInv, Is, Removing
    <2> QED BY <2>1 DEF Razed
  <1> QED BY <1>1, RazeIsInvariant, PTL

\* What a destroy by label finds, its creator claimed.
LEMMA HitsAreClaimed ==
  ASSUME LabelsInv, DiskInv, NEW s, s.want # "", NEW n \in Hits(s)
  PROVE  Claims(n, s)
  <1>1. n \in Names /\ LabelOf(n, s.key) = s.want
    BY DEF Hits, DiskInv
  <1>2. describe[n].is /\ s.key \in DOMAIN describe[n].v.labels /\ describe[n].v.labels[s.key] = s.want
    BY <1>1 DEF LabelOf
  <1>3. Labelled(describe[n].v, claimed[n])
    BY <1>1, <1>2 DEF LabelsInv
  <1> QED BY <1>2, <1>3 DEF Labelled, Claims

(* A destroy by label sets out for nothing but what its creator claimed    *)
(* with that label, with any number of processes that create, rebuild and  *)
(* destroy at once: what an artifact has of labels, the create that wrote  *)
(* it was given, and a destroy adds no cluster to those it found.          *)
THEOREM ClaimedCorrect == Spec => OnlyTheClaimed
  <1> DEFINE Claimed(p) ==
        LET c == cmd'[p]
        IN c.at = "rm" /\ c.sel.is /\ c.sel.v.want # "" =>
             \A n \in Targets(c) \ Targets(cmd[p]) : Claims(n, c.sel.v)
  <1>1. ASSUME LifeInv, RazeInv, [Next]_vars, NEW p \in Processes
        PROVE  Claimed(p) \/ UNCHANGED vars
    <2>1. FitsInv /\ DiskInv /\ LabelsInv
      BY <1>1 DEF LifeInv, RazeInv
    <2>2. ASSUME Targets(cmd'[p]) \subseteq Targets(cmd[p])
          PROVE  Claimed(p)
      BY <2>2
    <2>3. ASSUME cmd'[p].at # "rm"
          PROVE  Claimed(p)
      BY <2>3
    <2>4. ASSUME NEW q \in Processes, Command(q) \/ Step(q) \/ Kill(q), q # p
          PROVE  Claimed(p)
      <3>1. cmd'[p] = cmd[p]
        BY <2>1, <2>4, OneCommand
      <3> QED BY <2>2, <3>1
    <2>5. CASE Create(p) \/ CreateFrom(p) \/ Up(p) \/ Act(p) \/ Show(p)
      BY <2>1, <2>3, <2>5, OthersBegin DEF Removing
    <2>6. CASE Destroy(p)
      <3>1. PICK n \in Names, purge \in BOOLEAN, d \in Backends :
              Enter(p, "destroy", Over(ToRemove(n, d),
                       [at |-> "rm", purge |-> purge, then |-> {}, env |-> Unset, sel |-> Nil]))
        BY <2>6 DEF Destroy
      <3> DEFINE c == Over(ToRemove(n, d), [at |-> "rm", purge |-> purge, then |-> {}, env |-> Unset, sel |-> Nil])
      <3>2. {"at", "sel"} \subseteq DOMAIN c /\ c.sel = Nil
        BY DEF Over, ToRemove
      <3>3. Enter(p, "destroy", c)
        BY <3>1
      <3> HIDE DEF c
      <3>4. cmd'[p].sel = Nil
        BY <2>1, <3>2, <3>3, Begins
      <3> QED BY <3>4 DEF Nil
    <2>7. CASE DestroyByLabel(p)
      <3>1. PICK s \in Selectors, purge \in BOOLEAN, d \in Backends :
              LET hits == IF s.session = Unset THEN Hits(s) ELSE {}
                  n == CHOOSE n \in hits : TRUE
              IN Enter(p, "destroy", IF hits = {} THEN Refused
                                     ELSE Over(ToRemove(n, d),
                                       [at |-> "rm", purge |-> purge, then |-> hits \ {n},
                                        env |-> IF hits = {n} THEN Unset ELSE d, sel |-> Just(s)]))
        BY <2>7 DEF DestroyByLabel
      <3> DEFINE hits == IF s.session = Unset THEN Hits(s) ELSE {}
                 n == CHOOSE n \in hits : TRUE
                 r == [at |-> "rm", purge |-> purge, then |-> hits \ {n},
                       env |-> IF hits = {n} THEN Unset ELSE d, sel |-> Just(s)]
                 c == Over(ToRemove(n, d), r)
      <3>2. CASE hits = {}
        <4>1. "at" \in DOMAIN Refused /\ Refused.at # "rm"
          BY DEF Refused
        <4>2. Enter(p, "destroy", Refused)
          BY <3>1, <3>2
        <4>3. cmd'[p].at # "rm"
          BY <2>1, <4>1, <4>2, Begins
        <4> QED BY <2>3, <4>3
      <3>3. CASE hits # {}
        <4>1. n \in hits /\ Enter(p, "destroy", c)
          BY <3>1, <3>3
        <4> HIDE DEF hits, n
        <4>2. /\ {"at", "n", "then", "sel"} \subseteq DOMAIN c
              /\ c.at = "rm" /\ c.n = n /\ c.then = hits \ {n} /\ c.sel = Just(s)
          BY DEF Over, ToRemove
        <4> HIDE DEF c
        <4>3. cmd'[p].at = "rm" /\ cmd'[p].n = n /\ cmd'[p].then = hits \ {n} /\ cmd'[p].sel = Just(s)
          BY <2>1, <4>1, <4>2, Begins
        <4>4. Targets(cmd'[p]) \subseteq hits /\ cmd'[p].sel.v = s
          BY <4>1, <4>3 DEF Targets, Just
        <4>5. s.want # "" => \A m \in hits : Claims(m, s)
          BY <2>1, HitsAreClaimed DEF hits
        <4> QED BY <4>4, <4>5
      <3> QED BY <3>2, <3>3
    <2>8. CASE \/ Image(p) \/ EnsureCluster(p) \/ SnapshotDescribe(p) \/ Assemble(p)
               \/ Harvest(p) \/ HarvestStep(p) \/ Export(p)
      BY <2>1, <2>3, <2>8, PassingSteps DEF Removing
    <2>9. CASE EnsureNetwork(p) \/ WriteDescribe(p) \/ NowhereToWrite(p) \/ CreateNode(p)
      <3>1. cmd'[p].at # "rm"
        <4>1. CASE EnsureNetwork(p) \/ WriteDescribe(p) \/ NowhereToWrite(p)
          BY <2>1, <4>1, GoesTo, AnswersAt DEF EnsureNetwork, WriteDescribe, NowhereToWrite, Removing
        <4>2. CASE CreateNode(p)
          <5>1. CASE cmd' = [cmd EXCEPT ![p].left = Tail(@)]
            BY <2>1, <4>2, <5>1 DEF CreateNode, Is, FitsInv, Holds
          <5>2. CASE Answer(p, "failed")
            BY <2>1, <5>2, AnswersAt DEF Removing
          <5> QED BY <4>2, <5>1, <5>2 DEF CreateNode
        <4> QED BY <2>9, <4>1, <4>2
      <3> QED BY <2>3, <3>1
    <2>10. CASE Remove(p) \/ EmptyDir(p)
      <3>1. CASE Rm(p) /\ cmd[p].at = "rm"
        <4>1. PICK x, k : \/ cmd' = [cmd EXCEPT ![p].boxes = x]
                          \/ cmd' = [cmd EXCEPT ![p].boxes = x, ![p].kept = k]
          BY <3>1 DEF Rm
        <4>2. {"at", "n", "then"} \subseteq DOMAIN cmd[p]
          BY <2>1, <3>1 DEF FitsInv, Holds, HasClusters, Removing
        <4>3. cmd'[p].at = cmd[p].at /\ cmd'[p].n = cmd[p].n /\ cmd'[p].then = cmd[p].then
          BY <2>1, <4>1, <4>2 DEF FitsInv
        <4> QED BY <2>2, <4>3 DEF Targets
      <3>2. CASE RmNetwork(p)
        <4>1. cmd'[p].at = "empty"
          BY <2>1, <3>2 DEF RmNetwork, Go, FitsInv, Holds
        <4> QED BY <2>3, <4>1
      <3>3. CASE EmptyDir(p)
        <4>1. cmd'[p].at = "purge"
          BY <2>1, <3>3 DEF EmptyDir, Go, Is, FitsInv, Holds
        <4> QED BY <2>3, <4>1
      <3> QED BY <2>10, <3>1, <3>2, <3>3 DEF Remove, Is
    <2>11. CASE Purge(p)
      <3>1. PICK c : c = cmd[p]
        OBVIOUS
      <3>2. c.at = "purge" /\ {"n", "then"} \subseteq DOMAIN c
        BY <2>1, <2>11, <3>1 DEF Purge, Is, FitsInv, Holds, HasClusters, Removing
      <3>3. CASE c.then = {}
        BY <2>1, <2>3, <2>11, <3>1, <3>3, AnswersAt DEF Purge, Removing
      <3>4. CASE c.then # {}
        <4> DEFINE n == CHOOSE n \in c.then : TRUE
                   r == [at |-> "rm", then |-> c.then \ {n}]
                   g == Over(ToRemove(n, c.env), c)
        <4>1. cmd' = [cmd EXCEPT ![p] = Over(r, g)] /\ n \in c.then
          BY <2>11, <3>1, <3>4 DEF Purge
        <4>2. DOMAIN r = {"at", "then"} /\ r.at = "rm" /\ r.then = c.then \ {n}
          OBVIOUS
        <4> HIDE DEF n, r
        <4>3. "n" \in DOMAIN g /\ g.n = n
          BY DEF Over, ToRemove
        <4> HIDE DEF g
        <4>4. Over(r, g).n = n /\ Over(r, g).then = c.then \ {n}
          BY <4>2, <4>3 DEF Over
        <4>5. cmd'[p] = Over(r, g)
          BY <2>1, <4>1 DEF FitsInv
        <4>6. Targets(cmd'[p]) \subseteq Targets(cmd[p])
          BY <3>1, <3>2, <4>1, <4>4, <4>5 DEF Targets
        <4> QED BY <2>2, <4>6
      <3> QED BY <3>3, <3>4
    <2>12. CASE Kill(p)
      <3>1. cmd'[p].at # "rm"
        BY <2>1, <2>12 DEF Kill, NoCmd, FitsInv
      <3> QED BY <2>3, <3>1
    <2>13. CASE Halt \/ Around
      <3>1. cmd'[p] = cmd[p]
        BY <2>13 DEF Halt, Around
      <3> QED BY <2>2, <3>1
    <2>14. Command(p) => Claimed(p) \/ UNCHANGED vars
      BY <2>5, <2>6, <2>7 DEF Command
    <2>15. Step(p) => Claimed(p) \/ UNCHANGED vars
      BY <2>8, <2>9, <2>10, <2>11 DEF Step
    <2> HIDE DEF Claimed
    <2> QED BY <1>1, <2>4, <2>12, <2>13, <2>14, <2>15 DEF Next
  <1>2. LifeInv /\ RazeInv /\ [Next]_vars => [\A p \in Processes : Claimed(p)]_vars
    BY <1>1
  <1> QED BY <1>2, RazeIsInvariant, PTL DEF Spec, OnlyTheClaimed

-----------------------------------------------------------------------------
(* What the record opens with.  As long as no container has been made, the *)
(* create that opened the record is still at its nodes.                    *)
OpenedInv ==
  /\ \E T : stood \in [Names -> Seq(T)]
  /\ \A n \in Names \ misopened :
       /\ stood[n] # <<>> => opened[n] = Just(stood[n][1])
       /\ stood[n] = <<>> /\ opened[n].is => \E q \in Processes : Opens(q, n)
       /\ \A q \in Processes : cmd[q].at = "nodes" /\ cmd[q].n = n => opened[n].is

\* Who reads a record reads that of a name.
Reading == {"harvest", "harvesting", "read"}
ReadsNamed == \A p \in Processes : cmd[p].at \in Reading => "n" \in DOMAIN cmd[p] /\ cmd[p].n \in Names

\* A create leaves its nodes when something has been made, or gives up.
LEMMA OpenedStays ==
  ASSUME OpenedInv, UNCHANGED <<opened, stood>>, misopened \subseteq misopened',
         \A q \in Processes : cmd'[q].at = "nodes" => cmd'[q] = cmd[q],
         \A q \in Processes :
           cmd[q].at = "nodes" => cmd'[q] = cmd[q] \/ cmd[q].n \in misopened' \/ stood[cmd[q].n] # <<>>
  PROVE  OpenedInv'
  BY DEF OpenedInv, Opens

\* Only a reader reads, and only a create comes to its nodes.
Midway == {"nodes"} \cup Reading

LEMMA LeavesNodes ==
  ASSUME FitsInv, NEW p \in Processes,
         \/ Create(p) \/ CreateFrom(p) \/ Up(p) \/ Destroy(p) \/ DestroyByLabel(p) \/ Act(p)
         \/ Image(p) \/ EnsureCluster(p) \/ EnsureNetwork(p) \/ WriteDescribe(p) \/ NowhereToWrite(p) \/ Assemble(p)
         \/ Remove(p) \/ EmptyDir(p) \/ Purge(p) \/ Export(p) \/ Kill(p)
  PROVE  cmd'[p].at \notin Midway
  <1>0. Midway \cap {"idle", "answered", "image", "store", "network", "describe", "snapshot", "rm", "empty", "purge"} = {}
    BY DEF Midway, Reading
  <1>1. ASSUME NEW d, cmd' = [cmd EXCEPT ![p] = d], d.at \notin Midway
        PROVE  cmd'[p].at \notin Midway
    BY <1>1 DEF FitsInv
  <1>2. ASSUME NEW verb, NEW c, Enter(p, verb, c), "at" \in DOMAIN c, c.at \notin Midway
        PROVE  cmd'[p].at \notin Midway
    BY <1>2, Begins
  <1>3. ASSUME NEW at, Go(p, at), at \notin Midway
        PROVE  cmd'[p].at \notin Midway
    BY <1>3, GoesTo
  <1>4. ASSUME NEW out, Answer(p, out)
        PROVE  cmd'[p].at \notin Midway
    <2>1. [at |-> "answered", out |-> out].at \notin Midway
      BY <1>0
    <2> QED BY <1>1, <1>4, <2>1 DEF Answer
  <1>5. CASE Create(p) \/ CreateFrom(p) \/ Up(p) \/ Destroy(p) \/ DestroyByLabel(p) \/ Act(p)
    <2>1. "at" \in DOMAIN Refused /\ Refused.at \notin Midway
      BY <1>0 DEF Refused
    <2>2. CASE Create(p)
      <3>1. PICK c : Enter(p, "create", c) /\ (c = Refused \/ \E n, t, on, rec, labels : c =
                       [at |-> "image", n |-> n, t |-> t, on |-> on, rec |-> rec, labels |-> labels,
                        renamed |-> FALSE, old |-> FALSE])
        BY <2>2 DEF Create
      <3> QED BY <1>0, <1>2, <2>1, <3>1
    <2>3. CASE CreateFrom(p)
      <3>1. PICK c : Enter(p, "create", c) /\ (c = Refused \/ \E n, t, on, rec, labels, renamed, old : c =
                       [at |-> "image", n |-> n, t |-> t, on |-> on, rec |-> rec, labels |-> labels,
                        renamed |-> renamed, old |-> old])
        BY <2>3 DEF CreateFrom
      <3> QED BY <1>0, <1>2, <2>1, <3>1
    <2>4. CASE Up(p) \/ Act(p)
      <3>1. PICK verb, out : Enter(p, verb, [at |-> "answered", out |-> out])
        BY <2>4 DEF Up, Act
      <3> QED BY <1>0, <1>2, <3>1
    <2>5. CASE Destroy(p) \/ DestroyByLabel(p)
      <3>1. PICK c : Enter(p, "destroy", c) /\ (c = Refused \/ \E n, d, purge, then, env, sel : c =
                       Over(ToRemove(n, d), [at |-> "rm", purge |-> purge, then |-> then, env |-> env, sel |-> sel]))
        <4>1. CASE Destroy(p)
          <5>1. PICK n \in Names, purge \in BOOLEAN, d \in Backends :
                  Enter(p, "destroy", Over(ToRemove(n, d),
                          [at |-> "rm", purge |-> purge, then |-> {}, env |-> Unset, sel |-> Nil]))
            BY <4>1, SMT DEF Destroy
          <5> QED BY <5>1
        <4>2. CASE DestroyByLabel(p)
          <5>1. PICK s \in Selectors, purge \in BOOLEAN, d \in Backends :
                  LET hits == IF s.session = Unset THEN Hits(s) ELSE {}
                      n == CHOOSE n \in hits : TRUE
                  IN Enter(p, "destroy", IF hits = {} THEN Refused
                                         ELSE Over(ToRemove(n, d),
                                           [at |-> "rm", purge |-> purge, then |-> hits \ {n},
                                            env |-> IF hits = {n} THEN Unset ELSE d, sel |-> Just(s)]))
            BY <4>2 DEF DestroyByLabel
          <5> DEFINE hits == IF s.session = Unset THEN Hits(s) ELSE {}
                     n == CHOOSE n \in hits : TRUE
                     u == Over(ToRemove(n, d), [at |-> "rm", purge |-> purge, then |-> hits \ {n},
                               env |-> IF hits = {n} THEN Unset ELSE d, sel |-> Just(s)])
          <5>2. Enter(p, "destroy", IF hits = {} THEN Refused ELSE u)
            BY <5>1
          <5>3. \E m, e, g, then, env, sel : u =
                  Over(ToRemove(m, e), [at |-> "rm", purge |-> g, then |-> then, env |-> env, sel |-> sel])
            OBVIOUS
          <5> HIDE DEF u, n, hits
          <5> QED BY <5>2, <5>3
        <4> QED BY <2>5, <4>1, <4>2
      <3>2. ASSUME NEW n, NEW d, NEW purge, NEW then, NEW env, NEW sel,
                   c = Over(ToRemove(n, d), [at |-> "rm", purge |-> purge, then |-> then, env |-> env, sel |-> sel])
            PROVE  "at" \in DOMAIN c /\ c.at = "rm"
        BY <3>2 DEF Over, ToRemove
      <3> QED BY <1>0, <1>2, <2>1, <3>1, <3>2
    <2> QED BY <1>5, <2>2, <2>3, <2>4, <2>5
  <1>6. CASE Image(p) \/ EnsureCluster(p) \/ EnsureNetwork(p) \/ WriteDescribe(p) \/ NowhereToWrite(p) \/ Assemble(p)
    BY <1>0, <1>3, <1>4, <1>6 DEF Image, EnsureCluster, EnsureNetwork, WriteDescribe, NowhereToWrite, Assemble
  <1>7. CASE Remove(p)
    <2>1. CASE Rm(p) /\ cmd[p].at = "rm"
      <3>1. PICK x, k : \/ cmd' = [cmd EXCEPT ![p].boxes = x]
                        \/ cmd' = [cmd EXCEPT ![p].boxes = x, ![p].kept = k]
        BY <2>1 DEF Rm
      <3>2. "at" \in DOMAIN cmd[p]
        BY DEF FitsInv, Holds
      <3>3. cmd'[p].at = cmd[p].at
        BY <3>1, <3>2 DEF FitsInv
      <3> QED BY <1>0, <2>1, <3>3
    <2>2. CASE RmNetwork(p)
      BY <1>0, <2>2 DEF RmNetwork, Go, FitsInv, Holds
    <2> QED BY <1>7, <2>1, <2>2 DEF Remove, Is
  <1>8. CASE EmptyDir(p)
    BY <1>0, <1>8 DEF EmptyDir, Go, Is, FitsInv, Holds
  <1>9. CASE Purge(p)
    <2>1. CASE cmd[p].then = {}
      BY <1>4, <1>9, <2>1 DEF Purge
    <2>2. CASE cmd[p].then # {}
      <3>1. PICK then, g : cmd' = [cmd EXCEPT ![p] = Over([at |-> "rm", then |-> then], g)]
        BY <1>9, <2>2 DEF Purge
      <3>2. Over([at |-> "rm", then |-> then], g).at = "rm"
        BY DEF Over
      <3> QED BY <1>0, <1>1, <3>1, <3>2
    <2> QED BY <2>1, <2>2
  <1>10. CASE Export(p) \/ Kill(p)
    <2>1. PICK c : cmd' = [cmd EXCEPT ![p] = c] /\ (c = NoCmd \/ \E doc : c = [at |-> "answered", doc |-> doc])
      BY <1>10 DEF Export, Kill
    <2>2. ASSUME NEW u, u = NoCmd \/ \E doc : u = [at |-> "answered", doc |-> doc]
          PROVE  u.at \notin Midway
      BY <1>0, <2>2 DEF NoCmd
    <2> QED BY <1>1, <2>1, <2>2
  <1> QED BY <1>5, <1>6, <1>7, <1>8, <1>9, <1>10

\* What a reader does.
LEMMA ReadersRead ==
  ASSUME FitsInv, DiskInv, ReadsNamed, NEW p \in Processes, Show(p) \/ Harvest(p) \/ HarvestStep(p)
  PROVE  cmd'[p].at \in Reading /\ "n" \in DOMAIN cmd'[p] /\ cmd'[p].n \in Names
  <1>1. CASE Show(p)
    <2>1. PICK n \in dir : Enter(p, "show", IF describe[n].is
                                           THEN [at |-> "harvest", n |-> n, nodes |-> NodeNames(describe[n].v)]
                                           ELSE [at |-> "read", n |-> n])
      BY <1>1 DEF Show
    <2>2. PICK c : /\ Enter(p, "show", c) /\ {"at", "n"} \subseteq DOMAIN c
                   /\ c.at \in {"harvest", "read"} /\ c.n = n
      BY <2>1
    <2>3. cmd'[p] = Over(c, [verb |-> "show"])
      BY <2>2 DEF Enter, FitsInv
    <2>4. "n" \in DOMAIN cmd'[p] /\ cmd'[p].at = c.at /\ cmd'[p].n = n
      BY <2>2, <2>3 DEF Over
    <2> QED BY <2>2, <2>4 DEF DiskInv, Reading
  <1>2. CASE Harvest(p) \/ HarvestStep(p)
    <2>1. PICK c : c = cmd[p] /\ {"at", "n"} \subseteq DOMAIN c /\ c.n \in Names /\ c.at \in Reading
      BY <1>2 DEF Harvest, HarvestStep, Is, ReadsNamed, FitsInv, Holds, Reading
    <2>2. ASSUME NEW at \in Reading, cmd' = [cmd EXCEPT ![p].at = at]
          PROVE  cmd'[p].at \in Reading /\ "n" \in DOMAIN cmd'[p] /\ cmd'[p].n \in Names
      BY <2>1, <2>2 DEF FitsInv
    <2>3. CASE Harvest(p)
      BY <2>2, <2>3 DEF Harvest, Go, Reading
    <2>4. CASE HarvestStep(p)
      <3>1. cmd' = [cmd EXCEPT ![p].at = "read"] \/ cmd' = cmd
        BY <2>4 DEF HarvestStep
      <3> QED BY <2>1, <2>2, <3>1 DEF Reading
    <2> QED BY <1>2, <2>3, <2>4
  <1> QED BY <1>1, <1>2

\* The create that comes to an empty record opens it.
LEMMA SnapshotOpens ==
  ASSUME FitsInv, DiskInv, OpenedInv, NEW p \in Processes, SnapshotDescribe(p)
  PROVE  OpenedInv'
  <1> DEFINE c == cmd[p]
             x == [at |-> "nodes", left |-> NodeNames(c.t)]
             d == Over(x, c)
  <1>1. /\ c.at = "snapshot" /\ cmd' = [cmd EXCEPT ![p] = d]
        /\ opened' = [opened EXCEPT ![c.rec] = Snapshot(Just(c.t), @)]
        /\ stood' = stood /\ misopened' = misopened \cup Misfiled(c.rec, c.n)
    BY DEF SnapshotDescribe, Is
  <1>2. HasArtifact(c)
    BY <1>1 DEF FitsInv, Holds, Building
  <1>3. d.at = "nodes" /\ d.n = c.n /\ d.t = c.t
    BY <1>2 DEF Over, HasArtifact
  <1>4. cmd'[p] = d /\ \A q \in Processes : q # p => cmd'[q] = cmd[q]
    BY <1>1 DEF FitsInv
  <1> HIDE DEF c, d
  <1>5. PICK n \in Names, rec \in Names : n = c.n /\ rec = c.rec
    BY <1>2 DEF HasArtifact, Fits, Placed
  <1>6. /\ opened'[rec] = IF opened[rec].is THEN opened[rec] ELSE Just(c.t)
        /\ \A m \in Names : m # rec => opened'[m] = opened[m]
    BY <1>1, <1>5 DEF DiskInv, Snapshot
  <1>7. \A q \in Processes, m \in Names : m # n =>
          (cmd'[q].at = "nodes" /\ cmd'[q].n = m => cmd[q].at = "nodes" /\ cmd[q].n = m)
    BY <1>3, <1>4, <1>5
  <1>8. \A q \in Processes, m \in Names : cmd[q].at = "nodes" => cmd'[q] = cmd[q]
    BY <1>1, <1>4 DEF c
  <1>9. ASSUME NEW m \in Names \ misopened'
        PROVE  /\ stood'[m] # <<>> => opened'[m] = Just(stood'[m][1])
               /\ stood'[m] = <<>> /\ opened'[m].is => \E q \in Processes : Opens(q, m)'
               /\ \A q \in Processes : cmd'[q].at = "nodes" /\ cmd'[q].n = m => opened'[m].is
    <2>1. /\ stood[m] # <<>> => opened[m] = Just(stood[m][1])
          /\ stood[m] = <<>> /\ opened[m].is => \E q \in Processes : Opens(q, m)
          /\ \A q \in Processes : cmd[q].at = "nodes" /\ cmd[q].n = m => opened[m].is
      BY <1>1 DEF OpenedInv
    <2>2. CASE opened'[m] = opened[m] /\ (m = n => opened[m].is)
      BY <1>1, <1>7, <1>8, <2>1, <2>2 DEF Opens
    <2>4. rec # n /\ m \in {rec, n} => opened[m].is
      BY <1>1, <1>5 DEF Misfiled
    <2>3. CASE m = n /\ rec = n /\ ~opened[m].is
      <3>1. opened'[m] = Just(c.t) /\ stood[m] = <<>>
        BY <1>6, <2>1, <2>3 DEF Just
      <3>2. Opens(p, m)'
        BY <1>3, <1>4, <1>5, <2>3, <3>1 DEF Opens
      <3>3. Just(c.t).is
        BY DEF Just
      <3>4. stood'[m] = <<>> /\ opened'[m].is
        BY <1>1, <3>1, <3>3
      <3>5. \E q \in Processes : Opens(q, m)'
        BY <3>2
      <3> QED BY <3>4, <3>5
    <2> QED BY <1>6, <2>2, <2>3, <2>4
  <1> QED BY <1>1, <1>9 DEF OpenedInv

\* The first container is one of the create that opened the record, or of one
\* that has outrun it.
LEMMA CreateNodeOpened ==
  ASSUME FitsInv, OpenedInv, NEW p \in Processes, CreateNode(p)
  PROVE  OpenedInv'
  <1> DEFINE c == cmd[p]
  <1>1. c.at = "nodes" /\ opened' = opened
    BY DEF CreateNode, Is
  <1>2. HasNodes(c) /\ c.n \in Names
    BY <1>1 DEF FitsInv, Holds, HasNodes
  <1>3. CASE Answer(p, "failed") /\ misopened' = misopened \cup NotYet(c.n) /\ stood' = stood
    <2>1. cmd'[p].at # "nodes"
      BY <1>3 DEF Answer, FitsInv
    <2>2. \A q \in Processes : q # p => cmd'[q] = cmd[q]
      BY OneCommand DEF Step
    <2>3. c.n \in misopened' \/ stood[c.n] # <<>>
      BY <1>3 DEF NotYet
    <2>4. misopened \subseteq misopened'
      BY <1>3
    <2> QED BY <1>1, <1>3, <2>1, <2>2, <2>3, <2>4, OpenedStays
  <1>4. CASE /\ cmd' = [cmd EXCEPT ![p].left = Tail(@)]
             /\ stood' = IF c.t \notin Range(stood[c.n]) THEN [stood EXCEPT ![c.n] = Append(@, c.t)] ELSE stood
             /\ misopened' = misopened \cup Outrun(p)
    <2>1. /\ \A q \in Processes : q # p => cmd'[q] = cmd[q]
          /\ cmd'[p] = [c EXCEPT !.left = Tail(@)]
      BY <1>4 DEF FitsInv
    <2>2. cmd'[p].at = "nodes" /\ cmd'[p].n = c.n /\ cmd'[p].t = c.t
      BY <1>1, <1>2, <2>1 DEF HasNodes, FitsInv, Holds
    <2> DEFINE n == c.n
               t == c.t
    <2> HIDE DEF c
    <2>3. \A q \in Processes : /\ cmd'[q].at = "nodes" <=> cmd[q].at = "nodes"
                               /\ cmd[q].at = "nodes" => cmd'[q].n = cmd[q].n /\ cmd'[q].t = cmd[q].t
      BY <1>1, <2>1, <2>2 DEF c
    <2>4. \A m \in Names : \A q \in Processes : Opens(q, m)' <=> Opens(q, m)
      BY <1>1, <2>3 DEF Opens
    <2>5. PICK T : stood \in [Names -> Seq(T)]
      BY DEF OpenedInv
    <2>6. stood \in [Names -> Seq(T \cup {t})]
      BY <2>5
    <2>7. stood' \in [Names -> Seq(T \cup {t})]
      BY <1>2, <1>4, <2>6 DEF c
    <2>8. /\ \A m \in Names : m # n => stood'[m] = stood[m]
          /\ stood'[n] = stood[n] \/ stood'[n] = Append(stood[n], t)
          /\ stood[n] = <<>> => stood'[n] = <<t>>
      <3>1. stood' = [stood EXCEPT ![n] = Append(@, t)] \/ (stood' = stood /\ t \in Range(stood[n]))
        BY <1>4 DEF c
      <3>2. n \in Names /\ DOMAIN stood = Names
        BY <1>2, <2>6 DEF c
      <3>3. stood[n] = <<>> => t \notin Range(stood[n]) /\ Append(stood[n], t) = <<t>>
        BY DEF Range
      <3> QED BY <3>1, <3>2, <3>3
    <2>9. ASSUME NEW m \in Names \ misopened'
          PROVE  /\ stood'[m] # <<>> => opened'[m] = Just(stood'[m][1])
                 /\ stood'[m] = <<>> /\ opened'[m].is => \E q \in Processes : Opens(q, m)'
                 /\ \A q \in Processes : cmd'[q].at = "nodes" /\ cmd'[q].n = m => opened'[m].is
      <3>1. m \notin misopened
        BY <1>4
      <3>2. /\ stood[m] # <<>> => opened[m] = Just(stood[m][1])
            /\ stood[m] = <<>> /\ opened[m].is => \E q \in Processes : Opens(q, m)
            /\ \A q \in Processes : cmd[q].at = "nodes" /\ cmd[q].n = m => opened[m].is
        BY <3>1 DEF OpenedInv
      <3>3. CASE stood'[m] = stood[m]
        BY <1>1, <2>3, <2>4, <3>2, <3>3
      <3>4. CASE m = n /\ stood[n] # <<>> /\ stood'[n] = Append(stood[n], t)
        <4>1. stood'[n] # <<>> /\ stood'[n][1] = stood[n][1]
          BY <1>2, <2>6, <3>4 DEF c
        <4> QED BY <1>1, <2>3, <3>2, <3>4, <4>1
      <3>5. CASE m = n /\ stood[n] = <<>>
        <4>1. opened[n].is /\ \E q \in Processes : Opens(q, n)
          BY <1>1, <3>2, <3>5 DEF c
        <4>2. Opens(p, n)
          BY <1>4, <3>5, <4>1 DEF Outrun, c
        <4> QED BY <1>1, <2>3, <2>8, <3>2, <3>5, <4>2 DEF Opens, c
      <3> QED BY <2>8, <3>3, <3>4, <3>5
    <2> QED BY <2>7, <2>9 DEF OpenedInv
  <1> QED BY <1>1, <1>3, <1>4 DEF CreateNode

\* A record that is purged may be opened by any create; those that have gone
\* by are known.
LEMMA PurgeOpened ==
  ASSUME FitsInv, DiskInv, OpenedInv, NEW p \in Processes, Purge(p)
  PROVE  OpenedInv'
  <1>1. cmd'[p].at # "nodes" /\ cmd[p].at = "purge"
    BY LeavesNodes DEF Purge, Is, Midway
  <1>2. \A q \in Processes : q # p => cmd'[q] = cmd[q]
    BY OneCommand DEF Step
  <1>3. CASE SameDisk /\ SameBooks
    BY <1>1, <1>2, <1>3, OpenedStays DEF SameDisk, diskVars, SameBooks, bookVars
  <1>4. CASE Purged(cmd[p].n)
    <2>1. PICK n : n = cmd[p].n
      OBVIOUS
    <2>2. /\ opened' = [opened EXCEPT ![n] = Nil] /\ stood' = [stood EXCEPT ![n] = <<>>]
          /\ misopened' = IF \E q \in Processes : cmd[q].at = "nodes" /\ cmd[q].n = n THEN misopened \cup {n}
                        ELSE misopened \ {n}
      BY <1>4, <2>1 DEF Purged
    <2>3. PICK T : stood \in [Names -> Seq(T)]
      BY DEF OpenedInv
    <2>4. stood' \in [Names -> Seq(T)]
      <3>1. <<>> \in Seq(T)
        OBVIOUS
      <3> QED BY <2>2, <2>3, <3>1
    <2>5. /\ \A m \in Names : m # n => opened'[m] = opened[m] /\ stood'[m] = stood[m]
          /\ n \in Names => ~opened'[n].is /\ stood'[n] = <<>>
      BY <2>2, <2>3 DEF DiskInv, Nil
    <2>6. ASSUME NEW m \in Names \ misopened'
          PROVE  /\ stood'[m] # <<>> => opened'[m] = Just(stood'[m][1])
                 /\ stood'[m] = <<>> /\ opened'[m].is => \E q \in Processes : Opens(q, m)'
                 /\ \A q \in Processes : cmd'[q].at = "nodes" /\ cmd'[q].n = m => opened'[m].is
      <3>1. CASE m = n
        BY <1>1, <1>2, <2>2, <2>5, <3>1
      <3>2. CASE m # n
        <4>1. m \notin misopened
          BY <2>2, <3>2
        <4>2. /\ stood[m] # <<>> => opened[m] = Just(stood[m][1])
              /\ stood[m] = <<>> /\ opened[m].is => \E q \in Processes : Opens(q, m)
              /\ \A q \in Processes : cmd[q].at = "nodes" /\ cmd[q].n = m => opened[m].is
          BY <4>1 DEF OpenedInv
        <4>3. \A q \in Processes : Opens(q, m) => Opens(q, m)'
          BY <1>1, <1>2, <2>5, <3>2 DEF Opens
        <4> QED BY <1>1, <1>2, <2>5, <3>2, <4>2, <4>3
      <3> QED BY <3>1, <3>2
    <2> QED BY <2>4, <2>6 DEF OpenedInv
  <1> QED BY <1>3, <1>4 DEF Purge

LEMMA OpenedInit == Init => OpenedInv
  <1> SUFFICES ASSUME Init PROVE OpenedInv
    OBVIOUS
  <1>1. /\ opened = [n \in Names |-> Nil] /\ stood = [n \in Names |-> <<>>]
        /\ cmd = [p \in Processes |-> NoCmd]
    BY DEF Init
  <1>2. stood \in [Names -> Seq({})]
    BY <1>1
  <1>3. \A n \in Names : stood[n] = <<>> /\ ~opened[n].is
    BY <1>1 DEF Nil
  <1>4. \A p \in Processes : cmd[p].at # "nodes"
    BY <1>1 DEF NoCmd
  <1> QED BY <1>2, <1>3, <1>4 DEF OpenedInv

LEMMA OpenedNext ==
  ASSUME FitsInv, DiskInv, ReadsNamed, OpenedInv, [Next]_vars
  PROVE  OpenedInv'
  <1>1. ASSUME UNCHANGED <<opened, stood, misopened, cmd>>
        PROVE  OpenedInv'
    BY <1>1, OpenedStays
  <1>2. ASSUME NEW p \in Processes, Command(p) \/ Step(p) \/ Kill(p), UNCHANGED <<opened, stood, misopened>>,
               cmd'[p].at # "nodes", cmd[p].at # "nodes"
        PROVE  OpenedInv'
    <2>1. \A q \in Processes : q # p => cmd'[q] = cmd[q]
      BY <1>2, OneCommand
    <2> QED BY <1>2, <2>1, OpenedStays
  <1>3. ASSUME NEW p \in Processes, Command(p)
        PROVE  OpenedInv'
    <2>1. UNCHANGED <<opened, stood, misopened>>
      BY <1>3 DEF Command, Create, CreateFrom, Up, Destroy, DestroyByLabel, Act, Show,
                  SameArtifacts, SameBooks, bookVars
    <2>2. \E verb, c : Enter(p, verb, c)
      BY <1>3, BeginsByEntering
    <2>3. cmd[p].at # "nodes"
      BY <2>2 DEF Enter
    <2>4. cmd'[p].at # "nodes"
      BY <1>3, LeavesNodes, ReadersRead DEF Command, Midway, Reading
    <2> QED BY <1>2, <1>3, <2>1, <2>3, <2>4
  <1>4. ASSUME NEW p \in Processes,
               \/ Image(p) \/ EnsureCluster(p) \/ EnsureNetwork(p) \/ WriteDescribe(p) \/ NowhereToWrite(p)
               \/ Remove(p) \/ EmptyDir(p) \/ Harvest(p) \/ HarvestStep(p) \/ Export(p)
        PROVE  OpenedInv'
    <2>1. UNCHANGED <<opened, stood, misopened>>
      BY <1>4 DEF Image, EnsureCluster, EnsureNetwork, WriteDescribe, NowhereToWrite, Remove, Rm, RmNetwork,
                  EmptyDir, Harvest, HarvestStep, Export, SameArtifacts, SameDisk, diskVars, SameBooks, bookVars
    <2>2. cmd[p].at # "nodes"
      BY <1>4 DEF Image, EnsureCluster, EnsureNetwork, WriteDescribe, NowhereToWrite, Remove,
                  EmptyDir, Harvest, HarvestStep, Export, Is
    <2>3. cmd'[p].at # "nodes"
      BY <1>4, LeavesNodes, ReadersRead DEF Midway, Reading
    <2> QED BY <1>2, <1>4, <2>1, <2>2, <2>3 DEF Step
  <1>5. ASSUME NEW p \in Processes, Assemble(p) \/ Kill(p)
        PROVE  OpenedInv'
    <2>1. /\ UNCHANGED <<opened, stood>>
          /\ misopened' = misopened \cup (IF cmd[p].at = "nodes" THEN NotYet(cmd[p].n) ELSE {})
      BY <1>5 DEF Assemble, Kill, Is, SameDisk, diskVars
    <2>2. \A q \in Processes : q # p => cmd'[q] = cmd[q]
      BY <1>5, OneCommand DEF Step
    <2>3. cmd'[p].at # "nodes"
      BY <1>5, LeavesNodes DEF Midway
    <2>4. cmd[p].at = "nodes" => cmd[p].n \in misopened' \/ stood[cmd[p].n] # <<>>
      BY <2>1 DEF NotYet
    <2>5. misopened \subseteq misopened'
      BY <2>1
    <2> QED BY <2>1, <2>2, <2>3, <2>4, <2>5, OpenedStays
  <1>6. ASSUME NEW p \in Processes, Step(p)
        PROVE  OpenedInv'
    BY <1>4, <1>5, <1>6, SnapshotOpens, CreateNodeOpened, PurgeOpened DEF Step
  <1>7. CASE Halt \/ Around
    BY <1>1, <1>7 DEF Halt, Around, SameDisk, diskVars, SameBooks, bookVars
  <1>8. CASE UNCHANGED vars
    BY <1>1, <1>8 DEF vars, diskVars, bookVars
  <1> QED BY <1>3, <1>5, <1>6, <1>7, <1>8 DEF Next

LEMMA ReadsNext ==
  ASSUME FitsInv, DiskInv, ReadsNamed, [Next]_vars
  PROVE  ReadsNamed'
  <1>1. ASSUME NEW p \in Processes, Command(p) \/ Step(p) \/ Kill(p),
               cmd'[p].at \in Reading => "n" \in DOMAIN cmd'[p] /\ cmd'[p].n \in Names
        PROVE  ReadsNamed'
    BY <1>1, OneCommand DEF ReadsNamed
  <1>2. ASSUME NEW p \in Processes, SnapshotDescribe(p) \/ CreateNode(p)
        PROVE  cmd'[p].at \notin Reading
    <2>1. CASE SnapshotDescribe(p)
      <3>1. cmd'[p] = Over([at |-> "nodes", left |-> NodeNames(cmd[p].t)], cmd[p])
        BY <2>1 DEF SnapshotDescribe, FitsInv
      <3>2. cmd'[p].at = "nodes"
        BY <3>1 DEF Over
      <3> QED BY <3>2 DEF Reading
    <2>2. CASE CreateNode(p)
      <3>1. CASE cmd' = [cmd EXCEPT ![p].left = Tail(@)]
        <4>1. "at" \in DOMAIN cmd[p] /\ cmd[p].at = "nodes"
          BY <2>2 DEF CreateNode, Is, FitsInv, Holds
        <4>2. cmd'[p].at = "nodes"
          BY <3>1, <4>1 DEF FitsInv
        <4> QED BY <4>2 DEF Reading
      <3>2. CASE Answer(p, "failed")
        <4>1. [at |-> "answered", out |-> "failed"].at \notin Reading
          BY DEF Reading
        <4> QED BY <3>2, <4>1 DEF Answer, FitsInv
      <3> QED BY <2>2, <3>1, <3>2 DEF CreateNode
    <2> QED BY <1>2, <2>1, <2>2
  <1>3. ASSUME NEW p \in Processes, Command(p) \/ Step(p) \/ Kill(p)
        PROVE  ReadsNamed'
    <2>1. cmd'[p].at \in Reading => "n" \in DOMAIN cmd'[p] /\ cmd'[p].n \in Names
      BY <1>2, <1>3, LeavesNodes, ReadersRead DEF Command, Step, Midway
    <2> QED BY <1>1, <1>3, <2>1
  <1>4. CASE Halt \/ Around \/ UNCHANGED vars
    <2>1. cmd' = cmd
      BY <1>4 DEF Halt, Around, vars
    <2> QED BY <2>1 DEF ReadsNamed
  <1> QED BY <1>3, <1>4 DEF Next

LEMMA OpenedIsInvariant == Spec => [](LifeInv /\ ReadsNamed /\ OpenedInv)
  <1>1. Init => LifeInv /\ ReadsNamed /\ OpenedInv
    <2>1. Init => ReadsNamed
      BY DEF Init, NoCmd, ReadsNamed, Reading
    <2> QED BY <2>1, LifeInit, OpenedInit
  <1>2. LifeInv /\ ReadsNamed /\ OpenedInv /\ [Next]_vars => (LifeInv /\ ReadsNamed /\ OpenedInv)'
    <2>1. LifeInv => FitsInv /\ DiskInv
      BY DEF LifeInv
    <2> QED BY <2>1, LifeNext, ReadsNext, OpenedNext
  <1> QED BY <1>1, <1>2, PTL DEF Spec

(* An export carries the topology its record opened with, and that is the  *)
(* first that got a container: whatever has been created under that name   *)
(* since, by any number of processes, unless the create that opened the    *)
(* record got none or was outrun by another, or one ran under another      *)
(* cluster's name.                                                         *)
THEOREM CarriesCorrect == Spec => CarriesItsTopology
  <1> DEFINE Carries(p) ==
        Exports(p) => LET n == cmd[p].n
                      IN stood[n] # <<>> /\ n \notin misopened => cmd'[p].doc.describe = Just(stood[n][1])
  <1>1. ASSUME LifeInv /\ ReadsNamed /\ OpenedInv, [Next]_vars, NEW p \in Processes
        PROVE  Carries(p)
    <2> SUFFICES ASSUME Exports(p), stood[cmd[p].n] # <<>>, cmd[p].n \notin misopened
                 PROVE  cmd'[p].doc.describe = Just(stood[cmd[p].n][1])
      OBVIOUS
    <2>1. FitsInv /\ DiskInv /\ cmd[p].at = "read" /\ cmd'[p].at = "answered"
      BY <1>1 DEF Exports, Is, LifeInv
    <2>2. Export(p)
      <3>1. PICK q \in Processes : Command(q) \/ Step(q) \/ Kill(q)
        BY <1>1, <2>1 DEF Next, Halt, Around, vars
      <3>2. q = p
        BY <2>1, <3>1, OneCommand
      <3>3. ~Command(p)
        <4>1. ASSUME Command(p)
              PROVE  \E verb, c : Enter(p, verb, c)
          BY <4>1, BeginsByEntering
        <4> QED BY <2>1, <4>1 DEF Enter
      <3>4. ~Kill(p)
        BY <2>1 DEF Kill, NoCmd, FitsInv
      <3> QED BY <2>1, <3>1, <3>2, <3>3, <3>4
               DEF Step, Image, EnsureCluster, EnsureNetwork, WriteDescribe, NowhereToWrite, SnapshotDescribe,
                   CreateNode, Assemble, Remove, EmptyDir, Purge, Harvest, HarvestStep, Is
    <2>3. cmd[p].n \in Names \ misopened
      BY <1>1, <2>1 DEF ReadsNamed, Reading
    <2>4. opened[cmd[p].n] = Just(stood[cmd[p].n][1])
      BY <1>1, <2>3 DEF OpenedInv
    <2>5. cmd'[p].doc.describe = DescribeAtOpen(cmd[p].n)
      <3>1. PICK d : d = Build(record[cmd[p].n], DescribeAtOpen(cmd[p].n)) /\ cmd'[p] = [at |-> "answered", doc |-> d]
        BY <2>1, <2>2 DEF Export, FitsInv
      <3>2. d.describe = DescribeAtOpen(cmd[p].n)
        BY <3>1 DEF Build
      <3> QED BY <3>1, <3>2
    <2> QED BY <2>4, <2>5 DEF DescribeAtOpen, Just
  <1>2. LifeInv /\ ReadsNamed /\ OpenedInv /\ [Next]_vars => [\A p \in Processes : Carries(p)]_vars
    BY <1>1
  <1> QED BY <1>2, OpenedIsInvariant, PTL DEF Spec, CarriesItsTopology
=============================================================================
