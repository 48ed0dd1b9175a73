------------------------------ MODULE Topology ------------------------------
(***************************************************************************)
(* What the options of a create, or a describe artifact, become: the       *)
(* topology every other part works from (internal/topology, and the two    *)
(* readers of internal/cli/cluster.go).                                    *)
(*                                                                         *)
(* A key is a string; the tables of the code appear by the few names that  *)
(* stand for their rows.  A value is what the engine would split it into,  *)
(* and whether a separator was written.  Assignments, lines and nodes are   *)
(* functions on the places they have in their list.                        *)
(***************************************************************************)
EXTENDS Integers, Sequences, FiniteSets, Functions

Unset == "unset"

perNodeKey == "ha_copy_sync_mode"
Shouted == "HA_COPY_SYNC_MODE"         \* the same name in upper case

\* Keys that are the HA file's by table or by prefix, and those a table has.
IsHAKey(k) == k \in {perNodeKey, "ha_delay_limit", "ha_max_heartbeat_gap"}
Tabled == {perNodeKey, "ha_delay_limit", "data_buffer_size"}
brokerOwned == {"ACCESS_MODE", "BROKER_PORT", "SERVICE"}

\* What f maps, and what g does beside it.
Over(f, g) == [x \in DOMAIN f \cup DOMAIN g |-> IF x \in DOMAIN f THEN f[x] ELSE g[x]]

Single(x) == [entries |-> <<x>>, sep |-> FALSE]
ValueType(V) == [entries : UNION {[1..k -> V] : k \in 0..3}, sep : BOOLEAN]

\* The keys of a list of assignments, and the map they leave: the last wins.
KeysOf(kvs) == {kvs[i].key : i \in DOMAIN kvs}
Assigned(kvs) ==
  [k \in KeysOf(kvs) |->
     LET last == CHOOSE i \in DOMAIN kvs :
                   kvs[i].key = k /\ \A j \in DOMAIN kvs : kvs[j].key = k => j <= i
     IN kvs[last].value]
Only(f, S) == [k \in DOMAIN f \cap S |-> f[k]]

\* ha_copy_sync_mode, one entry for every database node: a bare value is
\* written for each, a list has to be of their number.
Bare(v) == Len(v.entries) = 1 /\ ~v.sep
Spellable(v, n) == Bare(v) \/ (v.entries # <<>> /\ Len(v.entries) = n)
PerNode(v, n) ==
  [entries |-> IF Bare(v) THEN [i \in 1..n |-> v.entries[1]] ELSE v.entries, sep |-> n > 1]

NodeOf(c, k, i) == [of |-> c, kind |-> k, at |-> i]
IsClient(x) == x.name.kind = "client"
DBNodes(t) == RestrictValues(t.nodes, LAMBDA x : ~IsClient(x))
Clients(t) == RestrictValues(t.nodes, IsClient)
Count(f) == Cardinality(DOMAIN f)
NodeNames(t) == [i \in DOMAIN t.nodes |-> t.nodes[i].name]

HAOff(t) == t.haMode = "off"

\* --set in any case of the one name that is spelled per node.
Folded(kvs) ==
  [i \in DOMAIN kvs |-> IF kvs[i].key = Shouted THEN [kvs[i] EXCEPT !.key = perNodeKey]
                        ELSE kvs[i]]

PresetOf(o) == IF o.preset = Unset THEN "ha" ELSE o.preset
NodeCount(o) ==
  IF o.nodes # 0 THEN o.nodes ELSE IF PresetOf(o) = "ha" THEN 2 ELSE 1

\* The options Resolve answers with an error.
Refuses(o) ==
  LET n == NodeCount(o)
      kvs == Folded(o.set)
  IN \/ PresetOf(o) \notin {"ha", "single"}
     \/ PresetOf(o) = "ha" /\ n < 2
     \/ PresetOf(o) = "single" /\ n # 1
     \/ o.network \notin {Unset, "docker", "bridge", "tailnet"}
     \/ o.ping \notin {Unset, "icmp", "tcp", "none"}
     \/ o.clients = 0 /\ (o.clientCPUSet \/ o.clientImage # Unset)
     \/ PresetOf(o) = "single" /\ \E k \in KeysOf(kvs) : IsHAKey(k)
     \/ \E i \in DOMAIN kvs : kvs[i].key = perNodeKey /\ ~Spellable(kvs[i].value, n)
     \/ KeysOf(Folded(o.hidden)) \cap {perNodeKey} # {}
     \/ o.brokerSet # <<>> /\ ~o.withBroker
     \/ KeysOf(o.brokerSet) \cap brokerOwned # {}

\* What it answers otherwise.
Resolve(o) ==
  LET n == NodeCount(o)
      single == PresetOf(o) = "single"
      given == Assigned(Folded(o.set))
      node(k, i, role) == [name |-> NodeOf(o.name, k, i), role |-> role, host |-> o.host]
  IN [cluster |-> o.name, preset |-> PresetOf(o),
      db |-> IF o.db = Unset THEN o.name ELSE o.db,
      networkKind |-> IF o.network \in {Unset, "docker"} THEN "bridge" ELSE o.network,
      ping |-> IF single THEN "none" ELSE IF o.ping = Unset THEN "icmp" ELSE o.ping,
      backend |-> o.backend, haMode |-> IF single THEN "off" ELSE "on",
      withBroker |-> o.withBroker, tools |-> o.tools,
      clientImage |-> o.clientImage, clientCPUSet |-> o.clientCPUSet,
      nodes |-> [i \in 1..n |-> node("db", i, IF single THEN "standalone"
                                               ELSE IF i = 1 THEN "master" ELSE "slave")]
                \o [i \in 1..o.clients |-> node("client", i, Unset)],
      common |-> Only(given, {k \in DOMAIN given : ~IsHAKey(k)}),
      ha |-> [k \in {k \in DOMAIN given : IsHAKey(k)} |->
                IF k = perNodeKey THEN PerNode(given[k], n) ELSE given[k]],
      unverified |-> DOMAIN given \ Tabled,
      hidden |-> Assigned(o.hidden), broker |-> Assigned(o.brokerSet),
      labels |-> Assigned(o.labels)]

\* A CTP conf, line by line: what has the form of a section's key, and what
\* of that an engine file can hold.  A conf names a key once: csb sorts the
\* assignments, so which of two would win is left out.
ParseCTPConf(lines) == RestrictValues(lines, LAMBDA l : l.form \in {"env", "default"})
measuredHidden == {"ha_max_heartbeat_gap"}
Engines == {"cubrid", "ha"}
Elsewhere == {"master", "slave", "slave2", "brokercommon", "broker1", "cm"}

CTPSets(keys) ==
  LET engine == {i \in DOMAIN keys : keys[i].section \in Engines}
      these(S) == [i \in S |-> [key |-> keys[i].key, value |-> keys[i].value]]
  IN [sets |-> these({i \in engine : keys[i].key \notin measuredHidden}),
      hidden |-> these({i \in engine : keys[i].key \in measuredHidden}),
      refused |-> {i \in DOMAIN keys : keys[i].section \notin Engines \cup Elsewhere}]

\* --from-ctp comes first, so that an explicit --set overwrites it.
WithConf(o, conf) ==
  LET got == CTPSets(ParseCTPConf(conf))
      first(f, s) == Over(f, [i \in {Len(conf) + j : j \in DOMAIN s} |-> s[i - Len(conf)]])
  IN [o EXCEPT !.set = first(got.sets, @), !.hidden = first(got.hidden, @)]

\* The topology's own sync mode, spelled for its nodes: an artifact of an
\* earlier csb holds it as it was asked.
CanSpell(t) ==
  perNodeKey \in DOMAIN t.ha => Spellable(t.ha[perNodeKey], Count(DBNodes(t)))
SpelledAsAsked(t) == t                         \* as a bug: carried as it is
SpellPerNode(t) ==
  IF perNodeKey \in DOMAIN t.ha
  THEN [t EXCEPT !.ha[perNodeKey] = PerNode(@, Count(DBNodes(t)))]
  ELSE t

\* What a rename rebuilds from: the derived fields come from the new name,
\* the labels, the database, the network and the backend from nowhere.
OptionsFrom(t, name) ==
  [name |-> name, preset |-> t.preset, nodes |-> Count(DBNodes(t)), clients |-> Count(Clients(t)),
   db |-> Unset, network |-> Unset, ping |-> t.ping, backend |-> Unset, host |-> Unset,
   withBroker |-> t.withBroker, tools |-> t.tools, clientImage |-> t.clientImage,
   clientCPUSet |-> t.clientCPUSet,
   set |-> <<>>, hidden |-> <<>>, brokerSet |-> <<>>, labels |-> <<>>]

Renames(t, name) == name \notin {Unset, t.cluster}
Renamed(t, name) ==
  IF Renames(t, name)
  THEN [Resolve(OptionsFrom(t, name)) EXCEPT
          !.common = t.common, !.ha = t.ha, !.hidden = t.hidden,
          !.unverified = t.unverified, !.broker = t.broker]
  ELSE t

\* create --from: this machine for the hosts, the command's labels for the
\* artifact's, and everything else as it was taken.
Hosted(t, here) == [t EXCEPT !.nodes = [i \in DOMAIN @ |-> [@[i] EXCEPT !.host = here]]]
RelabelledOver(t, labels) ==                   \* as a bug: the artifact's are kept
  [t EXCEPT !.labels = [k \in DOMAIN @ \cup KeysOf(labels) |->
                          IF k \in KeysOf(labels) THEN Assigned(labels)[k] ELSE @[k]]]
Relabelled(t, labels) == [t EXCEPT !.labels = Assigned(labels)]

Rebuildable(t, name) ==
  (Renames(t, name) => ~Refuses(OptionsFrom(t, name))) /\ CanSpell(t)
FromArtifact(t, name, labels, here) ==
  SpellPerNode(Renamed(Relabelled(Hosted(t, here), labels), name))
=============================================================================
