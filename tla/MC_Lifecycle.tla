--------------------------- MODULE MC_Lifecycle ----------------------------
(* Lifecycle for TLC: two names, two backends, and the options between     *)
(* them every way a topology is come by.                                   *)
EXTENDS Lifecycle

CONSTANTS p1, p2

MCNodes == {NodeOf(n, k, i) : n \in Names, k \in {"db", "client"}, i \in 1..MaxNodes}

Asks(n) ==
  [name |-> n, preset |-> Unset, nodes |-> 0, db |-> Unset, network |-> Unset, ping |-> Unset,
   backend |-> Unset, host |-> "here", withBroker |-> FALSE, tools |-> Unset, clients |-> 0,
   clientImage |-> Unset, clientCPUSet |-> FALSE,
   set |-> <<>>, hidden |-> <<>>, brokerSet |-> <<>>, labels |-> <<>>, conf |-> <<>>, session |-> n]
Sync(k, v) == <<[key |-> k, value |-> v]>>
Async == Single("async")
Mine == <<[key |-> "owner", value |-> "me"]>>

Line(form, section, key) == [form |-> form, section |-> section, key |-> key, value |-> Single("9")]
Conf == <<Line("env", "cubrid", "data_buffer_size"), Line("default", "ha", "ha_max_heartbeat_gap"),
          Line("env", "master", "ssh.host"), Line("other", "cubrid", "url")>>

\* A pair somebody claims, from a conf; a lone server of theirs; and one that
\* is refused, in the record of a cluster it is not about.
MCOptions ==
  {[Asks("a") EXCEPT !.set = Sync(Shouted, Async), !.labels = Mine, !.conf = Conf],
   [Asks("b") EXCEPT !.preset = "single", !.backend = "podman", !.labels = Mine, !.session = Unset],
   [Asks("a") EXCEPT !.preset = "single", !.conf = <<Line("env", "ha", "ha_delay_limit")>>, !.session = "b"]}

\* The artifact of a pair with a client, of a csb that neither spelled the
\* sync mode nor recorded a backend.
Old == [Resolve([Asks("a") EXCEPT !.labels = Mine, !.clients = 1]) EXCEPT
          !.ha = [k \in {perNodeKey} |-> Async]]
MCAttached == {Old}

MCRebuilds == {[name |-> Unset, labels |-> <<>>, backend |-> Unset, host |-> "here", session |-> Unset],
               [name |-> "b", labels |-> Mine, backend |-> "podman", host |-> "here", session |-> "a"]}

MCSelectors == {[key |-> "owner", want |-> "me", session |-> s] : s \in {Unset, "b"}}

(* What a finished command answered is told apart by no property of a state. *)
Plain == <<recordVars, diskVars, worldVars, begun, mishaps, halts, bookVars,
           [p \in Processes |-> IF cmd[p].at = "answered" THEN NoCmd ELSE cmd[p]]>>

(* A scene for each question.  One process, one thing that goes wrong, and *)
(* engines that say nothing.  One cluster, made once and not unmade, whose *)
(* engines speak and whose record is read: by two processes in the first   *)
(* tick, by one from then on, of a second log, and while another command   *)
(* is recorded.  That cluster destroyed while its record is read.  One     *)
(* cluster created and destroyed by two processes at once.                 *)
Rests(p) == cmd[p].at \in {"idle", "answered"}
Quiet == said = 0 /\ now = 0 /\ mishaps + halts <= 1 /\ Rests(p2)
Tools == SelectSeq(record["a"], LAMBDA e : e.actor = "tool")
Building(p) == ~Rests(p) /\ cmd[p].verb # "show"
Reading ==
  /\ dir = {"a"} /\ halts = 0 /\ strayed = {} /\ misopened = {}
  /\ describe["a"].is /\ describe["a"].v.backend = "docker" /\ Len(stood["a"]) = 1
  /\ running = {[node |-> NodeOf("a", "db", i), on |-> "docker"] : i \in 1..2}
  /\ \A p \in Processes : ~Building(p)
  /\ Lines(NodeOf("a", "db", 2)) = <<>>
  /\ mishaps > 0 => "cut" \in spoilt["a"]
  /\ Len(Tools) <= 2
  /\ Len(Tools) = 2 \/ now > 1 \/ log[NodeOf("a", "db", 1)].file > 0 =>
       Rests(p2) /\ "overlapped" \notin spoilt["a"]
First == now = 0 /\ mishaps = 0 /\ halts = 0
Does(p, verb) == Rests(p) \/ cmd[p].verb = verb
Unmaking ==
  /\ First /\ said <= 1 /\ begun = MaxCommands /\ strayed = {}
  /\ Does(p1, "destroy") /\ Does(p2, "show")
Crossing ==
  /\ First /\ said = 0 /\ dir \subseteq {"a"}
  /\ Does(p1, "create") /\ Does(p2, "destroy")
Scenes == Quiet \/ Reading \/ Unmaking \/ Crossing

(* A harvest takes less than a tick.                                       *)
Brief == now' # now => \A p \in Processes : ~Harvesting(p)
=============================================================================
