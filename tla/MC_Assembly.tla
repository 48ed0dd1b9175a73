---------------------------- MODULE MC_Assembly ----------------------------
EXTENDS Assembly, TLC

(* One client: the two presets, with a broker and without.  Two clients    *)
(* at once: a pair.                                                        *)
MCBoth == {[size |-> 2, haOff |-> FALSE, withBroker |-> TRUE],
           [size |-> 1, haOff |-> TRUE, withBroker |-> FALSE]}
MCPair == {[size |-> 2, haOff |-> FALSE, withBroker |-> FALSE]}

(* Sound: no client is told from another, and the run has no liveness.     *)
Symmetry == Permutations(Clients)

(* Sound for properties that ask nothing of a spoiled state: spoiled stays. *)
Unspoiled == ~spoiled
=============================================================================
