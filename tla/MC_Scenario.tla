---------------------------- MODULE MC_Scenario ----------------------------
(* Scenarios that meet every rule of the runner, and the runs' bounds.     *)
EXTENDS Scenario

Verb(argv) == [verb |-> "known", argv |-> argv, refs |-> {}, exit |-> 0, contains |-> {}, absent |-> {},
               within |-> FALSE, await |-> NoWait, durations |-> TRUE]
Await(m, s, is) == [masters |-> m, standbys |-> s, masterIs |-> is]
Waits(cond) == [Verb(<<>>) EXCEPT !.verb = "none", !.await = cond]
Of(steps) == [steps |-> steps, keys |-> <<>>, repeats |-> 0, refs |-> {}, measure |-> FALSE, measurable |-> TRUE]
Key(name, values) == [name |-> name, values |-> values]

(* The shape of scenarios/ha-split-brain.json.                             *)
Failover ==
  Of(<<Waits(Await(1, 1, "")),
       [Verb(<<"word", "knob=">>) EXCEPT !.await = Await(1, Anything, "slave"), !.contains = {"arrived"}]>>)
(* The shape of a measurement: a verb judged by what it printed and by the *)
(* time the role took.                                                     *)
Judged == [Of(<<[Verb(<<"knob", "typo", "word">>) EXCEPT !.exit = 1, !.contains = {"arrived"}, !.absent = {"lost"}],
                [Verb(<<>>) EXCEPT !.within = TRUE]>>) EXCEPT !.measure = TRUE]
Sweep == [Of(<<[Verb(<<>>) EXCEPT !.refs = {"score", "repeat"}]>>) EXCEPT
            !.keys = <<Key("score", <<"a", "b">>), Key("wait", <<"b", "c">>)>>, !.refs = {"wait", "cluster"}]
Repeated == [Of(<<Verb(<<>>)>>) EXCEPT !.keys = <<Key("score", <<"a", "b">>)>>, !.repeats = 2]
Named == [Of(<<Verb(<<>>)>>) EXCEPT !.keys = <<Key("cluster", <<"a", "b">>), Key("score", <<"a", "a">>)>>]
Shadowed == [Of(<<Verb(<<>>)>>) EXCEPT !.keys = <<Key("repeat", <<"a", "b">>)>>, !.repeats = 2]
NoValues == [Of(<<Verb(<<>>)>>) EXCEPT !.keys = <<Key("score", <<>>)>>]

(* Steps that take the cluster down, and make it again or another.         *)
Lifecycle(verb, st) == [st EXCEPT !.verb = verb]
Remade ==
  {Of(<<Lifecycle("destroy", Verb(<<>>)), Waits(Await(0, Anything, ""))>>),
   Of(<<Lifecycle("create", Verb(<<"knob=">>)), Lifecycle("destroy", [Verb(<<>>) EXCEPT !.within = TRUE])>>),
   Of(<<Lifecycle("destroy", Verb(<<>>)), Lifecycle("create", [Verb(<<>>) EXCEPT !.within = TRUE])>>)}

(* Every argv of up to two tokens, after a verb that is known, and those   *)
(* that are refused there after one that is not looked up.                 *)
ArgvTokens == {"knob", "knob=", "switch", "typo", "typo=", "--cluster", "--", "word"}
ShortArgvs == {<<>>} \cup {<<a>> : a \in ArgvTokens} \cup {<<a, b>> : a, b \in ArgvTokens}
Spellings == {Of(<<Verb(argv)>>) : argv \in ShortArgvs}
             \cup {Of(<<[Verb(argv) EXCEPT !.verb = "bound"]>>) : argv \in {<<>>} \cup {a \in ShortArgvs : ~knownFlags(a)}}

Bad == [Verb(<<>>) EXCEPT !.refs = {"score"}]
Unfit == {Of(<<>>), Of(<<Bad>>), [Of(<<Verb(<<>>)>>) EXCEPT !.refs = {"wait"}], [Of(<<Verb(<<>>)>>) EXCEPT !.measurable = FALSE],
          Of(<<[Verb(<<>>) EXCEPT !.verb = "none"]>>), Of(<<[Verb(<<>>) EXCEPT !.verb = "short"]>>),
          Of(<<[Verb(<<>>) EXCEPT !.verb = "unknown"]>>), Of(<<[Verb(<<>>) EXCEPT !.durations = FALSE]>>),
          Of(<<Waits(Await(1, 1, "typo"))>>)}

MCWords == {"arrived", "lost"}
MCNames == {"score", "wait", "repeat", "cluster"}
MCValues == {"a", "b", "c"}
MCFiles == {Failover, Judged, Sweep, Repeated, Named, Shadowed, NoValues} \cup Remade \cup Spellings \cup Unfit
MCOptions == [keep : BOOLEAN, purge : BOOLEAN]
(* Roles move only in a file that looks at them, and a cluster that cannot *)
(* be destroyed is met once; other files are there for their argv, their   *)
(* matrix or what the options keep.                                        *)
Moving ==
  \/ file \in {Failover, Judged} /\ ~opts.keep /\ ~opts.purge
  \/ file \in Remade /\ events = 0 /\ ~opts.keep
  \/ /\ events = 0 /\ Len(changes) <= 1 /\ roles[2] \in {"", "standby"}
     /\ opts.keep \/ Cardinality(note.excused) <= 1
=============================================================================
