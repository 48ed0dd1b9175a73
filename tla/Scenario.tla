------------------------------ MODULE Scenario ------------------------------
(***************************************************************************)
(* `csb scenario run` (internal/cli/scenario.go): a file is refused for    *)
(* what it says, its matrix is unrolled into runs, and each run stands a   *)
(* cluster up, walks the steps, judges each, harvests the record and       *)
(* takes the cluster down, whatever became of the runs before it.          *)
(*                                                                         *)
(* A step is dispatched as the command line dispatches it (dispatchArgs,   *)
(* and parseInterspersed of app.go), so what a step's argv means is what   *)
(* that parser makes of it after the runner's own globals have gone in.    *)
(* Roles are read through `ha status`: one node after another, and a node  *)
(* that could not be asked is one that holds no role.                      *)
(*                                                                         *)
(* Text is abstracted to what is asked of it: the ${names} it refers to,   *)
(* the words a step printed, the kind of each token of an argv.  Values of *)
(* the matrix are taken to hold no ${name} of their own.                   *)
(***************************************************************************)
EXTENDS Naturals, Sequences, FiniteSets, TLC, SequencesExt

CONSTANTS
  Words,     \* what a step may print
  Names,     \* the ${names} a file may refer to, or have in its matrix
  Values,    \* the values of its matrix
  Files,     \* the scenarios that may be run, see Scenario
  Options,   \* the flags they may be run with, see ScenarioOptions
  MaxEvents  \* bound: role changes no step asked for

(* A pair.  n1 was created as the master, n2 as the slave.                 *)
Nodes == {1, 2}
Created(n) == IF n = 1 THEN "master" ELSE "slave"
Roles == {"", "standby", "to_be_active", "active"}
Speeds == {"fast", "slow"}  \* of a role change, against role_change_within

(* What a token of an argv may be, once the noun and the verb are off it:  *)
(* a flag that takes a value, a switch, either with "=value" or misspelt,  *)
(* --cluster and --timeout (which take one), the bare "--", another word,  *)
(* and the name of this run's cluster, which the runner puts there.        *)
Tokens == {"knob", "knob=", "switch", "typo", "typo=", "--cluster", "--timeout", "--", "word", "own"}
WantsValue == {"knob", "--cluster", "--timeout"}
Misspelt == {"typo", "typo="}

Exits == {0, 1, 2}  \* 2: usage; 1: any other failure

Anything == 9  \* a field of a condition that is left out
NoWait == [masters |-> Anything, standbys |-> Anything, masterIs |-> "none"]
Condition == [masters : {0, 1, 2, Anything}, standbys : {0, 1, 2, Anything}, masterIs : {"", "master", "slave", "typo"}]

(* One step: its argv by its verb (none: no argv; short: one word; bound:  *)
(* a ${name} for noun or verb; create and destroy: `cluster create` and    *)
(* `cluster destroy`) and its tokens; what it expects; its wait.           *)
Step == [verb : {"none", "short", "known", "unknown", "bound", "create", "destroy"}, argv : Seq(Tokens), refs : SUBSET Names,
         exit : Exits, contains : SUBSET Words, absent : SUBSET Words, within : BOOLEAN,
         await : Condition \cup {NoWait}, durations : BOOLEAN]
Scenario == [steps : Seq(Step), keys : Seq([name : Names, values : Seq(Values)]), repeats : Nat,
             refs : SUBSET Names, measure : BOOLEAN, measurable : BOOLEAN]
ScenarioOptions == [keep : BOOLEAN, purge : BOOLEAN]

(* The matrix is a map: no name is twice a key.                            *)
ASSUME ScenarioAssumption ==
  /\ Files \subseteq Scenario /\ Options \subseteq ScenarioOptions /\ MaxEvents \in Nat
  /\ \A f \in Files : IsInjective([k \in DOMAIN f.keys |-> f.keys[k].name])

VARIABLES
  file, opts, \* what was asked
  me,         \* what the runner keeps, see Runner
  standing,   \* the runs whose cluster is up, or half up; 0: a cluster of no run
  roles,      \* roles[n]: the role n holds in the cluster of this run
  described,  \* its artifact is on disk
  changes,    \* the role changes its engines have logged, the one of its creation first
  logged,     \* which of them are still in its logs
  recorded,   \* which of them its record holds
  events,     \* role changes that came on their own
  note        \* history, see Notes

group == <<roles, changes, logged>>
world == <<standing, described, recorded, group>>
vars == <<file, opts, me, world, events, note>>

Phases == {"check", "create", "run", "within", "look", "measure", "harvest", "destroy", "over"}
Runner ==
  [at        : Phases,
   point     : Nat,               \* the run it is at
   step      : Nat,               \* the step; 0: cluster create
   failed    : BOOLEAN,           \* a step of this run failed
   anyFailed : BOOLEAN,           \* a run before it failed
   slot      : Nat,               \* the node a look is at
   seen      : [Nodes -> Roles],  \* what this pass has read
   late      : BOOLEAN,           \* `within` has passed
   outcome   : {"none", "usage", "passed", "failed", "killed"}]
Lapses == {"judged", "unread", "waited"}
Notes ==
  [lapses   : SUBSET Lapses, \* a step did not do what the file says; waited: a step with a wait;
                             \* unread: by a role change that could not be read
   still    : BOOLEAN,      \* no role changed since this pass of a wait began, and no look failed
   lines    : SUBSET Nat,   \* role changes that could be read when the last step of this run was over
   silent   : BOOLEAN,      \* the record of this run could not be closed
   excused  : SUBSET Nat]   \* runs kept for having failed, those that could not be destroyed, and a step's

TypeOK ==
  /\ file \in Files /\ opts \in Options /\ me \in Runner
  /\ standing \subseteq Nat /\ roles \in [Nodes -> Roles] /\ changes \in Seq(Speeds)
  /\ described \in BOOLEAN /\ logged \subseteq DOMAIN changes /\ recorded \subseteq DOMAIN changes
  /\ events \in 0..MaxEvents /\ note \in Notes

-----------------------------------------------------------------------------
(* What a file is refused for.                                             *)

HasRun(st) == st.verb # "none"
HasWait(st) == st.await # NoWait
Bound(f) == {"repeat", "cluster"} \cup {f.keys[k].name : k \in DOMAIN f.keys}

(* knownFlags walks the tokens up to a bare "--": a flag that wants a      *)
(* value takes the next token whatever it looks like.                      *)
UpToDashes(argv) == IF \E i \in DOMAIN argv : argv[i] = "--"
                    THEN SubSeq(argv, 1, (CHOOSE i \in DOMAIN argv : argv[i] = "--" /\ \A j \in 1..(i - 1) : argv[j] # "--") - 1)
                    ELSE argv
FromDashes(argv) == SubSeq(argv, Len(UpToDashes(argv)) + 1, Len(argv))

KnownFlag(walk, token) ==
  CASE walk.wants -> [walk EXCEPT !.wants = FALSE]
    [] ~walk.wants /\ token \in Misspelt -> [walk EXCEPT !.ok = FALSE]
    [] ~walk.wants /\ token \notin Misspelt -> [walk EXCEPT !.wants = token \in WantsValue]
knownFlags(argv) == FoldLeft(KnownFlag, [ok |-> TRUE, wants |-> FALSE], UpToDashes(argv)).ok

knownVerb(st) == st.verb \notin {"short", "unknown"}
allBound(refs, f) == refs \subseteq Bound(f)

(* Scenario.validate.  The argv of a noun or verb that is a ${name} is not *)
(* looked up, so its flags are not either.  broker_set is not looked at.   *)
StepValid(st, f) ==
  /\ HasRun(st) \/ HasWait(st)
  /\ allBound(st.refs, f)
  /\ knownVerb(st)
  /\ st.verb \in {"known", "create", "destroy"} => knownFlags(st.argv)
  /\ st.durations
  /\ HasWait(st) => st.await.masterIs # "typo"
validate(f) ==
  /\ f.steps # <<>>
  /\ f.measurable
  /\ allBound(f.refs, f)
  /\ \A s \in DOMAIN f.steps : StepValid(f.steps[s], f)

-----------------------------------------------------------------------------
(* The runs of a file, in order.                                           *)

(* Mutant: values and bindings paired off.                                 *)
UnrollZip(out, key) ==
  [i \in 1..(Len(out) * Len(key.values)) |->
     (key.name :> key.values[((i - 1) % Len(key.values)) + 1]) @@ out[((i - 1) % Len(out)) + 1]]

(* Every binding so far with every value of one more key.                  *)
Unroll(out, key) ==
  [i \in 1..(Len(out) * Len(key.values)) |->
     (key.name :> key.values[((i - 1) % Len(key.values)) + 1]) @@ out[((i - 1) \div Len(key.values)) + 1]]
Combinations(f) == FoldLeft(Unroll, << <<>> >>, f.keys)

Repeats(f) == IF f.repeats < 1 THEN 1 ELSE f.repeats
points(f) ==
  LET out == Combinations(f)
  IN [i \in 1..(Repeats(f) * Len(out)) |->
        out[((i - 1) % Len(out)) + 1] @@ ("repeat" :> ToString(((i - 1) \div Len(out)) + 1))]

(* A run's binding: the runner puts the name of its cluster over whatever   *)
(* the matrix has under that key.                                          *)
binding(f, i) == ("cluster" :> ToString(i)) @@ points(f)[i]

-----------------------------------------------------------------------------
(* What a dispatched argv means.                                           *)

(* The globals go in before a bare "--", after everything else.            *)
dispatchArgs(argv) == UpToDashes(argv) \o <<"--cluster", "own", "--timeout", "word">> \o FromDashes(argv)

(* parseInterspersed cuts the argv at the first "--" and lets the flag     *)
(* package take it from there: the last --cluster wins, and a flag that    *)
(* wants a value takes what follows it.                                    *)
Parse(walk, token) ==
  CASE walk.wants = "--cluster" -> [walk EXCEPT !.wants = "", !.cluster = token]
    [] walk.wants \notin {"", "--cluster"} -> [walk EXCEPT !.wants = ""]
    [] walk.wants = "" /\ token \in Misspelt -> [walk EXCEPT !.unknown = TRUE]
    [] walk.wants = "" /\ token \in WantsValue -> [walk EXCEPT !.wants = token]
    [] walk.wants = "" /\ token \notin Misspelt \cup WantsValue -> walk
Parsed(argv) == FoldLeft(Parse, [wants |-> "", unknown |-> FALSE, cluster |-> "env"], UpToDashes(argv))

(* What a step's command is run against, and whether its flags are known.  *)
Argvs == UNION {{f.steps[s].argv : s \in DOMAIN f.steps} : f \in Files}
Dispatched == [argv \in Argvs |-> Parsed(dispatchArgs(argv))]
Target(argv) == Dispatched[argv].cluster
Refused(argv) == Dispatched[argv].unknown

-----------------------------------------------------------------------------
Unread == [n \in Nodes |-> ""]
Init ==
  /\ file \in Files /\ opts \in Options
  /\ me = [at |-> "check", point |-> 0, step |-> 0, failed |-> FALSE, anyFailed |-> FALSE,
           slot |-> 1, seen |-> Unread, late |-> FALSE, outcome |-> "none"]
  /\ standing = {} /\ roles = Unread /\ described = FALSE /\ changes = <<>>
  /\ logged = {} /\ recorded = {} /\ events = 0
  /\ note = [lapses |-> {}, still |-> FALSE, lines |-> {}, silent |-> FALSE, excused |-> {}]

At(phase) == me.at = phase
TheStep == file.steps[me.step]

(* After a run comes the next, whether or not this one failed.             *)
Point(p, anyFailed) ==
  me' = IF p \in DOMAIN points(file)
        THEN [me EXCEPT !.at = "create", !.point = p, !.step = 0, !.failed = FALSE, !.anyFailed = anyFailed]
        ELSE [me EXCEPT !.at = "over", !.point = p, !.anyFailed = anyFailed,
                        !.outcome = IF anyFailed THEN "failed" ELSE "passed"]

(* After a step comes the next, unless it failed.                          *)
Follows(s, failed) ==
  CASE failed -> "harvest"
    [] ~failed /\ s \notin DOMAIN file.steps -> IF file.measure THEN "measure" ELSE "harvest"
    [] ~failed /\ s \in DOMAIN file.steps -> IF HasRun(file.steps[s]) THEN "run" ELSE "look"
StepEnds(ok) ==
  me' = [me EXCEPT !.at = Follows(me.step + 1, ~ok), !.step = @ + 1, !.failed = ~ok,
                   !.slot = 1, !.seen = Unread, !.late = FALSE]

Refuse ==
  /\ At("check") /\ ~validate(file)
  /\ me' = [me EXCEPT !.at = "over", !.outcome = "usage"]
  /\ UNCHANGED <<file, opts, world, events, note>>

Begin ==
  /\ At("check") /\ validate(file)
  /\ Point(1, FALSE)
  /\ UNCHANGED <<file, opts, world, events, note>>

(* `cluster create` comes back with the group serving, or fails and leaves *)
(* what it had made.  The record is taken to begin with it.                *)
Create ==
  /\ At("create")
  /\ \/ /\ standing' = standing \cup {me.point} /\ described' = TRUE
        /\ roles' = [n \in Nodes |-> IF n = 1 THEN "active" ELSE "standby"]
        /\ \E speed \in Speeds : changes' = <<speed>>
        /\ StepEnds(TRUE)
     \/ /\ standing' \in {standing, standing \cup {me.point}} /\ described' \in BOOLEAN
        /\ roles' = Unread /\ changes' = <<>>
        /\ StepEnds(FALSE)
  /\ logged' = DOMAIN changes' /\ recorded' = {}
  /\ note' = [note EXCEPT !.lines = logged', !.silent = FALSE]
  /\ UNCHANGED <<file, opts, events>>

(* One node of the group comes to hold another role; becoming active is    *)
(* what the engine logs.                                                   *)
Logs == \E speed \in Speeds : changes' = Append(changes, speed) /\ logged' = logged \cup {Len(changes) + 1}
Moves ==
  \E n \in Nodes, r \in Roles :
    /\ r # roles[n]
    /\ roles' = [roles EXCEPT ![n] = r]
    /\ IF r = "active" THEN Logs ELSE UNCHANGED <<changes, logged>>

(* What a step's command does.  Any verb, if it is run against this run's  *)
(* cluster, may act on the group.                                          *)
Idles == UNCHANGED world
Acts == me.point \in standing /\ Moves /\ UNCHANGED <<standing, described, recorded>>

(* `cluster create` makes this run's cluster again, or one of another name *)
(* under this one's record.                                                *)
Builds ==
  \/ /\ standing' = standing \cup {me.point} /\ described' = TRUE
     /\ roles' \in {roles, [n \in Nodes |-> IF n = 1 THEN "active" ELSE "standby"]}
     /\ Logs \/ UNCHANGED <<changes, logged>>
     /\ UNCHANGED recorded
  \/ standing' = standing \cup {0} /\ UNCHANGED <<described, recorded, group>>

(* `cluster destroy` takes down this run's cluster, as far as it goes: the *)
(* nodes, the logs, and with --purge the artifact and the record; or, run  *)
(* against another, that one.                                              *)
Razes(home) ==
  \/ /\ \/ standing' = standing \ {me.point} /\ roles' = Unread
        \/ /\ UNCHANGED standing
           /\ \E gone \in SUBSET Nodes : roles' = [n \in Nodes |-> IF n \in gone THEN "" ELSE roles[n]]
     /\ logged' \in SUBSET logged
     /\ described' \in {described, FALSE} /\ recorded' \in {recorded, {}}
     /\ UNCHANGED changes
  \/ /\ ~home /\ \E i \in standing \ {me.point} : standing' = standing \ {i}
     /\ UNCHANGED <<described, recorded, group>>

Dispatch(verb, home) ==
  \/ Idles
  \/ home /\ Acts
  \/ verb \in {"create", "bound"} /\ Builds
  \/ verb \in {"destroy", "bound"} /\ Razes(home)

AsExpected(st, exit, printed) ==
  exit = st.exit /\ st.contains \subseteq printed /\ st.absent \cap printed = {}
Lapse(st, exit, printed) ==
  IF AsExpected(st, exit, printed) THEN {} ELSE {IF HasWait(st) THEN "waited" ELSE "judged"}

(* The command of a step.  Before a wait its exit code has to be 0 and     *)
(* nothing else is looked at; without one it is judged.                    *)
Run ==
  /\ At("run")
  /\ LET st == TheStep
         refused == Refused(st.argv)
         home == Target(st.argv) = "own"
     IN \E exit \in Exits, printed \in SUBSET Words :
          /\ refused => exit = 2 /\ printed = {}
          /\ IF refused THEN Idles ELSE Dispatch(st.verb, home)
          /\ IF HasWait(st)
             THEN IF exit = 0 THEN me' = [me EXCEPT !.at = "look"] ELSE StepEnds(FALSE)
             ELSE IF AsExpected(st, exit, printed) /\ st.within THEN me' = [me EXCEPT !.at = "within"]
                  ELSE StepEnds(AsExpected(st, exit, printed))
          /\ note' = [note EXCEPT
               !.lapses = @ \cup Lapse(st, exit, printed), !.lines = logged' \cup recorded',
               !.excused = @ \cup (standing' \cap {0})]
  /\ UNCHANGED <<file, opts, events>>

(* Reading a record harvests it first, as far as that goes: whatever fails *)
(* on the way is passed over, and without an artifact nothing is tried.    *)
Whole == described /\ recorded' = recorded \cup logged
InPart == \E got \in SUBSET logged : (described \/ got = {}) /\ recorded' = recorded \cup got
Readable == logged \cup recorded
Slow(I) == {i \in I : i > 1 /\ changes[i] = "slow"}

(* role_change_within is judged by the record as it is after that.         *)
Within ==
  /\ At("within")
  /\ InPart
  /\ \/ StepEnds(recorded' # {} /\ \A i \in recorded' : changes[i] = "fast")
     \/ StepEnds(FALSE)
  /\ note' = [note EXCEPT
       !.lines = Readable,
       !.lapses = @ \cup {IF i \in recorded' THEN "judged" ELSE "unread" : i \in Slow(Readable)}]
  /\ UNCHANGED <<file, opts, standing, described, group, events>>

-----------------------------------------------------------------------------
(* A wait: pass after pass until its condition is met or its time is up.   *)
(* Of a cluster that has no artifact there is no `ha status`.              *)

(* inspect.Read: a node that could not be asked reads as one without role. *)
Look ==
  /\ At("look") /\ me.slot \in Nodes
  /\ \E got \in {roles[me.slot], ""} :
       /\ me' = [me EXCEPT !.seen[me.slot] = got, !.slot = @ + 1]
       /\ note' = [note EXCEPT !.still = (@ \/ me.slot = 1) /\ got = roles[me.slot]]
  /\ UNCHANGED <<file, opts, world, events>>

(* Mutant: any state with "active" in it.                                  *)
mastersOrCandidates(as) == {n \in Nodes : as[n] \in {"active", "to_be_active"}}

masters(as) == {n \in Nodes : as[n] = "active"}
standbys(as) == {n \in Nodes : as[n] = "standby"}

(* Of several masters the last one read names the role it was created with. *)
createdAs(as) == IF masters(as) = {} THEN "" ELSE Created(CHOOSE n \in masters(as) : \A m \in masters(as) : m <= n)

Met(cond, as) ==
  /\ cond.masters \in {Anything, Cardinality(masters(as))}
  /\ cond.standbys \in {Anything, Cardinality(standbys(as))}
  /\ cond.masterIs \in {"", createdAs(as)}

Answered(cond) == described /\ Met(cond, me.seen)
WaitMet ==
  /\ At("look") /\ me.slot \notin Nodes /\ Answered(TheStep.await)
  /\ StepEnds(TRUE)
  /\ note' = [note EXCEPT !.lines = Readable]
  /\ UNCHANGED <<file, opts, world, events>>

(* Mutant: the deadline is not asked for.                                  *)
WaitsForEver ==
  /\ At("look") /\ me.slot \notin Nodes /\ ~Answered(TheStep.await)
  /\ me' = [me EXCEPT !.slot = 1, !.seen = Unread]
  /\ note' = [note EXCEPT !.lines = Readable]
  /\ UNCHANGED <<file, opts, world, events>>

WaitGoesOn ==
  /\ At("look") /\ me.slot \notin Nodes /\ ~Answered(TheStep.await)
  /\ IF me.late THEN StepEnds(FALSE) ELSE me' = [me EXCEPT !.slot = 1, !.seen = Unread]
  /\ note' = [note EXCEPT !.lines = Readable]
  /\ UNCHANGED <<file, opts, world, events>>

Late ==
  /\ At("look") /\ ~me.late
  /\ me' = [me EXCEPT !.late = TRUE]
  /\ UNCHANGED <<file, opts, world, events, note>>

-----------------------------------------------------------------------------
(* The end of a run.                                                       *)

(* An export, or none.                                                     *)
Measure ==
  /\ At("measure")
  /\ me' = [me EXCEPT !.at = "harvest"]
  /\ InPart
  /\ UNCHANGED <<file, opts, standing, described, group, events, note>>

(* Mutant: only a run that failed is evidence.                             *)
HarvestFailure ==
  /\ At("harvest")
  /\ me' = [me EXCEPT !.at = "destroy"]
  /\ recorded' = IF me.failed THEN Readable ELSE recorded
  /\ UNCHANGED <<file, opts, standing, described, group, events, note>>

(* Mutant: every line is taken for the one before it.                      *)
HarvestSkip ==
  /\ At("harvest")
  /\ me' = [me EXCEPT !.at = "destroy"]
  /\ recorded' = recorded \cup {i - 1 : i \in logged}
  /\ UNCHANGED <<file, opts, standing, described, group, events, note>>

(* `record show`, whose outcome is not looked at.                          *)
Harvest ==
  /\ At("harvest")
  /\ me' = [me EXCEPT !.at = "destroy"]
  /\ \/ Whole /\ UNCHANGED note
     \/ InPart /\ note' = [note EXCEPT !.silent = TRUE]
  /\ UNCHANGED <<file, opts, standing, described, group, events>>

(* Mutant: the last run decides.                                           *)
DestroyForget ==
  /\ At("destroy")
  /\ Point(me.point + 1, me.failed)
  /\ standing' = standing \ {me.point}
  /\ UNCHANGED <<file, opts, described, recorded, group, events, note>>

(* Mutant: a failed run is kept, asked for or not.                         *)
DestroyPassed ==
  /\ At("destroy")
  /\ Point(me.point + 1, me.anyFailed \/ me.failed)
  /\ standing' = IF me.failed THEN standing ELSE standing \ {me.point}
  /\ UNCHANGED <<file, opts, described, recorded, group, events, note>>

(* `cluster destroy`, whose outcome is not looked at either; --purge drops *)
(* the record too.  The logs go, or some of them, unless the run is kept.  *)
Destroy ==
  /\ At("destroy")
  /\ Point(me.point + 1, me.anyFailed \/ me.failed)
  /\ LET kept == me.failed /\ opts.keep
     IN \/ /\ ~kept
           /\ standing' = standing \ {me.point} /\ logged' = {} /\ roles' = Unread
           /\ recorded' = IF opts.purge THEN {} ELSE recorded
           /\ described' = (described /\ ~opts.purge)
           /\ UNCHANGED note
        \/ /\ logged' \in IF kept THEN {logged} ELSE SUBSET logged
           /\ note' = [note EXCEPT !.excused = @ \cup {me.point}]
           /\ UNCHANGED <<standing, roles, recorded, described>>
  /\ UNCHANGED <<file, opts, changes, events>>

-----------------------------------------------------------------------------
(* The world.                                                              *)

Move ==
  /\ At("run") \/ At("within") \/ At("look") \/ At("measure") \/ At("harvest") \/ At("destroy")
  /\ me.point \in standing /\ events < MaxEvents
  /\ Moves
  /\ events' = events + 1
  /\ note' = [note EXCEPT !.still = FALSE]
  /\ UNCHANGED <<file, opts, me, standing, described, recorded>>

Killed ==
  /\ ~At("over")
  /\ me' = [me EXCEPT !.at = "over", !.outcome = "killed"]
  /\ UNCHANGED <<file, opts, world, events, note>>

Over == At("over") /\ UNCHANGED vars

Proceed == \/ Refuse \/ Begin \/ Create \/ Run \/ Within \/ Look \/ WaitMet \/ WaitGoesOn
           \/ Measure \/ Harvest \/ Destroy
Next == Proceed \/ Late \/ Move \/ Killed \/ Over
Spec == Init /\ [][Next]_vars

(* The runner goes on, and time passes.                                    *)
LiveSpec == Spec /\ WF_vars(Proceed) /\ WF_vars(Late)

-----------------------------------------------------------------------------
(* What the runner promises.                                               *)

(* A green result is true of every run and every judged step: no step's    *)
(* exit code, output or role change fell short of the file, in whichever   *)
(* run, unless the step had a wait (see PassedMeansChecked) or the role    *)
(* change could not be read.                                               *)
VerdictIsTrue == me.outcome = "passed" => "judged" \notin note.lapses

(* "A green result that verified nothing is the one failure a tool like    *)
(* this cannot have" (docs/design/01-cli.md): nothing fell short at all.   *)
(* The code does not keep it: see the run scenario_checked.                *)
PassedMeansChecked == me.outcome = "passed" => note.lapses \subseteq {"unread"}

(* A sweep runs every combination of its matrix as often as it was asked   *)
(* for, each under a repeat of its own, and nothing else, and a failed run *)
(* does not end it.  A key named `cluster` is no part of a combination:    *)
(* the runner's own name takes its place, and its values only add runs.    *)
KeyNames == {file.keys[k].name : k \in DOMAIN file.keys}
Picks == {ch \in [DOMAIN file.keys -> UNION {DOMAIN file.keys[k].values : k \in DOMAIN file.keys}] :
              \A k \in DOMAIN file.keys : ch[k] \in DOMAIN file.keys[k].values}
Combination(ch) ==
  [name \in KeyNames \ {"cluster"} |->
     LET k == CHOOSE k \in DOMAIN file.keys : file.keys[k].name = name IN file.keys[k].values[ch[k]]]
Made(i) == Restrict(binding(file, i), KeyNames \ {"cluster"})
SweepIsWhole ==
  me.outcome \in {"passed", "failed"} =>
    LET ran == 1..(me.point - 1)
    IN /\ \A i \in ran : \E ch \in Picks : Made(i) = Combination(ch)
       /\ \A ch \in Picks :
            LET its == {i \in ran : Made(i) = Combination(ch)}
                asked == {d \in Picks : Combination(d) = Combination(ch)}
            IN /\ Cardinality(its) = Repeats(file) * Cardinality(asked)
               /\ "repeat" \notin KeyNames =>
                    Cardinality({binding(file, i)["repeat"] : i \in its}) = Repeats(file)

(* When the runner is done no cluster is left behind but the runs kept for *)
(* having failed, those whose destroy did not succeed, and what a step     *)
(* made under another name.                                                *)
NothingLeft == me.outcome \in {"passed", "failed"} => standing \subseteq note.excused

(* The record of a run that is over holds every role change that was in it *)
(* or in the logs when its last step was judged, though the logs went with *)
(* the cluster; unless it was purged, or could not be closed.              *)
KeptIsWhole ==
  (At("create") \/ me.outcome \in {"passed", "failed"}) /\ ~opts.purge /\ ~note.silent => note.lines \subseteq recorded

(* A wait that ends well was true of the group, if no role changed while   *)
(* its last pass was reading and every node could be asked.                *)
Holds(cond) ==
  /\ cond.masters # Anything => cond.masters = Cardinality({n \in Nodes : roles[n] = "active"})
  /\ cond.standbys # Anything => cond.standbys = Cardinality({n \in Nodes : roles[n] = "standby"})
  /\ cond.masterIs # "" => \E n \in Nodes : roles[n] = "active" /\ Created(n) = cond.masterIs
WaitTrueIfStill == [][WaitMet /\ note.still => Holds(TheStep.await)]_vars

(* A run of scenarios comes to an end: no wait is without a bound, and no  *)
(* failure holds up what follows.                                          *)
Ends == <>At("over")
=============================================================================
