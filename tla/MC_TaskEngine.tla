--------------------------- MODULE MC_TaskEngine ----------------------------
(***************************************************************************)
(* Instances of TaskEngine for TLC: the shapes of workflow the runs use.   *)
(***************************************************************************)
EXTENDS TaskEngine, TLC

\* a and b, then c which joins them
FanIn == [a |-> {}, b |-> {}, c |-> {"a", "b"}]

\* a, then b, then c
Chain == [a |-> {}, b |-> {"a"}, c |-> {"b"}]

\* a, and independently b followed by c
Branches == [a |-> {}, b |-> {}, c |-> {"b"}]

\* two tasks that do not depend on each other
Pair == [a |-> {}, b |-> {}]

\* a followed by b
Sequence == [a |-> {}, b |-> {"a"}]

FanInTasks == DOMAIN FanIn
ChainTasks == DOMAIN Chain
BranchesTasks == DOMAIN Branches
PairTasks == DOMAIN Pair
SequenceTasks == DOMAIN Sequence

\* max_attempts: every task once or twice
Once(d) == [t \in DOMAIN d |-> 1]
FanInOnce == Once(FanIn)
FanInTwice == [t \in FanInTasks |-> 2]
ChainOnce == Once(Chain)
BranchesOnce == Once(Branches)
PairOnce == Once(Pair)
SequenceOnce == Once(Sequence)

\* The fan-in is a workflow of the kind that Timely's theorems are about, and
\* Branches is not.
ASSUME FanInIsLayered == (Deps = FanIn => Layered) /\ (Deps = Branches => ~Layered)

\* Workers are interchangeable in safety runs.
WorkerSymmetry == Permutations(Workers)
=============================================================================
