# TLA+ models of KaHyPar (two-way FM refinement, greedy growing initial partitioning, the command-line driver)

This directory holds TLA+ specifications of the parts of KaHyPar under
`src/`, the TLC models that check them on small instances, and TLAPS proofs
of the central invariants for every instance.

## The system and its parts

KaHyPar partitions a hypergraph into k blocks in three phases:
- it coarsens the hypergraph by contracting pairs of nodes;
- it computes an initial partition of the coarsest hypergraph, with an
  external hMetis/PaToH binary or the greedy growing partitioner;
- it uncontracts one pair (u, v) at a time and calls a local-search refiner
  on the pair after each uncontraction.

The code under `src/` covers the following:

| Part | Source | State and operations | Module |
|---|---|---|---|
| Two-way FM refiner | `partition/refinement/TwoWayFMRefiner.h` | two gain PQs, `_partition_size`, `_marked`, `_just_activated`, `_performed_moves`; `initialize`, `refine`, `updateNeighbours`/`updatePin`, `rollback` | `TwoWayFM`, `MCTwoWayFM`, `TwoWayFMProofs`, `TwoWayFMBookkeepingProofs` |
| Command-line driver | `application/KaHyPar.cc` | variables_map and Configuration; `--help`, `setDefaults`, `configurePartitionerFromCommandLineInput`, derived parameters, exit | `KaHyParCLI`, `MCKaHyParCLI`, `KaHyParCLIProofs` |
| Improvement policy | `refinement/policies/FMImprovementPolicies.h` | stateless predicate `improvementFound` used by the caller of `refine` | `FMPassContract`, `TwoWayFMRefinement`, `MCTwoWayFMRefinement`, `TwoWayFMRefinementProofs` |
| Greedy growing initial partitioner | `initial_partitioning/GreedyHypergraphGrowingInitialPartitioner.h` | bucket queues per block, enabled blocks, `_hyperedge_in_queue`, the partition; `initialPartition` and its helpers | `GreedyHypergraphGrowing`, `MCGreedyHypergraphGrowing`, `GreedyHypergraphGrowingProofs` |
| DoNothingCoarsener, Mandatory | `coarsening/DoNothingCoarsener.h`, `lib/core/Mandatory.h` | no run-time state | not modelled |

The hypergraph, the coarseners, the other refiners, the priority queues and
the driver of uncoarsening are not under `src/`. TwoWayFM uses the
hypergraph only through its pin counts n(e, b), derived from the partition.
The FM queue-selection and stopping policies are modelled from the spec.

## TwoWayFM: the FM pass

**State.**
- The variables `part`, `partSize`, `pq`/`key`, `marked`, `justActivated`,
  `moves` and `minCutIndex` are the refiner's fields and locals of the same
  names. The last two are `_performed_moves[0..num_moves-1]` and
  `min_cut_index`.
- `cut`, `bestCut` and `bestImbalance` are the local `cut` and the caller's
  `best_cut` and `best_imbalance`.
- The imbalance `2·max(w0,w1)/(w0+w1) − 1` is kept as an exact fraction.
- `phase` records where `refine` is. `bestPart` is a history variable: the
  partition at the last checkpoint.

**Actions.** `Init` is `initialize()`. The other actions are:
- `Refine(u, v)`: lines 99-129, which clear the PQs, reset the marks and
  activate u and v.
- `MoveNode`: one forward iteration up to `updateNeighbours`. It covers
  eligibility, queue selection, `deleteMax`, `moveHypernode`, `cut -=
  max_gain`, the statistics and the reset of `_just_activated`.
- `UpdateEdge(he)`: one incident hyperedge of `updateNeighbours` with all its
  `updatePin` calls. The pins of one hyperedge are independent of each
  other: each pin's update reads only its own flags and the partition. So
  the action updates them all at once.
- `FinishMove`: the checkpoint test, lines 183-199, and the record of the
  move, lines 200-201.
- `Stop`: the loop exits and `rollback` is called.
- `RollbackStep`: one iteration of `rollback()`.
- `RollbackDone`: the return.

The two-way refiner is built with the NullPolicy clogging policy, so the
`continue` at line 143 never happens.

**Model `MCTwoWayFM.cfg`.**
- Four nodes, one of weight 2.
- Four hyperedges, of sizes 2, 3, 3 and 4, one of weight 2. With these sizes
  every case of the gain update happens: the size-2 and size-3 special cases,
  0→1, 1→0, 2→1 and 1→2.
- Block bound 3. It makes some heads ineligible, which exercises the
  selection when neither queue is eligible.
- At most 2 fruitless moves, and 2 passes, so that a second pass starts from
  a rolled-back state.
- Every initial partition is explored.

The run reaches 11,812 states and fires every action.

**Fairness.** `refine()` is ordinary sequential code, so once called it runs
to its return. `WF_vars(Next)` expresses exactly that. CHECK_DEADLOCK is off
because the caller stops calling `refine` (here after `MaxPasses` passes).

**Properties** (all hold):
- `QueuedGainsExact`: between iterations every queued key equals
  `computeGain` on the current partition. This checks the five gain-update
  rules, `_just_activated` and the removal of non-border nodes.
- `CutTracksHypergraph`: the incremental cut equals the hypergraph's cut
  (the ASSERT at line 173).
- `PartitionSizesExact`: `_partition_size`, which the moves and the
  rollback update incrementally, is the weight of each block at every step
  (the ASSERT of `calculateImbalance`, line 318).
- `RefineEntryConsistent`: at every return, `best_cut`, `best_imbalance` and
  `_partition_size` describe the partition. These are the preconditions the
  next call asserts at lines 102-108.
- `RollbackRestoresCheckpoint`: the returned partition is the checkpoint's.
- `RollbackMovesBack`, an action property: every node a step of the
  rollback moves goes back to its checkpoint block, so the loop never
  touches a move the checkpoint kept.
- `PassTerminates`: every pass returns.

Each property is broken by a mutant of the code: a dropped size-3
correction, an ignored `_just_activated`, a checkpoint that forgets
`best_imbalance`, `min_cut_index` one off (which breaks both rollback
properties), rollback weights updated after the move (which breaks
`TypeOK` and `PartitionSizesExact`), and a missing `--last_index`.

## KaHyParCLI: start-up of the binary

**State.**
- `vm` is the parsed command line: a record whose fields are an option value
  or `Absent`.
- `config` is the Configuration.
- `status` and `exitReason` describe how the process ended.

**Actions.** `Help`, `SetDefaults`, `ConfigureError` (the four `exit(0)`
paths), `Configure`, `Derive` (lines 396-410) and `Finish`.

**Value encoding.**
- Doubles are fractions.
- `HyperedgeID` is unsigned, so `--cmaxnet` is kept modulo 2^IdWidth. IdWidth
  is 16 in the model because TLC integers are 32-bit.

**Model `MCKaHyParCLI.cfg`.** Every combination of absent, legal and illegal
values for the options that steer control flow, 631,296 states in total.

**Properties.**
- `DerivedFromFinalOptions` and `OptionsTakeEffect` hold. The first says the
  derived parameters are recomputed from the final k, t and s, not from the
  defaults. The second says every legal option given is in force.
- Two runs are expected to be violated. They record where the code departs
  from the spec:
  - `ParameterErrorsExitNonzero` (`MCKaHyParCLI_exit.cfg`): parameter errors
    exit with status 0, while spec §6 and §7 ask for nonzero.
  - `InvalidOptionsRejected` (`MCKaHyParCLI_part.cfg`): an unknown `--part`
    value is silently ignored.
  - `KAtLeastTwo` (`MCKaHyParCLI_k.cfg`, command lines with `--k` 1 or 3):
    spec §6 documents `--k` as ">= 2", but line 96 copies it without a
    check, so `--k 1` is accepted and partitioning starts with one block.
- `TypeOK` types `config.k` as any integer, since that is what boost hands
  over for `--k`.

**Assumptions on the constants.** `CLIAssumption` bounds TotalWeight,
IdWidth, IntMax and DoubleMax. It also states `2^IdWidth` is a positive
natural number: that follows from `IdWidth \in Nat` by induction, which the
provers cannot do, and TLC evaluates it. `CLITypes` says what
boost::program_options hands over: an integer for `--k`, `--seed`, `--t`,
`--FMreps` and `--cmaxnet` (their `po::value<int>`, `<PartitionID>`,
`<HypernodeID>` and `<HyperedgeID>` declarations), a fraction for `--e` and
`--s`, and a Boolean for `--help`.

**What is proved (`KaHyParCLIProofs`).** For every set of command lines
that satisfies `CLITypes`, every hypergraph weight and every id width:
- `TypeOKThm`: `Spec => []TypeOK`;
- `DerivedFromFinalOptionsThm`: `Spec => []DerivedFromFinalOptions`;
- `OptionsTakeEffectThm`: `Spec => []OptionsTakeEffect`.

The inductive invariant `IInv` adds `ConfigInPhase` to the types. It says
what `config` is in each phase: all `Absent` at the start, `Defaults`
after `setDefaults`, `Configured(Defaults)` once the options are read (and
then no parameter error holds), and `Derived(Configured(Defaults))` after
the derivation. Lemmas compute what `Configured` and `Derived` leave in
each field. The three properties then follow from `IInv` by arithmetic on
the fractions.

## GreedyHypergraphGrowing: the greedy growing initial partitioner

**State.**
- `part` is `_hg.partID`, with -1 for "no block".
- `pq[b]` is the set of ids in `_pq[b]`, and `enabled` is the set of blocks
  whose queue is enabled.
- `inQueue` is `_hyperedge_in_queue`, as a set of <<block, hyperedge>>.
- `released` is `is_upper_bound_released`, and `minWeight` is
  `minimum_unassigned_part_weight`.
- `opU` is the operating unassigned part of the queue-selection policy, and
  `cfgU` is the configured `unassigned_part`. Both are chosen in `Init` and
  never change.
- `phase` records whether the call is before, in or after the loop.

**Abstraction.** The gain, queue-selection and start-node policies,
`KWayPriorityQueue` and `InitialPartitionerBase` are not under `src/`.
Gains are left out. `nextQueueID` may return any node of any enabled
queue, which includes every choice a policy can make. The queue's own rule
is kept: removing the last element disables a queue, and an insertion
enables it unless it is the unassigned part's queue.

**Actions.** One action per iteration outcome of the `while(true)` loop:
- `InitialPartition`: lines 69-95, with `reset` and `calculateStartNodes`.
- `BreakOnLightUnassignedPart`: lines 96-101.
- `ReleaseUpperBound`: lines 106-126.
- `BreakAfterRelease`: lines 127-129.
- `AssignHypernode`: lines 131-156, including the whole
  `insertAndUpdateNodesAfterMove` and `deleteNodeInAllBucketQueues`.
- `DisablePart`: lines 157-159.
- `AssignRemaining`: lines 162-186.

Line 86 reads `perfect_balance_partition_weight[unassigned_part]` at the
configured part. When that part is -1 and the operating part is a real
block, the read is out of range. The model lets it yield any weight in
0..c(V). Every property of the greedy run holds for every such value, so
none of them detects this read; it only decides when the loop stops.

**Model `MCGreedyHypergraphGrowing.cfg`.**
- Five nodes: node 4 has weight 4 and node 5 is in no hyperedge.
- Two blocks and epsilon = 1/4.
- Every combination of operating and configured unassigned part (-1, 0,
  1).
- With these weights both blocks can be full while node 4 is unassigned.
  That exercises `DisablePart`, the release and the fallback of lines
  167-178. The isolated node is reached only through `getUnassignedNode`.
- Each call is followed by another, so the run has no deadlock. 4,261
  states.

**Fairness.** `initialPartition()` is sequential code, so `WF_vars(Next)`.

**Properties** (all hold, each broken by a mutant):
- `QueuedNodesUnassigned`: the ASSERT at line 135. Every node a queue
  offers in the loop is unassigned. Broken if the moved node is removed from
  the target block's queue only.
- `QueuesStayAlive`: an assignment never disables an enabled queue while
  unassigned nodes remain. Broken without the refill of lines 245-247.
- `EveryNodeAssigned`: the call returns a k-way partition. Broken if line
  167 reads the configured part after line 182 restores it.
- `InitialPartitionTerminates`: every call returns. Broken if
  `is_upper_bound_released` is never set.
- `GHGTypeOK`. Broken by a start-node loop that runs to i <= k.

## FMPassContract and TwoWayFMRefinement: what a refine() call promises

`FMPassContract` is the abstract specification of one `refine()` call,
seen by its caller. A `Pass` step replaces the partition by one with:
- no larger cut;
- a change only for a strict gain in cut or in imbalance;
- an imbalance within `max_imbalance`, or no worse than before.

It also records `improvementFound` of `FMImprovementPolicies.h`, which is
the operator `ImprovementFound`. The cut, the imbalance and their order are
constant operators.

`TwoWayFMRefinement` adds two history variables to `TwoWayFM`:
- `passStart`: the partition at the entry of the running pass;
- `verdict`: the policy's verdict on the last returned pass.

The refinement mapping shows the caller's view. While a pass runs it is the
entry partition with its cut and imbalance. When the pass returns it is
`part`, `best_cut` and `best_imbalance`. Every inner step of a pass is a
stutter of the contract, and the return is its `Pass` step.
`MCTwoWayFMRefinement.cfg` checks `Contract!Spec` as a PROPERTY. It uses
block weights 1, 1, 2, 2 and bound 4, so that some partitions exceed
max_imbalance and the balance clause of the checkpoint test matters. With
the weights and bound of `MCTwoWayFM` only the initial partitions with a
block of weight 4 (a 4:1 split) exceed max_imbalance, and no move leads
to one, so the balance clause rarely decides there. The
run has 6,006 states. It is broken by a checkpoint test that ignores the
balance condition. That mutant is caught by this run only:
`RefineEntryConsistent` and `RollbackRestoresCheckpoint` hold whatever
the checkpoint accepts. The MC module also evaluates the laws of the sums
`SumFacts` and `MoveLaws` of `TwoWayFM` (below) on its instance, as the
ASSUME `MCRSumLaws`.

**The refinement proof (`TwoWayFMRefinementProofs`).** `RefinementThm`
proves, for every hypergraph and parameter,
`RSpec /\ []CutTracksHypergraph /\ []PartitionSizesExact => ContractSpec`,
under the hypothesis `SumFacts`. `RefinementFromGainsThm` then discharges
the two bookkeeping hypotheses with the theorems of
`TwoWayFMBookkeepingProofs` (below) and proves
`RSpec /\ []QueuedGainsExact => ContractSpec` under `SumFacts` and
`MoveLaws`. The proof of `RefinementThm` proceeds step by step:
- `InitRefines`: initial states map to initial states of the contract.
- `StepRefines`: the entry of `refine()` and every inner step are
  stutters, and the return (`RollbackDone`) is a `Pass` step whose result
  is the checkpoint partition.

The invariant behind it is `RInv`. Between passes, `best_cut` and
`best_imbalance` are the cut and imbalance of the partition. During a pass,
`PassBest` holds: the checkpoint's cut and imbalance are `best_cut` and
`best_imbalance`, `best_cut <= initial_cut`, the checkpoint is the entry
partition or strictly better in cut or imbalance, and it is within
`max_imbalance` or no less balanced than the entry. `FinishMoveRInv` is the
key step. The checkpoint test only accepts a cut no larger with a better
imbalance, or a smaller cut within `max_imbalance`. `PassBest` is then
kept by the transitivity of the order of imbalances (`ImbalanceLessTrans`,
cross-multiplication with positive denominators). `TwoWayFMProofs`' `IInv`
gives that the return leaves the checkpoint partition.

The hypotheses are what the argument needs from sums of weights, which the
provers cannot unfold:
- `CutTracksHypergraph` and `PartitionSizesExact` are proved in
  `TwoWayFMBookkeepingProofs`, the first one given `QueuedGainsExact`. All
  three are checked by TLC in `MCTwoWayFM`.
- `SumFacts` says the cut of a partition is an integer and the block
  weights are naturals with a positive total. It is true for any finite
  hypergraph with positive node weights, but proving it needs induction
  over the fold that defines the sums.

## What is proved (TwoWayFMProofs)

TLAPS proves the following for every hypergraph and every value of the
constants, using only the assumptions on them:
- `RollbackRestoresCheckpointThm`: `Spec => []RollbackRestoresCheckpoint`.
- `MovesDistinctThm`: no node is recorded twice in a pass.
- `ControlTyping`: the control state is well typed.
- `RollbackMovesBackThm`: `Spec => RollbackMovesBack`. A rollback step
  flips `_performed_moves[last_index]`, which is in the flipped set S, so it
  returns to its checkpoint block.

**The inductive invariant.** `RollbackRestoresCheckpoint` is not inductive
by itself. The proof uses `IInv`, which says:
- The partition is always `Flip(bestPart, S)`, where S is the set of moves
  recorded after `min_cut_index` and still not undone. In the forward phase
  S is the moves min_cut_index+1 .. num_moves-1. During `updateNeighbours` S
  also contains the moved node. During the rollback S is the moves
  min_cut_index+1 .. last_index.
- Every queued node sits in the PQ of its own block and is unmarked.
- The marked nodes are exactly the recorded moves.
- The recorded moves are distinct.

The last three facts give the key step: a node taken from a PQ was not
moved before, so flipping it back in the rollback removes exactly that move
from S.

TLC checked `IInv` on the `MCTwoWayFM` instance before it was proved. The
proof has one lemma per action and one step per conjunct the action can
disturb. It rests on lemmas about `Flip`, about the set of moves of an
appended sequence, about dropping the last move, and about `activate` and
`selectQueue`.

## What is proved (TwoWayFMBookkeepingProofs)

These theorems are about the numbers the pass keeps: the block weights,
the cut, the cached gains and the indices. They hold for every hypergraph
and every bound, under two laws of the sums stated in `TwoWayFM`:
- `SumFacts`: the cut of a partition is an integer, and the block weights
  are naturals with a positive total.
- `MoveLaws`: moving node v from its block moves `NodeWeight[v]` between
  the two block weights and lowers the cut by `ComputeGain(p, v)`, which
  is an integer. This is the identity the code relies on when it does
  `cut -= max_gain`.

The sums are `MapThenSumSet`, a function over subsets defined by recursion
in `Folds`. Proving these laws needs induction with an operator parameter,
which the installed provers cannot instantiate. So the laws are hypotheses
of the theorems (`ASSUME SumFacts, MoveLaws PROVE ...`), not assumptions
of the module. `MCTwoWayFM` and `MCTwoWayFMRefinement` evaluate them on
their instances as the ASSUMEs `MCSumLaws` and `MCRSumLaws`. If a law were
false there, TLC would stop with "Assumption ... is false".

The theorems:
- `TypeOKThm`: `Spec => []TypeOK`.
- `PartitionSizesExactThm`: `Spec => []PartitionSizesExact`, the ASSERT of
  `calculateImbalance`.
- `CutTracksHypergraphThm`:
  `Spec /\ []QueuedGainsExact => []CutTracksHypergraph`.
- `RefineEntryConsistentThm`:
  `Spec /\ []QueuedGainsExact => []RefineEntryConsistent`.

The cut theorems need exact gains. The code subtracts the key the PQ holds
for the moved node, and that key is the real gain only if
`updateNeighbours` kept it exact.

**The inductive invariants.**
- `BInv` is `IInv` plus three facts:
  - `PartitionSizesExact`;
  - `MovesBound`: at most |V| moves are recorded, and fewer than |V|
    while `updateNeighbours` runs. The latter comes from the loop's
    `num_moves < _hg.initialNumNodes()` test, and it keeps the next
    `Append` in range.
  - the types of the numeric state.
- `CutInv` says three things:
  - `cut` is the partition's cut in the forward loop;
  - `best_cut` and `best_imbalance` are the partition's between passes;
  - they are those of the checkpoint partition `bestPart` during a pass.

During a pass the checkpoint is needed. Otherwise the return from
`rollback` would not be known to restore values that describe the
partition.

TLC checked both invariants on the `MCTwoWayFM` instance before they were
proved. There is one lemma per action.

**What only TLC checks.**
- `QueuedGainsExact`: the gain-update rules of `updatePin` keep every
  cached gain equal to `computeGain`. The gain is itself a sum over the
  incident hyperedges of the moved node. Each rule's correctness is a
  statement about how pin counts change in those sums, which needs the
  same induction over folds.
- Liveness (`PassTerminates`, `InitialPartitionTerminates`): TLAPS does
  not handle the fairness and ENABLED reasoning it needs.
- The laws `SumFacts`, `MoveLaws` and `GHGSumFacts`: TLC evaluates them
  on each MC instance.

## What is proved (GreedyHypergraphGrowingProofs)

For every hypergraph, every k >= 2, every epsilon and every policy choice:
- `QueuedNodesUnassignedThm`: `Spec => []QueuedNodesUnassigned`.
- `QueuesStayAliveThm`: `Spec => QueuesStayAlive`.
- `EveryNodeAssignedThm`: `Spec => []EveryNodeAssigned`.
- `GHGTypeOKThm`: `Spec => []GHGTypeOK`, under the hypothesis
  `GHGSumFacts` that the total node weight c(V) is a natural number.
  `MCGreedyHypergraphGrowing` evaluates that law as an ASSUME. The
  minimum weight of the unassigned part is 0, any weight up to c(V), or
  the perfect weight ceil(c(V)/k). `PerfectWeightRange` shows that the
  perfect weight is at most c(V) for k >= 2.

**The inductive invariant.** `QueuedNodesUnassigned` holds only in the loop,
and its preservation needs more. `IInv` adds three facts:
- the types;
- every enabled queue is non-empty (the queue's own rule);
- the operating unassigned part's queue is never enabled.

With these, `AfterMoveProps` shows the following. After
`insertAndUpdateNodesAfterMove` every queue holds only unassigned nodes.
Each enabled queue is non-empty and not the unassigned part's. While an
unassigned node exists, every queue enabled before is still enabled. The
last fact is `QueuesStayAlive`, from the refills in
`deleteNodeInAllBucketQueues` and at lines 245-247.

`EveryNodeAssigned` uses `PartWithinLoop`: during the loop every node is in
a block or in the operating unassigned part. The weight bound is only a
guard in these proofs, so apart from `GHGSumFacts` no sum has to be
reasoned about.

Not proved: `InitialPartitionTerminates`, which is liveness.

## Not modelled, and the plan

- **Gains in the greedy growing partitioner.** `deltaGainUpdate` and the
  gain policies are not under `src/`. So neither the key ASSERT at lines
  250-265 nor the balance or cut of the initial partition is checked.
- **The base-class FM refinement after initial partitioning**
  (`rollbackToBestCut`, `performFMRefinement`) and **the uncoarsening
  driver** that calls `refine` and the improvement policy. They are not
  under `src/`. The contract of a single call is checked instead.
- **File I/O, printing, the factories and the hMetis ub factor.** These are
  pure I/O or floating-point formulas, and stay out.
- **`_performed_moves` written through `operator[]` after `reserve()`.** This
  is undefined behaviour that a model of values cannot observe.
