# Verification of allium-deck

allium-deck recommends decks of five cards: it builds a pool of candidates from a
player's account, searches the legal decks of the pool for the best K under a target
(score, power, skill, bonus, MySekai, challenge), and serves the search over HTTP from a
bounded pool of threads. Its docs promise *exact* answers: the returned decks are the
canonical Top-K of a full enumeration, unless the search says that its deadline struck.
The TLA+ modules of this directory say what that means, model the code that has to
achieve it, and check or prove that it does. Paths are relative to the repository root.

## The system

| Component | State | Operations | Interaction |
| --- | --- | --- | --- |
| Engine, JSON (`src/engine.rs`), binding (`wasm/`), CLI (`src/bin`) | none between calls | parse, recommend | call the handler, then the search |
| Pool building (`src/handler/`, `src/pool/`) | the pool under construction | gather, filter, power / bonus / skill tables, capacity | hands an immutable pool and context to the search |
| Search dispatch (`src/search.rs`) | none | choose the solver of a request | one budget for the whole request |
| Tracker (`src/search/tracker.rs`) | retained list, floor | insert, threshold, rank threshold, public-set cutoff | fed and read by every solver |
| Regimes (`src/search/composition.rs`) | plans, tracker | plan, prune, search, merge | runs a solver per regime, hands it a floor |
| Challenge (`src/search/solver/challenge.rs`) | merged list, deadline | search per character, merge | runs the regime loop per character |
| Power scenarios (`src/search/solver/power.rs`) | shared deck array, tracker | build scenarios, descend, prune | reads the composition rules of `src/power.rs` |
| Score branch and bound (`dfs.rs`, `suffix.rs`, `dominance.rs`, `alternatives.rs`, `warm_start.rs`) | node stack, tracker | eliminate, seed, descend, expand alternatives | called per regime |
| Bonus tiers, final chapter, numeric solvers | tables, trackers | descend, prune | called by the dispatch or per regime |
| Budget (`src/search/budget.rs`) | sticky expiry | expired, expired_sampled | shared by all phases of a request |
| Search pool (`server/src/pool.rs`) | channel, shared receiver, gauges | execute, shutdown, worker_loop | async callers, worker threads, oneshot replies |
| Registry (`server/src/state.rs`, `api/ops.rs`) | current snapshot | current, replace | requests hold a snapshot, reloads replace it |
| HTTP API, metrics (`server/src/`) | configuration, counters | routes, clamp | calls the pool, maps rejections to statuses |

What is hard here is of two kinds. The searches are sequential, and what can go wrong is
*losing a deck*: a bound that holds for most decks, a cutoff read at the wrong moment, a
tie decided by the wrong key, a regime skipped because another one was searched first.
A test compares a few pools with a brute force; a lost deck needs a coincidence of ties,
variants, virtual singers and order. The service is concurrent: callers, timers, worker
threads, panics, disconnects and the shutdown meet in any order, and the metrics are
moved by relaxed atomics on both sides. `PROJECT.json` lists every hazard at its line,
with the properties that catch it or the reason why none does yet.

## Modules

| Module | Models | Role |
| --- | --- | --- |
| `TopK` | `tracker.rs` | ranking, the canonical Top-K, insertion and cutoffs, as operators |
| `CanonicalTopK` | the promise of the docs | abstract specification: the answer is the canonical Top-K of what was met |
| `TopKTracker` | `tracker.rs` | the tracker as a state machine, shown to implement `CanonicalTopK` |
| `CommonLemmas` | | lemmas about sequences, sums, sorting, list codes and the tracker's operators, which all proofs cite |
| `TopKTracker_proofs` | | theorems about the tracker and its cutoffs |
| `DeckPower` | `src/power.rs` | composition of a deck, multi-unit activation, the power of a member |
| `DeckPower_proofs` | | lemmas about compositions and powers, which both searches' proofs cite |
| `PowerSearch` | `solver/power.rs` | the scenario branch and bound, call by call |
| `PowerSearch_proofs` | | theorems about the power search |
| `RegimeSearch` | `composition.rs`, `solver/challenge.rs` | the outer loops over regimes and characters |
| `RegimeSearch_proofs` | | theorems about the regime loop |
| `Evaluation` | `evaluate.rs`, `placement.rs` | requests, slots, bonus totals with their cap, support decks: what a deck is worth, as operators |
| `Dominance`, `Sorting` | `search.rs`, `dominance.rs`, `alternatives.rs` | an exact search over a reduced pool: removal, search, expansion |
| `SkillCeilings` | `skill_ceiling.rs` | the largest total of skills that read the other members |
| `SuffixBounds` | `suffix.rs`, `objective.rs` | ceilings of a prefix and of a scan's rest, the cached cutoffs, on `Evaluation` and `SkillCeilings` |
| `ScoreSearch` | `dfs.rs`, `membership.rs` | the branch and bound of scores, bonuses and MySekai values, card by card, on `SuffixBounds` |
| `ScoreSearch_proofs` | | theorems about the score search's cached cutoffs and its list |
| `BonusTiers` | `solver/bonus_tiers.rs` | the exact search of bonus tiers, call by call, on `Evaluation` and `SkillCeilings` |
| `CardTables` | `handler/power.rs`, `event_bonus.rs`, `skill.rs`, `world_bloom.rs` | what one owned card is worth by the master tables, as operators |
| `EventContext` | `handler/event_bonus.rs`, `world_bloom.rs` | the event a pool is built for, real or simulated, on `CardTables` |
| `PoolBuild` | `handler/build.rs`, `filter.rs`, `gather.rs`, `capacity.rs`, `src/pool/` | a request and a box become a pool and a context, on `EventContext` |
| `BoundedService` | the promise of `pool.rs` | abstract specification of the search pool |
| `SearchPool` | `server/src/pool.rs` | callers, channel, workers, shutdown, metrics; implements `BoundedService` |
| `Service` | `server/src/` but the pool | start, registry and reloads, the computing endpoints, drain; composes `BoundedService` |
| `SearchPool_proofs`, `Service_proofs` | | theorems about the search pool and about the service |
| `MC*` | | the instances TLC checks |

### Tracker

A result is a record of its encoded objective (`score`), resolved power, public set and
layout. The code compares the last two as arrays, lexicographically; the model numbers
the arrays in that order. `Insert` is the whole of `insert`: the full-list test, the
search for an entry of the same public set, its removal, the binary search, the insertion
and the pop. `TopKTracker` adds the request, the floor of `with_floor` with the contract
its callers owe it (K distinct sets outside that reach it), and the cutoffs a solver reads.
Two history variables, `offered` and `outside`, say what the list is an answer *to*.

`TieBeyondCutoff` is the test that the readers of `cutoff_public_set` make. It is sound
for trackers without a floor, and the code's readers own such trackers: with a floor above
the K-th objective the K-th entry's public set says nothing about a tie at the floor. The
module states that precondition instead of hiding it.

### Power scenarios

A scenario is the set of units and the attribute that all members share. One action is
one step of `descend`: `Visit` (a leaf, a dead end, a pruned node or a new loop) happens
inside the action that calls it, `Skip` and `Descend` are an iteration of the loop,
`Leave` its end or the monotone break, and `ExpireAtCandidate` unwinds all calls. The
array `deck` is shared by all active calls as in the code. Scenarios are taken by falling
ceiling; which of two equal ceilings comes first is left open, where the code takes the
order of its lists. Powers are tables of the instance; the clamp of totals is the identity for these requests.

### Regimes

A regime is a shared unit and attribute, or neither, and the activation of multi-unit
effects. `Plans` is the construction and the sort; `PruneRegime`, `SearchRegime`,
`SearchCutShort` are an iteration; `Open` and `Close` are the per-character searches of a
challenge-all request, a unique-character request having one. The search *inside* a regime
(`dfs.rs`, `challenge_recurse`, and what they call) is a contract, `Solutions`: it may
lose a deck only if the deck's ceiling under the regime's bounds is below a cutoff it has
reached itself. `LogLinearExcludes` likewise excludes a regime only if its own decks
allow it; that the interval arithmetic does no more is not modelled. Where the code looks
at the clock, `Expire` may strike. What a request asks for is an argument (`q`) of the
operators, so that the proofs can speak of them for any request.

### Dominance

`Eliminate` and `Demote` are the two rounds of `search_unique_characters`, each one pass
of `compute_keep_mask_with_winners` with its chain compression and a look at the clock;
`Search` is the search of the reduced pool, by contract (the canonical answer of its
decks, a floor found elsewhere excepted, or what a search cut short has met), the test
whether to expand, and the tracker filled again. The expansion is three mutually recursive
functions; `tasks` holds the calls still to be made, the next one first, and an action
takes one and puts the calls it makes in front, which is the order of the recursion:
`ExpandResult`, `ChooseVariant` and `EvaluateVariants` (the variants of every card, before
any score is looked at), `RotateLeader`, `Prune`, `Substitute`, `Try`. So the cutoff a call
is pruned by is the one of the moment it runs. `EvaluateCandidate` is the exact evaluation:
slot constraints, bonus totals with the cap on limited amounts, support decks by leader,
skills that read the other members, the order of the free slots. It depends on the request
alone and is tabulated once, in `evaluation`. The formulas are small step functions with
the code's structure (an event value over a live score, a bonus that multiplies); the
percentages are whole tenths, so the margins for floating point rounding in
`SupportDimension::affordable` are zero.

### Score search

`stack` holds the open calls of `recurse`. `EnterHopeless`, `EnterLeaf`, `EnterFixed`,
`EnterNode` are the beginnings of a call, which chooses one of the scans; a step of a scan
is one card: `FixedStep` (a role), `SimpleStep` (no cutoff yet), `NoEventStep`,
`PrunedStep`, or one block (`ShadowFill`) and one card of it (`ShadowLane`). `EndOfScan`
leaves the call, `NextLeader` opens the next leader of a final chapter, `PlantSeed` the
caller's decks before all that, and `Expire` strikes where the code looks at the clock.
What `SuffixBound::build` prepares once (the support envelope, the ceiling of bonuses that
no card has, the sums over the best cards of distinct characters from each position on) is
computed in the initial state, in `suffix`.

The scan without an event keeps the threshold of its entry; the others raise theirs after
every child, which is the value `Cut` has at the next card, for only leaves insert. The
tests of a card are a sequence and the cache of cutoffs is threaded through it: a test that
fails leaves the rest unasked, as in the code. The model asks a card's own ceiling also
when it equals its run's, which changes neither the answer nor the cache.

`StillOpen` is the invariant behind `CompleteIsCanonical`: every deck that would still
enter the list is ahead of some open scan or has its leader still to come.
`CeilingsHold` compares each ceiling of the innermost scan with all decks it stands for,
whether or not a cutoff makes use of it. Left out: the correlated bound of `correlated.rs`
(floating point), the power and skill targets (other solvers answer them), the leader's
extra share of the live score, rounding margins, and that `LeafPrefix` remembers what it
computes.

### Bonus tiers

A request lists tiers, whole percentages; each has a tracker of its own, all share one
deadline. `Problem` gives a scope (a character of a challenge, a leader of a final chapter,
or the whole pool) its groups of cards and counts its bonuses in ticks: `FittingScales` is
the search for a scale that makes the support values whole, and a value no scale fits has
slack. `Entry`, `Refill`, `SupportOf` say what main cards take from the support list, which
moves up. `Table` is the suffix table of reachable sums, each with the largest power, skill
and joint value; `View`, `Join`, `Narrowed` are the orders of the groups it is built for:
first by power, then, when a test at every `JoinAfter` nodes finds that it pays, by a
weighted sum of power and skill, and per set of attributes once `RestrictAfter` nodes have
met that set. `Certificate` enumerates, after `CertifyAfter` nodes, the sums of whole decks
exactly, and excludes pairs of a tier and a diversity class that no deck can hit.

`stack` holds the calls of `expand` under way; `Branch` opens a node, `SkipChild`,
`Descend` and `Leaf` take one of its children, `EndNode` leaves it. Everything a node
reads of the outside (the tier's cutoff, the restriction, the certificate) is read when the code reads it, so a
cutoff can be older than what it is compared with. The model counts bonuses in grains
(`Grain` to a tenth), so that values between the tenths exist. Left out: the column of the
leader's skill (a live score is `power * (10 + skill)` here), the prechecks that the exact
tests subsume, the cache of frontiers, the widths of the integers and the overflow guards,
shuffle bonuses. Cards with equal parts are one class; equal children may be visited in
any order, and whether the joint column pays is free. World bloom final chapters have
distinct characters, hence one support profile to a scope (`RequestAssumption`).

### Pool building

One action per stage of the build: `Validate` (which resolves the event), `Prepare` (the
box as it counts), `CutTiers`, `BuildCandidates` (states, filters and support seeds),
`FilterOtherUnit`, `ValidateFixed`, `SortAndGather` and `BuildContext`; each may end the build with the code's
error. A simulated event takes its
bonuses from the rules of its turn, and the WL3 parts their characters. The values are
those of the master tables of the instance, computed by `CardTables` with the code's
formulas (float formulas round as `\div` does). Left out: the canvas and the episodes,
configuration of single ranks and skill levels, the honors' total and the cap on power,
shuffle bonuses, MySekai gates given by a bare rate, and the parameters of music and live.

The promise is stated against the box: `NothingLost` says that for every legal deck of the
user's cards, in the states the request allows, the pool holds cards of the same public ids
and characters that are at least as good. States of a card collapse when they differ only
in what compact skill values cannot tell, so the comparison is of clamped values, as in the
code. `SupportIsTheBox` compares the support the search counts with the listing of the
user's box, `PackedCardsDecode` a packed card with what the tables gave.

### Service

`CommandLines` are flags with an environment; `Accepted` and `Settings` are the
configuration. A loader reads the files of each region in order, one per step, while the
operator may edit them (`Edit`); `Install` replaces the registry. Reloads may overlap; a
client that hangs up abandons the wait and not the load. A call takes one snapshot and its
job reads masterdata through it. The search pool is the bounded service of `SearchPool`'s
refinement, one job for each call, so what the pool may do here is what was checked there.
A search ceiling of 0 milliseconds would reach the engine as "no deadline"
(`server/src/api/mod.rs:52`); `SearchesAreBounded` states what the configuration promises
for a positive ceiling.

### Search pool

Callers move through the statements of `execute`; the synchronous part cannot be dropped,
the awaits can (`Drop`, external: the runtime). Workers share one receiver behind a mutex
and wait in `recv` while they hold it. A job's fate is visible in its `reply` channel. A
caller's clone of the sender keeps the channel open (`SenderAlive`), as does the pool's own
until `shutdown` takes it. Timers carry no durations: they may fire at any time.
`BoundedService` has neither queue nor threads; the refinement mapping reads a job's fate
off the reply, the queue, the workers' hands and the refusal.

## Runs

| Run | Question | Instance |
| --- | --- | --- |
| `tracker` | does any order of insertions, with repetitions, evictions and returning sets, end in the canonical answer, and are all cutoffs sound and stable | 6 results in few sets and layouts, three targets, both directions, K of 0 to 2, all floors that K known sets reach |
| `power` | does the scenario search lose a deck | all pools of at least 4 of 6 cards, with and without multi-unit tables, decks of 3, K of 1 and 2, deadline anywhere |
| `regimes` | does the regime loop lose a deck | all pools of at least 4 of 6 cards for score and MySekai, four challenge pools of one and two characters, decks of 3 |
| `regimes_minimize` | the same when the weakest deck is asked for | three challenge pools; violated, see below |
| `dominance` | does a search over the reduced pool lose a deck, or return one that is not exact | 24 pools of 4 to 9 cards in three or four characters, seven kinds of request, decks of 3, K of 1, 2 and 4, deadline anywhere |
| `pool` | is the pool a bounded service, do its counters add up at every instant, is everybody answered, does every job run, does shutdown return | 3 callers, 2 workers, 1 queue place |
| `poolbuild` | does building the pool lose a deck, and does what is packed decode to what the tables give | 49 requests on one box of 6 cards of three characters: filters, slots, simulated and real events, tiers |
| `poolbuild_tiers` | is an empty tier unreachable | the same; violated, see below |
| `service` | is each call answered from one load of the data, within its limits, with the error it deserves, and do reloads only move forward | 2 calls, 2 reloads, 1 worker, 1 queue place, 2 edits of 2 files |
| `scoresearch` | does the branch and bound lose a deck, do its ceilings hold for all decks they stand for, and are the cached cutoffs those of the thresholds | 33 requests of pools of 5 to 9 of 19 cards: three targets, no event, world blooms, final chapters, members, roles, seeds, floors, blocks, deadlines |
| `scoresearch_limited` | the same when members have different limited amounts beyond the cap | 3 requests of one pool of 5 cards; violated, see below |
| `bonus_tiers` | is every tier that is not cut short final, and are its decks exact hits | 14 requests of pools of 5 or 6 of 11 cards, with and without roles, deadlines, support decks in whole, half and odd tenths |

Decks have 3 members instead of 5. Every rule of the code that mentions the size compares
with "all members", so 3 is the least size at which a deck can share something with some
members and not with others while two slots remain to be completed; the pools have two
variants of one public card, cards of one character that exclude each other, virtual
singers with equal and different support units, ties between different public sets, powers
that sharing lowers, and multi-unit bonuses of both signs. K of 2 separates "the best" from
"the K-th", and lists overflow. Numbers that enumerate lists of ids use a base (`IdBase`)
larger than any id.

The pools of `dominance` combine a block of cards of one character, one for each way the
rules tell two cards apart (a chain of removals, a card kept for the leader's slot only, a
support deck of all leaders or of one, a reference skill, a limited amount that takes
another's place, attributes, equal cards), with blocks that make the difference show.
K of 4 reaches the decks of a card two removals down a chain.

`poolbuild` uses decks of 2 and side tables of 2 skills and limited amounts, so that tables
overflow. Its box has cards of two variants, skills of every kind, a virtual singer, and
ranks between the rates' steps. `bonus_tiers` has marks small enough (`JoinAfter`,
`RestrictAfter`, `CertifyAfter`: two or three nodes instead of thousands) that views change,
tables are narrowed and certificates are built in the middle of a search; its pools have
limited amounts above the cap, sums that several numbers of attributes reach, and main
cards inside and behind the counted support cards. In `service` the constraint `Busy` lets
two calls meet one reload or one call two of them: with both, nothing new can happen, for
the calls share only the registry and the pool's places.

`scoresearch` has cards in falling strength and some behind that are better in one respect,
so that runs end and later cards raise the best sums. `BreakStride`, `ShadowDepth` and
`BlockWidth` are 2, 1 and 3 where the code has 4, 3 and 16: with decks of 3 a block is
scanned below the root and a pool has three of them. Some bonus totals are beyond
`CutoffBonuses`, no live score is beyond `LiveLimit`. Cards of one pool (15 to 19) share nothing and have plain skills,
which makes the ceilings tight. Limited amounts are equal within a pool, but for the
violated run.

With 3 callers on 2 workers and 1 place, a queue is full while one caller's job runs and
another is refused, orphaned or disconnected, and a worker waits on the mutex while the
other is in `recv`. The liveness properties are stated as `<>[]`: a caller arrives once, so
"in the end nobody is under way" is the same as "everybody is answered". Deadlock is not
checked: every model stops when its request is done, when all callers have ended, or (the
tracker) may stop at any time.

Fairness: `PowerSearch` is one thread that keeps running (weak fairness of `Next`). In
`SearchPool` a thread that can run does, a task returns or panics (a search enforces its
own deadline), timers fire, and a caller that has arrived goes on. The mutex is weakly
fair to the workers together and not to any one of them. No client is obliged to call,
to hang up, or to stop the pool.

Every property of a passing run has a mutant: a plausible bug in the mapped code, defined
beside the operator it changes, with which TLC finds the property violated.

## Findings

* `regimes_minimize`: `search_regimes` skips a regime whose maximising ceiling is below
  the K-th result (`src/search/composition.rs:503`), also for a challenge request of target
  power with `minimize`. The solver it calls knows better ("Maximization ceilings cannot
  prune a minimum-power search.", `src/search/solver/challenge.rs:327`), and
  `docs/parameters.md` promises exactness. With four cards of one character of which three
  share a strong attribute bonus, the attribute regime fills the list and the regime of the
  weakest deck is skipped.
* `scoresearch_limited`: in a final chapter a candidate with a limited amount takes one of
  the cap's places in its own ceiling (`src/src/search/suffix.rs:830`), while the evaluator
  counts limited amounts in the best order of the free slots. A larger amount behind the
  candidate is then missing from its ceiling, and the deck with both is skipped.
  `docs/pruning-proof.md` says that the bound "keeps the largest remaining limited values
  up to the available count". It takes a cap below the number of free slots and members
  with different positive amounts, which `src/src/search.rs:260` sends to this search; with
  equal amounts, as in `scoresearch`, the bound holds.
* `poolbuild_tiers`: `docs/parameters.md` promises "An empty result for a tier means the
  tier is unreachable with the given box". The tier cut (`src/src/handler/build.rs:385`)
  drops every card over the highest tier, and the support seeds are taken from what is left
  of the box (`src/src/handler/build.rs:911`): in a World Bloom such a card fits no deck of
  a tier but may support one that hits it, and then the tier is missed.

Without a run of its own: `execute` returns `QueueTimeout` also when the execution budget
of a running job ends (`server/src/pool.rs:174`), while the variant and the service's
README describe the job as never claimed. `BoundedService` lets that answer be given to a
job that has run.

## Proofs

`TopKTracker_proofs` proves, for every set of results, request, floor and K:

* `TypeCorrect`, `ResultsAreRanked`: the list holds at most K known results, strictly
  ranked, one for each public set;
* `TrackerAnswersCanonically`: the tracker implements `CanonicalTopK`.

The assumptions are those of `TopKTracker`: fields are naturals, and a set together with a
layout determines a result. Neither `TypeOK` nor `RankedDistinct` says why a result that
was offered is missing from the list, so the inductive invariant `IInv` adds `Coverage`:
every offered result has an entry of its public set that is at least as good, or the list
is full of better ones. The argument: the key order is a strict total order
(`KeyLessIsTotalOrder`); the binary search finds the one position that keeps the list
ranked (`PartitionPointProperties`, `KeptProperties`, `PlacedProperties`); a rejected
candidate was covered already (`RejectedIsCovered`), and what the pop drops is covered by
the full list (`RetainedIsInserted`), so `InsertCorrect` preserves `IInv`; and a ranked
list that covers everything offered is the canonical answer (`CoveringListIsCanonical`),
which makes an insertion a step of the abstract specification. These lemmas are about the
operators of `TopK` alone and are in `CommonLemmas`, with the facts about `RemoveAt`,
`InsertAt`, `Front`, sums, sorted lists and cardinalities, where the searches that own a
tracker cite them too. An insertion asks of the results only that their keys are numbers
(`Keyed`); what is canonical also asks that a set and a layout determine a result
(`ResultSet`).

The same module proves what a solver may conclude from the cutoffs:

* `PruningIsSound`: what a cutoff rules out is not in the canonical answer of the results
  offered and of those outside;
* `PruningStaysValid`: what it rules out once, it rules out for good.

The invariant `CutoffInv` adds `FloorContract` to `IInv`: a floor is reached by K
distinct sets outside, of which there are finitely many. Every encoding of a cutoff (the
threshold, the MySekai rank, the public-set tie) says the same: the result is behind the last entry of a full
list, or below the floor (`BeyondCutoffMeans`, `TieBeyondCutoffMeans`, with `RankOrder`
for the number that packs value and power). In both cases K public sets have a
better representative in the canonical order (`RepresentativeExists`, `ManyBetterSets`),
which leaves no place for it. For stability, the last entry of a full list only
improves (`LastEntryImproves`), and the floor does not move.

`SearchPool_proofs` proves, for every finite set of callers, every nonempty finite set of
workers and every positive capacity (`PoolAssumption`):

* `TypeCorrect`, `CountersAlwaysBalance`, `WorkersAlwaysStay`: the three invariants of the
  run;
* `PoolServes`: the pool implements `BoundedService`.

The counters balance only as long as no job is lost or held twice, so the inductive
invariant `IInv` says where every job is: a job in the channel is there once, unsettled and
in nobody's hands (`JobsInQueue`); the job in a worker's hands is in no other's and only
that worker settles its reply (`JobsInHand`); the job of a caller that waits is in one of
the two or settled (`CallersAndJobs`). A step changes one caller, one worker or one reply,
and every count by at most one (`CountMoves`, `CallMoves`, `WorkerMoves`, `ReplySettles`),
which `CountersStep` uses action by action. For the refinement, the jobs a fate calls
waiting are the channel's entries, of which there are as many as the channel is long
(`WaitingJobs`), those it calls running are held by different workers (`RunningJobs`), and
each action is a step of the service or a stutter (`CallerServes`, `WorkerServes`).

`Service_proofs` proves, for every finite set of calls and reloads, and all regions,
requests and command lines (`ServiceAssumption`):

* `TypeCorrect`, `EachCallFromOneLoad`, `EverySearchBounded`, `EveryErrorDeserved`: the
  four invariants of the run;
* `NoReloadGoesBack`: its action property.

`ServiceAssumption` says that names are names and numbers numbers: a region list is a
sequence of regions, ceilings are naturals or not given, nobody is a call and a reload at
once. What one load serves a call follows from two facts a state must remember:
`HeldAndUsed` (whoever is on its way may see the registry in service; a call holds one it
may have seen, and its job has read that one only) and `PlacesAndFates` (what a call may
have been told at each place of its handler). That a reload never goes back rests on
`FilesMoveForward`: the disk is at least as new as what is in service and as what any
loader has read, and a reload nobody overtook has read nothing older than what is in
service. The last part survives the installation of another registry because every reload
under way then has been overtaken, which is what `HeldAndUsed` says of `during`
(`InstallProcess`); and an edit because its number is new (`EditProcess`). A region that is
configured twice keeps its later files (`LastOfProperties`, by a last place, which
exists: `LastPlace`), so every file in service is one the load has read
(`RegistryOfProperties`). The steps of the process keep what concerns files and loads
(`ProcessStep`); a call's steps are invisible to everything but that call (`HandleLeaves`),
so the rest is shown for one call at a time (`HandleInOrder`, `HandleCounts`,
`OtherStep`).

`PowerSearch_proofs` proves the four invariants of its run, for every card table, pool,
deck size, K and mode of the multi-unit effects:

* `Exactness`: a search that no deadline cut short answers with the canonical Top-K of all
  legal decks;
* `Completeness`: until then, a deck that belongs to the answer is listed or still ahead;
* `Legality`: cut short or not, only legal decks are reported, with their exact evaluation;
* `Agreement`: what an active call was told of its prefix stays true of the shared array.

The assumptions are those of the modules: ids, characters, attributes and powers are
naturals, a card has one unit, or a virtual singer its own and a support unit
(`CardAssumption`); decks have at least one member (`DeckAssumption`); pools are finite, have
at least as many cards as a deck, carry multi-unit tables for all cards or for none, and
`IdBase` exceeds every id and index (`PowerSearchAssumption`).

The inductive invariant `IInv` has three parts. `OnCourse` says that every active call is
true to its prefix: cards of the scenario with distinct ids and characters, the characters
it takes for used, and the sum of their ceilings. `StillComplete` says that every legal deck is
*covered* by the results (the tracker may forget it) or *open*: it is a deck of a scenario to
come, or it extends the prefix of an active call by cards at or behind that call's position.
What makes it inductive is that whatever is cut off is covered:

1. A scenario's entries are its cards by falling ceiling (`EntriesProperties`), so the first
   entries of the next characters sum to at least as much as any completion of a prefix: each
   member of a completion can be matched with the first entry of its character
   (`MatchExists`, `BestCompletion`).
2. A deck's power is at most the sum of its members' ceilings in its own scenario, the
   units and the attribute its members share (`OwnScenarioBounds`), and every legal deck's
   own scenario is built (`OwnScenarioListed`). So the bound of a call is a bound of its
   open decks (`BoundHolds`).
3. A bound below the cutoff is below the K-th result (`BelowIsCovered`). At a tie, the least
   public set a completion can reach is compared: the ids at hand with the smallest ids still
   possible are dominated slot by slot by those of every open deck (`TieIsCovered`, with
   `CompletedWithSmallest` and `AscendingDominated`, and `SmallerCode` for the order of the
   lists). The monotone break cuts off everything behind its entry, which is no stronger
   (`BreakIsCovered`).
4. A step of the loop moves decks between calls: those with the candidate go to the new
   call, the others stay open behind it (`OpenWith`, `OpenBehind`), and a candidate that is
   taken is in none of them (`TakenIsNotOpen`).

With nothing left open all legal decks are covered, and a ranked list that covers them is the
canonical answer (`CoveredIsListed`).

`RegimeSearch_proofs` proves the two invariants of the run `regimes`, for every card table,
request, pool, K, deck size, number of units and attributes, and bound on seeds:

* `Exactness`: unless the deadline struck, a strongest-deck search answers with the
  canonical Top-K of all legal decks of the request, entry by entry, whether it ran once or
  per character;
* `NothingMissing`: while a pool is searched, a deck that belongs in the list and is not
  there is owned by a plan to come, under bounds that hold for it.

The assumptions are `CardAssumption` and `DeckAssumption` again, and `RegimeAssumption` and
`RequestAssumption`: units and attributes are numbered from zero, bonuses are naturals,
`IdBase` exceeds every id and index; a pool is finite, has multi-unit tables for all cards
or for none, and cards of one public id have one character; a deck's power fits the low
half of a MySekai rank (`RankBase`, 2^32 in the code). The search inside a regime is what
`Solutions` allows, so the theorems show that the loop is right if its solvers keep that
contract; they do not prove the contract. For a weakest-deck search the theorem would be
false, which is the finding of `regimes_minimize`: the hypothesis `~minimize` of the
invariant is used where a ceiling is compared with the cutoff (`PruneHolds`), and in the
contract.

The inductive invariant `IInv` says of the search under way that its list is one of a
tracker of its decks (`Opened`) and that every legal deck is covered by the list or owned
by a plan to come (`Complete`); of the searches before it, that the merged list holds at
most one result of a set (`Merging`) and, for each of their legal decks, the entries of a
list that covers it (`Merged`). The argument:

1. Every legal deck is owned by a planned regime: one of the units all its members
   count for and its common attribute, or none, with the multi-unit activation of its
   composition (`OwnerExists`). A regime that some deck fills gets a ceiling
   (`LegalDeckFills`).
2. In the decks a plan owns, a member's table entry is one the plan maximised over, whatever
   the entries of other decks are (`LegacyBound`, `MultiBound`, `OwnBounds`). So the
   deck's power is at most the sum of the plan's bounds, which is at most the sum over the
   best distinct characters (`TopSumBounds`, `BestSumBounds`), and values grow with power
   and bonus (`CeilingGrows`): rank, deck ceiling and plan ceiling are in this order
   (`OwnCeiling`).
3. Ranks order results as their keys do (`HigherRankIsBetter`), so a result whose rank is
   below the rank threshold is covered by the tracker that gave it (`BelowThreshold`): a
   plan passed over loses nothing (`PruneHolds`). A search handed a floor may drop a deck that
   its own list covers, or that is below the floor and hence covered by the outer list
   (`SolutionCovers`); the insertion of what it found keeps what both lists cover
   (`InsertAllCovers`, `SearchHolds`).
4. The searches of a challenge request share its legal decks out, and no two report a common
   public set, since cards of one id have one character (`JobsDivide`, `ForeignSets`). So
   concatenating their lists leaves one entry for each set, and the first K of the sorted
   whole cover each of the lists (`CloseHolds`, `CutCovers`), hence what these cover.
5. A tracker's list that covers all results is the canonical answer, sorted
   (`CoveringListIsTop`).

`ScoreSearch_proofs` proves, for every card table, request, pool, K, deck size, threshold
and width of the cache:

* `CutoffsExact`: the live score cached for a bonus total is at all times the least one
  whose packed key reaches the threshold it was asked for last;
* `CachedTestsExact`: so a test decided by the cache is decided as comparing the packed
  ceiling with the threshold decides it, whatever was asked before, for live scores up to
  `LiveLimit`;
* `ListRanked`: the list stays one the tracker could hold.

The assumptions are `CardAssumption` and `ConstantAssumption` of `Evaluation` (amounts are
naturals, decks have at least two members, the steps of values are positive),
`SuffixAssumption`, and `ScoreAssumption` with `RequestOK`: a pool is a nonempty interval of
cards, K is positive, the cap is at most the deck's size, support decks fall in value and
name no id twice, seeds are lists of as many cards of the pool as a deck has members.

The cache is a pure function of what it was asked, but it is only exact if every question is
about numbers: a bonus total in the naturals, an integer threshold. So the inductive
invariant `IInv` says how the whole search stays in shape. `SuffixOK`: what is prepared for
the pool bounds bonuses by numbers (`BuildOK`, from `BestNat` and `SupportEnvelopeOK`).
`StackOK`: every open call holds a prefix of cards of the pool with distinct characters, a
position inside the pool or just behind it, a bonus that is a number, and lanes that bring
other characters. `ResultsOK`: the list is one of a tracker of results with numbers for
keys. `Caches`: every entry is exact. The argument:

1. A packed key grows with the live score at a fixed bonus total (`PackScoreGrows`), so the
   search for the least sufficient one finds it from any start that nothing below reaches the
   threshold from (`NeededLiveExact`). Resuming from the entry of a lower threshold is such
   a start; a higher one starts over (`AskedExact`). A sequence of tests asks once for each
   test up to the first that fails (`TestedExact`).
2. Whole decks are worth numbers (`ScoreNat`, from `LiveScoreNat`, `TotalBonusNat`), with
   numbers for a key (`ReportedKeyed`), and so have the decks a seed is made into
   (`CanonicalizedRankable`). So insertions keep the list ranked (`InsertAllOK`, by
   `InsertedListCorrect` of the tracker), and the threshold is a number (`CutNat`).
3. The tests of a card ask for numbers: tails at the positions the scan can be in
   (`BonusTailNat`), the extra bonus of the attributes still possible (`WorldBloomExtraNat`),
   the best members of other characters (`ScanTestsOK`).
4. Each action keeps the calls in shape, one lemma for each (`PrunedStepOK`, `ShadowLaneOK`
   and so on, from `NextCallOK`, `AfterRunOK`, `FilledOK`); a call whose prefix fills
   every slot has a whole deck (`FullDeckIsWhole`).

That the ceilings themselves bound what they stand for, and that the search hence loses no
deck (`CeilingsHold`, `StillOpen`, `CompleteIsCanonical`), is model-checked.

TLC has checked the inductive invariants on the instances of the runs.

Only model-checked: everything about the other modules (`Dominance`, `BonusTiers`,
`PoolBuild` and what they are built on), the completeness of `ScoreSearch` and its
ceilings, the contract of the search inside a regime, and the liveness of the pool
(`Answered`, `AdmittedRuns`, `ShutdownJoins`) and of the power search (`Terminates`).
Liveness under fairness is out of the prover's reach. Sums and list codes are folds, of
which the prover knows nothing; the proofs use the equations of the functions the community
modules define them by (`SumDefined`, `CodeDefined`), which are shown to have one solution
by well-founded induction over functions (`SetRecursion`), and those of `Evaluation` and
`SuffixBounds` that recur over the positions of a list by the equations of a function on an
interval (`ListRecursion`, `ListInduction`). A definition that recurs over operators would
be beyond that.

## Not modelled

The interval arithmetic of `log_linear.rs` (an exact exclusion in `RegimeSearch`), the SIMD
kernels (vectorised sums), parsing and the flattening of tables (data conversion), the
auxiliary calculators, the binding and the command line (no state). The formulas of scores
and event points are small step functions of the instances. The final chapter appears in
`Dominance`, `BonusTiers` and `ScoreSearch`; its own solver (`solver/final_chapter.rs`) and
the numeric solver are not modelled, and neither is the packing of a score key into two halves.

## Plan

1. Tracker, power scenarios, regimes, search pool: done; tracker and search pool proved.
2. `Dominance`, `BonusTiers`, `PoolBuild`, `Service`, `ScoreSearch`: done.
3. `LeaderJobs`: the final chapter's jobs in ceiling order; `NumericSearch`.
4. Proofs: tracker, `SearchPool` with its refinement, `Service`, `PowerSearch`,
   `RegimeSearch` and the cutoffs of `ScoreSearch`: done. Next the ceilings of
   `SuffixBounds`, then what `BonusTiers` and `Dominance` report.
