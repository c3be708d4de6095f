------------------------------ MODULE Advisor ------------------------------
(***************************************************************************)
(* What a student is told to practise next.  Two services answer: the      *)
(* Trail (build_curriculum) marks a problem in every pool it has opened,   *)
(* from the practice progress; the recommendations (get_recommendations)   *)
(* rank up to three problems from the graded attempts, those of            *)
(* assignments included.  The catalog can be imported again meanwhile.     *)
(*                                                                         *)
(* A tick is 30 days: the half-life of an attempt's weight and the window  *)
(* of a recent failure.  An attempt weighs 2^-age, so 2^day when every     *)
(* weight is multiplied by the same power of two.                          *)
(***************************************************************************)
EXTENDS Integers, Sequences, FiniteSets, FiniteSetsExt

CONSTANTS
  Problem,     \* official problems
  Tags,        \* the pools of a problem's technique tags
  Difficulty,  \* of a problem: 0, 1 or 2
  Curricula,   \* curriculum_problem_ids of the catalogs that may be imported
  MaxTries, MaxDay, MaxImports \* bounds of free attempts, ticks and imports

Foundation == "arrays-and-hashing"
Extension == 999 \* where tier is None
Step(slug, tier, after) == [slug |-> slug, tier |-> tier, after |-> after]

TECHNIQUE_POOLS == <<
  Step(Foundation, 1, {}),
  Step("two-pointers", 2, {Foundation}),
  Step("stack", 2, {Foundation}),
  Step("binary-search", 3, {Foundation}),
  Step("sliding-window", 3, {"two-pointers"}),
  Step("linked-list", 3, {"two-pointers"}),
  Step("greedy", 4, {Foundation}),
  Step("intervals", 4, {"greedy"}),
  Step("heap-priority-queue", 4, {Foundation}),
  Step("trees", 5, {"linked-list"}),
  Step("tries", 5, {"trees"}),
  Step("backtracking", 5, {"stack", "trees"}),
  Step("graphs", 6, {"trees"}),
  Step("1d-dynamic-programming", 6, {"backtracking"}),
  Step("advanced-graphs", 7, {"graphs"}),
  Step("2d-dynamic-programming", 7, {"1d-dynamic-programming"}),
  Step("bit-manipulation", Extension, {Foundation}),
  Step("math-and-geometry", Extension, {Foundation}) >>

Pool == DOMAIN TECHNIQUE_POOLS \* a pool is its place in the table
Tier(k) == TECHNIQUE_POOLS[k].tier
Prerequisites ==
  [k \in Pool |-> {j \in Pool : TECHNIQUE_POOLS[j].slug \in TECHNIQUE_POOLS[k].after}]
MIN_POOL_ATTEMPTS == 3

Tagged == [k \in Pool |-> {p \in Problem : TECHNIQUE_POOLS[k].slug \in Tags[p]}]
Placed(catalog) == {catalog[i] : i \in DOMAIN catalog}

\* The importer refuses a repeated id.  In every catalog of the repository a
\* pool with problems has problems in the pools it builds on.
ASSUME AdvisorAssumption ==
  /\ Tags \in [Problem -> SUBSET {TECHNIQUE_POOLS[k].slug : k \in Pool}]
  /\ Difficulty \in [Problem -> 0..2]
  /\ MaxTries \in Nat /\ MaxDay \in Nat /\ MaxImports \in Nat
  /\ \A c \in Curricula :
       /\ c \in Seq(Problem) /\ Cardinality(Placed(c)) = Len(c)
       /\ \A k \in Pool, j \in Pool : 
            Tagged[k] \cap Placed(c) # {} /\ j \in Prerequisites[k]
              => Tagged[j] \cap Placed(c) # {}
       /\ \A p \in Placed(c) : Tags[p] # {}

VARIABLES
  nodes,    \* curriculum_nodes: the listed problems by priority
  log,      \* the student's graded attempts, late ones not approved left out
  day,
  imports, tries

trail_vars == <<nodes, log, day, imports, tries>>

TrailInit ==
  /\ nodes \in Curricula
  /\ log = <<>> /\ day = 0 /\ imports = 0 /\ tries = 0

Listed == Placed(nodes)
Priority(p) == CHOOSE i \in DOMAIN nodes : nodes[i] = p
InPool(k) == Tagged[k] \cap Listed

\* Python's order on tuples, and min() by such a key.
Below(a, b) == \E i \in DOMAIN a : a[i] < b[i] /\ \A j \in 1..(i - 1) : a[j] = b[j]
Least(S, Key(_)) == CHOOSE x \in S : \A y \in S \ {x} : Below(Key(x), Key(y))

-----------------------------------------------------------------------------
(* The recommendations.                                                    *)

AttemptsOn(p) == {i \in DOMAIN log : log[i].problem = p}
Passed(p) == \E i \in AttemptsOn(p) : log[i].passed
Completed(k) == {p \in InPool(k) : Passed(p)}
Candidates(k) == InPool(k) \ Completed(k)

\* Mutant: a finished pool no longer opens the next.
ReadyWhilePractising ==
  {k \in Pool : Candidates(k) # {}
      /\ \A j \in Prerequisites[k] : Completed(j) # {} /\ Candidates(j) # {}}
Ready == {k \in Pool : Candidates(k) # {} /\ \A j \in Prerequisites[k] : Completed(j) # {}}

Untouched(pools) ==
  LET fresh == {k \in pools : Completed(k) = {}} IN IF fresh = {} THEN pools ELSE fresh

PoolAttempts(k) == UNION {AttemptsOn(p) : p \in InPool(k)}
Weight(I) == MapThenSumSet(LAMBDA i : 2 ^ log[i].day, I)
\* pass_rate of k below pass_rate of j; both are scaled by 2^day.
WeakerRate(k, j) ==
  LET Passes(s) == Weight({i \in PoolAttempts(s) : log[i].passed}) + 2 ^ day
      All(s) == Weight(PoolAttempts(s)) + 2 * 2 ^ day
  IN  Passes(k) * All(j) < Passes(j) * All(k)

\* The failures of the last tick on problems still open in the pool.
RecentFailures(k) ==
  {i \in PoolAttempts(k) : ~log[i].passed /\ log[i].day >= day - 1 /\ ~Passed(log[i].problem)}

\* Pools no later than the next tier, tried often enough and failed of late.
RecoveryPools(ready) ==
  LET nextTier == Min({Tier(k) : k \in Untouched(ready)})
  IN  {k \in ready : /\ Tier(k) <= nextTier
                     /\ Cardinality(PoolAttempts(k)) >= MIN_POOL_ATTEMPTS
                     /\ RecentFailures(k) # {}}

Advise(k, p, reason) == <<[pool |-> k, problem |-> p, reason |-> reason]>>
SortKey(p) == <<Difficulty[p], Priority(p)>>
Easiest(k) == Least(Candidates(k), SortKey)

StrugglingArea(ready) ==
  LET pools == RecoveryPools(ready)
      weakest == {k \in pools : \A j \in pools : ~WeakerRate(j, k)}
      pool == Least(weakest, LAMBDA k : <<-Max(RecentFailures(k)), k>>)
  IN  IF pools = {} THEN <<>>
      ELSE Advise(pool, log[Max(RecentFailures(pool))].problem, "struggling_area")

NextTrailStep(pools) ==
  LET pool == Least(Untouched(pools), LAMBDA k : <<Tier(k), k>>)
  IN  IF pools = {} THEN <<>> ELSE Advise(pool, Easiest(pool), "next_trail_step")

\* completed / total, compared without dividing.
LowCoverage(pools) ==
  LET Done(k) == Cardinality(Completed(k))
      Total(k) == Cardinality(InPool(k))
      least == {k \in pools : \A j \in pools : Done(k) * Total(j) <= Done(j) * Total(k)}
      pool == Least(least, LAMBDA k : <<Tier(k), k>>)
  IN  IF pools = {} THEN <<>> ELSE Advise(pool, Easiest(pool), "low_completion_coverage")

\* At most MAX_RECOMMENDATIONS, one from each source and each from another pool.
Advice ==
  LET ready == Ready
      Left(chosen) == ready \ {chosen[i].pool : i \in DOMAIN chosen}
      recovery == StrugglingArea(ready)
      trail == recovery \o NextTrailStep(Left(recovery))
  IN  trail \o LowCoverage(Left(trail))

-----------------------------------------------------------------------------
(* The Trail: GET /curriculum, and /curriculum/available.                  *)

PracticeOn(p) == {i \in AttemptsOn(p) : log[i].practice}
ProblemStatus(p) ==
  IF \E i \in PracticeOn(p) : log[i].passed THEN "completed"
  ELSE IF PracticeOn(p) # {} THEN "attempted" ELSE "not_started"
WithStatus(k, status) == {p \in InPool(k) : ProblemStatus(p) = status}

\* Mutant: an attempt at the prerequisite is enough.
OpenedByAttempt(k) ==
  \A j \in Prerequisites[k] : InPool(j) # WithStatus(j, "not_started")
Opened(k) == \A j \in Prerequisites[k] : WithStatus(j, "completed") # {}
\* The problem a pool recommends: none, or the first attempted, or the first new.
Recommended(k) ==
  LET First(status) == {Least(S, SortKey) : S \in {WithStatus(k, status)} \ {{}}}
  IN  IF ~Opened(k) THEN {}
      ELSE IF WithStatus(k, "attempted") # {} THEN First("attempted") ELSE First("not_started")

Available ==
  UNION {Recommended(k) \union WithStatus(k, "attempted") : k \in Pool}

-----------------------------------------------------------------------------
Attempt(p, passed, practice) ==
  log' = Append(log, [problem |-> p, passed |-> passed, practice |-> practice, day |-> day])

\* Prerequisites guide, they do not block: the student may try any problem.
Try(p) ==
  /\ tries < MaxTries /\ tries' = tries + 1
  /\ \E passed, practice \in BOOLEAN : Attempt(p, passed, practice)
  /\ UNCHANGED <<nodes, day, imports>>

\* The student solves the first recommendation.
FollowAdvice ==
  /\ Advice # <<>>
  /\ LET first == Advice[1] IN Attempt(first.problem, TRUE, TRUE)
  /\ UNCHANGED <<nodes, day, imports, tries>>

Tick ==
  /\ day < MaxDay /\ day' = day + 1
  /\ UNCHANGED <<nodes, log, imports, tries>>

\* import_catalog: one transaction that renumbers the nodes.  It moves every old
\* priority out of the way first, so that no row meets the number of another.
ImportCatalog ==
  /\ imports < MaxImports /\ imports' = imports + 1
  /\ \E catalog \in Curricula : nodes' = catalog
  /\ UNCHANGED <<log, day, tries>>

TrailNext == Tick \/ ImportCatalog \/ FollowAdvice \/ \E p \in Problem : Try(p)

\* Weak fairness of FollowAdvice, which is enabled when there is advice: the
\* student comes back as long as there is something to solve.
Diligence == []<>(Advice = <<>>) \/ []<><<FollowAdvice>>_trail_vars

TrailSpec == TrailInit /\ [][TrailNext]_trail_vars /\ Diligence

-----------------------------------------------------------------------------
\* Whatever was tried before and in whatever order, a student who solves what
\* is recommended first solves every problem of the Trail: no pool stays locked.
TrailEnds == <>[](\A p \in Listed : Passed(p))

\* The two services agree (README.md:209-211): a pool in which the Trail
\* recommends a problem is open to the recommendations too, unless assignments
\* solved all of it, and without assignments they open the same pools.
AgreesWithCurriculum ==
  LET marked == {k \in Pool : Recommended(k) # {}}
      ready == Ready
  IN  /\ marked \subseteq ready \union {k \in Pool : Candidates(k) = {}}
      /\ (\A i \in DOMAIN log : log[i].practice) =>
           marked = ready /\ (Advice = <<>> <=> Available = {})
=============================================================================
