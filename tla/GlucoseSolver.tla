----------------------------- MODULE GlucoseSolver -----------------------------
(***************************************************************************)
(* The incremental SAT solver of the Glucose builds: the adapter           *)
(* GlucoseSolver and the conflict-driven search of Glucose::Solver behind  *)
(* it, in the incremental mode the adapter sets.                           *)
(*                                                                         *)
(* Clauses are kept once and named by the set of their literals; the order *)
(* of the literals is kept too, since the first two are watched.  A        *)
(* watcher has a blocker, and the lists of watchers have no order.         *)
(* Activities, phases and block distances only choose among the steps.     *)
(* The reasons of literals of level 0 are not kept: they would only spare  *)
(* satisfied clauses in reduceDB.                                          *)
(***************************************************************************)
EXTENDS Integers, FiniteSets, Sequences

CONSTANTS
    SatVariables,      \* positive numbers
    ClauseLists,       \* sequences of clauses, added one by one
    AssumptionLists,   \* what solve() may be called with, as sequences of literals
    MaxCalls,          \* calls of solve()
    MaxReductions      \* calls of reduceDB()

SatLiterals == SatVariables \cup {-v : v \in SatVariables}

ASSUME GlucoseAssumption ==
    /\ SatVariables \subseteq Nat \ {0} /\ IsFiniteSet(SatVariables)
    /\ ClauseLists \subseteq Seq(SUBSET SatLiterals)
    /\ AssumptionLists \subseteq Seq(SatLiterals)
    /\ MaxCalls \in Nat /\ MaxReductions \in Nat

VARIABLES
    clause_list,    \* what is given to addClause, the first nof_added so far
    nof_added,
    calls,
    pc,             \* "ready" between calls
    ok,
    database,       \* by clause: literals in their order, blockers of the two watchers, list
    trail,          \* literals with their reasons, {} if there is none
    trail_lim,
    qhead,
    visiting,       \* clauses that watch the dequeued literal, not visited yet
    confl,
    order_heap,
    max_var,        \* of the adapter
    assumptions,
    limited,        \* with a limit on the conflicts
    restartable,    \* a conflict since the queue of block distances was cleared
    adaptStrategies,
    reductions,
    result          \* of the last call: status, model, conflict

glucoseVars == <<clause_list, nof_added, calls, pc, ok, database, trail, trail_lim, qhead, visiting, confl, order_heap,
                 max_var, assumptions, limited, restartable, adaptStrategies, reductions, result>>

callVars == <<clause_list, nof_added, calls, max_var, assumptions, limited>>
heuristics == <<restartable, adaptStrategies, reductions>>

--------------------------------------------------------------------------------
var(l) == IF l < 0 THEN -l ELSE l
range(s) == {s[i] : i \in DOMAIN s}
upTo(n) == {v \in SatVariables : v <= n}

true_literals == {trail[i].lit : i \in DOMAIN trail}
isTrue(l) == l \in true_literals
isFalse(l) == -l \in true_literals
isUndef(l) == ~isTrue(l) /\ ~isFalse(l)

decisionLevel == Len(trail_lim)
levelAt(i) == Cardinality({k \in DOMAIN trail_lim : trail_lim[k] < i})
place(l) == CHOOSE i \in DOMAIN trail : var(trail[i].lit) = var(l)
level(l) == levelAt(place(l))

enqueue(t, l, C) == Append(t, [lit |-> l, reason |-> C])
reasonAt(lv, C) == IF lv = 0 THEN {} ELSE C

\* cancelUntil.
trailUntil(lv) == IF decisionLevel > lv THEN SubSeq(trail, 1, trail_lim[lv + 1]) ELSE trail
\* Mutant: the queue is not set back.
cancelKeepsQueue(lv) ==
    /\ trail_lim' = SubSeq(trail_lim, 1, IF decisionLevel > lv THEN lv ELSE decisionLevel)
    /\ qhead' = qhead
    /\ order_heap' = order_heap \cup {var(trail[i].lit) : i \in DOMAIN trail \ DOMAIN trailUntil(lv)}

cancelUntil(lv) ==
    /\ trail_lim' = SubSeq(trail_lim, 1, IF decisionLevel > lv THEN lv ELSE decisionLevel)
    /\ qhead' = IF decisionLevel > lv THEN trail_lim[lv + 1] ELSE qhead
    /\ order_heap' = order_heap \cup {var(trail[i].lit) : i \in DOMAIN trail \ DOMAIN trailUntil(lv)}

\* Sorted as addClause_ sorts them: by variable, the positive literal first.
before(k, l) == var(k) < var(l) \/ (var(k) = var(l) /\ k > l)
sorted(C) ==
    CHOOSE s \in [1..Cardinality(C) -> C] :
        \A i, j \in 1..Cardinality(C) : i < j => before(s[i], s[j])

\* attachClause: the watcher of either literal has the other one as its blocker.
attach(lits, list) == [lits |-> lits, blockers |-> <<lits[2], lits[1]>>, list |-> list]
withClause(C, data) == [D \in DOMAIN database \cup {C} |-> IF D = C THEN data ELSE database[D]]
withoutClauses(S) == [D \in DOMAIN database \ S |-> database[D]]

locked(C) == \E i \in DOMAIN trail : trail[i].reason = C

--------------------------------------------------------------------------------
GlucoseInit ==
    /\ clause_list \in ClauseLists /\ nof_added = 0
    /\ calls = 0 /\ pc = "ready" /\ ok = TRUE
    /\ database = [C \in {} |-> 0]
    /\ trail = <<>> /\ trail_lim = <<>> /\ qhead = 0
    /\ visiting = {} /\ confl = {}
    /\ order_heap = {} /\ max_var = 0
    /\ assumptions = <<>> /\ limited = FALSE
    /\ restartable = FALSE /\ adaptStrategies = TRUE /\ reductions = 0
    /\ result = [status |-> "none", model |-> {}, conflict |-> {}]

\* newVar, for each variable up to n.
newVars(n) ==
    /\ max_var' = IF n > max_var THEN n ELSE max_var
    /\ order_heap' = order_heap \cup (upTo(n) \ upTo(max_var))

\* The largest variable of C.
maxVar(C) == IF C = {} THEN 0 ELSE CHOOSE n \in {var(l) : l \in C} : \A l \in C : var(l) <= n

added == {clause_list[i] : i \in 1..nof_added}

\* addClause and addClause_.
AddClause ==
    LET C == clause_list[nof_added + 1]
        rest == {l \in C : ~isFalse(l)}
        redundant == \E l \in C : isTrue(l) \/ -l \in C
    IN  /\ pc = "ready" /\ nof_added < Len(clause_list)
        /\ nof_added' = nof_added + 1
        /\ newVars(maxVar(C))
        /\ IF ~ok \/ redundant
           THEN UNCHANGED <<pc, ok, database, trail>>
           ELSE /\ ok' = (rest # {})
                /\ IF Cardinality(rest) = 1
                   THEN /\ trail' = enqueue(trail, CHOOSE l \in rest : TRUE, {})
                        /\ pc' = "adding"
                   ELSE UNCHANGED <<trail, pc>>
                /\ database' = IF Cardinality(rest) > 1
                               THEN withClause(rest, attach(sorted(rest), "clauses"))
                               ELSE database
        /\ UNCHANGED <<clause_list, calls, trail_lim, qhead, visiting, confl, assumptions, limited, heuristics,
                       result>>

\* solve and solve_ up to its loop.
Solve(A, with_limit) ==
    /\ pc = "ready" /\ calls < MaxCalls
    /\ calls' = calls + 1
    /\ assumptions' = A /\ limited' = with_limit
    /\ newVars(maxVar(range(A)))
    /\ result' = [status |-> IF ok THEN "none" ELSE "unsat", model |-> {}, conflict |-> {}]
    /\ pc' = IF ok THEN "searching" ELSE "ready"
    /\ UNCHANGED <<clause_list, nof_added, ok, database, trail, trail_lim, qhead, visiting, confl,
                   heuristics>>

\* What search and solve_ do when the search is over.
Return(status, model, conflict) ==
    /\ result' = [status |-> status, model |-> model, conflict |-> conflict]
    /\ ok' = ~(status = "unsat" /\ conflict = {})
    /\ cancelUntil(0) /\ trail' = trailUntil(0)
    /\ pc' = "ready" /\ visiting' = {} /\ confl' = {}

--------------------------------------------------------------------------------
(***************************************************************************)
(* propagate.                                                              *)
(***************************************************************************)
propagating == pc \in {"adding", "searching"}

binaries(p) == {C \in DOMAIN database : Cardinality(C) = 2 /\ -p \in C}
longs(p) == {C \in DOMAIN database : Cardinality(C) > 2 /\ -p \in {database[C].lits[1], database[C].lits[2]}}

Dequeue ==
    /\ propagating /\ visiting = {} /\ qhead < Len(trail)
    /\ qhead' = qhead + 1
    /\ LET p == trail[qhead + 1].lit IN visiting' = binaries(p) \cup longs(p)
    /\ UNCHANGED <<callVars, pc, ok, database, trail, trail_lim, confl, order_heap, heuristics, result>>

\* A conflict while a clause is added ends in a contradiction.
Conflict(C, head) ==
    /\ qhead' = head /\ visiting' = {}
    /\ IF pc = "adding" THEN /\ ok' = FALSE /\ pc' = "ready" /\ confl' = {}
                        ELSE /\ pc' = "conflict" /\ confl' = C /\ UNCHANGED ok
    /\ UNCHANGED <<callVars, trail, trail_lim, order_heap, heuristics, result>>

Visited(C) ==
    /\ visiting' = visiting \ {C}
    /\ UNCHANGED <<callVars, pc, ok, trail_lim, qhead, confl, order_heap, heuristics, result>>

dequeued == trail[qhead].lit

\* The queue keeps the rest when a binary clause is false.
VisitBinary(C) ==
    LET imp == CHOOSE l \in C : l # -dequeued
    IN  /\ propagating /\ C \in visiting /\ Cardinality(C) = 2
        /\ IF isFalse(imp)
           THEN Conflict(C, qhead) /\ UNCHANGED database
           ELSE /\ trail' = IF isUndef(imp) THEN enqueue(trail, imp, reasonAt(decisionLevel, C)) ELSE trail
                /\ Visited(C) /\ UNCHANGED database

\* The clause with the false literal second, and its blocker.
turned(c, false_lit) ==
    IF c.lits[1] = false_lit
    THEN [c EXCEPT !.lits[1] = c.lits[2], !.lits[2] = false_lit,
                   !.blockers = <<c.blockers[2], c.blockers[1]>>]
    ELSE c

replacements(c) == {k \in 3..Len(c.lits) : ~isFalse(c.lits[k])}

rewatch(c, k) == [c EXCEPT !.lits[2] = c.lits[k], !.lits[k] = c.lits[2],
                           !.blockers[2] = c.lits[1]]

VisitLong(C) ==
    LET false_lit == -dequeued
        old == database[C]
        blocker == old.blockers[CHOOSE i \in 1..2 : old.lits[i] = false_lit]
        c == turned(old, false_lit)
        first == c.lits[1]
        unit == [c EXCEPT !.blockers[2] = first]
        next == CHOOSE k \in replacements(c) : \A j \in replacements(c) : k <= j
    IN  /\ propagating /\ C \in visiting /\ Cardinality(C) > 2
        /\ \A B \in visiting : Cardinality(B) > 2
        /\ IF isTrue(blocker)
           THEN Visited(C) /\ UNCHANGED <<database, trail>>
           ELSE IF ~isTrue(first) /\ replacements(c) # {}
           THEN /\ database' = [database EXCEPT ![C] = rewatch(c, next)]
                /\ Visited(C) /\ UNCHANGED trail
           ELSE /\ database' = [database EXCEPT ![C] = unit]
                /\ IF isFalse(first)
                   THEN Conflict(C, Len(trail))
                   ELSE /\ trail' = IF isTrue(first) THEN trail
                                    ELSE enqueue(trail, first, reasonAt(decisionLevel, C))
                        /\ Visited(C)

PropagationEnds ==
    /\ propagating /\ visiting = {} /\ qhead >= Len(trail)
    /\ pc' = IF pc = "adding" THEN "ready" ELSE "propagated"
    /\ UNCHANGED <<callVars, ok, database, trail, trail_lim, qhead, visiting, confl, order_heap,
                   heuristics, result>>

--------------------------------------------------------------------------------
(***************************************************************************)
(* analyze: resolve the conflict with reasons, back along the trail, until *)
(* one literal of the current level is left; then drop what the others     *)
(* imply.                                                                  *)
(***************************************************************************)
\* The literals of a reason other than the one it implies.
antecedents(C, l) ==
    IF Cardinality(C) = 2 THEN C \ {l}
    ELSE {database[C].lits[k] : k \in 2..Cardinality(C)}

lower(q) == level(q) > 0 /\ level(q) < decisionLevel
current(q) == level(q) = decisionLevel

\* The elements of s that are in S, in their order.
inOrder(s, S) ==
    LET kept[i \in 0..Len(s)] ==
            IF i = 0 THEN <<>> ELSE IF s[i] \in S THEN Append(kept[i - 1], s[i]) ELSE kept[i - 1]
    IN  kept[Len(s)]

\* Those of the literals S of C that lie below the current level.
lowerOf(S, C) == inOrder(database[C].lits, {q \in S : lower(q)})

\* Literals of the current level still to be resolved, literals learnt, the literal at
\* which the search stopped, clauses met: at first, and after an entry of the trail.
fromConflict ==
    [open |-> {q \in confl : current(q)}, learnt |-> lowerOf(confl, confl), uip |-> {}, met |-> {confl}]

resolveWith(r, entry) ==
    IF r.uip # {} \/ -entry.lit \notin r.open THEN r
    ELSE IF Cardinality(r.open) = 1 THEN [r EXCEPT !.uip = {-entry.lit}]
    ELSE LET others == antecedents(entry.reason, entry.lit)
         IN  [r EXCEPT !.met = @ \cup {entry.reason},
                       !.open = (@ \ {-entry.lit}) \cup {q \in others : current(q)},
                       !.learnt = @ \o lowerOf(others \ range(r.learnt), entry.reason)]

\* Along the trail, the last entry first.
resolved ==
    LET resolve[n \in 0..Len(trail)] ==
            IF n = 0 THEN fromConflict ELSE resolveWith(resolve[n - 1], trail[Len(trail) + 1 - n])
    IN  resolve[Len(trail)]

\* litRedundant: what the false literals L imply to be false.
impliedBy(L) ==
    LET implied[i \in 0..Len(trail)] ==
            IF i = 0 THEN {}
            ELSE LET q == -trail[i].lit
                     C == trail[i].reason
                     earlier == implied[i - 1]
                 IN  IF \/ levelAt(i) = 0 \/ q \in L
                        \/ C # {} /\ antecedents(C, -q) \subseteq earlier
                     THEN earlier \cup {q}
                     ELSE earlier
    IN  implied[Len(trail)]

reasonOf(l) == trail[place(l)].reason
\* Mutant: one literal that is implied is enough.
someImplied(q, implied) == reasonOf(q) # {} /\ antecedents(reasonOf(q), -q) \cap implied # {}

redundant(q, implied) == reasonOf(q) # {} /\ antecedents(reasonOf(q), -q) \subseteq implied

\* Mutant: the second literal is any.
learntInOrder ==
    LET r == resolved
        implied == impliedBy(range(r.learnt))
    IN  <<CHOOSE l \in r.uip : TRUE>> \o inOrder(r.learnt, {q \in range(r.learnt) : ~redundant(q, implied)})

\* The clause learnt, its asserting literal first, then one of the highest level.
learntClause ==
    LET r == resolved
        uip == CHOOSE l \in r.uip : TRUE
        implied == impliedBy(range(r.learnt))
        rest == inOrder(r.learnt, {q \in range(r.learnt) : ~redundant(q, implied)})
        highest == CHOOSE k \in DOMAIN rest :
                       /\ \A j \in DOMAIN rest : level(rest[j]) <= level(rest[k])
                       /\ \A j \in 1..k - 1 : level(rest[j]) < level(rest[k])
    IN  IF rest = <<>> THEN <<uip>>
        ELSE <<uip>> \o [rest EXCEPT ![1] = rest[highest], ![highest] = rest[1]]

ConflictAtRoot ==
    /\ pc = "conflict" /\ decisionLevel = 0
    /\ Return("unsat", {}, {})
    /\ UNCHANGED <<callVars, database, heuristics>>

keptForGood(S) == [C \in DOMAIN database |->
    IF C \in S THEN [database[C] EXCEPT !.list = "permanentLearnts"] ELSE database[C]]

\* The clause learnt, and clauses met on the way whose block distance went down, may be
\* kept for good.
Learn(list, promoted) ==
    LET lits == learntClause
        C == range(lits)
        btlevel == IF Len(lits) = 1 THEN 0 ELSE level(lits[2])
    IN  /\ list = "permanentLearnts" \/ promoted # {} => ~adaptStrategies
        /\ \A D \in promoted : database[D].list = "learnts"
        /\ cancelUntil(btlevel)
        /\ trail' = enqueue(trailUntil(btlevel), lits[1], IF Len(lits) = 1 THEN {} ELSE C)
        /\ database' = LET kept == keptForGood(promoted)
                       IN  IF Len(lits) = 1 THEN kept
                           ELSE [D \in DOMAIN kept \cup {C} |-> IF D = C THEN attach(lits, list) ELSE kept[D]]
        /\ restartable' = TRUE
        /\ pc' = "searching" /\ confl' = {}
        /\ UNCHANGED <<callVars, ok, visiting, adaptStrategies, reductions, result>>

LearnStep ==
    /\ pc = "conflict" /\ decisionLevel > 0
    /\ \E list \in {"learnts", "permanentLearnts"}, promoted \in SUBSET resolved.met : Learn(list, promoted)

\* adaptSolver, at the conflict number 100000.  The strategy that keeps clauses comes
\* with the removal of the rest or without.
AdaptStrategies ==
    /\ pc = "conflict" /\ decisionLevel > 0 /\ adaptStrategies
    /\ cancelUntil(0) /\ trail' = trailUntil(0)
    /\ adaptStrategies' = FALSE
    /\ \E kept \in SUBSET {C \in DOMAIN database : database[C].list = "learnts"}, reinit \in BOOLEAN :
          database' = [C \in {D \in DOMAIN database : reinit /\ database[D].list = "learnts" => D \in kept}
                         |-> keptForGood(kept)[C]]
    /\ pc' = "restarted" /\ confl' = {}
    /\ UNCHANGED <<callVars, ok, visiting, restartable, reductions, result>>

--------------------------------------------------------------------------------
(***************************************************************************)
(* search after a propagation without conflict, and the loop of solve_.    *)
(***************************************************************************)
\* Mutant: the queue of block distances is kept.
RestartsAgain ==
    LET bt == IF decisionLevel < Len(assumptions) THEN decisionLevel ELSE Len(assumptions)
    IN  /\ pc = "propagated" /\ restartable
        /\ cancelUntil(bt) /\ trail' = trailUntil(bt)
        /\ pc' = "restarted"
        /\ UNCHANGED <<callVars, ok, database, visiting, confl, heuristics, result>>

\* The assumptions are not undone.
Restart ==
    LET bt == IF decisionLevel < Len(assumptions) THEN decisionLevel ELSE Len(assumptions)
    IN  /\ pc = "propagated" /\ restartable
        /\ restartable' = FALSE
        /\ cancelUntil(bt) /\ trail' = trailUntil(bt)
        /\ pc' = "restarted"
        /\ UNCHANGED <<callVars, ok, database, visiting, confl, adaptStrategies, reductions, result>>

\* withinBudget is asked for between searches only.
SearchAgain ==
    /\ pc = "restarted" /\ pc' = "searching"
    /\ UNCHANGED <<callVars, ok, database, trail, trail_lim, qhead, visiting, confl, order_heap,
                   heuristics, result>>

BudgetSpent ==
    /\ pc = "restarted" /\ limited
    /\ Return("undef", {}, {})
    /\ UNCHANGED <<callVars, database, heuristics>>

\* satisfied, in incremental mode.
satisfied(C) == isTrue(database[C].lits[1]) \/ isTrue(database[C].lits[2])

\* simplify; it may be put off, which the number of propagations decides.
Simplify ==
    /\ pc = "propagated" /\ pc' = "simplified"
    /\ \/ /\ decisionLevel = 0
          /\ database' = withoutClauses({C \in DOMAIN database : satisfied(C)})
          /\ order_heap' = {v \in upTo(max_var) : isUndef(v)}
       \/ UNCHANGED <<database, order_heap>>
    /\ UNCHANGED <<callVars, ok, trail, trail_lim, qhead, visiting, confl, heuristics, result>>

\* Mutant: a reason may go.
LearntLong == {C \in DOMAIN database : database[C].list = "learnts" /\ Cardinality(C) > 2}

\* reduceDB; block distances and activities decide which clauses go.
Removable == {C \in DOMAIN database :
                 database[C].list = "learnts" /\ Cardinality(C) > 2 /\ ~locked(C)}

ReduceDB ==
    /\ pc = "simplified" /\ pc' = "choosing"
    /\ \/ UNCHANGED <<database, reductions>>
       \/ /\ reductions < MaxReductions
          /\ reductions' = reductions + 1
          /\ \E gone \in SUBSET Removable : database' = withoutClauses(gone)
    /\ UNCHANGED <<callVars, ok, trail, trail_lim, qhead, visiting, confl, order_heap, restartable,
                   adaptStrategies, result>>

assumption == assumptions[decisionLevel + 1]
AssumptionsLeft == decisionLevel < Len(assumptions)

\* A level without a literal.
AssumptionHolds ==
    /\ pc = "choosing" /\ AssumptionsLeft /\ isTrue(assumption)
    /\ trail_lim' = Append(trail_lim, Len(trail))
    /\ UNCHANGED <<callVars, pc, ok, database, trail, qhead, visiting, confl, order_heap, heuristics,
                   result>>

\* Mutant: reasons are not followed.
decisionConflict(p) ==
    {-p} \cup {-trail[i].lit : i \in {j \in DOMAIN trail :
                   trail[j].lit = -p /\ levelAt(j) > 0 /\ trail[j].reason = {}}}

\* analyzeFinal(~p), for p the false assumption: the decisions that p depends on.
finalConflict(p) ==
    LET seen[n \in 0..Len(trail)] ==
            IF n = 0 THEN IF decisionLevel = 0 THEN {} ELSE {-p}
            ELSE LET i == Len(trail) + 1 - n
                     l == trail[i].lit
                     later == seen[n - 1]
                 IN  IF l \notin later \/ levelAt(i) = 0 \/ trail[i].reason = {} THEN later
                     ELSE later \cup {-q : q \in {r \in antecedents(trail[i].reason, l) : level(r) > 0}}
        reached == seen[Len(trail)]
    IN  {-p} \cup {-trail[i].lit : i \in {j \in DOMAIN trail :
                     trail[j].lit \in reached /\ levelAt(j) > 0 /\ trail[j].reason = {}}}

AssumptionFails ==
    /\ pc = "choosing" /\ AssumptionsLeft /\ isFalse(assumption)
    /\ Return("unsat", {}, finalConflict(assumption))
    /\ UNCHANGED <<callVars, database, heuristics>>

\* newDecisionLevel and uncheckedEnqueue.
descend(l) ==
    /\ trail_lim' = Append(trail_lim, Len(trail))
    /\ trail' = enqueue(trail, l, {})
    /\ pc' = "searching"
    /\ UNCHANGED <<callVars, ok, database, qhead, visiting, confl, heuristics, result>>

AssumptionDecided ==
    /\ pc = "choosing" /\ AssumptionsLeft /\ isUndef(assumption)
    /\ descend(assumption) /\ UNCHANGED order_heap

\* pickBranchLit: assigned variables are taken off the heap on the way.
Decide ==
    /\ pc = "choosing" /\ ~AssumptionsLeft
    /\ \E v \in order_heap, passed \in SUBSET {w \in order_heap : ~isUndef(w)} :
          /\ isUndef(v)
          /\ order_heap' = order_heap \ (passed \cup {v})
          /\ descend(v) \/ descend(-v)

ModelFound ==
    /\ pc = "choosing" /\ ~AssumptionsLeft /\ \A v \in order_heap : ~isUndef(v)
    /\ result' = [status |-> "sat", model |-> true_literals, conflict |-> {}]
    /\ trail_lim' = <<>> /\ trail' = trailUntil(0)
    /\ qhead' = IF decisionLevel > 0 THEN trail_lim[1] ELSE qhead
    /\ order_heap' = {var(trail[i].lit) : i \in DOMAIN trail \ DOMAIN trailUntil(0)}
    /\ pc' = "ready"
    /\ UNCHANGED <<callVars, ok, database, visiting, confl, heuristics>>

--------------------------------------------------------------------------------
SearchStep ==
    \/ Dequeue \/ (\E C \in visiting : VisitBinary(C) \/ VisitLong(C)) \/ PropagationEnds
    \/ ConflictAtRoot \/ LearnStep \/ AdaptStrategies
    \/ Restart \/ SearchAgain \/ BudgetSpent \/ Simplify \/ ReduceDB
    \/ AssumptionHolds \/ AssumptionFails \/ AssumptionDecided \/ Decide \/ ModelFound

\* Nothing more is asked.
Rest == pc = "ready" /\ calls = MaxCalls /\ UNCHANGED glucoseVars

GlucoseNext ==
    \/ AddClause
    \/ \E A \in AssumptionLists, with_limit \in BOOLEAN : Solve(A, with_limit)
    \/ SearchStep
    \/ Rest

\* Weak fairness of SearchStep, which is possible unless pc = "ready".
Fairness == []<>(pc = "ready") \/ []<><<SearchStep>>_glucoseVars

GlucoseSpec == GlucoseInit /\ [][GlucoseNext]_glucoseVars /\ Fairness

--------------------------------------------------------------------------------
(***************************************************************************)
(* Properties.                                                             *)
(***************************************************************************)
\* getFailed of the adapter.
getFailed(asked) == {a \in asked : -a \in result.conflict}

worlds == {W \in SUBSET SatLiterals : \A v \in SatVariables : (v \in W) # (-v \in W)}
Satisfies(W, S) == \A C \in S : C \cap W # {}
units(L) == {{l} : l \in L}

\* solve(): a model satisfies every clause given so far and the assumptions, and the
\* assumptions getFailed returns are inconsistent with the clauses.
AnswersRight ==
    [][(pc' = "ready" /\ (pc \notin {"ready", "adding"} \/ calls' # calls)) =>
          LET failed == getFailed(range(assumptions))'
          IN  CASE result'.status = "sat" ->
                     \E W \in worlds : /\ {l \in W : var(l) <= max_var} = result'.model
                                       /\ Satisfies(W, added \cup units(range(assumptions)))
                [] result'.status = "unsat" ->
                     \A W \in worlds : ~Satisfies(W, added \cup units(failed))
                [] result'.status = "undef" -> limited]_glucoseVars

\* analyze, reduceDB, simplify and addClause_: clauses learnt follow from the clauses
\* given, and those removed or shortened are made up for, by the literals of level 0.
NothingLost ==
    LET root == {trail[i].lit : i \in {j \in DOMAIN trail : levelAt(j) = 0}}
    IN  \A W \in worlds : Satisfies(W, added) <=>
                             ok /\ Satisfies(W, DOMAIN database \cup units(root))

\* propagate: once it ends without a conflict, no clause is false or has a single
\* literal left, however the watchers moved and whichever blockers were stale.
PropagationComplete ==
    pc \in {"propagated", "simplified", "choosing"} =>
        \A C \in DOMAIN database :
            \/ \E l \in C : isTrue(l)
            \/ Cardinality({l \in C : isUndef(l)}) > 1

\* Above level 0 the reason of a literal is in the database and implies it by literals
\* that became false before; in a long clause the literal is the first.  This is what
\* analyze promises of a clause learnt (Solver.cc: "the asserting literal at level
\* out_btlevel"), what it needs of every reason, and what reduceDB must leave intact.
ReasonsImply ==
    \A i \in DOMAIN trail : levelAt(i) > 0 /\ trail[i].reason # {} =>
        LET C == trail[i].reason
        IN  /\ C \in DOMAIN database /\ trail[i].lit \in C
            /\ Cardinality(C) > 2 => database[C].lits[1] = trail[i].lit
            /\ \A l \in C \ {trail[i].lit} : \E j \in 1..i - 1 : trail[j].lit = -l

\* search: every call returns, with any number of restarts, as each needs a conflict.
SolveReturns == pc # "ready" ~> pc = "ready"
================================================================================
