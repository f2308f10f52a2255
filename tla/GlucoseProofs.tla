----------------------------- MODULE GlucoseProofs -----------------------------
(***************************************************************************)
(* Proofs about the incremental SAT solver, for all clauses and all calls. *)
(*                                                                         *)
(* The argument: the entries of the trail are divided into levels, which   *)
(* backtracking removes as a whole.  A clause visited for a literal that   *)
(* became false has a true literal no later level took part in, so         *)
(* backtracking cannot leave it unit or false unseen.  Reasons therefore   *)
(* imply their literals, resolving with them gives clauses that follow,    *)
(* and what is reported to the caller follows too.                         *)
(***************************************************************************)
EXTENDS GlucoseSolver, SequenceTheorems, FiniteSetTheorems, TLAPS

--------------------------------------------------------------------------------
(***************************************************************************)
(* The invariant.                                                          *)
(***************************************************************************)
Entries == [lit : SatLiterals, reason : SUBSET SatLiterals]
ClauseData == [lits : Seq(SatLiterals), blockers : SatLiterals \X SatLiterals,
               list : {"clauses", "learnts", "permanentLearnts"}]
Phases == {"ready", "adding", "searching", "propagated", "simplified", "choosing", "restarted", "conflict"}

GlucoseTypeOK ==
    /\ clause_list \in ClauseLists /\ nof_added \in 0..Len(clause_list)
    /\ pc \in Phases /\ ok \in BOOLEAN
    /\ DOMAIN database \subseteq SUBSET SatLiterals
    /\ database \in [DOMAIN database -> ClauseData]
    /\ trail \in Seq(Entries) /\ trail_lim \in Seq(Nat)
    /\ qhead \in 0..Len(trail)
    /\ visiting \subseteq DOMAIN database
    /\ order_heap \subseteq SatVariables /\ max_var \in Nat
    /\ assumptions \in Seq(SatLiterals)

\* The literals of a clause are listed once; blockers are literals of it.
Lists(c, C) ==
    /\ Len(c.lits) = Cardinality(C) /\ Cardinality(C) >= 2
    /\ range(c.lits) = C
    /\ \A k, m \in DOMAIN c.lits : c.lits[k] = c.lits[m] => k = m
    /\ c.blockers[1] \in C /\ c.blockers[2] \in C
DatabaseInv == \A C \in DOMAIN database : Lists(database[C], C)

\* Every variable is assigned once, and levels begin where the queue was empty.
TrailInv ==
    /\ \A i, j \in DOMAIN trail : var(trail[i].lit) = var(trail[j].lit) => i = j
    /\ \A k \in DOMAIN trail_lim : trail_lim[k] <= qhead
    /\ \A k, m \in DOMAIN trail_lim : k <= m => trail_lim[k] <= trail_lim[m]

PhaseInv ==
    /\ pc \in {"ready", "adding"} => trail_lim = <<>>
    /\ pc # "ready" => ok
    /\ ok /\ pc \in {"ready", "propagated", "simplified", "choosing", "restarted"} => qhead = Len(trail)
    /\ pc \notin {"adding", "searching"} => visiting = {}

\* The clauses to be visited watch the literal dequeued, which is of the current level.
watched(C) == {database[C].lits[1], database[C].lits[2]}
VisitInv ==
    visiting # {} =>
        /\ qhead > 0 /\ \A k \in DOMAIN trail_lim : trail_lim[k] < qhead
        /\ \A C \in visiting : -dequeued \in watched(C)

ConflictInv ==
    pc = "conflict" =>
        /\ confl \in DOMAIN database
        /\ \A q \in confl : isFalse(q)
        /\ \E i \in DOMAIN trail : -trail[i].lit \in confl /\ levelAt(i) = decisionLevel

\* Only the first literal of a level has no reason.
DecisionsInv ==
    \A i \in DOMAIN trail : levelAt(i) > 0 /\ trail[i].reason = {} => i = trail_lim[levelAt(i)] + 1

\* A watched literal that is false, and whose watchers have been visited, is made up for by a
\* true literal that stays as long as it does.
Seen(j, C) ==
    /\ j < qhead \/ (j = qhead /\ C \notin visiting)
    /\ pc = "conflict" => levelAt(j) < decisionLevel
WatchInv ==
    ok => \A C \in DOMAIN database, j \in DOMAIN trail : -trail[j].lit \in watched(C) /\ Seen(j, C) =>
        \E i \in DOMAIN trail : trail[i].lit \in C /\ levelAt(i) <= levelAt(j)

\* The clauses given, those in the database, and the literals of level 0.
Root == {trail[i].lit : i \in {j \in DOMAIN trail : levelAt(j) = 0}}
Given == {C \in DOMAIN database : database[C].list = "clauses"}
WorldsInv ==
    \A W \in worlds :
        /\ Satisfies(W, added) => ok /\ Satisfies(W, DOMAIN database) /\ Root \subseteq W
        /\ ok /\ Satisfies(W, Given) /\ Root \subseteq W => Satisfies(W, added)

\* No variable is forgotten: it is assigned or on the heap.
VariablesInv ==
    /\ \A v \in upTo(max_var) : isUndef(v) => v \in order_heap
    /\ \A i \in DOMAIN trail : var(trail[i].lit) <= max_var
    /\ \A C \in DOMAIN database : \A l \in C : var(l) <= max_var
    /\ \A l \in range(assumptions) : var(l) <= max_var
    /\ order_heap \subseteq upTo(max_var)

\* The first levels are those of the assumptions.
AssumptionsInv ==
    /\ \A i \in DOMAIN trail :
          levelAt(i) \in 1..Len(assumptions) /\ trail[i].reason = {} => trail[i].lit \in range(assumptions)
    /\ \A k \in DOMAIN assumptions : k <= decisionLevel =>
          \E i \in DOMAIN trail : trail[i].lit = assumptions[k] /\ levelAt(i) <= k

GlucoseInv ==
    /\ GlucoseTypeOK /\ DatabaseInv /\ TrailInv /\ PhaseInv /\ VisitInv /\ ConflictInv /\ DecisionsInv
    /\ ReasonsImply /\ WatchInv /\ WorldsInv /\ VariablesInv /\ AssumptionsInv

--------------------------------------------------------------------------------
(***************************************************************************)
(* Numbers and sequences.                                                  *)
(***************************************************************************)
LEMMA LeastNumber ==
    ASSUME NEW S \in SUBSET Nat, S # {}
    PROVE  \E m \in S : \A n \in S : m <= n
<1>1. PICK m \in S : \A n \in S : ~ (<<n, m>> \in OpToRel(<, Nat))
  BY NatLessThanWellFounded, WFMin
<1>2. \A n \in S : ~ (n < m)
  BY <1>1 DEF OpToRel
<1> QED BY <1>2

\* Induction up to N, over a set.
LEMMA UpTo ==
    ASSUME NEW N \in Nat, NEW S, 0 \in S, \A n \in 1..N : n - 1 \in S => n \in S
    PROVE  \A n \in 0..N : n \in S
<1> SUFFICES ASSUME (0..N) \ S # {} PROVE FALSE
  OBVIOUS
<1>1. (0..N) \ S \in SUBSET Nat
  OBVIOUS
<1>2. PICK m \in (0..N) \ S : \A n \in (0..N) \ S : m <= n
  BY <1>1, LeastNumber
<1>3. m \in 1..N /\ m - 1 \in 0..N
  OBVIOUS
<1> QED BY <1>2, <1>3

\* A finite set of numbers that is not empty has a greatest one.
LEMMA GreatestNumber ==
    ASSUME NEW S \in SUBSET Nat, S # {}, NEW N \in Nat, \A n \in S : n <= N
    PROVE  \E m \in S : \A n \in S : n <= m
<1> DEFINE T == {N - n : n \in S}
<1>1. T \in SUBSET Nat /\ T # {}
  <2>1. \A n \in S : N - n \in Nat
    OBVIOUS
  <2>2. PICK n \in S : TRUE
    OBVIOUS
  <2>3. N - n \in T
    OBVIOUS
  <2> QED BY <2>1, <2>3
<1>2. PICK t \in T : \A u \in T : t <= u
  BY <1>1, LeastNumber
<1>3. PICK m \in S : t = N - m
  OBVIOUS
<1>4. ASSUME NEW n \in S PROVE n <= m
  <2>1. N - n \in T
    OBVIOUS
  <2>2. N - m <= N - n
    BY <1>2, <1>3, <2>1
  <2> QED BY <2>2
<1> QED BY <1>4

--------------------------------------------------------------------------------
(***************************************************************************)
(* Levels.                                                                 *)
(***************************************************************************)
LevelIn(lim, i) == Cardinality({k \in DOMAIN lim : lim[k] < i})
Ascending(lim) == \A k, m \in DOMAIN lim : k <= m => lim[k] <= lim[m]

\* The levels opened before position i are the first ones.
LEMMA LevelFacts ==
    ASSUME NEW lim \in Seq(Nat), Ascending(lim), NEW i \in Nat
    PROVE  /\ LevelIn(lim, i) \in 0..Len(lim)
           /\ \A k \in 1..Len(lim) : lim[k] < i <=> k <= LevelIn(lim, i)
<1> DEFINE S == {k \in DOMAIN lim : lim[k] < i}
<1>1. DOMAIN lim = 1..Len(lim) /\ Len(lim) \in Nat /\ \A k \in 1..Len(lim) : lim[k] \in Nat
  BY LenProperties, ElementOfSeq
<1>2. PICK m \in 0..Len(lim) : S = 1..m
  <2>1. CASE S = {}
    BY <2>1, <1>1
  <2>2. CASE S # {}
    <3>1. S \in SUBSET Nat /\ \A n \in S : n <= Len(lim)
      BY <1>1
    <3>2. PICK m \in S : \A n \in S : n <= m
      BY <1>1, <2>2, <3>1, GreatestNumber
    <3>3. ASSUME NEW k \in 1..m PROVE k \in S
      <4>1. k \in DOMAIN lim /\ m \in DOMAIN lim /\ k <= m
        BY <1>1, <3>2
      <4>2. lim[k] <= lim[m]
        BY <4>1 DEF Ascending
      <4>3. lim[k] \in Nat /\ lim[m] \in Nat /\ lim[m] < i
        BY <1>1, <3>2, <4>1
      <4> QED BY <4>1, <4>2, <4>3
    <3>4. S = 1..m
      BY <3>1, <3>2, <3>3, <1>1
    <3> QED BY <3>1, <3>4
  <2> QED BY <2>1, <2>2
<1>3. LevelIn(lim, i) = m
  <2>1. LevelIn(lim, i) = Cardinality(1..m)
    BY <1>2 DEF LevelIn
  <2>2. Cardinality(1..m) = IF 1 > m THEN 0 ELSE m - 1 + 1
    BY <1>1, FS_Interval
  <2> QED BY <1>1, <2>1, <2>2
<1> QED BY <1>1, <1>2, <1>3

\* That determines the level.
LEMMA LevelUnique ==
    ASSUME NEW lim \in Seq(Nat), Ascending(lim), NEW i \in Nat, NEW m \in 0..Len(lim),
           \A k \in 1..Len(lim) : lim[k] < i <=> k <= m
    PROVE  LevelIn(lim, i) = m
<1>1. LevelIn(lim, i) \in 0..Len(lim) /\ Len(lim) \in Nat
  BY LevelFacts, LenProperties
<1>2. \A k \in 1..Len(lim) : k <= m <=> k <= LevelIn(lim, i)
  BY LevelFacts
<1> DEFINE a == LevelIn(lim, i)
<1>3. a \in 0..Len(lim) /\ \A k \in 1..Len(lim) : k <= m <=> k <= a
  BY <1>1, <1>2
<1> HIDE DEF a
<1>4. ~(a < m)
  <2> SUFFICES ASSUME a < m PROVE FALSE
    OBVIOUS
  <2>1. m \in 1..Len(lim) /\ m <= m
    BY <1>1, <1>3
  <2> QED BY <1>1, <1>3, <2>1
<1>5. ~(m < a)
  <2> SUFFICES ASSUME m < a PROVE FALSE
    OBVIOUS
  <2>1. a \in 1..Len(lim) /\ a <= a
    BY <1>1, <1>3
  <2> QED BY <1>1, <1>3, <2>1
<1>6. a = m
  BY <1>1, <1>3, <1>4, <1>5
<1> QED BY <1>6 DEF a

LEMMA LevelOrder ==
    ASSUME NEW lim \in Seq(Nat), Ascending(lim), NEW i \in Nat, NEW j \in Nat, i <= j
    PROVE  LevelIn(lim, i) <= LevelIn(lim, j)
<1>1. /\ LevelIn(lim, i) \in 0..Len(lim) /\ LevelIn(lim, j) \in 0..Len(lim)
      /\ Len(lim) \in Nat /\ \A k \in 1..Len(lim) : lim[k] \in Nat
  BY LevelFacts, LenProperties, ElementOfSeq
<1>2. /\ \A k \in 1..Len(lim) : lim[k] < i <=> k <= LevelIn(lim, i)
      /\ \A k \in 1..Len(lim) : lim[k] < j <=> k <= LevelIn(lim, j)
  BY LevelFacts
<1> DEFINE a == LevelIn(lim, i)
           b == LevelIn(lim, j)
<1>3. a \in 0..Len(lim) /\ b \in 0..Len(lim)
  BY <1>1
<1>4. \A k \in 1..Len(lim) : k <= a => k <= b
  BY <1>1, <1>2
<1> HIDE DEF a, b
<1>5. a <= b
  <2> SUFFICES ASSUME a # 0 PROVE a <= b
    BY <1>3
  <2>1. a \in 1..Len(lim) /\ a <= a
    BY <1>1, <1>3
  <2> QED BY <1>4, <2>1
<1> QED BY <1>5 DEF a, b

\* Levels after lv are removed, and a level is opened.
LEMMA LevelOfCut ==
    ASSUME NEW lim \in Seq(Nat), Ascending(lim), NEW lv \in 0..Len(lim)
    PROVE  LET cut == SubSeq(lim, 1, lv)
           IN  /\ cut \in Seq(Nat) /\ Len(cut) = lv /\ Ascending(cut)
               /\ \A k \in 1..lv : cut[k] = lim[k]
               /\ \A i \in Nat : LevelIn(cut, i) = IF LevelIn(lim, i) <= lv THEN LevelIn(lim, i) ELSE lv
<1> DEFINE cut == SubSeq(lim, 1, lv)
<1>1. Len(lim) \in Nat /\ DOMAIN lim = 1..Len(lim) /\ \A k \in 1..Len(lim) : lim[k] \in Nat
  BY LenProperties, ElementOfSeq
<1>2. 1 \in Int /\ lv \in Int /\ \A k \in 1..lv : lim[k] \in Nat
  BY <1>1
<1>3. cut \in Seq(Nat) /\ Len(cut) = lv /\ \A k \in 1..lv : cut[k] = lim[k]
  BY <1>1, <1>2, SubSeqProperties
<1> HIDE DEF cut
<1>4. DOMAIN cut = 1..lv
  BY <1>3, LenProperties
<1>5. Ascending(cut)
  BY <1>1, <1>3, <1>4 DEF Ascending
<1>6. ASSUME NEW i \in Nat
      PROVE  LevelIn(cut, i) = IF LevelIn(lim, i) <= lv THEN LevelIn(lim, i) ELSE lv
  <2> DEFINE m == IF LevelIn(lim, i) <= lv THEN LevelIn(lim, i) ELSE lv
  <2>1. LevelIn(lim, i) \in 0..Len(lim) /\ \A k \in 1..Len(lim) : lim[k] < i <=> k <= LevelIn(lim, i)
    BY LevelFacts
  <2>2. m \in 0..Len(cut) /\ \A k \in 1..Len(cut) : cut[k] < i <=> k <= m
    BY <1>1, <1>3, <2>1
  <2> HIDE DEF m
  <2>3. LevelIn(cut, i) = m
    BY <1>3, <1>5, <2>2, LevelUnique
  <2> QED BY <2>3 DEF m
<1> QED BY <1>3, <1>5, <1>6 DEF cut

LEMMA LevelOfPush ==
    ASSUME NEW lim \in Seq(Nat), Ascending(lim), NEW n \in Nat, \A k \in DOMAIN lim : lim[k] <= n
    PROVE  LET more == Append(lim, n)
           IN  /\ more \in Seq(Nat) /\ Len(more) = Len(lim) + 1 /\ Ascending(more)
               /\ \A k \in 1..Len(lim) : more[k] = lim[k]
               /\ more[Len(lim) + 1] = n
               /\ \A i \in Nat : LevelIn(more, i) = IF i <= n THEN LevelIn(lim, i) ELSE Len(lim) + 1
<1> DEFINE more == Append(lim, n)
<1>1. Len(lim) \in Nat /\ DOMAIN lim = 1..Len(lim) /\ \A k \in 1..Len(lim) : lim[k] \in Nat
  BY LenProperties, ElementOfSeq
<1>2. /\ more \in Seq(Nat) /\ Len(more) = Len(lim) + 1
      /\ \A k \in 1..Len(lim) : more[k] = lim[k]
      /\ more[Len(lim) + 1] = n
  BY AppendProperties
<1> HIDE DEF more
<1>3. DOMAIN more = 1..(Len(lim) + 1)
  BY <1>2, LenProperties
<1>4. Ascending(more)
  <2> SUFFICES ASSUME NEW k \in 1..(Len(lim) + 1), NEW m \in 1..(Len(lim) + 1), k <= m
               PROVE  more[k] <= more[m]
    BY <1>3 DEF Ascending
  <2>1. CASE m \in 1..Len(lim)
    <3>1. k \in 1..Len(lim)
      BY <1>1, <2>1
    <3>2. lim[k] <= lim[m]
      BY <1>1, <2>1, <3>1 DEF Ascending
    <3> QED BY <1>2, <2>1, <3>1, <3>2
  <2>2. CASE m = Len(lim) + 1 /\ k \in 1..Len(lim)
    BY <1>1, <1>2, <2>2
  <2>3. CASE m = Len(lim) + 1 /\ k = m
    BY <1>2, <2>3
  <2> QED BY <1>1, <2>1, <2>2, <2>3
<1>5. ASSUME NEW i \in Nat
      PROVE  LevelIn(more, i) = IF i <= n THEN LevelIn(lim, i) ELSE Len(lim) + 1
  <2> DEFINE m == IF i <= n THEN LevelIn(lim, i) ELSE Len(lim) + 1
  <2>1. LevelIn(lim, i) \in 0..Len(lim) /\ \A k \in 1..Len(lim) : lim[k] < i <=> k <= LevelIn(lim, i)
    BY LevelFacts
  <2>2. ASSUME NEW k \in 1..Len(more) PROVE more[k] < i <=> k <= m
    <3>1. CASE k \in 1..Len(lim)
      <4>1. more[k] = lim[k] /\ lim[k] <= n /\ lim[k] \in Nat
        BY <1>1, <1>2, <3>1
      <4> QED BY <1>1, <2>1, <3>1, <4>1
    <3>2. CASE k = Len(lim) + 1
      BY <1>1, <1>2, <2>1, <3>2
    <3> QED BY <1>1, <1>2, <3>1, <3>2
  <2>3. m \in 0..Len(more)
    BY <1>1, <1>2, <2>1
  <2> HIDE DEF m
  <2>4. LevelIn(more, i) = m
    BY <1>2, <1>4, <2>2, <2>3, LevelUnique
  <2> QED BY <2>4 DEF m
<1> QED BY <1>2, <1>4, <1>5 DEF more

--------------------------------------------------------------------------------
(***************************************************************************)
(* Literals, the trail, and clauses.                                       *)
(***************************************************************************)
LEMMA LiteralFacts ==
    ASSUME NEW l \in SatLiterals
    PROVE  /\ l \in Int /\ l # 0 /\ -l \in SatLiterals /\ -(-l) = l /\ -l # l
           /\ var(l) \in SatVariables /\ var(l) \in Nat /\ var(-l) = var(l)
           /\ \A k \in SatLiterals : var(k) = var(l) <=> k = l \/ k = -l
<1>1. \A k \in SatLiterals : k \in Int /\ k # 0
  BY GlucoseAssumption DEF SatLiterals
<1>2. -l \in SatLiterals
  <2>1. CASE l \in SatVariables
    BY <2>1 DEF SatLiterals
  <2>2. CASE l \in {-v : v \in SatVariables}
    <3>1. PICK v \in SatVariables : l = -v
      BY <2>2
    <3>2. -l = v
      BY <3>1, GlucoseAssumption
    <3> QED BY <3>1, <3>2 DEF SatLiterals
  <2> QED BY <2>1, <2>2 DEF SatLiterals
<1>3. var(l) \in SatVariables
  <2>1. CASE l \in SatVariables
    BY <2>1, GlucoseAssumption DEF var
  <2>2. CASE l \in {-v : v \in SatVariables}
    <3>1. PICK v \in SatVariables : l = -v
      BY <2>2
    <3>2. l < 0 /\ -l = v
      BY <3>1, GlucoseAssumption
    <3> QED BY <3>1, <3>2 DEF var
  <2> QED BY <2>1, <2>2 DEF SatLiterals
<1>4. ASSUME NEW k \in SatLiterals PROVE var(k) = var(l) <=> k = l \/ k = -l
  BY <1>1 DEF var
<1>5. var(-l) = var(l)
  BY <1>1 DEF var
<1>6. var(l) \in Nat
  BY <1>3, GlucoseAssumption
<1> QED BY <1>1, <1>2, <1>3, <1>4, <1>5, <1>6

LEMMA LiteralsFinite == IsFiniteSet(SatLiterals)
<1> DEFINE Negative == {-v : v \in SatVariables}
           f == [v \in SatVariables |-> -v]
<1>1. f \in Surjection(SatVariables, Negative)
  BY DEF Surjection
<1>2. IsFiniteSet(Negative)
  BY <1>1, GlucoseAssumption, FS_Surjection
<1>3. IsFiniteSet(SatVariables \cup Negative)
  BY <1>2, GlucoseAssumption, FS_Union
<1> QED BY <1>3 DEF SatLiterals

LEMMA WorldFacts ==
    ASSUME NEW W \in worlds, NEW l \in SatLiterals
    PROVE  l \in W <=> -l \notin W
<1>1. \A v \in SatVariables : (v \in W) # (-v \in W)
  BY DEF worlds
<1>2. CASE l \in SatVariables
  BY <1>1, <1>2
<1>3. CASE l \in {-v : v \in SatVariables}
  <2>1. PICK v \in SatVariables : l = -v
    BY <1>3
  <2>2. v \in Nat /\ -l = v
    BY <2>1, GlucoseAssumption
  <2> QED BY <1>1, <2>1, <2>2
<1> QED BY <1>2, <1>3 DEF SatLiterals

LEMMA TrailFacts ==
    ASSUME GlucoseTypeOK, TrailInv
    PROVE  /\ DOMAIN trail = 1..Len(trail) /\ Len(trail) \in Nat
           /\ DOMAIN trail_lim = 1..decisionLevel /\ decisionLevel \in Nat
           /\ \A k \in 1..decisionLevel : trail_lim[k] \in Nat
           /\ Ascending(trail_lim)
           /\ \A i \in DOMAIN trail :
                 /\ trail[i] \in Entries /\ trail[i].lit \in SatLiterals /\ trail[i].reason \subseteq SatLiterals
                 /\ place(trail[i].lit) = i /\ place(-trail[i].lit) = i
                 /\ level(trail[i].lit) = levelAt(i) /\ level(-trail[i].lit) = levelAt(i)
<1>1. DOMAIN trail = 1..Len(trail) /\ Len(trail) \in Nat
  BY LenProperties DEF GlucoseTypeOK
<1>2. DOMAIN trail_lim = 1..decisionLevel /\ decisionLevel \in Nat
  BY LenProperties DEF GlucoseTypeOK, decisionLevel
<1>3. \A k \in 1..decisionLevel : trail_lim[k] \in Nat
  BY ElementOfSeq DEF GlucoseTypeOK, decisionLevel
<1>4. Ascending(trail_lim)
  BY DEF TrailInv, Ascending
<1>5. ASSUME NEW i \in DOMAIN trail
      PROVE  /\ trail[i] \in Entries /\ trail[i].lit \in SatLiterals /\ trail[i].reason \subseteq SatLiterals
             /\ place(trail[i].lit) = i /\ place(-trail[i].lit) = i
  <2>1. trail[i] \in Entries
    BY <1>1, ElementOfSeq DEF GlucoseTypeOK
  <2>2. trail[i].lit \in SatLiterals /\ trail[i].reason \subseteq SatLiterals
    BY <2>1 DEF Entries
  <2>3. var(-trail[i].lit) = var(trail[i].lit)
    BY <2>2, LiteralFacts
  <2>4. \A j \in DOMAIN trail : var(trail[j].lit) = var(trail[i].lit) => j = i
    BY DEF TrailInv
  <2>5. place(trail[i].lit) = i
    BY <2>4 DEF place
  <2>6. place(-trail[i].lit) = i
    BY <2>3, <2>4 DEF place
  <2> QED BY <2>1, <2>2, <2>5, <2>6
<1> QED BY <1>1, <1>2, <1>3, <1>4, <1>5 DEF level

\* No literal is both true and false; a false literal is where its negation is.
LEMMA FalseFacts ==
    ASSUME GlucoseTypeOK, TrailInv, NEW q \in SatLiterals
    PROVE  /\ isFalse(q) <=> \E i \in DOMAIN trail : trail[i].lit = -q
           /\ isTrue(q) <=> \E i \in DOMAIN trail : trail[i].lit = q
           /\ ~(isTrue(q) /\ isFalse(q))
           /\ isFalse(-q) <=> isTrue(q)
           /\ \A i \in DOMAIN trail : q = -trail[i].lit <=> trail[i].lit = -q
           /\ isFalse(q) => /\ place(q) \in DOMAIN trail /\ trail[place(q)].lit = -q
                            /\ level(q) = levelAt(place(q))
<1>1. q \in Int /\ -q \in SatLiterals /\ -(-q) = q /\ -q # q /\ var(-q) = var(q)
  BY LiteralFacts
<1>2. isFalse(q) <=> \E i \in DOMAIN trail : trail[i].lit = -q
  BY DEF isFalse, true_literals
<1>3. isTrue(q) <=> \E i \in DOMAIN trail : trail[i].lit = q
  BY DEF isTrue, true_literals
<1>4. ~(isTrue(q) /\ isFalse(q))
  <2> SUFFICES ASSUME isTrue(q), isFalse(q) PROVE FALSE
    OBVIOUS
  <2>1. PICK i \in DOMAIN trail, j \in DOMAIN trail : trail[i].lit = q /\ trail[j].lit = -q
    BY <1>2, <1>3
  <2>2. i = j
    BY <1>1, <2>1 DEF TrailInv
  <2> QED BY <1>1, <2>1, <2>2
<1>5. isFalse(-q) <=> isTrue(q)
  BY <1>1 DEF isFalse, isTrue
<1>6. ASSUME NEW i \in DOMAIN trail PROVE q = -trail[i].lit <=> trail[i].lit = -q
  <2>1. trail[i].lit \in Int
    BY TrailFacts, LiteralFacts
  <2> QED BY <1>1, <2>1
<1>7. ASSUME isFalse(q)
      PROVE  place(q) \in DOMAIN trail /\ trail[place(q)].lit = -q /\ level(q) = levelAt(place(q))
  <2>1. PICK i \in DOMAIN trail : trail[i].lit = -q
    BY <1>2, <1>7
  <2>2. q = -trail[i].lit
    BY <1>6, <2>1
  <2>3. place(q) = i
    BY <2>2, TrailFacts
  <2> QED BY <2>1, <2>3 DEF level
<1> QED BY <1>2, <1>3, <1>4, <1>5, <1>6, <1>7

LEMMA AtLevel ==
    ASSUME GlucoseTypeOK, TrailInv, NEW i \in Nat
    PROVE  /\ levelAt(i) = LevelIn(trail_lim, i)
           /\ levelAt(i) \in 0..decisionLevel
           /\ \A k \in 1..decisionLevel : trail_lim[k] < i <=> k <= levelAt(i)
<1>1. levelAt(i) = LevelIn(trail_lim, i)
  BY DEF levelAt, LevelIn
<1>2. trail_lim \in Seq(Nat) /\ Ascending(trail_lim)
  BY TrailFacts DEF GlucoseTypeOK
<1> QED BY <1>1, <1>2, LevelFacts DEF decisionLevel

LEMMA ClauseFacts ==
    ASSUME GlucoseTypeOK, DatabaseInv, NEW C \in DOMAIN database
    PROVE  /\ IsFiniteSet(C) /\ C \subseteq SatLiterals /\ Cardinality(C) \in Nat /\ Cardinality(C) >= 2
           /\ database[C] \in ClauseData /\ database[C].lits \in Seq(SatLiterals)
           /\ DOMAIN database[C].lits = 1..Cardinality(C) /\ Len(database[C].lits) = Cardinality(C)
           /\ \A k \in 1..Cardinality(C) : database[C].lits[k] \in C
           /\ \A l \in C : \E k \in 1..Cardinality(C) : database[C].lits[k] = l
           /\ \A k, m \in 1..Cardinality(C) : database[C].lits[k] = database[C].lits[m] => k = m
           /\ database[C].lits[1] # database[C].lits[2] /\ watched(C) \subseteq C
           /\ Cardinality(C) = 2 => C = watched(C)
<1>1. C \subseteq SatLiterals /\ database[C] \in ClauseData
  BY DEF GlucoseTypeOK
<1>2. IsFiniteSet(C) /\ Cardinality(C) \in Nat
  BY <1>1, LiteralsFinite, FS_Subset, FS_CardinalityType
<1>3. Lists(database[C], C)
  BY DEF DatabaseInv
<1>4. database[C].lits \in Seq(SatLiterals)
  BY <1>1 DEF ClauseData
<1>5. DOMAIN database[C].lits = 1..Cardinality(C) /\ Cardinality(C) >= 2
  BY <1>3, <1>4, LenProperties DEF Lists
<1>6. /\ \A k \in 1..Cardinality(C) : database[C].lits[k] \in C
      /\ \A l \in C : \E k \in 1..Cardinality(C) : database[C].lits[k] = l
      /\ \A k, m \in 1..Cardinality(C) : database[C].lits[k] = database[C].lits[m] => k = m
  BY <1>3, <1>5 DEF Lists, range
<1>7. 1 \in 1..Cardinality(C) /\ 2 \in 1..Cardinality(C)
  BY <1>2, <1>5
<1>8. database[C].lits[1] # database[C].lits[2] /\ watched(C) \subseteq C
  BY <1>6, <1>7 DEF watched
<1>9. Cardinality(C) = 2 => C = watched(C)
  <2> SUFFICES ASSUME Cardinality(C) = 2 PROVE C \subseteq watched(C)
    BY <1>8
  <2>1. \A k \in 1..2 : k = 1 \/ k = 2
    OBVIOUS
  <2> QED BY <1>6, <2>1 DEF watched
<1> QED BY <1>1, <1>2, <1>3, <1>4, <1>5, <1>6, <1>8, <1>9 DEF Lists

--------------------------------------------------------------------------------
(***************************************************************************)
(* Backtracking and assigning.                                             *)
(***************************************************************************)
keptLength(lv) == IF decisionLevel > lv THEN trail_lim[lv + 1] ELSE Len(trail)
keptLevels(lv) == IF decisionLevel > lv THEN lv ELSE decisionLevel

\* What is left when backtracking to a level are the entries of that level or below.
LEMMA TrailUntilFacts ==
    ASSUME GlucoseTypeOK, TrailInv, NEW lv \in Nat
    PROVE  /\ keptLength(lv) \in 0..Len(trail) /\ keptLevels(lv) \in 0..decisionLevel /\ keptLevels(lv) <= lv
           /\ trailUntil(lv) \in Seq(Entries) /\ Len(trailUntil(lv)) = keptLength(lv)
           /\ DOMAIN trailUntil(lv) = 1..keptLength(lv)
           /\ \A i \in 1..keptLength(lv) : trailUntil(lv)[i] = trail[i]
           /\ \A i \in DOMAIN trail : i <= keptLength(lv) <=> levelAt(i) <= lv
           /\ \A k \in 1..keptLevels(lv) : trail_lim[k] <= keptLength(lv)
           /\ decisionLevel > lv => keptLength(lv) <= qhead
<1>1. /\ DOMAIN trail = 1..Len(trail) /\ Len(trail) \in Nat
      /\ DOMAIN trail_lim = 1..decisionLevel /\ decisionLevel \in Nat
      /\ \A k \in 1..decisionLevel : trail_lim[k] \in Nat
      /\ trail \in Seq(Entries) /\ qhead \in 0..Len(trail)
  BY TrailFacts DEF GlucoseTypeOK
<1>2. \A k \in 1..decisionLevel : trail_lim[k] <= qhead
  BY <1>1 DEF TrailInv
<1>3. decisionLevel > lv => lv + 1 \in 1..decisionLevel
  BY <1>1
<1>4. /\ keptLength(lv) \in 0..Len(trail) /\ keptLevels(lv) \in 0..decisionLevel /\ keptLevels(lv) <= lv
      /\ decisionLevel > lv => keptLength(lv) <= qhead
  BY <1>1, <1>2, <1>3 DEF keptLength, keptLevels
<1>5. trailUntil(lv) = SubSeq(trail, 1, keptLength(lv))
  <2>1. CASE decisionLevel > lv
    BY <2>1 DEF trailUntil, keptLength
  <2>2. CASE ~(decisionLevel > lv)
    BY <1>1, <2>2, SubSeqFull DEF trailUntil, keptLength
  <2> QED BY <2>1, <2>2
<1>6. /\ trailUntil(lv) \in Seq(Entries) /\ Len(trailUntil(lv)) = keptLength(lv)
      /\ \A i \in 1..keptLength(lv) : trailUntil(lv)[i] = trail[i]
  <2> DEFINE n == keptLength(lv)
  <2>1. n \in 0..Len(trail) /\ n \in Int /\ 1 \in Int /\ trailUntil(lv) = SubSeq(trail, 1, n)
    BY <1>1, <1>4, <1>5
  <2> HIDE DEF n
  <2>2. \A i \in 1..n : trail[i] \in Entries
    BY <1>1, <2>1, ElementOfSeq
  <2>3. /\ SubSeq(trail, 1, n) \in Seq(Entries) /\ Len(SubSeq(trail, 1, n)) = IF 1 <= n THEN n - 1 + 1 ELSE 0
        /\ \A i \in 1..(n - 1 + 1) : SubSeq(trail, 1, n)[i] = trail[1 + i - 1]
    BY <2>1, <2>2, SubSeqProperties
  <2>4. /\ (IF 1 <= n THEN n - 1 + 1 ELSE 0) = n /\ n - 1 + 1 = n
        /\ \A i \in 1..n : 1 + i - 1 = i
    BY <1>1, <2>1
  <2>5. /\ trailUntil(lv) \in Seq(Entries) /\ Len(trailUntil(lv)) = n
        /\ \A i \in 1..n : trailUntil(lv)[i] = trail[i]
    BY <2>1, <2>3, <2>4
  <2> QED BY <2>5 DEF n
<1>7. DOMAIN trailUntil(lv) = 1..keptLength(lv)
  BY <1>6, LenProperties
<1>8. ASSUME NEW i \in DOMAIN trail PROVE i <= keptLength(lv) <=> levelAt(i) <= lv
  <2>1. i \in Nat /\ levelAt(i) \in 0..decisionLevel
    BY <1>1, AtLevel
  <2>2. CASE decisionLevel > lv
    <3>1. trail_lim[lv + 1] < i <=> lv + 1 <= levelAt(i)
      BY <1>3, <2>1, <2>2, AtLevel
    <3> QED BY <1>1, <1>3, <2>1, <2>2, <3>1 DEF keptLength
  <2>3. CASE ~(decisionLevel > lv)
    BY <1>1, <2>1, <2>3 DEF keptLength
  <2> QED BY <2>2, <2>3
<1>9. ASSUME NEW k \in 1..keptLevels(lv) PROVE trail_lim[k] <= keptLength(lv)
  <2>1. k \in 1..decisionLevel /\ trail_lim[k] \in Nat
    BY <1>1, <1>4
  <2>2. CASE decisionLevel > lv
    <3>1. k <= lv + 1 /\ lv + 1 \in 1..decisionLevel
      BY <1>1, <1>4, <2>2
    <3>2. trail_lim[k] <= trail_lim[lv + 1]
      BY <1>1, <2>1, <3>1, TrailFacts DEF Ascending
    <3> QED BY <2>2, <3>2 DEF keptLength
  <2>3. CASE ~(decisionLevel > lv)
    <3>1. trail_lim[k] <= qhead /\ qhead <= Len(trail)
      BY <1>1, <1>2, <2>1
    <3> QED BY <1>1, <2>1, <2>3, <3>1 DEF keptLength
  <2> QED BY <2>2, <2>3
<1> QED BY <1>4, <1>6, <1>7, <1>8, <1>9

\* What cancelUntil does to the levels and the queue.
levelsCut(lv) ==
    /\ trail_lim' = SubSeq(trail_lim, 1, IF decisionLevel > lv THEN lv ELSE decisionLevel)
    /\ qhead' = IF decisionLevel > lv THEN trail_lim[lv + 1] ELSE qhead

LEMMA CancelFacts ==
    ASSUME GlucoseTypeOK, TrailInv, NEW lv \in Nat, levelsCut(lv)
    PROVE  /\ trail_lim' \in Seq(Nat) /\ decisionLevel' = keptLevels(lv) /\ Ascending(trail_lim')
           /\ \A k \in 1..keptLevels(lv) : trail_lim'[k] = trail_lim[k]
           /\ DOMAIN trail_lim' = 1..keptLevels(lv)
           /\ \A i \in Nat : levelAt(i)' = IF levelAt(i) <= keptLevels(lv) THEN levelAt(i) ELSE keptLevels(lv)
           /\ \A i \in DOMAIN trail : i <= keptLength(lv) => levelAt(i)' = levelAt(i)
           /\ qhead' \in 0..keptLength(lv) /\ qhead' <= qhead
           /\ decisionLevel > lv => qhead' = keptLength(lv)
           /\ decisionLevel <= lv => qhead' = qhead
<1> DEFINE n == keptLevels(lv)
<1>1. /\ n \in 0..Len(trail_lim) /\ trail_lim \in Seq(Nat) /\ Ascending(trail_lim)
      /\ DOMAIN trailUntil(lv) = 1..keptLength(lv) /\ keptLength(lv) \in 0..Len(trail)
      /\ DOMAIN trail = 1..Len(trail) /\ Len(trail) \in Nat /\ decisionLevel \in Nat
  BY TrailUntilFacts, TrailFacts DEF decisionLevel, GlucoseTypeOK
<1>2. trail_lim' = SubSeq(trail_lim, 1, n)
  BY DEF levelsCut, keptLevels
<1>3. /\ decisionLevel > lv => qhead' = keptLength(lv)
      /\ decisionLevel <= lv => qhead' = qhead
  BY <1>1 DEF levelsCut, keptLength
<1>5. qhead' \in 0..keptLength(lv) /\ qhead' <= qhead
  <2>1. qhead \in 0..Len(trail)
    BY DEF GlucoseTypeOK
  <2>2. CASE decisionLevel > lv
    BY <1>1, <1>3, <2>1, <2>2, TrailUntilFacts
  <2>3. CASE ~(decisionLevel > lv)
    BY <1>1, <1>3, <2>1, <2>3 DEF keptLength
  <2> QED BY <2>2, <2>3
<1> HIDE DEF n
<1>6. /\ trail_lim' \in Seq(Nat) /\ Len(trail_lim') = n /\ Ascending(trail_lim')
      /\ \A k \in 1..n : trail_lim'[k] = trail_lim[k]
      /\ \A i \in Nat : LevelIn(trail_lim', i) = IF LevelIn(trail_lim, i) <= n THEN LevelIn(trail_lim, i) ELSE n
  BY <1>1, <1>2, LevelOfCut
<1>7. decisionLevel' = n /\ DOMAIN trail_lim' = 1..n
  BY <1>6, LenProperties DEF decisionLevel
<1>8. \A i \in Nat : levelAt(i)' = IF levelAt(i) <= n THEN levelAt(i) ELSE n
  BY <1>6 DEF levelAt, LevelIn
<1>9. ASSUME NEW i \in DOMAIN trail, i <= keptLength(lv) PROVE levelAt(i)' = levelAt(i)
  <2>0. i \in Nat
    BY <1>1
  <2>1. levelAt(i) <= lv /\ levelAt(i) \in 0..decisionLevel
    BY <1>9, <2>0, TrailUntilFacts, AtLevel
  <2>2. levelAt(i) <= n
    BY <1>1, <2>1 DEF n, keptLevels
  <2> QED BY <1>8, <2>0, <2>1, <2>2
<1> QED BY <1>3, <1>5, <1>6, <1>7, <1>8, <1>9 DEF n

\* An entry is added to a trail t.
LEMMA EnqueueFacts ==
    ASSUME NEW t \in Seq(Entries), NEW l \in SatLiterals, NEW C \in SUBSET SatLiterals
    PROVE  /\ enqueue(t, l, C) \in Seq(Entries) /\ Len(enqueue(t, l, C)) = Len(t) + 1
           /\ DOMAIN enqueue(t, l, C) = 1..(Len(t) + 1) /\ Len(t) \in Nat /\ DOMAIN t = 1..Len(t)
           /\ \A i \in 1..Len(t) : enqueue(t, l, C)[i] = t[i]
           /\ enqueue(t, l, C)[Len(t) + 1].lit = l /\ enqueue(t, l, C)[Len(t) + 1].reason = C
<1>1. [lit |-> l, reason |-> C] \in Entries
  BY DEF Entries
<1>2. /\ enqueue(t, l, C) \in Seq(Entries) /\ Len(enqueue(t, l, C)) = Len(t) + 1
      /\ \A i \in 1..Len(t) : enqueue(t, l, C)[i] = t[i]
      /\ enqueue(t, l, C)[Len(t) + 1] = [lit |-> l, reason |-> C]
  BY <1>1, AppendProperties DEF enqueue
<1>3. DOMAIN enqueue(t, l, C) = 1..(Len(t) + 1) /\ Len(t) \in Nat /\ DOMAIN t = 1..Len(t)
  <2>1. DOMAIN enqueue(t, l, C) = 1..Len(enqueue(t, l, C))
    BY <1>2, LenProperties
  <2> QED BY <1>2, <2>1, LenProperties
<1> QED BY <1>2, <1>3

--------------------------------------------------------------------------------
(***************************************************************************)
(* Lists of literals.                                                      *)
(***************************************************************************)
Distinct(s) == \A k, m \in DOMAIN s : s[k] = s[m] => k = m

LEMMA RangeOfAppend ==
    ASSUME NEW X, NEW s \in Seq(X), NEW x \in X
    PROVE  /\ range(Append(s, x)) = range(s) \cup {x}
           /\ Distinct(s) /\ x \notin range(s) => Distinct(Append(s, x))
<1> DEFINE t == Append(s, x)
           n == Len(s)
<1>1. /\ t \in Seq(X) /\ Len(t) = n + 1 /\ n \in Nat
      /\ \A k \in 1..n : t[k] = s[k]
      /\ t[n + 1] = x
  BY AppendProperties, LenProperties
<1>2. DOMAIN s = 1..n
  BY LenProperties
<1> HIDE DEF t, n
<1>3. DOMAIN t = 1..(n + 1)
  BY <1>1, LenProperties
<1>4. range(t) = range(s) \cup {x}
  BY <1>1, <1>2, <1>3 DEF range
<1>5. ASSUME Distinct(s), x \notin range(s) PROVE Distinct(t)
  <2> SUFFICES ASSUME NEW k \in 1..(n + 1), NEW m \in 1..(n + 1), t[k] = t[m] PROVE k = m
    BY <1>3 DEF Distinct
  <2>1. \A j \in 1..n : s[j] # x
    BY <1>2, <1>5 DEF range
  <2>2. k \in 1..n \/ k = n + 1
    BY <1>1
  <2>3. m \in 1..n \/ m = n + 1
    BY <1>1
  <2> QED BY <1>1, <1>2, <1>5, <2>1, <2>2, <2>3 DEF Distinct
<1> QED BY <1>4, <1>5 DEF t

LEMMA RangeOfConcat ==
    ASSUME NEW X, NEW s \in Seq(X), NEW t \in Seq(X)
    PROVE  /\ s \o t \in Seq(X) /\ range(s \o t) = range(s) \cup range(t)
           /\ Distinct(s) /\ Distinct(t) /\ range(s) \cap range(t) = {} => Distinct(s \o t)
<1> DEFINE u == s \o t
           n == Len(s)
           p == Len(t)
<1>1. /\ u \in Seq(X) /\ Len(u) = n + p /\ n \in Nat /\ p \in Nat
      /\ \A k \in 1..(n + p) : u[k] = IF k <= n THEN s[k] ELSE t[k - n]
  BY ConcatProperties, LenProperties
<1>2. DOMAIN s = 1..n /\ DOMAIN t = 1..p
  BY LenProperties
<1> HIDE DEF u, n, p
<1>3. DOMAIN u = 1..(n + p)
  BY <1>1, LenProperties
<1>4. ASSUME NEW k \in 1..(n + p)
      PROVE  \/ k \in 1..n /\ u[k] = s[k]
             \/ k - n \in 1..p /\ u[k] = t[k - n]
  BY <1>1
<1>5. \A k \in 1..n : k \in 1..(n + p) /\ u[k] = s[k]
  BY <1>1
<1>6. \A k \in 1..p : n + k \in 1..(n + p) /\ u[n + k] = t[k]
  <2> SUFFICES ASSUME NEW k \in 1..p PROVE n + k \in 1..(n + p) /\ u[n + k] = t[k]
    OBVIOUS
  <2>1. n + k \in 1..(n + p) /\ ~(n + k <= n) /\ n + k - n = k
    BY <1>1
  <2> QED BY <1>1, <2>1
<1>7. range(u) = range(s) \cup range(t)
  <2>1. ASSUME NEW k \in 1..(n + p) PROVE u[k] \in range(s) \cup range(t)
    BY <1>2, <1>4 DEF range
  <2>2. ASSUME NEW k \in 1..n PROVE s[k] \in range(u)
    <3>1. k \in 1..(n + p) /\ u[k] = s[k]
      BY <1>5
    <3> QED BY <1>3, <3>1 DEF range
  <2>3. ASSUME NEW k \in 1..p PROVE t[k] \in range(u)
    <3>1. n + k \in 1..(n + p) /\ u[n + k] = t[k]
      BY <1>6
    <3> QED BY <1>3, <3>1 DEF range
  <2> QED BY <1>2, <1>3, <2>1, <2>2, <2>3 DEF range
<1>8. ASSUME Distinct(s), Distinct(t), range(s) \cap range(t) = {} PROVE Distinct(u)
  <2> SUFFICES ASSUME NEW k \in 1..(n + p), NEW m \in 1..(n + p), u[k] = u[m] PROVE k = m
    BY <1>3 DEF Distinct
  <2>1. \A a \in 1..n, b \in 1..p : s[a] # t[b]
    BY <1>2, <1>8 DEF range
  <2>2. CASE k \in 1..n /\ u[k] = s[k] /\ m \in 1..n /\ u[m] = s[m]
    BY <1>2, <1>8, <2>2 DEF Distinct
  <2>3. CASE k - n \in 1..p /\ u[k] = t[k - n] /\ m - n \in 1..p /\ u[m] = t[m - n]
    <3>1. k - n = m - n
      BY <1>2, <1>8, <2>3 DEF Distinct
    <3> QED BY <1>1, <3>1
  <2> QED BY <1>4, <2>1, <2>2, <2>3
<1> QED BY <1>1, <1>7, <1>8 DEF u

\* inOrder takes what is in S, each literal once.
LEMMA InOrderFacts ==
    ASSUME NEW X, NEW s \in Seq(X), NEW S
    PROVE  /\ inOrder(s, S) \in Seq(X)
           /\ range(inOrder(s, S)) = range(s) \cap S
           /\ Distinct(s) => Distinct(inOrder(s, S))
<1> DEFINE N == Len(s)
           Solves(f, n) == f = [i \in 0..n |->
               IF i = 0 THEN <<>> ELSE IF s[i] \in S THEN Append(f[i - 1], s[i]) ELSE f[i - 1]]
           kept == CHOOSE f : Solves(f, N)
<1>1. N \in Nat /\ DOMAIN s = 1..N /\ \A i \in 1..N : s[i] \in X
  BY LenProperties, ElementOfSeq
<1> HIDE DEF N
<1>2. \E f : Solves(f, N)
  <2> DEFINE T == {n \in 0..N : \E f : Solves(f, n)}
  <2>1. 0 \in T
    <3>1. Solves([i \in 0..0 |-> <<>>], 0)
      OBVIOUS
    <3> HIDE DEF Solves
    <3> QED BY <1>1, <3>1
  <2>2. ASSUME NEW n \in 1..N, n - 1 \in T PROVE n \in T
    <3>1. PICK f : Solves(f, n - 1)
      BY <2>2
    <3> DEFINE g == [i \in 0..n |-> IF i < n THEN f[i]
                        ELSE IF s[n] \in S THEN Append(f[n - 1], s[n]) ELSE f[n - 1]]
    <3>2. ASSUME NEW i \in 0..n
          PROVE  g[i] = IF i = 0 THEN <<>> ELSE IF s[i] \in S THEN Append(g[i - 1], s[i]) ELSE g[i - 1]
      <4>1. CASE i < n
        <5>1. i \in 0..(n - 1) /\ g[i] = f[i]
          BY <1>1, <4>1
        <5>2. i # 0 => i - 1 \in 0..n /\ i - 1 < n /\ g[i - 1] = f[i - 1]
          BY <1>1, <4>1
        <5> HIDE DEF g
        <5> QED BY <3>1, <5>1, <5>2
      <4>2. CASE i = n
        <5>1. n - 1 \in 0..n /\ n - 1 < n /\ n # 0
          BY <1>1
        <5>2. g[n - 1] = f[n - 1]
          BY <5>1
        <5> QED BY <4>2, <5>1, <5>2
      <4> QED BY <1>1, <4>1, <4>2
    <3>3. Solves(g, n)
      BY <3>2
    <3> HIDE DEF Solves, g
    <3> QED BY <1>1, <3>3
  <2> HIDE DEF T
  <2>3. N \in T
    BY <1>1, <2>1, <2>2, UpTo
  <2> QED BY <2>3 DEF T
<1>3. Solves(kept, N)
  BY <1>2
<1>4. inOrder(s, S) = kept[N]
  BY DEF inOrder, N
<1> HIDE DEF kept
<1>5. /\ kept[0] = <<>>
      /\ \A n \in 1..N : kept[n] = IF s[n] \in S THEN Append(kept[n - 1], s[n]) ELSE kept[n - 1]
  <2>1. \A n \in 0..N : kept[n] = IF n = 0 THEN <<>>
                                  ELSE IF s[n] \in S THEN Append(kept[n - 1], s[n]) ELSE kept[n - 1]
    BY <1>3
  <2>2. 0 \in 0..N /\ \A n \in 1..N : n \in 0..N /\ n # 0
    BY <1>1
  <2> QED BY <2>1, <2>2
<1> DEFINE T == {n \in 0..N : /\ kept[n] \in Seq(X)
                              /\ range(kept[n]) = {s[i] : i \in 1..n} \cap S
                              /\ Distinct(s) => Distinct(kept[n])}
<1>6. 0 \in T
  <2>1. <<>> \in Seq(X) /\ range(<<>>) = {} /\ Distinct(<<>>)
    BY EmptySeq, LenProperties DEF range, Distinct
  <2>2. {s[i] : i \in 1..0} = {} /\ 0 \in 0..N
    BY <1>1
  <2> QED BY <1>5, <2>1, <2>2
<1>7. ASSUME NEW n \in 1..N, n - 1 \in T PROVE n \in T
  <2>1. /\ kept[n - 1] \in Seq(X) /\ range(kept[n - 1]) = {s[i] : i \in 1..(n - 1)} \cap S
        /\ Distinct(s) => Distinct(kept[n - 1])
    BY <1>7
  <2>2. {s[i] : i \in 1..n} = {s[i] : i \in 1..(n - 1)} \cup {s[n]}
    <3>1. 1..n = 1..(n - 1) \cup {n}
      BY <1>1
    <3> QED BY <3>1
  <2>3. CASE s[n] \notin S
    <3>1. kept[n] = kept[n - 1]
      BY <1>5, <2>3
    <3> QED BY <1>1, <2>1, <2>2, <2>3, <3>1
  <2>4. CASE s[n] \in S
    <3>1. kept[n] = Append(kept[n - 1], s[n]) /\ s[n] \in X
      BY <1>1, <1>5, <2>4
    <3>2. kept[n] \in Seq(X) /\ range(kept[n]) = range(kept[n - 1]) \cup {s[n]}
      BY <2>1, <3>1, RangeOfAppend, AppendProperties
    <3>3. ASSUME Distinct(s) PROVE s[n] \notin range(kept[n - 1])
      <4>1. \A i \in 1..(n - 1) : i \in DOMAIN s /\ n \in DOMAIN s /\ i # n
        BY <1>1
      <4> QED BY <2>1, <3>3, <4>1 DEF Distinct
    <3>4. Distinct(s) => Distinct(kept[n])
      BY <2>1, <3>1, <3>3, RangeOfAppend
    <3>5. range(kept[n]) = {s[i] : i \in 1..n} \cap S
      BY <2>1, <2>2, <2>4, <3>2
    <3> QED BY <1>1, <3>2, <3>4, <3>5
  <2> QED BY <2>3, <2>4
<1> HIDE DEF T
<1>8. N \in T
  BY <1>1, <1>6, <1>7, UpTo
<1>9. range(s) = {s[i] : i \in 1..N}
  BY <1>1 DEF range
<1> QED BY <1>4, <1>8, <1>9 DEF T

\* Any set of literals can be sorted.
LEMMA SortedFacts ==
    ASSUME NEW C \in SUBSET SatLiterals
    PROVE  /\ sorted(C) \in [1..Cardinality(C) -> C] /\ Cardinality(C) \in Nat
           /\ \A l \in C : \E k \in 1..Cardinality(C) : sorted(C)[k] = l
           /\ \A k, m \in 1..Cardinality(C) : sorted(C)[k] = sorted(C)[m] => k = m
<1> DEFINE rank(l) == IF l > 0 THEN 2 * l ELSE 1 - 2 * l
           Sorts(s, n) == \A i, j \in 1..n : i < j => before(s[i], s[j])
           T == {n \in Nat : \A D \in SUBSET SatLiterals : Cardinality(D) = n => \E s \in [1..n -> D] : Sorts(s, n)}
           N == Cardinality(C)
<1>1. \A D \in SUBSET SatLiterals : IsFiniteSet(D) /\ Cardinality(D) \in Nat
  BY LiteralsFinite, FS_Subset, FS_CardinalityType
<1>2. \A l \in SatLiterals : l \in Int /\ l # 0
  BY LiteralFacts
<1>3. \A k, l \in SatLiterals : before(k, l) <=> rank(k) < rank(l)
  BY <1>2 DEF before, var
<1>4. \A l \in SatLiterals : rank(l) \in Nat
  BY <1>2
<1>5. \A k, l \in SatLiterals : rank(k) = rank(l) => k = l
  BY <1>2
<1> HIDE DEF rank
<1>6. 0 \in T
  <2>1. ASSUME NEW D \in SUBSET SatLiterals, Cardinality(D) = 0 PROVE \E s \in [1..0 -> D] : Sorts(s, 0)
    <3>1. [i \in 1..0 |-> 0] \in [1..0 -> D] /\ Sorts([i \in 1..0 |-> 0], 0)
      OBVIOUS
    <3> HIDE DEF Sorts
    <3> QED BY <3>1
  <2> HIDE DEF Sorts
  <2> QED BY <2>1
<1>7. ASSUME NEW n \in 1..N, n - 1 \in T PROVE n \in T
  <2>0. n \in Nat /\ n - 1 \in Nat /\ n # 0
    BY <1>1
  <2> SUFFICES ASSUME NEW D \in SUBSET SatLiterals, Cardinality(D) = n
               PROVE  \E s \in [1..n -> D] : Sorts(s, n)
    BY <2>0
  <2>1. D # {}
    BY <2>0, FS_EmptySet
  <2>2. PICK l \in D : \A k \in D : rank(l) <= rank(k)
    <3> DEFINE R == {rank(k) : k \in D}
    <3>1. R \in SUBSET Nat
      BY <1>4
    <3>2. R # {}
      BY <2>1
    <3>3. PICK r \in R : \A q \in R : r <= q
      BY <3>1, <3>2, LeastNumber
    <3> QED BY <3>3
  <2>3. Cardinality(D \ {l}) = n - 1 /\ D \ {l} \in SUBSET SatLiterals
    BY <1>1, FS_RemoveElement
  <2>4. PICK s \in [1..(n - 1) -> D \ {l}] : Sorts(s, n - 1)
    BY <1>7, <2>3
  <2> DEFINE g == [i \in 1..n |-> IF i = 1 THEN l ELSE s[i - 1]]
  <2>5. \A i \in 1..n : i # 1 => i - 1 \in 1..(n - 1)
    BY <2>0
  <2>6. g \in [1..n -> D]
    BY <2>4, <2>5
  <2>7. ASSUME NEW i \in 1..n, NEW j \in 1..n, i < j PROVE before(g[i], g[j])
    <3>1. j # 1 /\ j - 1 \in 1..(n - 1) /\ g[j] = s[j - 1] /\ g[j] \in D \ {l}
      BY <2>0, <2>4, <2>5, <2>7
    <3>2. CASE i = 1
      <4>1. rank(l) <= rank(g[j]) /\ rank(l) # rank(g[j])
        BY <1>5, <2>2, <3>1
      <4>2. rank(l) < rank(g[j])
        BY <1>4, <3>1, <4>1
      <4> QED BY <1>3, <2>6, <3>1, <3>2, <4>2
    <3>3. CASE i # 1
      <4>1. i - 1 \in 1..(n - 1) /\ i - 1 < j - 1 /\ g[i] = s[i - 1]
        BY <2>0, <2>5, <2>7, <3>3
      <4> QED BY <2>4, <3>1, <4>1
    <3> QED BY <3>2, <3>3
  <2>8. Sorts(g, n)
    BY <2>7
  <2> HIDE DEF g, Sorts
  <2> QED BY <2>6, <2>8
<1>8. \E s \in [1..N -> C] : Sorts(s, N)
  <2>1. N \in Nat
    BY <1>1
  <2> HIDE DEF T, N, Sorts
  <2>2. N \in T
    BY <1>6, <1>7, <2>1, UpTo
  <2> QED BY <2>2 DEF T, N
<1>9. sorted(C) \in [1..N -> C] /\ Sorts(sorted(C), N)
  BY <1>8 DEF sorted
<1>10. ASSUME NEW k \in 1..N, NEW m \in 1..N, sorted(C)[k] = sorted(C)[m] PROVE k = m
  <2>1. sorted(C)[k] \in SatLiterals /\ sorted(C)[m] \in SatLiterals
    BY <1>9
  <2>2. ~(k < m) /\ ~(m < k)
    BY <1>2, <1>9, <1>10, <2>1 DEF before, var
  <2> QED BY <1>1, <2>2
<1>11. \A l \in C : \E k \in 1..N : sorted(C)[k] = l
  <2>1. sorted(C) \in Injection(1..N, C)
    BY <1>9, <1>10 DEF Injection, IsInjective
  <2>2. IsFiniteSet(C) /\ N \in Nat /\ IsFiniteSet(1..N) /\ Cardinality(1..N) = N
    BY <1>1, FS_Interval
  <2>3. sorted(C) \in Surjection(1..N, C)
    BY <2>1, <2>2, FS_Injection
  <2> QED BY <2>3 DEF Surjection
<1> QED BY <1>1, <1>9, <1>10, <1>11

--------------------------------------------------------------------------------
(***************************************************************************)
(* Reasons.                                                                *)
(***************************************************************************)
SearchOK == GlucoseTypeOK /\ DatabaseInv /\ TrailInv /\ ReasonsImply /\ DecisionsInv

\* The antecedents of a literal are the other literals of its reason, and false before.
LEMMA Antecedents ==
    ASSUME SearchOK, NEW i \in DOMAIN trail, levelAt(i) > 0, trail[i].reason # {}
    PROVE  LET C == trail[i].reason
               l == trail[i].lit
           IN  /\ C \in DOMAIN database /\ l \in C /\ antecedents(C, l) = C \ {l}
               /\ \A q \in C \ {l} : \E j \in 1..(i - 1) : j \in DOMAIN trail /\ trail[j].lit = -q /\ place(q) = j
<1> DEFINE C == trail[i].reason
           l == trail[i].lit
<1>1. /\ C \in DOMAIN database /\ l \in C
      /\ Cardinality(C) > 2 => database[C].lits[1] = l
      /\ \A q \in C \ {l} : \E j \in 1..i - 1 : trail[j].lit = -q
  BY DEF SearchOK, ReasonsImply
<1>2. /\ DOMAIN trail = 1..Len(trail) /\ Len(trail) \in Nat
      /\ C \subseteq SatLiterals /\ Cardinality(C) \in Nat /\ Cardinality(C) >= 2
      /\ \A k \in 1..Cardinality(C) : database[C].lits[k] \in C
      /\ \A q \in C : \E k \in 1..Cardinality(C) : database[C].lits[k] = q
      /\ \A k, m \in 1..Cardinality(C) : database[C].lits[k] = database[C].lits[m] => k = m
  <2> HIDE DEF C
  <2> QED BY <1>1, ClauseFacts, TrailFacts DEF SearchOK
<1>3. ASSUME NEW q \in C \ {l}
      PROVE  \E j \in 1..(i - 1) : j \in DOMAIN trail /\ trail[j].lit = -q /\ place(q) = j
  <2>1. PICK j \in 1..(i - 1) : trail[j].lit = -q
    BY <1>1
  <2>2. j \in DOMAIN trail
    BY <1>2
  <2>3. q \in Int /\ -(-q) = q
    BY <1>2, LiteralFacts
  <2>4. place(q) = j
    BY <2>1, <2>2, <2>3, TrailFacts DEF SearchOK
  <2> QED BY <2>1, <2>2, <2>4
<1>4. antecedents(C, l) = C \ {l}
  <2>1. CASE Cardinality(C) = 2
    BY <2>1 DEF antecedents
  <2>2. CASE Cardinality(C) # 2
    <3>1. antecedents(C, l) = {database[C].lits[k] : k \in 2..Cardinality(C)}
      BY <2>2 DEF antecedents
    <3>2. database[C].lits[1] = l /\ 1 \in 1..Cardinality(C)
      BY <1>1, <1>2, <2>2
    <3>3. ASSUME NEW k \in 2..Cardinality(C) PROVE database[C].lits[k] \in C \ {l}
      <4>1. k \in 1..Cardinality(C) /\ k # 1
        BY <1>2
      <4> QED BY <1>2, <3>2, <4>1
    <3>4. ASSUME NEW q \in C \ {l} PROVE \E k \in 2..Cardinality(C) : database[C].lits[k] = q
      <4>1. PICK k \in 1..Cardinality(C) : database[C].lits[k] = q
        BY <1>2
      <4>2. k # 1
        BY <3>2, <4>1
      <4> QED BY <1>2, <4>1, <4>2
    <3> QED BY <3>1, <3>3, <3>4
  <2> QED BY <2>1, <2>2
<1> QED BY <1>1, <1>3, <1>4

--------------------------------------------------------------------------------
(***************************************************************************)
(* Steps: some entries of the trail stay and one may be added.             *)
(***************************************************************************)
\* The first n entries stay, with their levels, and those of the levels that are left are
\* among them.
Kept(n) ==
    /\ n \in 0..Len(trail) /\ trail' \in Seq(Entries) /\ Len(trail') \in n..(n + 1)
    /\ trail_lim' \in Seq(Nat) /\ Ascending(trail_lim')
    /\ \A i \in 1..n : trail'[i] = trail[i] /\ levelAt(i)' = levelAt(i)
    /\ \A i \in DOMAIN trail : levelAt(i) <= decisionLevel' => i <= n
    /\ \A k \in DOMAIN trail_lim' : k <= decisionLevel => trail_lim'[k] = trail_lim[k]

\* The trail, or with an entry more.
Grown(t) ==
    \/ trail' = t
    \/ \E l \in SatLiterals, C \in SUBSET SatLiterals : trail' = enqueue(t, l, C)

LEMMA GrownFacts ==
    ASSUME NEW t \in Seq(Entries), Grown(t)
    PROVE  trail' \in Seq(Entries) /\ Len(trail') \in Len(t)..(Len(t) + 1) /\ \A i \in 1..Len(t) : trail'[i] = t[i]
<1>1. CASE trail' = t
  BY <1>1, LenProperties
<1>2. CASE \E l \in SatLiterals, C \in SUBSET SatLiterals : trail' = enqueue(t, l, C)
  <2>1. PICK l \in SatLiterals, C \in SUBSET SatLiterals : trail' = enqueue(t, l, C)
    BY <1>2
  <2> QED BY <2>1, EnqueueFacts
<1> QED BY <1>1, <1>2 DEF Grown

LEMMA KeptHere ==
    ASSUME GlucoseTypeOK, TrailInv, Grown(trail), trail_lim' = trail_lim
    PROVE  Kept(Len(trail)) /\ decisionLevel' = decisionLevel
<1>1. /\ trail \in Seq(Entries) /\ trail_lim \in Seq(Nat) /\ Ascending(trail_lim)
      /\ DOMAIN trail = 1..Len(trail) /\ Len(trail) \in Nat
  BY TrailFacts DEF GlucoseTypeOK
<1>2. \A i \in Nat : levelAt(i)' = levelAt(i)
  BY DEF levelAt
<1>3. decisionLevel' = decisionLevel
  BY DEF decisionLevel
<1> QED BY <1>1, <1>2, <1>3, GrownFacts DEF Kept

LEMMA KeptCut ==
    ASSUME GlucoseTypeOK, TrailInv, NEW lv \in Nat, levelsCut(lv), Grown(trailUntil(lv))
    PROVE  Kept(keptLength(lv)) /\ decisionLevel' = keptLevels(lv)
<1>1. /\ trail_lim' \in Seq(Nat) /\ Ascending(trail_lim') /\ decisionLevel' = keptLevels(lv)
      /\ \A k \in 1..keptLevels(lv) : trail_lim'[k] = trail_lim[k]
      /\ DOMAIN trail_lim' = 1..keptLevels(lv)
      /\ \A i \in DOMAIN trail : i <= keptLength(lv) => levelAt(i)' = levelAt(i)
  BY CancelFacts
<1>2. /\ keptLength(lv) \in 0..Len(trail) /\ keptLevels(lv) \in 0..decisionLevel /\ keptLevels(lv) <= lv
      /\ trailUntil(lv) \in Seq(Entries) /\ Len(trailUntil(lv)) = keptLength(lv)
      /\ \A i \in 1..keptLength(lv) : trailUntil(lv)[i] = trail[i]
      /\ \A i \in DOMAIN trail : i <= keptLength(lv) <=> levelAt(i) <= lv
  BY TrailUntilFacts
<1>3. DOMAIN trail = 1..Len(trail) /\ Len(trail) \in Nat /\ decisionLevel \in Nat
  BY TrailFacts
<1>4. \A i \in DOMAIN trail : levelAt(i) \in Nat
  BY <1>3, AtLevel
<1>5. \A i \in DOMAIN trail : levelAt(i) <= decisionLevel' => i <= keptLength(lv)
  BY <1>1, <1>2, <1>3, <1>4
<1>6. \A i \in 1..keptLength(lv) : i \in DOMAIN trail /\ i <= keptLength(lv)
  BY <1>2, <1>3
<1>7. trail' \in Seq(Entries) /\ Len(trail') \in keptLength(lv)..(keptLength(lv) + 1)
      /\ \A i \in 1..keptLength(lv) : trail'[i] = trail[i]
  BY <1>2, GrownFacts
<1> QED BY <1>1, <1>2, <1>5, <1>6, <1>7 DEF Kept

LEMMA KeptDescend ==
    ASSUME GlucoseTypeOK, TrailInv, Grown(trail), trail_lim' = Append(trail_lim, Len(trail))
    PROVE  /\ Kept(Len(trail)) /\ decisionLevel' = decisionLevel + 1
           /\ trail_lim'[decisionLevel + 1] = Len(trail)
           /\ \A i \in Nat : i > Len(trail) => levelAt(i)' = decisionLevel + 1
<1>1. /\ trail \in Seq(Entries) /\ trail_lim \in Seq(Nat) /\ Ascending(trail_lim) /\ qhead \in 0..Len(trail)
      /\ DOMAIN trail = 1..Len(trail) /\ Len(trail) \in Nat /\ DOMAIN trail_lim = 1..decisionLevel
      /\ decisionLevel = Len(trail_lim) /\ decisionLevel \in Nat
      /\ \A k \in 1..decisionLevel : trail_lim[k] \in Nat /\ trail_lim[k] <= qhead
  BY TrailFacts DEF GlucoseTypeOK, TrailInv, decisionLevel
<1>2. \A k \in DOMAIN trail_lim : trail_lim[k] <= Len(trail)
  BY <1>1
<1>3. /\ trail_lim' \in Seq(Nat) /\ Len(trail_lim') = Len(trail_lim) + 1 /\ Ascending(trail_lim')
      /\ \A k \in 1..Len(trail_lim) : trail_lim'[k] = trail_lim[k]
      /\ trail_lim'[Len(trail_lim) + 1] = Len(trail)
      /\ \A i \in Nat : LevelIn(trail_lim', i) = IF i <= Len(trail) THEN LevelIn(trail_lim, i) ELSE Len(trail_lim) + 1
  BY <1>1, <1>2, LevelOfPush
<1>4. DOMAIN trail_lim' = 1..(decisionLevel + 1) /\ decisionLevel' = decisionLevel + 1
  BY <1>1, <1>3, LenProperties DEF decisionLevel
<1>5. \A i \in Nat : levelAt(i)' = IF i <= Len(trail) THEN levelAt(i) ELSE decisionLevel + 1
  BY <1>1, <1>3 DEF levelAt, LevelIn
<1>6. trail' \in Seq(Entries) /\ Len(trail') \in Len(trail)..(Len(trail) + 1)
      /\ \A i \in 1..Len(trail) : trail'[i] = trail[i]
  BY <1>1, GrownFacts
<1>7. \A i \in Nat : i > Len(trail) => levelAt(i)' = decisionLevel + 1
  BY <1>1, <1>5
<1>8. Kept(Len(trail))
  BY <1>1, <1>3, <1>4, <1>5, <1>6 DEF Kept
<1> QED BY <1>1, <1>3, <1>4, <1>7, <1>8

LEMMA KeptFacts ==
    ASSUME GlucoseTypeOK, TrailInv, NEW n, Kept(n)
    PROVE  /\ n \in Nat /\ n <= Len(trail) /\ DOMAIN trail = 1..Len(trail) /\ Len(trail) \in Nat
           /\ DOMAIN trail' = 1..Len(trail') /\ Len(trail') \in Nat /\ Len(trail') \in n..(n + 1)
           /\ DOMAIN trail_lim' = 1..decisionLevel' /\ decisionLevel' \in Nat /\ decisionLevel \in Nat
           /\ \A k \in 1..decisionLevel' : trail_lim'[k] \in Nat
           /\ \A i \in 1..n : /\ i \in DOMAIN trail /\ i \in DOMAIN trail'
                              /\ trail'[i] = trail[i] /\ levelAt(i)' = levelAt(i)
           /\ \A i \in DOMAIN trail' : i \in 1..n \/ i = n + 1
           /\ \A i \in Nat : /\ levelAt(i)' \in 0..decisionLevel' /\ levelAt(i) \in 0..decisionLevel
                             /\ \A k \in 1..decisionLevel' : trail_lim'[k] < i <=> k <= levelAt(i)'
           /\ \A i \in DOMAIN trail, j \in 1..n : levelAt(i) <= levelAt(j) => i \in 1..n
<1>1. /\ n \in Nat /\ n <= Len(trail) /\ DOMAIN trail = 1..Len(trail) /\ Len(trail) \in Nat
      /\ Len(trail') \in n..(n + 1) /\ decisionLevel \in Nat
  BY TrailFacts DEF Kept
<1>2. DOMAIN trail' = 1..Len(trail') /\ Len(trail') \in Nat
  BY LenProperties DEF Kept
<1>3. DOMAIN trail_lim' = 1..decisionLevel' /\ decisionLevel' \in Nat
  BY LenProperties DEF Kept, decisionLevel
<1>4. \A k \in 1..decisionLevel' : trail_lim'[k] \in Nat
  BY ElementOfSeq DEF Kept, decisionLevel
<1>5. ASSUME NEW i \in 1..n
      PROVE  i \in DOMAIN trail /\ i \in DOMAIN trail' /\ trail'[i] = trail[i] /\ levelAt(i)' = levelAt(i)
  BY <1>1, <1>2 DEF Kept
<1>6. \A i \in DOMAIN trail' : i \in 1..n \/ i = n + 1
  BY <1>1, <1>2
<1>7. ASSUME NEW i \in Nat
      PROVE  /\ levelAt(i)' \in 0..decisionLevel' /\ levelAt(i) \in 0..decisionLevel
             /\ \A k \in 1..decisionLevel' : trail_lim'[k] < i <=> k <= levelAt(i)'
  <2>1. levelAt(i)' = LevelIn(trail_lim', i) /\ decisionLevel' = Len(trail_lim')
    BY DEF levelAt, LevelIn, decisionLevel
  <2>2. trail_lim' \in Seq(Nat) /\ Ascending(trail_lim')
    BY DEF Kept
  <2>3. /\ LevelIn(trail_lim', i) \in 0..Len(trail_lim')
        /\ \A k \in 1..Len(trail_lim') : trail_lim'[k] < i <=> k <= LevelIn(trail_lim', i)
    BY <2>2, LevelFacts
  <2> QED BY <2>1, <2>3, AtLevel
<1>8. ASSUME NEW i \in DOMAIN trail, NEW j \in 1..n, levelAt(i) <= levelAt(j) PROVE i \in 1..n
  <2>0. i \in Nat /\ j \in Nat
    BY <1>1
  <2>1. levelAt(j)' = levelAt(j) /\ levelAt(j)' \in 0..decisionLevel' /\ levelAt(i) \in Nat
    <3>1. levelAt(j)' \in 0..decisionLevel'
      BY <1>7, <2>0
    <3>2. levelAt(i) \in 0..decisionLevel
      BY <1>7, <2>0
    <3>3. levelAt(j)' = levelAt(j)
      BY <1>5
    <3>4. levelAt(i) \in Nat
      BY <3>2
    <3> QED BY <3>1, <3>3, <3>4
  <2>2. levelAt(i) <= decisionLevel'
    BY <1>3, <1>8, <2>1
  <2>3. i <= n
    BY <2>2 DEF Kept
  <2> QED BY <1>1, <2>3
<1> QED BY <1>1, <1>2, <1>3, <1>4, <1>5, <1>6, <1>7, <1>8

\* The variable of an entry added is not assigned by those that stay.
Fresh(n) == \A i \in DOMAIN trail' : i > n => \A j \in 1..n : var(trail'[i].lit) # var(trail[j].lit)

LEMMA KeptTrail ==
    ASSUME GlucoseTypeOK, TrailInv, NEW n, Kept(n), Fresh(n), \A k \in DOMAIN trail_lim' : trail_lim'[k] <= qhead'
    PROVE  TrailInv'
<1>1. ASSUME NEW i \in DOMAIN trail', NEW j \in DOMAIN trail', var(trail'[i].lit) = var(trail'[j].lit)
      PROVE  i = j
  <2>1. CASE i \in 1..n /\ j \in 1..n
    <3>1. /\ i \in DOMAIN trail /\ j \in DOMAIN trail
          /\ trail'[i] = trail[i] /\ trail'[j] = trail[j]
      BY <2>1, KeptFacts
    <3> QED BY <1>1, <3>1 DEF TrailInv
  <2>2. CASE i = n + 1 /\ j \in 1..n
    <3>1. i > n /\ trail'[j] = trail[j]
      BY <2>2, KeptFacts
    <3> QED BY <1>1, <2>2, <3>1 DEF Fresh
  <2>3. CASE j = n + 1 /\ i \in 1..n
    <3>1. j > n /\ trail'[i] = trail[i]
      BY <2>3, KeptFacts
    <3> QED BY <1>1, <2>3, <3>1 DEF Fresh
  <2> QED BY <2>1, <2>2, <2>3, KeptFacts
<1>2. \A k, m \in DOMAIN trail_lim' : k <= m => trail_lim'[k] <= trail_lim'[m]
  BY DEF Kept, Ascending
<1> QED BY <1>1, <1>2 DEF TrailInv

LEMMA KeptDecisions ==
    ASSUME GlucoseTypeOK, TrailInv, DecisionsInv, NEW n, Kept(n),
           \A i \in DOMAIN trail' : i > n /\ levelAt(i)' > 0 /\ trail'[i].reason = {} => (i = trail_lim[levelAt(i)] + 1)'
    PROVE  DecisionsInv'
<1> SUFFICES ASSUME NEW i \in DOMAIN trail', levelAt(i)' > 0, trail'[i].reason = {}
             PROVE  (i = trail_lim[levelAt(i)] + 1)'
  BY DEF DecisionsInv
<1>1. CASE i \in 1..n
  <2>1. /\ i \in DOMAIN trail /\ trail'[i] = trail[i] /\ levelAt(i)' = levelAt(i) /\ i \in Nat
        /\ levelAt(i) \in 0..decisionLevel /\ levelAt(i)' \in 0..decisionLevel'
    BY <1>1, KeptFacts
  <2>2. i = trail_lim[levelAt(i)] + 1
    BY <2>1 DEF DecisionsInv
  <2>3. levelAt(i) \in DOMAIN trail_lim' /\ levelAt(i) <= decisionLevel
    BY <2>1, KeptFacts
  <2>4. trail_lim'[levelAt(i)] = trail_lim[levelAt(i)]
    BY <2>3 DEF Kept
  <2> QED BY <2>1, <2>2, <2>4
<1>2. CASE i = n + 1
  <2>1. i > n
    BY <1>2, KeptFacts
  <2> QED BY <2>1
<1> QED BY <1>1, <1>2, KeptFacts

\* The reasons of the first n entries stay, and their first literals.
ReasonsStay(n) ==
    \A i \in 1..n : levelAt(i) > 0 /\ trail[i].reason # {} =>
        LET C == trail[i].reason
        IN  C \in DOMAIN database' /\ (Cardinality(C) > 2 => database'[C].lits[1] = database[C].lits[1])

\* An entry added is implied by its reason.
ReasonOfNew(n) ==
    \A i \in DOMAIN trail' : i > n /\ levelAt(i)' > 0 /\ trail'[i].reason # {} =>
        LET C == trail'[i].reason
        IN  /\ C \in DOMAIN database' /\ trail'[i].lit \in C
            /\ Cardinality(C) > 2 => database'[C].lits[1] = trail'[i].lit
            /\ \A l \in C \ {trail'[i].lit} : \E j \in 1..n : trail[j].lit = -l

LEMMA KeptReasons ==
    ASSUME GlucoseTypeOK, TrailInv, ReasonsImply, NEW n, Kept(n), ReasonsStay(n), ReasonOfNew(n)
    PROVE  ReasonsImply'
<1> SUFFICES ASSUME NEW i \in DOMAIN trail', levelAt(i)' > 0, trail'[i].reason # {}
             PROVE  LET C == trail'[i].reason
                    IN  /\ C \in DOMAIN database' /\ trail'[i].lit \in C
                        /\ Cardinality(C) > 2 => database'[C].lits[1] = trail'[i].lit
                        /\ \A l \in C \ {trail'[i].lit} : \E j \in 1..i - 1 : trail'[j].lit = -l
  BY DEF ReasonsImply
<1> DEFINE C == trail'[i].reason
<1>1. CASE i \in 1..n
  <2>1. i \in DOMAIN trail /\ trail'[i] = trail[i] /\ levelAt(i) > 0 /\ trail[i].reason = C /\ C # {}
    BY <1>1, KeptFacts
  <2> HIDE DEF C
  <2>2. /\ C \in DOMAIN database /\ trail[i].lit \in C
        /\ Cardinality(C) > 2 => database[C].lits[1] = trail[i].lit
        /\ \A l \in C \ {trail[i].lit} : \E j \in 1..i - 1 : trail[j].lit = -l
    BY <2>1 DEF ReasonsImply
  <2>3. C \in DOMAIN database' /\ (Cardinality(C) > 2 => database'[C].lits[1] = database[C].lits[1])
    BY <1>1, <2>1 DEF ReasonsStay
  <2>4. \A j \in 1..i - 1 : trail'[j] = trail[j]
    <3>1. \A j \in 1..i - 1 : j \in 1..n
      BY <1>1, KeptFacts
    <3> QED BY <3>1, KeptFacts
  <2>5. \A l \in C \ {trail'[i].lit} : \E j \in 1..i - 1 : trail'[j].lit = -l
    BY <2>1, <2>2, <2>4
  <2> QED BY <2>1, <2>2, <2>3, <2>5 DEF C
<1>2. CASE i = n + 1
  <2>1. i > n /\ i - 1 = n
    BY <1>2, KeptFacts
  <2>2. /\ C \in DOMAIN database' /\ trail'[i].lit \in C
        /\ Cardinality(C) > 2 => database'[C].lits[1] = trail'[i].lit
        /\ \A l \in C \ {trail'[i].lit} : \E j \in 1..n : trail[j].lit = -l
    BY <2>1 DEF ReasonOfNew
  <2>3. \A j \in 1..n : trail'[j] = trail[j]
    BY KeptFacts
  <2> QED BY <2>1, <2>2, <2>3
<1> QED BY <1>1, <1>2, KeptFacts

\* The true literal that makes up for a false one stays.
LEMMA KeptWatch ==
    ASSUME GlucoseTypeOK, TrailInv, WatchInv, ok, NEW n, Kept(n),
           NEW C \in DOMAIN database, NEW j \in 1..n, -trail[j].lit \in watched(C), Seen(j, C)
    PROVE  \E i \in DOMAIN trail' : trail'[i].lit \in C /\ levelAt(i)' <= levelAt(j)'
<1>1. j \in DOMAIN trail /\ levelAt(j)' = levelAt(j)
  BY KeptFacts
<1>2. PICK i \in DOMAIN trail : trail[i].lit \in C /\ levelAt(i) <= levelAt(j)
  BY <1>1 DEF WatchInv
<1>3. i \in 1..n
  BY <1>2, KeptFacts
<1>4. i \in DOMAIN trail' /\ trail'[i] = trail[i] /\ levelAt(i)' = levelAt(i)
  BY <1>3, KeptFacts
<1> QED BY <1>1, <1>2, <1>4

LEMMA KeptRoot ==
    ASSUME GlucoseTypeOK, TrailInv, NEW n, Kept(n)
    PROVE  /\ Root \subseteq Root'
           /\ \A l \in Root' \ Root : \E i \in DOMAIN trail' : i > n /\ levelAt(i)' = 0 /\ trail'[i].lit = l
<1>1. ASSUME NEW i \in DOMAIN trail, levelAt(i) = 0 PROVE trail[i].lit \in Root'
  <2>1. i <= n
    <3>1. 0 <= decisionLevel'
      BY KeptFacts
    <3> QED BY <1>1, <3>1 DEF Kept
  <2>2. i \in 1..n
    <3>1. n \in Nat /\ DOMAIN trail = 1..Len(trail) /\ Len(trail) \in Nat
      BY KeptFacts
    <3> QED BY <2>1, <3>1
  <2>3. i \in DOMAIN trail' /\ trail'[i] = trail[i] /\ levelAt(i)' = 0
    BY <1>1, <2>2, KeptFacts
  <2> QED BY <2>3 DEF Root
<1>2. ASSUME NEW i \in DOMAIN trail', levelAt(i)' = 0, trail'[i].lit \notin Root PROVE i > n
  <2>1. CASE i \in 1..n
    <3>1. i \in DOMAIN trail /\ trail'[i] = trail[i] /\ levelAt(i) = 0
      BY <1>2, <2>1, KeptFacts
    <3> QED BY <1>2, <3>1 DEF Root
  <2>2. CASE i = n + 1
    <3>1. n \in Nat
      BY KeptFacts
    <3> QED BY <2>2, <3>1
  <2> QED BY <2>1, <2>2, KeptFacts
<1>3. Root \subseteq Root'
  BY <1>1 DEF Root
<1>4. ASSUME NEW l \in Root', l \notin Root PROVE \E i \in DOMAIN trail' : i > n /\ levelAt(i)' = 0 /\ trail'[i].lit = l
  <2>1. PICK i \in DOMAIN trail' : levelAt(i)' = 0 /\ trail'[i].lit = l
    BY DEF Root
  <2> QED BY <1>2, <1>4, <2>1
<1> QED BY <1>3, <1>4

LEMMA KeptAssumptions ==
    ASSUME GlucoseTypeOK, TrailInv, AssumptionsInv, NEW n, Kept(n), assumptions' = assumptions,
           \A i \in DOMAIN trail' :
               i > n /\ levelAt(i)' \in 1..Len(assumptions) /\ trail'[i].reason = {} => trail'[i].lit \in range(assumptions),
           \A k \in DOMAIN assumptions : k > decisionLevel /\ k <= decisionLevel' =>
               \E i \in DOMAIN trail' : trail'[i].lit = assumptions[k] /\ levelAt(i)' <= k
    PROVE  AssumptionsInv'
<1>1. ASSUME NEW i \in DOMAIN trail', levelAt(i)' \in 1..Len(assumptions), trail'[i].reason = {}
      PROVE  trail'[i].lit \in range(assumptions)
  <2>1. CASE i \in 1..n
    <3>1. i \in DOMAIN trail /\ trail'[i] = trail[i] /\ levelAt(i)' = levelAt(i)
      BY <2>1, KeptFacts
    <3> QED BY <1>1, <3>1 DEF AssumptionsInv
  <2>2. CASE i = n + 1
    <3>1. i > n
      BY <2>2, KeptFacts
    <3> QED BY <1>1, <3>1
  <2> QED BY <2>1, <2>2, KeptFacts
<1>2. ASSUME NEW k \in DOMAIN assumptions, k <= decisionLevel'
      PROVE  \E i \in DOMAIN trail' : trail'[i].lit = assumptions[k] /\ levelAt(i)' <= k
  <2>0. k \in Nat
    BY LenProperties DEF GlucoseTypeOK
  <2>1. CASE k <= decisionLevel
    <3>1. PICK i \in DOMAIN trail : trail[i].lit = assumptions[k] /\ levelAt(i) <= k
      BY <2>1 DEF AssumptionsInv
    <3>2. levelAt(i) \in Nat /\ decisionLevel' \in Nat
      BY KeptFacts
    <3>3. levelAt(i) <= decisionLevel'
      BY <1>2, <2>0, <3>1, <3>2
    <3>4. i \in 1..n
      BY <3>3, KeptFacts DEF Kept
    <3>5. i \in DOMAIN trail' /\ trail'[i] = trail[i] /\ levelAt(i)' = levelAt(i)
      BY <3>4, KeptFacts
    <3> QED BY <3>1, <3>5
  <2>2. CASE ~(k <= decisionLevel)
    <3>1. decisionLevel \in Nat
      BY KeptFacts
    <3>2. k > decisionLevel
      BY <2>0, <2>2, <3>1
    <3> QED BY <1>2, <3>2
  <2> QED BY <2>1, <2>2
<1> QED BY <1>1, <1>2 DEF AssumptionsInv

LEMMA KeptWorlds ==
    ASSUME WorldsInv, ok, ok', added' = added, Root \subseteq Root',
           \A W \in worlds : Satisfies(W, DOMAIN database) /\ Root \subseteq W =>
               Satisfies(W, DOMAIN database') /\ Root' \subseteq W,
           \A W \in worlds : Satisfies(W, Given') /\ Root' \subseteq W => Satisfies(W, Given)
    PROVE  WorldsInv'
<1> SUFFICES ASSUME NEW W \in worlds
             PROVE  /\ Satisfies(W, added) => Satisfies(W, DOMAIN database') /\ Root' \subseteq W
                    /\ Satisfies(W, Given') /\ Root' \subseteq W => Satisfies(W, added)
  BY DEF WorldsInv, Satisfies, worlds
<1>1. /\ Satisfies(W, added) => Satisfies(W, DOMAIN database) /\ Root \subseteq W
      /\ Satisfies(W, Given) /\ Root \subseteq W => Satisfies(W, added)
  BY DEF WorldsInv
<1> QED BY <1>1

\* A variable is free if it was, or if its entry goes.
LEMMA KeptUndef ==
    ASSUME GlucoseTypeOK, TrailInv, NEW n, Kept(n), NEW v \in SatVariables, isUndef(v)'
    PROVE  isUndef(v) \/ \E i \in DOMAIN trail : i > n /\ var(trail[i].lit) = v
<1> SUFFICES ASSUME ~isUndef(v) PROVE \E i \in DOMAIN trail : i > n /\ var(trail[i].lit) = v
  OBVIOUS
<1>1. v \in SatLiterals
  BY DEF SatLiterals
<1>2. PICK i \in DOMAIN trail : trail[i].lit = v \/ trail[i].lit = -v
  BY DEF isUndef, isTrue, isFalse, true_literals
<1>3. var(trail[i].lit) = v
  <2>1. v \in Nat /\ v > 0
    BY GlucoseAssumption
  <2> QED BY <1>2, <2>1 DEF var
<1>4. i > n
  <2> SUFFICES ASSUME ~(i > n) PROVE FALSE
    OBVIOUS
  <2>0. n \in Nat /\ DOMAIN trail = 1..Len(trail) /\ Len(trail) \in Nat
    BY KeptFacts
  <2>1. i \in 1..n
    BY <2>0
  <2>2. i \in DOMAIN trail' /\ trail'[i] = trail[i]
    BY <2>1, KeptFacts
  <2> QED BY <1>2, <2>2 DEF isUndef, isTrue, isFalse, true_literals
<1> QED BY <1>3, <1>4

LEMMA KeptVariables ==
    ASSUME GlucoseTypeOK, TrailInv, VariablesInv, NEW n, Kept(n),
           max_var' = max_var, assumptions' = assumptions,
           \A i \in DOMAIN trail' : i > n => var(trail'[i].lit) <= max_var,
           \A C \in DOMAIN database' : C \in DOMAIN database \/ \A l \in C : var(l) <= max_var,
           order_heap' \subseteq upTo(max_var),
           \A v \in upTo(max_var) : isUndef(v)' => v \in order_heap'
    PROVE  VariablesInv'
<1>1. \A i \in DOMAIN trail' : var(trail'[i].lit) <= max_var
  <2> SUFFICES ASSUME NEW i \in DOMAIN trail' PROVE var(trail'[i].lit) <= max_var
    OBVIOUS
  <2>1. CASE i \in 1..n
    <3>1. i \in DOMAIN trail /\ trail'[i] = trail[i]
      BY <2>1, KeptFacts
    <3> QED BY <3>1 DEF VariablesInv
  <2>2. CASE i = n + 1
    <3>1. i > n
      BY <2>2, KeptFacts
    <3> QED BY <3>1
  <2> QED BY <2>1, <2>2, KeptFacts
<1>2. \A C \in DOMAIN database' : \A l \in C : var(l) <= max_var
  BY DEF VariablesInv
<1>3. upTo(max_var)' = upTo(max_var)
  BY DEF upTo
<1>4. \A v \in upTo(max_var) : isUndef(v)' => v \in order_heap'
  OBVIOUS
<1>5. (\A l \in range(assumptions) : var(l) <= max_var)'
  BY DEF VariablesInv, range
<1>6. (\A v \in upTo(max_var) : isUndef(v) => v \in order_heap)'
  BY <1>3, <1>4 DEF upTo
<1> QED BY <1>1, <1>2, <1>3, <1>5, <1>6 DEF VariablesInv

--------------------------------------------------------------------------------
(***************************************************************************)
(* Between propagation and decision: clauses may be removed.               *)
(***************************************************************************)
Removes(S) == database' = withoutClauses(S)

LEMMA RemoveStep ==
    ASSUME GlucoseInv, UNCHANGED <<callVars, ok, trail, trail_lim, qhead, visiting, confl>>,
           ok, visiting = {}, pc # "conflict", pc' \in Phases \ {"conflict"}, PhaseInv',
           NEW S \in SUBSET DOMAIN database, Removes(S),
           \A i \in DOMAIN trail : levelAt(i) > 0 => trail[i].reason \notin S,
           \A C \in S : database[C].list = "clauses" => C \cap Root # {},
           order_heap' \subseteq upTo(max_var), \A v \in upTo(max_var) : isUndef(v) => v \in order_heap'
    PROVE  GlucoseInv'
<1> DEFINE n == Len(trail)
<1>1. /\ GlucoseTypeOK /\ DatabaseInv /\ TrailInv /\ PhaseInv /\ VisitInv /\ ConflictInv /\ DecisionsInv
      /\ ReasonsImply /\ WatchInv /\ WorldsInv /\ VariablesInv /\ AssumptionsInv
  BY DEF GlucoseInv
<1>2. /\ trail' = trail /\ trail_lim' = trail_lim /\ qhead' = qhead /\ visiting' = {} /\ confl' = confl /\ ok' = ok
      /\ clause_list' = clause_list /\ nof_added' = nof_added /\ max_var' = max_var /\ assumptions' = assumptions
  BY DEF callVars
<1>3. DOMAIN database' = (DOMAIN database) \ S /\ \A C \in DOMAIN database' : database'[C] = database[C]
  BY DEF Removes, withoutClauses
<1>4. Kept(n)
  BY <1>1, <1>2, KeptHere DEF Grown
<1>5. GlucoseTypeOK'
  <2>1. database' \in [DOMAIN database' -> ClauseData]
    <3>1. \A C \in DOMAIN database' : database[C] \in ClauseData
      BY <1>1, <1>3 DEF GlucoseTypeOK
    <3>2. database' = [C \in (DOMAIN database) \ S |-> database[C]]
      BY DEF Removes, withoutClauses
    <3> QED BY <1>3, <3>1, <3>2
  <2>2. order_heap' \subseteq SatVariables
    BY DEF upTo
  <2>3. DOMAIN database' \subseteq SUBSET SatLiterals
    BY <1>1, <1>3 DEF GlucoseTypeOK
  <2> QED BY <1>1, <1>2, <2>1, <2>2, <2>3 DEF GlucoseTypeOK
<1>6. DatabaseInv'
  BY <1>1, <1>3 DEF DatabaseInv
<1>7. TrailInv'
  BY <1>1, <1>2 DEF TrailInv
<1>8. VisitInv' /\ ConflictInv'
  BY <1>2 DEF VisitInv, ConflictInv
<1>9. DecisionsInv'
  BY <1>1, <1>2 DEF DecisionsInv, levelAt
<1>10. ReasonsImply'
  <2>1. \A i \in 1..n : i \in DOMAIN trail
    BY <1>1, TrailFacts
  <2>2. ASSUME NEW i \in 1..n, levelAt(i) > 0, trail[i].reason # {}
        PROVE  trail[i].reason \in DOMAIN database
    BY <1>1, <2>1, <2>2 DEF ReasonsImply
  <2>3. ReasonsStay(n)
    BY <1>3, <2>1, <2>2 DEF ReasonsStay
  <2>4. ReasonOfNew(n)
    <3>1. \A i \in DOMAIN trail' : ~(i > n)
      BY <1>1, <1>2, TrailFacts
    <3> QED BY <3>1 DEF ReasonOfNew
  <2> QED BY <1>1, <1>4, <2>3, <2>4, KeptReasons
<1>11. WatchInv'
  <2> SUFFICES ASSUME NEW C \in DOMAIN database', NEW j \in DOMAIN trail', (-trail[j].lit \in watched(C))', Seen(j, C)'
               PROVE  \E i \in DOMAIN trail' : trail'[i].lit \in C /\ levelAt(i)' <= levelAt(j)'
    BY DEF WatchInv
  <2>1. C \in DOMAIN database /\ j \in DOMAIN trail /\ -trail[j].lit \in watched(C)
    BY <1>2, <1>3 DEF watched
  <2>2. Seen(j, C)
    BY <1>2 DEF Seen
  <2>3. j \in 1..n
    BY <1>1, <2>1, TrailFacts
  <2> QED BY <1>1, <1>4, <2>1, <2>2, <2>3, KeptWatch
<1>12. WorldsInv'
  <2>1. added' = added /\ Root' = Root
    BY <1>2 DEF added, Root, levelAt
  <2>2. \A W \in worlds : Satisfies(W, DOMAIN database) => Satisfies(W, DOMAIN database')
    BY <1>3 DEF Satisfies
  <2>3. ASSUME NEW W \in worlds, Satisfies(W, Given'), Root' \subseteq W PROVE Satisfies(W, Given)
    <3> SUFFICES ASSUME NEW C \in DOMAIN database, database[C].list = "clauses" PROVE C \cap W # {}
      BY DEF Satisfies, Given
    <3>1. CASE C \in S
      <4>1. C \cap Root # {} /\ Root \subseteq W
        BY <2>1, <2>3, <3>1
      <4> QED BY <4>1
    <3>2. CASE C \notin S
      <4>1. C \in Given'
        BY <1>3, <3>2 DEF Given
      <4> QED BY <2>3, <4>1 DEF Satisfies
    <3> QED BY <3>1, <3>2
  <2> QED BY <1>1, <1>2, <2>1, <2>2, <2>3, KeptWorlds
<1>13. VariablesInv'
  <2>1. \A i \in DOMAIN trail' : ~(i > n)
    BY <1>1, <1>2, TrailFacts
  <2>2. \A v \in SatVariables : isUndef(v)' = isUndef(v)
    BY <1>2 DEF isUndef, isTrue, isFalse, true_literals
  <2>3. \A v \in upTo(max_var) : isUndef(v)' => v \in order_heap'
    BY <2>2 DEF upTo
  <2> QED BY <1>1, <1>2, <1>3, <1>4, <2>1, <2>3, KeptVariables
<1>14. AssumptionsInv'
  BY <1>1, <1>2 DEF AssumptionsInv, levelAt, decisionLevel
<1> QED BY <1>5, <1>6, <1>7, <1>8, <1>9, <1>10, <1>11, <1>12, <1>13, <1>14 DEF GlucoseInv

LEMMA NothingRemoved ==
    ASSUME GlucoseTypeOK, database' = database
    PROVE  Removes({})
BY DEF GlucoseTypeOK, Removes, withoutClauses

LEMMA QuietInv ==
    ASSUME GlucoseInv, PropagationEnds \/ SearchAgain
    PROVE  GlucoseInv'
<1>1. /\ UNCHANGED <<callVars, ok, database, trail, trail_lim, qhead, visiting, confl, order_heap>>
      /\ pc \in {"adding", "searching", "restarted"} /\ pc' \in Phases \ {"conflict"}
      /\ pc \in {"adding", "searching"} => visiting = {} /\ qhead >= Len(trail)
      /\ pc' = "ready" => pc = "adding"
      /\ pc' = "adding" => FALSE
      /\ pc' = "searching" => pc = "restarted"
      /\ pc' = "propagated" => pc = "searching"
      /\ pc' \in {"ready", "propagated", "searching"}
  BY DEF PropagationEnds, SearchAgain, propagating, Phases
<1>2. GlucoseTypeOK /\ PhaseInv /\ VariablesInv /\ DatabaseInv /\ TrailInv
  BY DEF GlucoseInv
<1>3. ok /\ visiting = {}
  BY <1>1, <1>2 DEF PhaseInv
<1>4. PhaseInv'
  <2>1. qhead \in 0..Len(trail) /\ Len(trail) \in Nat
    BY <1>2, TrailFacts DEF GlucoseTypeOK
  <2> QED BY <1>1, <1>2, <1>3, <2>1 DEF PhaseInv
<1>5. Removes({})
  BY <1>1, <1>2, NothingRemoved
<1>6. order_heap' \subseteq upTo(max_var) /\ \A v \in upTo(max_var) : isUndef(v) => v \in order_heap'
  BY <1>1, <1>2 DEF VariablesInv
<1> QED BY <1>1, <1>3, <1>4, <1>5, <1>6, RemoveStep

LEMMA ReduceInv ==
    ASSUME GlucoseInv, ReduceDB
    PROVE  GlucoseInv'
<1>1. /\ UNCHANGED <<callVars, ok, trail, trail_lim, qhead, visiting, confl, order_heap>>
      /\ pc = "simplified" /\ pc' = "choosing"
  BY DEF ReduceDB
<1>2. GlucoseTypeOK /\ PhaseInv /\ VariablesInv
  BY DEF GlucoseInv
<1>3. PICK S \in SUBSET DOMAIN database : Removes(S) /\ S \subseteq Removable
  <2>1. CASE database' = database
    BY <1>2, <2>1, NothingRemoved
  <2>2. CASE \E gone \in SUBSET Removable : database' = withoutClauses(gone)
    BY <2>2 DEF Removes, Removable
  <2> QED BY <2>1, <2>2 DEF ReduceDB
<1>4. /\ \A i \in DOMAIN trail : levelAt(i) > 0 => trail[i].reason \notin S
      /\ \A C \in S : database[C].list = "clauses" => C \cap Root # {}
  BY <1>3 DEF Removable, locked
<1>5. ok /\ visiting = {} /\ PhaseInv' /\ pc' \in Phases \ {"conflict"}
  BY <1>1, <1>2 DEF PhaseInv, Phases
<1>6. order_heap' \subseteq upTo(max_var) /\ \A v \in upTo(max_var) : isUndef(v) => v \in order_heap'
  BY <1>1, <1>2 DEF VariablesInv
<1> QED BY <1>1, <1>3, <1>4, <1>5, <1>6, RemoveStep

LEMMA SimplifyInv ==
    ASSUME GlucoseInv, Simplify
    PROVE  GlucoseInv'
<1>1. /\ UNCHANGED <<callVars, ok, trail, trail_lim, qhead, visiting, confl>>
      /\ pc = "propagated" /\ pc' = "simplified"
  BY DEF Simplify
<1>2. GlucoseTypeOK /\ PhaseInv /\ VariablesInv /\ TrailInv /\ DatabaseInv
  BY DEF GlucoseInv
<1>3. ok /\ visiting = {} /\ PhaseInv' /\ pc' \in Phases \ {"conflict"}
  BY <1>1, <1>2 DEF PhaseInv, Phases
<1>4. CASE UNCHANGED <<database, order_heap>>
  <2>1. Removes({})
    BY <1>2, <1>4, NothingRemoved
  <2>2. order_heap' \subseteq upTo(max_var) /\ \A v \in upTo(max_var) : isUndef(v) => v \in order_heap'
    BY <1>2, <1>4 DEF VariablesInv
  <2> QED BY <1>1, <1>3, <2>1, <2>2, RemoveStep
<1>5. CASE /\ decisionLevel = 0
           /\ database' = withoutClauses({C \in DOMAIN database : satisfied(C)})
           /\ order_heap' = {v \in upTo(max_var) : isUndef(v)}
  <2> DEFINE S == {C \in DOMAIN database : satisfied(C)}
  <2>1. S \in SUBSET DOMAIN database /\ Removes(S)
    BY <1>5 DEF Removes
  <2>2. \A i \in DOMAIN trail : levelAt(i) = 0
    <3>1. \A i \in DOMAIN trail : i \in Nat
      BY <1>2, TrailFacts
    <3>2. \A i \in DOMAIN trail : levelAt(i) \in 0..0
      BY <1>2, <1>5, <3>1, AtLevel
    <3> QED BY <3>2
  <2>3. ASSUME NEW C \in S PROVE C \cap Root # {}
    <3>1. C \in DOMAIN database /\ watched(C) \subseteq C
      BY <1>2, ClauseFacts
    <3>2. PICK l \in watched(C) : isTrue(l)
      BY DEF satisfied, watched
    <3>3. PICK i \in DOMAIN trail : trail[i].lit = l
      BY <3>2 DEF isTrue, true_literals
    <3>4. l \in Root
      BY <2>2, <3>3 DEF Root
    <3> QED BY <3>1, <3>4
  <2>4. order_heap' \subseteq upTo(max_var) /\ \A v \in upTo(max_var) : isUndef(v) => v \in order_heap'
    BY <1>5
  <2> HIDE DEF S
  <2>5. \A i \in DOMAIN trail : ~(levelAt(i) > 0)
    BY <2>2
  <2> QED BY <1>1, <1>3, <2>1, <2>3, <2>4, <2>5, RemoveStep
<1> QED BY <1>4, <1>5 DEF Simplify

--------------------------------------------------------------------------------
(***************************************************************************)
(* Backtracking: restarts, and the end of a call.                          *)
(***************************************************************************)
LEMMA CancelHeap ==
    ASSUME GlucoseTypeOK, TrailInv, VariablesInv, NEW lv \in Nat, cancelUntil(lv), Grown(trailUntil(lv))
    PROVE  /\ order_heap' \subseteq upTo(max_var) /\ levelsCut(lv)
           /\ \A v \in upTo(max_var) : isUndef(v)' => v \in order_heap'
<1> DEFINE n == keptLength(lv)
<1>1. levelsCut(lv)
  BY DEF cancelUntil, levelsCut
<1>2. Kept(n)
  BY <1>1, KeptCut
<1>3. DOMAIN trailUntil(lv) = 1..n
  BY TrailUntilFacts
<1>4. order_heap' = order_heap \cup {var(trail[i].lit) : i \in (DOMAIN trail) \ 1..n}
  BY <1>3 DEF cancelUntil
<1>5. ASSUME NEW i \in DOMAIN trail PROVE var(trail[i].lit) \in upTo(max_var)
  <2>1. var(trail[i].lit) \in SatVariables
    BY TrailFacts, LiteralFacts
  <2> QED BY <2>1 DEF VariablesInv, upTo
<1>6. order_heap' \subseteq upTo(max_var)
  BY <1>4, <1>5 DEF VariablesInv
<1>7. ASSUME NEW v \in upTo(max_var), isUndef(v)' PROVE v \in order_heap'
  <2>1. v \in SatVariables
    BY DEF upTo
  <2>2. isUndef(v) \/ \E i \in DOMAIN trail : i > n /\ var(trail[i].lit) = v
    BY <1>2, <1>7, <2>1, KeptUndef
  <2>3. \A i \in DOMAIN trail : i > n => i \notin 1..n
    BY <1>2, KeptFacts
  <2> QED BY <1>4, <2>2, <2>3 DEF VariablesInv
<1> QED BY <1>1, <1>6, <1>7

\* Clauses keep their literals and blockers, the clauses given their place; others may go.
ClausesKept ==
    /\ DOMAIN database' \subseteq DOMAIN database /\ database' \in [DOMAIN database' -> ClauseData]
    /\ \A C \in DOMAIN database' :
          database'[C].lits = database[C].lits /\ database'[C].blockers = database[C].blockers
    /\ \A C \in Given : C \in DOMAIN database' /\ database'[C].list = "clauses"

LEMMA CutStep ==
    ASSUME GlucoseInv, ok, UNCHANGED callVars, pc \notin {"adding", "searching"},
           NEW lv \in Nat, levelsCut(lv), trail' = trailUntil(lv), visiting' = {},
           ClausesKept, DOMAIN database' # DOMAIN database => lv = 0,
           pc' \in {"ready", "restarted"}, pc' = "ready" => lv = 0, ok' \in BOOLEAN, pc' = "restarted" => ok',
           ok' /\ pc = "conflict" => decisionLevel > lv,
           ~ok' => \A W \in worlds : ~Satisfies(W, added),
           order_heap' \subseteq upTo(max_var), \A v \in upTo(max_var) : isUndef(v)' => v \in order_heap'
    PROVE  GlucoseInv'
<1> DEFINE n == keptLength(lv)
<1>1. /\ GlucoseTypeOK /\ DatabaseInv /\ TrailInv /\ PhaseInv /\ VisitInv /\ ConflictInv /\ DecisionsInv
      /\ ReasonsImply /\ WatchInv /\ WorldsInv /\ VariablesInv /\ AssumptionsInv
  BY DEF GlucoseInv
<1>2. clause_list' = clause_list /\ nof_added' = nof_added /\ max_var' = max_var /\ assumptions' = assumptions
  BY DEF callVars
<1>3. Kept(n) /\ decisionLevel' = keptLevels(lv)
  BY <1>1, KeptCut DEF Grown
<1>4. /\ DOMAIN trail' = 1..n /\ Len(trail') = n /\ n \in 0..Len(trail) /\ Len(trail) \in Nat /\ DOMAIN trail = 1..Len(trail)
      /\ \A i \in 1..n : i \in DOMAIN trail /\ trail'[i] = trail[i] /\ levelAt(i)' = levelAt(i)
      /\ keptLevels(lv) \in Nat /\ keptLevels(lv) <= lv /\ decisionLevel \in Nat
  BY <1>1, <1>3, TrailUntilFacts, TrailFacts, KeptFacts
<1>5. /\ qhead' \in 0..n /\ qhead' <= qhead
      /\ decisionLevel > lv => qhead' = n
      /\ decisionLevel <= lv => qhead' = qhead
  BY <1>1, CancelFacts
<1>6. \A i \in DOMAIN trail' : ~(i > n)
  BY <1>4
<1>7. ok' => qhead' = n
  <2>1. CASE decisionLevel > lv
    BY <1>5, <2>1
  <2>2. CASE ~(decisionLevel > lv) /\ ok'
    <3>1. pc \notin {"conflict", "adding", "searching"}
      BY <2>2
    <3>2. qhead = Len(trail)
      BY <1>1, <3>1 DEF PhaseInv, GlucoseTypeOK, Phases
    <3>3. n = Len(trail)
      BY <2>2 DEF keptLength
    <3> QED BY <1>4, <1>5, <2>2, <3>2, <3>3
  <2> QED BY <2>1, <2>2
<1>8. GlucoseTypeOK'
  <2>1. trail' \in Seq(Entries) /\ trail_lim' \in Seq(Nat)
    BY <1>3 DEF Kept
  <2>2. DOMAIN database' \subseteq SUBSET SatLiterals /\ database' \in [DOMAIN database' -> ClauseData]
    BY <1>1 DEF ClausesKept, GlucoseTypeOK
  <2>3. order_heap' \subseteq SatVariables /\ qhead' \in 0..Len(trail')
    BY <1>4, <1>5 DEF upTo
  <2>4. pc' \in Phases
    BY DEF Phases
  <2> QED BY <1>1, <1>2, <2>1, <2>2, <2>3, <2>4 DEF GlucoseTypeOK
<1>9. DatabaseInv'
  BY <1>1 DEF DatabaseInv, ClausesKept, Lists
<1>10. TrailInv'
  <2>1. Fresh(n)
    BY <1>6 DEF Fresh
  <2>2. \A k \in DOMAIN trail_lim' : trail_lim'[k] <= qhead'
    <3> SUFFICES ASSUME NEW k \in DOMAIN trail_lim' PROVE trail_lim'[k] <= qhead'
      OBVIOUS
    <3>1. k \in 1..keptLevels(lv) /\ trail_lim'[k] = trail_lim[k]
      BY <1>1, CancelFacts
    <3>2. trail_lim[k] <= n /\ k \in DOMAIN trail_lim
      <4>1. trail_lim[k] <= n /\ keptLevels(lv) \in 0..decisionLevel /\ DOMAIN trail_lim = 1..decisionLevel
        BY <1>1, <3>1, TrailUntilFacts, TrailFacts
      <4> QED BY <1>4, <3>1, <4>1
    <3>3. trail_lim[k] <= qhead
      BY <1>1, <3>2 DEF TrailInv
    <3> QED BY <1>4, <1>5, <3>1, <3>2, <3>3
  <2> QED BY <1>1, <1>3, <2>1, <2>2, KeptTrail
<1>11. PhaseInv'
  <2>1. pc' = "ready" => trail_lim' = <<>>
    <3> SUFFICES ASSUME lv = 0 PROVE trail_lim' = <<>>
      OBVIOUS
    <3>1. decisionLevel' = 0
      BY <1>3, <1>4
    <3>2. trail_lim' \in Seq(Nat) /\ Len(trail_lim') = 0
      BY <1>3, <3>1 DEF Kept, decisionLevel
    <3> QED BY <3>2, EmptySeq
  <2> QED BY <1>4, <1>7, <2>1 DEF PhaseInv
<1>12. VisitInv' /\ ConflictInv'
  BY DEF VisitInv, ConflictInv
<1>13. DecisionsInv'
  BY <1>1, <1>3, <1>6, KeptDecisions
<1>14. ReasonsImply'
  <2>1. ReasonsStay(n)
    <3> SUFFICES ASSUME NEW i \in 1..n, levelAt(i) > 0, trail[i].reason # {}
                 PROVE  trail[i].reason \in DOMAIN database'
      BY DEF ReasonsStay, ClausesKept
    <3>1. i \in DOMAIN trail /\ trail[i].reason \in DOMAIN database
      BY <1>1, <1>4 DEF ReasonsImply
    <3>2. levelAt(i) <= lv
      BY <1>1, <1>4, <3>1, TrailUntilFacts
    <3>3. lv # 0
      <4>1. levelAt(i) \in Nat
        BY <1>1, <1>4, <3>1, AtLevel
      <4> QED BY <3>2, <4>1
    <3> QED BY <3>1, <3>3
  <2>2. ReasonOfNew(n)
    BY <1>6 DEF ReasonOfNew
  <2> QED BY <1>1, <1>3, <2>1, <2>2, KeptReasons
<1>15. WatchInv'
  <2> SUFFICES ASSUME ok', NEW C \in DOMAIN database', NEW j \in DOMAIN trail', (-trail[j].lit \in watched(C))',
                      Seen(j, C)'
               PROVE  \E i \in DOMAIN trail' : trail'[i].lit \in C /\ levelAt(i)' <= levelAt(j)'
    BY DEF WatchInv
  <2>1. j \in 1..n /\ j \in DOMAIN trail /\ j \in Nat /\ trail'[j] = trail[j]
    BY <1>4
  <2>2. C \in DOMAIN database /\ -trail[j].lit \in watched(C)
    BY <2>1 DEF watched, ClausesKept
  <2>3. visiting = {}
    BY <1>1 DEF PhaseInv
  <2>4. j <= qhead /\ qhead \in Nat
    <3>1. qhead' = n /\ qhead \in Nat
      BY <1>1, <1>4, <1>7 DEF GlucoseTypeOK
    <3> QED BY <1>4, <1>5, <2>1, <3>1
  <2>5. pc = "conflict" => levelAt(j) < decisionLevel
    <3>1. levelAt(j) <= lv /\ levelAt(j) \in Nat
      BY <1>1, <2>1, TrailUntilFacts, AtLevel
    <3> QED BY <1>4, <3>1
  <2>6. Seen(j, C)
    BY <2>1, <2>3, <2>4, <2>5 DEF Seen
  <2> QED BY <1>1, <1>3, <2>1, <2>2, <2>6, KeptWatch
<1>16. WorldsInv'
  <2>1. added' = added
    BY <1>2 DEF added
  <2>2. CASE ok'
    <3>1. Root' = Root
      BY <1>1, <1>3, <1>6, KeptRoot
    <3>2. \A W \in worlds : Satisfies(W, DOMAIN database) => Satisfies(W, DOMAIN database')
      BY DEF Satisfies, ClausesKept
    <3>3. \A W \in worlds : Satisfies(W, Given') => Satisfies(W, Given)
      BY DEF Satisfies, ClausesKept, Given
    <3> QED BY <1>1, <2>1, <2>2, <3>1, <3>2, <3>3, KeptWorlds
  <2>3. CASE ~ok'
    <3>1. \A W \in worlds : ~Satisfies(W, added')
      BY <2>1, <2>3
    <3> HIDE DEF n
    <3> QED BY <2>3, <3>1 DEF WorldsInv, Satisfies, worlds
  <2> QED BY <2>2, <2>3
<1>17. VariablesInv'
  <2>1. \A C \in DOMAIN database' : C \in DOMAIN database
    BY DEF ClausesKept
  <2> QED BY <1>1, <1>2, <1>3, <1>6, <2>1, KeptVariables
<1>18. AssumptionsInv'
  <2>1. decisionLevel' <= decisionLevel
    BY <1>1, <1>3, TrailUntilFacts, <1>4
  <2>2. \A k \in DOMAIN assumptions : ~(k > decisionLevel /\ k <= decisionLevel')
    <3>1. \A k \in DOMAIN assumptions : k \in Nat
      BY <1>1, LenProperties DEF GlucoseTypeOK
    <3>2. decisionLevel' \in Nat
      BY <1>3, <1>4
    <3> QED BY <1>4, <2>1, <3>1, <3>2
  <2> QED BY <1>1, <1>2, <1>3, <1>6, <2>2, KeptAssumptions
<1> QED BY <1>8, <1>9, <1>10, <1>11, <1>12, <1>13, <1>14, <1>15, <1>16, <1>17, <1>18 DEF GlucoseInv

LEMMA SameClausesKept ==
    ASSUME GlucoseTypeOK, database' = database
    PROVE  ClausesKept /\ DOMAIN database' = DOMAIN database
BY DEF GlucoseTypeOK, ClausesKept, Given

LEMMA RestartInv ==
    ASSUME GlucoseInv, Restart
    PROVE  GlucoseInv'
<1> DEFINE bt == IF decisionLevel < Len(assumptions) THEN decisionLevel ELSE Len(assumptions)
<1>1. GlucoseTypeOK /\ TrailInv /\ PhaseInv /\ VariablesInv
  BY DEF GlucoseInv
<1>2. bt \in Nat
  BY <1>1, TrailFacts, LenProperties DEF GlucoseTypeOK
<1>3. /\ pc = "propagated" /\ pc' = "restarted" /\ cancelUntil(bt) /\ trail' = trailUntil(bt)
      /\ UNCHANGED <<callVars, ok, database, visiting>>
  BY DEF Restart
<1> HIDE DEF bt
<1>4. ok /\ visiting = {} /\ ok \in BOOLEAN
  BY <1>1, <1>3 DEF PhaseInv, GlucoseTypeOK
<1>5. /\ order_heap' \subseteq upTo(max_var) /\ levelsCut(bt)
      /\ \A v \in upTo(max_var) : isUndef(v)' => v \in order_heap'
  BY <1>1, <1>2, <1>3, CancelHeap DEF Grown
<1>6. ClausesKept /\ DOMAIN database' = DOMAIN database
  BY <1>1, <1>3, SameClausesKept
<1> QED BY <1>2, <1>3, <1>4, <1>5, <1>6, CutStep

\* The end of a call.
LEMMA ReturnInv ==
    ASSUME GlucoseInv, NEW status, NEW model, NEW conflict, Return(status, model, conflict),
           pc \in {"restarted", "choosing", "conflict"}, UNCHANGED <<callVars, database>>,
           ok' /\ pc = "conflict" => decisionLevel > 0,
           ~ok' => \A W \in worlds : ~Satisfies(W, added)
    PROVE  GlucoseInv'
<1>1. GlucoseTypeOK /\ TrailInv /\ PhaseInv /\ VariablesInv
  BY DEF GlucoseInv
<1>2. cancelUntil(0) /\ trail' = trailUntil(0) /\ pc' = "ready" /\ visiting' = {} /\ ok' \in BOOLEAN
  BY DEF Return
<1>3. ok
  BY <1>1 DEF PhaseInv
<1>4. /\ order_heap' \subseteq upTo(max_var) /\ levelsCut(0)
      /\ \A v \in upTo(max_var) : isUndef(v)' => v \in order_heap'
  BY <1>1, <1>2, CancelHeap DEF Grown
<1>5. ClausesKept /\ DOMAIN database' = DOMAIN database
  BY <1>1, SameClausesKept
<1>6. 0 \in Nat /\ pc \notin {"adding", "searching"}
  OBVIOUS
<1> QED BY <1>2, <1>3, <1>4, <1>5, <1>6, CutStep

\* At level 0, a conflict is a contradiction.
LEMMA RootConflict ==
    ASSUME GlucoseInv, decisionLevel = 0, NEW C \in DOMAIN database, \A q \in C : isFalse(q)
    PROVE  \A W \in worlds : ~Satisfies(W, added)
<1>1. GlucoseTypeOK /\ TrailInv /\ WorldsInv
  BY DEF GlucoseInv
<1> SUFFICES ASSUME NEW W \in worlds, Satisfies(W, added) PROVE FALSE
  OBVIOUS
<1>2. Satisfies(W, DOMAIN database) /\ Root \subseteq W
  BY <1>1 DEF WorldsInv
<1>3. PICK q \in C : q \in W
  BY <1>2 DEF Satisfies
<1>4. q \in SatLiterals
  BY <1>1 DEF GlucoseTypeOK
<1>5. PICK i \in DOMAIN trail : trail[i].lit = -q
  BY <1>1, <1>4, FalseFacts
<1>6. levelAt(i) = 0
  <2>1. i \in Nat
    BY <1>1, TrailFacts
  <2>2. levelAt(i) \in 0..0
    BY <1>1, <2>1, AtLevel
  <2> QED BY <2>2
<1>7. -q \in W
  BY <1>2, <1>5, <1>6 DEF Root
<1> QED BY <1>3, <1>4, <1>7, WorldFacts

LEMMA ConflictAtRootInv ==
    ASSUME GlucoseInv, ConflictAtRoot
    PROVE  GlucoseInv'
<1>1. /\ pc = "conflict" /\ decisionLevel = 0 /\ Return("unsat", {}, {}) /\ UNCHANGED <<callVars, database>>
  BY DEF ConflictAtRoot
<1>2. ConflictInv
  BY DEF GlucoseInv
<1>3. ~ok'
  BY <1>1 DEF Return
<1>4. confl \in DOMAIN database /\ \A q \in confl : isFalse(q)
  BY <1>1, <1>2 DEF ConflictInv
<1>5. \A W \in worlds : ~Satisfies(W, added)
  BY <1>1, <1>4, RootConflict
<1> QED BY <1>1, <1>3, <1>5, ReturnInv

LEMMA BudgetInv ==
    ASSUME GlucoseInv, BudgetSpent
    PROVE  GlucoseInv'
<1>1. pc = "restarted" /\ Return("undef", {}, {}) /\ UNCHANGED <<callVars, database>>
  BY DEF BudgetSpent
<1>2. ok'
  BY <1>1 DEF Return
<1> QED BY <1>1, <1>2, ReturnInv

LEMMA AssumptionFailsInv ==
    ASSUME GlucoseInv, AssumptionFails
    PROVE  GlucoseInv'
<1>1. /\ pc = "choosing" /\ Return("unsat", {}, finalConflict(assumption)) /\ UNCHANGED <<callVars, database>>
  BY DEF AssumptionFails
<1>2. finalConflict(assumption) # {}
  BY DEF finalConflict
<1>3. ok'
  BY <1>1, <1>2 DEF Return
<1> QED BY <1>1, <1>3, ReturnInv

LEMMA ModelFoundInv ==
    ASSUME GlucoseInv, ModelFound
    PROVE  GlucoseInv'
<1>1. GlucoseTypeOK /\ TrailInv /\ PhaseInv /\ VariablesInv
  BY DEF GlucoseInv
<1>2. /\ pc = "choosing" /\ \A v \in order_heap : ~isUndef(v)
      /\ trail_lim' = <<>> /\ trail' = trailUntil(0)
      /\ qhead' = IF decisionLevel > 0 THEN trail_lim[1] ELSE qhead
      /\ order_heap' = {var(trail[i].lit) : i \in DOMAIN trail \ DOMAIN trailUntil(0)}
      /\ pc' = "ready"
      /\ UNCHANGED <<callVars, ok, database, visiting>>
  BY DEF ModelFound
<1>3. ok /\ visiting = {} /\ ok \in BOOLEAN
  BY <1>1, <1>2 DEF PhaseInv, GlucoseTypeOK
<1>4. levelsCut(0)
  <2>1. (IF decisionLevel > 0 THEN 0 ELSE decisionLevel) = 0 /\ 0 + 1 = 1
    BY <1>1, TrailFacts
  <2>2. SubSeq(trail_lim, 1, 0) = <<>>
    BY <1>1, SubSeqEmpty DEF GlucoseTypeOK
  <2> QED BY <1>2, <2>1, <2>2 DEF levelsCut
<1> DEFINE n == keptLength(0)
<1>5. Kept(n) /\ DOMAIN trailUntil(0) = 1..n
  BY <1>1, <1>2, <1>4, KeptCut, TrailUntilFacts DEF Grown
<1>6. order_heap' \subseteq upTo(max_var)
  <2>1. \A i \in DOMAIN trail : var(trail[i].lit) \in SatVariables
    BY <1>1, TrailFacts, LiteralFacts
  <2> QED BY <1>1, <1>2, <2>1 DEF VariablesInv, upTo
<1>7. ASSUME NEW v \in upTo(max_var), isUndef(v)' PROVE v \in order_heap'
  <2>1. v \in SatVariables /\ ~isUndef(v)
    BY <1>1, <1>2 DEF upTo, VariablesInv
  <2>2. PICK i \in DOMAIN trail : i > n /\ var(trail[i].lit) = v
    BY <1>1, <1>5, <1>7, <2>1, KeptUndef
  <2>3. i \notin 1..n
    BY <1>1, <1>5, <2>2, KeptFacts
  <2> QED BY <1>2, <1>5, <2>2, <2>3
<1>8. ClausesKept /\ DOMAIN database' = DOMAIN database
  BY <1>1, <1>2, SameClausesKept
<1> QED BY <1>2, <1>3, <1>4, <1>6, <1>7, <1>8, CutStep

LEMMA AdaptInv ==
    ASSUME GlucoseInv, AdaptStrategies
    PROVE  GlucoseInv'
<1>1. GlucoseTypeOK /\ TrailInv /\ PhaseInv /\ VariablesInv
  BY DEF GlucoseInv
<1>2. /\ pc = "conflict" /\ decisionLevel > 0 /\ cancelUntil(0) /\ trail' = trailUntil(0)
      /\ pc' = "restarted" /\ UNCHANGED <<callVars, ok, visiting>>
  BY DEF AdaptStrategies
<1>3. ok /\ visiting = {} /\ ok \in BOOLEAN
  BY <1>1, <1>2 DEF PhaseInv, GlucoseTypeOK
<1>4. /\ order_heap' \subseteq upTo(max_var) /\ levelsCut(0)
      /\ \A v \in upTo(max_var) : isUndef(v)' => v \in order_heap'
  BY <1>1, <1>2, CancelHeap DEF Grown
<1>5. ClausesKept
  <2>1. PICK kept \in SUBSET {C \in DOMAIN database : database[C].list = "learnts"}, reinit \in BOOLEAN :
            database' = [C \in {D \in DOMAIN database : reinit /\ database[D].list = "learnts" => D \in kept}
                           |-> keptForGood(kept)[C]]
    BY DEF AdaptStrategies
  <2> DEFINE left == {D \in DOMAIN database : reinit /\ database[D].list = "learnts" => D \in kept}
  <2>2. database' = [C \in left |-> keptForGood(kept)[C]]
    BY <2>1
  <2>3. /\ left \subseteq DOMAIN database
        /\ \A C \in DOMAIN database : database[C].list = "clauses" => C \in left /\ C \notin kept
    OBVIOUS
  <2> HIDE DEF left
  <2>4. DOMAIN database' = left /\ \A C \in left : database'[C] = keptForGood(kept)[C]
    BY <2>2
  <2>5. ASSUME NEW C \in DOMAIN database
        PROVE  /\ keptForGood(kept)[C] \in ClauseData
               /\ keptForGood(kept)[C].lits = database[C].lits /\ keptForGood(kept)[C].blockers = database[C].blockers
               /\ C \notin kept => keptForGood(kept)[C] = database[C]
    <3>1. database[C] \in ClauseData
      BY <1>1 DEF GlucoseTypeOK
    <3>2. keptForGood(kept)[C] = IF C \in kept THEN [database[C] EXCEPT !.list = "permanentLearnts"] ELSE database[C]
      BY DEF keptForGood
    <3> QED BY <3>1, <3>2 DEF ClauseData
  <2>6. database' \in [DOMAIN database' -> ClauseData]
    BY <2>2, <2>3, <2>4, <2>5
  <2> QED BY <2>3, <2>4, <2>5, <2>6 DEF ClausesKept, Given
<1> QED BY <1>2, <1>3, <1>4, <1>5, CutStep

--------------------------------------------------------------------------------
(***************************************************************************)
(* Decisions.                                                              *)
(***************************************************************************)
LEMMA NewEntry ==
    ASSUME GlucoseTypeOK, TrailInv, NEW l \in SatLiterals, isUndef(l), NEW j \in DOMAIN trail
    PROVE  var(trail[j].lit) # var(l)
<1>1. trail[j].lit \in SatLiterals
  BY TrailFacts
<1>2. trail[j].lit # l /\ trail[j].lit # -l
  BY DEF isUndef, isTrue, isFalse, true_literals
<1> QED BY <1>1, <1>2, LiteralFacts

LEMMA DescendStep ==
    ASSUME GlucoseInv, pc = "choosing", pc' \in {"choosing", "searching"},
           UNCHANGED <<callVars, ok, database, qhead, visiting>>,
           trail_lim' = Append(trail_lim, Len(trail)),
           \/ trail' = trail
           \/ /\ pc' = "searching"
              /\ \E l \in SatLiterals : /\ isUndef(l) /\ var(l) <= max_var /\ trail' = enqueue(trail, l, {})
                                        /\ AssumptionsLeft => l = assumption,
           AssumptionsLeft => \E i \in DOMAIN trail' : trail'[i].lit = assumption,
           order_heap' \subseteq upTo(max_var), \A v \in upTo(max_var) : isUndef(v)' => v \in order_heap'
    PROVE  GlucoseInv'
<1> DEFINE n == Len(trail)
<1>1. /\ GlucoseTypeOK /\ DatabaseInv /\ TrailInv /\ PhaseInv /\ VisitInv /\ ConflictInv /\ DecisionsInv
      /\ ReasonsImply /\ WatchInv /\ WorldsInv /\ VariablesInv /\ AssumptionsInv
  BY DEF GlucoseInv
<1>2. /\ clause_list' = clause_list /\ nof_added' = nof_added /\ max_var' = max_var /\ assumptions' = assumptions
      /\ ok' = ok /\ database' = database /\ qhead' = qhead /\ visiting' = visiting
  BY DEF callVars
<1>3. ok /\ visiting = {} /\ qhead = n
  BY <1>1 DEF PhaseInv
<1>4. Grown(trail)
  <2>1. {} \in SUBSET SatLiterals
    OBVIOUS
  <2> QED BY <2>1 DEF Grown
<1>5. /\ Kept(n) /\ decisionLevel' = decisionLevel + 1 /\ trail_lim'[decisionLevel + 1] = n
      /\ \A i \in Nat : i > n => levelAt(i)' = decisionLevel + 1
  BY <1>1, <1>4, KeptDescend
<1>6. /\ DOMAIN trail' = 1..Len(trail') /\ Len(trail') \in n..(n + 1) /\ n \in Nat /\ DOMAIN trail = 1..n
      /\ \A i \in 1..n : i \in DOMAIN trail /\ trail'[i] = trail[i] /\ levelAt(i)' = levelAt(i)
      /\ decisionLevel \in Nat /\ DOMAIN trail_lim' = 1..(decisionLevel + 1)
  BY <1>1, <1>5, KeptFacts
<1>7. ASSUME NEW i \in DOMAIN trail', i > n
      PROVE  /\ i = n + 1 /\ levelAt(i)' = decisionLevel + 1 /\ trail'[i].reason = {} /\ trail'[i].lit \in SatLiterals
             /\ isUndef(trail'[i].lit) /\ var(trail'[i].lit) <= max_var
             /\ AssumptionsLeft => trail'[i].lit = assumption
  <2>1. i = n + 1 /\ i \in Nat
    BY <1>6, <1>7
  <2>2. Len(trail') = n + 1
    <3>1. i \in 1..Len(trail')
      BY <1>6
    <3>2. Len(trail') \in n..(n + 1) /\ n \in Nat
      BY <1>6
    <3> QED BY <2>1, <3>1, <3>2
  <2>3. trail' # trail
    BY <1>6, <2>2
  <2>4. PICK l \in SatLiterals : /\ isUndef(l) /\ var(l) <= max_var /\ trail' = enqueue(trail, l, {})
                                 /\ AssumptionsLeft => l = assumption
    BY <2>3
  <2>5. trail'[n + 1].lit = l /\ trail'[n + 1].reason = {}
    BY <1>1, <2>4, EnqueueFacts DEF GlucoseTypeOK
  <2> QED BY <1>5, <1>7, <2>1, <2>4, <2>5
<1>8. GlucoseTypeOK'
  <2>1. trail' \in Seq(Entries) /\ trail_lim' \in Seq(Nat)
    BY <1>5 DEF Kept
  <2>2. order_heap' \subseteq SatVariables /\ qhead' \in 0..Len(trail')
    BY <1>2, <1>3, <1>6 DEF upTo
  <2>3. pc' \in Phases
    BY DEF Phases
  <2> QED BY <1>1, <1>2, <2>1, <2>2, <2>3 DEF GlucoseTypeOK
<1>9. DatabaseInv'
  BY <1>1, <1>2 DEF DatabaseInv, Lists
<1>10. TrailInv'
  <2>1. ASSUME NEW i \in DOMAIN trail', i > n, NEW j \in 1..n PROVE var(trail'[i].lit) # var(trail[j].lit)
    <3>1. j \in DOMAIN trail /\ trail'[i].lit \in SatLiterals /\ isUndef(trail'[i].lit)
      BY <1>6, <1>7, <2>1
    <3>2. \A l \in SatLiterals : isUndef(l) => var(trail[j].lit) # var(l)
      BY <1>1, <3>1, NewEntry
    <3> QED BY <3>1, <3>2
  <2>2. Fresh(n)
    BY <2>1 DEF Fresh
  <2>3. \A k \in DOMAIN trail_lim' : trail_lim'[k] <= qhead'
    <3> SUFFICES ASSUME NEW k \in DOMAIN trail_lim' PROVE trail_lim'[k] <= n
      BY <1>2, <1>3
    <3>1. CASE k <= decisionLevel
      <4>1. trail_lim'[k] = trail_lim[k] /\ k \in DOMAIN trail_lim
        BY <1>1, <1>5, <1>6, <3>1, TrailFacts DEF Kept
      <4> QED BY <1>1, <1>3, <4>1 DEF TrailInv
    <3>2. CASE k = decisionLevel + 1
      BY <1>5, <1>6, <3>2
    <3> QED BY <1>6, <3>1, <3>2
  <2> QED BY <1>1, <1>5, <2>2, <2>3, KeptTrail
<1>11. PhaseInv'
  BY <1>1, <1>2, <1>3 DEF PhaseInv
<1>12. VisitInv' /\ ConflictInv'
  BY <1>2, <1>3 DEF VisitInv, ConflictInv
<1>13. DecisionsInv'
  <2>1. ASSUME NEW i \in DOMAIN trail', i > n PROVE (i = trail_lim[levelAt(i)] + 1)'
    BY <1>5, <1>7, <2>1
  <2> QED BY <1>1, <1>5, <2>1, KeptDecisions
<1>14. ReasonsImply'
  <2>1. ReasonsStay(n)
    <3>1. \A i \in 1..n : i \in DOMAIN trail
      BY <1>6
    <3> QED BY <1>1, <1>2, <3>1 DEF ReasonsStay, ReasonsImply
  <2>2. ReasonOfNew(n)
    BY <1>7 DEF ReasonOfNew
  <2> QED BY <1>1, <1>5, <2>1, <2>2, KeptReasons
<1>15. WatchInv'
  <2> SUFFICES ASSUME NEW C \in DOMAIN database', NEW j \in DOMAIN trail', (-trail[j].lit \in watched(C))', Seen(j, C)'
               PROVE  \E i \in DOMAIN trail' : trail'[i].lit \in C /\ levelAt(i)' <= levelAt(j)'
    BY DEF WatchInv
  <2>1. j <= n
    BY <1>2, <1>3, <1>6 DEF Seen
  <2>2. j \in 1..n /\ trail'[j] = trail[j]
    BY <1>6, <2>1
  <2>3. C \in DOMAIN database /\ -trail[j].lit \in watched(C)
    BY <1>2, <2>2 DEF watched
  <2>4. Seen(j, C)
    BY <1>2 DEF Seen
  <2> QED BY <1>1, <1>3, <1>5, <2>2, <2>3, <2>4, KeptWatch
<1>16. WorldsInv'
  <2>1. added' = added /\ Given' = Given
    BY <1>2 DEF added, Given
  <2>2. Root' = Root
    <3>1. \A i \in DOMAIN trail' : ~(i > n /\ levelAt(i)' = 0)
      BY <1>6, <1>7
    <3> QED BY <1>1, <1>5, <3>1, KeptRoot
  <2> QED BY <1>1, <1>2, <1>3, <2>1, <2>2, KeptWorlds
<1>17. VariablesInv'
  BY <1>1, <1>2, <1>5, <1>7, KeptVariables
<1>18. AssumptionsInv'
  <2>1. decisionLevel + 1 \in 1..Len(assumptions) => AssumptionsLeft /\ assumption \in range(assumptions)
    <3>1. DOMAIN assumptions = 1..Len(assumptions) /\ Len(assumptions) \in Nat
      BY <1>1, LenProperties DEF GlucoseTypeOK
    <3> QED BY <1>6, <3>1 DEF AssumptionsLeft, assumption, range
  <2>2. ASSUME NEW i \in DOMAIN trail', i > n, levelAt(i)' \in 1..Len(assumptions) PROVE trail'[i].lit \in range(assumptions)
    BY <1>7, <2>1, <2>2
  <2>3. ASSUME NEW k \in DOMAIN assumptions, k > decisionLevel, k <= decisionLevel'
        PROVE  \E i \in DOMAIN trail' : trail'[i].lit = assumptions[k] /\ levelAt(i)' <= k
    <3>1. DOMAIN assumptions = 1..Len(assumptions) /\ Len(assumptions) \in Nat
      BY <1>1, LenProperties DEF GlucoseTypeOK
    <3>2. k = decisionLevel + 1 /\ AssumptionsLeft /\ assumptions[k] = assumption
      BY <1>5, <1>6, <2>3, <3>1 DEF AssumptionsLeft, assumption
    <3>3. PICK i \in DOMAIN trail' : trail'[i].lit = assumption
      BY <3>2
    <3>4. i \in Nat
      BY <1>6
    <3>5. levelAt(i)' \in 0..decisionLevel'
      BY <1>1, <1>5, <3>4, KeptFacts
    <3> QED BY <1>5, <1>6, <3>2, <3>3, <3>5
  <2> QED BY <1>1, <1>2, <1>5, <2>2, <2>3, KeptAssumptions
<1> QED BY <1>8, <1>9, <1>10, <1>11, <1>12, <1>13, <1>14, <1>15, <1>16, <1>17, <1>18 DEF GlucoseInv

LEMMA AssumptionFacts ==
    ASSUME GlucoseTypeOK, TrailInv, VariablesInv, AssumptionsLeft
    PROVE  assumption \in SatLiterals /\ assumption \in range(assumptions) /\ var(assumption) <= max_var
<1>1. decisionLevel + 1 \in DOMAIN assumptions
  <2>1. DOMAIN assumptions = 1..Len(assumptions) /\ Len(assumptions) \in Nat /\ decisionLevel \in Nat
    BY TrailFacts, LenProperties DEF GlucoseTypeOK
  <2> QED BY <2>1 DEF AssumptionsLeft
<1>2. assumption \in range(assumptions)
  BY <1>1 DEF assumption, range
<1>3. assumption \in SatLiterals
  <2>1. decisionLevel + 1 \in 1..Len(assumptions)
    BY <1>1, LenProperties DEF GlucoseTypeOK
  <2> QED BY <2>1, ElementOfSeq DEF GlucoseTypeOK, assumption
<1> QED BY <1>2, <1>3 DEF VariablesInv

LEMMA AssumptionHoldsInv ==
    ASSUME GlucoseInv, AssumptionHolds
    PROVE  GlucoseInv'
<1>1. GlucoseTypeOK /\ TrailInv /\ VariablesInv
  BY DEF GlucoseInv
<1>2. /\ pc = "choosing" /\ pc' = pc /\ isTrue(assumption) /\ trail_lim' = Append(trail_lim, Len(trail))
      /\ UNCHANGED <<callVars, ok, database, trail, qhead, visiting, order_heap>>
  BY DEF AssumptionHolds
<1>3. \E i \in DOMAIN trail' : trail'[i].lit = assumption
  BY <1>2 DEF isTrue, true_literals
<1>4. \A v : isUndef(v)' = isUndef(v)
  BY <1>2 DEF isUndef, isTrue, isFalse, true_literals
<1>5. order_heap' \subseteq upTo(max_var) /\ \A v \in upTo(max_var) : isUndef(v)' => v \in order_heap'
  BY <1>1, <1>2, <1>4 DEF VariablesInv
<1> QED BY <1>2, <1>3, <1>5, DescendStep

\* What is assigned after a decision is what was before, and the literal chosen.
LEMMA Assigned ==
    ASSUME GlucoseTypeOK, TrailInv, NEW l \in SatLiterals, NEW C \in SUBSET SatLiterals,
           trail' = enqueue(trail, l, C)
    PROVE  /\ \A v \in SatVariables : isUndef(v)' => isUndef(v) /\ v # var(l)
           /\ \E i \in DOMAIN trail' : trail'[i].lit = l
<1>1. /\ DOMAIN trail' = 1..(Len(trail) + 1) /\ DOMAIN trail = 1..Len(trail) /\ Len(trail) \in Nat
      /\ \A i \in 1..Len(trail) : trail'[i] = trail[i]
      /\ trail'[Len(trail) + 1].lit = l
  BY EnqueueFacts DEF GlucoseTypeOK
<1>2. Len(trail) + 1 \in DOMAIN trail'
  BY <1>1
<1>3. true_literals \subseteq true_literals' /\ l \in true_literals'
  <2>1. \A i \in DOMAIN trail : i \in DOMAIN trail' /\ trail'[i] = trail[i]
    BY <1>1
  <2> QED BY <1>1, <1>2, <2>1 DEF true_literals
<1>4. ASSUME NEW v \in SatVariables, isUndef(v)' PROVE isUndef(v) /\ v # var(l)
  <2>1. v \notin true_literals' /\ -v \notin true_literals'
    BY <1>4 DEF isUndef, isTrue, isFalse
  <2>2. isUndef(v)
    BY <1>3, <2>1 DEF isUndef, isTrue, isFalse
  <2>3. l = var(l) \/ l = -var(l)
    <3>1. l \in Int /\ l # 0
      BY LiteralFacts
    <3> QED BY <3>1 DEF var
  <2> QED BY <1>3, <2>1, <2>2, <2>3
<1> QED BY <1>1, <1>2, <1>4

LEMMA AssumptionDecidedInv ==
    ASSUME GlucoseInv, AssumptionDecided
    PROVE  GlucoseInv'
<1>1. GlucoseTypeOK /\ TrailInv /\ VariablesInv
  BY DEF GlucoseInv
<1>2. /\ pc = "choosing" /\ pc' = "searching" /\ isUndef(assumption) /\ AssumptionsLeft
      /\ trail_lim' = Append(trail_lim, Len(trail)) /\ trail' = enqueue(trail, assumption, {})
      /\ UNCHANGED <<callVars, ok, database, qhead, visiting, order_heap>>
  BY DEF AssumptionDecided, descend
<1>3. assumption \in SatLiterals /\ var(assumption) <= max_var
  BY <1>1, <1>2, AssumptionFacts
<1>4. {} \in SUBSET SatLiterals
  OBVIOUS
<1>5. /\ \A v \in SatVariables : isUndef(v)' => isUndef(v)
      /\ \E i \in DOMAIN trail' : trail'[i].lit = assumption
  BY <1>1, <1>2, <1>3, <1>4, Assigned
<1>6. order_heap' \subseteq upTo(max_var) /\ \A v \in upTo(max_var) : isUndef(v)' => v \in order_heap'
  BY <1>1, <1>2, <1>5 DEF VariablesInv, upTo
<1> QED BY <1>2, <1>3, <1>5, <1>6, DescendStep

LEMMA DecideInv ==
    ASSUME GlucoseInv, Decide
    PROVE  GlucoseInv'
<1>1. GlucoseTypeOK /\ TrailInv /\ VariablesInv
  BY DEF GlucoseInv
<1>2. PICK v \in order_heap, passed \in SUBSET {w \in order_heap : ~isUndef(w)} :
          isUndef(v) /\ order_heap' = order_heap \ (passed \cup {v}) /\ (descend(v) \/ descend(-v))
  BY DEF Decide
<1>3. PICK l \in {v, -v} : descend(l)
  BY <1>2
<1>4. /\ pc = "choosing" /\ pc' = "searching" /\ ~AssumptionsLeft
      /\ trail_lim' = Append(trail_lim, Len(trail)) /\ trail' = enqueue(trail, l, {})
      /\ UNCHANGED <<callVars, ok, database, qhead, visiting>>
  BY <1>3 DEF Decide, descend
<1>5. v \in SatVariables /\ v \in SatLiterals /\ v <= max_var /\ v \in Nat /\ v > 0
  BY <1>1, GlucoseAssumption DEF GlucoseTypeOK, SatLiterals, VariablesInv, upTo
<1>6. l \in SatLiterals /\ var(l) = v
  BY <1>3, <1>5, LiteralFacts DEF var
<1>7. isUndef(l)
  <2>1. -(-v) = v
    BY <1>5
  <2> QED BY <1>2, <1>3, <2>1 DEF isUndef, isTrue, isFalse
<1>8. {} \in SUBSET SatLiterals
  OBVIOUS
<1>9. \A w \in SatVariables : isUndef(w)' => isUndef(w) /\ w # v
  BY <1>1, <1>4, <1>6, <1>8, Assigned
<1>10. order_heap' \subseteq upTo(max_var) /\ \A w \in upTo(max_var) : isUndef(w)' => w \in order_heap'
  BY <1>1, <1>2, <1>9 DEF VariablesInv, upTo
<1> QED BY <1>4, <1>5, <1>6, <1>7, <1>10, DescendStep

--------------------------------------------------------------------------------
(***************************************************************************)
(* Propagation.                                                            *)
(***************************************************************************)
LEMMA DequeueInv ==
    ASSUME GlucoseInv, Dequeue
    PROVE  GlucoseInv'
<1> DEFINE p == trail[qhead + 1].lit
           n == Len(trail)
<1>1. /\ GlucoseTypeOK /\ DatabaseInv /\ TrailInv /\ PhaseInv /\ VisitInv /\ ConflictInv /\ DecisionsInv
      /\ ReasonsImply /\ WatchInv /\ WorldsInv /\ VariablesInv /\ AssumptionsInv
  BY DEF GlucoseInv
<1>2. /\ pc \in {"adding", "searching"} /\ visiting = {} /\ qhead < n /\ qhead' = qhead + 1
      /\ visiting' = binaries(p) \cup longs(p)
      /\ UNCHANGED <<clause_list, nof_added, max_var, assumptions, pc, ok, database, trail, trail_lim, order_heap>>
  BY DEF Dequeue, propagating, callVars
<1>3. /\ qhead \in Nat /\ qhead + 1 \in DOMAIN trail /\ n \in Nat /\ DOMAIN trail = 1..n
      /\ DOMAIN trail_lim = 1..decisionLevel /\ \A k \in 1..decisionLevel : trail_lim[k] \in Nat
  BY <1>1, <1>2, TrailFacts DEF GlucoseTypeOK
<1>4. dequeued' = p
  BY <1>2 DEF dequeued
<1>5. visiting' = {C \in DOMAIN database : -p \in watched(C)}
  <2>1. ASSUME NEW C \in DOMAIN database PROVE C \in binaries(p) \cup longs(p) <=> -p \in watched(C)
    <3>1. Cardinality(C) \in Nat /\ Cardinality(C) >= 2 /\ (Cardinality(C) = 2 => C = watched(C))
      BY <1>1, ClauseFacts
    <3> QED BY <3>1 DEF binaries, longs, watched
  <2> QED BY <1>2, <2>1 DEF binaries, longs
<1>6. GlucoseTypeOK'
  <2>1. qhead' \in 0..Len(trail)'
    BY <1>2, <1>3
  <2>2. visiting' \subseteq DOMAIN database'
    BY <1>2, <1>5
  <2> QED BY <1>1, <1>2, <2>1, <2>2 DEF GlucoseTypeOK
<1>7. DatabaseInv' /\ ReasonsImply' /\ DecisionsInv' /\ AssumptionsInv'
  <2>1. DatabaseInv'
    BY <1>1, <1>2 DEF DatabaseInv, Lists
  <2>2. ReasonsImply'
    BY <1>1, <1>2 DEF ReasonsImply, levelAt
  <2>3. DecisionsInv'
    BY <1>1, <1>2 DEF DecisionsInv, levelAt
  <2>4. AssumptionsInv'
    BY <1>1, <1>2 DEF AssumptionsInv, levelAt, decisionLevel
  <2> QED BY <2>1, <2>2, <2>3, <2>4
<1>8. TrailInv'
  <2>1. \A k \in DOMAIN trail_lim : trail_lim[k] <= qhead + 1
    BY <1>1, <1>3 DEF TrailInv
  <2> QED BY <1>1, <1>2, <2>1 DEF TrailInv
<1>9. PhaseInv' /\ ConflictInv'
  BY <1>1, <1>2 DEF PhaseInv, ConflictInv
<1>10. VisitInv'
  <2>1. \A k \in DOMAIN trail_lim : trail_lim[k] < qhead + 1
    BY <1>1, <1>3 DEF TrailInv
  <2>2. qhead + 1 > 0
    BY <1>3
  <2>3. \A C \in visiting' : (-dequeued \in watched(C))'
    BY <1>2, <1>4, <1>5 DEF watched
  <2> QED BY <1>2, <2>1, <2>2, <2>3 DEF VisitInv
<1>11. WatchInv'
  <2> SUFFICES ASSUME ok', NEW C \in DOMAIN database', NEW j \in DOMAIN trail', (-trail[j].lit \in watched(C))',
                      Seen(j, C)'
               PROVE  \E i \in DOMAIN trail' : trail'[i].lit \in C /\ levelAt(i)' <= levelAt(j)'
    BY DEF WatchInv
  <2>0. /\ ok /\ C \in DOMAIN database /\ j \in DOMAIN trail /\ -trail[j].lit \in watched(C)
        /\ DOMAIN trail' = DOMAIN trail /\ \A i : levelAt(i)' = levelAt(i)
    BY <1>2 DEF watched, levelAt
  <2>1. j <= qhead
    <3> SUFFICES ASSUME j = qhead + 1 PROVE FALSE
      BY <1>2, <1>3, <2>0 DEF Seen
    <3>1. C \in visiting'
      BY <1>5, <2>0
    <3> QED BY <1>2, <1>3, <3>1 DEF Seen
  <2>2. Seen(j, C)
    BY <1>2, <1>3, <2>0, <2>1 DEF Seen
  <2>3. \E i \in DOMAIN trail : trail[i].lit \in C /\ levelAt(i) <= levelAt(j)
    BY <1>1, <2>0, <2>2 DEF WatchInv
  <2> QED BY <1>2, <2>0, <2>3
<1>12. WorldsInv'
  <2>1. added' = added /\ Root' = Root /\ Given' = Given
    BY <1>2 DEF added, Root, Given, levelAt
  <2>2. ok
    BY <1>1, <1>2 DEF PhaseInv
  <2> QED BY <1>1, <1>2, <2>1, <2>2, KeptWorlds
<1>13. VariablesInv'
  BY <1>1, <1>2 DEF VariablesInv, isUndef, isTrue, isFalse, true_literals, upTo, range
<1> QED BY <1>6, <1>7, <1>8, <1>9, <1>10, <1>11, <1>12, <1>13 DEF GlucoseInv

\* Two elements of a list change places.
swapped(s, a, b) == [s EXCEPT ![a] = s[b], ![b] = s[a]]

LEMMA SwapFacts ==
    ASSUME NEW X, NEW s \in Seq(X), NEW a \in 1..Len(s), NEW b \in 1..Len(s)
    PROVE  LET t == swapped(s, a, b)
           IN  /\ t \in Seq(X) /\ Len(t) = Len(s) /\ range(t) = range(s) /\ (Distinct(s) => Distinct(t))
               /\ t[a] = s[b] /\ t[b] = s[a] /\ \A k \in 1..Len(s) : k # a /\ k # b => t[k] = s[k]
<1> DEFINE t == swapped(s, a, b)
           n == Len(s)
           other(k) == IF k = a THEN b ELSE IF k = b THEN a ELSE k
<1>1. n \in Nat /\ DOMAIN s = 1..n /\ \A k \in 1..n : s[k] \in X
  BY LenProperties, ElementOfSeq
<1>2. \A k \in 1..n : other(k) \in 1..n /\ t[k] = s[other(k)] /\ other(other(k)) = k
  BY <1>1 DEF swapped
<1>3. t \in [1..n -> X]
  BY <1>1 DEF swapped
<1>4. t \in Seq(X) /\ Len(t) = n
  BY <1>1, <1>3, IsASeq, LenProperties
<1>5. DOMAIN t = 1..n
  BY <1>3
<1> HIDE DEF t, other
<1>6. range(t) = range(s)
  <2>1. \A k \in 1..n : t[k] \in range(s) /\ s[k] \in range(t)
    BY <1>1, <1>2, <1>5 DEF range
  <2> QED BY <1>1, <1>5, <2>1 DEF range
<1>7. ASSUME Distinct(s) PROVE Distinct(t)
  <2> SUFFICES ASSUME NEW k \in 1..n, NEW m \in 1..n, t[k] = t[m] PROVE k = m
    BY <1>5 DEF Distinct
  <2>1. other(k) = other(m)
    BY <1>1, <1>2, <1>7 DEF Distinct
  <2> QED BY <1>2, <2>1
<1>8. t[a] = s[b] /\ t[b] = s[a] /\ \A k \in 1..n : k # a /\ k # b => t[k] = s[k]
  <2>1. other(a) = b /\ other(b) = a /\ \A k \in 1..n : k # a /\ k # b => other(k) = k
    BY DEF other
  <2> QED BY <1>2, <2>1
<1> QED BY <1>4, <1>6, <1>7, <1>8 DEF t

\* C is looked at: its literals and blockers may change, but for the first literal of a reason.
Touched(C) ==
    /\ DOMAIN database' = DOMAIN database /\ database' \in [DOMAIN database -> ClauseData]
    /\ \A D \in DOMAIN database : D # C => database'[D] = database[D]
    /\ Lists(database'[C], C) /\ database'[C].list = database[C].list
    /\ \A i \in DOMAIN trail :
          levelAt(i) > 0 /\ trail[i].reason = C /\ Cardinality(C) > 2 => database'[C].lits[1] = database[C].lits[1]

LEMMA TouchedFacts ==
    ASSUME GlucoseTypeOK, TrailInv, DatabaseInv, ReasonsImply, NEW C \in DOMAIN database, Touched(C)
    PROVE  DatabaseInv' /\ Given' = Given /\ ReasonsStay(Len(trail))
<1>1. DatabaseInv'
  <2> SUFFICES ASSUME NEW D \in DOMAIN database PROVE Lists(database[D], D)'
    BY DEF DatabaseInv, Touched
  <2>1. CASE D = C
    BY <2>1 DEF Touched, Lists
  <2>2. CASE D # C
    BY <2>2 DEF Touched, Lists, DatabaseInv
  <2> QED BY <2>1, <2>2
<1>2. Given' = Given
  BY DEF Given, Touched
<1>3. ReasonsStay(Len(trail))
  <2>1. \A i \in 1..Len(trail) : i \in DOMAIN trail
    BY TrailFacts
  <2>2. ASSUME NEW i \in DOMAIN trail, levelAt(i) > 0, trail[i].reason # {} PROVE trail[i].reason \in DOMAIN database
    BY <2>2 DEF ReasonsImply
  <2> QED BY <2>1, <2>2 DEF ReasonsStay, Touched
<1> QED BY <1>1, <1>2, <1>3

\* The literal dequeued is of the current level, as are the entries after it.
LEMMA DequeuedFacts ==
    ASSUME GlucoseInv, visiting # {}
    PROVE  /\ qhead \in DOMAIN trail /\ qhead \in Nat /\ dequeued \in SatLiterals /\ isFalse(-dequeued)
           /\ \A i \in Nat : i >= qhead => levelAt(i) = decisionLevel
<1>1. GlucoseTypeOK /\ TrailInv /\ VisitInv
  BY DEF GlucoseInv
<1>2. /\ qhead > 0 /\ \A k \in DOMAIN trail_lim : trail_lim[k] < qhead
      /\ qhead \in 0..Len(trail) /\ DOMAIN trail = 1..Len(trail) /\ Len(trail) \in Nat
      /\ DOMAIN trail_lim = 1..decisionLevel /\ decisionLevel \in Nat
      /\ \A k \in 1..decisionLevel : trail_lim[k] \in Nat
  BY <1>1, TrailFacts DEF GlucoseTypeOK, VisitInv
<1>3. qhead \in DOMAIN trail /\ qhead \in Nat
  BY <1>2
<1>4. dequeued \in SatLiterals
  BY <1>1, <1>3, TrailFacts DEF dequeued
<1>5. isFalse(-dequeued)
  <2>1. -(-dequeued) = dequeued
    BY <1>4, LiteralFacts
  <2> QED BY <1>3, <2>1 DEF isFalse, true_literals, dequeued
<1>6. ASSUME NEW i \in Nat, i >= qhead PROVE levelAt(i) = decisionLevel
  <2>1. levelAt(i) \in 0..decisionLevel /\ \A k \in 1..decisionLevel : trail_lim[k] < i <=> k <= levelAt(i)
    BY <1>1, AtLevel
  <2>2. ASSUME NEW k \in 1..decisionLevel PROVE trail_lim[k] < i
    <3>1. trail_lim[k] \in Nat /\ trail_lim[k] < qhead /\ qhead \in Nat
      BY <1>2
    <3> QED BY <1>6, <3>1
  <2>3. decisionLevel \in 1..decisionLevel => decisionLevel <= levelAt(i)
    BY <2>1, <2>2
  <2> QED BY <1>2, <2>1, <2>3
<1> QED BY <1>3, <1>4, <1>5, <1>6

\* A visit without a conflict.
LEMMA VisitStep ==
    ASSUME GlucoseInv, propagating, NEW C \in visiting, visiting' = visiting \ {C}, Touched(C),
           UNCHANGED <<callVars, pc, ok, trail_lim, qhead, order_heap>>,
           \/ trail' = trail
           \/ \E l \in C : /\ isUndef(l) /\ trail' = enqueue(trail, l, reasonAt(decisionLevel, C))
                           /\ \A q \in C \ {l} : isFalse(q)
                           /\ Cardinality(C) > 2 => database'[C].lits[1] = l,
           \A j \in 1..qhead : (-trail[j].lit \in {database'[C].lits[1], database'[C].lits[2]}) =>
               \/ \E i \in DOMAIN trail : trail[i].lit \in C /\ levelAt(i) <= levelAt(j)
               \/ j = qhead /\ \E i \in DOMAIN trail' : trail'[i].lit \in C
    PROVE  GlucoseInv'
<1> DEFINE n == Len(trail)
<1>1. /\ GlucoseTypeOK /\ DatabaseInv /\ TrailInv /\ PhaseInv /\ VisitInv /\ ConflictInv /\ DecisionsInv
      /\ ReasonsImply /\ WatchInv /\ WorldsInv /\ VariablesInv /\ AssumptionsInv
  BY DEF GlucoseInv
<1>2. /\ clause_list' = clause_list /\ nof_added' = nof_added /\ max_var' = max_var /\ assumptions' = assumptions
      /\ pc' = pc /\ ok' = ok /\ trail_lim' = trail_lim /\ qhead' = qhead /\ order_heap' = order_heap
      /\ pc \in {"adding", "searching"}
  BY DEF callVars, propagating
<1>3. /\ C \in DOMAIN database /\ C \in SUBSET SatLiterals /\ C # {} /\ ok /\ Cardinality(C) \in Nat
  <2>1. C \in DOMAIN database
    BY <1>1 DEF GlucoseTypeOK
  <2>2. C # {}
    <3>1. watched(C) \subseteq C
      BY <1>1, <2>1, ClauseFacts
    <3> QED BY <3>1 DEF watched
  <2> QED BY <1>1, <1>2, <2>1, <2>2, ClauseFacts DEF PhaseInv
<1>4. Grown(trail)
  <2>1. \A l \in C : l \in SatLiterals /\ reasonAt(decisionLevel, C) \in SUBSET SatLiterals
    BY <1>3 DEF reasonAt
  <2> QED BY <2>1 DEF Grown
<1>5. Kept(n) /\ decisionLevel' = decisionLevel
  BY <1>1, <1>2, <1>4, KeptHere
<1>6. /\ DOMAIN trail' = 1..Len(trail') /\ Len(trail') \in n..(n + 1) /\ n \in Nat /\ DOMAIN trail = 1..n
      /\ Len(trail') \in Nat
      /\ \A i \in 1..n : i \in DOMAIN trail /\ trail'[i] = trail[i] /\ levelAt(i)' = levelAt(i)
      /\ decisionLevel \in Nat
  BY <1>1, <1>5, KeptFacts
<1>7. /\ qhead \in DOMAIN trail /\ qhead \in Nat /\ qhead <= n
      /\ \A i \in Nat : i >= qhead => levelAt(i) = decisionLevel
      /\ \A i \in Nat : levelAt(i)' = levelAt(i)
  <2>1. visiting # {}
    OBVIOUS
  <2>2. \A i \in Nat : levelAt(i)' = levelAt(i)
    BY <1>2 DEF levelAt
  <2> QED BY <1>6, <2>1, <2>2, DequeuedFacts
<1>8. ASSUME NEW i \in DOMAIN trail', i > n
      PROVE  /\ i = n + 1 /\ levelAt(i)' = decisionLevel /\ trail'[i].lit \in C /\ isUndef(trail'[i].lit)
             /\ trail'[i].reason = reasonAt(decisionLevel, C)
             /\ \A q \in C \ {trail'[i].lit} : isFalse(q)
             /\ Cardinality(C) > 2 => database'[C].lits[1] = trail'[i].lit
  <2>1. i = n + 1 /\ i \in Nat /\ i >= qhead
    BY <1>6, <1>7, <1>8
  <2>2. Len(trail') = n + 1
    <3>1. i \in 1..Len(trail')
      BY <1>6
    <3>2. Len(trail') \in n..(n + 1) /\ n \in Nat
      BY <1>6
    <3> QED BY <2>1, <3>1, <3>2
  <2>3. trail' # trail
    BY <1>6, <2>2
  <2>4. PICK l \in C : /\ isUndef(l) /\ trail' = enqueue(trail, l, reasonAt(decisionLevel, C))
                       /\ \A q \in C \ {l} : isFalse(q)
                       /\ Cardinality(C) > 2 => database'[C].lits[1] = l
    BY <2>3
  <2>5. l \in SatLiterals /\ reasonAt(decisionLevel, C) \in SUBSET SatLiterals
    BY <1>3 DEF reasonAt
  <2>6. trail'[n + 1].lit = l /\ trail'[n + 1].reason = reasonAt(decisionLevel, C)
    BY <1>1, <2>4, <2>5, EnqueueFacts DEF GlucoseTypeOK
  <2>7. levelAt(i)' = decisionLevel
    BY <1>7, <2>1
  <2> QED BY <2>1, <2>4, <2>6, <2>7
<1>9. GlucoseTypeOK'
  <2>1. trail' \in Seq(Entries)
    BY <1>5 DEF Kept
  <2>2. qhead' \in 0..Len(trail')
    BY <1>2, <1>6, <1>7
  <2>3. /\ DOMAIN database' \subseteq SUBSET SatLiterals /\ database' \in [DOMAIN database' -> ClauseData]
        /\ visiting' \subseteq DOMAIN database'
    BY <1>1 DEF GlucoseTypeOK, Touched
  <2> QED BY <1>1, <1>2, <2>1, <2>2, <2>3 DEF GlucoseTypeOK
<1>10. DatabaseInv' /\ Given' = Given /\ ReasonsStay(n)
  BY <1>1, <1>3, TouchedFacts
<1>11. TrailInv'
  <2>1. ASSUME NEW i \in DOMAIN trail', i > n, NEW j \in 1..n PROVE var(trail'[i].lit) # var(trail[j].lit)
    <3>1. j \in DOMAIN trail /\ trail'[i].lit \in SatLiterals /\ isUndef(trail'[i].lit)
      BY <1>3, <1>6, <1>8, <2>1
    <3>2. \A l \in SatLiterals : isUndef(l) => var(trail[j].lit) # var(l)
      BY <1>1, <3>1, NewEntry
    <3> QED BY <3>1, <3>2
  <2>2. Fresh(n)
    BY <2>1 DEF Fresh
  <2>3. \A k \in DOMAIN trail_lim' : trail_lim'[k] <= qhead'
    BY <1>1, <1>2 DEF TrailInv
  <2> QED BY <1>1, <1>5, <2>2, <2>3, KeptTrail
<1>12. PhaseInv' /\ ConflictInv'
  BY <1>1, <1>2 DEF PhaseInv, ConflictInv
<1>13. VisitInv'
  <2>1. dequeued' = dequeued
    BY <1>2, <1>6, <1>7 DEF dequeued
  <2>2. \A D \in visiting' : watched(D)' = watched(D)
    BY <1>1 DEF watched, Touched, GlucoseTypeOK
  <2>3. \A D \in visiting' : (-dequeued \in watched(D))'
    BY <1>1, <2>1, <2>2 DEF VisitInv
  <2> QED BY <1>1, <1>2, <2>3 DEF VisitInv
<1>14. DecisionsInv'
  <2>1. \A i \in DOMAIN trail' : i > n /\ levelAt(i)' > 0 => trail'[i].reason # {}
    BY <1>3, <1>6, <1>8 DEF reasonAt
  <2> QED BY <1>1, <1>5, <2>1, KeptDecisions
<1>15. ReasonsImply'
  <2>1. ReasonOfNew(n)
    <3> SUFFICES ASSUME NEW i \in DOMAIN trail', i > n, levelAt(i)' > 0, trail'[i].reason # {}
                 PROVE  LET D == trail'[i].reason
                        IN  /\ D \in DOMAIN database' /\ trail'[i].lit \in D
                            /\ Cardinality(D) > 2 => database'[D].lits[1] = trail'[i].lit
                            /\ \A l \in D \ {trail'[i].lit} : \E j \in 1..n : trail[j].lit = -l
      BY DEF ReasonOfNew
    <3>1. trail'[i].reason = C
      BY <1>8 DEF reasonAt
    <3>2. C \in DOMAIN database'
      BY <1>3 DEF Touched
    <3>3. \A l \in C \ {trail'[i].lit} : \E j \in 1..n : trail[j].lit = -l
      BY <1>6, <1>8 DEF isFalse, true_literals
    <3> QED BY <1>8, <3>1, <3>2, <3>3
  <2> QED BY <1>1, <1>5, <1>10, <2>1, KeptReasons
<1>16. WatchInv'
  <2> SUFFICES ASSUME NEW D \in DOMAIN database', NEW j \in DOMAIN trail', (-trail[j].lit \in watched(D))', Seen(j, D)'
               PROVE  \E i \in DOMAIN trail' : trail'[i].lit \in D /\ levelAt(i)' <= levelAt(j)'
    BY DEF WatchInv
  <2>1. j \in 1..qhead /\ j \in 1..n /\ trail'[j] = trail[j] /\ levelAt(j)' = levelAt(j) /\ D \in DOMAIN database
    <3>1. j <= qhead
      BY <1>2, <1>6, <1>7 DEF Seen
    <3> QED BY <1>6, <1>7, <3>1 DEF Touched
  <2>2. CASE D = C
    <3>1. -trail[j].lit \in {database'[C].lits[1], database'[C].lits[2]}
      BY <2>1, <2>2 DEF watched
    <3>2. CASE \E i \in DOMAIN trail : trail[i].lit \in C /\ levelAt(i) <= levelAt(j)
      <4>1. PICK i \in DOMAIN trail : trail[i].lit \in C /\ levelAt(i) <= levelAt(j)
        BY <3>2
      <4>2. i \in DOMAIN trail' /\ trail'[i] = trail[i] /\ levelAt(i)' = levelAt(i)
        BY <1>6
      <4> QED BY <2>1, <2>2, <4>1, <4>2
    <3>3. CASE j = qhead /\ \E i \in DOMAIN trail' : trail'[i].lit \in C
      <4>1. PICK i \in DOMAIN trail' : trail'[i].lit \in C
        BY <3>3
      <4>2. i \in Nat
        BY <1>6
      <4>3. levelAt(i) \in 0..decisionLevel /\ levelAt(j) = decisionLevel
        BY <1>1, <1>7, <3>3, <4>2, AtLevel
      <4>4. levelAt(i)' <= levelAt(j)'
        BY <1>6, <1>7, <2>1, <4>2, <4>3
      <4> QED BY <2>2, <4>1, <4>4
    <3> QED BY <2>1, <3>1, <3>2, <3>3
  <2>3. CASE D # C
    <3>1. -trail[j].lit \in watched(D)
      BY <2>1, <2>3 DEF watched, Touched
    <3>2. Seen(j, D)
      BY <1>2, <2>1, <2>3 DEF Seen
    <3> QED BY <1>1, <1>3, <1>5, <2>1, <3>1, <3>2, KeptWatch
  <2> QED BY <2>2, <2>3
<1>17. WorldsInv'
  <2>1. added' = added /\ DOMAIN database' = DOMAIN database
    BY <1>2 DEF added, Touched
  <2>2. Root \subseteq Root'
    BY <1>1, <1>5, KeptRoot
  <2>3. ASSUME NEW W \in worlds, Satisfies(W, DOMAIN database), Root \subseteq W PROVE Root' \subseteq W
    <3> SUFFICES ASSUME NEW l \in Root' \ Root PROVE l \in W
      BY <2>3
    <3>1. PICK i \in DOMAIN trail' : i > n /\ levelAt(i)' = 0 /\ trail'[i].lit = l
      BY <1>1, <1>5, KeptRoot
    <3>2. decisionLevel = 0 /\ l \in C /\ \A q \in C \ {l} : isFalse(q)
      BY <1>8, <3>1
    <3>3. PICK q \in C : q \in W
      BY <1>3, <2>3 DEF Satisfies
    <3>4. CASE q # l
      <4>1. PICK k \in DOMAIN trail : trail[k].lit = -q
        BY <3>2, <3>4 DEF isFalse, true_literals
      <4>2. levelAt(k) = 0
        <5>1. levelAt(k) \in 0..0
          BY <1>1, <1>6, <3>2, AtLevel
        <5> QED BY <5>1
      <4>3. -q \in W
        BY <2>3, <4>1, <4>2 DEF Root
      <4> QED BY <1>3, <3>3, <4>3, WorldFacts
    <3> QED BY <3>3, <3>4
  <2>4. \A W \in worlds : Satisfies(W, Given') /\ Root' \subseteq W => Satisfies(W, Given)
    BY <1>10
  <2> QED BY <1>1, <1>2, <1>3, <2>1, <2>2, <2>3, <2>4, KeptWorlds
<1>18. VariablesInv'
  <2>1. \A i \in DOMAIN trail' : i > n => var(trail'[i].lit) <= max_var
    BY <1>1, <1>3, <1>8 DEF VariablesInv
  <2>2. \A v \in upTo(max_var) : isUndef(v)' => v \in order_heap'
    <3> SUFFICES ASSUME NEW v \in upTo(max_var), isUndef(v)' PROVE v \in order_heap
      BY <1>2
    <3>1. v \in SatVariables /\ \A i \in DOMAIN trail : ~(i > n)
      BY <1>6 DEF upTo
    <3>2. isUndef(v)
      BY <1>1, <1>5, <3>1, KeptUndef
    <3> QED BY <1>1, <3>2 DEF VariablesInv
  <2>3. order_heap' \subseteq upTo(max_var) /\ DOMAIN database' = DOMAIN database
    BY <1>1, <1>2 DEF VariablesInv, Touched
  <2> QED BY <1>1, <1>2, <1>5, <2>1, <2>2, <2>3, KeptVariables
<1>19. AssumptionsInv'
  <2>1. \A i \in DOMAIN trail' : i > n /\ levelAt(i)' \in 1..Len(assumptions) => trail'[i].reason # {}
    <3>1. \A m : m \in 1..Len(assumptions) => m # 0
      BY <1>1, LenProperties DEF GlucoseTypeOK
    <3> QED BY <1>3, <1>8, <3>1 DEF reasonAt
  <2>2. \A k \in DOMAIN assumptions : ~(k > decisionLevel /\ k <= decisionLevel')
    <3>1. \A k \in DOMAIN assumptions : k \in Nat
      BY <1>1, LenProperties DEF GlucoseTypeOK
    <3> QED BY <1>5, <1>6, <3>1
  <2> QED BY <1>1, <1>2, <1>5, <2>1, <2>2, KeptAssumptions
<1> QED BY <1>9, <1>10, <1>11, <1>12, <1>13, <1>14, <1>15, <1>16, <1>17, <1>18, <1>19 DEF GlucoseInv

\* A visit that finds a conflict.
LEMMA ConflictStep ==
    ASSUME GlucoseInv, propagating, NEW C \in visiting, Touched(C),
           {database'[C].lits[1], database'[C].lits[2]} = watched(C),
           NEW head \in {qhead, Len(trail)}, Conflict(C, head), \A q \in C : isFalse(q)
    PROVE  GlucoseInv'
<1> DEFINE n == Len(trail)
<1>1. /\ GlucoseTypeOK /\ DatabaseInv /\ TrailInv /\ PhaseInv /\ VisitInv /\ ConflictInv /\ DecisionsInv
      /\ ReasonsImply /\ WatchInv /\ WorldsInv /\ VariablesInv /\ AssumptionsInv
  BY DEF GlucoseInv
<1>2. /\ clause_list' = clause_list /\ nof_added' = nof_added /\ max_var' = max_var /\ assumptions' = assumptions
      /\ trail' = trail /\ trail_lim' = trail_lim /\ qhead' = head /\ visiting' = {} /\ order_heap' = order_heap
      /\ pc = "adding" => ok' = FALSE /\ pc' = "ready"
      /\ pc = "searching" => pc' = "conflict" /\ confl' = C /\ ok' = ok
      /\ pc \in {"adding", "searching"}
  BY DEF Conflict, callVars, propagating
<1>3. C \in DOMAIN database /\ ok
  BY <1>1, <1>2 DEF GlucoseTypeOK, PhaseInv
<1>4. /\ qhead \in DOMAIN trail /\ qhead \in Nat /\ dequeued \in SatLiterals
      /\ \A i \in Nat : i >= qhead => levelAt(i) = decisionLevel
      /\ DOMAIN trail = 1..n /\ n \in Nat /\ head \in 0..n /\ qhead <= head
  <2>1. visiting # {}
    OBVIOUS
  <2>2. DOMAIN trail = 1..n /\ n \in Nat /\ qhead \in 0..n
    BY <1>1, TrailFacts DEF GlucoseTypeOK
  <2> QED BY <2>1, <2>2, DequeuedFacts
<1>5. Kept(n) /\ decisionLevel' = decisionLevel
  BY <1>1, <1>2, KeptHere DEF Grown
<1>6. \A i : levelAt(i)' = levelAt(i)
  BY <1>2 DEF levelAt
<1>7. GlucoseTypeOK'
  <2>1. DOMAIN database' \subseteq SUBSET SatLiterals /\ database' \in [DOMAIN database' -> ClauseData]
    BY <1>1 DEF GlucoseTypeOK, Touched
  <2>2. pc' \in Phases /\ ok' \in BOOLEAN /\ qhead' \in 0..Len(trail')
    BY <1>1, <1>2, <1>4 DEF GlucoseTypeOK, Phases
  <2> QED BY <1>1, <1>2, <2>1, <2>2 DEF GlucoseTypeOK
<1>8. DatabaseInv' /\ Given' = Given /\ ReasonsStay(n)
  BY <1>1, <1>3, TouchedFacts
<1>9. TrailInv'
  <2>1. \A k \in DOMAIN trail_lim : trail_lim[k] <= head
    <3> SUFFICES ASSUME NEW k \in DOMAIN trail_lim PROVE trail_lim[k] <= head
      OBVIOUS
    <3>1. trail_lim[k] <= qhead /\ trail_lim[k] \in Nat
      BY <1>1, TrailFacts DEF TrailInv
    <3> QED BY <1>4, <3>1
  <2> QED BY <1>1, <1>2, <2>1 DEF TrailInv
<1>10. PhaseInv'
  BY <1>1, <1>2, <1>3 DEF PhaseInv
<1>11. VisitInv'
  BY <1>2 DEF VisitInv
<1>12. ConflictInv'
  <2> SUFFICES ASSUME pc = "searching"
               PROVE  /\ C \in DOMAIN database' /\ \A q \in C : isFalse(q)'
                      /\ \E i \in DOMAIN trail : -trail[i].lit \in C /\ levelAt(i)' = decisionLevel'
    BY <1>2 DEF ConflictInv
  <2>1. C \in DOMAIN database'
    BY <1>3 DEF Touched
  <2>2. \A q \in C : isFalse(q)'
    BY <1>2 DEF isFalse, true_literals
  <2>3. -trail[qhead].lit \in C
    <3>1. -dequeued \in watched(C)
      BY <1>1 DEF VisitInv
    <3> QED BY <1>1, <1>3, <3>1, ClauseFacts DEF dequeued
  <2>4. PICK i \in DOMAIN trail : i = qhead
    BY <1>4
  <2>5. levelAt(i)' = decisionLevel'
    <3>1. i \in Nat /\ i >= qhead
      BY <1>4, <2>4
    <3> QED BY <1>4, <1>5, <1>6, <3>1
  <2> QED BY <2>2, <2>3, <2>4, <2>5, <2>1
<1>13. DecisionsInv'
  BY <1>1, <1>2 DEF DecisionsInv, levelAt
<1>14. ReasonsImply'
  <2>1. ReasonOfNew(n)
    <3>1. \A i \in DOMAIN trail' : ~(i > n)
      BY <1>2, <1>4
    <3> QED BY <3>1 DEF ReasonOfNew
  <2> QED BY <1>1, <1>5, <1>8, <2>1, KeptReasons
<1>15. WatchInv'
  <2> SUFFICES ASSUME ok', NEW D \in DOMAIN database', NEW j \in DOMAIN trail', (-trail[j].lit \in watched(D))',
                      Seen(j, D)'
               PROVE  \E i \in DOMAIN trail' : trail'[i].lit \in D /\ levelAt(i)' <= levelAt(j)'
    BY DEF WatchInv
  <2>1. pc = "searching" /\ pc' = "conflict"
    BY <1>2
  <2>2. j \in DOMAIN trail /\ j \in 1..n /\ levelAt(j) < decisionLevel
    BY <1>2, <1>4, <1>5, <1>6, <2>1 DEF Seen
  <2>3. j < qhead
    <3>1. decisionLevel \in Nat /\ j \in Nat
      BY <1>1, <1>4, <2>2, TrailFacts
    <3> QED BY <1>4, <2>2, <3>1
  <2>4. D \in DOMAIN database /\ -trail[j].lit \in watched(D)
    BY <1>2 DEF watched, Touched
  <2>5. Seen(j, D)
    BY <2>1, <2>3 DEF Seen
  <2> QED BY <1>1, <1>3, <1>5, <2>2, <2>4, <2>5, KeptWatch
<1>16. WorldsInv'
  <2>1. added' = added /\ DOMAIN database' = DOMAIN database /\ Root' = Root
    BY <1>2 DEF added, Touched, Root, levelAt
  <2>2. CASE pc = "searching"
    BY <1>1, <1>2, <1>3, <1>8, <2>1, <2>2, KeptWorlds
  <2>3. CASE pc = "adding"
    <3>1. decisionLevel = 0
      BY <1>1, <2>3, EmptySeq DEF PhaseInv, decisionLevel
    <3>2. \A W \in worlds : ~Satisfies(W, added')
      BY <1>3, <2>1, <3>1, RootConflict
    <3>3. ~ok'
      BY <1>2, <2>3
    <3> HIDE DEF n
    <3> QED BY <3>2, <3>3 DEF WorldsInv, Satisfies, worlds
  <2> QED BY <1>2, <2>2, <2>3
<1>17. VariablesInv'
  BY <1>1, <1>2 DEF VariablesInv, isUndef, isTrue, isFalse, true_literals, upTo, range, Touched
<1>18. AssumptionsInv'
  BY <1>1, <1>2 DEF AssumptionsInv, levelAt, decisionLevel
<1> QED BY <1>7, <1>8, <1>9, <1>10, <1>11, <1>12, <1>13, <1>14, <1>15, <1>16, <1>17, <1>18 DEF GlucoseInv

LEMMA SameTouched ==
    ASSUME GlucoseTypeOK, DatabaseInv, NEW C \in DOMAIN database, database' = database
    PROVE  Touched(C) /\ {database'[C].lits[1], database'[C].lits[2]} = watched(C)
BY DEF GlucoseTypeOK, DatabaseInv, Touched, watched

\* The clause visited watches the dequeued literal; where else it watches a false literal it is made up for.
LEMMA VisitedFacts ==
    ASSUME GlucoseInv, propagating, NEW C \in visiting
    PROVE  /\ C \in DOMAIN database /\ -dequeued \in watched(C) /\ isFalse(-dequeued) /\ -dequeued \in SatLiterals
           /\ qhead \in DOMAIN trail /\ qhead \in Nat
           /\ \A j \in 1..qhead : -trail[j].lit \in watched(C) =>
                 \/ \E i \in DOMAIN trail : trail[i].lit \in C /\ levelAt(i) <= levelAt(j)
                 \/ j = qhead
           /\ \A i \in DOMAIN trail : levelAt(i) <= levelAt(qhead)
<1>1. /\ GlucoseTypeOK /\ DatabaseInv /\ TrailInv /\ PhaseInv /\ VisitInv /\ WatchInv
  BY DEF GlucoseInv
<1>2. /\ qhead \in DOMAIN trail /\ qhead \in Nat /\ dequeued \in SatLiterals /\ isFalse(-dequeued)
      /\ \A i \in Nat : i >= qhead => levelAt(i) = decisionLevel
  <2>1. visiting # {}
    OBVIOUS
  <2> QED BY <2>1, DequeuedFacts
<1>3. C \in DOMAIN database /\ -dequeued \in watched(C) /\ -dequeued \in SatLiterals
  BY <1>1, <1>2, LiteralFacts DEF GlucoseTypeOK, VisitInv
<1>4. ASSUME NEW j \in 1..qhead, -trail[j].lit \in watched(C), j # qhead
      PROVE  \E i \in DOMAIN trail : trail[i].lit \in C /\ levelAt(i) <= levelAt(j)
  <2>1. j < qhead /\ j \in DOMAIN trail
    BY <1>1, <1>2, <1>4, TrailFacts
  <2>2. ok /\ pc # "conflict"
    BY <1>1 DEF PhaseInv, propagating
  <2>3. Seen(j, C)
    BY <2>1, <2>2 DEF Seen
  <2> QED BY <1>1, <1>3, <1>4, <2>1, <2>2, <2>3 DEF WatchInv
<1>5. ASSUME NEW i \in DOMAIN trail PROVE levelAt(i) <= levelAt(qhead)
  <2>1. levelAt(qhead) = decisionLevel
    BY <1>2
  <2>2. levelAt(i) \in 0..decisionLevel
    BY <1>1, TrailFacts, AtLevel
  <2> QED BY <2>1, <2>2
<1> QED BY <1>2, <1>3, <1>4, <1>5

LEMMA VisitBinaryInv ==
    ASSUME GlucoseInv, NEW C \in visiting, VisitBinary(C)
    PROVE  GlucoseInv'
<1> DEFINE imp == CHOOSE l \in C : l # -dequeued
<1>1. GlucoseTypeOK /\ TrailInv /\ DatabaseInv
  BY DEF GlucoseInv
<1>2. /\ propagating /\ Cardinality(C) = 2 /\ database' = database
      /\ isFalse(imp) => Conflict(C, qhead)
      /\ ~isFalse(imp) => /\ trail' = IF isUndef(imp) THEN enqueue(trail, imp, reasonAt(decisionLevel, C)) ELSE trail
                          /\ Visited(C)
  BY DEF VisitBinary
<1>3. /\ C \in DOMAIN database /\ -dequeued \in watched(C) /\ isFalse(-dequeued) /\ -dequeued \in SatLiterals
      /\ qhead \in DOMAIN trail /\ qhead \in Nat
      /\ \A j \in 1..qhead : -trail[j].lit \in watched(C) =>
            \/ \E i \in DOMAIN trail : trail[i].lit \in C /\ levelAt(i) <= levelAt(j)
            \/ j = qhead
      /\ \A i \in DOMAIN trail : levelAt(i) <= levelAt(qhead)
  BY <1>2, VisitedFacts
<1>4. C = {database[C].lits[1], database[C].lits[2]} /\ database[C].lits[1] # database[C].lits[2]
  BY <1>1, <1>2, <1>3, ClauseFacts DEF watched
<1>5. \E l \in C : l # -dequeued
  BY <1>4
<1>6. imp \in C /\ imp # -dequeued
  BY <1>5
<1> HIDE DEF imp
<1>7. C = {imp, -dequeued} /\ imp \in SatLiterals
  BY <1>1, <1>3, <1>4, <1>6 DEF watched, GlucoseTypeOK
<1>8. Touched(C) /\ {database'[C].lits[1], database'[C].lits[2]} = watched(C)
  BY <1>1, <1>2, <1>3, SameTouched
<1>9. CASE isFalse(imp)
  <2>1. \A q \in C : isFalse(q)
    BY <1>3, <1>7, <1>9
  <2>2. Conflict(C, qhead)
    BY <1>2, <1>9
  <2> QED BY <1>2, <1>8, <2>1, <2>2, ConflictStep
<1>10. CASE ~isFalse(imp)
  <2>1. /\ trail' = IF isUndef(imp) THEN enqueue(trail, imp, reasonAt(decisionLevel, C)) ELSE trail
        /\ visiting' = visiting \ {C} /\ UNCHANGED <<callVars, pc, ok, trail_lim, qhead, order_heap>>
    BY <1>2, <1>10 DEF Visited
  <2>2. \E i \in DOMAIN trail' : trail'[i].lit \in C
    <3>1. CASE isUndef(imp)
      <4>1. reasonAt(decisionLevel, C) \in SUBSET SatLiterals
        BY <1>1, <1>3 DEF reasonAt, GlucoseTypeOK
      <4>2. \E i \in DOMAIN trail' : trail'[i].lit = imp
        BY <1>1, <1>7, <2>1, <3>1, <4>1, Assigned
      <4> QED BY <1>6, <4>2
    <3>2. CASE ~isUndef(imp)
      <4>1. isTrue(imp) /\ trail' = trail
        BY <1>10, <2>1, <3>2 DEF isUndef
      <4> QED BY <1>6, <4>1 DEF isTrue, true_literals
    <3> QED BY <3>1, <3>2
  <2>3. \/ trail' = trail
        \/ \E l \in C : /\ isUndef(l) /\ trail' = enqueue(trail, l, reasonAt(decisionLevel, C))
                        /\ \A q \in C \ {l} : isFalse(q)
                        /\ Cardinality(C) > 2 => database'[C].lits[1] = l
    BY <1>2, <1>3, <1>7, <2>1
  <2>4. \A j \in 1..qhead : (-trail[j].lit \in {database'[C].lits[1], database'[C].lits[2]}) =>
            \/ \E i \in DOMAIN trail : trail[i].lit \in C /\ levelAt(i) <= levelAt(j)
            \/ j = qhead /\ \E i \in DOMAIN trail' : trail'[i].lit \in C
    BY <1>3, <1>8, <2>2
  <2> QED BY <1>2, <1>8, <2>1, <2>3, <2>4, VisitStep
<1> QED BY <1>9, <1>10

\* What becomes of the data of a clause.
LEMMA TurnedFacts ==
    ASSUME GlucoseTypeOK, DatabaseInv, NEW C \in DOMAIN database, NEW f \in watched(C)
    PROVE  LET c == turned(database[C], f)
           IN  /\ c \in ClauseData /\ Lists(c, C) /\ c.list = database[C].list
               /\ c.lits[2] = f /\ {c.lits[1], c.lits[2]} = watched(C)
               /\ database[C].lits[1] # f => c = database[C]
<1> DEFINE o == database[C]
           c == turned(o, f)
<1>1. /\ o \in ClauseData /\ o.lits \in Seq(SatLiterals) /\ Lists(o, C) /\ Len(o.lits) = Cardinality(C)
      /\ Cardinality(C) \in Nat /\ Cardinality(C) >= 2 /\ o.lits[1] # o.lits[2]
      /\ C \subseteq SatLiterals
  BY ClauseFacts DEF DatabaseInv
<1>2. f \in {o.lits[1], o.lits[2]}
  BY DEF watched
<1>3. CASE f # o.lits[1]
  <2>1. c = o
    BY <1>3 DEF turned
  <2> QED BY <1>1, <1>2, <1>3, <2>1 DEF watched
<1>4. CASE f = o.lits[1]
  <2> DEFINE s == o.lits
             t == swapped(s, 1, 2)
  <2>1. s \in Seq(SatLiterals) /\ 1 \in 1..Len(s) /\ 2 \in 1..Len(s)
    BY <1>1
  <2>2. /\ t \in Seq(SatLiterals) /\ Len(t) = Len(s) /\ range(t) = range(s) /\ (Distinct(s) => Distinct(t))
        /\ t[1] = s[2] /\ t[2] = s[1]
    <3> HIDE DEF s
    <3> QED BY <2>1, SwapFacts
  <2>3. c.lits = t /\ c.blockers = <<o.blockers[2], o.blockers[1]>> /\ c.list = o.list
        /\ c = [lits |-> t, blockers |-> <<o.blockers[2], o.blockers[1]>>, list |-> o.list]
    BY <1>1, <1>4 DEF turned, ClauseData, swapped
  <2>4. o.blockers[1] \in C /\ o.blockers[2] \in C /\ o.list \in {"clauses", "learnts", "permanentLearnts"}
    BY <1>1 DEF Lists, ClauseData
  <2>5. Distinct(s) /\ range(s) = C
    BY <1>1 DEF Lists, Distinct
  <2>6. c \in ClauseData
    <3>1. <<o.blockers[2], o.blockers[1]>> \in SatLiterals \X SatLiterals
      BY <1>1, <2>4
    <3> HIDE DEF t, s, o
    <3> QED BY <2>2, <2>3, <2>4, <3>1 DEF ClauseData
  <2>7. Lists(c, C)
    <3>1. c.blockers[1] = o.blockers[2] /\ c.blockers[2] = o.blockers[1]
      BY <2>3
    <3> HIDE DEF t, s, o, c
    <3>2. c.lits = t /\ Distinct(t) /\ range(t) = C /\ Len(t) = Cardinality(C)
      BY <1>1, <2>2, <2>3, <2>5 DEF s
    <3> QED BY <1>1, <2>4, <3>1, <3>2 DEF Lists, Distinct
  <2> QED BY <1>4, <2>2, <2>3, <2>6, <2>7 DEF watched
<1> QED BY <1>3, <1>4

LEMMA BlockerFacts ==
    ASSUME NEW C \in SUBSET SatLiterals, NEW c \in ClauseData, Lists(c, C), Cardinality(C) \in Nat
    PROVE  LET unit == [c EXCEPT !.blockers[2] = c.lits[1]]
           IN  /\ unit \in ClauseData /\ Lists(unit, C) /\ unit.lits = c.lits /\ unit.list = c.list
<1> DEFINE unit == [c EXCEPT !.blockers[2] = c.lits[1]]
<1>1. /\ c.lits \in Seq(SatLiterals) /\ c.blockers \in SatLiterals \X SatLiterals
      /\ c.list \in {"clauses", "learnts", "permanentLearnts"}
      /\ c = [lits |-> c.lits, blockers |-> c.blockers, list |-> c.list]
  BY DEF ClauseData
<1>2. c.lits[1] \in C
  <2>1. 1 \in DOMAIN c.lits
    BY <1>1, LenProperties DEF Lists
  <2> QED BY <2>1 DEF Lists, range
<1>3. unit = [lits |-> c.lits, blockers |-> [c.blockers EXCEPT ![2] = c.lits[1]], list |-> c.list]
  BY <1>1
<1>4. [c.blockers EXCEPT ![2] = c.lits[1]] = <<c.blockers[1], c.lits[1]>>
  BY <1>1
<1>5. unit = [lits |-> c.lits, blockers |-> <<c.blockers[1], c.lits[1]>>, list |-> c.list]
  BY <1>3, <1>4
<1>6. c.blockers[1] \in C /\ <<c.blockers[1], c.lits[1]>> \in SatLiterals \X SatLiterals
  BY <1>2 DEF Lists
<1> HIDE DEF unit
<1>7. unit \in ClauseData /\ unit.lits = c.lits /\ unit.list = c.list
  BY <1>1, <1>5, <1>6 DEF ClauseData
<1>8. Lists(unit, C)
  <2>1. unit.blockers[1] = c.blockers[1] /\ unit.blockers[2] = c.lits[1]
    BY <1>5
  <2> QED BY <1>2, <1>7, <2>1 DEF Lists
<1> QED BY <1>7, <1>8 DEF unit

LEMMA RewatchFacts ==
    ASSUME NEW C \in SUBSET SatLiterals, NEW c \in ClauseData, Lists(c, C), Cardinality(C) \in Nat,
           NEW k \in 3..Len(c.lits)
    PROVE  LET d == rewatch(c, k)
           IN  /\ d \in ClauseData /\ Lists(d, C) /\ d.list = c.list
               /\ d.lits[1] = c.lits[1] /\ d.lits[2] = c.lits[k]
<1> DEFINE s == c.lits
           t == swapped(s, 2, k)
           e == [c EXCEPT !.lits = t]
           d == rewatch(c, k)
<1>1. /\ s \in Seq(SatLiterals) /\ c.blockers \in SatLiterals \X SatLiterals
      /\ c.list \in {"clauses", "learnts", "permanentLearnts"}
      /\ c = [lits |-> s, blockers |-> c.blockers, list |-> c.list]
      /\ Len(s) = Cardinality(C) /\ Cardinality(C) >= 2 /\ range(s) = C /\ Distinct(s)
  BY DEF ClauseData, Lists, Distinct
<1>2. 1 \in 1..Len(s) /\ 2 \in 1..Len(s) /\ k \in 1..Len(s) /\ 1 # 2 /\ 1 # k
  BY <1>1
<1>3. /\ t \in Seq(SatLiterals) /\ Len(t) = Len(s) /\ range(t) = range(s) /\ Distinct(t)
      /\ t[1] = s[1] /\ t[2] = s[k]
  <2> HIDE DEF s
  <2>1. /\ t \in Seq(SatLiterals) /\ Len(t) = Len(s) /\ range(t) = range(s) /\ (Distinct(s) => Distinct(t))
        /\ t[2] = s[k] /\ \A m \in 1..Len(s) : m # 2 /\ m # k => t[m] = s[m]
    <3>1. s \in Seq(SatLiterals) /\ 2 \in 1..Len(s) /\ k \in 1..Len(s)
      BY <1>1, <1>2
    <3> QED BY <3>1, SwapFacts
  <2> HIDE DEF t
  <2> QED BY <1>1, <1>2, <2>1
<1>4. e = [lits |-> t, blockers |-> c.blockers, list |-> c.list] /\ e \in ClauseData
  <2>1. e = [lits |-> t, blockers |-> c.blockers, list |-> c.list]
    <3> HIDE DEF t
    <3> QED BY <1>1
  <2> HIDE DEF t, e, s
  <2> QED BY <1>1, <1>3, <2>1 DEF ClauseData
<1>5. Lists(e, C)
  <2>1. e.lits = t /\ e.blockers = c.blockers
    BY <1>4
  <2> HIDE DEF e, t, s
  <2> QED BY <1>1, <1>3, <2>1 DEF Lists, Distinct
<1>6. d = [e EXCEPT !.blockers[2] = e.lits[1]]
  <2>1. e.lits[1] = s[1]
    BY <1>3, <1>4
  <2>2. d = [e EXCEPT !.blockers[2] = s[1]]
    <3> DEFINE m == [c EXCEPT !.lits[2] = s[k], !.lits[k] = s[2]]
    <3>1. m = e
      <4>1. m = [lits |-> t, blockers |-> c.blockers, list |-> c.list]
        <5> DEFINE s1 == [s EXCEPT ![2] = s[k]]
                   m1 == [c EXCEPT !.lits = s1]
        <5>1. m1 = [lits |-> s1, blockers |-> c.blockers, list |-> c.list]
          <6> HIDE DEF s1
          <6> QED BY <1>1
        <5>2. [m1 EXCEPT !.lits[k] = s[2]] = [lits |-> [s1 EXCEPT ![k] = s[2]], blockers |-> c.blockers, list |-> c.list]
          <6> HIDE DEF s1, m1
          <6> QED BY <5>1
        <5>3. [s1 EXCEPT ![k] = s[2]] = t
          BY DEF swapped
        <5>4. m = [m1 EXCEPT !.lits[k] = s[2]]
          OBVIOUS
        <5> HIDE DEF m, m1, s1, t
        <5> QED BY <5>2, <5>3, <5>4
      <4> QED BY <1>4, <4>1
    <3>2. d = [m EXCEPT !.blockers[2] = s[1]]
      BY DEF rewatch
    <3> QED BY <3>1, <3>2
  <2> QED BY <2>1, <2>2
<1>7. e.lits = t /\ e.list = c.list
  BY <1>4
<1> HIDE DEF e, d, t
<1>8. d \in ClauseData /\ Lists(d, C) /\ d.lits = t /\ d.list = c.list
  BY <1>4, <1>5, <1>6, <1>7, BlockerFacts
<1> QED BY <1>3, <1>8 DEF d, t

LEMMA ChangedTouched ==
    ASSUME GlucoseTypeOK, NEW C \in DOMAIN database, NEW d \in ClauseData, Lists(d, C), d.list = database[C].list,
           \A i \in DOMAIN trail : levelAt(i) > 0 /\ trail[i].reason = C /\ Cardinality(C) > 2 =>
               d.lits[1] = database[C].lits[1],
           database' = [database EXCEPT ![C] = d]
    PROVE  Touched(C) /\ database'[C] = d
<1>1. database'[C] = d /\ DOMAIN database' = DOMAIN database /\ \A D \in DOMAIN database : D # C => database'[D] = database[D]
  BY DEF GlucoseTypeOK
<1>2. database' \in [DOMAIN database -> ClauseData]
  BY DEF GlucoseTypeOK
<1> QED BY <1>1, <1>2 DEF Touched

LEMMA VisitLongInv ==
    ASSUME GlucoseInv, NEW C \in visiting, VisitLong(C)
    PROVE  GlucoseInv'
<1> DEFINE false_lit == -dequeued
           old == database[C]
           blocker == old.blockers[CHOOSE i \in 1..2 : old.lits[i] = false_lit]
           c == turned(old, false_lit)
           first == c.lits[1]
           unit == [c EXCEPT !.blockers[2] = first]
           next == CHOOSE k \in replacements(c) : \A j \in replacements(c) : k <= j
<1>1. GlucoseTypeOK /\ TrailInv /\ DatabaseInv /\ ReasonsImply
  BY DEF GlucoseInv
<1>2. /\ propagating /\ Cardinality(C) > 2
      /\ isTrue(blocker) => Visited(C) /\ UNCHANGED <<database, trail>>
      /\ ~isTrue(blocker) /\ ~isTrue(first) /\ replacements(c) # {} =>
            /\ database' = [database EXCEPT ![C] = rewatch(c, next)]
            /\ Visited(C) /\ UNCHANGED trail
      /\ ~isTrue(blocker) /\ (isTrue(first) \/ replacements(c) = {}) =>
            /\ database' = [database EXCEPT ![C] = unit]
            /\ isFalse(first) => Conflict(C, Len(trail))
            /\ ~isFalse(first) => /\ trail' = IF isTrue(first) THEN trail
                                              ELSE enqueue(trail, first, reasonAt(decisionLevel, C))
                                  /\ Visited(C)
  BY DEF VisitLong
<1>3. /\ C \in DOMAIN database /\ false_lit \in watched(C) /\ isFalse(false_lit) /\ false_lit \in SatLiterals
      /\ qhead \in DOMAIN trail /\ qhead \in Nat
      /\ \A j \in 1..qhead : -trail[j].lit \in watched(C) =>
            \/ \E i \in DOMAIN trail : trail[i].lit \in C /\ levelAt(i) <= levelAt(j)
            \/ j = qhead
      /\ \A i \in DOMAIN trail : levelAt(i) <= levelAt(qhead)
  BY <1>2, VisitedFacts
<1>4. -trail[qhead].lit = false_lit
  BY DEF dequeued
<1>5. /\ c \in ClauseData /\ Lists(c, C) /\ c.list = old.list
      /\ c.lits[2] = false_lit /\ {first, false_lit} = watched(C)
      /\ old.lits[1] # false_lit => c = old
  <2> HIDE DEF false_lit
  <2>1. /\ c \in ClauseData /\ Lists(c, C) /\ c.list = old.list
        /\ c.lits[2] = false_lit /\ {c.lits[1], c.lits[2]} = watched(C)
        /\ old.lits[1] # false_lit => c = old
    BY <1>1, <1>3, TurnedFacts
  <2> QED BY <2>1
<1>6. /\ C \in SUBSET SatLiterals /\ Cardinality(C) \in Nat /\ c.lits \in Seq(SatLiterals) /\ Len(c.lits) = Cardinality(C)
      /\ DOMAIN c.lits = 1..Cardinality(C)
      /\ \A k \in 1..Cardinality(C) : c.lits[k] \in C
      /\ \A q \in C : \E k \in 1..Cardinality(C) : c.lits[k] = q
      /\ \A k, m \in 1..Cardinality(C) : c.lits[k] = c.lits[m] => k = m
  <2> HIDE DEF c
  <2>1. C \in SUBSET SatLiterals /\ Cardinality(C) \in Nat
    BY <1>1, <1>3, ClauseFacts
  <2>2. c.lits \in Seq(SatLiterals) /\ Len(c.lits) = Cardinality(C) /\ DOMAIN c.lits = 1..Cardinality(C)
    BY <1>5, LenProperties DEF ClauseData, Lists
  <2> QED BY <1>5, <2>1, <2>2 DEF Lists, range
<1>7. first \in C /\ first # false_lit
  <2>1. 1 \in 1..Cardinality(C) /\ 2 \in 1..Cardinality(C)
    BY <1>2, <1>6
  <2> QED BY <1>5, <1>6, <2>1
<1>8. blocker \in C
  <2> DEFINE i == CHOOSE i \in 1..2 : old.lits[i] = false_lit
  <2>1. \E m \in 1..2 : old.lits[m] = false_lit
    BY <1>3 DEF watched
  <2>2. i \in 1..2
    BY <2>1
  <2>3. old.blockers[1] \in C /\ old.blockers[2] \in C
    BY <1>1, <1>3 DEF DatabaseInv, Lists
  <2> HIDE DEF i
  <2>4. i = 1 \/ i = 2
    BY <2>2
  <2>5. old.blockers[i] \in C
    BY <2>3, <2>4
  <2> QED BY <2>5 DEF i
\* A reason has its true literal first.
<1>9. ASSUME NEW i \in DOMAIN trail, levelAt(i) > 0, trail[i].reason = C, Cardinality(C) > 2 PROVE c = old
  <2>1. C # {}
    BY <1>7
  <2>2. old.lits[1] = trail[i].lit /\ trail[i].lit \in SatLiterals
    BY <1>1, <1>9, <2>1, TrailFacts DEF ReasonsImply
  <2>3. isTrue(trail[i].lit)
    BY DEF isTrue, true_literals
  <2>4. old.lits[1] # false_lit
    BY <1>1, <1>3, <2>2, <2>3, FalseFacts
  <2> QED BY <1>5, <2>4
<1> HIDE DEF c, false_lit, blocker
<1>10. ASSUME Visited(C)
       PROVE  visiting' = visiting \ {C} /\ UNCHANGED <<callVars, pc, ok, trail_lim, qhead, order_heap>>
  BY <1>10 DEF Visited
<1>11. CASE isTrue(blocker)
  <2>1. Visited(C) /\ database' = database /\ trail' = trail
    BY <1>2, <1>11
  <2>2. Touched(C) /\ {database'[C].lits[1], database'[C].lits[2]} = watched(C)
    BY <1>1, <1>3, <2>1, SameTouched
  <2>3. \E i \in DOMAIN trail' : trail'[i].lit \in C
    BY <1>8, <1>11, <2>1 DEF isTrue, true_literals
  <2>4. \A j \in 1..qhead : (-trail[j].lit \in {database'[C].lits[1], database'[C].lits[2]}) =>
            \/ \E i \in DOMAIN trail : trail[i].lit \in C /\ levelAt(i) <= levelAt(j)
            \/ j = qhead /\ \E i \in DOMAIN trail' : trail'[i].lit \in C
    BY <1>3, <2>2, <2>3
  <2> QED BY <1>2, <1>10, <2>1, <2>2, <2>4, VisitStep
<1>12. CASE ~isTrue(blocker) /\ ~isTrue(first) /\ replacements(c) # {}
  <2>1. Visited(C) /\ database' = [database EXCEPT ![C] = rewatch(c, next)] /\ trail' = trail
    BY <1>2, <1>12
  <2>2. next \in replacements(c)
    <3>1. replacements(c) \in SUBSET Nat
      BY DEF replacements
    <3>2. \E k \in replacements(c) : \A j \in replacements(c) : k <= j
      BY <1>12, <3>1, LeastNumber
    <3> QED BY <3>2
  <2> HIDE DEF next
  <2>3. next \in 3..Len(c.lits) /\ ~isFalse(c.lits[next]) /\ next \in 1..Cardinality(C)
    <3>1. next \in 3..Len(c.lits) /\ ~isFalse(c.lits[next])
      BY <2>2 DEF replacements
    <3> QED BY <1>6, <3>1
  <2> DEFINE d == rewatch(c, next)
  <2>4. d \in ClauseData /\ Lists(d, C) /\ d.list = old.list /\ d.lits[1] = first /\ d.lits[2] = c.lits[next]
    BY <1>5, <1>6, <2>3, RewatchFacts
  <2> HIDE DEF d
  <2>5. \A i \in DOMAIN trail : levelAt(i) > 0 /\ trail[i].reason = C /\ Cardinality(C) > 2 => d.lits[1] = old.lits[1]
    BY <1>9, <2>4
  <2>6. Touched(C) /\ database'[C] = d
    <3>1. database' = [database EXCEPT ![C] = d]
      BY <2>1 DEF d
    <3> QED BY <1>1, <1>3, <2>4, <2>5, <3>1, ChangedTouched
  <2>7. ASSUME NEW j \in 1..qhead, -trail[j].lit \in {database'[C].lits[1], database'[C].lits[2]}
        PROVE  \E i \in DOMAIN trail : trail[i].lit \in C /\ levelAt(i) <= levelAt(j)
    <3>1. j \in DOMAIN trail
      BY <1>1, <1>3, TrailFacts
    <3>2. -trail[j].lit # c.lits[next]
      <4>1. c.lits[next] \in SatLiterals
        BY <1>6, <2>3
      <4>2. \A i \in DOMAIN trail : trail[i].lit # -c.lits[next]
        BY <1>1, <2>3, <4>1, FalseFacts
      <4> QED BY <1>1, <3>1, <4>1, <4>2, FalseFacts
    <3>3. -trail[j].lit = first
      BY <2>4, <2>6, <2>7, <3>2
    <3>4. j # qhead
      BY <1>4, <1>7, <3>3
    <3> QED BY <1>3, <1>5, <3>3, <3>4
  <2> QED BY <1>2, <1>10, <2>1, <2>6, <2>7, VisitStep
<1>13. CASE ~isTrue(blocker) /\ (isTrue(first) \/ replacements(c) = {})
  <2>1. /\ database' = [database EXCEPT ![C] = unit]
        /\ isFalse(first) => Conflict(C, Len(trail))
        /\ ~isFalse(first) => /\ trail' = IF isTrue(first) THEN trail
                                          ELSE enqueue(trail, first, reasonAt(decisionLevel, C))
                              /\ Visited(C)
    BY <1>2, <1>13
  <2>2. unit \in ClauseData /\ Lists(unit, C) /\ unit.list = old.list /\ unit.lits = c.lits
    BY <1>5, <1>6, BlockerFacts
  <2> HIDE DEF unit
  <2>3. Touched(C) /\ database'[C] = unit
    <3>1. \A i \in DOMAIN trail : levelAt(i) > 0 /\ trail[i].reason = C /\ Cardinality(C) > 2 => unit.lits[1] = old.lits[1]
      BY <1>9, <2>2
    <3> QED BY <1>1, <1>3, <2>1, <2>2, <3>1, ChangedTouched
  <2>4. {database'[C].lits[1], database'[C].lits[2]} = watched(C) /\ database'[C].lits[1] = first
    BY <1>5, <2>2, <2>3
  <2>5. first \in SatLiterals
    BY <1>6, <1>7
  <2>6. ~isTrue(first) => \A q \in C \ {first} : isFalse(q)
    <3> SUFFICES ASSUME ~isTrue(first), NEW q \in C, q # first PROVE isFalse(q)
      OBVIOUS
    <3>1. replacements(c) = {}
      BY <1>13
    <3>2. PICK k \in 1..Cardinality(C) : c.lits[k] = q
      BY <1>6
    <3>3. CASE k = 2
      BY <1>3, <1>5, <3>2, <3>3
    <3>4. CASE k # 2
      <4>1. k # 1
        BY <3>2
      <4>2. k \in 3..Len(c.lits)
        BY <1>6, <3>4, <4>1
      <4> QED BY <3>1, <3>2, <4>2 DEF replacements
    <3> QED BY <3>3, <3>4
  <2>7. CASE isFalse(first)
    <3>1. ~isTrue(first)
      BY <1>1, <2>5, <2>7, FalseFacts
    <3>2. \A q \in C : isFalse(q)
      BY <2>6, <2>7, <3>1
    <3>3. Conflict(C, Len(trail))
      BY <2>1, <2>7
    <3> QED BY <1>2, <2>3, <2>4, <3>2, <3>3, ConflictStep
  <2>8. CASE ~isFalse(first)
    <3>1. /\ trail' = IF isTrue(first) THEN trail ELSE enqueue(trail, first, reasonAt(decisionLevel, C))
          /\ Visited(C)
      BY <2>1, <2>8
    <3>2. \E i \in DOMAIN trail' : trail'[i].lit \in C
      <4>1. CASE isTrue(first)
        BY <1>7, <3>1, <4>1 DEF isTrue, true_literals
      <4>2. CASE ~isTrue(first)
        <5>1. reasonAt(decisionLevel, C) \in SUBSET SatLiterals
          BY <1>6 DEF reasonAt
        <5>2. \E i \in DOMAIN trail' : trail'[i].lit = first
          BY <1>1, <2>5, <3>1, <4>2, <5>1, Assigned
        <5> QED BY <1>7, <5>2
      <4> QED BY <4>1, <4>2
    <3>3. \/ trail' = trail
          \/ \E l \in C : /\ isUndef(l) /\ trail' = enqueue(trail, l, reasonAt(decisionLevel, C))
                          /\ \A q \in C \ {l} : isFalse(q)
                          /\ Cardinality(C) > 2 => database'[C].lits[1] = l
      BY <1>7, <2>4, <2>6, <2>8, <3>1 DEF isUndef
    <3>4. \A j \in 1..qhead : (-trail[j].lit \in {database'[C].lits[1], database'[C].lits[2]}) =>
              \/ \E i \in DOMAIN trail : trail[i].lit \in C /\ levelAt(i) <= levelAt(j)
              \/ j = qhead /\ \E i \in DOMAIN trail' : trail'[i].lit \in C
      BY <1>3, <2>4, <3>2
    <3> QED BY <1>2, <1>10, <2>3, <3>1, <3>3, <3>4, VisitStep
  <2> QED BY <2>7, <2>8
<1> QED BY <1>11, <1>12, <1>13

--------------------------------------------------------------------------------
(***************************************************************************)
(* Calls: clauses are added, and solve is called.                          *)
(***************************************************************************)
\* A finite set of numbers has a bound.
LEMMA Bounded ==
    ASSUME NEW S \in SUBSET Nat, IsFiniteSet(S)
    PROVE  \E b \in Nat : \A x \in S : x <= b
<1> DEFINE T == {n \in Nat : \A D \in SUBSET Nat : IsFiniteSet(D) /\ Cardinality(D) = n => \E b \in Nat : \A x \in D : x <= b}
           N == Cardinality(S)
<1>1. 0 \in T
  <2>1. ASSUME NEW D \in SUBSET Nat, IsFiniteSet(D), Cardinality(D) = 0 PROVE \E b \in Nat : \A x \in D : x <= b
    <3>1. D = {}
      BY <2>1, FS_EmptySet
    <3> QED BY <3>1
  <2> QED BY <2>1
<1>2. ASSUME NEW n \in 1..N, n - 1 \in T PROVE n \in T
  <2>0. n \in Nat /\ n # 0
    BY FS_CardinalityType
  <2> SUFFICES ASSUME NEW D \in SUBSET Nat, IsFiniteSet(D), Cardinality(D) = n
               PROVE  \E b \in Nat : \A x \in D : x <= b
    BY <2>0
  <2>1. PICK d \in D : TRUE
    BY <2>0, FS_EmptySet
  <2>2. D \ {d} \in SUBSET Nat /\ IsFiniteSet(D \ {d}) /\ Cardinality(D \ {d}) = n - 1
    BY FS_RemoveElement
  <2>3. PICK b \in Nat : \A x \in D \ {d} : x <= b
    BY <1>2, <2>2
  <2>4. CASE d <= b
    BY <2>3, <2>4
  <2>5. CASE ~(d <= b)
    <3>1. \A x \in D : x <= d
      BY <2>3, <2>5
    <3> QED BY <3>1
  <2> QED BY <2>4, <2>5
<1>3. N \in Nat
  BY FS_CardinalityType
<1> HIDE DEF T, N
<1>4. N \in T
  BY <1>1, <1>2, <1>3, UpTo
<1> QED BY <1>4 DEF T, N

LEMMA MaxVarFacts ==
    ASSUME NEW C \in SUBSET SatLiterals
    PROVE  maxVar(C) \in Nat /\ \A l \in C : var(l) <= maxVar(C)
<1>1. CASE C = {}
  BY <1>1 DEF maxVar
<1>2. CASE C # {}
  <2> DEFINE S == {var(l) : l \in C}
  <2>1. S \in SUBSET SatVariables /\ S \in SUBSET Nat /\ S # {}
    BY <1>2, LiteralFacts
  <2>2. IsFiniteSet(S)
    BY <2>1, GlucoseAssumption, FS_Subset
  <2>3. PICK b \in Nat : \A x \in S : x <= b
    <3> HIDE DEF S
    <3> QED BY <2>1, <2>2, Bounded
  <2>4. PICK m \in S : \A n \in S : n <= m
    <3> HIDE DEF S
    <3> QED BY <2>1, <2>3, GreatestNumber
  <2>5. \E n \in S : \A l \in C : var(l) <= n
    BY <2>4
  <2>6. maxVar(C) \in S /\ \A l \in C : var(l) <= maxVar(C)
    BY <1>2, <2>5 DEF maxVar
  <2> QED BY <2>1, <2>6
<1> QED BY <1>1, <1>2

LEMMA NewVarsFacts ==
    ASSUME GlucoseTypeOK, VariablesInv, NEW m \in Nat, newVars(m)
    PROVE  /\ max_var' \in Nat /\ max_var' >= max_var /\ max_var' >= m
           /\ order_heap' \subseteq upTo(max_var') /\ order_heap' \subseteq SatVariables
           /\ \A v \in upTo(max_var') : isUndef(v) => v \in order_heap'
<1>1. max_var' = (IF m > max_var THEN m ELSE max_var) /\ order_heap' = order_heap \cup (upTo(m) \ upTo(max_var))
  BY DEF newVars
<1>2. max_var \in Nat /\ max_var' \in Nat /\ max_var' >= max_var /\ max_var' >= m /\ max_var' \in {m, max_var}
  BY <1>1 DEF GlucoseTypeOK
<1>3. SatVariables \subseteq Nat
  BY GlucoseAssumption
<1>4. order_heap' \subseteq upTo(max_var')
  <2>1. ASSUME NEW b \in {m, max_var} PROVE upTo(b) \subseteq upTo(max_var')
    <3>1. \A v \in SatVariables : v <= b => v <= max_var'
      <4>1. b \in Nat /\ b <= max_var' /\ max_var' \in Nat /\ \A v \in SatVariables : v \in Nat
        BY <1>2, <1>3
      <4> QED BY <4>1
    <3> QED BY <3>1 DEF upTo
  <2>2. upTo(max_var) \subseteq upTo(max_var') /\ upTo(m) \subseteq upTo(max_var')
    BY <2>1
  <2> QED BY <1>1, <2>2 DEF VariablesInv
<1>5. ASSUME NEW v \in upTo(max_var'), isUndef(v) PROVE v \in order_heap'
  <2>1. v \in upTo(max_var) \/ v \in upTo(m)
    BY <1>2 DEF upTo
  <2> QED BY <1>1, <1>5, <2>1 DEF VariablesInv
<1> QED BY <1>2, <1>4, <1>5 DEF upTo

LEMMA NoLevels ==
    ASSUME GlucoseInv, pc \in {"ready", "adding"}
    PROVE  /\ trail_lim = <<>> /\ decisionLevel = 0 /\ \A i \in Nat : levelAt(i) = 0
           /\ Root = true_literals /\ DOMAIN trail_lim = {}
<1>1. GlucoseTypeOK /\ TrailInv /\ PhaseInv
  BY DEF GlucoseInv
<1>2. trail_lim = <<>> /\ decisionLevel = 0
  BY <1>1, EmptySeq DEF PhaseInv, decisionLevel
<1>3. \A i \in Nat : levelAt(i) \in 0..0
  BY <1>1, <1>2, AtLevel
<1>4. \A i \in DOMAIN trail : levelAt(i) = 0
  BY <1>1, <1>3, TrailFacts
<1>5. DOMAIN trail_lim = {}
  BY <1>1, <1>2, TrailFacts
<1> QED BY <1>2, <1>3, <1>4, <1>5 DEF Root, true_literals

LEMMA CallStep ==
    ASSUME GlucoseInv, pc = "ready", UNCHANGED <<clause_list, trail, trail_lim, qhead, database, visiting>>,
           pc' \in {"ready", "searching"}, ok' \in BOOLEAN, ok' => ok, pc' = "searching" => ok',
           nof_added' \in 0..Len(clause_list), assumptions' \in Seq(SatLiterals),
           NEW m \in Nat, newVars(m), \A l \in range(assumptions') : var(l) <= max_var',
           WorldsInv'
    PROVE  GlucoseInv'
<1>1. /\ GlucoseTypeOK /\ DatabaseInv /\ TrailInv /\ PhaseInv /\ VisitInv /\ ConflictInv /\ DecisionsInv
      /\ ReasonsImply /\ WatchInv /\ WorldsInv /\ VariablesInv /\ AssumptionsInv
  BY DEF GlucoseInv
<1>2. /\ max_var' \in Nat /\ max_var' >= max_var
      /\ order_heap' \subseteq upTo(max_var') /\ order_heap' \subseteq SatVariables
      /\ \A v \in upTo(max_var') : isUndef(v) => v \in order_heap'
  BY <1>1, NewVarsFacts
<1>3. visiting = {}
  BY <1>1 DEF PhaseInv
<1>4. /\ trail_lim = <<>> /\ decisionLevel = 0 /\ \A i \in DOMAIN trail : levelAt(i) = 0
  <2>1. \A i \in DOMAIN trail : i \in Nat
    BY <1>1, TrailFacts
  <2> QED BY <2>1, NoLevels
<1>5. GlucoseTypeOK'
  BY <1>1, <1>2 DEF GlucoseTypeOK, Phases
<1>6. DatabaseInv' /\ TrailInv' /\ DecisionsInv' /\ ReasonsImply'
  <2>1. DatabaseInv'
    BY <1>1 DEF DatabaseInv, Lists
  <2>2. TrailInv'
    BY <1>1 DEF TrailInv
  <2>3. DecisionsInv'
    BY <1>1 DEF DecisionsInv, levelAt
  <2>4. ReasonsImply'
    BY <1>1 DEF ReasonsImply, levelAt
  <2> QED BY <2>1, <2>2, <2>3, <2>4
<1>7. PhaseInv' /\ VisitInv' /\ ConflictInv'
  BY <1>1, <1>3, <1>4 DEF PhaseInv, VisitInv, ConflictInv
<1>8. WatchInv'
  <2> SUFFICES ASSUME ok', NEW C \in DOMAIN database', NEW j \in DOMAIN trail', (-trail[j].lit \in watched(C))', Seen(j, C)'
               PROVE  \E i \in DOMAIN trail' : trail'[i].lit \in C /\ levelAt(i)' <= levelAt(j)'
    BY DEF WatchInv
  <2>1. /\ ok /\ C \in DOMAIN database /\ j \in DOMAIN trail /\ -trail[j].lit \in watched(C)
        /\ DOMAIN trail' = DOMAIN trail /\ \A i : levelAt(i)' = levelAt(i)
    BY DEF watched, levelAt
  <2>2. Seen(j, C)
    BY DEF Seen
  <2>3. \E i \in DOMAIN trail : trail[i].lit \in C /\ levelAt(i) <= levelAt(j)
    BY <1>1, <2>1, <2>2 DEF WatchInv
  <2> QED BY <2>1, <2>3
<1>9. VariablesInv'
  <2>1. \A v \in SatVariables : isUndef(v)' = isUndef(v)
    BY DEF isUndef, isTrue, isFalse, true_literals
  <2>2. \A i \in DOMAIN trail : var(trail[i].lit) <= max_var'
    <3>1. \A i \in DOMAIN trail : var(trail[i].lit) \in Nat /\ var(trail[i].lit) <= max_var /\ max_var \in Nat
      BY <1>1, TrailFacts, LiteralFacts DEF VariablesInv, GlucoseTypeOK
    <3> QED BY <1>2, <3>1
  <2>3. \A C \in DOMAIN database : \A l \in C : var(l) <= max_var'
    <3>1. \A C \in DOMAIN database : \A l \in C : var(l) \in Nat /\ var(l) <= max_var /\ max_var \in Nat
      BY <1>1, LiteralFacts DEF VariablesInv, GlucoseTypeOK
    <3> QED BY <1>2, <3>1
  <2>4. \A v \in upTo(max_var') : isUndef(v)' => v \in order_heap'
    BY <1>2, <2>1 DEF upTo
  <2>5. (\A v \in upTo(max_var) : isUndef(v) => v \in order_heap)' /\ (order_heap \subseteq upTo(max_var))'
    BY <1>2, <2>4 DEF upTo
  <2>6. (\A l \in range(assumptions) : var(l) <= max_var)'
    BY DEF range
  <2> QED BY <2>2, <2>3, <2>5, <2>6 DEF VariablesInv
<1>10. AssumptionsInv'
  <2>1. \A i \in DOMAIN trail' : levelAt(i)' = 0
    BY <1>4 DEF levelAt
  <2>2. decisionLevel' = 0
    BY <1>4 DEF decisionLevel
  <2>3. DOMAIN assumptions' = 1..Len(assumptions') /\ Len(assumptions') \in Nat
    BY LenProperties
  <2> QED BY <2>1, <2>2, <2>3 DEF AssumptionsInv
<1> QED BY <1>5, <1>6, <1>7, <1>8, <1>9, <1>10 DEF GlucoseInv

LEMMA SolveInv ==
    ASSUME GlucoseInv, NEW A \in AssumptionLists, NEW with_limit, Solve(A, with_limit)
    PROVE  GlucoseInv'
<1>1. GlucoseTypeOK /\ WorldsInv /\ VariablesInv
  BY DEF GlucoseInv
<1>2. /\ pc = "ready" /\ assumptions' = A /\ newVars(maxVar(range(A)))
      /\ pc' = IF ok THEN "searching" ELSE "ready"
      /\ UNCHANGED <<clause_list, nof_added, ok, database, trail, trail_lim, qhead, visiting>>
  BY DEF Solve
<1>3. A \in Seq(SatLiterals)
  BY GlucoseAssumption
<1>4. range(A) \in SUBSET SatLiterals
  BY <1>3, LenProperties, ElementOfSeq DEF range
<1>5. maxVar(range(A)) \in Nat /\ \A l \in range(A) : var(l) <= maxVar(range(A)) /\ var(l) \in Nat
  BY <1>4, MaxVarFacts, LiteralFacts
<1>6. max_var' \in Nat /\ max_var' >= maxVar(range(A))
  BY <1>1, <1>2, <1>5, NewVarsFacts
<1>7. \A l \in range(assumptions') : var(l) <= max_var'
  BY <1>2, <1>5, <1>6
<1>8. WorldsInv'
  <2>1. added' = added /\ Root' = Root /\ Given' = Given
    BY <1>2 DEF added, Root, Given, levelAt
  <2>2. WorldsInv' = WorldsInv
    BY <1>2, <2>1 DEF WorldsInv, Satisfies, worlds
  <2> QED BY <1>1, <2>2
<1>9. ok \in BOOLEAN /\ nof_added \in 0..Len(clause_list)
  BY <1>1 DEF GlucoseTypeOK
<1> QED BY <1>2, <1>3, <1>5, <1>7, <1>8, <1>9, CallStep

\* A clause is added that is not settled yet: to the database or, a single literal, to the
\* trail.
StoredClause(C) ==
    /\ Cardinality(C) > 1 /\ \A l \in C : ~isFalse(l)
    /\ database' = withClause(C, attach(sorted(C), "clauses"))
    /\ trail' = trail /\ pc' = "ready"
AssertedLiteral(C) ==
    /\ database' = database /\ pc' = "adding"
    /\ \E l \in C : isUndef(l) /\ trail' = enqueue(trail, l, {})

LEMMA StoredFacts ==
    ASSUME GlucoseTypeOK, DatabaseInv, NEW C \in SUBSET SatLiterals, StoredClause(C)
    PROVE  /\ DOMAIN database' = DOMAIN database \cup {C}
           /\ \A D \in DOMAIN database \ {C} : database'[D] = database[D]
           /\ database' \in [DOMAIN database' -> ClauseData]
           /\ \A D \in DOMAIN database' : Lists(database'[D], D)
           /\ database'[C].list = "clauses" /\ {database'[C].lits[1], database'[C].lits[2]} \subseteq C
<1> DEFINE s == sorted(C)
           N == Cardinality(C)
           data == attach(s, "clauses")
<1>1. /\ DOMAIN database' = DOMAIN database \cup {C}
      /\ \A D \in DOMAIN database \ {C} : database'[D] = database[D]
      /\ database' = [D \in DOMAIN database \cup {C} |-> IF D = C THEN data ELSE database[D]]
      /\ database'[C] = data
  BY DEF StoredClause, withClause
<1>2. /\ s \in [1..N -> C] /\ N \in Nat /\ N > 1
      /\ \A l \in C : \E k \in 1..N : s[k] = l
      /\ \A k, m \in 1..N : s[k] = s[m] => k = m
  BY SortedFacts DEF StoredClause
<1>3. data = [lits |-> s, blockers |-> <<s[2], s[1]>>, list |-> "clauses"]
  BY DEF attach
<1> HIDE DEF s, N, data
<1>4. 1 \in 1..N /\ 2 \in 1..N /\ s[1] \in C /\ s[2] \in C
  BY <1>2
<1>5. s \in Seq(SatLiterals) /\ Len(s) = N /\ DOMAIN s = 1..N
  <2>1. s \in [1..N -> SatLiterals]
    BY <1>2
  <2>2. s \in Seq(SatLiterals)
    BY <1>2, <2>1, SeqDef
  <2>3. DOMAIN s = 1..N /\ DOMAIN s = 1..Len(s) /\ Len(s) \in Nat
    BY <1>2, <2>2, LenProperties
  <2> QED BY <1>2, <2>2, <2>3
<1>6. data \in ClauseData
  BY <1>3, <1>4, <1>5 DEF ClauseData
<1>7. Lists(data, C)
  <2>1. range(s) = C
    BY <1>2, <1>5 DEF range
  <2> QED BY <1>2, <1>3, <1>4, <1>5, <2>1 DEF Lists, N
<1>8. database' \in [DOMAIN database' -> ClauseData]
  <2>1. \A D \in DOMAIN database : database[D] \in ClauseData
    BY DEF GlucoseTypeOK
  <2> QED BY <1>1, <1>6, <2>1
<1>9. \A D \in DOMAIN database' : Lists(database'[D], D)
  BY <1>1, <1>7 DEF DatabaseInv
<1> QED BY <1>1, <1>3, <1>4, <1>8, <1>9

LEMMA AddStep ==
    ASSUME GlucoseInv, pc = "ready", ok, ok', UNCHANGED <<clause_list, assumptions, trail_lim, qhead, visiting>>,
           nof_added' \in 0..Len(clause_list),
           NEW m \in Nat, newVars(m), NEW C \in SUBSET SatLiterals, \A l \in C : var(l) <= m,
           StoredClause(C) \/ AssertedLiteral(C),
           WorldsInv'
    PROVE  GlucoseInv'
<1>1. /\ GlucoseTypeOK /\ DatabaseInv /\ TrailInv /\ PhaseInv /\ VisitInv /\ ConflictInv /\ DecisionsInv
      /\ ReasonsImply /\ WatchInv /\ WorldsInv /\ VariablesInv /\ AssumptionsInv
  BY DEF GlucoseInv
<1>2. /\ max_var \in Nat /\ max_var' \in Nat /\ max_var' >= max_var /\ max_var' >= m
      /\ order_heap' \subseteq upTo(max_var') /\ order_heap' \subseteq SatVariables
      /\ \A v \in upTo(max_var') : isUndef(v) => v \in order_heap'
  BY <1>1, NewVarsFacts DEF GlucoseTypeOK
<1>3. visiting = {} /\ qhead = Len(trail)
  BY <1>1 DEF PhaseInv
<1>4. /\ trail_lim = <<>> /\ decisionLevel = 0 /\ DOMAIN trail_lim = {} /\ \A i \in Nat : levelAt(i) = 0
  BY NoLevels
<1>5. /\ trail_lim' = <<>> /\ decisionLevel' = 0 /\ DOMAIN trail_lim' = {} /\ \A i \in Nat : levelAt(i)' = 0
  BY <1>4 DEF decisionLevel, levelAt
<1>6. Grown(trail)
  <2>1. {} \in SUBSET SatLiterals
    OBVIOUS
  <2> QED BY <2>1 DEF Grown, StoredClause, AssertedLiteral
<1>7. Kept(Len(trail))
  BY <1>1, <1>6, KeptHere
<1>8. /\ DOMAIN trail' = 1..Len(trail') /\ Len(trail') \in Len(trail)..(Len(trail) + 1) /\ Len(trail) \in Nat
      /\ Len(trail') \in Nat /\ DOMAIN trail = 1..Len(trail)
      /\ \A i \in 1..Len(trail) : i \in DOMAIN trail /\ trail'[i] = trail[i]
  BY <1>1, <1>7, KeptFacts
<1>9. ASSUME NEW i \in DOMAIN trail', i > Len(trail)
      PROVE  i = Len(trail) + 1 /\ trail'[i].lit \in C /\ isUndef(trail'[i].lit)
  <2>1. i = Len(trail) + 1
    BY <1>8, <1>9
  <2>2. trail' # trail
    BY <1>8, <1>9
  <2>3. PICK l \in C : isUndef(l) /\ trail' = enqueue(trail, l, {})
    BY <2>2 DEF StoredClause, AssertedLiteral
  <2>4. trail'[Len(trail) + 1].lit = l
    BY <1>1, <2>3, EnqueueFacts DEF GlucoseTypeOK
  <2> QED BY <2>1, <2>3, <2>4
<1>10. /\ \A D \in DOMAIN database' : D \in DOMAIN database \/ (D = C /\ \A l \in C : ~isFalse(l))
       /\ \A D \in DOMAIN database' : D # C => D \in DOMAIN database /\ database'[D] = database[D]
       /\ DOMAIN database \subseteq DOMAIN database'
       /\ database' \in [DOMAIN database' -> ClauseData]
       /\ \A D \in DOMAIN database' : Lists(database'[D], D)
       /\ database' = database \/ ({database'[C].lits[1], database'[C].lits[2]} \subseteq C /\ \A l \in C : ~isFalse(l))
  <2>1. CASE StoredClause(C)
    <3>1. \A l \in C : ~isFalse(l)
      BY <2>1 DEF StoredClause
    <3>2. /\ DOMAIN database' = DOMAIN database \cup {C}
          /\ \A D \in DOMAIN database \ {C} : database'[D] = database[D]
          /\ database' \in [DOMAIN database' -> ClauseData]
          /\ \A D \in DOMAIN database' : Lists(database'[D], D)
          /\ {database'[C].lits[1], database'[C].lits[2]} \subseteq C
      BY <1>1, <2>1, StoredFacts
    <3> QED BY <3>1, <3>2
  <2>2. CASE AssertedLiteral(C)
    BY <1>1, <2>2 DEF AssertedLiteral, GlucoseTypeOK, DatabaseInv
  <2> QED BY <2>1, <2>2
<1>11. GlucoseTypeOK'
  <2>1. trail' \in Seq(Entries) /\ qhead' \in 0..Len(trail') /\ pc' \in Phases
    BY <1>3, <1>7, <1>8 DEF Kept, StoredClause, AssertedLiteral, Phases
  <2>2. DOMAIN database' \subseteq SUBSET SatLiterals
    BY <1>1, <1>10 DEF GlucoseTypeOK
  <2> QED BY <1>1, <1>2, <1>3, <1>10, <2>1, <2>2 DEF GlucoseTypeOK
<1>12. DatabaseInv'
  BY <1>10 DEF DatabaseInv, Lists
<1>13. TrailInv'
  <2>1. ASSUME NEW i \in DOMAIN trail', i > Len(trail), NEW j \in 1..Len(trail) PROVE var(trail'[i].lit) # var(trail[j].lit)
    <3>1. j \in DOMAIN trail /\ trail'[i].lit \in SatLiterals /\ isUndef(trail'[i].lit)
      BY <1>8, <1>9, <2>1
    <3>2. \A l \in SatLiterals : isUndef(l) => var(trail[j].lit) # var(l)
      BY <1>1, <3>1, NewEntry
    <3> QED BY <3>1, <3>2
  <2>2. Fresh(Len(trail))
    BY <2>1 DEF Fresh
  <2> QED BY <1>1, <1>5, <1>7, <2>2, KeptTrail
<1>14. PhaseInv' /\ VisitInv' /\ ConflictInv'
  BY <1>3, <1>5 DEF PhaseInv, VisitInv, ConflictInv, StoredClause, AssertedLiteral
<1>15. \A i \in DOMAIN trail' : i \in Nat /\ levelAt(i)' = 0
  BY <1>5, <1>8
<1>16. DecisionsInv'
  BY <1>15 DEF DecisionsInv
<1>17. ReasonsImply'
  BY <1>15 DEF ReasonsImply
<1>18. WatchInv'
  <2> SUFFICES ASSUME NEW D \in DOMAIN database', NEW j \in DOMAIN trail', (-trail[j].lit \in watched(D))', Seen(j, D)'
               PROVE  \E i \in DOMAIN trail' : trail'[i].lit \in D /\ levelAt(i)' <= levelAt(j)'
    BY DEF WatchInv
  <2>1. j <= Len(trail) /\ j \in 1..Len(trail) /\ trail'[j] = trail[j] /\ j \in DOMAIN trail
    <3>1. j <= qhead
      <4>1. j \in Nat /\ qhead \in Nat /\ qhead' = qhead
        BY <1>3, <1>8
      <4>2. (j < qhead \/ j = qhead)'
        BY DEF Seen
      <4> QED BY <4>1, <4>2
    <3> QED BY <1>3, <1>8, <3>1
  <2>2. CASE database'[D] = database[D] /\ D \in DOMAIN database
    <3>1. -trail[j].lit \in watched(D)
      BY <2>1, <2>2 DEF watched
    <3>2. Seen(j, D)
      BY <1>3 DEF Seen
    <3> QED BY <1>1, <1>7, <2>1, <2>2, <3>1, <3>2, KeptWatch
  <2>3. CASE ~(database'[D] = database[D] /\ D \in DOMAIN database)
    <3>1. D = C /\ {database'[C].lits[1], database'[C].lits[2]} \subseteq C /\ \A l \in C : ~isFalse(l)
      BY <1>10, <2>3
    <3>2. -trail[j].lit \in C
      BY <2>1, <3>1 DEF watched
    <3>3. isFalse(-trail[j].lit)
      <4>1. trail[j].lit \in SatLiterals
        BY <1>1, <2>1, TrailFacts
      <4>2. -(-trail[j].lit) = trail[j].lit
        BY <4>1, LiteralFacts
      <4> QED BY <2>1, <4>2 DEF isFalse, true_literals
    <3> QED BY <3>1, <3>2, <3>3
  <2> QED BY <2>2, <2>3
<1>19. VariablesInv'
  <2>1. \A l \in C : var(l) <= max_var'
    <3>1. \A l \in C : var(l) \in Nat
      BY LiteralFacts
    <3> QED BY <1>2, <3>1
  <2>2. \A i \in DOMAIN trail' : var(trail'[i].lit) <= max_var'
    <3> SUFFICES ASSUME NEW i \in DOMAIN trail' PROVE var(trail'[i].lit) <= max_var'
      OBVIOUS
    <3>1. CASE i > Len(trail)
      BY <1>9, <2>1, <3>1
    <3>2. CASE ~(i > Len(trail))
      <4>1. i \in DOMAIN trail /\ trail'[i] = trail[i]
        BY <1>8, <3>2
      <4>2. var(trail[i].lit) \in Nat /\ var(trail[i].lit) <= max_var
        BY <1>1, <4>1, TrailFacts, LiteralFacts DEF VariablesInv
      <4> QED BY <1>2, <4>1, <4>2
    <3> QED BY <3>1, <3>2
  <2>3. \A D \in DOMAIN database' : \A l \in D : var(l) <= max_var'
    <3>1. \A D \in DOMAIN database : \A l \in D : var(l) \in Nat /\ var(l) <= max_var
      BY <1>1, LiteralFacts DEF VariablesInv, GlucoseTypeOK
    <3> QED BY <1>2, <1>10, <2>1, <3>1
  <2>4. \A l \in range(assumptions) : var(l) <= max_var'
    <3>1. \A l \in range(assumptions) : var(l) \in Nat /\ var(l) <= max_var
      BY <1>1, LenProperties, ElementOfSeq, LiteralFacts DEF VariablesInv, GlucoseTypeOK, range
    <3> QED BY <1>2, <3>1
  <2>5. ASSUME NEW v \in SatVariables, isUndef(v)' PROVE isUndef(v)
    <3>1. CASE trail' = trail
      BY <2>5, <3>1 DEF isUndef, isTrue, isFalse, true_literals
    <3>2. CASE trail' # trail
      <4>1. PICK l \in C : isUndef(l) /\ trail' = enqueue(trail, l, {})
        BY <3>2 DEF StoredClause, AssertedLiteral
      <4>2. l \in SatLiterals /\ {} \in SUBSET SatLiterals
        OBVIOUS
      <4> QED BY <1>1, <2>5, <4>1, <4>2, Assigned
    <3> QED BY <3>1, <3>2
  <2>6. \A v \in upTo(max_var') : isUndef(v)' => v \in order_heap'
    BY <1>2, <2>5 DEF upTo
  <2>7. (\A v \in upTo(max_var) : isUndef(v) => v \in order_heap)' /\ (order_heap \subseteq upTo(max_var))'
    BY <1>2, <2>6 DEF upTo
  <2>8. (\A l \in range(assumptions) : var(l) <= max_var)'
    BY <2>4 DEF range
  <2> QED BY <2>2, <2>3, <2>7, <2>8 DEF VariablesInv
<1>20. AssumptionsInv'
  <2>1. DOMAIN assumptions' = 1..Len(assumptions') /\ Len(assumptions') \in Nat
    BY <1>1, LenProperties DEF GlucoseTypeOK
  <2> QED BY <1>5, <1>15, <2>1 DEF AssumptionsInv
<1> QED BY <1>11, <1>12, <1>13, <1>14, <1>16, <1>17, <1>18, <1>19, <1>20 DEF GlucoseInv

LEMMA AddedFacts ==
    ASSUME GlucoseTypeOK, clause_list' = clause_list, nof_added < Len(clause_list), nof_added' = nof_added + 1
    PROVE  /\ clause_list[nof_added + 1] \in SUBSET SatLiterals
           /\ added' = added \cup {clause_list[nof_added + 1]}
           /\ nof_added' \in 0..Len(clause_list)
<1>1. clause_list \in Seq(SUBSET SatLiterals)
  BY GlucoseAssumption DEF GlucoseTypeOK
<1>2. Len(clause_list) \in Nat /\ nof_added \in Nat
  BY <1>1, LenProperties DEF GlucoseTypeOK
<1>3. nof_added + 1 \in 1..Len(clause_list)
  BY <1>2
<1>4. clause_list[nof_added + 1] \in SUBSET SatLiterals
  BY <1>1, <1>3, ElementOfSeq
<1>5. 1..(nof_added + 1) = 1..nof_added \cup {nof_added + 1}
  BY <1>2
<1>6. added' = added \cup {clause_list[nof_added + 1]}
  BY <1>5 DEF added
<1> QED BY <1>2, <1>3, <1>4, <1>6

LEMMA AddClauseInv ==
    ASSUME GlucoseInv, AddClause
    PROVE  GlucoseInv'
<1> DEFINE C == clause_list[nof_added + 1]
           rest == {l \in C : ~isFalse(l)}
           settled == \E l \in C : isTrue(l) \/ -l \in C
<1>1. GlucoseTypeOK /\ DatabaseInv /\ TrailInv /\ PhaseInv /\ WorldsInv /\ VariablesInv
  BY DEF GlucoseInv
<1>2. /\ pc = "ready" /\ nof_added < Len(clause_list) /\ nof_added' = nof_added + 1 /\ newVars(maxVar(C))
      /\ UNCHANGED <<clause_list, trail_lim, qhead, visiting, confl, assumptions>>
      /\ ~ok \/ settled => UNCHANGED <<pc, ok, database, trail>>
      /\ ok /\ ~settled =>
            /\ ok' = (rest # {})
            /\ IF Cardinality(rest) = 1
               THEN trail' = enqueue(trail, CHOOSE l \in rest : TRUE, {}) /\ pc' = "adding"
               ELSE trail' = trail /\ pc' = pc
            /\ database' = IF Cardinality(rest) > 1 THEN withClause(rest, attach(sorted(rest), "clauses")) ELSE database
  BY DEF AddClause, redundant
<1>3. C \in SUBSET SatLiterals /\ added' = added \cup {C} /\ nof_added' \in 0..Len(clause_list)
  BY <1>1, <1>2, AddedFacts
<1>4. maxVar(C) \in Nat /\ \A l \in C : var(l) <= maxVar(C)
  BY <1>3, MaxVarFacts
<1>5. /\ Root = true_literals /\ \A i \in Nat : levelAt(i) = 0
      /\ DOMAIN trail = 1..Len(trail) /\ Len(trail) \in Nat
  BY <1>1, <1>2, NoLevels, TrailFacts
<1>6. rest \in SUBSET SatLiterals /\ rest \subseteq C
  BY <1>3
<1> HIDE DEF C
<1>7. \A W \in worlds : Satisfies(W, added') <=> Satisfies(W, added) /\ C \cap W # {}
  BY <1>3 DEF Satisfies
<1>8. ASSUME ~settled PROVE \A l \in rest : isUndef(l)
  BY <1>8 DEF isUndef
\* A world of level 0 has only literals of C that are not false.
<1>9. \A W \in worlds : Root \subseteq W => C \cap W = rest \cap W
  <2> SUFFICES ASSUME NEW W \in worlds, Root \subseteq W, NEW l \in C, l \in W PROVE ~isFalse(l)
    OBVIOUS
  <2>1. -l \notin W
    BY <1>3, WorldFacts
  <2> QED BY <1>5, <2>1 DEF isFalse
<1>10. CASE ~ok \/ settled
  <2>1. Root' = Root /\ Given' = Given /\ ok' = ok /\ DOMAIN database' = DOMAIN database
    BY <1>2, <1>10 DEF Root, Given, levelAt
  <2>2. ASSUME NEW W \in worlds, ok, Root \subseteq W PROVE C \cap W # {}
    <3>1. PICK l \in C : isTrue(l) \/ -l \in C
      BY <1>10, <2>2
    <3>2. l \in SatLiterals
      BY <1>3
    <3>3. CASE isTrue(l)
      BY <1>5, <2>2, <3>1, <3>3 DEF isTrue
    <3>4. CASE -l \in C
      BY <3>1, <3>2, <3>4, WorldFacts
    <3> QED BY <3>1, <3>3, <3>4
  <2>3. WorldsInv'
    <3>1. \A W \in worlds : /\ Satisfies(W, added) => ok /\ Satisfies(W, DOMAIN database) /\ Root \subseteq W
                            /\ ok /\ Satisfies(W, Given) /\ Root \subseteq W => Satisfies(W, added)
      BY <1>1 DEF WorldsInv
    <3>2. \A W \in worlds : /\ Satisfies(W, added') => ok' /\ Satisfies(W, DOMAIN database') /\ Root' \subseteq W
                            /\ ok' /\ Satisfies(W, Given') /\ Root' \subseteq W => Satisfies(W, added')
      BY <1>7, <2>1, <2>2, <3>1
    <3> QED BY <3>2 DEF WorldsInv, Satisfies, worlds
  <2>4. \A l \in range(assumptions') : var(l) <= max_var'
    <3>1. max_var' \in Nat /\ max_var' >= max_var /\ max_var \in Nat
      BY <1>1, <1>2, <1>4, NewVarsFacts DEF GlucoseTypeOK
    <3>2. \A l \in range(assumptions) : var(l) <= max_var /\ var(l) \in Nat
      BY <1>1, LenProperties, ElementOfSeq, LiteralFacts DEF VariablesInv, GlucoseTypeOK, range
    <3>3. range(assumptions') = range(assumptions)
      BY <1>2
    <3> QED BY <3>1, <3>2, <3>3
  <2>5. assumptions' \in Seq(SatLiterals) /\ ok' \in BOOLEAN
    BY <1>1, <1>2, <2>1 DEF GlucoseTypeOK
  <2> QED BY <1>2, <1>3, <1>4, <1>10, <2>1, <2>3, <2>4, <2>5, CallStep
<1>11. CASE ok /\ ~settled /\ rest = {}
  <2>1. Cardinality(rest) = 0
    BY <1>11, FS_EmptySet
  <2>2. ok' = FALSE /\ UNCHANGED <<trail, pc, database>>
    <3>1. Cardinality(rest) # 1 /\ ~(Cardinality(rest) > 1)
      BY <2>1
    <3> HIDE DEF rest, settled
    <3> QED BY <1>2, <1>11, <3>1
  <2>3. WorldsInv'
    <3>1. \A W \in worlds : ~Satisfies(W, added')
      <4>1. \A W \in worlds : Satisfies(W, added) => Root \subseteq W
        BY <1>1 DEF WorldsInv
      <4> QED BY <1>7, <1>9, <1>11, <4>1
    <3> QED BY <2>2, <3>1 DEF WorldsInv, Satisfies, worlds
  <2>4. \A l \in range(assumptions') : var(l) <= max_var'
    <3>1. max_var' \in Nat /\ max_var' >= max_var /\ max_var \in Nat
      BY <1>1, <1>2, <1>4, NewVarsFacts DEF GlucoseTypeOK
    <3>2. \A l \in range(assumptions) : var(l) <= max_var /\ var(l) \in Nat
      BY <1>1, LenProperties, ElementOfSeq, LiteralFacts DEF VariablesInv, GlucoseTypeOK, range
    <3>3. range(assumptions') = range(assumptions)
      BY <1>2
    <3> QED BY <3>1, <3>2, <3>3
  <2>5. assumptions' \in Seq(SatLiterals) /\ ok' \in BOOLEAN
    BY <1>1, <1>2, <2>2 DEF GlucoseTypeOK
  <2> QED BY <1>2, <1>3, <1>4, <2>2, <2>3, <2>4, <2>5, CallStep
<1>12. CASE ok /\ ~settled /\ rest # {}
  <2>0. IsFiniteSet(rest) /\ Cardinality(rest) \in Nat /\ Cardinality(rest) # 0
    BY <1>6, <1>12, LiteralsFinite, FS_Subset, FS_CardinalityType, FS_EmptySet
  <2>1. ok' = TRUE /\ trail_lim' = trail_lim /\ \A l \in rest : var(l) <= maxVar(C)
    BY <1>2, <1>4, <1>6, <1>12
  <2>2. CASE Cardinality(rest) = 1
    <3>1. PICK l : rest = {l}
      BY <2>0, <2>2, FS_Singleton
    <3>2. (CHOOSE k \in rest : TRUE) = l
      BY <3>1
    <3>3. trail' = enqueue(trail, l, {}) /\ pc' = "adding" /\ database' = database
      <4>1. ~(Cardinality(rest) > 1)
        BY <2>2
      <4> HIDE DEF rest, settled
      <4> QED BY <1>2, <1>12, <2>2, <3>2, <4>1
    <3>4. AssertedLiteral(rest)
      BY <1>8, <1>12, <3>1, <3>3 DEF AssertedLiteral
    <3>5. Root' = Root \cup {l}
      <4>1. /\ DOMAIN trail' = 1..(Len(trail) + 1) /\ \A i \in 1..Len(trail) : trail'[i] = trail[i]
            /\ trail'[Len(trail) + 1].lit = l
        <5>1. l \in SatLiterals /\ {} \in SUBSET SatLiterals /\ trail \in Seq(Entries)
          BY <1>1, <1>6, <3>1 DEF GlucoseTypeOK
        <5> QED BY <3>3, <5>1, EnqueueFacts
      <4>2. \A i \in Nat : levelAt(i)' = 0
        BY <1>2, <1>5 DEF levelAt
      <4>3. \A i \in 1..(Len(trail) + 1) : i \in Nat
        OBVIOUS
      <4>4. Root' = {trail'[i].lit : i \in 1..(Len(trail) + 1)}
        BY <4>1, <4>2, <4>3 DEF Root
      <4>5. Root = {trail[i].lit : i \in 1..Len(trail)}
        BY <1>5 DEF true_literals
      <4>6. 1..(Len(trail) + 1) = 1..Len(trail) \cup {Len(trail) + 1}
        BY <1>5
      <4> QED BY <4>1, <4>4, <4>5, <4>6
    <3>6. Given' = Given /\ DOMAIN database' = DOMAIN database
      BY <3>3 DEF Given
    <3>7. WorldsInv'
      <4>1. \A W \in worlds : /\ Satisfies(W, added) => ok /\ Satisfies(W, DOMAIN database) /\ Root \subseteq W
                              /\ ok /\ Satisfies(W, Given) /\ Root \subseteq W => Satisfies(W, added)
        BY <1>1 DEF WorldsInv
      <4>2. \A W \in worlds : Root \subseteq W => (C \cap W # {} <=> l \in W)
        BY <1>9, <3>1
      <4>3. \A W \in worlds : /\ Satisfies(W, added') => ok' /\ Satisfies(W, DOMAIN database') /\ Root' \subseteq W
                              /\ ok' /\ Satisfies(W, Given') /\ Root' \subseteq W => Satisfies(W, added')
        BY <1>7, <1>12, <2>1, <3>5, <3>6, <4>1, <4>2
      <4> QED BY <4>3 DEF WorldsInv, Satisfies, worlds
    <3> HIDE DEF rest, settled
    <3> QED BY <1>2, <1>3, <1>4, <1>6, <1>12, <2>1, <3>4, <3>7, AddStep
  <2>3. CASE Cardinality(rest) # 1
    <3>1. Cardinality(rest) > 1
      BY <2>0, <2>3
    <3>2. trail' = trail /\ pc' = "ready" /\ database' = withClause(rest, attach(sorted(rest), "clauses"))
      BY <1>2, <1>12, <2>3, <3>1
    <3>3. StoredClause(rest)
      BY <3>1, <3>2 DEF StoredClause
    <3>4. Root' = Root
      BY <1>2, <3>2 DEF Root, levelAt
    <3>5. /\ DOMAIN database' = DOMAIN database \cup {rest}
          /\ \A D \in DOMAIN database \ {rest} : database'[D] = database[D]
          /\ database'[rest].list = "clauses"
      <4> HIDE DEF rest
      <4> QED BY <1>1, <1>6, <3>3, StoredFacts
    <3>6. Given' = Given \cup {rest}
      <4> HIDE DEF rest
      <4> QED BY <3>5 DEF Given
    <3>7. WorldsInv'
      <4>1. \A W \in worlds : /\ Satisfies(W, added) => ok /\ Satisfies(W, DOMAIN database) /\ Root \subseteq W
                              /\ ok /\ Satisfies(W, Given) /\ Root \subseteq W => Satisfies(W, added)
        BY <1>1 DEF WorldsInv
      <4>2. \A W \in worlds : /\ Satisfies(W, DOMAIN database') <=> Satisfies(W, DOMAIN database) /\ rest \cap W # {}
                              /\ Satisfies(W, Given') <=> Satisfies(W, Given) /\ rest \cap W # {}
        BY <3>5, <3>6 DEF Satisfies
      <4>3. \A W \in worlds : /\ Satisfies(W, added') => ok' /\ Satisfies(W, DOMAIN database') /\ Root' \subseteq W
                              /\ ok' /\ Satisfies(W, Given') /\ Root' \subseteq W => Satisfies(W, added')
        BY <1>7, <1>9, <1>12, <2>1, <3>4, <4>1, <4>2
      <4> QED BY <4>3 DEF WorldsInv, Satisfies, worlds
    <3> HIDE DEF rest, settled
    <3> QED BY <1>2, <1>3, <1>4, <1>6, <1>12, <2>1, <3>3, <3>7, AddStep
  <2> QED BY <2>2, <2>3
<1> QED BY <1>10, <1>11, <1>12

--------------------------------------------------------------------------------
(***************************************************************************)
(* Analysis of a conflict: what is left after resolving along the trail.   *)
(***************************************************************************)
Analysing == GlucoseInv /\ pc = "conflict" /\ decisionLevel > 0

\* What the clauses and the literals of level 0 imply.
Follows(S) == \A W \in worlds : Satisfies(W, DOMAIN database) /\ Root \subseteq W => S \cap W # {}

LEMMA FalseLevel ==
    ASSUME GlucoseTypeOK, TrailInv, NEW q \in SatLiterals, isFalse(q)
    PROVE  /\ place(q) \in DOMAIN trail /\ place(q) \in Nat /\ q = -trail[place(q)].lit /\ trail[place(q)].lit = -q
           /\ level(q) = levelAt(place(q)) /\ level(q) \in 0..decisionLevel /\ decisionLevel \in Nat
           /\ lower(q) \/ current(q) \/ (level(q) = 0 /\ -q \in Root)
           /\ \A i \in DOMAIN trail : q = -trail[i].lit => i = place(q)
<1>1. /\ place(q) \in DOMAIN trail /\ trail[place(q)].lit = -q /\ level(q) = levelAt(place(q))
      /\ \A i \in DOMAIN trail : q = -trail[i].lit <=> trail[i].lit = -q
  BY FalseFacts
<1>2. place(q) \in Nat /\ decisionLevel \in Nat
  BY <1>1, TrailFacts
<1>3. level(q) \in 0..decisionLevel
  BY <1>1, <1>2, AtLevel
<1>4. lower(q) \/ current(q) \/ (level(q) = 0 /\ -q \in Root)
  <2>1. level(q) = 0 => -q \in Root
    BY <1>1 DEF Root
  <2> QED BY <1>2, <1>3, <2>1 DEF lower, current
<1>5. \A i \in DOMAIN trail : q = -trail[i].lit => i = place(q)
  BY TrailFacts
<1> QED BY <1>1, <1>2, <1>3, <1>4, <1>5

Resolutions == [open : SUBSET SatLiterals, learnt : Seq(SatLiterals), uip : SUBSET SatLiterals,
                met : SUBSET SUBSET SatLiterals]

\* After n entries.
Resolving(r, n) ==
    /\ r \in Resolutions
    /\ Distinct(r.learnt) /\ \A q \in range(r.learnt) : isFalse(q) /\ lower(q)
    /\ r.open # {} /\ \A q \in r.open : isFalse(q) /\ current(q) /\ (r.uip = {} => place(q) <= Len(trail) - n)
    /\ r.met \subseteq DOMAIN database
    /\ Follows(r.open \cup range(r.learnt))
    /\ r.uip # {} => \E q \in SatLiterals : r.uip = {q} /\ r.open = {q}

LEMMA LowerFacts ==
    ASSUME GlucoseTypeOK, DatabaseInv, NEW C \in DOMAIN database, NEW S
    PROVE  /\ lowerOf(S, C) \in Seq(SatLiterals) /\ Distinct(lowerOf(S, C))
           /\ range(lowerOf(S, C)) = {q \in C \cap S : lower(q)}
<1>1. database[C].lits \in Seq(SatLiterals) /\ range(database[C].lits) = C /\ Distinct(database[C].lits)
  BY ClauseFacts DEF DatabaseInv, Lists, Distinct
<1>2. /\ inOrder(database[C].lits, {q \in S : lower(q)}) \in Seq(SatLiterals)
      /\ range(inOrder(database[C].lits, {q \in S : lower(q)})) = C \cap {q \in S : lower(q)}
      /\ Distinct(inOrder(database[C].lits, {q \in S : lower(q)}))
  BY <1>1, InOrderFacts
<1> QED BY <1>2 DEF lowerOf

LEMMA ResolveStart ==
    ASSUME Analysing
    PROVE  Resolving(fromConflict, 0)
<1>1. GlucoseTypeOK /\ DatabaseInv /\ TrailInv /\ ConflictInv /\ pc = "conflict" /\ decisionLevel > 0
  BY DEF Analysing, GlucoseInv
<1>2. confl \in DOMAIN database /\ \A q \in confl : isFalse(q) /\ q \in SatLiterals
  BY <1>1 DEF ConflictInv, GlucoseTypeOK
<1>3. \A q \in confl : /\ place(q) \in DOMAIN trail /\ place(q) \in Nat /\ place(q) <= Len(trail) /\ Len(trail) \in Nat
                       /\ lower(q) \/ current(q) \/ (level(q) = 0 /\ -q \in Root)
  BY <1>1, <1>2, FalseLevel, TrailFacts
<1> DEFINE r == fromConflict
<1>4. /\ r.open = {q \in confl : current(q)} /\ r.learnt = lowerOf(confl, confl) /\ r.uip = {} /\ r.met = {confl}
      /\ r = [open |-> {q \in confl : current(q)}, learnt |-> lowerOf(confl, confl), uip |-> {}, met |-> {confl}]
  BY DEF fromConflict
<1>5. r.learnt \in Seq(SatLiterals) /\ Distinct(r.learnt) /\ range(r.learnt) = {q \in confl : lower(q)}
  BY <1>1, <1>2, <1>4, LowerFacts
<1>6. r \in Resolutions
  BY <1>2, <1>4, <1>5 DEF Resolutions
<1>7. r.open # {}
  <2>1. PICK i \in DOMAIN trail : -trail[i].lit \in confl /\ levelAt(i) = decisionLevel
    BY <1>1 DEF ConflictInv
  <2>2. level(-trail[i].lit) = levelAt(i)
    BY <1>1, TrailFacts
  <2> QED BY <1>4, <2>1, <2>2 DEF current
<1>8. Follows(r.open \cup range(r.learnt))
  <2> SUFFICES ASSUME NEW W \in worlds, Satisfies(W, DOMAIN database), Root \subseteq W
               PROVE  \E q \in confl \cap W : current(q) \/ lower(q)
    BY <1>4, <1>5 DEF Follows
  <2>1. PICK q \in confl : q \in W
    BY <1>2 DEF Satisfies
  <2>2. -q \notin W
    BY <1>2, <2>1, WorldFacts
  <2> QED BY <1>3, <2>1, <2>2
<1> HIDE DEF r
<1>9. \A q \in r.open : isFalse(q) /\ current(q) /\ (r.uip = {} => place(q) <= Len(trail) - 0)
  BY <1>2, <1>3, <1>4
<1> QED BY <1>2, <1>4, <1>5, <1>6, <1>7, <1>8, <1>9 DEF Resolving, r

LEMMA ResolveStep ==
    ASSUME Analysing, NEW n \in 1..Len(trail), NEW r, Resolving(r, n - 1)
    PROVE  Resolving(resolveWith(r, trail[Len(trail) + 1 - n]), n)
<1> DEFINE i == Len(trail) + 1 - n
           entry == trail[i]
           l == entry.lit
           t == resolveWith(r, entry)
<1>1. /\ GlucoseTypeOK /\ DatabaseInv /\ TrailInv /\ ReasonsImply /\ DecisionsInv /\ SearchOK
      /\ pc = "conflict" /\ decisionLevel > 0
  BY DEF Analysing, GlucoseInv, SearchOK
<1>2. /\ DOMAIN trail = 1..Len(trail) /\ Len(trail) \in Nat /\ i \in DOMAIN trail /\ i \in Nat
      /\ Len(trail) - (n - 1) = i /\ Len(trail) - n = i - 1 /\ decisionLevel \in Nat
  BY <1>1, TrailFacts
<1>3. /\ r \in Resolutions /\ r.open \subseteq SatLiterals /\ r.learnt \in Seq(SatLiterals)
      /\ Distinct(r.learnt) /\ \A q \in range(r.learnt) : isFalse(q) /\ lower(q)
      /\ r.open # {} /\ \A q \in r.open : isFalse(q) /\ current(q) /\ (r.uip = {} => place(q) <= i)
      /\ r.met \subseteq DOMAIN database
      /\ Follows(r.open \cup range(r.learnt))
      /\ r.uip # {} => \E q \in SatLiterals : r.uip = {q} /\ r.open = {q}
  BY <1>2 DEF Resolving, Resolutions
<1>4. l \in SatLiterals /\ -l \in SatLiterals /\ -(-l) = l /\ entry.reason \subseteq SatLiterals /\ place(-l) = i /\ level(-l) = levelAt(i)
  BY <1>1, <1>2, TrailFacts, LiteralFacts
\* Literals of the current level are no earlier than its first entry.
<1>5. \A q \in r.open : /\ place(q) \in DOMAIN trail /\ place(q) \in Nat /\ q = -trail[place(q)].lit
                        /\ levelAt(place(q)) = decisionLevel
  BY <1>1, <1>3, FalseLevel DEF current
<1>6. t = IF r.uip # {} \/ -l \notin r.open THEN r
          ELSE IF Cardinality(r.open) = 1 THEN [r EXCEPT !.uip = {-l}]
          ELSE [r EXCEPT !.met = r.met \cup {entry.reason},
                         !.open = (r.open \ {-l}) \cup {q \in antecedents(entry.reason, l) : current(q)},
                         !.learnt = r.learnt \o lowerOf(antecedents(entry.reason, l) \ range(r.learnt), entry.reason)]
  BY DEF resolveWith
<1> HIDE DEF t, entry
<1> SUFFICES Resolving(t, n)
  BY DEF t, entry
<1>7. CASE r.uip # {}
  <2>1. t = r
    BY <1>6, <1>7
  <2> QED BY <1>3, <1>7, <2>1 DEF Resolving
<1>8. CASE r.uip = {} /\ -l \notin r.open
  <2>1. t = r
    BY <1>6, <1>8
  <2>2. \A q \in r.open : place(q) <= Len(trail) - n
    <3> SUFFICES ASSUME NEW q \in r.open PROVE place(q) <= i - 1
      BY <1>2
    <3>1. place(q) # i
      BY <1>5, <1>8 DEF entry
    <3> QED BY <1>2, <1>3, <1>5, <1>8, <3>1
  <2> QED BY <1>3, <1>8, <2>1, <2>2 DEF Resolving
<1>9. CASE r.uip = {} /\ -l \in r.open /\ Cardinality(r.open) = 1
  <2>1. t = [r EXCEPT !.uip = {-l}]
    BY <1>6, <1>9
  <2>2. t \in Resolutions /\ t.uip = {-l} /\ t.open = r.open /\ t.learnt = r.learnt /\ t.met = r.met
    BY <1>3, <1>4, <2>1 DEF Resolutions
  <2>3. r.open = {-l}
    <3>1. IsFiniteSet(r.open)
      BY <1>3, LiteralsFinite, FS_Subset
    <3> HIDE DEF l
    <3>2. PICK q : r.open = {q}
      BY <1>9, <3>1, FS_Singleton
    <3> QED BY <1>9, <3>2
  <2> QED BY <1>3, <1>4, <2>2, <2>3 DEF Resolving
<1>10. CASE r.uip = {} /\ -l \in r.open /\ Cardinality(r.open) # 1
  <2> DEFINE C == entry.reason
             others == antecedents(C, l)
             more == lowerOf(others \ range(r.learnt), C)
  <2>1. levelAt(i) = decisionLevel
    BY <1>4, <1>5, <1>10
  <2>2. PICK q0 \in r.open : q0 # -l
    <3>1. r.open = {-l} => Cardinality(r.open) = 1
      BY FS_Singleton
    <3> QED BY <1>10, <3>1
  <2>3. C # {}
    <3> SUFFICES ASSUME C = {} PROVE FALSE
      OBVIOUS
    <3>1. i = trail_lim[decisionLevel] + 1
      BY <1>1, <1>2, <2>1 DEF DecisionsInv, entry
    <3>2. place(q0) # i
      BY <1>5, <2>2 DEF entry
    <3>3. place(q0) <= i /\ place(q0) \in Nat /\ levelAt(place(q0)) = decisionLevel
      BY <1>3, <1>5, <1>10
    <3>4. trail_lim[decisionLevel] < place(q0) /\ trail_lim[decisionLevel] \in Nat
      <4>1. decisionLevel \in 1..decisionLevel /\ decisionLevel <= levelAt(place(q0))
        BY <1>1, <1>2, <3>3
      <4> QED BY <1>1, <3>3, <4>1, AtLevel, TrailFacts
    <3> QED BY <1>2, <3>1, <3>2, <3>3, <3>4
  <2>4. /\ C \in DOMAIN database /\ l \in C /\ others = C \ {l}
        /\ \A q \in others : \E j \in 1..(i - 1) : j \in DOMAIN trail /\ trail[j].lit = -q /\ place(q) = j
    <3>1. levelAt(i) > 0
      BY <1>1, <2>1
    <3> QED BY <1>1, <1>2, <2>3, <3>1, Antecedents DEF entry
  <2>5. ASSUME NEW q \in others
        PROVE  /\ q \in SatLiterals /\ isFalse(q) /\ place(q) \in 1..(i - 1)
               /\ lower(q) \/ current(q) \/ (level(q) = 0 /\ -q \in Root)
    <3>1. q \in SatLiterals
      BY <1>4, <2>4
    <3>2. isFalse(q) /\ place(q) \in 1..(i - 1)
      BY <2>4 DEF isFalse, true_literals
    <3> QED BY <1>1, <3>1, <3>2, FalseLevel
  <2>6. more \in Seq(SatLiterals) /\ Distinct(more) /\ range(more) = {q \in others : q \notin range(r.learnt) /\ lower(q)}
    <3>1. /\ more \in Seq(SatLiterals) /\ Distinct(more)
          /\ range(more) = {q \in C \cap (others \ range(r.learnt)) : lower(q)}
      <4> HIDE DEF C, others
      <4> QED BY <1>1, <2>4, LowerFacts
    <3> QED BY <2>4, <3>1
  <2> HIDE DEF C, others, more
  <2>7. t = [r EXCEPT !.met = r.met \cup {C}, !.open = (r.open \ {-l}) \cup {q \in others : current(q)},
                      !.learnt = r.learnt \o more]
    BY <1>6, <1>10 DEF C, others, more
  <2>8. /\ t.met = r.met \cup {C} /\ t.open = (r.open \ {-l}) \cup {q \in others : current(q)}
        /\ t.learnt = r.learnt \o more /\ t.uip = {}
    BY <1>3, <1>10, <2>7 DEF Resolutions
  <2>9. r.learnt \o more \in Seq(SatLiterals) /\ range(r.learnt \o more) = range(r.learnt) \cup range(more) /\ Distinct(r.learnt \o more)
    <3>1. range(r.learnt) \cap range(more) = {}
      BY <2>6
    <3> QED BY <1>3, <2>6, <3>1, RangeOfConcat
  <2>10. t \in Resolutions
    <3>1. r.met \cup {C} \in SUBSET SUBSET SatLiterals
      BY <1>3, <1>4 DEF Resolutions, C
    <3>2. (r.open \ {-l}) \cup {q \in others : current(q)} \in SUBSET SatLiterals
      BY <1>3, <2>5
    <3> QED BY <1>3, <2>7, <2>9, <3>1, <3>2 DEF Resolutions
  <2>11. \A q \in range(t.learnt) : isFalse(q) /\ lower(q)
    BY <1>3, <2>5, <2>6, <2>8, <2>9
  <2>12. t.open # {}
    BY <2>2, <2>8
  <2>13. \A q \in t.open : isFalse(q) /\ current(q) /\ place(q) <= Len(trail) - n
    <3> SUFFICES ASSUME NEW q \in t.open PROVE isFalse(q) /\ current(q) /\ place(q) <= i - 1
      BY <1>2
    <3>1. CASE q \in r.open /\ q # -l
      <4>1. place(q) # i
        BY <1>5, <3>1 DEF entry
      <4> QED BY <1>2, <1>3, <1>5, <1>10, <3>1, <4>1
    <3>2. CASE q \in others /\ current(q)
      BY <1>2, <2>5, <3>2
    <3> QED BY <2>8, <3>1, <3>2
  <2>14. Follows(t.open \cup range(t.learnt))
    <3> SUFFICES ASSUME NEW W \in worlds, Satisfies(W, DOMAIN database), Root \subseteq W
                 PROVE  \E q \in W : q \in t.open \/ q \in range(t.learnt)
      BY DEF Follows
    <3>1. PICK q \in W : q \in r.open \/ q \in range(r.learnt)
      BY <1>3 DEF Follows
    <3>2. CASE q # -l \/ q \in range(r.learnt)
      BY <2>8, <2>9, <3>1, <3>2
    <3>3. CASE q = -l
      <4>1. l \notin W
        BY <1>4, <3>3, WorldFacts
      <4>2. PICK c \in C : c \in W
        BY <2>4 DEF Satisfies
      <4>3. c \in others
        BY <2>4, <4>1, <4>2
      <4>4. -c \notin W
        BY <2>5, <4>2, <4>3, WorldFacts
      <4>5. lower(c) \/ current(c)
        BY <2>5, <4>3, <4>4
      <4> QED BY <2>6, <2>8, <2>9, <4>2, <4>3, <4>5
    <3> QED BY <3>2, <3>3
  <2>15. t.met \subseteq DOMAIN database
    BY <1>3, <2>4, <2>8
  <2> QED BY <2>8, <2>9, <2>10, <2>11, <2>12, <2>13, <2>14, <2>15 DEF Resolving
<1> QED BY <1>7, <1>8, <1>9, <1>10

\* One literal of the current level is left, and it and the literals learnt follow.
Asserting(r) ==
    /\ r \in Resolutions /\ Distinct(r.learnt) /\ \A q \in range(r.learnt) : isFalse(q) /\ lower(q)
    /\ r.met \subseteq DOMAIN database
    /\ \E u \in SatLiterals : r.uip = {u} /\ isFalse(u) /\ current(u) /\ Follows({u} \cup range(r.learnt))

LEMMA ResolvedFacts ==
    ASSUME Analysing
    PROVE  Asserting(resolved)
<1> DEFINE N == Len(trail)
           Solves(f, n) == f = [i \in 0..n |->
               IF i = 0 THEN fromConflict ELSE resolveWith(f[i - 1], trail[N + 1 - i])]
           steps == CHOOSE f : Solves(f, N)
<1>1. GlucoseTypeOK /\ TrailInv /\ N \in Nat
  BY TrailFacts DEF Analysing, GlucoseInv
<1> HIDE DEF N
<1>2. \E f : Solves(f, N)
  <2> DEFINE T == {n \in 0..N : \E f : Solves(f, n)}
  <2>1. 0 \in T
    <3>1. Solves([i \in 0..0 |-> fromConflict], 0)
      OBVIOUS
    <3> HIDE DEF Solves
    <3> QED BY <1>1, <3>1
  <2>2. ASSUME NEW n \in 1..N, n - 1 \in T PROVE n \in T
    <3>1. PICK f : Solves(f, n - 1)
      BY <2>2
    <3> DEFINE g == [i \in 0..n |-> IF i < n THEN f[i] ELSE resolveWith(f[n - 1], trail[N + 1 - n])]
    <3>2. ASSUME NEW i \in 0..n
          PROVE  g[i] = IF i = 0 THEN fromConflict ELSE resolveWith(g[i - 1], trail[N + 1 - i])
      <4>1. CASE i < n
        <5>1. i \in 0..(n - 1) /\ g[i] = f[i]
          BY <1>1, <4>1
        <5>2. i # 0 => i - 1 \in 0..n /\ i - 1 < n /\ g[i - 1] = f[i - 1]
          BY <1>1, <4>1
        <5> HIDE DEF g
        <5> QED BY <3>1, <5>1, <5>2
      <4>2. CASE i = n
        <5>1. n - 1 \in 0..n /\ n - 1 < n /\ n # 0
          BY <1>1
        <5>2. g[n - 1] = f[n - 1]
          BY <5>1
        <5> QED BY <4>2, <5>1, <5>2
      <4> QED BY <1>1, <4>1, <4>2
    <3>3. Solves(g, n)
      BY <3>2
    <3> HIDE DEF Solves, g
    <3> QED BY <1>1, <3>3
  <2> HIDE DEF T
  <2>3. N \in T
    BY <1>1, <2>1, <2>2, UpTo
  <2> QED BY <2>3 DEF T
<1>3. Solves(steps, N)
  BY <1>2
<1>4. resolved = steps[N]
  BY DEF resolved, N
<1> HIDE DEF steps
<1>5. steps[0] = fromConflict /\ \A n \in 1..N : steps[n] = resolveWith(steps[n - 1], trail[N + 1 - n])
  <2>1. \A n \in 0..N : steps[n] = IF n = 0 THEN fromConflict ELSE resolveWith(steps[n - 1], trail[N + 1 - n])
    BY <1>3
  <2>2. 0 \in 0..N /\ \A n \in 1..N : n \in 0..N /\ n # 0
    BY <1>1
  <2> QED BY <2>1, <2>2
<1> DEFINE T == {n \in 0..N : Resolving(steps[n], n)}
<1>6. 0 \in T
  BY <1>1, <1>5, ResolveStart
<1>7. ASSUME NEW n \in 1..N, n - 1 \in T PROVE n \in T
  <2>1. Resolving(steps[n - 1], n - 1)
    BY <1>7
  <2>2. Resolving(resolveWith(steps[n - 1], trail[N + 1 - n]), n)
    BY <2>1, ResolveStep DEF N
  <2> QED BY <1>5, <2>2
<1> HIDE DEF T
<1>8. N \in T
  BY <1>1, <1>6, <1>7, UpTo
<1>9. Resolving(resolved, N)
  BY <1>4, <1>8 DEF T
<1> DEFINE r == resolved
<1>10. /\ r \in Resolutions /\ r.open \subseteq SatLiterals /\ Distinct(r.learnt) /\ \A q \in range(r.learnt) : isFalse(q) /\ lower(q)
       /\ r.open # {} /\ \A q \in r.open : isFalse(q) /\ current(q) /\ (r.uip = {} => place(q) <= N - N)
       /\ r.met \subseteq DOMAIN database /\ Follows(r.open \cup range(r.learnt))
       /\ r.uip # {} => \E q \in SatLiterals : r.uip = {q} /\ r.open = {q}
  BY <1>9 DEF Resolving, Resolutions, N
<1> HIDE DEF r
<1>11. r.uip # {}
  <2>1. PICK q \in r.open : q \in SatLiterals /\ isFalse(q)
    BY <1>10
  <2>2. place(q) \in DOMAIN trail
    BY <1>1, <2>1, FalseLevel
  <2>3. place(q) \in 1..N
    BY <1>1, <2>2, TrailFacts DEF N
  <2> QED BY <1>1, <1>10, <2>1, <2>3
<1>12. PICK u \in SatLiterals : r.uip = {u} /\ r.open = {u}
  BY <1>10, <1>11
<1>13. Asserting(r)
  BY <1>10, <1>12 DEF Asserting
<1> QED BY <1>13 DEF r

--------------------------------------------------------------------------------
(***************************************************************************)
(* What false literals imply.                                              *)
(***************************************************************************)
\* A sequence of subsets of V is determined by its first and by what comes after each.
Closed(after, N, V) == \A n \in 1..N, x \in V : after[n][x] \in V
Iterated(f, after, N, V) == f \in [0..N -> V] /\ \A n \in 1..N : f[n] = after[n][f[n - 1]]

LEMMA Iterates ==
    ASSUME NEW V, NEW N \in Nat, NEW base \in V, NEW after, Closed(after, N, V)
    PROVE  \E f : f[0] = base /\ Iterated(f, after, N, V)
<1> DEFINE Solves(f, n) == f[0] = base /\ \A k \in 1..n : f[k] = after[k][f[k - 1]]
           T == {n \in 0..N : \E f \in [0..n -> V] : Solves(f, n)}
<1>1. 0 \in T
  <2>1. [i \in 0..0 |-> base] \in [0..0 -> V] /\ Solves([i \in 0..0 |-> base], 0)
    OBVIOUS
  <2> HIDE DEF Solves
  <2> QED BY <2>1
<1>2. ASSUME NEW n \in 1..N, n - 1 \in T PROVE n \in T
  <2>1. PICK f \in [0..(n - 1) -> V] : Solves(f, n - 1)
    BY <1>2
  <2>2. n \in Nat /\ n # 0 /\ n - 1 \in 0..(n - 1) /\ n \in 0..N
    OBVIOUS
  <2> DEFINE g == [i \in 0..n |-> IF i < n THEN f[i] ELSE after[n][f[n - 1]]]
  <2>3. g \in [0..n -> V]
    <3>1. \A i \in 0..n : i < n => i \in 0..(n - 1)
      BY <2>2
    <3>2. after[n][f[n - 1]] \in V
      BY <2>2 DEF Closed
    <3> QED BY <3>1, <3>2
  <2>4. g[0] = base
    BY <2>1, <2>2
  <2>5. ASSUME NEW k \in 1..n PROVE g[k] = after[k][g[k - 1]]
    <3>1. k - 1 \in 0..n /\ k - 1 < n /\ k \in 0..n
      BY <2>2
    <3>2. g[k - 1] = f[k - 1]
      BY <3>1
    <3>3. CASE k < n
      <4>1. k \in 1..(n - 1) /\ g[k] = f[k]
        BY <3>1, <3>3
      <4> QED BY <2>1, <3>2, <4>1
    <3>4. CASE k = n
      BY <3>1, <3>2, <3>4
    <3> QED BY <2>2, <3>3, <3>4
  <2>6. Solves(g, n)
    BY <2>4, <2>5
  <2> HIDE DEF g, Solves
  <2> QED BY <2>2, <2>3, <2>6
<1> HIDE DEF T, Solves
<1>3. N \in T
  <2>1. \A n \in 0..N : n \in T
    BY <1>1, <1>2, UpTo
  <2> QED BY <2>1
<1> QED BY <1>3 DEF T, Solves, Iterated

\* Literals implied are false at level 0, or given, or all antecedents are implied.
LEMMA ImpliedFacts ==
    ASSUME SearchOK, NEW L \in SUBSET SatLiterals, \A q \in L : isFalse(q)
    PROVE  /\ L \subseteq impliedBy(L) /\ impliedBy(L) \subseteq SatLiterals
           /\ \A q \in impliedBy(L) : isFalse(q) /\ (level(q) = 0 \/ q \in L \/ redundant(q, impliedBy(L)))
<1> DEFINE N == Len(trail)
           V == SUBSET SatLiterals
           q(i) == -trail[i].lit
           Holds(i, E) == \/ levelAt(i) = 0 \/ q(i) \in L
                          \/ trail[i].reason # {} /\ antecedents(trail[i].reason, -q(i)) \subseteq E
           after == [i \in 1..N |-> [E \in V |-> IF Holds(i, E) THEN E \cup {q(i)} ELSE E]]
           Solves(f) == f = [i \in 0..N |-> IF i = 0 THEN {}
                                ELSE IF Holds(i, f[i - 1]) THEN f[i - 1] \cup {q(i)} ELSE f[i - 1]]
           implied == CHOOSE f : Solves(f)
<1>1. GlucoseTypeOK /\ TrailInv /\ N \in Nat /\ DOMAIN trail = 1..N
  BY TrailFacts DEF SearchOK
<1>2. \A i \in 1..N : /\ q(i) \in SatLiterals /\ isFalse(q(i)) /\ place(q(i)) = i /\ level(q(i)) = levelAt(i) /\ -q(i) = trail[i].lit
  <2> SUFFICES ASSUME NEW i \in 1..N
               PROVE  /\ q(i) \in SatLiterals /\ isFalse(q(i)) /\ place(q(i)) = i /\ level(q(i)) = levelAt(i)
                      /\ -q(i) = trail[i].lit
    OBVIOUS
  <2>1. trail[i].lit \in SatLiterals /\ place(q(i)) = i /\ level(q(i)) = levelAt(i)
    BY <1>1, TrailFacts
  <2>2. q(i) \in SatLiterals /\ -q(i) = trail[i].lit
    BY <2>1, LiteralFacts
  <2>3. isFalse(q(i))
    BY <1>1, <2>2 DEF isFalse, true_literals
  <2> QED BY <2>1, <2>2, <2>3
<1>3. \E f : Solves(f)
  <2>1. \A i \in 1..N, E \in V : (IF Holds(i, E) THEN E \cup {q(i)} ELSE E) \in V
    <3> HIDE DEF Holds, q
    <3> QED BY <1>2
  <2> HIDE DEF Holds, q
  <2>2. Closed(after, N, V)
    BY <2>1 DEF Closed
  <2>3. {} \in V /\ N \in Nat
    BY <1>1
  <2> HIDE DEF after, N, V
  <2>4. PICK f : f[0] = {} /\ f \in [0..N -> V] /\ \A n \in 1..N : f[n] = after[n][f[n - 1]]
    <3>1. \E f : f[0] = {} /\ Iterated(f, after, N, V)
      BY <2>2, <2>3, Iterates
    <3> QED BY <3>1 DEF Iterated
  <2>5. ASSUME NEW i \in 0..N
        PROVE  f[i] = IF i = 0 THEN {} ELSE IF Holds(i, f[i - 1]) THEN f[i - 1] \cup {q(i)} ELSE f[i - 1]
    <3>1. CASE i = 0
      BY <2>4, <3>1
    <3>2. CASE i # 0
      <4>1. i \in 1..N /\ i - 1 \in 0..N
        BY <2>3, <3>2
      <4>2. f[i - 1] \in V /\ f[i] = after[i][f[i - 1]]
        BY <2>4, <4>1
      <4> QED BY <3>2, <4>1, <4>2 DEF after
    <3> QED BY <3>1, <3>2
  <2>6. Solves(f)
    BY <2>4, <2>5
  <2> HIDE DEF Solves
  <2> QED BY <2>6
<1>4. Solves(implied)
  BY <1>3
<1>5. impliedBy(L) = implied[N]
  BY DEF impliedBy
<1> HIDE DEF implied
<1>6. /\ implied[0] = {}
      /\ \A i \in 1..N : implied[i] = IF Holds(i, implied[i - 1]) THEN implied[i - 1] \cup {q(i)} ELSE implied[i - 1]
  <2>1. \A i \in 0..N : implied[i] = IF i = 0 THEN {}
                                     ELSE IF Holds(i, implied[i - 1]) THEN implied[i - 1] \cup {q(i)} ELSE implied[i - 1]
    <3> HIDE DEF Holds, q
    <3> QED BY <1>4
  <2>2. 0 \in 0..N /\ \A n \in 1..N : n \in 0..N /\ n # 0
    BY <1>1
  <2> HIDE DEF Holds, q
  <2> QED BY <2>1, <2>2
<1> DEFINE Good(n) ==
        /\ \A k \in implied[n] : \E i \in 1..n : k = q(i) /\ Holds(i, implied[n])
        /\ \A i \in 1..n : q(i) \in L => q(i) \in implied[n]
           T == {n \in 0..N : Good(n)}
<1>7. 0 \in T
  BY <1>1, <1>6
<1>8. ASSUME NEW n \in 1..N, n - 1 \in T PROVE n \in T
  <2>1. Good(n - 1)
    BY <1>8
  <2>2. implied[n - 1] \subseteq implied[n] /\ \A k \in implied[n] : k \in implied[n - 1] \/ (k = q(n) /\ Holds(n, implied[n - 1]))
    <3> HIDE DEF Holds, q
    <3> QED BY <1>6
  <2>3. \A i \in 1..n : Holds(i, implied[n - 1]) => Holds(i, implied[n])
    BY <2>2
  <2>4. 1..n = 1..(n - 1) \cup {n} /\ n \in 0..N /\ n \in 1..n
    BY <1>1
  <2>5. q(n) \in L => q(n) \in implied[n]
    <3>1. q(n) \in L => Holds(n, implied[n - 1])
      OBVIOUS
    <3> HIDE DEF Holds, q
    <3> QED BY <1>6, <3>1
  <2> HIDE DEF Holds, q
  <2>6. \A k \in implied[n] : \E i \in 1..n : k = q(i) /\ Holds(i, implied[n])
    BY <2>1, <2>2, <2>3, <2>4
  <2>7. \A i \in 1..n : q(i) \in L => q(i) \in implied[n]
    BY <2>1, <2>2, <2>4, <2>5
  <2> QED BY <2>4, <2>6, <2>7
<1>9. N \in T
  <2> HIDE DEF T, N
  <2>1. \A n \in 0..N : n \in T
    BY <1>1, <1>7, <1>8, UpTo
  <2> QED BY <1>1, <2>1
<1> DEFINE I == impliedBy(L)
<1>10. /\ \A k \in I : \E i \in 1..N : k = q(i) /\ Holds(i, I)
       /\ \A i \in 1..N : q(i) \in L => q(i) \in I
  <2> HIDE DEF Holds, q
  <2> QED BY <1>5, <1>9
<1> HIDE DEF I
<1>11. L \subseteq I
  <2> SUFFICES ASSUME NEW k \in L PROVE k \in I
    OBVIOUS
  <2>1. place(k) \in 1..N /\ k = q(place(k))
    BY <1>1, FalseLevel
  <2> HIDE DEF q
  <2> QED BY <1>10, <2>1
<1>12. ASSUME NEW k \in I
       PROVE  k \in SatLiterals /\ isFalse(k) /\ (level(k) = 0 \/ k \in L \/ redundant(k, I))
  <2>1. PICK i \in 1..N : k = q(i) /\ Holds(i, I)
    BY <1>10
  <2>2. k \in SatLiterals /\ isFalse(k) /\ place(k) = i /\ level(k) = levelAt(i)
    <3> HIDE DEF q, Holds
    <3> QED BY <1>2, <2>1
  <2>3. reasonOf(k) = trail[i].reason
    BY <2>2 DEF reasonOf
  <2>4. levelAt(i) = 0 \/ k \in L \/ (reasonOf(k) # {} /\ antecedents(reasonOf(k), -k) \subseteq I)
    BY <2>1, <2>3
  <2> QED BY <2>2, <2>4 DEF redundant
<1> QED BY <1>11, <1>12 DEF I

\* What is redundant may be left out.
LEMMA Minimized ==
    ASSUME SearchOK, NEW L \in SUBSET SatLiterals, \A q \in L : isFalse(q) /\ lower(q), NEW u, Follows({u} \cup L)
    PROVE  Follows({u} \cup {q \in L : ~redundant(q, impliedBy(L))})
<1> DEFINE I == impliedBy(L)
           kept == {q \in L : ~redundant(q, I)}
<1>1. /\ L \subseteq I /\ I \subseteq SatLiterals
      /\ \A q \in I : isFalse(q) /\ (level(q) = 0 \/ q \in L \/ redundant(q, I))
  BY ImpliedFacts
<1>2. GlucoseTypeOK /\ TrailInv /\ DOMAIN trail = 1..Len(trail) /\ Len(trail) \in Nat
  BY TrailFacts DEF SearchOK
<1> HIDE DEF I
<1> SUFFICES ASSUME NEW W \in worlds, Satisfies(W, DOMAIN database), Root \subseteq W, u \notin W, kept \cap W = {}
             PROVE  FALSE
  BY DEF Follows, I
<1>3. PICK k \in I : k \in W
  <2>1. PICK k \in {u} \cup L : k \in W
    BY DEF Follows
  <2> QED BY <1>1, <2>1
<1>4. \A q \in I : /\ place(q) \in DOMAIN trail /\ place(q) \in Nat /\ trail[place(q)].lit = -q /\ q \in SatLiterals
                   /\ level(q) = levelAt(place(q)) /\ levelAt(place(q)) \in Nat /\ (level(q) = 0 => -q \in Root)
  <2> SUFFICES ASSUME NEW q \in I
               PROVE /\ place(q) \in DOMAIN trail /\ place(q) \in Nat /\ trail[place(q)].lit = -q /\ q \in SatLiterals
                     /\ level(q) = levelAt(place(q)) /\ levelAt(place(q)) \in Nat /\ (level(q) = 0 => -q \in Root)
    OBVIOUS
  <2>1. q \in SatLiterals /\ isFalse(q)
    BY <1>1
  <2>2. /\ place(q) \in DOMAIN trail /\ place(q) \in Nat /\ trail[place(q)].lit = -q
        /\ level(q) = levelAt(place(q)) /\ level(q) \in Nat
    BY <1>2, <2>1, FalseLevel
  <2> QED BY <2>1, <2>2 DEF Root
\* The first of the trail that is implied and true in W has no antecedent that is.
<1> DEFINE P == {place(q) : q \in {p \in I : p \in W}}
<1>5. PICK m \in P : \A n \in P : m <= n
  <2>1. P \in SUBSET Nat /\ P # {}
    BY <1>3, <1>4
  <2> HIDE DEF P
  <2> QED BY <2>1, LeastNumber
<1>6. PICK q \in I : q \in W /\ place(q) = m
  BY <1>5
<1>7. -q \notin W /\ level(q) # 0
  BY <1>4, <1>6, WorldFacts
<1>8. redundant(q, I)
  <2>1. q \in L => redundant(q, I)
    BY <1>6
  <2> QED BY <1>1, <1>7, <2>1
<1>9. m \in DOMAIN trail /\ levelAt(m) > 0 /\ trail[m].reason # {} /\ trail[m].lit = -q /\ antecedents(trail[m].reason, -q) \subseteq I
  BY <1>4, <1>6, <1>7, <1>8 DEF redundant, reasonOf
<1> DEFINE C == trail[m].reason
<1>10. /\ C \in DOMAIN database /\ antecedents(C, -q) = C \ {-q}
       /\ \A c \in C \ {-q} : \E j \in 1..(m - 1) : j \in DOMAIN trail /\ trail[j].lit = -c /\ place(c) = j
  BY <1>9, Antecedents
<1>11. PICK c \in C : c \in W
  BY <1>10 DEF Satisfies
<1>12. c \in I /\ place(c) \in 1..(m - 1)
  BY <1>7, <1>9, <1>10, <1>11
<1>13. m <= place(c)
  BY <1>5, <1>11, <1>12
<1> QED BY <1>2, <1>9, <1>12, <1>13

--------------------------------------------------------------------------------
(***************************************************************************)
(* The clause learnt.                                                      *)
(***************************************************************************)
LEMMA HighestFacts ==
    ASSUME GlucoseTypeOK, TrailInv, NEW s \in Seq(SatLiterals), s # <<>>, \A q \in range(s) : isFalse(q)
    PROVE  \E h \in DOMAIN s : /\ \A j \in DOMAIN s : level(s[j]) <= level(s[h])
                               /\ \A j \in 1..h - 1 : level(s[j]) < level(s[h])
<1>1. DOMAIN s = 1..Len(s) /\ Len(s) \in Nat /\ 1 \in DOMAIN s
  BY LenProperties, EmptySeq
<1>2. \A j \in DOMAIN s : s[j] \in SatLiterals /\ isFalse(s[j])
  BY <1>1, ElementOfSeq DEF range
<1>3. decisionLevel \in Nat
  BY TrailFacts
<1>4. \A j \in DOMAIN s : level(s[j]) \in Nat /\ level(s[j]) <= decisionLevel
  BY <1>2, <1>3, FalseLevel
<1> DEFINE V == {level(s[j]) : j \in DOMAIN s}
<1>5. PICK m \in V : \A v \in V : v <= m
  <2>1. V \in SUBSET Nat /\ V # {} /\ \A v \in V : v <= decisionLevel
    BY <1>1, <1>4
  <2> HIDE DEF V
  <2> QED BY <1>3, <2>1, GreatestNumber
<1> DEFINE P == {j \in DOMAIN s : level(s[j]) = m}
<1>6. PICK h \in P : \A j \in P : h <= j
  <2>1. P \in SUBSET Nat /\ P # {}
    BY <1>1, <1>5
  <2> HIDE DEF P
  <2> QED BY <2>1, LeastNumber
<1>7. h \in DOMAIN s /\ level(s[h]) = m /\ m \in Nat
  BY <1>4, <1>6
<1>8. \A j \in DOMAIN s : level(s[j]) <= m
  BY <1>5
<1>9. ASSUME NEW j \in 1..h - 1 PROVE level(s[j]) < m
  <2>1. j \in DOMAIN s /\ j < h /\ j \in Nat /\ h \in Nat
    BY <1>1, <1>7
  <2>2. level(s[j]) # m
    BY <1>6, <2>1
  <2> QED BY <1>4, <1>7, <1>8, <2>1, <2>2
<1> QED BY <1>7, <1>8, <1>9

\* analyze: the clause learnt is false, only its first literal is of the current level, no other
\* one is of a higher level than the second, and it follows.
LEMMA LearntFacts ==
    ASSUME Analysing
    PROVE  LET lits == learntClause
           IN  /\ lits \in Seq(SatLiterals) /\ Len(lits) \in Nat \ {0} /\ Distinct(lits) /\ Follows(range(lits))
               /\ isFalse(lits[1]) /\ current(lits[1])
               /\ \A k \in 2..Len(lits) : isFalse(lits[k]) /\ lower(lits[k]) /\ level(lits[k]) <= level(lits[2])
<1> DEFINE r == resolved
           L == range(r.learnt)
           I == impliedBy(L)
           kept == {q \in L : ~redundant(q, I)}
           rest == inOrder(r.learnt, kept)
           highest == CHOOSE k \in DOMAIN rest :
                       /\ \A j \in DOMAIN rest : level(rest[j]) <= level(rest[k])
                       /\ \A j \in 1..k - 1 : level(rest[j]) < level(rest[k])
           uip == CHOOSE l \in r.uip : TRUE
           moved == swapped(rest, 1, highest)
           lits == learntClause
<1>1. SearchOK /\ GlucoseTypeOK /\ TrailInv /\ decisionLevel > 0
  BY DEF Analysing, GlucoseInv, SearchOK
<1>2. lits = IF rest = <<>> THEN <<uip>> ELSE <<uip>> \o moved
  BY DEF learntClause, swapped
<1>3. /\ r \in Resolutions /\ Distinct(r.learnt) /\ \A q \in L : isFalse(q) /\ lower(q)
      /\ \E u \in SatLiterals : r.uip = {u} /\ isFalse(u) /\ current(u) /\ Follows({u} \cup L)
  BY ResolvedFacts DEF Asserting
<1>4. r.learnt \in Seq(SatLiterals) /\ L \in SUBSET SatLiterals
  <2>1. r.learnt \in Seq(SatLiterals)
    BY <1>3 DEF Resolutions
  <2> HIDE DEF r
  <2> QED BY <2>1, LenProperties, ElementOfSeq DEF range
<1>5. /\ uip \in SatLiterals /\ isFalse(uip) /\ current(uip) /\ Follows({uip} \cup L)
  BY <1>3
<1> HIDE DEF uip, r, lits
<1>6. Follows({uip} \cup kept)
  <2> HIDE DEF L
  <2> QED BY <1>1, <1>3, <1>4, <1>5, Minimized
<1> HIDE DEF kept
<1>7. kept \subseteq L
  BY DEF kept
<1>8. rest \in Seq(SatLiterals) /\ range(rest) = kept /\ Distinct(rest)
  <2>1. rest \in Seq(SatLiterals) /\ range(rest) = L \cap kept /\ Distinct(rest)
    BY <1>3, <1>4, InOrderFacts
  <2> QED BY <1>7, <2>1
<1> HIDE DEF L, rest
<1>9. /\ <<uip>> \in Seq(SatLiterals) /\ Len(<<uip>>) = 1 /\ range(<<uip>>) = {uip} /\ Distinct(<<uip>>)
      /\ <<uip>>[1] = uip
  <2>1. <<uip>> \in Seq(SatLiterals) /\ Len(<<uip>>) = 1 /\ <<uip>>[1] = uip
    BY <1>5
  <2>2. DOMAIN <<uip>> = {1}
    BY <2>1, LenProperties
  <2> QED BY <2>1, <2>2 DEF range, Distinct
<1>10. uip \notin kept
  <2>1. level(uip) = decisionLevel /\ \A q \in kept : level(q) < decisionLevel
    BY <1>3, <1>5, <1>7 DEF current, lower
  <2>2. decisionLevel \in Nat
    BY <1>1, TrailFacts
  <2> QED BY <2>1, <2>2
<1>11. CASE rest = <<>>
  <2>1. lits = <<uip>>
    BY <1>2, <1>11
  <2>2. kept = {}
    BY <1>8, <1>11, EmptySeq, LenProperties DEF range
  <2>3. 2..Len(lits) = {}
    BY <1>9, <2>1
  <2> QED BY <1>5, <1>6, <1>9, <2>1, <2>2, <2>3 DEF lits
<1>12. CASE rest # <<>>
  <2>1. lits = <<uip>> \o moved
    BY <1>2, <1>12
  <2>2. \A q \in range(rest) : isFalse(q) /\ lower(q)
    BY <1>3, <1>7, <1>8
  <2>3. /\ highest \in DOMAIN rest /\ \A j \in DOMAIN rest : level(rest[j]) <= level(rest[highest])
    <3>1. \E h \in DOMAIN rest : /\ \A j \in DOMAIN rest : level(rest[j]) <= level(rest[h])
                                 /\ \A j \in 1..h - 1 : level(rest[j]) < level(rest[h])
      BY <1>1, <1>8, <1>12, <2>2, HighestFacts
    <3> QED BY <3>1
  <2> HIDE DEF highest
  <2>4. DOMAIN rest = 1..Len(rest) /\ Len(rest) \in Nat /\ 1 \in 1..Len(rest) /\ highest \in 1..Len(rest)
    <3>1. DOMAIN rest = 1..Len(rest) /\ Len(rest) \in Nat /\ Len(rest) # 0
      BY <1>8, <1>12, LenProperties, EmptySeq
    <3> QED BY <2>3, <3>1
  <2>5. /\ moved \in Seq(SatLiterals) /\ Len(moved) = Len(rest) /\ range(moved) = kept /\ Distinct(moved)
        /\ moved[1] = rest[highest]
    <3> HIDE DEF kept
    <3>1. 1 \in 1..Len(rest) /\ highest \in 1..Len(rest) /\ rest \in Seq(SatLiterals)
      BY <1>8, <2>4
    <3>2. /\ moved \in Seq(SatLiterals) /\ Len(moved) = Len(rest) /\ range(moved) = range(rest)
          /\ (Distinct(rest) => Distinct(moved)) /\ moved[1] = rest[highest]
      BY <3>1, SwapFacts
    <3> QED BY <1>8, <3>2
  <2> HIDE DEF moved
  <2>6. /\ lits \in Seq(SatLiterals) /\ range(lits) = {uip} \cup kept /\ Distinct(lits)
    <3> DEFINE first == <<uip>>
    <3>1. first \in Seq(SatLiterals) /\ range(first) = {uip} /\ Distinct(first) /\ lits = first \o moved
      BY <1>9, <2>1
    <3> HIDE DEF first
    <3>2. range(first) \cap range(moved) = {}
      BY <1>10, <2>5, <3>1
    <3>3. /\ first \o moved \in Seq(SatLiterals) /\ range(first \o moved) = range(first) \cup range(moved)
          /\ Distinct(first \o moved)
      BY <2>5, <3>1, <3>2, RangeOfConcat
    <3> QED BY <2>5, <3>1, <3>3
  <2>7. /\ Len(lits) = 1 + Len(rest) /\ lits[1] = uip
        /\ \A k \in 2..Len(lits) : lits[k] = moved[k - 1] /\ k - 1 \in 1..Len(rest)
    <3>1. /\ Len(lits) = Len(<<uip>>) + Len(moved)
          /\ \A k \in 1..(Len(<<uip>>) + Len(moved)) : lits[k] = IF k <= Len(<<uip>>) THEN <<uip>>[k] ELSE moved[k - Len(<<uip>>)]
      BY <1>9, <2>1, <2>5, ConcatProperties
    <3>2. Len(lits) = 1 + Len(rest) /\ \A k \in 1..(1 + Len(rest)) : lits[k] = IF k <= 1 THEN <<uip>>[k] ELSE moved[k - 1]
      BY <1>9, <2>5, <3>1
    <3> QED BY <1>9, <2>4, <3>2
  <2>8. \A m \in 1..Len(rest) : isFalse(moved[m]) /\ lower(moved[m]) /\ level(moved[m]) <= level(rest[highest])
    <3> SUFFICES ASSUME NEW m \in 1..Len(rest)
                 PROVE  isFalse(moved[m]) /\ lower(moved[m]) /\ level(moved[m]) <= level(rest[highest])
      OBVIOUS
    <3>1. moved[m] \in range(moved)
      BY <2>5, LenProperties DEF range
    <3>2. PICK j \in DOMAIN rest : moved[m] = rest[j]
      BY <1>8, <2>5, <3>1 DEF range
    <3>3. moved[m] \in range(rest)
      BY <1>8, <2>5, <3>1
    <3> QED BY <2>2, <2>3, <3>2, <3>3
  <2>9. lits[2] = rest[highest]
    <3>1. 2 \in 2..Len(lits)
      BY <2>4, <2>7
    <3> QED BY <2>5, <2>7, <3>1
  <2>10. \A k \in 2..Len(lits) : isFalse(lits[k]) /\ lower(lits[k]) /\ level(lits[k]) <= level(lits[2])
    BY <2>7, <2>8, <2>9
  <2>11. Len(lits) \in Nat \ {0}
    BY <2>4, <2>7
  <2> QED BY <1>5, <1>6, <2>6, <2>7, <2>10, <2>11 DEF lits
<1> QED BY <1>11, <1>12

LEMMA DistinctLength ==
    ASSUME NEW X, NEW s \in Seq(X), Distinct(s)
    PROVE  Cardinality(range(s)) = Len(s) /\ IsFiniteSet(range(s))
<1>1. DOMAIN s = 1..Len(s) /\ Len(s) \in Nat /\ s \in [1..Len(s) -> X]
  BY LenProperties
<1>2. s \in Surjection(1..Len(s), range(s)) /\ s \in Injection(1..Len(s), range(s))
  BY <1>1 DEF Surjection, Injection, IsInjective, range, Distinct
<1>3. IsFiniteSet(1..Len(s)) /\ Cardinality(1..Len(s)) = Len(s)
  BY <1>1, FS_Interval
<1>4. s \in Bijection(1..Len(s), range(s))
  BY <1>2 DEF Bijection
<1>5. ExistsBijection(1..Len(s), range(s))
  BY <1>4 DEF ExistsBijection
<1> QED BY <1>3, <1>5, FS_Bijection

\* It is not in the database: one of the literals a clause watches would have been seen.
LEMMA LearntIsNew ==
    ASSUME Analysing
    PROVE  range(learntClause) \notin DOMAIN database
<1> DEFINE lits == learntClause
           C == range(lits)
<1>1. /\ GlucoseTypeOK /\ DatabaseInv /\ TrailInv /\ PhaseInv /\ WatchInv /\ pc = "conflict" /\ decisionLevel > 0
  BY DEF Analysing, GlucoseInv
<1>2. /\ lits \in Seq(SatLiterals) /\ Len(lits) \in Nat \ {0} /\ Distinct(lits)
      /\ isFalse(lits[1]) /\ \A k \in 2..Len(lits) : isFalse(lits[k]) /\ lower(lits[k])
  BY LearntFacts
<1> HIDE DEF lits
<1> SUFFICES ASSUME C \in DOMAIN database PROVE FALSE
  BY DEF lits
<1>3. DOMAIN lits = 1..Len(lits)
  BY <1>2, LenProperties
<1>4. \A q \in C : q \in SatLiterals /\ isFalse(q) /\ (q = lits[1] \/ lower(q))
  <2> SUFFICES ASSUME NEW k \in 1..Len(lits)
               PROVE  lits[k] \in SatLiterals /\ isFalse(lits[k]) /\ (lits[k] = lits[1] \/ lower(lits[k]))
    BY <1>3 DEF range
  <2>1. lits[k] \in SatLiterals
    BY <1>2, ElementOfSeq
  <2>2. k = 1 \/ k \in 2..Len(lits)
    BY <1>2
  <2> QED BY <1>2, <2>1, <2>2
<1> HIDE DEF C
<1>5. PICK w \in watched(C) : w \in C /\ w # lits[1]
  <2>1. database[C].lits[1] # database[C].lits[2] /\ watched(C) \subseteq C
    BY <1>1, ClauseFacts
  <2> QED BY <2>1 DEF watched
<1> DEFINE j == place(w)
<1>6. w \in SatLiterals /\ isFalse(w) /\ lower(w)
  BY <1>4, <1>5
<1>7. /\ j \in DOMAIN trail /\ j \in Nat /\ -trail[j].lit = w /\ levelAt(j) = level(w)
      /\ levelAt(j) \in 0..decisionLevel /\ levelAt(j) < decisionLevel /\ decisionLevel \in Nat
  BY <1>1, <1>6, FalseLevel DEF lower
<1>8. Seen(j, C)
  <2> DEFINE k == levelAt(j) + 1
  <2>1. k \in 1..decisionLevel /\ ~(k <= levelAt(j))
    BY <1>7
  <2>2. ~(trail_lim[k] < j) /\ trail_lim[k] \in Nat /\ k \in DOMAIN trail_lim
    BY <1>1, <1>7, <2>1, AtLevel, TrailFacts
  <2>3. trail_lim[k] <= qhead /\ qhead \in Nat
    BY <1>1, <2>2 DEF TrailInv, GlucoseTypeOK
  <2>4. j <= qhead
    BY <1>7, <2>2, <2>3
  <2>5. visiting = {}
    BY <1>1 DEF PhaseInv
  <2> QED BY <1>7, <2>3, <2>4, <2>5 DEF Seen
<1>9. PICK i \in DOMAIN trail : trail[i].lit \in C
  <2>1. ok
    BY <1>1 DEF PhaseInv
  <2>2. -trail[j].lit \in watched(C)
    BY <1>5, <1>7
  <2> HIDE DEF j
  <2> QED BY <1>1, <1>7, <1>8, <2>1, <2>2 DEF WatchInv
<1>10. isTrue(trail[i].lit) /\ isFalse(trail[i].lit) /\ trail[i].lit \in SatLiterals
  BY <1>4, <1>9 DEF isTrue, true_literals
<1> QED BY <1>1, <1>10, FalseFacts

\* What Learn does to the database.
LEMMA LearntClauses ==
    ASSUME Analysing, NEW list \in {"learnts", "permanentLearnts"}, NEW promoted \in SUBSET resolved.met,
           Learn(list, promoted)
    PROVE  LET lits == learntClause
               C == range(lits)
           IN  /\ DOMAIN database' = DOMAIN database \cup (IF Len(lits) = 1 THEN {} ELSE {C})
               /\ \A D \in DOMAIN database : /\ database'[D].lits = database[D].lits
                                             /\ database'[D].blockers = database[D].blockers
               /\ database' \in [DOMAIN database' -> ClauseData] /\ \A D \in DOMAIN database' : Lists(database'[D], D)
               /\ Given' = Given
               /\ Len(lits) # 1 => database'[C].lits = lits
<1> DEFINE lits == learntClause
           C == range(lits)
           kept == keptForGood(promoted)
           data == attach(lits, list)
<1>1. GlucoseTypeOK /\ DatabaseInv
  BY DEF Analysing, GlucoseInv
<1>2. lits \in Seq(SatLiterals) /\ Len(lits) \in Nat \ {0} /\ Distinct(lits)
  BY LearntFacts
<1>3. C \notin DOMAIN database
  BY LearntIsNew
<1>4. /\ \A D \in promoted : database[D].list = "learnts"
      /\ database' = IF Len(lits) = 1 THEN kept
                     ELSE [D \in DOMAIN kept \cup {C} |-> IF D = C THEN attach(lits, list) ELSE kept[D]]
  BY DEF Learn
<1> HIDE DEF lits
<1>5. /\ DOMAIN kept = DOMAIN database
      /\ \A D \in DOMAIN database :
            kept[D] = IF D \in promoted THEN [database[D] EXCEPT !.list = "permanentLearnts"] ELSE database[D]
  BY DEF keptForGood
<1>6. ASSUME NEW D \in DOMAIN database
      PROVE  /\ kept[D] \in ClauseData
             /\ kept[D].lits = database[D].lits /\ kept[D].blockers = database[D].blockers
             /\ kept[D].list = "clauses" <=> database[D].list = "clauses"
  <2>1. database[D] \in ClauseData
    BY <1>1 DEF GlucoseTypeOK
  <2> QED BY <1>4, <1>5, <2>1 DEF ClauseData
<1> HIDE DEF kept
<1>7. \A D \in DOMAIN database : Lists(kept[D], D)
  BY <1>1, <1>6 DEF DatabaseInv, Lists
<1>8. CASE Len(lits) = 1
  <2>1. database' = kept
    BY <1>4, <1>8
  <2>2. database' \in [DOMAIN database' -> ClauseData]
    <3>1. kept = [D \in DOMAIN database |-> kept[D]]
      BY <1>5 DEF kept, keptForGood
    <3> QED BY <1>5, <1>6, <2>1, <3>1
  <2>3. Given' = Given
    BY <1>5, <1>6, <2>1 DEF Given
  <2> QED BY <1>5, <1>6, <1>7, <1>8, <2>1, <2>2, <2>3 DEF lits
<1>9. CASE Len(lits) # 1
  <2>0. DOMAIN lits = 1..Len(lits)
    BY <1>2, LenProperties
  <2>1. DOMAIN lits = 1..Len(lits) /\ 1 \in 1..Len(lits) /\ 2 \in 1..Len(lits) /\ Len(lits) >= 2
    BY <1>2, <1>9, <2>0
  <2>2. lits[1] \in SatLiterals /\ lits[2] \in SatLiterals /\ lits[1] \in C /\ lits[2] \in C
    BY <1>2, <2>1, ElementOfSeq DEF range
  <2>3. data = [lits |-> lits, blockers |-> <<lits[2], lits[1]>>, list |-> list]
    BY DEF attach
  <2>4. data \in ClauseData /\ data.list # "clauses" /\ data.lits = lits
    BY <1>2, <2>2, <2>3 DEF ClauseData
  <2>5. Cardinality(C) = Len(lits)
    BY <1>2, DistinctLength
  <2>6. Lists(data, C)
    <3>1. \A k, m \in DOMAIN lits : lits[k] = lits[m] => k = m
      BY <1>2 DEF Distinct
    <3>2. data.blockers[1] = lits[2] /\ data.blockers[2] = lits[1]
      BY <2>3
    <3> HIDE DEF data
    <3> QED BY <2>1, <2>2, <2>4, <2>5, <3>1, <3>2 DEF Lists
  <2> HIDE DEF C, data
  <2>7. /\ DOMAIN database' = DOMAIN database \cup {C} /\ database'[C] = data
        /\ \A D \in DOMAIN database : database'[D] = kept[D]
        /\ database' = [D \in DOMAIN database \cup {C} |-> IF D = C THEN data ELSE kept[D]]
    BY <1>3, <1>4, <1>5, <1>9 DEF C, data
  <2>8. database' \in [DOMAIN database' -> ClauseData]
    BY <1>6, <2>4, <2>7
  <2>9. Given' = Given
    BY <1>3, <1>6, <2>4, <2>7 DEF Given
  <2>10. \A D \in DOMAIN database' : Lists(database'[D], D)
    BY <1>7, <2>6, <2>7
  <2>11. \A D \in DOMAIN database : database'[D].lits = database[D].lits /\ database'[D].blockers = database[D].blockers
    BY <1>6, <2>7
  <2> QED BY <1>9, <2>4, <2>7, <2>8, <2>9, <2>10, <2>11 DEF C, lits
<1> QED BY <1>8, <1>9

LEMMA LearnInv ==
    ASSUME Analysing, NEW list \in {"learnts", "permanentLearnts"}, NEW promoted \in SUBSET resolved.met,
           Learn(list, promoted)
    PROVE  GlucoseInv'
<1> DEFINE lits == learntClause
           C == range(lits)
           u == lits[1]
           bt == IF Len(lits) = 1 THEN 0 ELSE level(lits[2])
           n == keptLength(bt)
           reason == IF Len(lits) = 1 THEN {} ELSE C
<1>1. /\ GlucoseTypeOK /\ DatabaseInv /\ TrailInv /\ PhaseInv /\ VisitInv /\ ConflictInv /\ DecisionsInv
      /\ ReasonsImply /\ WatchInv /\ WorldsInv /\ VariablesInv /\ AssumptionsInv
      /\ pc = "conflict" /\ decisionLevel > 0
  BY DEF Analysing, GlucoseInv
<1>2. /\ clause_list' = clause_list /\ nof_added' = nof_added /\ max_var' = max_var /\ assumptions' = assumptions
      /\ ok' = ok /\ visiting' = visiting /\ pc' = "searching"
      /\ cancelUntil(bt) /\ trail' = enqueue(trailUntil(bt), u, reason)
  BY DEF Learn, callVars
<1>3. ok /\ visiting = {}
  BY <1>1 DEF PhaseInv
<1>4. /\ lits \in Seq(SatLiterals) /\ Len(lits) \in Nat \ {0} /\ Distinct(lits) /\ Follows(C)
      /\ isFalse(u) /\ current(u)
      /\ \A k \in 2..Len(lits) : isFalse(lits[k]) /\ lower(lits[k]) /\ level(lits[k]) <= level(lits[2])
  BY LearntFacts
<1>5. /\ DOMAIN database' = DOMAIN database \cup (IF Len(lits) = 1 THEN {} ELSE {C})
      /\ \A D \in DOMAIN database : database'[D].lits = database[D].lits /\ database'[D].blockers = database[D].blockers
      /\ database' \in [DOMAIN database' -> ClauseData] /\ \A D \in DOMAIN database' : Lists(database'[D], D)
      /\ Given' = Given
      /\ Len(lits) # 1 => database'[C].lits = lits
  BY LearntClauses
<1> HIDE DEF lits
<1>6. DOMAIN lits = 1..Len(lits) /\ 1 \in 1..Len(lits) /\ \A k \in 1..Len(lits) : k # 1 => k \in 2..Len(lits)
  BY <1>4, LenProperties
<1>7. \A k \in 1..Len(lits) : lits[k] \in SatLiterals /\ lits[k] \in C
  BY <1>4, <1>6, ElementOfSeq DEF range
<1>8. decisionLevel \in Nat /\ DOMAIN trail = 1..Len(trail) /\ Len(trail) \in Nat
  BY <1>1, TrailFacts
<1>9. /\ bt \in Nat /\ bt < decisionLevel /\ (bt = 0 => Len(lits) = 1)
      /\ Len(lits) # 1 => 2 \in 2..Len(lits) /\ bt = level(lits[2])
  <2>1. CASE Len(lits) = 1
    BY <1>1, <1>8, <2>1
  <2>2. CASE Len(lits) # 1
    <3>0. Len(lits) \in Nat /\ Len(lits) # 0
      BY <1>4
    <3>1. 2 \in 2..Len(lits) /\ 2 \in 1..Len(lits)
      BY <2>2, <3>0
    <3>2. lits[2] \in SatLiterals /\ isFalse(lits[2]) /\ lower(lits[2])
      BY <1>4, <1>7, <3>1
    <3>3. level(lits[2]) \in Nat
      BY <1>1, <3>2, FalseLevel
    <3> QED BY <2>2, <3>1, <3>2, <3>3 DEF lower
  <2> QED BY <2>1, <2>2
<1>10. C \in SUBSET SatLiterals /\ u \in C /\ u \in SatLiterals /\ reason \in SUBSET SatLiterals
       /\ \A q \in C : q = u \/ \E k \in 2..Len(lits) : q = lits[k]
  BY <1>6, <1>7 DEF range
<1> HIDE DEF C, u, bt, reason
\* Where the literals of the clause became false.
<1>11. /\ keptLength(bt) \in 0..Len(trail) /\ keptLevels(bt) = bt /\ n \in Nat /\ n <= qhead
       /\ trailUntil(bt) \in Seq(Entries) /\ Len(trailUntil(bt)) = n
       /\ \A i \in DOMAIN trail : i <= n <=> levelAt(i) <= bt
       /\ \A k \in 1..bt : trail_lim[k] <= n
  <2>1. keptLevels(bt) = bt
    BY <1>9 DEF keptLevels
  <2>2. /\ keptLength(bt) \in 0..Len(trail) /\ trailUntil(bt) \in Seq(Entries) /\ Len(trailUntil(bt)) = keptLength(bt)
        /\ \A i \in DOMAIN trail : i <= keptLength(bt) <=> levelAt(i) <= bt
        /\ \A k \in 1..keptLevels(bt) : trail_lim[k] <= keptLength(bt)
        /\ decisionLevel > bt => keptLength(bt) <= qhead
    BY <1>1, <1>9, TrailUntilFacts
  <2> QED BY <1>8, <1>9, <2>1, <2>2
<1>12. /\ place(u) \in DOMAIN trail /\ trail[place(u)].lit = -u /\ ~(place(u) <= n)
       /\ \A i \in DOMAIN trail : u = -trail[i].lit => i = place(u)
  <2>1. /\ place(u) \in DOMAIN trail /\ trail[place(u)].lit = -u /\ levelAt(place(u)) = decisionLevel
        /\ \A i \in DOMAIN trail : u = -trail[i].lit => i = place(u)
    BY <1>1, <1>4, <1>10, FalseLevel DEF current
  <2> QED BY <1>8, <1>9, <1>11, <2>1
<1>13. ASSUME NEW k \in 2..Len(lits)
       PROVE  /\ lits[k] \in SatLiterals /\ place(lits[k]) \in DOMAIN trail /\ trail[place(lits[k])].lit = -lits[k]
              /\ place(lits[k]) \in 1..n /\ levelAt(place(lits[k])) = level(lits[k])
              /\ \A i \in DOMAIN trail : lits[k] = -trail[i].lit => i = place(lits[k])
  <2>1. k \in 1..Len(lits) /\ Len(lits) # 1
    BY <1>4
  <2>2. lits[k] \in SatLiterals /\ isFalse(lits[k]) /\ level(lits[k]) <= bt
    BY <1>4, <1>7, <1>9, <2>1
  <2>3. /\ place(lits[k]) \in DOMAIN trail /\ trail[place(lits[k])].lit = -lits[k]
        /\ levelAt(place(lits[k])) = level(lits[k])
        /\ \A i \in DOMAIN trail : lits[k] = -trail[i].lit => i = place(lits[k])
    BY <1>1, <2>2, FalseLevel
  <2>4. place(lits[k]) <= n
    BY <1>11, <2>2, <2>3
  <2> QED BY <1>8, <1>11, <2>2, <2>3, <2>4
<1>14. Grown(trailUntil(bt)) /\ levelsCut(bt)
  BY <1>2, <1>10 DEF Grown, cancelUntil, levelsCut
<1>15. order_heap' \subseteq upTo(max_var) /\ \A v \in upTo(max_var) : isUndef(v)' => v \in order_heap'
  BY <1>1, <1>2, <1>9, <1>14, CancelHeap
<1>16. Kept(n) /\ decisionLevel' = bt /\ qhead' = n
  <2>1. Kept(n) /\ decisionLevel' = keptLevels(bt)
    BY <1>1, <1>9, <1>14, KeptCut
  <2>2. qhead' = keptLength(bt)
    BY <1>1, <1>9, <1>14, CancelFacts
  <2> QED BY <1>11, <2>1, <2>2
<1>17. /\ DOMAIN trail' = 1..(n + 1) /\ Len(trail') = n + 1
       /\ trail'[n + 1].lit = u /\ trail'[n + 1].reason = reason
       /\ \A i \in 1..n : i \in DOMAIN trail /\ i \in DOMAIN trail' /\ trail'[i] = trail[i] /\ levelAt(i)' = levelAt(i)
  <2>1. /\ DOMAIN trail' = 1..(n + 1) /\ Len(trail') = n + 1
        /\ trail'[n + 1].lit = u /\ trail'[n + 1].reason = reason
    <3> HIDE DEF n
    <3> QED BY <1>2, <1>10, <1>11, EnqueueFacts
  <2> QED BY <1>1, <1>16, <2>1, KeptFacts
<1>18. \A i \in Nat : i = n + 1 => levelAt(i)' = bt
  <2> SUFFICES ASSUME NEW i \in Nat, i = n + 1 PROVE levelAt(i)' = bt
    OBVIOUS
  <2>1. /\ levelAt(i)' \in 0..bt /\ decisionLevel' = bt
        /\ \A k \in 1..bt : trail_lim'[k] < i <=> k <= levelAt(i)'
    BY <1>1, <1>16, KeptFacts
  <2>2. CASE bt = 0
    BY <2>1, <2>2
  <2>3. CASE bt # 0
    <3>1. bt \in 1..bt /\ trail_lim[bt] <= n /\ trail_lim[bt] \in Nat
      <4>1. bt \in 1..bt /\ bt \in 1..decisionLevel
        BY <1>8, <1>9, <2>3
      <4> QED BY <1>1, <1>11, <4>1, TrailFacts
    <3>2. trail_lim'[bt] = trail_lim[bt]
      <4>1. bt \in DOMAIN trail_lim' /\ bt <= decisionLevel
        BY <1>1, <1>8, <1>9, <1>16, <3>1, KeptFacts
      <4> QED BY <1>16, <4>1 DEF Kept
    <3>3. trail_lim'[bt] < i
      BY <1>11, <3>1, <3>2
    <3>4. bt <= levelAt(i)'
      BY <2>1, <3>1, <3>3
    <3> QED BY <1>9, <2>1, <3>4
  <2> QED BY <2>2, <2>3
<1> HIDE DEF n
<1>19. \A i \in DOMAIN trail' : i \in Nat /\ (i \in 1..n \/ i = n + 1) /\ (i > n => i = n + 1)
  BY <1>11, <1>17
<1>20. GlucoseTypeOK'
  <2>1. trail' \in Seq(Entries) /\ trail_lim' \in Seq(Nat)
    BY <1>16 DEF Kept
  <2>2. DOMAIN database' \subseteq SUBSET SatLiterals
    BY <1>1, <1>5, <1>10 DEF GlucoseTypeOK
  <2>3. order_heap' \subseteq SatVariables /\ qhead' \in 0..Len(trail') /\ pc' \in Phases
    BY <1>2, <1>11, <1>15, <1>16, <1>17 DEF upTo, Phases
  <2>4. visiting' \subseteq DOMAIN database'
    BY <1>2, <1>3
  <2> QED BY <1>1, <1>2, <1>5, <2>1, <2>2, <2>3, <2>4 DEF GlucoseTypeOK
<1>21. DatabaseInv'
  BY <1>5 DEF DatabaseInv, Lists
<1>22. TrailInv'
  <2>1. Fresh(n)
    <3> SUFFICES ASSUME NEW j \in 1..n PROVE var(u) # var(trail[j].lit)
      BY <1>17, <1>19 DEF Fresh
    <3>1. j \in DOMAIN trail /\ trail[j].lit \in SatLiterals /\ j <= n
      BY <1>1, <1>11, <1>17, TrailFacts
    <3>2. var(trail[place(u)].lit) = var(u)
      BY <1>10, <1>12, LiteralFacts
    <3>3. j # place(u)
      BY <1>12, <3>1
    <3> QED BY <1>1, <1>12, <3>1, <3>2, <3>3 DEF TrailInv
  <2>2. \A k \in DOMAIN trail_lim' : trail_lim'[k] <= qhead'
    <3> SUFFICES ASSUME NEW k \in DOMAIN trail_lim' PROVE trail_lim'[k] <= n
      BY <1>16
    <3>1. k \in 1..bt /\ trail_lim'[k] = trail_lim[k]
      <4>1. k \in 1..bt
        BY <1>1, <1>16, KeptFacts
      <4>2. k <= decisionLevel
        BY <1>8, <1>9, <4>1
      <4> QED BY <1>16, <4>1, <4>2 DEF Kept
    <3> QED BY <1>11, <3>1
  <2> QED BY <1>1, <1>16, <2>1, <2>2, KeptTrail
<1>23. PhaseInv' /\ VisitInv' /\ ConflictInv'
  BY <1>2, <1>3 DEF PhaseInv, VisitInv, ConflictInv
<1>24. DecisionsInv'
  <2>1. ASSUME NEW i \in DOMAIN trail', i > n, levelAt(i)' > 0, trail'[i].reason = {} PROVE FALSE
    <3>1. i = n + 1 /\ levelAt(i)' = bt /\ trail'[i].reason = reason
      BY <1>17, <1>18, <1>19, <2>1
    <3>2. Len(lits) # 1
      BY <2>1, <3>1 DEF bt
    <3>3. reason = C
      BY <3>2 DEF reason
    <3> QED BY <1>10, <2>1, <3>1, <3>3
  <2> QED BY <1>1, <1>16, <2>1, KeptDecisions
<1>25. ReasonsImply'
  <2>1. ReasonsStay(n)
    <3> SUFFICES ASSUME NEW i \in 1..n, levelAt(i) > 0, trail[i].reason # {}
                 PROVE  /\ trail[i].reason \in DOMAIN database'
                        /\ database'[trail[i].reason].lits[1] = database[trail[i].reason].lits[1]
      BY DEF ReasonsStay
    <3>1. i \in DOMAIN trail /\ trail[i].reason \in DOMAIN database
      BY <1>1, <1>17 DEF ReasonsImply
    <3> QED BY <1>5, <3>1
  <2>2. ReasonOfNew(n)
    <3> SUFFICES ASSUME NEW i \in DOMAIN trail', i > n, trail'[i].reason # {}
                 PROVE  LET D == trail'[i].reason
                        IN  /\ D \in DOMAIN database' /\ trail'[i].lit \in D
                            /\ Cardinality(D) > 2 => database'[D].lits[1] = trail'[i].lit
                            /\ \A l \in D \ {trail'[i].lit} : \E j \in 1..n : trail[j].lit = -l
      BY DEF ReasonOfNew
    <3>1. trail'[i].reason = reason /\ trail'[i].lit = u
      BY <1>17, <1>19
    <3>2. Len(lits) # 1 /\ reason = C
      BY <3>1 DEF reason
    <3>3. C \in DOMAIN database' /\ database'[C].lits[1] = u
      BY <1>5, <3>2 DEF u
    <3>4. ASSUME NEW l \in C \ {u} PROVE \E j \in 1..n : trail[j].lit = -l
      <4>1. PICK k \in 2..Len(lits) : l = lits[k]
        BY <1>10
      <4> QED BY <1>13, <4>1
    <3> QED BY <1>10, <3>1, <3>2, <3>3, <3>4
  <2> QED BY <1>1, <1>16, <2>1, <2>2, KeptReasons
<1>26. WatchInv'
  <2> SUFFICES ASSUME NEW D \in DOMAIN database', NEW j \in DOMAIN trail', (-trail[j].lit \in watched(D))', Seen(j, D)'
               PROVE  \E i \in DOMAIN trail' : trail'[i].lit \in D /\ levelAt(i)' <= levelAt(j)'
    BY DEF WatchInv
  <2>1. j \in 1..n /\ j \in DOMAIN trail /\ j \in Nat /\ trail'[j] = trail[j] /\ levelAt(j)' = levelAt(j) /\ levelAt(j) <= bt /\ levelAt(j) \in Nat
    <3>1. (j < qhead \/ j = qhead)'
      BY DEF Seen
    <3>2. j \in 1..n
      BY <1>11, <1>16, <1>19, <3>1
    <3>3. j \in DOMAIN trail /\ j \in Nat /\ j <= n
      BY <1>11, <1>17, <3>2
    <3> QED BY <1>1, <1>11, <1>17, <3>2, <3>3, AtLevel
  <2>2. CASE D \in DOMAIN database
    <3>1. -trail[j].lit \in watched(D)
      BY <1>5, <2>1, <2>2 DEF watched
    <3>2. Seen(j, D)
      <4>1. j <= qhead /\ qhead \in Nat
        BY <1>1, <1>11, <2>1 DEF GlucoseTypeOK
      <4>2. levelAt(j) < decisionLevel
        BY <1>8, <1>9, <2>1
      <4> QED BY <1>3, <2>1, <4>1, <4>2 DEF Seen
    <3> QED BY <1>1, <1>3, <1>16, <2>1, <2>2, <3>1, <3>2, KeptWatch
  <2>3. CASE D \notin DOMAIN database
    <3>1. Len(lits) # 1 /\ D = C /\ database'[C].lits = lits
      BY <1>5, <2>3
    <3>2. -trail[j].lit = u \/ -trail[j].lit = lits[2]
      BY <2>1, <3>1 DEF watched, u
    <3>3. -trail[j].lit # u
      <4>1. j <= n /\ n \in Nat /\ (-trail[j].lit = u => j = place(u))
        BY <1>11, <1>12, <2>1
      <4> QED BY <1>12, <4>1
    <3>4. j = place(lits[2]) /\ levelAt(j) = level(lits[2])
      BY <1>9, <1>13, <2>1, <3>1, <3>2, <3>3
    <3>5. levelAt(j)' = bt
      BY <1>9, <2>1, <3>1, <3>4
    <3>6. n + 1 \in DOMAIN trail' /\ n + 1 \in Nat /\ trail'[n + 1].lit \in D
      BY <1>10, <1>11, <1>17, <3>1
    <3>7. \A i \in DOMAIN trail' : i = n + 1 => levelAt(i)' <= levelAt(j)'
      BY <1>9, <1>18, <1>19, <3>5
    <3> QED BY <3>6, <3>7
  <2> QED BY <2>2, <2>3
<1>27. WorldsInv'
  <2>1. added' = added
    BY <1>2 DEF added
  <2>2. Root \subseteq Root' /\ \A l \in Root' \ Root : l = u /\ Len(lits) = 1
    <3>1. /\ Root \subseteq Root'
          /\ \A l \in Root' \ Root : \E i \in DOMAIN trail' : i > n /\ levelAt(i)' = 0 /\ trail'[i].lit = l
      BY <1>1, <1>16, KeptRoot
    <3>2. \A i \in DOMAIN trail' : i > n /\ levelAt(i)' = 0 => bt = 0 /\ trail'[i].lit = u
      BY <1>17, <1>18, <1>19
    <3> QED BY <1>9, <3>1, <3>2
  <2>3. Len(lits) = 1 => C = {u}
    <3>1. Len(lits) = 1 => 2..Len(lits) = {}
      OBVIOUS
    <3> QED BY <1>10, <3>1
  <2>4. ASSUME NEW W \in worlds, Satisfies(W, DOMAIN database), Root \subseteq W
        PROVE  Satisfies(W, DOMAIN database') /\ Root' \subseteq W
    <3>1. C \cap W # {}
      BY <1>4, <2>4 DEF Follows
    <3>2. Satisfies(W, DOMAIN database')
      BY <1>5, <2>4, <3>1 DEF Satisfies
    <3>3. Root' \subseteq W
      BY <2>2, <2>3, <2>4, <3>1
    <3> QED BY <3>2, <3>3
  <2> QED BY <1>1, <1>2, <1>3, <1>5, <2>1, <2>2, <2>4, KeptWorlds
<1>28. VariablesInv'
  <2>1. \A q \in C : var(q) <= max_var
    <3> SUFFICES ASSUME NEW q \in C PROVE var(q) <= max_var
      OBVIOUS
    <3>1. q \in SatLiterals /\ place(q) \in DOMAIN trail /\ trail[place(q)].lit = -q
      BY <1>10, <1>12, <1>13
    <3>2. var(-q) = var(q)
      BY <3>1, LiteralFacts
    <3>3. var(trail[place(q)].lit) <= max_var
      BY <1>1, <3>1 DEF VariablesInv
    <3> QED BY <3>1, <3>2, <3>3
  <2>2. \A i \in DOMAIN trail' : i > n => var(trail'[i].lit) <= max_var
    BY <1>10, <1>17, <1>19, <2>1
  <2>3. \A D \in DOMAIN database' : D \in DOMAIN database \/ \A q \in D : var(q) <= max_var
    BY <1>5, <2>1
  <2> QED BY <1>1, <1>2, <1>15, <1>16, <2>2, <2>3, KeptVariables
<1>29. AssumptionsInv'
  <2>1. ASSUME NEW i \in DOMAIN trail', i > n, levelAt(i)' \in 1..Len(assumptions), trail'[i].reason = {} PROVE FALSE
    <3>1. i = n + 1 /\ levelAt(i)' = bt /\ trail'[i].reason = reason /\ bt # 0
      BY <1>17, <1>18, <1>19, <2>1
    <3>2. Len(lits) # 1
      BY <3>1 DEF bt
    <3>3. reason = C
      BY <3>2 DEF reason
    <3> QED BY <1>10, <2>1, <3>1, <3>3
  <2>2. \A k \in DOMAIN assumptions : ~(k > decisionLevel /\ k <= decisionLevel')
    <3>1. \A k \in DOMAIN assumptions : k \in Nat
      BY <1>1, LenProperties DEF GlucoseTypeOK
    <3> QED BY <1>8, <1>9, <1>16, <3>1
  <2> QED BY <1>1, <1>2, <1>16, <2>1, <2>2, KeptAssumptions
<1> QED BY <1>20, <1>21, <1>22, <1>23, <1>24, <1>25, <1>26, <1>27, <1>28, <1>29 DEF GlucoseInv

LEMMA LearnStepInv ==
    ASSUME GlucoseInv, LearnStep
    PROVE  GlucoseInv'
<1>1. Analysing
  BY DEF LearnStep, Analysing
<1>2. PICK list \in {"learnts", "permanentLearnts"}, promoted \in SUBSET resolved.met : Learn(list, promoted)
  BY DEF LearnStep
<1> QED BY <1>1, <1>2, LearnInv

--------------------------------------------------------------------------------
(***************************************************************************)
(* The assumptions that failed.                                            *)
(***************************************************************************)
\* What is reached from S along reasons.
ClosedUnderReasons(S) ==
    \A i \in DOMAIN trail : trail[i].lit \in S /\ levelAt(i) > 0 /\ trail[i].reason # {} =>
        \A q \in antecedents(trail[i].reason, trail[i].lit) : level(q) > 0 => -q \in S

LEMMA FinalFacts ==
    ASSUME SearchOK, NEW p \in SatLiterals
    PROVE  \E S \in SUBSET SatLiterals :
              /\ decisionLevel > 0 => -p \in S
              /\ ClosedUnderReasons(S)
              /\ finalConflict(p) = {-p} \cup {-trail[i].lit : i \in {j \in DOMAIN trail :
                                        trail[j].lit \in S /\ levelAt(j) > 0 /\ trail[j].reason = {}}}
<1> DEFINE N == Len(trail)
           V == SUBSET SatLiterals
           at(n) == N + 1 - n
           base == IF decisionLevel = 0 THEN {} ELSE {-p}
           Quiet(i, E) == trail[i].lit \notin E \/ levelAt(i) = 0 \/ trail[i].reason = {}
           falsified(i) == {-q : q \in {r \in antecedents(trail[i].reason, trail[i].lit) : level(r) > 0}}
           after == [n \in 1..N |-> [E \in V |-> IF Quiet(at(n), E) THEN E ELSE E \cup falsified(at(n))]]
           Solves(f) == f = [n \in 0..N |-> IF n = 0 THEN base
                                ELSE IF Quiet(at(n), f[n - 1]) THEN f[n - 1] ELSE f[n - 1] \cup falsified(at(n))]
           seen == CHOOSE f : Solves(f)
<1>1. GlucoseTypeOK /\ TrailInv /\ N \in Nat /\ DOMAIN trail = 1..N /\ decisionLevel \in Nat
  BY TrailFacts DEF SearchOK
\* What an entry adds is earlier on the trail.
<1>2. ASSUME NEW i \in 1..N, levelAt(i) > 0, trail[i].reason # {}
      PROVE  \A l \in falsified(i) : l \in SatLiterals /\ \E j \in 1..(i - 1) : j \in DOMAIN trail /\ trail[j].lit = l
  <2> SUFFICES ASSUME NEW q \in antecedents(trail[i].reason, trail[i].lit)
               PROVE  -q \in SatLiterals /\ \E j \in 1..(i - 1) : j \in DOMAIN trail /\ trail[j].lit = -q
    OBVIOUS
  <2>1. /\ antecedents(trail[i].reason, trail[i].lit) = trail[i].reason \ {trail[i].lit}
        /\ \A c \in trail[i].reason \ {trail[i].lit} :
              \E j \in 1..(i - 1) : j \in DOMAIN trail /\ trail[j].lit = -c /\ place(c) = j
    BY <1>1, <1>2, Antecedents
  <2>2. trail[i].reason \subseteq SatLiterals
    BY <1>1, TrailFacts
  <2>3. q \in SatLiterals
    BY <2>1, <2>2
  <2>4. -q \in SatLiterals
    BY <2>3, LiteralFacts
  <2> QED BY <2>1, <2>4
<1>3. \A n \in 1..N : at(n) \in 1..N
  BY <1>1
<1> HIDE DEF falsified
<1>4. \E f : Solves(f)
  <2>1. \A n \in 1..N, E \in V : (IF Quiet(at(n), E) THEN E ELSE E \cup falsified(at(n))) \in V
    <3> SUFFICES ASSUME NEW n \in 1..N, NEW E \in V, ~Quiet(at(n), E) PROVE falsified(at(n)) \subseteq SatLiterals
      OBVIOUS
    <3>1. at(n) \in 1..N /\ trail[at(n)].reason # {} /\ levelAt(at(n)) # 0
      BY <1>3
    <3>2. levelAt(at(n)) > 0
      <4>1. at(n) \in Nat
        BY <3>1
      <4> HIDE DEF at
      <4>2. levelAt(at(n)) \in Nat
        BY <1>1, <4>1, AtLevel
      <4> QED BY <3>1, <4>2
    <3> QED BY <1>2, <3>1, <3>2
  <2> HIDE DEF Quiet, at
  <2>2. Closed(after, N, V)
    BY <2>1 DEF Closed
  <2>3. base \in V /\ N \in Nat
    BY <1>1, LiteralFacts
  <2> HIDE DEF after, N, V, base
  <2>4. PICK f : f[0] = base /\ f \in [0..N -> V] /\ \A n \in 1..N : f[n] = after[n][f[n - 1]]
    <3>1. \E f : f[0] = base /\ Iterated(f, after, N, V)
      BY <2>2, <2>3, Iterates
    <3> QED BY <3>1 DEF Iterated
  <2>5. ASSUME NEW i \in 0..N
        PROVE  f[i] = IF i = 0 THEN base
                      ELSE IF Quiet(at(i), f[i - 1]) THEN f[i - 1] ELSE f[i - 1] \cup falsified(at(i))
    <3>1. CASE i = 0
      BY <2>4, <3>1
    <3>2. CASE i # 0
      <4>1. i \in 1..N /\ i - 1 \in 0..N
        BY <2>3, <3>2
      <4>2. f[i - 1] \in V /\ f[i] = after[i][f[i - 1]]
        BY <2>4, <4>1
      <4> QED BY <3>2, <4>1, <4>2 DEF after
    <3> QED BY <3>1, <3>2
  <2>6. Solves(f)
    BY <2>4, <2>5
  <2> HIDE DEF Solves
  <2> QED BY <2>6
<1>5. Solves(seen)
  BY <1>4
<1>6. finalConflict(p) = {-p} \cup {-trail[i].lit : i \in {j \in DOMAIN trail :
                             trail[j].lit \in seen[N] /\ levelAt(j) > 0 /\ trail[j].reason = {}}}
  BY DEF finalConflict, falsified
<1> HIDE DEF seen
<1>7. /\ seen[0] = base
      /\ \A n \in 1..N : seen[n] = IF Quiet(at(n), seen[n - 1]) THEN seen[n - 1] ELSE seen[n - 1] \cup falsified(at(n))
  <2> HIDE DEF Quiet, at, base
  <2>1. \A n \in 0..N : seen[n] = IF n = 0 THEN base
                            ELSE IF Quiet(at(n), seen[n - 1]) THEN seen[n - 1] ELSE seen[n - 1] \cup falsified(at(n))
    BY <1>5
  <2>2. 0 \in 0..N /\ \A n \in 1..N : n \in 0..N /\ n # 0
    BY <1>1
  <2> QED BY <2>1, <2>2
<1> DEFINE Good(n) ==
        /\ seen[n] \in V /\ base \subseteq seen[n]
        /\ \A i \in (N + 1 - n)..N : Quiet(i, seen[n]) \/ falsified(i) \subseteq seen[n]
           T == {n \in 0..N : Good(n)}
<1>8. 0 \in T
  <2>1. (N + 1 - 0)..N = {} /\ base \in V /\ 0 \in 0..N
    BY <1>1, LiteralFacts
  <2> HIDE DEF Quiet, base, V
  <2> QED BY <1>7, <2>1
<1>9. ASSUME NEW n \in 1..N, n - 1 \in T PROVE n \in T
  <2> DEFINE m == at(n)
  <2>1. Good(n - 1)
    BY <1>9
  <2>2. m \in 1..N /\ m \in Nat /\ \A i \in (N + 1 - n)..N : i = m \/ (i \in (N + 1 - (n - 1))..N /\ i > m)
    BY <1>1
  <2>3. \A i \in (N + 1 - n)..N : i \in 1..N /\ i >= m /\ i \in Nat
    BY <1>1
  <2> HIDE DEF m
  <2>4. CASE Quiet(m, seen[n - 1])
    <3>1. seen[n] = seen[n - 1]
      <4> HIDE DEF Quiet, at
      <4> QED BY <1>7, <2>4 DEF m
    <3> HIDE DEF Quiet, base
    <3> QED BY <2>1, <2>2, <2>4, <3>1
  <2>5. CASE ~Quiet(m, seen[n - 1])
    <3>1. seen[n] = seen[n - 1] \cup falsified(m)
      <4> HIDE DEF Quiet, at
      <4> QED BY <1>7, <2>5 DEF m
    <3>2. levelAt(m) > 0 /\ trail[m].reason # {}
      <4>1. levelAt(m) \in Nat
        BY <1>1, <2>2, AtLevel
      <4> QED BY <2>5, <4>1
    <3>3. \A l \in falsified(m) : l \in SatLiterals /\ \E j \in 1..(m - 1) : j \in DOMAIN trail /\ trail[j].lit = l
      BY <1>2, <2>2, <3>2
    <3>4. \A i \in (N + 1 - n)..N : Quiet(i, seen[n - 1]) => Quiet(i, seen[n])
      <4> SUFFICES ASSUME NEW i \in (N + 1 - n)..N, trail[i].lit \in falsified(m) PROVE FALSE
        BY <3>1
      <4>1. PICK j \in 1..(m - 1) : j \in DOMAIN trail /\ trail[j].lit = trail[i].lit
        BY <3>3
      <4>2. i = j
        BY <1>1, <2>3, <4>1 DEF TrailInv
      <4> QED BY <2>2, <2>3, <4>1, <4>2
    <3>5. \A i \in (N + 1 - n)..N : Quiet(i, seen[n]) \/ falsified(i) \subseteq seen[n]
      <4> SUFFICES ASSUME NEW i \in (N + 1 - n)..N PROVE Quiet(i, seen[n]) \/ falsified(i) \subseteq seen[n]
        OBVIOUS
      <4> HIDE DEF Quiet, base
      <4>1. CASE i = m
        BY <3>1, <4>1
      <4>2. CASE i # m
        <5>1. i \in (N + 1 - (n - 1))..N
          BY <2>2, <4>2
        <5>2. Quiet(i, seen[n - 1]) \/ falsified(i) \subseteq seen[n - 1]
          BY <2>1, <5>1
        <5> QED BY <3>1, <3>4, <5>2
      <4> QED BY <4>1, <4>2
    <3>6. seen[n] \in V /\ base \subseteq seen[n]
      BY <2>1, <3>1, <3>3
    <3> HIDE DEF Quiet, base, V
    <3> QED BY <3>5, <3>6
  <2> QED BY <2>4, <2>5
<1>10. N \in T
  <2> HIDE DEF T, N
  <2>1. \A n \in 0..N : n \in T
    BY <1>1, <1>8, <1>9, UpTo
  <2> QED BY <1>1, <2>1
<1> DEFINE S == seen[N]
<1>11. S \in V /\ base \subseteq S /\ \A i \in 1..N : Quiet(i, S) \/ falsified(i) \subseteq S
  <2>1. Good(N)
    BY <1>10
  <2>2. N + 1 - N = 1
    BY <1>1
  <2> HIDE DEF Quiet, base, V
  <2> QED BY <2>1, <2>2
<1> HIDE DEF S
<1>12. ClosedUnderReasons(S)
  <2> SUFFICES ASSUME NEW i \in DOMAIN trail, trail[i].lit \in S, levelAt(i) > 0, trail[i].reason # {},
                      NEW q \in antecedents(trail[i].reason, trail[i].lit), level(q) > 0
               PROVE  -q \in S
    BY DEF ClosedUnderReasons
  <2>1. falsified(i) \subseteq S
    BY <1>1, <1>11
  <2> QED BY <2>1 DEF falsified
<1>13. decisionLevel > 0 => -p \in S
  BY <1>11
<1> QED BY <1>6, <1>11, <1>12, <1>13 DEF S

\* analyzeFinal: no world satisfies the clauses and the assumptions that failed.
LEMMA FailedInconsistent ==
    ASSUME GlucoseInv, pc = "choosing", AssumptionsLeft, isFalse(assumption),
           NEW W \in worlds, Satisfies(W, added),
           \A a \in range(assumptions) : -a \in finalConflict(assumption) => a \in W
    PROVE  FALSE
<1> DEFINE p == assumption
<1>1. /\ SearchOK /\ GlucoseTypeOK /\ TrailInv /\ WorldsInv /\ AssumptionsInv /\ VariablesInv
  BY DEF GlucoseInv, SearchOK
<1>2. Satisfies(W, DOMAIN database) /\ Root \subseteq W
  BY <1>1 DEF WorldsInv
<1>3. p \in SatLiterals /\ p \in range(assumptions)
  BY <1>1, AssumptionFacts
<1>4. /\ DOMAIN trail = 1..Len(trail) /\ Len(trail) \in Nat /\ decisionLevel \in Nat
      /\ Len(assumptions) \in Nat /\ decisionLevel < Len(assumptions)
  BY <1>1, TrailFacts, LenProperties DEF AssumptionsLeft, GlucoseTypeOK
<1> HIDE DEF p
<1>5. PICK S \in SUBSET SatLiterals :
              /\ decisionLevel > 0 => -p \in S
              /\ ClosedUnderReasons(S)
              /\ finalConflict(p) = {-p} \cup {-trail[i].lit : i \in {j \in DOMAIN trail :
                                        trail[j].lit \in S /\ levelAt(j) > 0 /\ trail[j].reason = {}}}
  BY <1>1, <1>3, FinalFacts
<1>6. p \in W /\ -p \notin W
  <2>1. p \in W
    BY <1>3, <1>5 DEF p
  <2> QED BY <1>3, <2>1, WorldFacts
<1>7. /\ isFalse(p) /\ place(p) \in DOMAIN trail /\ trail[place(p)].lit = -p
      /\ level(p) = levelAt(place(p)) /\ (level(p) = 0 => -p \in Root) /\ level(p) \in 0..decisionLevel
  <2>1. isFalse(p)
    BY DEF p
  <2>2. /\ place(p) \in DOMAIN trail /\ trail[place(p)].lit = -p
        /\ level(p) = levelAt(place(p)) /\ level(p) \in 0..decisionLevel
    BY <1>1, <1>3, <2>1, FalseLevel
  <2> QED BY <2>1, <2>2 DEF Root
\* The first literal that is reached and false in W has a reason that is false in W.
<1> DEFINE P == {i \in DOMAIN trail : trail[i].lit \in S /\ trail[i].lit \notin W}
<1>8. P \in SUBSET Nat /\ P # {}
  <2>1. decisionLevel > 0
    BY <1>2, <1>4, <1>6, <1>7
  <2>2. place(p) \in P
    BY <1>5, <1>6, <1>7, <2>1
  <2> QED BY <1>4, <2>2
<1>9. PICK i \in P : \A j \in P : i <= j
  <2> HIDE DEF P
  <2> QED BY <1>8, LeastNumber
<1>10. /\ i \in DOMAIN trail /\ i \in Nat /\ trail[i].lit \in SatLiterals /\ levelAt(i) \in 0..decisionLevel
       /\ trail[i].lit \in S /\ trail[i].lit \notin W
  <2>1. i \in DOMAIN trail /\ i \in Nat
    BY <1>4, <1>9
  <2> QED BY <1>1, <1>9, <2>1, TrailFacts, AtLevel
<1>11. levelAt(i) > 0
  <2>1. levelAt(i) # 0
    BY <1>2, <1>10 DEF Root
  <2> QED BY <1>4, <1>10, <2>1
<1>12. CASE trail[i].reason = {}
  <2>1. levelAt(i) \in 1..Len(assumptions)
    BY <1>4, <1>10, <1>11
  <2>2. trail[i].lit \in range(assumptions)
    BY <1>1, <1>10, <1>12, <2>1 DEF AssumptionsInv
  <2>3. -trail[i].lit \in finalConflict(p)
    BY <1>5, <1>10, <1>11, <1>12
  <2> QED BY <1>10, <2>2, <2>3 DEF p
<1>13. CASE trail[i].reason # {}
  <2> DEFINE C == trail[i].reason
             l == trail[i].lit
  <2>1. /\ C \in DOMAIN database /\ antecedents(C, l) = C \ {l}
        /\ \A q \in C \ {l} : \E j \in 1..(i - 1) : j \in DOMAIN trail /\ trail[j].lit = -q /\ place(q) = j
    BY <1>1, <1>10, <1>11, <1>13, Antecedents
  <2>2. PICK c \in C : c \in W
    BY <1>2, <2>1 DEF Satisfies
  <2>3. c # l /\ c \in SatLiterals /\ C \subseteq SatLiterals
    BY <1>1, <1>10, <2>2, TrailFacts
  <2>4. PICK j \in 1..(i - 1) : j \in DOMAIN trail /\ trail[j].lit = -c /\ place(c) = j
    BY <2>1, <2>2, <2>3
  <2>5. -c \notin W
    BY <2>2, <2>3, WorldFacts
  <2>6. levelAt(j) # 0 /\ levelAt(j) \in Nat /\ level(c) = levelAt(j)
    <3>1. levelAt(j) # 0
      BY <1>2, <2>4, <2>5 DEF Root
    <3>2. j \in Nat
      BY <1>10, <2>4
    <3>3. levelAt(j) \in Nat
      BY <1>1, <1>4, <3>2, AtLevel
    <3> QED BY <2>4, <3>1, <3>3 DEF level
  <2>7. -c \in S
    <3>1. level(c) > 0 /\ c \in antecedents(C, l)
      BY <2>1, <2>2, <2>3, <2>6
    <3> QED BY <1>5, <1>10, <1>11, <1>13, <3>1 DEF ClosedUnderReasons
  <2>8. j \in P
    BY <2>4, <2>5, <2>7
  <2>9. i <= j
    BY <1>9, <2>8
  <2> QED BY <1>10, <2>4, <2>9
<1> QED BY <1>12, <1>13

--------------------------------------------------------------------------------
(***************************************************************************)
(* The theorems.                                                           *)
(***************************************************************************)
LEMMA InitialInv == GlucoseInit => GlucoseInv
<1> SUFFICES ASSUME GlucoseInit PROVE GlucoseInv
  OBVIOUS
<1>1. /\ clause_list \in ClauseLists /\ nof_added = 0 /\ pc = "ready" /\ ok = TRUE
      /\ database = [C \in {} |-> 0] /\ trail = <<>> /\ trail_lim = <<>> /\ qhead = 0
      /\ visiting = {} /\ order_heap = {} /\ max_var = 0 /\ assumptions = <<>>
  BY DEF GlucoseInit
<1>2. /\ DOMAIN database = {} /\ DOMAIN trail = {} /\ DOMAIN trail_lim = {} /\ DOMAIN assumptions = {}
      /\ Len(trail) = 0
  BY <1>1
<1>3. GlucoseTypeOK
  <2>1. clause_list \in Seq(SUBSET SatLiterals)
    BY <1>1, GlucoseAssumption
  <2>2. Len(clause_list) \in Nat
    BY <2>1, LenProperties
  <2>3. nof_added \in 0..Len(clause_list) /\ qhead \in 0..Len(trail) /\ max_var \in Nat
    BY <1>1, <1>2, <2>2
  <2>4. trail \in Seq(Entries) /\ trail_lim \in Seq(Nat) /\ assumptions \in Seq(SatLiterals)
    BY <1>1, EmptySeq
  <2>5. database \in [DOMAIN database -> ClauseData]
    BY <1>1
  <2> QED BY <1>1, <1>2, <2>3, <2>4, <2>5 DEF GlucoseTypeOK, Phases
<1>4. DatabaseInv /\ TrailInv /\ VisitInv /\ ConflictInv /\ DecisionsInv /\ ReasonsImply /\ WatchInv
  BY <1>1, <1>2 DEF DatabaseInv, TrailInv, VisitInv, ConflictInv, DecisionsInv, ReasonsImply, WatchInv
<1>5. PhaseInv
  BY <1>1, <1>2 DEF PhaseInv
<1>6. WorldsInv
  <2>1. added = {}
    BY <1>1 DEF added
  <2>2. Root = {}
    BY <1>2 DEF Root
  <2> QED BY <1>1, <1>2, <2>1, <2>2 DEF WorldsInv, Satisfies
<1>7. VariablesInv
  <2>1. \A v \in SatVariables : v \in Nat /\ v # 0
    BY GlucoseAssumption
  <2>2. \A v \in SatVariables : ~(v <= max_var)
    BY <1>1, <2>1
  <2>3. upTo(max_var) = {}
    BY <2>2 DEF upTo
  <2> QED BY <1>1, <1>2, <2>3 DEF VariablesInv, range
<1>8. AssumptionsInv
  BY <1>2 DEF AssumptionsInv
<1> QED BY <1>3, <1>4, <1>5, <1>6, <1>7, <1>8 DEF GlucoseInv

LEMMA StutterInv ==
    ASSUME GlucoseInv, UNCHANGED glucoseVars
    PROVE  GlucoseInv'
<1>1. /\ UNCHANGED <<clause_list, nof_added, pc, ok, database, trail, trail_lim, qhead>>
      /\ UNCHANGED <<visiting, confl, order_heap, max_var, assumptions>>
  BY DEF glucoseVars
<1>2. GlucoseTypeOK'
  BY <1>1 DEF GlucoseInv, GlucoseTypeOK
<1>3. DatabaseInv' /\ TrailInv' /\ PhaseInv' /\ VisitInv'
  BY <1>1 DEF GlucoseInv, DatabaseInv, Lists, TrailInv, PhaseInv, VisitInv, dequeued, watched
<1>4. ConflictInv' /\ DecisionsInv' /\ ReasonsImply'
  BY <1>1 DEF GlucoseInv, ConflictInv, isFalse, true_literals, levelAt, decisionLevel, DecisionsInv, ReasonsImply
<1>5. WatchInv'
  <2>1. \A j, C : Seen(j, C)' <=> Seen(j, C)
    BY <1>1 DEF Seen, levelAt, decisionLevel
  <2>2. \A C : watched(C)' = watched(C)
    BY <1>1 DEF watched
  <2>3. WatchInv' <=> WatchInv
    BY <1>1, <2>1, <2>2 DEF WatchInv, levelAt
  <2> QED BY <2>3 DEF GlucoseInv
<1>6. WorldsInv'
  <2>1. added' = added /\ Root' = Root /\ Given' = Given
    BY <1>1 DEF added, Root, Given, levelAt
  <2>2. WorldsInv' = WorldsInv
    BY <1>1, <2>1 DEF WorldsInv, Satisfies, worlds
  <2> QED BY <2>2 DEF GlucoseInv
<1>7. VariablesInv' /\ AssumptionsInv'
  BY <1>1 DEF GlucoseInv, VariablesInv, AssumptionsInv, isUndef, isTrue, isFalse, true_literals, upTo, levelAt,
              decisionLevel
<1> QED BY <1>2, <1>3, <1>4, <1>5, <1>6, <1>7 DEF GlucoseInv

\* The inductive invariant: the trail, its levels and reasons, the clauses and their
\* watched literals, and what follows from the clauses given, after every step of the
\* adapter and of Glucose's search.
THEOREM GlucoseInvariant == GlucoseSpec => []GlucoseInv
<1>1. GlucoseInit => GlucoseInv
  BY InitialInv
<1>2. GlucoseInv /\ [GlucoseNext]_glucoseVars => GlucoseInv'
  <2> SUFFICES ASSUME GlucoseInv, [GlucoseNext]_glucoseVars PROVE GlucoseInv'
    OBVIOUS
  <2>1. CASE AddClause
    BY <2>1, AddClauseInv
  <2>2. CASE \E A \in AssumptionLists, with_limit \in BOOLEAN : Solve(A, with_limit)
    BY <2>2, SolveInv
  <2>3. CASE Dequeue
    BY <2>3, DequeueInv
  <2>4. CASE \E C \in visiting : VisitBinary(C) \/ VisitLong(C)
    BY <2>4, VisitBinaryInv, VisitLongInv
  <2>5. CASE PropagationEnds \/ SearchAgain
    BY <2>5, QuietInv
  <2>6. CASE ConflictAtRoot
    BY <2>6, ConflictAtRootInv
  <2>7. CASE LearnStep
    BY <2>7, LearnStepInv
  <2>8. CASE AdaptStrategies
    BY <2>8, AdaptInv
  <2>9. CASE Restart
    BY <2>9, RestartInv
  <2>10. CASE BudgetSpent
    BY <2>10, BudgetInv
  <2>11. CASE Simplify
    BY <2>11, SimplifyInv
  <2>12. CASE ReduceDB
    BY <2>12, ReduceInv
  <2>13. CASE AssumptionHolds
    BY <2>13, AssumptionHoldsInv
  <2>14. CASE AssumptionFails
    BY <2>14, AssumptionFailsInv
  <2>15. CASE AssumptionDecided
    BY <2>15, AssumptionDecidedInv
  <2>16. CASE Decide
    BY <2>16, DecideInv
  <2>17. CASE ModelFound
    BY <2>17, ModelFoundInv
  <2>18. CASE Rest \/ UNCHANGED glucoseVars
    BY <2>18, StutterInv DEF Rest
  <2> QED BY <2>2, <2>3, <2>4, <2>5, <2>1, <2>6, <2>7, <2>8, <2>9, <2>10, <2>11, <2>12, <2>13, <2>14, <2>15,
             <2>16, <2>17, <2>18 DEF GlucoseNext, SearchStep
<1> QED BY <1>1, <1>2, PTL DEF GlucoseSpec

\* Above level 0 the reason of every literal of the trail is in the database, with the
\* literal in the place analyze and reduceDB expect it, and the other literals of the
\* reason became false before.
THEOREM ReasonsAlwaysImply == GlucoseSpec => []ReasonsImply
<1>1. GlucoseInv => ReasonsImply
  BY DEF GlucoseInv
<1> QED BY <1>1, GlucoseInvariant, PTL

\* The solver's clauses and the literals of level 0 have exactly the models of the clauses
\* given: nothing learnt goes beyond them, and nothing reduceDB, simplify or addClause_
\* removes or shortens is lost.
THEOREM NothingIsLost == GlucoseSpec => []NothingLost
<1>1. GlucoseInv => NothingLost
  <2> SUFFICES ASSUME GlucoseInv PROVE NothingLost
    OBVIOUS
  <2>1. WorldsInv /\ GlucoseTypeOK
    BY DEF GlucoseInv
  <2> SUFFICES ASSUME NEW W \in worlds
               PROVE  Satisfies(W, added) <=> ok /\ Satisfies(W, DOMAIN database \cup units(Root))
    BY DEF NothingLost, Root
  <2>2. Satisfies(W, units(Root)) <=> Root \subseteq W
    <3> DEFINE R == Root
    <3> HIDE DEF R
    <3>1. \A l : {l} \cap W # {} <=> l \in W
      OBVIOUS
    <3>2. Satisfies(W, units(R)) <=> \A l \in R : {l} \cap W # {}
      BY DEF Satisfies, units
    <3>3. Satisfies(W, units(R)) <=> R \subseteq W
      BY <3>1, <3>2
    <3> QED BY <3>3 DEF R
  <2>3. /\ Satisfies(W, DOMAIN database \cup units(Root))
            <=> Satisfies(W, DOMAIN database) /\ Satisfies(W, units(Root))
    BY DEF Satisfies
  <2>4. Satisfies(W, DOMAIN database) => Satisfies(W, Given)
    BY DEF Satisfies, Given
  <2> QED BY <2>1, <2>2, <2>3, <2>4 DEF WorldsInv
<1> QED BY <1>1, GlucoseInvariant, PTL

\* When the queue is empty, each watched literal that is false is made up for.
LEMMA TwoUndefined ==
    ASSUME GlucoseInv, pc \in {"propagated", "simplified", "choosing"}, NEW C \in DOMAIN database,
           \A l \in C : ~isTrue(l)
    PROVE  Cardinality({l \in C : isUndef(l)}) > 1
<1>1. GlucoseTypeOK /\ DatabaseInv /\ TrailInv /\ PhaseInv /\ WatchInv
  BY DEF GlucoseInv
<1>2. /\ C \subseteq SatLiterals /\ IsFiniteSet(C) /\ watched(C) \subseteq C
      /\ database[C].lits[1] # database[C].lits[2]
  BY <1>1, ClauseFacts
<1>3. ok /\ qhead = Len(trail) /\ visiting = {} /\ pc # "conflict"
  BY <1>1 DEF PhaseInv
<1>4. ASSUME NEW l \in watched(C) PROVE isUndef(l)
  <2>1. l \in C /\ l \in SatLiterals
    BY <1>2
  <2> SUFFICES ASSUME isFalse(l) PROVE FALSE
    BY <2>1 DEF isUndef
  <2>2. PICK j \in DOMAIN trail : trail[j].lit = -l
    BY <1>1, <2>1, FalseFacts
  <2>3. -trail[j].lit = l
    BY <2>1, <2>2, LiteralFacts
  <2>4. Seen(j, C)
    <3>1. j \in 1..Len(trail) /\ Len(trail) \in Nat
      BY <1>1, <2>2, TrailFacts
    <3>2. j < qhead \/ j = qhead
      BY <1>3, <3>1
    <3> QED BY <1>3, <3>2 DEF Seen
  <2>5. PICK i \in DOMAIN trail : trail[i].lit \in C
    BY <1>1, <1>3, <2>2, <2>3, <2>4 DEF WatchInv
  <2> QED BY <2>5 DEF isTrue, true_literals
<1> DEFINE a == database[C].lits[1]
           b == database[C].lits[2]
           U == {l \in C : isUndef(l)}
<1>5. a \in U /\ b \in U /\ a # b
  BY <1>2, <1>4 DEF watched
<1>6. IsFiniteSet(U)
  BY <1>2, FS_Subset
<1> HIDE DEF a, b, U
<1>7. {a, b} \subseteq U /\ Cardinality({a, b}) = 2
  <2>1. IsFiniteSet({a}) /\ Cardinality({a}) = 1
    BY FS_Singleton
  <2>2. b \notin {a} /\ {a, b} = {a} \cup {b}
    BY <1>5
  <2>3. Cardinality({a} \cup {b}) = Cardinality({a}) + 1
    BY <2>1, <2>2, FS_AddElement
  <2> QED BY <1>5, <2>1, <2>2, <2>3
<1>8. 2 <= Cardinality(U) /\ Cardinality(U) \in Nat
  BY <1>6, <1>7, FS_Subset, FS_CardinalityType
<1>9. Cardinality(U) > 1
  BY <1>8
<1> QED BY <1>9 DEF U

\* When propagate ends without a conflict, every clause has a true literal or two that
\* are not assigned, however the watchers moved and whichever blockers were stale.
THEOREM PropagationIsComplete == GlucoseSpec => []PropagationComplete
<1>1. GlucoseInv => PropagationComplete
  BY TwoUndefined DEF PropagationComplete
<1> QED BY <1>1, GlucoseInvariant, PTL

\* The model of the adapter extends to an assignment of all variables.
LEMMA ModelIsRight ==
    ASSUME GlucoseInv, pc = "choosing", ~AssumptionsLeft, \A v \in order_heap : ~isUndef(v)
    PROVE  \E W \in worlds : /\ {l \in W : var(l) <= max_var} = true_literals
                             /\ Satisfies(W, added \cup units(range(assumptions)))
<1>1. /\ GlucoseTypeOK /\ DatabaseInv /\ TrailInv /\ PhaseInv /\ WorldsInv /\ VariablesInv /\ AssumptionsInv
      /\ max_var \in Nat
  BY DEF GlucoseInv, GlucoseTypeOK
<1> DEFINE T == true_literals
           new == {v \in SatVariables : v > max_var}
           W == T \cup new
<1>2. /\ T \subseteq SatLiterals
      /\ \A l \in T : var(l) <= max_var
      /\ \A l \in SatLiterals : ~(l \in T /\ -l \in T)
      /\ \A v \in upTo(max_var) : v \in T \/ -v \in T
  <2>1. T \subseteq SatLiterals /\ \A l \in T : var(l) <= max_var
    BY <1>1, TrailFacts DEF true_literals, VariablesInv
  <2>2. \A l \in SatLiterals : ~(l \in T /\ -l \in T)
    <3>1. \A l \in SatLiterals : ~(isTrue(l) /\ isFalse(l))
      BY <1>1, FalseFacts
    <3> QED BY <3>1 DEF isTrue, isFalse
  <2>3. \A v \in upTo(max_var) : v \in T \/ -v \in T
    BY <1>1 DEF VariablesInv, isUndef, isTrue, isFalse
  <2> QED BY <2>1, <2>2, <2>3
<1>3. \A v \in SatVariables : v \in Nat /\ v # 0 /\ v \in SatLiterals /\ var(v) = v /\ var(-v) = v /\ v # -v
  <2> SUFFICES ASSUME NEW v \in SatVariables
               PROVE  v \in Nat /\ v # 0 /\ v \in SatLiterals /\ var(v) = v /\ var(-v) = v /\ v # -v
    OBVIOUS
  <2>1. v \in Nat /\ v # 0 /\ v \in SatLiterals
    BY GlucoseAssumption DEF SatLiterals
  <2>2. var(v) = v
    BY <2>1 DEF var
  <2> QED BY <2>1, <2>2, LiteralFacts
<1> HIDE DEF T
<1>4. W \in worlds
  <2>1. W \subseteq SatLiterals
    BY <1>2, <1>3
  <2>2. ASSUME NEW v \in SatVariables PROVE (v \in W) # (-v \in W)
    <3>1. -v \notin new
      BY <1>3
    <3>2. CASE v <= max_var
      <4>1. v \notin new
        BY <1>1, <1>3, <3>2
      <4>2. v \in T \/ -v \in T
        BY <1>2, <3>2 DEF upTo
      <4>3. ~(v \in T /\ -v \in T)
        BY <1>2, <1>3
      <4> QED BY <3>1, <4>1, <4>2, <4>3
    <3>3. CASE ~(v <= max_var)
      <4>1. v \in new
        BY <1>1, <1>3, <3>3
      <4>2. -v \notin T
        BY <1>2, <1>3, <3>3
      <4> QED BY <3>1, <4>1, <4>2
    <3> QED BY <3>2, <3>3
  <2> QED BY <2>1, <2>2 DEF worlds
<1>5. {l \in W : var(l) <= max_var} = T
  <2>1. \A v \in new : ~(var(v) <= max_var)
    BY <1>1, <1>3
  <2> QED BY <1>2, <2>1
<1>6. Satisfies(W, DOMAIN database)
  <2> SUFFICES ASSUME NEW C \in DOMAIN database PROVE C \cap W # {}
    BY DEF Satisfies
  <2>1. CASE \E l \in C : isTrue(l)
    BY <2>1 DEF isTrue, T
  <2>2. CASE \A l \in C : ~isTrue(l)
    <3> DEFINE U == {l \in C : isUndef(l)}
    <3>1. Cardinality(U) > 1
      BY <2>2, TwoUndefined
    <3>2. U # {}
      BY <3>1, FS_EmptySet
    <3>3. PICK l \in C : isUndef(l)
      BY <3>2
    <3>4. l \in SatLiterals /\ var(l) <= max_var
      BY <1>1, <3>3, ClauseFacts DEF VariablesInv
    <3>5. var(l) \in upTo(max_var) /\ (l = var(l) \/ l = -var(l)) /\ -l \in SatLiterals /\ -(-l) = l
      <4>1. var(l) \in SatVariables
        BY <3>4, LiteralFacts
      <4>2. l = var(l) \/ l = -var(l)
        BY <3>4, LiteralFacts DEF var
      <4> QED BY <3>4, <4>1, <4>2, LiteralFacts DEF upTo
    <3>6. l \in T \/ -l \in T
      BY <1>2, <3>5, LiteralFacts
    <3> QED BY <3>3, <3>6 DEF isUndef, isTrue, isFalse, T
  <2> QED BY <2>1, <2>2
<1>7. Satisfies(W, added)
  <2>1. ok
    BY <1>1 DEF PhaseInv
  <2>2. Root \subseteq W
    BY DEF Root, T, true_literals
  <2>3. Satisfies(W, Given)
    BY <1>6 DEF Satisfies, Given
  <2> QED BY <1>1, <1>4, <2>1, <2>2, <2>3 DEF WorldsInv
<1>8. range(assumptions) \subseteq W
  <2> SUFFICES ASSUME NEW k \in DOMAIN assumptions PROVE assumptions[k] \in T
    BY DEF range
  <2>1. k <= decisionLevel
    <3>1. k \in 1..Len(assumptions) /\ Len(assumptions) \in Nat /\ decisionLevel \in Nat
      BY <1>1, TrailFacts, LenProperties DEF GlucoseTypeOK
    <3> QED BY <3>1 DEF AssumptionsLeft
  <2> QED BY <1>1, <2>1 DEF AssumptionsInv, T, true_literals
<1>9. Satisfies(W, added \cup units(range(assumptions)))
  <2> HIDE DEF W
  <2> QED BY <1>7, <1>8 DEF Satisfies, units
<1> HIDE DEF W
<1>10. /\ {l \in W : var(l) <= max_var} = true_literals
  BY <1>5 DEF T
<1> QED BY <1>4, <1>9, <1>10

\* What the property says of one step.
AnswerRight ==
    LET failed == getFailed(range(assumptions))'
    IN  CASE result'.status = "sat" ->
               \E W \in worlds : /\ {l \in W : var(l) <= max_var} = result'.model
                                 /\ Satisfies(W, added \cup units(range(assumptions)))
          [] result'.status = "unsat" ->
               \A W \in worlds : ~Satisfies(W, added \cup units(failed))
          [] result'.status = "undef" -> limited
Answers == pc' = "ready" /\ (pc \notin {"ready", "adding"} \/ calls' # calls)

LEMMA AnswerOfUnsat ==
    ASSUME result'.status = "unsat",
           \A W \in worlds : Satisfies(W, added) /\ getFailed(range(assumptions))' \subseteq W => FALSE
    PROVE  AnswerRight
<1> DEFINE failed == getFailed(range(assumptions))'
<1>1. \A W \in worlds : Satisfies(W, added) /\ failed \subseteq W => FALSE
  OBVIOUS
<1> HIDE DEF failed
<1>2. ASSUME NEW W \in worlds, Satisfies(W, added \cup units(failed)) PROVE FALSE
  <2>1. Satisfies(W, added)
    BY <1>2 DEF Satisfies
  <2>2. \A l \in failed : {l} \cap W # {}
    BY <1>2 DEF Satisfies, units
  <2>3. failed \subseteq W
    BY <2>2
  <2> QED BY <1>1, <2>1, <2>3
<1>3. \A W \in worlds : ~Satisfies(W, added \cup units(failed))
  BY <1>2
<1> QED BY <1>3 DEF AnswerRight, failed

LEMMA AnswerOfSolve ==
    ASSUME GlucoseInv, NEW A \in AssumptionLists, NEW with_limit \in BOOLEAN, Solve(A, with_limit), Answers
    PROVE  AnswerRight
<1>1. /\ pc' = (IF ok THEN "searching" ELSE "ready")
      /\ result' = [status |-> IF ok THEN "none" ELSE "unsat", model |-> {}, conflict |-> {}]
  BY DEF Solve
<1>2. ~ok
  BY <1>1 DEF Answers
<1>3. result'.status = "unsat"
  BY <1>1, <1>2
<1>4. WorldsInv
  BY DEF GlucoseInv
<1>5. \A W \in worlds : ~Satisfies(W, added)
  BY <1>2, <1>4 DEF WorldsInv
<1> QED BY <1>3, <1>5, AnswerOfUnsat

LEMMA AnswerOfRootConflict ==
    ASSUME GlucoseInv, ConflictAtRoot
    PROVE  AnswerRight
<1>1. pc = "conflict" /\ decisionLevel = 0 /\ result'.status = "unsat"
  BY DEF ConflictAtRoot, Return
<1>2. confl \in DOMAIN database /\ \A q \in confl : isFalse(q)
  BY <1>1 DEF GlucoseInv, ConflictInv
<1>3. \A W \in worlds : ~Satisfies(W, added)
  BY <1>1, <1>2, RootConflict
<1> QED BY <1>1, <1>3, AnswerOfUnsat

LEMMA AnswerOfBudget ==
    ASSUME BudgetSpent
    PROVE  AnswerRight
<1>1. limited /\ result'.status = "undef"
  BY DEF BudgetSpent, Return
<1> QED BY <1>1 DEF AnswerRight

LEMMA AnswerOfAssumption ==
    ASSUME GlucoseInv, AssumptionFails
    PROVE  AnswerRight
<1>1. /\ pc = "choosing" /\ AssumptionsLeft /\ isFalse(assumption) /\ assumptions' = assumptions
      /\ result' = [status |-> "unsat", model |-> {}, conflict |-> finalConflict(assumption)]
  BY DEF AssumptionFails, Return, callVars
<1>2. result'.status = "unsat" /\ result'.conflict = finalConflict(assumption)
  BY <1>1
<1>3. getFailed(range(assumptions))' = {a \in range(assumptions) : -a \in finalConflict(assumption)}
  <2>1. getFailed(range(assumptions))' = {a \in range(assumptions') : -a \in result'.conflict}
    BY DEF getFailed
  <2> QED BY <1>1, <1>2, <2>1
<1>4. ASSUME NEW W \in worlds, Satisfies(W, added), getFailed(range(assumptions))' \subseteq W
      PROVE  FALSE
  <2>1. \A a \in range(assumptions) : -a \in finalConflict(assumption) => a \in W
    BY <1>3, <1>4
  <2> QED BY <1>1, <1>4, <2>1, FailedInconsistent
<1> QED BY <1>2, <1>4, AnswerOfUnsat

LEMMA AnswerOfModel ==
    ASSUME GlucoseInv, ModelFound
    PROVE  AnswerRight
<1>1. /\ pc = "choosing" /\ ~AssumptionsLeft /\ \A v \in order_heap : ~isUndef(v)
      /\ result'.status = "sat" /\ result'.model = true_literals
  BY DEF ModelFound
<1>2. \E W \in worlds : /\ {l \in W : var(l) <= max_var} = result'.model
                        /\ Satisfies(W, added \cup units(range(assumptions)))
  BY <1>1, ModelIsRight
<1> QED BY <1>1, <1>2 DEF AnswerRight

\* No other step answers.
LEMMA NoAnswer ==
    ASSUME GlucoseInv, Answers,
           \/ AddClause \/ Dequeue \/ (\E C \in visiting : VisitBinary(C) \/ VisitLong(C)) \/ PropagationEnds
           \/ LearnStep \/ AdaptStrategies \/ Restart \/ SearchAgain \/ Simplify \/ ReduceDB
           \/ AssumptionHolds \/ AssumptionDecided \/ Decide \/ Rest \/ UNCHANGED glucoseVars
    PROVE  FALSE
<1>1. CASE AddClause
  BY <1>1 DEF Answers, AddClause
<1>2. CASE Dequeue
  BY <1>2 DEF Answers, Dequeue, propagating, callVars
<1>3. ASSUME NEW C \in visiting, VisitBinary(C) \/ VisitLong(C) PROVE FALSE
  <2>1. CASE \E head : Conflict(C, head)
    BY <1>3, <2>1 DEF Answers, Conflict, VisitBinary, VisitLong, propagating, callVars
  <2>2. CASE Visited(C)
    BY <1>3, <2>2 DEF Answers, Visited, VisitBinary, VisitLong, propagating, callVars
  <2> QED BY <1>3, <2>1, <2>2 DEF VisitBinary, VisitLong
<1>4. CASE PropagationEnds
  BY <1>4 DEF Answers, PropagationEnds, propagating, callVars
<1>5. CASE LearnStep
  BY <1>5 DEF Answers, LearnStep, Learn
<1>6. CASE AdaptStrategies \/ Restart \/ SearchAgain
  BY <1>6 DEF Answers, AdaptStrategies, Restart, SearchAgain
<1>7. CASE Simplify \/ ReduceDB
  BY <1>7 DEF Answers, Simplify, ReduceDB
<1>8. CASE AssumptionHolds \/ AssumptionDecided \/ Decide
  BY <1>8 DEF Answers, AssumptionHolds, AssumptionDecided, Decide, descend
<1>9. CASE Rest \/ UNCHANGED glucoseVars
  BY <1>9 DEF Answers, Rest, glucoseVars, GlucoseInv, PhaseInv, GlucoseTypeOK
<1> QED BY <1>1, <1>2, <1>3, <1>4, <1>5, <1>6, <1>7, <1>8, <1>9

\* Whatever clauses are added and however often solve() is called: a model found satisfies
\* all clauses and assumptions, the assumptions getFailed() returns contradict the clauses,
\* and a call ends without an answer only if it had a limit.
THEOREM AnswersAreRight == GlucoseSpec => AnswersRight
<1>1. GlucoseInv /\ [GlucoseNext]_glucoseVars => (Answers => AnswerRight)
  <2> SUFFICES ASSUME GlucoseInv, [GlucoseNext]_glucoseVars, Answers PROVE AnswerRight
    OBVIOUS
  <2>1. CASE \E A \in AssumptionLists, with_limit \in BOOLEAN : Solve(A, with_limit)
    BY <2>1, AnswerOfSolve
  <2>2. CASE ConflictAtRoot
    BY <2>2, AnswerOfRootConflict
  <2>3. CASE BudgetSpent
    BY <2>3, AnswerOfBudget
  <2>4. CASE AssumptionFails
    BY <2>4, AnswerOfAssumption
  <2>5. CASE ModelFound
    BY <2>5, AnswerOfModel
  <2> QED BY <2>2, <2>3, <2>4, <2>5, <2>1, NoAnswer DEF GlucoseNext, SearchStep
<1>2. GlucoseInv /\ [GlucoseNext]_glucoseVars => [Answers => AnswerRight]_glucoseVars
  BY <1>1
<1>3. AnswersRight <=> [][Answers => AnswerRight]_glucoseVars
  BY DEF AnswersRight, Answers, AnswerRight
<1> QED BY <1>2, <1>3, GlucoseInvariant, PTL DEF GlucoseSpec

================================================================================
