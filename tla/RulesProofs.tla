------------------------------- MODULE RulesProofs -------------------------------
(***************************************************************************)
(* Proofs about the rules and their encoding for the validity check, for   *)
(* every formula, and whatever definitions, rules, arbiters, polarities    *)
(* and splits of default trees come in whatever order.                     *)
(*                                                                         *)
(* The argument: clauses are only ever added, and signs in the array of    *)
(* assumptions change.  So the invariant says what the clauses of an       *)
(* existential mean whatever is assumed of the terminal that closes its    *)
(* rules now (Encodes), in both directions: what satisfies them obeys the  *)
(* rules, and what obeys the rules can be extended to the numbers used     *)
(* inside.  A step that adds rules extends both, as the numbers inside     *)
(* occur in no other clause.                                               *)
(***************************************************************************)
EXTENDS SolverSetup, PreprocessingProofs

--------------------------------------------------------------------------------
(***************************************************************************)
(* The numbers of the rules' encodings.                                    *)
(***************************************************************************)
LEMMA RankFacts ==
    /\ Cardinality(Existentials) \in Nat
    /\ \A e \in Existentials : rank(e) \in 1..Cardinality(Existentials)
    /\ \A d, e \in Existentials : rank(d) = rank(e) => d = e
    /\ \A k \in 1..Cardinality(Existentials) :
          nthExistential(k) \in Existentials /\ rank(nthExistential(k)) = k
    /\ \A e \in Existentials : nthExistential(rank(e)) = e
<1> DEFINE m == Cardinality(Existentials)
<1>1. IsFiniteSet(Existentials) /\ Existentials \in SUBSET Nat
  BY PrefixAssumption
<1>2. \A e : rank(e) = place(e, Existentials)
  BY DEF rank, place
<1>3. /\ m \in Nat
      /\ \A e \in Existentials : rank(e) \in 1..m
      /\ \A d, e \in Existentials : rank(d) = rank(e) => d = e
  BY <1>1, <1>2, PlaceFacts
<1>4. IsFiniteSet(1..m) /\ Cardinality(1..m) = m
  BY <1>3, FS_Interval
<1> DEFINE f == [e \in Existentials |-> rank(e)]
           K == 1..m
<1>5. f \in Injection(Existentials, K)
  BY <1>3 DEF Injection, IsInjective
<1>6. \A k \in K : \E e \in Existentials : rank(e) = k
  <2> HIDE DEF f, K
  <2>1. f \in Surjection(Existentials, K)
    BY <1>1, <1>3, <1>4, <1>5, FS_Injection DEF K
  <2> QED BY <2>1 DEF Surjection, f
<1>7. \A k \in K : nthExistential(k) \in Existentials /\ rank(nthExistential(k)) = k
  BY <1>6 DEF nthExistential
<1> QED BY <1>3, <1>7

\* The numbers given away before the search end here.
Introduced == LastVariable + BlockSize * Cardinality(Existentials)

LEMMA NumberOfFacts ==
    /\ LastVariable \in Nat /\ Introduced \in Nat /\ LastVariable <= Introduced
    /\ \A v \in Variables : v \in 1..LastVariable
    /\ \A e \in Existentials, k \in 1..22 : numberOf(e, k) \in (LastVariable + 1)..Introduced
    /\ \A d, e \in Existentials, j, k \in 1..22 : numberOf(d, j) = numberOf(e, k) => d = e /\ j = k
<1> DEFINE m == Cardinality(Existentials)
<1>1. LastVariable \in Nat /\ \A v \in Variables : v \in 1..LastVariable
  BY DefaultAssumption
<1>2. m \in Nat /\ \A e \in Existentials : rank(e) \in 1..m
  BY RankFacts
<1>3. Introduced = LastVariable + 23 * m
  BY DEF Introduced, BlockSize
<1>4. ASSUME NEW e \in Existentials, NEW k \in 1..22
      PROVE  numberOf(e, k) = LastVariable + 23 * (rank(e) - 1) + k
  BY DEF numberOf, BlockSize
<1> HIDE DEF m
<1>5. ASSUME NEW e \in Existentials, NEW k \in 1..22
      PROVE  numberOf(e, k) \in (LastVariable + 1)..Introduced
  <2>1. rank(e) \in 1..m
    BY <1>2
  <2> QED BY <1>1, <1>2, <1>3, <1>4, <2>1
<1>6. ASSUME NEW d \in Existentials, NEW e \in Existentials, NEW j \in 1..22, NEW k \in 1..22,
             numberOf(d, j) = numberOf(e, k)
      PROVE  d = e /\ j = k
  <2>1. rank(d) \in 1..m /\ rank(e) \in 1..m
    BY <1>2
  <2>2. 23 * (rank(d) - 1) + j = 23 * (rank(e) - 1) + k
    BY <1>1, <1>4, <1>6, <2>1
  <2>3. rank(d) = rank(e) /\ j = k
    BY <1>2, <2>1, <2>2
  <2> QED BY <2>3, RankFacts
<1>7. Introduced \in Nat /\ LastVariable <= Introduced
  BY <1>1, <1>2, <1>3
<1> QED BY <1>1, <1>5, <1>6, <1>7

--------------------------------------------------------------------------------
(***************************************************************************)
(* What the clauses of one variable in the validity check mean, for values *)
(* of all numbers.  The active variables and the terminals of earlier      *)
(* disjunctions are hidden: there are values for them.                     *)
(***************************************************************************)
Valuations == [Nat -> BOOLEAN]
Fires(r, a) == \A l \in r.premise : holds(l, a)

\* S is the selector of e, T the terminal of the disjunction; defaults are clauses
\* without the literals of S and of apply_default.
Meaning(e, T, rules, defaults, a) ==
    /\ \A r \in rules : Fires(r, a) => holds(r.literal, a)
    /\ a[no_forcing_clause_active(e)] =>
          /\ \A r \in rules : ~Fires(r, a)
          /\ a[use_default_value(e)] => a[apply_default(e)]
    /\ ~a[no_forcing_clause_active(e)] => a[T] \/ \E r \in rules : Fires(r, a)
    /\ a[apply_default(e)] => Satisfies(defaults, a)

\* The numbers whose values the meaning leaves open, or the solver chooses.
Inner(e, T, hidden) == hidden \cup {T, no_forcing_clause_active(e), apply_default(e)}
IsOuter(l, e, T, hidden) == l \in Int \ {0} /\ var(l) \notin Inner(e, T, hidden)

Separated(e, S, T, rules, defaults, hidden) ==
    /\ e \in Nat \ {0} /\ S \in Nat \ {0} /\ T \in Nat \ {0}
    /\ T # no_forcing_clause_active(e) /\ T # apply_default(e)
    /\ hidden \subseteq Nat
    /\ {T, no_forcing_clause_active(e), apply_default(e)} \cap hidden = {}
    /\ {e, S, use_default_value(e)} \cap Inner(e, T, hidden) = {}
    /\ \A C \in defaults : \A l \in C : IsOuter(l, e, T, hidden)
    /\ \A r \in rules : /\ r.literal \in {e, -e}
                        /\ \A l \in r.premise : IsOuter(l, e, T, hidden)

Sound(e, S, cs, T, rules, defaults) ==
    \A a \in Valuations : a[S] /\ Satisfies(cs, a) => Meaning(e, T, rules, defaults, a)

Complete(e, S, cs, T, rules, defaults, hidden) ==
    \A a \in Valuations : a[S] /\ Meaning(e, T, rules, defaults, a) =>
        \E b \in Valuations : Satisfies(cs, b) /\ \A n \in Nat \ hidden : b[n] = a[n]

Encodes(e, S, cs, T, rules, defaults, hidden) ==
    /\ Separated(e, S, T, rules, defaults, hidden)
    /\ Sound(e, S, cs, T, rules, defaults)
    /\ Complete(e, S, cs, T, rules, defaults, hidden)

\* All numbers in the clauses have been given away.
IsLiteralUpTo(l, N) == l \in Int \ {0} /\ var(l) <= N
Within(cs, N) == \A C \in cs : \A l \in C : IsLiteralUpTo(l, N)

LEMMA NumberTypes ==
    ASSUME NEW e \in Existentials, NEW k \in 1..22
    PROVE  numberOf(e, k) \in Nat \ {0}
BY NumberOfFacts

LEMMA SameValues ==
    ASSUME NEW a, NEW b, NEW l, a[var(l)] = b[var(l)]
    PROVE  holds(l, a) <=> holds(l, b)
BY DEF holds

--------------------------------------------------------------------------------
LEMMA InitiallyEncoded ==
    ASSUME NEW e \in Existentials, e \in Nat \ {0}
    PROVE  /\ Encodes(e, initialSelector(e), initialValidityClauses(e), forcingTerminal(e), {}, {}, {})
           /\ Within(initialValidityClauses(e), Introduced)
<1> DEFINE S == initialSelector(e)
           T == forcingTerminal(e)
           nfc == no_forcing_clause_active(e)
           app == apply_default(e)
           udv == use_default_value(e)
<1>1. /\ S \in Nat \ {0} /\ T \in Nat \ {0} /\ nfc \in Nat \ {0} /\ app \in Nat \ {0} /\ udv \in Nat \ {0}
      /\ S <= Introduced /\ T <= Introduced /\ nfc <= Introduced /\ app <= Introduced
      /\ udv <= Introduced
      /\ T # nfc /\ T # app /\ nfc # app /\ S \notin {T, nfc, app} /\ udv \notin {T, nfc, app}
      /\ e \notin {T, nfc, app}
  BY NumberOfFacts DEF initialSelector, forcingTerminal, no_forcing_clause_active, apply_default,
     use_default_value, Variables
<1>2. initialValidityClauses(e) = {{nfc, T, -S}, {-nfc, -udv, app, -S}}
  BY DEF initialValidityClauses
<1>3. Separated(e, S, T, {}, {}, {})
  BY <1>1 DEF Separated, Inner
<1> HIDE DEF S, T, nfc, app, udv
<1>4. ASSUME NEW a \in Valuations, a[S]
      PROVE  Satisfies(initialValidityClauses(e), a) <=> Meaning(e, T, {}, {}, a)
  <2>1. /\ holds(nfc, a) <=> a[nfc]
        /\ holds(-nfc, a) <=> ~a[nfc]
        /\ holds(T, a) <=> a[T]
        /\ holds(-S, a) <=> ~a[S]
        /\ holds(app, a) <=> a[app]
        /\ holds(-udv, a) <=> ~a[udv]
    BY <1>1, SignFacts DEF Valuations
  <2>2. Satisfies(initialValidityClauses(e), a)
           <=> (a[nfc] \/ a[T]) /\ (~a[nfc] \/ ~a[udv] \/ a[app])
    BY <1>2, <1>4, <2>1 DEF Satisfies
  <2>3. Satisfies({}, a)
    BY DEF Satisfies
  <2>4. Meaning(e, T, {}, {}, a) <=> (a[nfc] \/ a[T]) /\ (~a[nfc] \/ ~a[udv] \/ a[app])
    BY <2>3 DEF Meaning, nfc, app, udv
  <2> QED BY <2>2, <2>4
<1>5. Sound(e, S, initialValidityClauses(e), T, {}, {})
  BY <1>4 DEF Sound
<1>6. Complete(e, S, initialValidityClauses(e), T, {}, {}, {})
  BY <1>4 DEF Complete
<1>7. Within(initialValidityClauses(e), Introduced)
  <2>1. IsLiteralUpTo(nfc, Introduced) /\ IsLiteralUpTo(-nfc, Introduced) /\ IsLiteralUpTo(T, Introduced)
        /\ IsLiteralUpTo(-S, Introduced) /\ IsLiteralUpTo(app, Introduced)
        /\ IsLiteralUpTo(-udv, Introduced)
    BY <1>1 DEF IsLiteralUpTo, var
  <2> QED BY <1>2, <2>1 DEF Within
<1> QED BY <1>3, <1>5, <1>6, <1>7 DEF Encodes, S, T

\* One more rule: the clauses under its selector.
LEMMA RuleMeaning ==
    ASSUME NEW e \in Existentials, NEW S \in Nat \ {0}, NEW T \in Nat \ {0}, NEW n \in Nat, NEW r,
           \A l \in r.premise : l \in Int \ {0}, NEW b \in Valuations, b[S]
    PROVE  Satisfies(guarded(validityRule(e, r, -T, n), S), b)
              <=> /\ b[n + 3] <=> Fires(r, b)
                  /\ b[n + 3] => holds(r.literal, b) /\ ~b[no_forcing_clause_active(e)]
                  /\ b[T] => b[n + 3] \/ b[n + 4]
<1> DEFINE nfc == no_forcing_clause_active(e)
           act == n + 3
           new == n + 4
           C1 == negateEach(r.premise) \cup {act} \cup {-S}
           C2 == {-act, r.literal} \cup {-S}
           C3 == {-act, -nfc} \cup {-S}
           C4 == ({act} \cup {-T, new}) \cup {-S}
           C5(l) == {l, -act} \cup {-S}
           cs == guarded(validityRule(e, r, -T, n), S)
<1>1. nfc \in Nat \ {0} /\ act \in Nat \ {0} /\ new \in Nat \ {0}
  BY NumberTypes DEF no_forcing_clause_active
<1>2. cs = {C1, C2, C3, C4} \cup {C5(l) : l \in r.premise}
  <2> DEFINE D1 == negateEach(r.premise) \cup {act}
             D2 == {-act, r.literal}
             D3 == {-act, -nfc}
             D4 == {act} \cup {-T, new}
             D5(l) == {l, -act}
  <2>1. validityRule(e, r, -T, n) = {D1, D2, D3, D4} \cup {D5(l) : l \in r.premise}
    BY DEF validityRule, createDisjunct
  <2> HIDE DEF D1, D2, D3, D4, act, new, nfc
  <2> SUFFICES {C \cup {-S} : C \in {D1, D2, D3, D4} \cup {D5(l) : l \in r.premise}}
                  = {D1 \cup {-S}, D2 \cup {-S}, D3 \cup {-S}, D4 \cup {-S}}
                       \cup {D5(l) \cup {-S} : l \in r.premise}
    BY <2>1 DEF guarded, D1, D2, D3, D4
  <2> QED OBVIOUS
<1> HIDE DEF nfc, act, new, cs
<1>3. /\ holds(act, b) <=> b[act]
      /\ holds(-act, b) <=> ~b[act]
      /\ holds(-nfc, b) <=> ~b[nfc]
      /\ holds(-T, b) <=> ~b[T]
      /\ holds(new, b) <=> b[new]
      /\ ~holds(-S, b)
  BY <1>1, SignFacts DEF Valuations
<1>4. \A l \in r.premise : -(-l) = l /\ (holds(-l, b) <=> ~holds(l, b))
  BY LiteralSigns DEF Valuations, var
<1>5. (\E l \in C1 : holds(l, b)) <=> (Fires(r, b) => b[act])
  BY <1>3, <1>4 DEF Fires, negateEach
<1>6. (\E l \in C2 : holds(l, b)) <=> (b[act] => holds(r.literal, b))
  BY <1>3
<1>7. (\E l \in C3 : holds(l, b)) <=> (b[act] => ~b[nfc])
  BY <1>3
<1>8. (\E l \in C4 : holds(l, b)) <=> (b[T] => b[act] \/ b[new])
  BY <1>3
<1>9. (\A k \in r.premise : \E l \in C5(k) : holds(l, b)) <=> (b[act] => Fires(r, b))
  BY <1>3 DEF Fires
<1>10. Satisfies(cs, b) <=> /\ \E l \in C1 : holds(l, b)
                            /\ \E l \in C2 : holds(l, b)
                            /\ \E l \in C3 : holds(l, b)
                            /\ \E l \in C4 : holds(l, b)
                            /\ \A k \in r.premise : \E l \in C5(k) : holds(l, b)
  <2> HIDE DEF C1, C2, C3, C4, C5
  <2> QED BY <1>2 DEF Satisfies
<1> HIDE DEF C1, C2, C3, C4, C5
<1> QED BY <1>5, <1>6, <1>7, <1>8, <1>9, <1>10 DEF act, new, nfc, cs

\* When RuleEncoded applies.
CanEncode(e, S, cs, T, rules, defaults, hidden, n, r) ==
    /\ Encodes(e, S, cs, T, rules, defaults, hidden)
    /\ n \in Nat /\ Within(cs, n) /\ hidden \subseteq 1..n /\ T <= n /\ Introduced <= n /\ S <= n
    /\ e <= n /\ r.literal \in {e, -e} /\ \A l \in r.premise : IsOuter(l, e, T, hidden) /\ var(l) <= n
    /\ \A q \in rules : \A l \in q.premise : var(l) <= n
    /\ \A C \in defaults : \A l \in C : var(l) <= n

\* What it gives.
RuleIsEncoded(e, S, cs, T, rules, defaults, hidden, n, r) ==
    LET new == guarded(validityRule(e, r, -T, n), S)
    IN  /\ Encodes(e, S, cs \cup new, n + 4, rules \cup {r}, defaults, hidden \cup {T, n + 3})
        /\ Within(cs \cup new, n + 4)

LEMMA RuleEncoded ==
    ASSUME NEW e \in Existentials, NEW S, NEW cs, NEW T, NEW rules, NEW defaults, NEW hidden, NEW n, NEW r,
           CanEncode(e, S, cs, T, rules, defaults, hidden, n, r)
    PROVE  RuleIsEncoded(e, S, cs, T, rules, defaults, hidden, n, r)
<1>0. /\ Encodes(e, S, cs, T, rules, defaults, hidden)
      /\ n \in Nat /\ Within(cs, n) /\ hidden \subseteq 1..n /\ T <= n /\ Introduced <= n /\ S <= n
      /\ e <= n /\ r.literal \in {e, -e} /\ \A l \in r.premise : IsOuter(l, e, T, hidden) /\ var(l) <= n
      /\ \A q \in rules : \A l \in q.premise : var(l) <= n
      /\ \A C \in defaults : \A l \in C : var(l) <= n
  BY Zenon DEF CanEncode
<1> USE <1>0
<1> DEFINE nfc == no_forcing_clause_active(e)
           app == apply_default(e)
           udv == use_default_value(e)
           new == guarded(validityRule(e, r, -T, n), S)
           hidden2 == hidden \cup {T, n + 3}
<1>1. /\ nfc \in Nat \ {0} /\ app \in Nat \ {0} /\ udv \in Nat \ {0} /\ nfc # app
      /\ nfc <= n /\ app <= n /\ udv <= n
  BY NumberOfFacts DEF no_forcing_clause_active, apply_default, use_default_value
<1>2. Separated(e, S, T, rules, defaults, hidden)
  BY DEF Encodes
<1>3. e \in Nat \ {0} /\ S \in Nat \ {0} /\ T \in Nat \ {0}
  BY <1>2 DEF Separated
<1>4. \A l \in r.premise : l \in Int \ {0}
  BY DEF IsOuter
<1>5. Separated(e, S, n + 4, rules \cup {r}, defaults, hidden2)
  <2>1. \A k \in 1..n : k # n + 3 /\ k # n + 4
    OBVIOUS
  <2>2. ASSUME NEW l, IsOuter(l, e, T, hidden), var(l) <= n PROVE IsOuter(l, e, n + 4, hidden2)
    <3>1. l \in Int \ {0} /\ var(l) \in 1..n
      BY <2>2 DEF IsOuter, var
    <3> QED BY <2>1, <2>2, <3>1 DEF IsOuter, Inner
  <2>3. \A C \in defaults : \A l \in C : IsOuter(l, e, n + 4, hidden2)
    BY <1>2, <2>2 DEF Separated
  <2>4. \A q \in rules \cup {r} : /\ q.literal \in {e, -e}
                                  /\ \A l \in q.premise : IsOuter(l, e, n + 4, hidden2)
    BY <1>2, <2>2 DEF Separated
  <2>5. n + 4 \in Nat \ {0} /\ n + 4 # nfc /\ n + 4 # app
    BY <1>1
  <2>6. {n + 4, nfc, app} \cap hidden2 = {}
    BY <1>1, <1>2 DEF Separated, Inner
  <2>7. {e, S, udv} \cap Inner(e, n + 4, hidden2) = {}
    <3>1. e \in 1..n /\ S \in 1..n /\ udv \in 1..n
      BY <1>1, <1>3
    <3> HIDE DEF nfc, app, udv
    <3> QED BY <1>2, <2>1, <3>1 DEF Separated, Inner, udv
  <2>8. hidden2 \subseteq Nat
    BY <1>3
  <2> HIDE DEF hidden2
  <2> QED BY <1>3, <2>3, <2>4, <2>5, <2>6, <2>7, <2>8 DEF Separated
<1>6. ASSUME NEW a \in Valuations, a[S], Satisfies(cs \cup new, a)
      PROVE  Meaning(e, n + 4, rules \cup {r}, defaults, a)
  <2>1. Satisfies(cs, a) /\ Satisfies(new, a)
    BY <1>6 DEF Satisfies
  <2>2. Meaning(e, T, rules, defaults, a)
    BY <1>6, <2>1 DEF Encodes, Sound
  <2>3. /\ a[n + 3] <=> Fires(r, a)
        /\ a[n + 3] => holds(r.literal, a) /\ ~a[nfc]
        /\ a[T] => a[n + 3] \/ a[n + 4]
    BY <1>3, <1>4, <1>6, <2>1, RuleMeaning
  <2> HIDE DEF nfc
  <2> QED BY <2>2, <2>3 DEF Meaning, nfc
<1>7. ASSUME NEW a \in Valuations, a[S], Meaning(e, n + 4, rules \cup {r}, defaults, a)
      PROVE  \E b \in Valuations : Satisfies(cs \cup new, b) /\ \A k \in Nat \ hidden2 : b[k] = a[k]
  <2> DEFINE fires == Fires(r, a)
             t == IF a[n + 4] \/ fires THEN TRUE ELSE FALSE
             f == IF fires THEN TRUE ELSE FALSE
             a1 == [a EXCEPT ![T] = t]
  <2>1. a1 \in Valuations /\ (a1[T] <=> a[n + 4] \/ fires) /\ \A k \in Nat \ {T} : a1[k] = a[k]
    BY <1>3 DEF Valuations
  <2> HIDE DEF fires, a1
  <2>2. ASSUME NEW l, IsOuter(l, e, T, hidden) PROVE holds(l, a1) <=> holds(l, a)
    <3>1. var(l) \in Nat \ {T}
      BY <2>2 DEF IsOuter, Inner, var
    <3> QED BY <2>1, <3>1, SameValues
  <2>3. \A q \in rules : /\ Fires(q, a1) <=> Fires(q, a)
                         /\ holds(q.literal, a1) <=> holds(q.literal, a)
    <3> SUFFICES ASSUME NEW q \in rules
                 PROVE  /\ Fires(q, a1) <=> Fires(q, a)
                        /\ holds(q.literal, a1) <=> holds(q.literal, a)
      OBVIOUS
    <3>1. \A l \in q.premise : IsOuter(l, e, T, hidden)
      BY <1>2 DEF Separated
    <3>2. q.literal \in {e, -e} /\ e \notin Inner(e, T, hidden)
      BY <1>2 DEF Separated
    <3>3. IsOuter(q.literal, e, T, hidden)
      BY <1>3, <3>2 DEF IsOuter, var
    <3> QED BY <2>2, <3>1, <3>3 DEF Fires
  <2>4. Satisfies(defaults, a1) <=> Satisfies(defaults, a)
    BY <1>2, <2>2 DEF Satisfies, Separated
  <2>5. a1[nfc] = a[nfc] /\ a1[app] = a[app] /\ a1[udv] = a[udv] /\ a1[S] = a[S]
    <3>1. nfc # T /\ app # T /\ udv # T /\ S # T
      BY <1>2 DEF Separated, Inner
    <3> HIDE DEF nfc, app, udv
    <3> QED BY <1>1, <1>3, <2>1, <3>1
  <2>6. Meaning(e, T, rules, defaults, a1)
    <3> HIDE DEF nfc, app, udv
    <3>1. /\ \A q \in rules : Fires(q, a) => holds(q.literal, a)
          /\ a[nfc] => (\A q \in rules : ~Fires(q, a)) /\ ~fires /\ (a[udv] => a[app])
          /\ ~a[nfc] => a[n + 4] \/ fires \/ \E q \in rules : Fires(q, a)
          /\ a[app] => Satisfies(defaults, a)
      BY <1>7 DEF Meaning, nfc, app, udv, fires
    <3>2. /\ \A q \in rules : Fires(q, a1) => holds(q.literal, a1)
          /\ a1[nfc] => (\A q \in rules : ~Fires(q, a1)) /\ (a1[udv] => a1[app])
          /\ ~a1[nfc] => a1[T] \/ \E q \in rules : Fires(q, a1)
          /\ a1[app] => Satisfies(defaults, a1)
      BY <2>1, <2>3, <2>4, <2>5, <3>1
    <3> QED BY <3>2 DEF Meaning, nfc, app, udv
  <2>7. PICK b1 \in Valuations : Satisfies(cs, b1) /\ \A k \in Nat \ hidden : b1[k] = a1[k]
    BY <1>7, <2>1, <2>5, <2>6 DEF Encodes, Complete
  <2> DEFINE b == [b1 EXCEPT ![n + 3] = f]
  <2>8. b \in Valuations /\ (b[n + 3] <=> fires) /\ \A k \in Nat \ {n + 3} : b[k] = b1[k]
    BY DEF Valuations
  <2> HIDE DEF b
  <2>9. \A k \in Nat \ hidden2 : b[k] = a[k]
    BY <2>1, <2>7, <2>8
  <2>10. Satisfies(cs, b)
    <3>1. \A C \in cs : \A l \in C : holds(l, b) <=> holds(l, b1)
      <4> SUFFICES ASSUME NEW C \in cs, NEW l \in C PROVE b[var(l)] = b1[var(l)]
        BY SameValues
      <4>1. l \in Int \ {0} /\ var(l) <= n
        BY DEF Within, IsLiteralUpTo
      <4>2. var(l) \in Nat \ {n + 3}
        BY <4>1 DEF var
      <4> QED BY <2>8, <4>2
    <3> QED BY <2>7, <3>1 DEF Satisfies
  <2>11. \A l : IsOuter(l, e, T, hidden) /\ var(l) <= n => (holds(l, b) <=> holds(l, a))
    <3> SUFFICES ASSUME NEW l, IsOuter(l, e, T, hidden), var(l) <= n PROVE b[var(l)] = a[var(l)]
      BY SameValues
    <3>1. var(l) \in Nat \ hidden2
      BY DEF IsOuter, Inner, var
    <3> QED BY <2>9, <3>1
  <2>12. Fires(r, b) <=> fires
    BY <2>11 DEF Fires, fires
  <2>13. holds(r.literal, b) <=> holds(r.literal, a)
    <3>1. r.literal \in Int \ {0} /\ var(r.literal) = e
      BY <1>3 DEF var
    <3>2. e \notin Inner(e, T, hidden)
      BY <1>2 DEF Separated
    <3> QED BY <2>11, <3>1, <3>2 DEF IsOuter
  <2>14. b[nfc] = a[nfc] /\ b[S] = a[S] /\ b[n + 4] = a[n + 4] /\ b[T] = a1[T]
    <3>1. nfc \in Nat \ hidden2 /\ S \in Nat \ hidden2 /\ n + 4 \in Nat \ hidden2
          /\ T \in Nat \ hidden /\ T # n + 3
      BY <1>1, <1>3, <1>5, <1>2 DEF Separated, Inner
    <3> HIDE DEF nfc, hidden2
    <3> QED BY <1>3, <2>7, <2>8, <2>9, <3>1
  <2>15. /\ b[n + 3] <=> Fires(r, b)
         /\ b[n + 3] => holds(r.literal, b) /\ ~b[nfc]
         /\ b[T] => b[n + 3] \/ b[n + 4]
    <3>1. fires => holds(r.literal, a) /\ ~a[nfc]
      BY <1>7 DEF Meaning, fires
    <3> HIDE DEF nfc
    <3> QED BY <2>1, <2>8, <2>12, <2>13, <2>14, <3>1
  <2>16. Satisfies(new, b)
    BY <1>3, <1>4, <1>7, <2>8, <2>14, <2>15, RuleMeaning
  <2> QED BY <2>8, <2>9, <2>10, <2>16 DEF Satisfies
<1>8. Within(cs \cup new, n + 4)
  <2> SUFFICES ASSUME NEW C \in validityRule(e, r, -T, n), NEW l \in C PROVE IsLiteralUpTo(l, n + 4)
    <3>1. IsLiteralUpTo(-S, n + 4)
      BY <1>3 DEF IsLiteralUpTo, var
    <3>2. \A C \in cs : \A l \in C : IsLiteralUpTo(l, n + 4)
      BY DEF Within, IsLiteralUpTo, var
    <3> QED BY <3>1, <3>2 DEF Within, guarded
  <2>1. \A k \in r.premise : IsLiteralUpTo(k, n + 4) /\ IsLiteralUpTo(-k, n + 4)
    BY DEF IsOuter, IsLiteralUpTo, var
  <2>2. /\ IsLiteralUpTo(n + 3, n + 4) /\ IsLiteralUpTo(-(n + 3), n + 4)
        /\ IsLiteralUpTo(r.literal, n + 4) /\ IsLiteralUpTo(-nfc, n + 4)
        /\ IsLiteralUpTo(-T, n + 4) /\ IsLiteralUpTo(n + 4, n + 4)
    BY <1>1, <1>3 DEF IsLiteralUpTo, var
  <2> QED BY <2>1, <2>2 DEF validityRule, createDisjunct, negateEach
<1> HIDE DEF new, hidden2
<1>9. Sound(e, S, cs \cup new, n + 4, rules \cup {r}, defaults)
  BY <1>6 DEF Sound
<1>10. Complete(e, S, cs \cup new, n + 4, rules \cup {r}, defaults, hidden2)
  BY <1>7 DEF Complete
<1>11. Encodes(e, S, cs \cup new, n + 4, rules \cup {r}, defaults, hidden2)
  BY <1>5, <1>9, <1>10, Zenon DEF Encodes
<1> QED BY <1>8, <1>11, Zenon DEF RuleIsEncoded, new, hidden2

\* More clauses for defaults.
LEMMA DefaultsEncoded ==
    ASSUME NEW e \in Existentials, NEW S, NEW cs, NEW T, NEW rules, NEW defaults, NEW hidden,
           Encodes(e, S, cs, T, rules, defaults, hidden),
           NEW N \in Nat, Within(cs, N), S <= N, Introduced <= N,
           NEW more, \A C \in more : \A l \in C : IsOuter(l, e, T, hidden) /\ var(l) <= N
    PROVE  LET new == guarded({C \cup {-apply_default(e)} : C \in more}, S)
           IN  /\ Encodes(e, S, cs \cup new, T, rules, defaults \cup more, hidden)
               /\ Within(cs \cup new, N)
<1> DEFINE app == apply_default(e)
           new == guarded({C \cup {-apply_default(e)} : C \in more}, S)
<1>1. app \in Nat \ {0} /\ app <= N
  BY NumberOfFacts DEF apply_default
<1>2. Separated(e, S, T, rules, defaults, hidden)
  BY DEF Encodes
<1>3. e \in Nat \ {0} /\ S \in Nat \ {0} /\ T \in Nat \ {0}
  BY <1>2 DEF Separated
<1>4. new = {C \cup {-app} \cup {-S} : C \in more}
  BY DEF guarded
<1> HIDE DEF app, new
<1>5. Separated(e, S, T, rules, defaults \cup more, hidden)
  BY <1>2 DEF Separated
<1>6. ASSUME NEW a \in Valuations, a[S]
      PROVE  Satisfies(new, a) <=> (a[app] => Satisfies(more, a))
  <2>1. (holds(-app, a) <=> ~a[app]) /\ ~holds(-S, a)
    BY <1>1, <1>3, <1>6, SignFacts DEF Valuations
  <2>2. \A C \in more : (\E l \in C \cup {-app} \cup {-S} : holds(l, a))
                           <=> (a[app] => \E l \in C : holds(l, a))
    BY <2>1
  <2>3. Satisfies(new, a) <=> \A C \in more : (\E l \in C \cup {-app} \cup {-S} : holds(l, a))
    BY <1>4 DEF Satisfies
  <2> QED BY <2>2, <2>3 DEF Satisfies
<1>7. ASSUME NEW a \in Valuations
      PROVE  Meaning(e, T, rules, defaults \cup more, a)
                <=> Meaning(e, T, rules, defaults, a) /\ (a[app] => Satisfies(more, a))
  BY DEF Meaning, Satisfies, app
<1>8. \A a \in Valuations : Satisfies(cs \cup new, a) <=> Satisfies(cs, a) /\ Satisfies(new, a)
  BY DEF Satisfies
<1>9. Sound(e, S, cs \cup new, T, rules, defaults \cup more)
  BY <1>6, <1>7, <1>8 DEF Sound, Encodes
<1>10. ASSUME NEW a \in Valuations, a[S], Meaning(e, T, rules, defaults \cup more, a)
       PROVE  \E b \in Valuations : Satisfies(cs \cup new, b) /\ \A k \in Nat \ hidden : b[k] = a[k]
  <2>1. Meaning(e, T, rules, defaults, a) /\ (a[app] => Satisfies(more, a))
    BY <1>7, <1>10
  <2>2. PICK b \in Valuations : Satisfies(cs, b) /\ \A k \in Nat \ hidden : b[k] = a[k]
    BY <1>10, <2>1 DEF Encodes, Complete
  <2>3. b[S] = a[S] /\ b[app] = a[app]
    <3>1. S \in Nat \ hidden /\ app \in Nat \ hidden
      BY <1>1, <1>2, <1>3 DEF Separated, Inner, app
    <3> QED BY <2>2, <3>1
  <2>4. Satisfies(more, b) <=> Satisfies(more, a)
    <3>1. \A C \in more : \A l \in C : holds(l, b) <=> holds(l, a)
      <4> SUFFICES ASSUME NEW C \in more, NEW l \in C PROVE b[var(l)] = a[var(l)]
        BY SameValues
      <4>1. var(l) \in Nat \ hidden
        BY DEF IsOuter, Inner, var
      <4> QED BY <2>2, <4>1
    <3> QED BY <3>1 DEF Satisfies
  <2>5. Satisfies(new, b)
    BY <1>6, <1>10, <2>1, <2>3, <2>4
  <2> QED BY <1>8, <2>2, <2>5
<1>11. Complete(e, S, cs \cup new, T, rules, defaults \cup more, hidden)
  BY <1>10 DEF Complete
<1>12. Within(cs \cup new, N)
  <2>1. IsLiteralUpTo(-app, N) /\ IsLiteralUpTo(-S, N)
    BY <1>1, <1>3 DEF IsLiteralUpTo, var
  <2>2. \A C \in more : \A l \in C : IsLiteralUpTo(l, N)
    BY DEF IsOuter, IsLiteralUpTo
  <2> QED BY <1>4, <2>1, <2>2 DEF Within
<1> QED BY <1>5, <1>9, <1>11, <1>12 DEF Encodes, new

--------------------------------------------------------------------------------
(***************************************************************************)
(* The numbers that are assumed by the validity check, and the array of    *)
(* assumptions.                                                            *)
(***************************************************************************)
Entries == {var(validity_check_assumptions[k]) : k \in DOMAIN validity_check_assumptions}
Arbiters == DOMAIN arbiter_to_annotation
Selectors == {selectors[d] : d \in Existentials}
Public == Variables \cup Arbiters \cup Selectors \cup Entries
Later == (Introduced + 1)..last_variable

\* The numbers given to existentials for entries of the array.
EntryKinds == IF stage = "search" THEN {1, 2, 6, 7} ELSE {6, 7}
IsEntry(n) == n \in Later \/ \E d \in Existentials, j \in EntryKinds : n = numberOf(d, j)

ArrayInv ==
    /\ validity_check_assumptions \in Seq(Int \ {0})
    /\ 2 * Cardinality(Existentials) <= Len(validity_check_assumptions)
    /\ \A k \in DOMAIN validity_check_assumptions : IsEntry(var(validity_check_assumptions[k]))
    /\ \A k, l \in DOMAIN validity_check_assumptions :
          var(validity_check_assumptions[k]) = var(validity_check_assumptions[l]) => k = l
    /\ \A e \in Existentials :
          /\ validity_check_assumptions[forcing_disjunction(e)] < 0
          /\ validity_check_assumptions[2 * rank(e)] = use_default_value(e)

NumbersInv ==
    /\ stage \in {"idle", "preprocessing", "search"}
    /\ last_variable \in Nat /\ Introduced <= last_variable
    /\ Arbiters \subseteq Later
    /\ proper_arbiters \subseteq Arbiters
    /\ selectors \in [Existentials -> Nat]
    /\ \A d \in Existentials : selectors[d] = initialSelector(d) \/ selectors[d] \in Later
    /\ Arbiters \cap Selectors = {} /\ Arbiters \cap Entries = {} /\ Selectors \cap Entries = {}

LEMMA ArrayPlaces ==
    ASSUME ArrayInv
    PROVE  /\ Len(validity_check_assumptions) \in Nat
           /\ DOMAIN validity_check_assumptions = 1..Len(validity_check_assumptions)
           /\ \A k \in 1..Len(validity_check_assumptions) :
                 validity_check_assumptions[k] \in Int \ {0}
           /\ \A e \in Existentials :
                 /\ forcing_disjunction(e) \in 1..2 * Cardinality(Existentials)
                 /\ forcing_disjunction(e) \in 1..Len(validity_check_assumptions)
                 /\ 2 * rank(e) \in 1..Len(validity_check_assumptions)
                 /\ 2 * rank(e) = forcing_disjunction(e) + 1
           /\ \A d, e \in Existentials :
                 /\ forcing_disjunction(d) = forcing_disjunction(e) => d = e
                 /\ forcing_disjunction(d) # 2 * rank(e)
<1> DEFINE A == validity_check_assumptions
           m == Cardinality(Existentials)
<1>1. A \in Seq(Int \ {0}) /\ 2 * m <= Len(A)
  BY DEF ArrayInv
<1>2. /\ m \in Nat /\ \A e \in Existentials : rank(e) \in 1..m
      /\ \A d, e \in Existentials : rank(d) = rank(e) => d = e
  BY RankFacts
<1>3. Len(A) \in Nat /\ DOMAIN A = 1..Len(A) /\ \A k \in 1..Len(A) : A[k] \in Int \ {0}
  BY <1>1
<1> HIDE DEF A, m
<1>4. ASSUME NEW e \in Existentials
      PROVE  /\ 2 * rank(e) - 1 \in 1..2 * m /\ 2 * rank(e) - 1 \in 1..Len(A)
             /\ 2 * rank(e) \in 1..Len(A)
             /\ 2 * rank(e) = 2 * rank(e) - 1 + 1
  <2>1. rank(e) \in 1..m
    BY <1>2
  <2> QED BY <1>1, <1>2, <1>3, <2>1
<1>5. ASSUME NEW d \in Existentials, NEW e \in Existentials
      PROVE  /\ 2 * rank(d) - 1 = 2 * rank(e) - 1 => d = e
             /\ 2 * rank(d) - 1 # 2 * rank(e)
  <2>1. rank(d) \in Nat /\ rank(e) \in Nat
    BY <1>2
  <2>2. \A i, j \in Nat : (2 * i - 1 = 2 * j - 1 => i = j) /\ 2 * i - 1 # 2 * j
    OBVIOUS
  <2> QED BY <1>2, <2>1, <2>2
<1> QED BY <1>3, <1>4, <1>5 DEF forcing_disjunction, A, m

\* Where the numbers that are not assumed are.
LEMMA PublicFacts ==
    ASSUME ArrayInv, NumbersInv
    PROVE  /\ Public \subseteq 1..last_variable
           /\ \A e \in Existentials : /\ no_forcing_clause_active(e) \notin Public
                                      /\ apply_default(e) \notin Public
                                      /\ selectors[e] # initialSelector(e)
                                            => initialSelector(e) \notin Public
           /\ Variables \cap (Arbiters \cup Selectors \cup Entries) = {}
<1> DEFINE Own(k) == {numberOf(e, k) : e \in Existentials}
<1>1. /\ LastVariable \in Nat /\ Introduced \in Nat /\ LastVariable <= Introduced
      /\ last_variable \in Nat /\ Introduced <= last_variable
  BY NumberOfFacts DEF NumbersInv
<1>2. Variables \subseteq 1..LastVariable
  BY NumberOfFacts
<1>3. \A n \in Later : n \in Nat /\ n > Introduced /\ n <= last_variable
  BY <1>1 DEF Later
<1>4. \A n \in Arbiters : n \in Later
  BY DEF NumbersInv
<1>5. \A n \in Selectors : n \in Later \/ \E d \in Existentials : n = initialSelector(d) /\ n = selectors[d]
  BY DEF NumbersInv, Selectors
<1>6. \A n \in Entries : n \in Later \/ \E d \in Existentials, j \in {1, 2, 6, 7} : n = numberOf(d, j)
  BY DEF ArrayInv, Entries, IsEntry, EntryKinds
<1>7. \A e \in Existentials, k \in 1..22 : numberOf(e, k) \in Nat /\ numberOf(e, k) > LastVariable
                                              /\ numberOf(e, k) <= Introduced
  BY <1>1, NumberOfFacts
<1>8. \A n \in Arbiters \cup Selectors \cup Entries : n \in Nat /\ n > LastVariable /\ n <= last_variable
  <2>1. \A d \in Existentials : initialSelector(d) = numberOf(d, 3)
    BY DEF initialSelector
  <2>2. \A n \in Later : n \in Nat /\ n > LastVariable /\ n <= last_variable
    BY <1>1, <1>3
  <2>3. \A e \in Existentials, k \in 1..22 : numberOf(e, k) \in Nat /\ numberOf(e, k) > LastVariable
                                              /\ numberOf(e, k) <= last_variable
    BY <1>1, <1>7
  <2>4. 1 \in 1..22 /\ 2 \in 1..22 /\ 3 \in 1..22 /\ 6 \in 1..22 /\ 7 \in 1..22
    OBVIOUS
  <2> QED BY <1>4, <1>5, <1>6, <2>1, <2>2, <2>3, <2>4
<1>9. Public \subseteq 1..last_variable
  <2>1. \A n \in Nat : n > LastVariable => n >= 1
    BY <1>1
  <2>2. \A n \in Arbiters \cup Selectors \cup Entries : n \in 1..last_variable
    BY <1>1, <1>8, <2>1
  <2>3. 1..LastVariable \subseteq 1..last_variable
    BY <1>1
  <2> QED BY <1>2, <2>2, <2>3 DEF Public
<1>10. Variables \cap (Arbiters \cup Selectors \cup Entries) = {}
  BY <1>1, <1>2, <1>8
<1>11. ASSUME NEW e \in Existentials, NEW k \in {4, 5} PROVE numberOf(e, k) \notin Public
  <2>1. k \in 1..22 /\ 1 \in 1..22 /\ 2 \in 1..22 /\ 3 \in 1..22 /\ 6 \in 1..22 /\ 7 \in 1..22
    OBVIOUS
  <2>2. numberOf(e, k) > LastVariable /\ numberOf(e, k) <= Introduced /\ numberOf(e, k) \in Nat
    BY <1>7, <2>1
  <2>3. numberOf(e, k) \notin Variables /\ numberOf(e, k) \notin Later
    BY <1>1, <1>2, <1>3, <2>2
  <2>4. \A d \in Existentials, j \in {1, 2, 3, 6, 7} : numberOf(d, j) # numberOf(e, k)
    BY <2>1, NumberOfFacts
  <2>5. \A d \in Existentials : initialSelector(d) = numberOf(d, 3)
    BY DEF initialSelector
  <2> QED BY <1>4, <1>5, <1>6, <2>3, <2>4, <2>5 DEF Public
<1>12. ASSUME NEW e \in Existentials, selectors[e] # initialSelector(e)
       PROVE  initialSelector(e) \notin Public
  <2>1. 1 \in 1..22 /\ 2 \in 1..22 /\ 3 \in 1..22 /\ 6 \in 1..22 /\ 7 \in 1..22
    OBVIOUS
  <2>2. \A d \in Existentials : initialSelector(d) = numberOf(d, 3)
    BY DEF initialSelector
  <2>3. numberOf(e, 3) > LastVariable /\ numberOf(e, 3) <= Introduced /\ numberOf(e, 3) \in Nat
    BY <1>7, <2>1
  <2>4. numberOf(e, 3) \notin Variables /\ numberOf(e, 3) \notin Later
    BY <1>1, <1>2, <1>3, <2>3
  <2>5. /\ \A d \in Existentials, j \in {1, 2, 6, 7} : numberOf(d, j) # numberOf(e, 3)
        /\ \A d \in Existentials : numberOf(d, 3) = numberOf(e, 3) => d = e
    BY <2>1, NumberOfFacts
  <2> QED BY <1>4, <1>5, <1>6, <1>12, <2>2, <2>4, <2>5 DEF Public
<1> QED BY <1>9, <1>10, <1>11, <1>12 DEF no_forcing_clause_active, apply_default

\* The array and the sets of numbers after a step: what is not as before is new.
LEMMA NumbersKept ==
    ASSUME ArrayInv, NumbersInv,
           last_variable' \in Nat, last_variable <= last_variable',
           stage' \in {"idle", "preprocessing", "search"}, stage = "search" => stage' = "search",
           proper_arbiters' \subseteq Arbiters', selectors' \in [Existentials -> Nat],
           NEW FA, NEW FS, NEW FE,
           FA \cap FS = {}, FA \cap FE = {}, FS \cap FE = {},
           FA \cup FS \cup FE \subseteq (last_variable + 1)..last_variable',
           Arbiters' \subseteq Arbiters \cup FA,
           \A d \in Existentials : selectors'[d] = selectors[d] \/ selectors'[d] \in FS,
           validity_check_assumptions' \in Seq(Int \ {0}),
           Len(validity_check_assumptions) <= Len(validity_check_assumptions'),
           \A k \in 1..Len(validity_check_assumptions') :
              \/ k <= Len(validity_check_assumptions)
                 /\ var(validity_check_assumptions'[k]) = var(validity_check_assumptions[k])
              \/ /\ var(validity_check_assumptions'[k]) \in FE
                 /\ \A l \in 1..Len(validity_check_assumptions') :
                       var(validity_check_assumptions'[k]) = var(validity_check_assumptions'[l])
                          => k = l,
           \A e \in Existentials :
              /\ validity_check_assumptions'[forcing_disjunction(e)] < 0
              /\ validity_check_assumptions'[2 * rank(e)] = validity_check_assumptions[2 * rank(e)]
    PROVE  /\ ArrayInv' /\ NumbersInv'
           /\ Public' \subseteq Public \cup FA \cup FS \cup FE
           /\ \A n \in Entries : ~(\E k \in DOMAIN validity_check_assumptions :
                     /\ var(validity_check_assumptions[k]) = n
                     /\ k \in DOMAIN validity_check_assumptions'
                     /\ var(validity_check_assumptions'[k]) = n)
                  => n \notin Public'
<1> DEFINE A == validity_check_assumptions
           B == validity_check_assumptions'
           F == (last_variable + 1)..last_variable'
<1>1. /\ Introduced \in Nat /\ last_variable \in Nat /\ Introduced <= last_variable
      /\ last_variable' \in Nat /\ last_variable <= last_variable'
  BY NumberOfFacts DEF NumbersInv
<1>2. /\ Later' = (Introduced + 1)..last_variable'
      /\ Later \subseteq Later' /\ F \subseteq Later' /\ F \cap (1..last_variable) = {}
  BY <1>1 DEF Later, Introduced
<1>3. /\ DOMAIN A = 1..Len(A) /\ Len(A) \in Nat /\ DOMAIN B = 1..Len(B) /\ Len(B) \in Nat
      /\ Len(A) <= Len(B) /\ \A k \in 1..Len(B) : B[k] \in Int \ {0}
  BY ArrayPlaces
<1>4. Public \subseteq 1..last_variable
  BY PublicFacts
<1>5. \A n \in Public : n \notin F
  BY <1>2, <1>4
<1>6. FA \subseteq F /\ FS \subseteq F /\ FE \subseteq F
  OBVIOUS
<1> HIDE DEF F
<1>7. ASSUME NEW k \in 1..Len(B)
      PROVE  \/ k \in 1..Len(A) /\ var(B[k]) = var(A[k]) /\ var(B[k]) \in Entries
             \/ var(B[k]) \in FE /\ \A l \in 1..Len(B) : var(B[k]) = var(B[l]) => k = l
  <2>1. k <= Len(A) => k \in 1..Len(A)
    BY <1>3
  <2> QED BY <1>3, <2>1 DEF Entries
<1>8. \A n \in Entries' : n \in Entries \/ n \in FE
  BY <1>3, <1>7 DEF Entries
<1>9. \A n \in Selectors' : n \in Selectors \/ n \in FS
  BY DEF Selectors
<1>10. Entries \subseteq Public /\ Selectors \subseteq Public /\ Arbiters \subseteq Public
  BY DEF Public
<1>11. Public' \subseteq Public \cup FA \cup FS \cup FE
  BY <1>6, <1>8, <1>9 DEF Public
<1>12. /\ Arbiters' \cap Selectors' = {} /\ Arbiters' \cap Entries' = {}
       /\ Selectors' \cap Entries' = {}
  <2>1. Arbiters \cap Selectors = {} /\ Arbiters \cap Entries = {} /\ Selectors \cap Entries = {}
    BY DEF NumbersInv
  <2> QED BY <1>5, <1>6, <1>8, <1>9, <1>10, <2>1
<1>13. Arbiters' \subseteq Later'
  BY <1>2, <1>6 DEF NumbersInv
<1>14. \A d \in Existentials : selectors'[d] = initialSelector(d) \/ selectors'[d] \in Later'
  BY <1>2, <1>6 DEF NumbersInv
<1>15. NumbersInv'
  <2>1. \A d \in Existentials : initialSelector(d)' = initialSelector(d)
    BY DEF initialSelector, numberOf, rank
  <2>2. Introduced' = Introduced
    BY DEF Introduced
  <2> QED BY <1>1, <1>12, <1>13, <1>14, <2>1, <2>2 DEF NumbersInv
<1>16. ASSUME NEW k \in 1..Len(B), NEW l \in 1..Len(B), var(B[k]) = var(B[l]) PROVE k = l
  <2>1. CASE var(B[k]) \in FE
    BY <1>5, <1>6, <1>7, <1>10, <1>16, <2>1
  <2>2. CASE var(B[k]) \notin FE
    <3>1. k \in 1..Len(A) /\ l \in 1..Len(A) /\ var(A[k]) = var(A[l])
      BY <1>7, <1>16, <2>2
    <3> QED BY <1>3, <3>1 DEF ArrayInv
  <2> QED BY <2>1, <2>2
<1> DEFINE IsNew(n) == n \in Later' \/ \E d \in Existentials, j \in EntryKinds' : n = numberOf(d, j)
<1>17. ASSUME NEW k \in 1..Len(B) PROVE IsNew(var(B[k]))
  <2>1. EntryKinds \subseteq EntryKinds'
    BY DEF EntryKinds
  <2> HIDE DEF Later, EntryKinds
  <2>2. \A n : IsEntry(n) => IsNew(n)
    BY <1>2, <2>1 DEF IsEntry
  <2>3. \A n \in F : IsNew(n)
    BY <1>2
  <2> HIDE DEF IsNew
  <2>4. CASE k \in 1..Len(A) /\ var(B[k]) = var(A[k])
    BY <1>3, <2>2, <2>4 DEF ArrayInv
  <2>5. CASE var(B[k]) \in FE
    BY <1>6, <2>3, <2>5
  <2> QED BY <1>7, <2>4, <2>5
<1>18. ArrayInv'
  <2>1. \A e \in Existentials : /\ forcing_disjunction(e)' = forcing_disjunction(e)
                                /\ rank(e)' = rank(e) /\ use_default_value(e)' = use_default_value(e)
    BY DEF forcing_disjunction, rank, use_default_value, numberOf
  <2>2. 2 * Cardinality(Existentials) <= Len(B)
    <3>1. Cardinality(Existentials) \in Nat /\ 2 * Cardinality(Existentials) <= Len(A)
      BY RankFacts DEF ArrayInv
    <3> QED BY <1>3, <3>1
  <2>3. \A e \in Existentials : B[forcing_disjunction(e)] < 0 /\ B[2 * rank(e)] = use_default_value(e)
    BY DEF ArrayInv
  <2>4. \A k \in DOMAIN B : IsNew(var(B[k]))
    BY <1>3, <1>17
  <2>5. \A k, l \in DOMAIN B : var(B[k]) = var(B[l]) => k = l
    BY <1>3, <1>16
  <2>6. \A d, j : numberOf(d, j)' = numberOf(d, j)
    BY DEF numberOf, rank
  <2>7. (\A k \in DOMAIN validity_check_assumptions : IsEntry(var(validity_check_assumptions[k])))'
    BY <2>4, <2>6 DEF IsEntry
  <2>8. (\A k, l \in DOMAIN validity_check_assumptions :
           var(validity_check_assumptions[k]) = var(validity_check_assumptions[l]) => k = l)'
    BY <2>5
  <2>9. (\A e \in Existentials :
          /\ validity_check_assumptions[forcing_disjunction(e)] < 0
          /\ validity_check_assumptions[2 * rank(e)] = use_default_value(e))'
    BY <2>1, <2>3
  <2> HIDE DEF IsNew
  <2> QED BY <2>2, <2>7, <2>8, <2>9 DEF ArrayInv
<1>19. ASSUME NEW n \in Entries,
              ~(\E k \in DOMAIN A : var(A[k]) = n /\ k \in DOMAIN B /\ var(B[k]) = n)
       PROVE  n \notin Public'
  <2>1. n \notin FE /\ n \notin FS /\ n \notin FA
    BY <1>5, <1>6, <1>10
  <2>2. n \notin Entries'
    <3> SUFFICES ASSUME NEW k \in 1..Len(B), var(B[k]) = n PROVE FALSE
      BY <1>3 DEF Entries
    <3>1. k \in 1..Len(A) /\ var(A[k]) = n
      BY <1>7, <2>1
    <3> QED BY <1>3, <1>19, <3>1
  <2>3. n \notin Variables /\ n \notin Arbiters /\ n \notin Selectors
    BY PublicFacts DEF NumbersInv
  <2>4. n \notin Arbiters' /\ n \notin Selectors'
    BY <1>9, <2>1, <2>3
  <2> QED BY <2>2, <2>3, <2>4 DEF Public
<1> QED BY <1>11, <1>15, <1>18, <1>19 DEF F

--------------------------------------------------------------------------------
(***************************************************************************)
(* The default rules.  The array of selectors for the consistency check is *)
(* the end of the array of assumptions.  The leaves of a variable have     *)
(* places of their own in it, and one of them agrees with each point.      *)
(***************************************************************************)
Whole == [y \in {} |-> TRUE]

\* The current rules of e: paths with their places.
current(e) == IF treeActive(e) THEN default_trees[e] ELSE [c \in {Whole} |-> fixed_defaults[e]]
spot(e, c) == current(e)[c].selectors

IsPlace(p) ==
    /\ p.selectors \in 1..Len(default_selectors) /\ p.selectors + 1 \in 1..Len(default_selectors)
    /\ p.assumptions = Len(validity_check_assumptions) - Len(default_selectors) + p.selectors
    /\ (default_selectors[p.selectors] > 0) <=> ~(default_selectors[p.selectors + 1] > 0)

Distant(k, l) == k + 1 < l \/ l + 1 < k

\* One leaf agrees with each point.
IsPartition(leaves) ==
    \A a \in Valuations : \E c \in leaves : Agrees(c, a) /\ \A b \in leaves : Agrees(b, a) => b = c

SuffixInv ==
    /\ default_selectors \in Seq(Int \ {0})
    /\ 2 * Cardinality(Existentials) + Len(default_selectors) <= Len(validity_check_assumptions)
    /\ \A k \in 1..Len(default_selectors) :
          validity_check_assumptions[Len(validity_check_assumptions) - Len(default_selectors) + k]
             = default_selectors[k]

PlacesInv ==
    /\ variables_with_defaults = undefined
    /\ \A e \in undefined : treeActive(e) \/ e \in DOMAIN fixed_defaults
    /\ \A e \in undefined : \A c \in DOMAIN current(e) :
          IsPlace(current(e)[c]) /\ IsCube(c, Variables)
    /\ \A d, e \in undefined : \A b \in DOMAIN current(d) : \A c \in DOMAIN current(e) :
          d # e \/ b # c => Distant(spot(d, b), spot(e, c))
    /\ \A e \in undefined : IsPartition(DOMAIN current(e))

\* The clause of a current rule for value b.
selectorOf(e, c, b) == var(default_selectors[IF b THEN spot(e, c) ELSE spot(e, c) + 1])
currentClause(e, c, b) == pathClause(c) \cup {-selectorOf(e, c, b), literal(e, b)}

Retired(k) ==
    /\ k \in DOMAIN default_selectors
    /\ \A e \in undefined : \A c \in DOMAIN current(e) : k # spot(e, c) /\ k # spot(e, c) + 1

\* The clauses of all current rules are there, the others are disabled for good.
Conforms(e, defaults) ==
    /\ \A c \in DOMAIN current(e), b \in BOOLEAN : currentClause(e, c, b) \in defaults
    /\ \A C \in defaults :
          \/ \E c \in DOMAIN current(e), b \in BOOLEAN : C = currentClause(e, c, b)
          \/ \E k \in DOMAIN default_selectors :
                Retired(k) /\ default_selectors[k] < 0 /\ default_selectors[k] \in C

LEMMA SuffixFacts ==
    ASSUME ArrayInv, SuffixInv
    PROVE  /\ Len(default_selectors) \in Nat /\ DOMAIN default_selectors = 1..Len(default_selectors)
           /\ \A k \in 1..Len(default_selectors) : default_selectors[k] \in Int \ {0}
           /\ \A k \in 1..Len(default_selectors) :
                 LET j == Len(validity_check_assumptions) - Len(default_selectors) + k
                 IN  /\ j \in 1..Len(validity_check_assumptions)
                     /\ 2 * Cardinality(Existentials) < j
                     /\ validity_check_assumptions[j] = default_selectors[k]
           /\ \A k, l \in 1..Len(default_selectors) :
                 var(default_selectors[k]) = var(default_selectors[l]) => k = l
<1> DEFINE A == validity_check_assumptions
           B == default_selectors
           m == Cardinality(Existentials)
<1>1. Len(B) \in Nat /\ DOMAIN B = 1..Len(B) /\ \A k \in 1..Len(B) : B[k] \in Int \ {0}
  BY DEF SuffixInv
<1>2. Len(A) \in Nat /\ m \in Nat /\ 2 * m + Len(B) <= Len(A)
  BY ArrayPlaces, RankFacts DEF SuffixInv
<1> HIDE DEF m
<1>3. \A k \in 1..Len(B) : Len(A) - Len(B) + k \in 1..Len(A) /\ 2 * m < Len(A) - Len(B) + k
  BY <1>1, <1>2
<1>4. \A k \in 1..Len(B) : A[Len(A) - Len(B) + k] = B[k]
  BY DEF SuffixInv
<1>5. ASSUME NEW k \in 1..Len(B), NEW l \in 1..Len(B), var(B[k]) = var(B[l]) PROVE k = l
  <2>1. DOMAIN A = 1..Len(A)
    BY ArrayPlaces
  <2>2. Len(A) - Len(B) + k = Len(A) - Len(B) + l
    <3> DEFINE i == Len(A) - Len(B) + k
               j == Len(A) - Len(B) + l
    <3>1. i \in DOMAIN A /\ j \in DOMAIN A /\ var(A[i]) = var(A[j])
      BY <1>3, <1>4, <1>5, <2>1
    <3> HIDE DEF i, j
    <3>2. i = j
      BY <3>1 DEF ArrayInv
    <3> QED BY <3>2 DEF i, j
  <2> QED BY <1>1, <1>2, <2>2
<1> QED BY <1>1, <1>3, <1>4, <1>5 DEF m

\* Selectors of the default rules change their signs, two at one place.
LEMMA PairChanged ==
    ASSUME ArrayInv, SuffixInv, PlacesInv, UNCHANGED <<definitions, variables_with_defaults,
                                                       fixed_defaults, default_trees>>,
           NEW d \in undefined, NEW b \in DOMAIN current(d),
           default_selectors' \in Seq(Int \ {0}),
           Len(default_selectors') = Len(default_selectors),
           Len(validity_check_assumptions') = Len(validity_check_assumptions),
           \A k \in 1..Len(default_selectors) : var(default_selectors'[k]) = var(default_selectors[k]),
           \A k \in 1..Len(default_selectors) :
              k # spot(d, b) /\ k # spot(d, b) + 1 => default_selectors'[k] = default_selectors[k],
           (default_selectors'[spot(d, b)] > 0) <=> ~(default_selectors'[spot(d, b) + 1] > 0),
           \A k \in 1..Len(default_selectors) :
              validity_check_assumptions'[Len(validity_check_assumptions) - Len(default_selectors) + k]
                 = default_selectors'[k]
    PROVE  /\ SuffixInv' /\ PlacesInv'
           /\ \A e \in undefined : \A D : Conforms(e, D) => Conforms(e, D)'
<1>1. /\ undefined' = undefined
      /\ \A e : current(e)' = current(e) /\ (treeActive(e)' <=> treeActive(e))
  BY DEF undefined, current, treeActive, treeIsAvailable, Whole
<1>2. \A e, c : spot(e, c)' = spot(e, c)
  BY <1>1 DEF spot
<1>3. SuffixInv'
  BY DEF SuffixInv
<1>4. DOMAIN default_selectors = 1..Len(default_selectors)
      /\ DOMAIN default_selectors' = 1..Len(default_selectors)
  BY SuffixFacts
<1>5. \A e \in undefined : \A c \in DOMAIN current(e) :
         /\ spot(e, c) \in 1..Len(default_selectors) /\ spot(e, c) + 1 \in 1..Len(default_selectors)
         /\ (d # e \/ b # c => Distant(spot(d, b), spot(e, c)))
  BY DEF PlacesInv, IsPlace, spot
<1>6. ASSUME NEW e \in undefined, NEW c \in DOMAIN current(e) PROVE IsPlace(current(e)[c])'
  <2> DEFINE p == current(e)[c]
  <2>1. IsPlace(p) /\ p.selectors = spot(e, c)
    BY DEF PlacesInv, spot
  <2>2. (default_selectors'[p.selectors] > 0) <=> ~(default_selectors'[p.selectors + 1] > 0)
    <3>1. CASE d = e /\ b = c
      BY <2>1, <3>1
    <3>2. CASE d # e \/ b # c
      <4>1. Distant(spot(d, b), spot(e, c)) /\ spot(d, b) \in Nat /\ spot(e, c) \in Nat
        <5>1. Len(default_selectors) \in Nat
          BY SuffixFacts
        <5>2. spot(d, b) \in 1..Len(default_selectors) /\ spot(e, c) \in 1..Len(default_selectors)
          BY <1>5
        <5>3. Distant(spot(d, b), spot(e, c))
          BY <1>5, <3>2
        <5> QED BY <5>1, <5>2, <5>3
      <4>2. /\ spot(e, c) # spot(d, b) /\ spot(e, c) # spot(d, b) + 1
            /\ spot(e, c) + 1 # spot(d, b) /\ spot(e, c) + 1 # spot(d, b) + 1
        BY <4>1 DEF Distant
      <4>3. default_selectors'[spot(e, c)] = default_selectors[spot(e, c)]
            /\ default_selectors'[spot(e, c) + 1] = default_selectors[spot(e, c) + 1]
        BY <1>5, <4>2
      <4> QED BY <2>1, <4>3 DEF IsPlace
    <3> QED BY <3>1, <3>2
  <2>3. \A q : q = p => IsPlace(q)'
    BY <2>1, <2>2 DEF IsPlace
  <2> QED BY <1>1, <2>3
<1>7. PlacesInv'
  <2>1. (\A e \in undefined : \A c \in DOMAIN current(e) :
            IsPlace(current(e)[c]) /\ IsCube(c, Variables))'
    BY <1>1, <1>6 DEF PlacesInv
  <2>2. (\A k, e \in undefined : \A x \in DOMAIN current(k) : \A c \in DOMAIN current(e) :
            k # e \/ x # c => Distant(spot(k, x), spot(e, c)))'
    BY <1>1, <1>2 DEF PlacesInv
  <2>3. (\A e \in undefined : IsPartition(DOMAIN current(e)))'
    BY <1>1 DEF PlacesInv
  <2>4. (\A e \in undefined : treeActive(e) \/ e \in DOMAIN fixed_defaults)'
    BY <1>1 DEF PlacesInv
  <2>5. (variables_with_defaults = undefined)'
    BY <1>1 DEF PlacesInv
  <2> QED BY <2>2, <2>3, <2>4, <2>5, <2>1 DEF PlacesInv
<1>8. ASSUME NEW e \in undefined, NEW D, Conforms(e, D) PROVE Conforms(e, D)'
  <2>1. ASSUME NEW c \in DOMAIN current(e), NEW x \in BOOLEAN
        PROVE  currentClause(e, c, x)' = currentClause(e, c, x)
    <3>1. (IF x THEN spot(e, c) ELSE spot(e, c) + 1) \in 1..Len(default_selectors)
      BY <1>5
    <3>2. selectorOf(e, c, x)' = selectorOf(e, c, x)
      BY <1>2, <3>1 DEF selectorOf
    <3>3. pathClause(c)' = pathClause(c)
      BY DEF pathClause
    <3> QED BY <3>2, <3>3 DEF currentClause
  <2>2. ASSUME NEW k, Retired(k) PROVE Retired(k)' /\ default_selectors'[k] = default_selectors[k]
    BY <1>1, <1>2, <1>4, <2>2 DEF Retired
  <2>3. \A c \in DOMAIN current(e), x \in BOOLEAN : currentClause(e, c, x) \in D
    BY <1>8 DEF Conforms
  <2>4. \A C \in D :
          \/ \E c \in DOMAIN current(e), x \in BOOLEAN : C = currentClause(e, c, x)
          \/ \E k \in DOMAIN default_selectors :
                Retired(k) /\ default_selectors[k] < 0 /\ default_selectors[k] \in C
    BY <1>8 DEF Conforms
  <2>5. (\A c \in DOMAIN current(e), x \in BOOLEAN : currentClause(e, c, x) \in D)'
    BY <1>1, <2>1, <2>3
  <2>6. (\A C \in D :
          \/ \E c \in DOMAIN current(e), x \in BOOLEAN : C = currentClause(e, c, x)
          \/ \E k \in DOMAIN default_selectors :
                Retired(k) /\ default_selectors[k] < 0 /\ default_selectors[k] \in C)'
    <3> SUFFICES ASSUME NEW C \in D
                 PROVE  (\/ \E c \in DOMAIN current(e), x \in BOOLEAN : C = currentClause(e, c, x)
                         \/ \E k \in DOMAIN default_selectors :
                               Retired(k) /\ default_selectors[k] < 0 /\ default_selectors[k] \in C)'
      OBVIOUS
    <3>1. CASE \E c \in DOMAIN current(e), x \in BOOLEAN : C = currentClause(e, c, x)
      BY <1>1, <2>1, <3>1
    <3>2. CASE \E k \in DOMAIN default_selectors :
                  Retired(k) /\ default_selectors[k] < 0 /\ default_selectors[k] \in C
      <4>1. PICK k \in DOMAIN default_selectors :
               Retired(k) /\ default_selectors[k] < 0 /\ default_selectors[k] \in C
        BY <3>2
      <4>2. Retired(k)' /\ default_selectors'[k] = default_selectors[k] /\ k \in DOMAIN default_selectors'
        BY <1>4, <2>2, <4>1
      <4> QED BY <4>1, <4>2
    <3> QED BY <2>4, <3>1, <3>2
  <2> QED BY <2>5, <2>6 DEF Conforms
<1> QED BY <1>3, <1>7, <1>8

LEMMA SignGiven ==
    ASSUME NEW s \in Seq(Int \ {0}), NEW k \in 1..Len(s), NEW b \in BOOLEAN
    PROVE  /\ withSign(s, k, b) \in Seq(Int \ {0}) /\ Len(withSign(s, k, b)) = Len(s)
           /\ withSign(s, k, b)[k] = (IF b THEN var(s[k]) ELSE -var(s[k]))
           /\ \A j \in 1..Len(s) : j # k => withSign(s, k, b)[j] = s[j]
<1>1. s[k] \in Int \ {0}
  OBVIOUS
<1>2. literal(var(s[k]), b) \in Int \ {0}
  BY <1>1 DEF literal, var
<1> DEFINE v == literal(var(s[k]), b)
<1>3. withSign(s, k, b) = [s EXCEPT ![k] = v]
  BY DEF withSign
<1> HIDE DEF v
<1>4. v \in Int \ {0}
  BY <1>2 DEF v
<1>5. [s EXCEPT ![k] = v] \in Seq(Int \ {0}) /\ Len([s EXCEPT ![k] = v]) = Len(s)
  BY <1>4
<1>6. [s EXCEPT ![k] = v][k] = v /\ \A j \in 1..Len(s) : j # k => [s EXCEPT ![k] = v][j] = s[j]
  OBVIOUS
<1> QED BY <1>3, <1>5, <1>6 DEF v, literal

pairSigned(s, k, b, c) == withSign(withSign(s, k, b), k + 1, c)

LEMMA PairSigned ==
    ASSUME NEW s \in Seq(Int \ {0}), NEW k \in 1..Len(s), k + 1 \in 1..Len(s),
           NEW b \in BOOLEAN, NEW c \in BOOLEAN
    PROVE  /\ pairSigned(s, k, b, c) \in Seq(Int \ {0}) /\ Len(pairSigned(s, k, b, c)) = Len(s)
           /\ pairSigned(s, k, b, c)[k] = (IF b THEN var(s[k]) ELSE -var(s[k]))
           /\ pairSigned(s, k, b, c)[k + 1] = (IF c THEN var(s[k + 1]) ELSE -var(s[k + 1]))
           /\ \A j \in 1..Len(s) : j # k /\ j # k + 1 => pairSigned(s, k, b, c)[j] = s[j]
<1> DEFINE r == withSign(s, k, b)
           t == withSign(r, k + 1, c)
<1>1. /\ r \in Seq(Int \ {0}) /\ Len(r) = Len(s) /\ r[k] = (IF b THEN var(s[k]) ELSE -var(s[k]))
      /\ \A j \in 1..Len(s) : j # k => r[j] = s[j]
  BY SignGiven
<1> HIDE DEF r
<1>2. /\ t \in Seq(Int \ {0}) /\ Len(t) = Len(r) /\ t[k + 1] = (IF c THEN var(r[k + 1]) ELSE -var(r[k + 1]))
      /\ \A j \in 1..Len(s) : j # k + 1 => t[j] = r[j]
  BY <1>1, SignGiven
<1> HIDE DEF t
<1>3. k # k + 1
  OBVIOUS
<1> QED BY <1>1, <1>2, <1>3 DEF r, t, pairSigned

\* u is t with other signs at k and k + 1.
IsSigned(u, t, n, k, b, c) ==
    /\ u \in Seq(Int \ {0}) /\ Len(u) = n
    /\ u[k] = (IF b THEN var(t[k]) ELSE -var(t[k]))
    /\ u[k + 1] = (IF c THEN var(t[k + 1]) ELSE -var(t[k + 1]))
    /\ \A j \in 1..n : j # k /\ j # k + 1 => u[j] = t[j]

LEMMA PairAt ==
    ASSUME NEW t \in Seq(Int \ {0}), NEW n, Len(t) = n, NEW k \in 1..n, k + 1 \in 1..n,
           NEW b \in BOOLEAN, NEW c \in BOOLEAN
    PROVE  IsSigned(pairSigned(t, k, b, c), t, n, k, b, c)
<1>1. k \in 1..Len(t) /\ k + 1 \in 1..Len(t)
  OBVIOUS
<1>2. /\ pairSigned(t, k, b, c) \in Seq(Int \ {0}) /\ Len(pairSigned(t, k, b, c)) = Len(t)
      /\ pairSigned(t, k, b, c)[k] = (IF b THEN var(t[k]) ELSE -var(t[k]))
      /\ pairSigned(t, k, b, c)[k + 1] = (IF c THEN var(t[k + 1]) ELSE -var(t[k + 1]))
      /\ \A j \in 1..Len(t) : j # k /\ j # k + 1 => pairSigned(t, k, b, c)[j] = t[j]
  BY <1>1, PairSigned
<1> QED BY <1>2 DEF IsSigned

\* And at two pairs at the end.
AreSigned(v, t, L, b, c, d, f) ==
    /\ v \in Seq(Int \ {0}) /\ Len(v) = L + 4
    /\ v[L + 1] = (IF b THEN var(t[L + 1]) ELSE -var(t[L + 1]))
    /\ v[L + 2] = (IF c THEN var(t[L + 2]) ELSE -var(t[L + 2]))
    /\ v[L + 3] = (IF d THEN var(t[L + 3]) ELSE -var(t[L + 3]))
    /\ v[L + 4] = (IF f THEN var(t[L + 4]) ELSE -var(t[L + 4]))
    /\ \A j \in 1..L : v[j] = t[j]

LEMMA TwoPairs ==
    ASSUME NEW t \in Seq(Int \ {0}), NEW L \in Nat, Len(t) = L + 4,
           NEW b \in BOOLEAN, NEW c \in BOOLEAN, NEW d \in BOOLEAN, NEW f \in BOOLEAN
    PROVE  AreSigned(pairSigned(pairSigned(t, L + 1, b, c), L + 3, d, f), t, L, b, c, d, f)
<1> DEFINE u == pairSigned(t, L + 1, b, c)
           v == pairSigned(u, L + 3, d, f)
<1>0. IsSigned(u, t, L + 4, L + 1, b, c) /\ IsSigned(v, u, L + 4, L + 3, d, f)
  <2>1. L + 1 \in 1..L + 4 /\ L + 1 + 1 \in 1..L + 4 /\ L + 3 \in 1..L + 4 /\ L + 3 + 1 \in 1..L + 4
    OBVIOUS
  <2>2. IsSigned(u, t, L + 4, L + 1, b, c)
    BY <2>1, PairAt, Zenon
  <2>3. u \in Seq(Int \ {0}) /\ Len(u) = L + 4
    BY <2>2 DEF IsSigned
  <2> HIDE DEF u
  <2>4. IsSigned(v, u, L + 4, L + 3, d, f)
    BY <2>1, <2>3, PairAt, Zenon
  <2> QED BY <2>2, <2>4
<1> HIDE DEF u, v
<1>1. /\ v \in Seq(Int \ {0}) /\ Len(v) = L + 4
      /\ u[L + 1] = (IF b THEN var(t[L + 1]) ELSE -var(t[L + 1]))
      /\ u[L + 2] = (IF c THEN var(t[L + 2]) ELSE -var(t[L + 2]))
      /\ v[L + 3] = (IF d THEN var(u[L + 3]) ELSE -var(u[L + 3]))
      /\ v[L + 4] = (IF f THEN var(u[L + 4]) ELSE -var(u[L + 4]))
  <2>1. L + 1 + 1 = L + 2 /\ L + 3 + 1 = L + 4
    OBVIOUS
  <2> QED BY <1>0, <2>1 DEF IsSigned
<1>2. \A j \in 1..L + 4 : j # L + 1 /\ j # L + 2 => u[j] = t[j]
  BY <1>0 DEF IsSigned
<1>3. \A j \in 1..L + 4 : j # L + 3 /\ j # L + 4 => v[j] = u[j]
  BY <1>0 DEF IsSigned
<1>4. /\ L + 1 \in 1..L + 4 /\ L + 2 \in 1..L + 4 /\ L + 3 \in 1..L + 4 /\ L + 4 \in 1..L + 4
      /\ L + 1 # L + 3 /\ L + 1 # L + 4 /\ L + 2 # L + 3 /\ L + 2 # L + 4
      /\ \A j \in 1..L : /\ j \in 1..L + 4 /\ j # L + 1 /\ j # L + 2
                         /\ j # L + 3 /\ j # L + 4
  OBVIOUS
<1>5. u[L + 3] = t[L + 3] /\ u[L + 4] = t[L + 4] /\ v[L + 1] = u[L + 1] /\ v[L + 2] = u[L + 2]
  BY <1>2, <1>3, <1>4
<1>6. \A j \in 1..L : v[j] = t[j]
  BY <1>2, <1>3, <1>4
<1> QED BY <1>1, <1>5, <1>6 DEF AreSigned, u, v

\* The values of the four selectors of a split.
SplitSign(majority, i) ==
    IF i = 1 THEN majority[FALSE] ELSE IF i = 2 THEN ~majority[FALSE]
    ELSE IF i = 3 THEN majority[TRUE] ELSE ~majority[TRUE]

extendedBy(s, k, n, majority) ==
    setPair(setPair(disablePair(s, k) \o <<n + 1, n + 2, n + 3, n + 4>>,
                    Len(s) + 1, majority[FALSE]), Len(s) + 3, majority[TRUE])

Extended(r, s, k, n, majority, len) ==
    /\ r \in Seq(Int \ {0}) /\ Len(r) = len + 4
    /\ \A j \in 1..len : r[j] = IF j = k \/ j = k + 1 THEN -var(s[j]) ELSE s[j]
    /\ \A i \in 1..4 : r[len + i] = IF SplitSign(majority, i) THEN n + i ELSE -(n + i)

LEMMA ExtendedFacts ==
    ASSUME NEW s \in Seq(Int \ {0}), NEW k \in 1..Len(s), k + 1 \in 1..Len(s),
           NEW n \in Nat, NEW majority \in [BOOLEAN -> BOOLEAN]
    PROVE  Extended(extendedBy(s, k, n, majority), s, k, n, majority, Len(s))
<1> DEFINE m0 == majority[FALSE]
           m1 == majority[TRUE]
           F == FALSE
           n0 == ~majority[FALSE]
           n1 == ~majority[TRUE]
           new == <<n + 1, n + 2, n + 3, n + 4>>
           r == disablePair(s, k)
           t == r \o new
           u == setPair(t, Len(s) + 1, m0)
           v == setPair(u, Len(s) + 3, m1)
<1>1. Len(s) \in Nat /\ \A j \in 1..Len(s) : s[j] \in Int \ {0}
  OBVIOUS
<1>2. m0 \in BOOLEAN /\ m1 \in BOOLEAN /\ F \in BOOLEAN /\ n0 \in BOOLEAN /\ n1 \in BOOLEAN
  OBVIOUS
<1>3. r = pairSigned(s, k, F, F)
  BY DEF disablePair, pairSigned
<1>4. u = pairSigned(t, Len(s) + 1, m0, n0)
  BY DEF setPair, pairSigned
<1>5. v = pairSigned(u, Len(s) + 3, m1, n1)
  BY DEF setPair, pairSigned
<1>6. extendedBy(s, k, n, majority) = v
  BY DEF extendedBy
<1>7. /\ m0 = majority[FALSE] /\ m1 = majority[TRUE] /\ n0 = ~majority[FALSE] /\ n1 = ~majority[TRUE]
      /\ F = FALSE
  OBVIOUS
<1> HIDE DEF m0, m1, n0, n1, F, r, t, u, v
<1>8. /\ r \in Seq(Int \ {0}) /\ Len(r) = Len(s)
      /\ r[k] = -var(s[k]) /\ r[k + 1] = -var(s[k + 1])
      /\ \A j \in 1..Len(s) : j # k /\ j # k + 1 => r[j] = s[j]
  BY <1>2, <1>3, <1>7, PairSigned, SMTT(30)
<1>9. /\ new \in Seq(Int \ {0}) /\ Len(new) = 4
      /\ new[1] = n + 1 /\ new[2] = n + 2 /\ new[3] = n + 3 /\ new[4] = n + 4
  OBVIOUS
<1> HIDE DEF new
<1>10. /\ t \in Seq(Int \ {0}) /\ Len(t) = Len(s) + 4
       /\ \A j \in 1..Len(s) : t[j] = r[j]
       /\ \A i \in 1..4 : t[Len(s) + i] = new[i]
  <2>1. /\ t \in Seq(Int \ {0}) /\ Len(t) = Len(r) + Len(new)
        /\ \A j \in 1..(Len(r) + Len(new)) : t[j] = IF j <= Len(r) THEN r[j] ELSE new[j - Len(r)]
    BY <1>8, <1>9, ConcatProperties DEF t
  <2> DEFINE M == Len(s)
  <2>2. M \in Nat /\ Len(r) = M /\ Len(new) = 4
    BY <1>1, <1>8, <1>9
  <2> HIDE DEF M
  <2>3. \A j \in 1..M : j \in 1..M + 4 /\ j <= M
    BY <2>2
  <2>4. \A i \in 1..4 : M + i \in 1..M + 4 /\ ~(M + i <= M) /\ M + i - M = i
    BY <2>2
  <2>5. \A j \in 1..M : t[j] = r[j]
    BY <2>1, <2>2, <2>3
  <2>6. ASSUME NEW i \in 1..4 PROVE t[M + i] = new[i]
    <3> DEFINE j == M + i
    <3>1. j \in 1..M + 4 /\ ~(j <= M) /\ j - M = i
      BY <2>2
    <3> HIDE DEF j
    <3>2. t[j] = new[i]
      BY <2>1, <2>2, <3>1
    <3> QED BY <3>2 DEF j
  <2> QED BY <2>1, <2>2, <2>5, <2>6 DEF M
<1> DEFINE L == Len(s)
<1>11. /\ t[L + 1] = n + 1 /\ t[L + 2] = n + 2 /\ t[L + 3] = n + 3 /\ t[L + 4] = n + 4
  <2>1. 1 \in 1..4 /\ 2 \in 1..4 /\ 3 \in 1..4 /\ 4 \in 1..4
    OBVIOUS
  <2> QED BY <1>9, <1>10, <2>1
<1>12. /\ L \in Nat /\ Len(t) = L + 4 /\ Len(r) = L
       /\ \A j \in 1..L : t[j] = r[j]
  BY <1>1, <1>8, <1>10
<1> HIDE DEF L
<1>13. /\ v \in Seq(Int \ {0}) /\ Len(v) = L + 4
       /\ v[L + 1] = (IF m0 THEN var(t[L + 1]) ELSE -var(t[L + 1]))
       /\ v[L + 2] = (IF n0 THEN var(t[L + 2]) ELSE -var(t[L + 2]))
       /\ v[L + 3] = (IF m1 THEN var(t[L + 3]) ELSE -var(t[L + 3]))
       /\ v[L + 4] = (IF n1 THEN var(t[L + 4]) ELSE -var(t[L + 4]))
       /\ \A j \in 1..L : v[j] = t[j]
  <2>1. u = pairSigned(t, L + 1, m0, n0) /\ v = pairSigned(u, L + 3, m1, n1)
    BY <1>4, <1>5 DEF L
  <2>2. m0 \in BOOLEAN /\ n0 \in BOOLEAN /\ m1 \in BOOLEAN /\ n1 \in BOOLEAN
    BY <1>2
  <2>3. t \in Seq(Int \ {0}) /\ L \in Nat /\ Len(t) = L + 4
    BY <1>10, <1>12
  <2>4. AreSigned(pairSigned(pairSigned(t, L + 1, m0, n0), L + 3, m1, n1), t, L, m0, n0, m1, n1)
    BY <2>2, <2>3, TwoPairs
  <2>5. AreSigned(v, t, L, m0, n0, m1, n1)
    BY <2>1, <2>4, Zenon
  <2> QED BY <2>5 DEF AreSigned
<1>15. ASSUME NEW j \in 1..L PROVE v[j] = IF j = k \/ j = k + 1 THEN -var(s[j]) ELSE s[j]
  <2>1. v[j] = r[j]
    BY <1>12, <1>13
  <2> QED BY <1>8, <2>1 DEF L
<1>16. /\ v[L + 1] = (IF m0 THEN n + 1 ELSE -(n + 1)) /\ v[L + 2] = (IF n0 THEN n + 2 ELSE -(n + 2))
       /\ v[L + 3] = (IF m1 THEN n + 3 ELSE -(n + 3)) /\ v[L + 4] = (IF n1 THEN n + 4 ELSE -(n + 4))
  <2>1. /\ var(t[L + 1]) = n + 1 /\ var(t[L + 2]) = n + 2 /\ var(t[L + 3]) = n + 3 /\ var(t[L + 4]) = n + 4
    BY <1>11 DEF var
  <2> QED BY <1>13, <2>1
<1>17. ASSUME NEW i \in 1..4 PROVE v[L + i] = IF SplitSign(majority, i) THEN n + i ELSE -(n + i)
  <2>1. /\ SplitSign(majority, 1) = m0 /\ SplitSign(majority, 2) = n0
        /\ SplitSign(majority, 3) = m1 /\ SplitSign(majority, 4) = n1
    BY <1>7 DEF SplitSign
  <2>2. i = 1 \/ i = 2 \/ i = 3 \/ i = 4
    OBVIOUS
  <2> QED BY <1>16, <2>1, <2>2
<1> QED BY <1>6, <1>13, <1>15, <1>17 DEF L, Extended

--------------------------------------------------------------------------------
\* A leaf that is split.
LEMMA ChildFacts ==
    ASSUME NEW leaf, IsCube(leaf, Variables), NEW x \in Variables, x \notin DOMAIN leaf, NEW b \in BOOLEAN
    PROVE  /\ IsCube(childOf(leaf, x, b), Variables)
           /\ DOMAIN childOf(leaf, x, b) = DOMAIN leaf \cup {x}
           /\ childOf(leaf, x, b)[x] = b
           /\ \A a : Agrees(childOf(leaf, x, b), a) <=> Agrees(leaf, a) /\ a[x] = b
<1> DEFINE c == childOf(leaf, x, b)
<1>1. c = [v \in DOMAIN leaf \cup {x} |-> IF v \in DOMAIN leaf THEN leaf[v] ELSE b]
  BY DEF childOf, Merge
<1>2. DOMAIN c = DOMAIN leaf \cup {x} /\ c[x] = b /\ \A v \in DOMAIN leaf : c[v] = leaf[v]
  BY <1>1
<1>3. IsCube(c, Variables)
  BY <1>1 DEF IsCube
<1> HIDE DEF c
<1>4. \A a : Agrees(c, a) <=> Agrees(leaf, a) /\ a[x] = b
  BY <1>2 DEF Agrees
<1> QED BY <1>2, <1>3, <1>4 DEF c

LEMMA PartitionSplit ==
    ASSUME NEW leaves, IsPartition(leaves), NEW leaf \in leaves, IsCube(leaf, Variables),
           NEW x \in Variables, x \notin DOMAIN leaf
    PROVE  /\ \A b \in BOOLEAN : childOf(leaf, x, b) \notin leaves
           /\ IsPartition((leaves \ {leaf}) \cup {childOf(leaf, x, b) : b \in BOOLEAN})
<1> DEFINE child(b) == childOf(leaf, x, b)
<1>1. ASSUME NEW b \in BOOLEAN
      PROVE  /\ x \in DOMAIN child(b) /\ child(b)[x] = b
             /\ \A a : Agrees(child(b), a) <=> Agrees(leaf, a) /\ a[x] = b
             /\ \E a \in Valuations : Agrees(child(b), a)
  <2>1. /\ IsCube(child(b), Variables) /\ x \in DOMAIN child(b) /\ child(b)[x] = b
        /\ \A a : Agrees(child(b), a) <=> Agrees(leaf, a) /\ a[x] = b
    <3>1. /\ IsCube(childOf(leaf, x, b), Variables) /\ childOf(leaf, x, b)[x] = b
          /\ DOMAIN childOf(leaf, x, b) = DOMAIN leaf \cup {x}
          /\ \A a : Agrees(childOf(leaf, x, b), a) <=> Agrees(leaf, a) /\ a[x] = b
      <4> HIDE DEF child
      <4> QED BY ChildFacts
    <3>2. x \in DOMAIN leaf \cup {x}
      OBVIOUS
    <3> QED BY <3>1, <3>2, Zenon
  <2> HIDE DEF child
  <2> DEFINE a == [n \in Nat |-> IF n \in DOMAIN child(b) THEN child(b)[n] ELSE TRUE]
  <2>2. a \in Valuations
    BY <2>1 DEF Valuations, IsCube
  <2>3. Variables \subseteq Nat
    BY NumberOfFacts
  <2>4. Agrees(child(b), a)
    BY <2>1, <2>3 DEF Agrees, IsCube
  <2> HIDE DEF a
  <2> QED BY <2>1, <2>2, <2>4
<1>2. {childOf(leaf, x, b) : b \in BOOLEAN} = {child(TRUE), child(FALSE)}
  OBVIOUS
<1> HIDE DEF child
<1>3. \A a \in Valuations : a[x] \in BOOLEAN
  BY NumberOfFacts DEF Valuations
<1>4. ASSUME NEW b \in BOOLEAN PROVE child(b) \notin leaves
  <2> SUFFICES ASSUME child(b) \in leaves PROVE FALSE
    OBVIOUS
  <2>1. PICK a \in Valuations : Agrees(child(b), a)
    BY <1>1
  <2>2. Agrees(leaf, a)
    BY <1>1, <2>1
  <2>3. child(b) = leaf
    BY <2>1, <2>2 DEF IsPartition
  <2> QED BY <1>1, <2>3
<1>5. ASSUME NEW a \in Valuations
      PROVE  \E c \in (leaves \ {leaf}) \cup {child(TRUE), child(FALSE)} :
                /\ Agrees(c, a)
                /\ \A d \in (leaves \ {leaf}) \cup {child(TRUE), child(FALSE)} : Agrees(d, a) => d = c
  <2>1. PICK c \in leaves : Agrees(c, a) /\ \A d \in leaves : Agrees(d, a) => d = c
    BY DEF IsPartition
  <2>2. CASE c # leaf
    <3>1. ~Agrees(leaf, a)
      BY <2>1, <2>2
    <3>2. ~Agrees(child(TRUE), a) /\ ~Agrees(child(FALSE), a)
      BY <1>1, <3>1
    <3> QED BY <2>1, <2>2, <3>2
  <2>3. CASE c = leaf /\ a[x] = TRUE
    <3>1. Agrees(child(TRUE), a) /\ ~Agrees(child(FALSE), a)
      BY <1>1, <2>1, <2>3
    <3> QED BY <2>1, <2>3, <3>1
  <2>4. CASE c = leaf /\ a[x] = FALSE
    <3>1. Agrees(child(FALSE), a) /\ ~Agrees(child(TRUE), a)
      BY <1>1, <2>1, <2>4
    <3> QED BY <2>1, <2>4, <3>1
  <2> QED BY <1>3, <2>2, <2>3, <2>4
<1>6. IsPartition((leaves \ {leaf}) \cup {child(TRUE), child(FALSE)})
  BY <1>5 DEF IsPartition
<1> QED BY <1>2, <1>4, <1>6 DEF child

\* The clauses of the two leaves below leaf.
childNumber(a, b) == (IF a THEN 2 ELSE 0) + (IF b THEN 1 ELSE 2)
childClause(e, leaf, x, a, b) ==
    pathClause(childOf(leaf, x, a)) \cup {-(last_variable + childNumber(a, b)), literal(e, b)}
splitClauses(e, leaf, x) == {childClause(e, leaf, x, a, b) : a \in BOOLEAN, b \in BOOLEAN}

\* The leaf goes, its two children come.
IsSplit(e, leaf, x, majority) ==
    /\ leaf \in DOMAIN current(e) /\ x \notin DOMAIN leaf
    /\ undefined' = undefined /\ treeActive(e)'
    /\ default_selectors' = extendedBy(default_selectors, spot(e, leaf), last_variable, majority)
    /\ validity_check_assumptions' = extendedBy(validity_check_assumptions,
                                        current(e)[leaf].assumptions, last_variable, majority)
    /\ \A b \in BOOLEAN : childOf(leaf, x, b) \notin DOMAIN current(e)
    /\ DOMAIN current(e)' = (DOMAIN current(e) \ {leaf}) \cup {childOf(leaf, x, b) : b \in BOOLEAN}
    /\ \A c \in DOMAIN current(e) \ {leaf} : current(e)'[c] = current(e)[c]
    /\ \A b \in BOOLEAN : current(e)'[childOf(leaf, x, b)] = nextPlace(IF b THEN 3 ELSE 1)
    /\ \A d \in undefined \ {e} : current(d)' = current(d) /\ (treeActive(d)' <=> treeActive(d))

LEMMA SplitCurrent ==
    ASSUME PlacesInv, UNCHANGED definitions, NEW e \in undefined, NEW leaf, NEW x \in Variables,
           NEW majority, SplitLeaf(e, leaf, x, majority)
    PROVE  IsSplit(e, leaf, x, majority)
<1> DEFINE tree == default_trees[e]
           children == {childOf(leaf, x, b) : b \in BOOLEAN}
           O == DOMAIN current(e) \ {leaf}
<1>1. /\ treeIsAvailable(e) /\ x \notin DOMAIN leaf
      /\ IF treeActive(e) THEN leaf \in DOMAIN tree ELSE leaf = Whole
  BY DEF SplitLeaf, Whole
<1>2. leaf \in DOMAIN current(e)
  BY <1>1 DEF current
<1>3. current(e)[leaf] = IF treeActive(e) THEN tree[leaf] ELSE fixed_defaults[e]
  BY <1>1 DEF current
<1>4. /\ default_selectors' = extendedBy(default_selectors, spot(e, leaf), last_variable, majority)
      /\ validity_check_assumptions' = extendedBy(validity_check_assumptions,
                                          current(e)[leaf].assumptions, last_variable, majority)
  BY <1>3 DEF SplitLeaf, extendedBy, spot, selectorPosition
<1>5. \A b \in BOOLEAN : childOf(leaf, x, b) \notin DOMAIN current(e)
  <2>1. IsPartition(DOMAIN current(e)) /\ IsCube(leaf, Variables)
    BY <1>2 DEF PlacesInv
  <2> QED BY <1>1, <1>2, <2>1, PartitionSplit
<1>6. DOMAIN tree \ {leaf} = O /\ DOMAIN tree \subseteq DOMAIN current(e)
      /\ \A c \in DOMAIN tree : tree[c] = current(e)[c]
  BY <1>1 DEF current, treeActive
<1>7. default_trees'[e] = [c \in O \cup children |->
                              IF c \in DOMAIN tree THEN tree[c] ELSE nextPlace(IF c[x] THEN 3 ELSE 1)]
  <2>1. default_trees' = [default_trees EXCEPT ![e] =
           [c \in (DOMAIN @ \ {leaf}) \cup {childOf(leaf, x, b) : b \in BOOLEAN} |->
                  IF c \in DOMAIN @ THEN @[c] ELSE nextPlace(IF c[x] THEN 3 ELSE 1)]]
    BY DEF SplitLeaf
  <2>2. e \in DOMAIN default_trees
    BY <1>1 DEF treeIsAvailable
  <2> HIDE DEF O
  <2> QED BY <1>6, <2>1, <2>2
<1>8. DOMAIN default_trees' = DOMAIN default_trees
      /\ \A d \in DOMAIN default_trees \ {e} : default_trees'[d] = default_trees[d]
  BY DEF SplitLeaf
<1>9. treeActive(e)'
  <2>1. childOf(leaf, x, TRUE) \in DOMAIN default_trees'[e]
    BY <1>7
  <2> QED BY <1>1, <1>8, <2>1 DEF treeActive, treeIsAvailable
<1>10. current(e)' = default_trees'[e]
  BY <1>9 DEF current
<1>11. DOMAIN current(e)' = O \cup children
  BY <1>7, <1>10
<1>12. \A c \in O : current(e)'[c] = current(e)[c]
  BY <1>6, <1>7, <1>10
<1>13. ASSUME NEW b \in BOOLEAN
       PROVE  current(e)'[childOf(leaf, x, b)] = nextPlace(IF b THEN 3 ELSE 1)
  <2> DEFINE c == childOf(leaf, x, b)
  <2>1. c \in children /\ c \notin DOMAIN tree
    BY <1>5, <1>6
  <2>2. c[x] = b
    <3>1. IsCube(leaf, Variables)
      BY <1>2 DEF PlacesInv
    <3> QED BY <1>1, <3>1, ChildFacts
  <2> HIDE DEF c
  <2> QED BY <1>7, <1>10, <2>1, <2>2 DEF c
<1>14. ASSUME NEW d \in undefined \ {e}
       PROVE  current(d)' = current(d) /\ (treeActive(d)' <=> treeActive(d))
  <2>1. treeActive(d)' <=> treeActive(d)
    BY <1>8 DEF treeActive, treeIsAvailable
  <2>2. treeActive(d) => default_trees'[d] = default_trees[d]
    BY <1>8 DEF treeActive, treeIsAvailable
  <2>3. ~treeActive(d) => d \in DOMAIN fixed_defaults
    BY DEF PlacesInv
  <2>4. fixed_defaults' = [k \in DOMAIN fixed_defaults \ {e} |-> fixed_defaults[k]]
    BY DEF SplitLeaf
  <2>5. ~treeActive(d) => fixed_defaults'[d] = fixed_defaults[d]
    BY <2>3, <2>4
  <2> QED BY <2>1, <2>2, <2>5 DEF current, Whole
<1>15. undefined' = undefined
  BY DEF undefined
<1> QED BY <1>1, <1>2, <1>4, <1>5, <1>9, <1>11, <1>12, <1>13, <1>14, <1>15 DEF IsSplit

\* Both arrays after a split: the pair at the place is negative, two pairs are new.
IsExtension(A, S, B, R, m, L, M, k, n, majority) ==
    /\ B \in Seq(Int \ {0}) /\ Len(B) = M + 4
    /\ R \in Seq(Int \ {0}) /\ Len(R) = L + 4
    /\ \A j \in 1..L : R[j] = IF j = k \/ j = k + 1 THEN -var(S[j]) ELSE S[j]
    /\ \A i \in 1..4 : R[L + i] = IF SplitSign(majority, i) THEN n + i ELSE -(n + i)
    /\ \A j \in 1..M : var(B[j]) = var(A[j]) /\ (j <= 2 * m => B[j] = A[j])
    /\ \A i \in 1..4 : var(B[M + i]) = n + i
    /\ \A j \in 1..L + 4 : B[M - L + j] = R[j]

LEMMA ExtendedAt ==
    ASSUME NEW s \in Seq(Int \ {0}), NEW len, len = Len(s), NEW k \in 1..len, k + 1 \in 1..len,
           NEW n \in Nat, NEW majority \in [BOOLEAN -> BOOLEAN]
    PROVE  Extended(extendedBy(s, k, n, majority), s, k, n, majority, len)
<1>1. k \in 1..Len(s) /\ k + 1 \in 1..Len(s)
  OBVIOUS
<1>2. Extended(extendedBy(s, k, n, majority), s, k, n, majority, Len(s))
  BY <1>1, ExtendedFacts
<1> QED BY <1>2

\* The number of a literal is the one it was made from.
LEMMA SignedNumber ==
    ASSUME NEW n \in Nat, NEW i \in 1..4, NEW z, z = n + i \/ z = -(n + i)
    PROVE  var(z) = n + i
  BY DEF var

LEMMA BothExtended ==
    ASSUME NEW A \in Seq(Int \ {0}), NEW S \in Seq(Int \ {0}), NEW m \in Nat, NEW L \in Nat,
           NEW M \in Nat, Len(S) = L, Len(A) = M, 2 * m + L <= M,
           \A k \in 1..L : A[M - L + k] = S[k], NEW k0 \in 1..L, k0 + 1 \in 1..L,
           NEW n \in Nat, NEW majority \in [BOOLEAN -> BOOLEAN]
    PROVE  IsExtension(A, S, extendedBy(A, M - L + k0, n, majority),
                       extendedBy(S, k0, n, majority), m, L, M, k0, n, majority)
<1> DEFINE q == M - L + k0
           B == extendedBy(A, q, n, majority)
           R == extendedBy(S, k0, n, majority)
<1>1. q \in 1..M /\ q + 1 \in 1..M /\ 2 * m < q
  OBVIOUS
<1>2. /\ \A k \in 1..M : A[k] \in Int \ {0}
      /\ \A k \in 1..L : S[k] \in Int \ {0}
  OBVIOUS
<1> HIDE DEF q
<1>3. Extended(R, S, k0, n, majority, L) /\ Extended(B, A, q, n, majority, M)
  BY <1>1, ExtendedAt
<1>4. /\ R \in Seq(Int \ {0}) /\ Len(R) = L + 4
      /\ \A j \in 1..L : R[j] = IF j = k0 \/ j = k0 + 1 THEN -var(S[j]) ELSE S[j]
      /\ \A i \in 1..4 : R[L + i] = IF SplitSign(majority, i) THEN n + i ELSE -(n + i)
  BY <1>3 DEF Extended
<1>5. /\ B \in Seq(Int \ {0}) /\ Len(B) = M + 4
      /\ \A j \in 1..M : B[j] = IF j = q \/ j = q + 1 THEN -var(A[j]) ELSE A[j]
      /\ \A i \in 1..4 : B[M + i] = IF SplitSign(majority, i) THEN n + i ELSE -(n + i)
  BY <1>3 DEF Extended
<1> HIDE DEF B, R
<1>6. \A k \in Int \ {0} : var(-var(k)) = var(k)
  BY DEF var
<1>7. \A j \in 1..M : var(B[j]) = var(A[j]) /\ (j <= 2 * m => B[j] = A[j])
  <2> SUFFICES ASSUME NEW j \in 1..M PROVE var(B[j]) = var(A[j]) /\ (j <= 2 * m => B[j] = A[j])
    OBVIOUS
  <2>1. j <= 2 * m => j # q /\ j # q + 1
    BY <1>1
  <2>2. A[j] \in Int \ {0}
    BY <1>2
  <2>3. B[j] = IF j = q \/ j = q + 1 THEN -var(A[j]) ELSE A[j]
    BY <1>5
  <2> QED BY <1>6, <2>1, <2>2, <2>3
<1>8. ASSUME NEW i \in 1..4 PROVE var(B[M + i]) = n + i
  <2>1. B[M + i] = n + i \/ B[M + i] = -(n + i)
    BY <1>5
  <2> DEFINE z == B[M + i]
  <2> HIDE DEF z
  <2>2. var(z) = n + i
    BY <2>1, SignedNumber DEF z
  <2> QED BY <2>2 DEF z
<1>9. \A j \in 1..L + 4 : B[M - L + j] = R[j]
  <2> SUFFICES ASSUME NEW j \in 1..L + 4 PROVE B[M - L + j] = R[j]
    OBVIOUS
  <2>1. CASE j \in 1..L
    <3> DEFINE p == M - L + j
    <3>1. p \in 1..M /\ (p = q <=> j = k0) /\ (p = q + 1 <=> j = k0 + 1)
      BY <2>1 DEF q
    <3>2. A[p] = S[j]
      BY <2>1
    <3> HIDE DEF p
    <3>4. B[p] = IF p = q \/ p = q + 1 THEN -var(A[p]) ELSE A[p]
      BY <1>5, <3>1
    <3>5. R[j] = IF j = k0 \/ j = k0 + 1 THEN -var(S[j]) ELSE S[j]
      BY <1>4, <2>1
    <3>3. B[p] = R[j]
      BY <3>1, <3>2, <3>4, <3>5
    <3> QED BY <3>3 DEF p
  <2>2. CASE j \notin 1..L
    <3> DEFINE i == j - L
               p == M + i
    <3>1. i \in 1..4 /\ j = L + i /\ M - L + j = p
      BY <2>2
    <3>2. R[L + i] = B[M + i]
      <4> HIDE DEF i
      <4> QED BY <1>4, <1>5, <3>1
    <3> HIDE DEF i
    <3> QED BY <3>1, <3>2
  <2> QED BY <2>1, <2>2
<1> QED BY <1>4, <1>5, <1>7, <1>8, <1>9 DEF IsExtension, B, R, q

\* The arrays after a split.
LEMMA SplitArrays ==
    ASSUME ArrayInv, SuffixInv, PlacesInv, last_variable \in Nat, UNCHANGED definitions,
           NEW e \in undefined, NEW leaf, NEW x \in Variables, NEW majority \in [BOOLEAN -> BOOLEAN],
           SplitLeaf(e, leaf, x, majority)
    PROVE  /\ IsExtension(validity_check_assumptions, default_selectors,
                          validity_check_assumptions', default_selectors',
                          Cardinality(Existentials), Len(default_selectors),
                          Len(validity_check_assumptions), spot(e, leaf), last_variable, majority)
           /\ spot(e, leaf) \in 1..Len(default_selectors)
           /\ spot(e, leaf) + 1 \in 1..Len(default_selectors)
<1>1. /\ leaf \in DOMAIN current(e)
      /\ default_selectors' = extendedBy(default_selectors, spot(e, leaf), last_variable, majority)
      /\ validity_check_assumptions' = extendedBy(validity_check_assumptions,
                                          current(e)[leaf].assumptions, last_variable, majority)
  <2>1. IsSplit(e, leaf, x, majority)
    BY SplitCurrent
  <2> QED BY <2>1 DEF IsSplit
<1>2. IsPlace(current(e)[leaf])
  BY <1>1 DEF PlacesInv
<1> DEFINE A == validity_check_assumptions
           S == default_selectors
           k0 == spot(e, leaf)
           m == Cardinality(Existentials)
<1>3. /\ A \in Seq(Int \ {0}) /\ S \in Seq(Int \ {0}) /\ m \in Nat /\ Len(S) \in Nat /\ Len(A) \in Nat
      /\ 2 * m + Len(S) <= Len(A)
      /\ \A k \in 1..Len(S) : A[Len(A) - Len(S) + k] = S[k]
  BY SuffixFacts, ArrayPlaces, RankFacts DEF SuffixInv, ArrayInv
<1>4. /\ k0 \in 1..Len(S) /\ k0 + 1 \in 1..Len(S)
      /\ current(e)[leaf].assumptions = Len(A) - Len(S) + k0
  BY <1>2 DEF IsPlace, spot
<1>5. A' = extendedBy(A, Len(A) - Len(S) + k0, last_variable, majority)
  BY <1>1, <1>4
<1>6. S' = extendedBy(S, k0, last_variable, majority)
  BY <1>1
<1> DEFINE B == A'
           R == S'
           L == Len(S)
           M == Len(A)
<1>7. /\ A \in Seq(Int \ {0}) /\ S \in Seq(Int \ {0}) /\ m \in Nat /\ L \in Nat /\ M \in Nat
      /\ 2 * m + L <= M /\ \A k \in 1..L : A[M - L + k] = S[k]
      /\ k0 \in 1..L /\ k0 + 1 \in 1..L
      /\ B = extendedBy(A, M - L + k0, last_variable, majority)
      /\ R = extendedBy(S, k0, last_variable, majority)
      /\ Len(S) = L /\ Len(A) = M
  BY <1>3, <1>4, <1>5, <1>6
<1> HIDE DEF A, S, B, R, L, M, k0, m
<1>8. IsExtension(A, S, B, R, m, L, M, k0, last_variable, majority)
  BY <1>7, BothExtended
<1> QED BY <1>7, <1>8 DEF A, S, B, R, L, M, k0, m

\* The other rules stay where they are.
OtherPlace(d, c, e, leaf) == c \in DOMAIN current(d) /\ (d # e \/ c # leaf)

IsKeptPlace(d, c, e, leaf) ==
    /\ c \in DOMAIN current(d)' /\ current(d)'[c] = current(d)[c]
    /\ spot(d, c)' = spot(d, c)
    /\ default_selectors'[spot(d, c)] = default_selectors[spot(d, c)]
    /\ default_selectors'[spot(d, c) + 1] = default_selectors[spot(d, c) + 1]
    /\ IsPlace(current(d)[c]) /\ IsPlace(current(d)[c])'
    /\ spot(d, c) \in 1..Len(default_selectors) /\ spot(d, c) + 1 \in 1..Len(default_selectors)
    /\ spot(d, c) # spot(e, leaf) /\ spot(d, c) # spot(e, leaf) + 1
    /\ spot(d, c) + 1 # spot(e, leaf)

LEMMA SplitOther ==
    ASSUME ArrayInv, SuffixInv, PlacesInv, last_variable \in Nat, UNCHANGED definitions,
           NEW e \in undefined, NEW leaf, NEW x \in Variables, NEW majority \in [BOOLEAN -> BOOLEAN],
           SplitLeaf(e, leaf, x, majority),
           NEW d \in undefined, NEW c, OtherPlace(d, c, e, leaf)
    PROVE  IsKeptPlace(d, c, e, leaf)
<1> DEFINE A == validity_check_assumptions
           S == default_selectors
           k == spot(d, c)
           k0 == spot(e, leaf)
           L == Len(S)
           M == Len(A)
           m == Cardinality(Existentials)
<1>1. /\ c \in DOMAIN current(d)' /\ current(d)'[c] = current(d)[c] /\ leaf \in DOMAIN current(e)
  <2>1. IsSplit(e, leaf, x, majority)
    BY SplitCurrent
  <2> QED BY <2>1 DEF IsSplit, OtherPlace
<1>2. IsPlace(current(d)[c]) /\ Distant(k, k0)
  BY <1>1 DEF PlacesInv, OtherPlace
<1>3. /\ k \in 1..L /\ k + 1 \in 1..L /\ current(d)[c].assumptions = M - L + k
      /\ (S[k] > 0) <=> ~(S[k + 1] > 0)
  BY <1>2 DEF IsPlace, spot
<1>4. /\ IsExtension(A, S, A', S', m, L, M, k0, last_variable, majority)
      /\ k0 \in 1..L /\ L \in Nat /\ M \in Nat
  BY SplitArrays, SuffixFacts, ArrayPlaces
<1>5. spot(d, c)' = k
  BY <1>1 DEF spot
<1> DEFINE R == S'
           B == A'
<1>6. spot(d, c)' = k
  BY <1>5
<1>7. /\ current(d)'[c].selectors = k /\ current(d)'[c].assumptions = M - L + k
  BY <1>1, <1>3 DEF spot
<1> HIDE DEF k, k0, L, M, m, A, S, B, R
<1>8. k # k0 /\ k # k0 + 1 /\ k + 1 # k0 /\ k + 1 # k0 + 1
  BY <1>2, <1>3, <1>4 DEF Distant
<1>9. /\ Len(B) = M + 4 /\ Len(R) = L + 4
      /\ \A j \in 1..L : R[j] = IF j = k0 \/ j = k0 + 1 THEN -var(S[j]) ELSE S[j]
  BY <1>4 DEF IsExtension, B, R
<1>10. R[k] = S[k] /\ R[k + 1] = S[k + 1]
  BY <1>3, <1>8, <1>9
<1>11. /\ k \in 1..Len(R) /\ k + 1 \in 1..Len(R) /\ M - L + k = Len(B) - Len(R) + k
       /\ (R[k] > 0) <=> ~(R[k + 1] > 0)
  BY <1>3, <1>4, <1>9, <1>10
<1>12. IsPlace(current(d)[c])'
  BY <1>7, <1>11 DEF IsPlace, A, S, B, R
<1> QED BY <1>1, <1>2, <1>3, <1>5, <1>8, <1>10, <1>12 DEF k, k0, L, S, R, IsKeptPlace

\* The new ones are at the end.
IsNewPlace(e, leaf, x, a) ==
    /\ childOf(leaf, x, a) \in DOMAIN current(e)'
    /\ childOf(leaf, x, a) \notin DOMAIN current(e)
    /\ IsCube(childOf(leaf, x, a), Variables)
    /\ IsPlace(current(e)[childOf(leaf, x, a)])'
    /\ spot(e, childOf(leaf, x, a))' = Len(default_selectors) + (IF a THEN 3 ELSE 1)
    /\ \A b \in BOOLEAN :
          selectorOf(e, childOf(leaf, x, a), b)' = last_variable + childNumber(a, b)

LEMMA SplitNew ==
    ASSUME ArrayInv, SuffixInv, PlacesInv, last_variable \in Nat, UNCHANGED definitions,
           NEW e \in undefined, NEW leaf, NEW x \in Variables, NEW majority \in [BOOLEAN -> BOOLEAN],
           SplitLeaf(e, leaf, x, majority), NEW a \in BOOLEAN
    PROVE  IsNewPlace(e, leaf, x, a)
<1> DEFINE A == validity_check_assumptions
           S == default_selectors
           c == childOf(leaf, x, a)
           L == Len(S)
           M == Len(A)
           m == Cardinality(Existentials)
           k == L + (IF a THEN 3 ELSE 1)
           p == M + (IF a THEN 3 ELSE 1)
           R == S'
           B == A'
<1>1. /\ leaf \in DOMAIN current(e) /\ x \notin DOMAIN leaf
      /\ c \in DOMAIN current(e)' /\ c \notin DOMAIN current(e)
      /\ current(e)'[c] = nextPlace(IF a THEN 3 ELSE 1)
  <2>1. IsSplit(e, leaf, x, majority)
    BY SplitCurrent
  <2> QED BY <2>1 DEF IsSplit
<1>2. IsCube(leaf, Variables)
  BY <1>1 DEF PlacesInv
<1>3. IsCube(c, Variables)
  BY <1>1, <1>2, ChildFacts
<1>4. /\ current(e)'[c].selectors = k /\ current(e)'[c].assumptions = p /\ spot(e, c)' = k
  BY <1>1 DEF nextPlace, spot
<1>5. /\ IsExtension(A, S, A', S', m, L, M, spot(e, leaf), last_variable, majority)
      /\ L \in Nat /\ M \in Nat
  BY SplitArrays, SuffixFacts, ArrayPlaces
<1>6. \A b \in BOOLEAN : selectorOf(e, c, b)' = var(R[IF b THEN k ELSE k + 1])
  BY <1>4 DEF selectorOf
<1> HIDE DEF L, M, m, A, S, B, R, c
<1>7. /\ Len(B) = M + 4 /\ Len(R) = L + 4
      /\ \A i \in 1..4 : R[L + i] = IF SplitSign(majority, i) THEN last_variable + i
                                                              ELSE -(last_variable + i)
  BY <1>5 DEF IsExtension, B, R
<1> DEFINE p0 == majority[FALSE]
           n0 == ~majority[FALSE]
           p1 == majority[TRUE]
           n1 == ~majority[TRUE]
<1>0. p0 \in BOOLEAN /\ n0 = ~p0 /\ p1 \in BOOLEAN /\ n1 = ~p1
  OBVIOUS
<1> HIDE DEF p0, n0, p1, n1
<1>8. /\ R[L + 1] = (IF p0 THEN last_variable + 1 ELSE -(last_variable + 1))
      /\ R[L + 2] = (IF n0 THEN last_variable + 2 ELSE -(last_variable + 2))
      /\ R[L + 3] = (IF p1 THEN last_variable + 3 ELSE -(last_variable + 3))
      /\ R[L + 4] = (IF n1 THEN last_variable + 4 ELSE -(last_variable + 4))
  <2>1. /\ SplitSign(majority, 1) = p0 /\ SplitSign(majority, 2) = n0
        /\ SplitSign(majority, 3) = p1 /\ SplitSign(majority, 4) = n1
    BY DEF SplitSign, p0, p1, n0, n1
  <2>2. 1 \in 1..4 /\ 2 \in 1..4 /\ 3 \in 1..4 /\ 4 \in 1..4
    OBVIOUS
  <2> QED BY <1>7, <2>1, <2>2
<1>18. /\ (R[L + 1] > 0 <=> p0) /\ (R[L + 2] > 0 <=> n0)
       /\ (R[L + 3] > 0 <=> p1) /\ (R[L + 4] > 0 <=> n1)
  <2>1. \A n \in Nat, i \in 1..4 : n + i > 0 /\ ~(-(n + i) > 0)
    OBVIOUS
  <2>2. 1 \in 1..4 /\ 2 \in 1..4 /\ 3 \in 1..4 /\ 4 \in 1..4
    OBVIOUS
  <2>3. R[L + 1] > 0 <=> p0
    BY <1>0, <1>8, <2>1, <2>2
  <2>4. R[L + 2] > 0 <=> n0
    BY <1>0, <1>8, <2>1, <2>2
  <2>5. R[L + 3] > 0 <=> p1
    BY <1>0, <1>8, <2>1, <2>2
  <2>6. R[L + 4] > 0 <=> n1
    BY <1>0, <1>8, <2>1, <2>2
  <2> QED BY <2>3, <2>4, <2>5, <2>6
<1>9. /\ k \in 1..Len(R) /\ k + 1 \in 1..Len(R) /\ p = Len(B) - Len(R) + k
  BY <1>5, <1>7
<1>10. (R[k] > 0) <=> ~(R[k + 1] > 0)
  <2>1. CASE a
    <3>1. k = L + 3 /\ k + 1 = L + 4
      BY <1>5, <2>1
    <3> HIDE DEF k
    <3> QED BY <1>0, <1>18, <3>1
  <2>2. CASE ~a
    <3>1. k = L + 1 /\ k + 1 = L + 2
      BY <1>5, <2>2
    <3> HIDE DEF k
    <3> QED BY <1>0, <1>18, <3>1
  <2> QED BY <2>1, <2>2
<1>11. IsPlace(current(e)[c])'
  BY <1>4, <1>9, <1>10 DEF IsPlace, A, S, B, R
<1>12. ASSUME NEW b \in BOOLEAN PROVE selectorOf(e, c, b)' = last_variable + childNumber(a, b)
  <2> DEFINE i == childNumber(a, b)
             j == IF b THEN k ELSE k + 1
  <2>1. i \in 1..4 /\ j = L + i
    BY <1>5 DEF childNumber
  <2>2. selectorOf(e, c, b)' = var(R[j])
    BY <1>6
  <2> HIDE DEF i, j
  <2>3. R[j] = last_variable + i \/ R[j] = -(last_variable + i)
    BY <1>7, <2>1
  <2>4. var(R[j]) = last_variable + i
    BY <2>1, <2>3 DEF var
  <2> QED BY <2>2, <2>4 DEF i
<1> QED BY <1>1, <1>3, <1>4, <1>11, <1>12 DEF c, L, S, IsNewPlace

LEMMA SplitPlaces ==
    ASSUME ArrayInv, SuffixInv, PlacesInv, last_variable \in Nat, UNCHANGED definitions,
           NEW e \in undefined, NEW leaf, NEW x \in Variables, NEW majority \in [BOOLEAN -> BOOLEAN],
           SplitLeaf(e, leaf, x, majority)
    PROVE  SuffixInv' /\ PlacesInv'
<1> DEFINE A == validity_check_assumptions
           S == default_selectors
           L == Len(S)
           M == Len(A)
           m == Cardinality(Existentials)
           child(a) == childOf(leaf, x, a)
           Other(d, c) == OtherPlace(d, c, e, leaf)
<1>1. /\ leaf \in DOMAIN current(e) /\ x \notin DOMAIN leaf
      /\ undefined' = undefined /\ treeActive(e)'
      /\ DOMAIN current(e)' = (DOMAIN current(e) \ {leaf}) \cup {child(b) : b \in BOOLEAN}
      /\ \A d \in undefined \ {e} : current(d)' = current(d) /\ (treeActive(d)' <=> treeActive(d))
  <2>1. IsSplit(e, leaf, x, majority)
    BY SplitCurrent
  <2> QED BY <2>1 DEF IsSplit
<1>2. \A d \in undefined : \A c \in DOMAIN current(d)' :
         Other(d, c) \/ (d = e /\ \E a \in BOOLEAN : c = child(a))
  BY <1>1 DEF OtherPlace
<1>3. SuffixInv'
  <2>1. /\ IsExtension(A, S, A', S', m, L, M, spot(e, leaf), last_variable, majority)
        /\ L \in Nat /\ M \in Nat /\ m \in Nat /\ 2 * m + L <= M
    BY SplitArrays, SuffixFacts, ArrayPlaces, RankFacts DEF SuffixInv
  <2> DEFINE R == S'
             B == A'
  <2> HIDE DEF A, S, L, M, m, R, B
  <2>2. /\ Len(B) = M + 4 /\ Len(R) = L + 4 /\ R \in Seq(Int \ {0})
        /\ \A j \in 1..L + 4 : B[M - L + j] = R[j]
    BY <2>1 DEF IsExtension, B, R
  <2>3. 2 * m + Len(R) <= Len(B) /\ \A j \in 1..Len(R) : B[Len(B) - Len(R) + j] = R[j]
    <3>1. Len(B) - Len(R) = M - L
      BY <2>1, <2>2
    <3>2. \A j \in 1..Len(R) : B[Len(B) - Len(R) + j] = R[j]
      BY <2>2, <3>1
    <3> QED BY <2>1, <2>2, <3>2
  <2> QED BY <2>2, <2>3 DEF SuffixInv, B, R, A, S, m
<1>4. (variables_with_defaults = undefined)'
  BY <1>1 DEF PlacesInv, SplitLeaf
<1>5. (\A d \in undefined : treeActive(d) \/ d \in DOMAIN fixed_defaults)'
  <2>1. fixed_defaults' = [d \in DOMAIN fixed_defaults \ {e} |-> fixed_defaults[d]]
    BY DEF SplitLeaf
  <2>2. \A d \in undefined : treeActive(d)' \/ d \in DOMAIN fixed_defaults'
    BY <1>1, <2>1 DEF PlacesInv
  <2> QED BY <1>1, <2>2
<1>6. ASSUME NEW d \in undefined, NEW c \in DOMAIN current(d)'
      PROVE  IsPlace(current(d)[c])' /\ IsCube(c, Variables)
  <2>1. CASE Other(d, c)
    <3>1. IsPlace(current(d)[c])'
      BY <2>1, SplitOther DEF IsKeptPlace
    <3> QED BY <2>1, <3>1 DEF OtherPlace, PlacesInv
  <2>2. CASE d = e /\ \E a \in BOOLEAN : c = child(a)
    <3>1. \A a \in BOOLEAN : IsNewPlace(e, leaf, x, a)
      BY SplitNew
    <3> QED BY <2>2, <3>1 DEF IsNewPlace
  <2> QED BY <1>2, <2>1, <2>2
<1>7. ASSUME NEW d \in undefined, NEW c \in DOMAIN current(d)', NEW f \in undefined,
             NEW b \in DOMAIN current(f)', d # f \/ c # b
      PROVE  Distant(spot(d, c)', spot(f, b)')
  <2>0. L \in Nat
    BY SuffixFacts
  <2>1. \A g \in undefined : \A h : Other(g, h) => spot(g, h)' = spot(g, h) /\ spot(g, h) \in 1..L
                                                 /\ spot(g, h) + 1 \in 1..L
    <3>1. \A g \in undefined : \A h : Other(g, h) => IsKeptPlace(g, h, e, leaf)
      BY SplitOther
    <3> QED BY <3>1 DEF IsKeptPlace
  <2>2. \A a \in BOOLEAN : spot(e, child(a))' = L + (IF a THEN 3 ELSE 1)
    <3>1. \A a \in BOOLEAN : IsNewPlace(e, leaf, x, a)
      BY SplitNew
    <3> QED BY <3>1 DEF IsNewPlace
  <2>3. CASE Other(d, c) /\ Other(f, b)
    <3>1. Distant(spot(d, c), spot(f, b))
      BY <1>7, <2>3 DEF OtherPlace, PlacesInv
    <3> QED BY <2>1, <2>3, <3>1
  <2>4. CASE Other(d, c) /\ ~Other(f, b)
    <3>1. spot(f, b)' = L + 3 \/ spot(f, b)' = L + 1
      BY <1>2, <2>2, <2>4
    <3>2. spot(d, c)' \in 1..L /\ spot(d, c)' + 1 \in 1..L
      BY <2>1, <2>4
    <3> HIDE DEF L
    <3> QED BY <2>0, <3>1, <3>2 DEF Distant
  <2>5. CASE ~Other(d, c) /\ Other(f, b)
    <3>1. spot(d, c)' = L + 3 \/ spot(d, c)' = L + 1
      BY <1>2, <2>2, <2>5
    <3>2. spot(f, b)' \in 1..L /\ spot(f, b)' + 1 \in 1..L
      BY <2>1, <2>5
    <3> HIDE DEF L
    <3> QED BY <2>0, <3>1, <3>2 DEF Distant
  <2>6. CASE ~Other(d, c) /\ ~Other(f, b)
    <3>1. PICK i \in BOOLEAN, j \in BOOLEAN : d = e /\ f = e /\ c = child(i) /\ b = child(j)
      BY <1>2, <2>6
    <3>2. i # j
      BY <1>7, <3>1
    <3>3. spot(d, c)' = L + (IF i THEN 3 ELSE 1) /\ spot(f, b)' = L + (IF j THEN 3 ELSE 1)
      BY <2>2, <3>1
    <3> HIDE DEF L
    <3> QED BY <2>0, <3>2, <3>3 DEF Distant
  <2> QED BY <2>3, <2>4, <2>5, <2>6
<1>8. ASSUME NEW d \in undefined PROVE IsPartition(DOMAIN current(d)')
  <2>1. CASE d = e
    <3>1. IsPartition(DOMAIN current(e)) /\ IsCube(leaf, Variables)
      BY <1>1 DEF PlacesInv
    <3>2. IsPartition((DOMAIN current(e) \ {leaf}) \cup {childOf(leaf, x, b) : b \in BOOLEAN})
      BY <1>1, <3>1, PartitionSplit
    <3> QED BY <1>1, <2>1, <3>2
  <2>2. CASE d # e
    BY <1>1, <2>2 DEF PlacesInv
  <2> QED BY <2>1, <2>2
<1>9. PlacesInv'
  <2>1. (\A d \in undefined : \A c \in DOMAIN current(d) :
            IsPlace(current(d)[c]) /\ IsCube(c, Variables))'
    BY <1>1, <1>6
  <2>2. (\A d, f \in undefined : \A c \in DOMAIN current(d) : \A b \in DOMAIN current(f) :
            d # f \/ c # b => Distant(spot(d, c), spot(f, b)))'
    <3>1. \A d, f \in undefined : \A c \in DOMAIN current(d)' : \A b \in DOMAIN current(f)' :
             d # f \/ c # b => Distant(spot(d, c)', spot(f, b)')
      BY <1>7
    <3> QED BY <1>1, <3>1 DEF Distant
  <2>3. (\A d \in undefined : IsPartition(DOMAIN current(d)))'
    BY <1>1, <1>8 DEF IsPartition
  <2> QED BY <1>4, <1>5, <2>1, <2>2, <2>3 DEF PlacesInv
<1> QED BY <1>3, <1>9

IsDisabled(e, leaf) ==
    /\ \A k : Retired(k) => Retired(k)' /\ default_selectors'[k] = default_selectors[k]
    /\ \A b \in BOOLEAN : \E k : /\ Retired(k)' /\ default_selectors'[k] < 0
                                /\ default_selectors'[k] = -selectorOf(e, leaf, b)

LEMMA SplitRetired ==
    ASSUME ArrayInv, SuffixInv, PlacesInv, last_variable \in Nat, UNCHANGED definitions,
           NEW e \in undefined, NEW leaf, NEW x \in Variables, NEW majority \in [BOOLEAN -> BOOLEAN],
           SplitLeaf(e, leaf, x, majority)
    PROVE  IsDisabled(e, leaf)
<1> DEFINE S == default_selectors
           L == Len(S)
           R == S'
           k0 == spot(e, leaf)
           Other(d, c) == OtherPlace(d, c, e, leaf)
           child(a) == childOf(leaf, x, a)
<1>1. /\ IsSplit(e, leaf, x, majority)
      /\ \A g \in undefined : \A h : Other(g, h) => IsKeptPlace(g, h, e, leaf)
      /\ \A a \in BOOLEAN : IsNewPlace(e, leaf, x, a)
  BY SplitCurrent, SplitOther, SplitNew
<1>2. /\ leaf \in DOMAIN current(e) /\ undefined' = undefined
      /\ DOMAIN current(e)' = (DOMAIN current(e) \ {leaf}) \cup {child(b) : b \in BOOLEAN}
      /\ \A d \in undefined \ {e} : current(d)' = current(d)
  BY <1>1 DEF IsSplit
<1>3. \A d \in undefined : \A c \in DOMAIN current(d)' :
         Other(d, c) \/ (d = e /\ \E a \in BOOLEAN : c = child(a))
  BY <1>2 DEF OtherPlace
<1>4. \A g \in undefined : \A h : Other(g, h) =>
         spot(g, h)' = spot(g, h) /\ spot(g, h) # k0 /\ spot(g, h) # k0 + 1 /\ spot(g, h) + 1 # k0
         /\ spot(g, h) \in 1..L
  BY <1>1 DEF IsKeptPlace
<1>5. \A a \in BOOLEAN : spot(e, child(a))' = L + (IF a THEN 3 ELSE 1)
  BY <1>1 DEF IsNewPlace
<1>6. /\ L \in Nat /\ DOMAIN S = 1..L /\ k0 \in 1..L /\ k0 + 1 \in 1..L
      /\ Len(R) = L + 4 /\ R \in Seq(Int \ {0})
      /\ \A j \in 1..L : R[j] = IF j = k0 \/ j = k0 + 1 THEN -var(S[j]) ELSE S[j]
      /\ \A j \in 1..L : S[j] \in Int \ {0}
  BY SuffixFacts, SplitArrays DEF IsExtension
<1>7. ASSUME NEW k \in 1..L,
             \A g \in undefined : \A h : Other(g, h) => k # spot(g, h) /\ k # spot(g, h) + 1
      PROVE  Retired(k)'
  <2>1. k \in DOMAIN R
    BY <1>6
  <2>2. \A a \in BOOLEAN : k # spot(e, child(a))' /\ k # spot(e, child(a))' + 1
    <3>1. ASSUME NEW a \in BOOLEAN PROVE k # spot(e, child(a))' /\ k # spot(e, child(a))' + 1
      <4> DEFINE s == spot(e, child(a))'
      <4>1. s = L + (IF a THEN 3 ELSE 1)
        BY <1>5
      <4> HIDE DEF L, s
      <4>2. k # s /\ k # s + 1
        BY <1>6, <1>7, <4>1
      <4> QED BY <4>2 DEF s
    <3> QED BY <3>1
  <2>3. \A d \in undefined : \A c \in DOMAIN current(d)' : k # spot(d, c)' /\ k # spot(d, c)' + 1
    BY <1>3, <1>4, <1>7, <2>2
  <2> QED BY <1>2, <2>1, <2>3 DEF Retired, R
<1>8. ASSUME NEW k, Retired(k) PROVE Retired(k)' /\ R[k] = S[k]
  <2>1. k \in 1..L /\ k # k0 /\ k # k0 + 1
    BY <1>2, <1>6, <1>8 DEF Retired
  <2>2. \A g \in undefined : \A h : Other(g, h) => k # spot(g, h) /\ k # spot(g, h) + 1
    BY <1>8 DEF Retired, OtherPlace
  <2> QED BY <1>6, <1>7, <2>1, <2>2
<1>9. ASSUME NEW b \in BOOLEAN, NEW k, k = IF b THEN k0 ELSE k0 + 1
      PROVE  Retired(k)' /\ R[k] = -selectorOf(e, leaf, b) /\ R[k] < 0
  <2>1. k \in 1..L /\ (k = k0 \/ k = k0 + 1)
    BY <1>6, <1>9
  <2>2. \A g \in undefined : \A h : Other(g, h) => k # spot(g, h) /\ k # spot(g, h) + 1
    <3>1. ASSUME NEW g \in undefined, NEW h, Other(g, h)
          PROVE  k # spot(g, h) /\ k # spot(g, h) + 1
      <4> DEFINE s == spot(g, h)
      <4>1. s # k0 /\ s # k0 + 1 /\ s + 1 # k0 /\ s \in 1..L
        BY <1>4, <3>1
      <4> HIDE DEF s, k0
      <4>2. k # s /\ k # s + 1
        BY <1>6, <2>1, <4>1
      <4> QED BY <4>2 DEF s
    <3> QED BY <3>1
  <2>3. Retired(k)'
    BY <1>7, <2>1, <2>2
  <2>4. R[k] = -var(S[k])
    BY <1>6, <2>1
  <2>5. selectorOf(e, leaf, b) = var(S[k])
    BY <1>9 DEF selectorOf
  <2>6. S[k] \in Int \ {0}
    BY <1>6, <2>1
  <2>7. -var(S[k]) < 0
    <3> DEFINE z == S[k]
    <3> HIDE DEF z
    <3> QED BY <2>6 DEF var, z
  <2> QED BY <2>3, <2>4, <2>5, <2>7
<1>10. ASSUME NEW b \in BOOLEAN
       PROVE  \E k : Retired(k)' /\ R[k] < 0 /\ R[k] = -selectorOf(e, leaf, b)
  <2>1. \A k : k = (IF b THEN k0 ELSE k0 + 1) =>
                  Retired(k)' /\ R[k] = -selectorOf(e, leaf, b) /\ R[k] < 0
    BY <1>9
  <2> QED BY <2>1
<1> QED BY <1>8, <1>10 DEF IsDisabled, R, S

LEMMA SplitConforms ==
    ASSUME ArrayInv, SuffixInv, PlacesInv, last_variable \in Nat, UNCHANGED definitions,
           NEW e \in undefined, NEW leaf, NEW x \in Variables, NEW majority \in [BOOLEAN -> BOOLEAN],
           SplitLeaf(e, leaf, x, majority), NEW D
    PROVE  /\ \A d \in undefined \ {e} : Conforms(d, D) => Conforms(d, D)'
           /\ Conforms(e, D) => \A E : E = D \cup splitClauses(e, leaf, x) => Conforms(e, E)'
<1> DEFINE S == default_selectors
           R == S'
           k0 == spot(e, leaf)
           Other(d, c) == OtherPlace(d, c, e, leaf)
           child(a) == childOf(leaf, x, a)
<1>1. /\ IsSplit(e, leaf, x, majority)
      /\ \A g \in undefined : \A h : Other(g, h) => IsKeptPlace(g, h, e, leaf)
      /\ \A a \in BOOLEAN : IsNewPlace(e, leaf, x, a)
  BY SplitCurrent, SplitOther, SplitNew
<1>2. /\ leaf \in DOMAIN current(e) /\ undefined' = undefined
      /\ DOMAIN current(e)' = (DOMAIN current(e) \ {leaf}) \cup {child(b) : b \in BOOLEAN}
      /\ \A d \in undefined \ {e} : current(d)' = current(d)
  BY <1>1 DEF IsSplit
<1>3. \A g \in undefined : \A h : \A b \in BOOLEAN : Other(g, h) =>
         h \in DOMAIN current(g)' /\ currentClause(g, h, b)' = currentClause(g, h, b)
  <2> SUFFICES ASSUME NEW g \in undefined, NEW h, NEW b \in BOOLEAN, Other(g, h)
               PROVE  h \in DOMAIN current(g)' /\ currentClause(g, h, b)' = currentClause(g, h, b)
    OBVIOUS
  <2>1. /\ h \in DOMAIN current(g)' /\ spot(g, h)' = spot(g, h)
        /\ R[spot(g, h)] = S[spot(g, h)] /\ R[spot(g, h) + 1] = S[spot(g, h) + 1]
    BY <1>1 DEF IsKeptPlace
  <2>2. selectorOf(g, h, b)' = selectorOf(g, h, b)
    BY <2>1 DEF selectorOf
  <2> QED BY <2>1, <2>2 DEF currentClause
<1>4. \A a, b \in BOOLEAN : /\ child(a) \in DOMAIN current(e)'
                            /\ currentClause(e, child(a), b)' = childClause(e, leaf, x, a, b)
  <2>1. \A a, b \in BOOLEAN : /\ child(a) \in DOMAIN current(e)'
                              /\ selectorOf(e, child(a), b)' = last_variable + childNumber(a, b)
    BY <1>1 DEF IsNewPlace
  <2> QED BY <2>1 DEF currentClause, childClause
<1>5. /\ \A k : Retired(k) => Retired(k)' /\ R[k] = S[k]
      /\ \A b \in BOOLEAN : \E k : Retired(k)' /\ R[k] = -selectorOf(e, leaf, b) /\ R[k] < 0
  <2>1. IsDisabled(e, leaf)
    BY SplitRetired
  <2> QED BY <2>1 DEF IsDisabled
<1>6. \A k : Retired(k)' => k \in DOMAIN R
  BY DEF Retired
<1> DEFINE Gone(C) == \E k \in DOMAIN R : Retired(k)' /\ R[k] < 0 /\ R[k] \in C
<1>7. ASSUME NEW g \in undefined, Conforms(g, D), NEW C \in D
      PROVE  Gone(C) \/ \E c \in DOMAIN current(g)', b \in BOOLEAN : C = currentClause(g, c, b)'
  <2>1. CASE \E k \in DOMAIN S : Retired(k) /\ S[k] < 0 /\ S[k] \in C
    <3>1. PICK k \in DOMAIN S : Retired(k) /\ S[k] < 0 /\ S[k] \in C
      BY <2>1
    <3>2. Retired(k)' /\ R[k] < 0 /\ R[k] \in C
      BY <1>5, <3>1
    <3>3. k \in DOMAIN R
      BY <1>6, <3>2
    <3> QED BY <3>2, <3>3
  <2>2. CASE \E c \in DOMAIN current(g), b \in BOOLEAN : C = currentClause(g, c, b)
    <3>1. PICK c \in DOMAIN current(g), b \in BOOLEAN : C = currentClause(g, c, b)
      BY <2>2
    <3>2. CASE Other(g, c)
      <4>1. c \in DOMAIN current(g)' /\ C = currentClause(g, c, b)'
        BY <1>3, <3>1, <3>2
      <4> QED BY <4>1
    <3>3. CASE g = e /\ c = leaf
      <4>1. PICK k : Retired(k)' /\ R[k] = -selectorOf(e, leaf, b) /\ R[k] < 0
        BY <1>5
      <4>2. -selectorOf(e, leaf, b) \in C
        BY <3>1, <3>3 DEF currentClause
      <4>3. R[k] \in C /\ k \in DOMAIN R
        BY <1>6, <4>1, <4>2
      <4> QED BY <4>1, <4>3
    <3> QED BY <3>2, <3>3 DEF OtherPlace
  <2> QED BY <1>7, <2>1, <2>2 DEF Conforms
<1>8. ASSUME NEW d \in undefined \ {e}, Conforms(d, D) PROVE Conforms(d, D)'
  <2>1. ASSUME NEW c \in DOMAIN current(d)', NEW b \in BOOLEAN PROVE currentClause(d, c, b)' \in D
    <3>1. Other(d, c) /\ c \in DOMAIN current(d)
      BY <1>2, <2>1 DEF OtherPlace
    <3>2. currentClause(d, c, b) \in D
      BY <1>8, <2>1, <3>1 DEF Conforms
    <3> QED BY <1>3, <3>1, <3>2
  <2>2. \A C \in D : Gone(C) \/ \E c \in DOMAIN current(d)', b \in BOOLEAN : C = currentClause(d, c, b)'
    BY <1>7, <1>8
  <2> QED BY <2>1, <2>2 DEF Conforms, R
<1>9. ASSUME Conforms(e, D), NEW E, E = D \cup splitClauses(e, leaf, x) PROVE Conforms(e, E)'
  <2>1. ASSUME NEW c \in DOMAIN current(e)', NEW b \in BOOLEAN PROVE currentClause(e, c, b)' \in E
    <3>1. Other(e, c) \/ \E a \in BOOLEAN : c = child(a)
      BY <1>2 DEF OtherPlace
    <3>2. Other(e, c) => currentClause(e, c, b)' \in D
      <4>1. Other(e, c) => currentClause(e, c, b) \in D
        BY <1>9 DEF Conforms, OtherPlace
      <4> QED BY <1>3, <4>1
    <3>3. \A a \in BOOLEAN : currentClause(e, child(a), b)' \in splitClauses(e, leaf, x)
      BY <1>4 DEF splitClauses
    <3> QED BY <1>9, <3>1, <3>2, <3>3
  <2>2. \A C \in E : Gone(C) \/ \E c \in DOMAIN current(e)', b \in BOOLEAN : C = currentClause(e, c, b)'
    <3>1. \A C \in splitClauses(e, leaf, x) :
             \E c \in DOMAIN current(e)', b \in BOOLEAN : C = currentClause(e, c, b)'
      BY <1>4 DEF splitClauses
    <3> QED BY <1>7, <1>9, <3>1
  <2> QED BY <2>1, <2>2 DEF Conforms, R
<1> QED BY <1>8, <1>9

--------------------------------------------------------------------------------
(***************************************************************************)
(* The invariant: an undefined variable's clauses encode its rules, those  *)
(* of a defined variable its definition.                                   *)
(***************************************************************************)
RulesOf(e) == {r \in forcing_clauses : var(r.literal) = e}
terminalOf(e) == -validity_check_assumptions[forcing_disjunction(e)]

Encoded(e) == \E defaults, hidden :
    /\ Encodes(e, selectors[e], validity_clauses[e], terminalOf(e), RulesOf(e), defaults, hidden)
    /\ hidden \subseteq 1..last_variable /\ hidden \cap Public = {}
    /\ \A C \in defaults : \A l \in C : var(l) <= last_variable
    /\ Conforms(e, defaults)

\* The clauses of a definition, whose selector is n + 10.
ActiveDefinition(e, f, n) ==
    guarded(validityDefinition(e, f, n + 11, n + 12, n + 13, n + 14)
               \cup {createDisjunct(-forcingTerminal(e), {n + 11}, n + 15)}, n + 10)
definedClauses(e, f, n) == initialValidityClauses(e) \cup ActiveDefinition(e, f, n)

IsDefined(e) == \E n \in Nat :
    /\ Introduced <= n /\ n + 15 <= last_variable
    /\ selectors[e] = n + 10 /\ {n + 11, n + 12, n + 13} \cap Public = {}
    /\ validity_clauses[e] = definedClauses(e, definitions[e], n)

SortsInv ==
    /\ reads \in [Existentials -> SUBSET Variables]
    /\ DOMAIN definitions \subseteq Existentials
    /\ \A e \in DOMAIN definitions :
          \E R \in SUBSET Variables : definitions[e] \in [[R -> BOOLEAN] -> BOOLEAN]
    /\ DOMAIN validity_clauses = Existentials
    /\ \A e \in Existentials : Within(validity_clauses[e], last_variable)

BeforeInv ==
    /\ forcing_clauses = {} /\ default_selectors = <<>>
    /\ \A e \in undefined : /\ selectors[e] = initialSelector(e)
                            /\ validity_clauses[e] = initialValidityClauses(e)
                            /\ validity_check_assumptions[forcing_disjunction(e)] = -forcingTerminal(e)

IsRule(r) ==
    /\ \E e \in undefined : r.literal \in {e, -e}
    /\ \A l \in r.premise : l \in Int \ {0} /\ var(l) \in Variables \cup proper_arbiters

SearchInv ==
    /\ PlacesInv /\ DOMAIN default_trees \subseteq undefined
    /\ \A r \in forcing_clauses : IsRule(r)
    /\ \A e \in undefined : Encoded(e)

RulesInv ==
    /\ ArrayInv /\ NumbersInv /\ SuffixInv /\ SortsInv
    /\ \A e \in DOMAIN definitions : IsDefined(e)
    /\ stage # "search" => BeforeInv
    /\ stage = "search" => SearchInv

--------------------------------------------------------------------------------
(***************************************************************************)
(* What a step does not touch stays encoded.                               *)
(***************************************************************************)
Grows ==
    /\ last_variable \in Nat /\ last_variable' \in Nat /\ last_variable <= last_variable'
    /\ \A n \in Public' : n \in Public \/ n \in (last_variable + 1)..last_variable'

LEMMA EncodedKept ==
    ASSUME Grows, NEW e, Encoded(e), selectors'[e] = selectors[e],
           validity_clauses'[e] = validity_clauses[e],
           validity_check_assumptions'[forcing_disjunction(e)]
              = validity_check_assumptions[forcing_disjunction(e)],
           RulesOf(e)' = RulesOf(e), \A D : Conforms(e, D) => Conforms(e, D)'
    PROVE  Encoded(e)'
<1>1. PICK D, H :
         /\ Encodes(e, selectors[e], validity_clauses[e], terminalOf(e), RulesOf(e), D, H)
         /\ H \subseteq 1..last_variable /\ H \cap Public = {}
         /\ \A C \in D : \A l \in C : var(l) <= last_variable
         /\ Conforms(e, D)
  BY DEF Encoded
<1>2. terminalOf(e)' = terminalOf(e)
  BY DEF terminalOf
<1>3. H \subseteq 1..last_variable'
  BY <1>1 DEF Grows
<1>4. H \cap Public' = {}
  BY <1>1 DEF Grows
<1>5. \A C \in D : \A l \in C : var(l) <= last_variable'
  <2>1. Encodes(e, selectors[e], validity_clauses[e], terminalOf(e), RulesOf(e), D, H)
    BY <1>1
  <2>2. \A C \in D : \A l \in C : l \in Int \ {0}
    BY <2>1 DEF Encodes, Separated, IsOuter
  <2>3. \A l \in Int \ {0} : var(l) \in Nat
    BY DEF var
  <2> QED BY <1>1, <2>2, <2>3 DEF Grows
<1>6. Encodes(e, selectors[e], validity_clauses[e], terminalOf(e), RulesOf(e), D, H)'
  BY <1>1, <1>2
<1>7. Conforms(e, D)'
  BY <1>1
<1> QED BY <1>3, <1>4, <1>5, <1>6, <1>7 DEF Encoded

LEMMA DefinedKept ==
    ASSUME Grows, NEW e, IsDefined(e), selectors'[e] = selectors[e],
           validity_clauses'[e] = validity_clauses[e], definitions'[e] = definitions[e]
    PROVE  IsDefined(e)'
<1>1. PICK n \in Nat :
         /\ Introduced <= n /\ n + 15 <= last_variable
         /\ selectors[e] = n + 10 /\ {n + 11, n + 12, n + 13} \cap Public = {}
         /\ validity_clauses[e] = definedClauses(e, definitions[e], n)
  BY DEF IsDefined
<1>2. n + 15 <= last_variable'
  BY <1>1 DEF Grows
<1>3. {n + 11, n + 12, n + 13} \cap Public' = {}
  <2>1. \A k \in {n + 11, n + 12, n + 13} : k \notin (last_variable + 1)..last_variable'
    BY <1>1 DEF Grows
  <2> QED BY <1>1, <2>1 DEF Grows
<1>4. \A m : (definedClauses(e, definitions[e], m))' = definedClauses(e, definitions[e], m)
  BY DEF definedClauses
<1>5. Introduced' = Introduced
  BY DEF Introduced
<1> QED BY <1>1, <1>2, <1>3, <1>4, <1>5 DEF IsDefined

LEMMA WithinMore ==
    ASSUME NEW cs, NEW m \in Nat, NEW n \in Nat, m <= n, Within(cs, m)
    PROVE  Within(cs, n)
<1>1. \A l \in Int \ {0} : var(l) \in Nat
  BY DEF var
<1> QED BY <1>1 DEF Within, IsLiteralUpTo

LEMMA SortsKept ==
    ASSUME SortsInv, Grows, UNCHANGED <<reads, definitions>>, DOMAIN validity_clauses' = Existentials,
           \A e \in Existentials : validity_clauses'[e] = validity_clauses[e]
                                      \/ Within(validity_clauses'[e], last_variable')
    PROVE  SortsInv'
<1>1. \A e \in Existentials : Within(validity_clauses'[e], last_variable')
  <2> SUFFICES ASSUME NEW e \in Existentials, validity_clauses'[e] = validity_clauses[e]
               PROVE  Within(validity_clauses'[e], last_variable')
    OBVIOUS
  <2>1. Within(validity_clauses[e], last_variable)
    BY DEF SortsInv
  <2> QED BY <2>1, WithinMore DEF Grows
<1>2. (\A e \in Existentials : Within(validity_clauses[e], last_variable))'
  BY <1>1
<1>3. (reads \in [Existentials -> SUBSET Variables])' /\ (DOMAIN validity_clauses = Existentials)'
  BY DEF SortsInv
<1>4. (\A e \in DOMAIN definitions :
          \E R \in SUBSET Variables : definitions[e] \in [[R -> BOOLEAN] -> BOOLEAN])'
  BY DEF SortsInv
<1>5. (DOMAIN definitions \subseteq Existentials)'
  BY DEF SortsInv
<1> QED BY <1>2, <1>3, <1>4, <1>5 DEF SortsInv

--------------------------------------------------------------------------------
(***************************************************************************)
(* Values of default rules change: the signs of two selectors, in both     *)
(* arrays.                                                                 *)
(***************************************************************************)
IsResigned(A, S, B, R, m, L, M, k) ==
    /\ B \in Seq(Int \ {0}) /\ Len(B) = M
    /\ R \in Seq(Int \ {0}) /\ Len(R) = L
    /\ \A j \in 1..L : var(R[j]) = var(S[j]) /\ (j # k /\ j # k + 1 => R[j] = S[j])
    /\ (R[k] > 0) <=> ~(R[k + 1] > 0)
    /\ \A j \in 1..M : var(B[j]) = var(A[j]) /\ (j <= 2 * m => B[j] = A[j])
    /\ \A j \in 1..L : B[M - L + j] = R[j]

LEMMA NotAbove == \A i, j, p \in Nat : i < p /\ j <= i => j # p /\ j # p + 1
OBVIOUS

\* Both arrays change in the same way at q and q + 1, k and k + 1.
LEMMA Resigned ==
    ASSUME NEW A \in Seq(Int \ {0}), NEW S \in Seq(Int \ {0}), NEW m \in Nat, NEW L \in Nat,
           NEW M \in Nat, Len(S) = L, Len(A) = M, 2 * m + L <= M,
           \A j \in 1..L : A[M - L + j] = S[j], NEW k \in 1..L, k + 1 \in 1..L,
           NEW B \in Seq(Int \ {0}), NEW R \in Seq(Int \ {0}), Len(B) = M, Len(R) = L,
           NEW q, q = M - L + k,
           \A j \in 1..L : j # k /\ j # k + 1 => R[j] = S[j],
           \A j \in 1..M : j # q /\ j # q + 1 => B[j] = A[j],
           B[q] = R[k], B[q + 1] = R[k + 1], var(R[k]) = var(S[k]), var(R[k + 1]) = var(S[k + 1]),
           (R[k] > 0) <=> ~(R[k + 1] > 0)
    PROVE  IsResigned(A, S, B, R, m, L, M, k)
<1>1. q \in 1..M /\ q + 1 \in 1..M /\ 2 * m < q /\ q + 1 = M - L + (k + 1)
  OBVIOUS
<1>2. A[q] = S[k] /\ A[q + 1] = S[k + 1]
  BY <1>1
<1>6. \A j \in 1..M : j <= 2 * m => j # q /\ j # q + 1
  <2>1. q \in Nat /\ 2 * m < q
    BY <1>1
  <2>3. 2 * m \in Nat /\ \A j \in 1..M : j \in Nat
    OBVIOUS
  <2> QED BY <2>1, <2>3, NotAbove
<1>3. \A j \in 1..L : var(R[j]) = var(S[j])
  <2> SUFFICES ASSUME NEW j \in 1..L PROVE var(R[j]) = var(S[j])
    OBVIOUS
  <2>1. CASE j = k \/ j = k + 1
    BY <2>1
  <2>2. CASE j # k /\ j # k + 1
    BY <2>2
  <2> QED BY <2>1, <2>2
<1>4. \A j \in 1..M : var(B[j]) = var(A[j]) /\ (j <= 2 * m => B[j] = A[j])
  <2> SUFFICES ASSUME NEW j \in 1..M PROVE var(B[j]) = var(A[j]) /\ (j <= 2 * m => B[j] = A[j])
    OBVIOUS
  <2>1. j <= 2 * m => j # q /\ j # q + 1
    BY <1>6
  <2>2. CASE j = q \/ j = q + 1
    BY <1>2, <2>1, <2>2
  <2>3. CASE j # q /\ j # q + 1
    BY <2>3
  <2> QED BY <2>2, <2>3
<1>5. \A j \in 1..L : B[M - L + j] = R[j]
  <2> SUFFICES ASSUME NEW j \in 1..L PROVE B[M - L + j] = R[j]
    OBVIOUS
  <2> DEFINE p == M - L + j
  <2>1. p \in 1..M /\ (p = q <=> j = k) /\ (p = q + 1 <=> j = k + 1) /\ A[p] = S[j]
    OBVIOUS
  <2> HIDE DEF p
  <2>2. B[p] = R[j]
    <3>1. CASE j = k \/ j = k + 1
      BY <2>1, <3>1
    <3>2. CASE j # k /\ j # k + 1
      BY <2>1, <3>2
    <3> QED BY <3>1, <3>2
  <2> QED BY <2>2 DEF p
<1> QED BY <1>3, <1>4, <1>5 DEF IsResigned

LEMMA PairSet ==
    ASSUME NEW A \in Seq(Int \ {0}), NEW S \in Seq(Int \ {0}), NEW m \in Nat, NEW L \in Nat,
           NEW M \in Nat, Len(S) = L, Len(A) = M, 2 * m + L <= M,
           \A j \in 1..L : A[M - L + j] = S[j], NEW k \in 1..L, k + 1 \in 1..L, NEW b \in BOOLEAN
    PROVE  IsResigned(A, S, setPair(A, M - L + k, b), setPair(S, k, b), m, L, M, k)
<1> DEFINE q == M - L + k
           c == ~b
           B == setPair(A, q, b)
           R == setPair(S, k, b)
<1>1. q \in 1..M /\ q + 1 \in 1..M /\ q + 1 = M - L + (k + 1) /\ c \in BOOLEAN
  OBVIOUS
<1>2. B = pairSigned(A, q, b, c) /\ R = pairSigned(S, k, b, c)
  BY DEF setPair, pairSigned
<1>3. \A j \in Int \ {0} : /\ (IF b THEN var(j) ELSE -var(j)) > 0 <=> b
                           /\ (IF c THEN var(j) ELSE -var(j)) > 0 <=> ~b
                           /\ var(IF b THEN var(j) ELSE -var(j)) = var(j)
                           /\ var(IF c THEN var(j) ELSE -var(j)) = var(j)
  BY DEF var
<1>4. A[q] = S[k] /\ A[q + 1] = S[k + 1] /\ S[k] \in Int \ {0} /\ S[k + 1] \in Int \ {0}
  BY <1>1
<1>5. q = M - L + k
  OBVIOUS
<1> HIDE DEF q, c, B, R
<1>6. IsSigned(B, A, M, q, b, c) /\ IsSigned(R, S, L, k, b, c)
  BY <1>1, <1>2, PairAt
<1>7. /\ B \in Seq(Int \ {0}) /\ Len(B) = M /\ R \in Seq(Int \ {0}) /\ Len(R) = L
      /\ \A j \in 1..L : j # k /\ j # k + 1 => R[j] = S[j]
      /\ \A j \in 1..M : j # q /\ j # q + 1 => B[j] = A[j]
      /\ B[q] = (IF b THEN var(A[q]) ELSE -var(A[q]))
      /\ B[q + 1] = (IF c THEN var(A[q + 1]) ELSE -var(A[q + 1]))
      /\ R[k] = (IF b THEN var(S[k]) ELSE -var(S[k]))
      /\ R[k + 1] = (IF c THEN var(S[k + 1]) ELSE -var(S[k + 1]))
  BY <1>6 DEF IsSigned
<1>8. /\ B[q] = R[k] /\ B[q + 1] = R[k + 1]
      /\ var(R[k]) = var(S[k]) /\ var(R[k + 1]) = var(S[k + 1])
      /\ (R[k] > 0) <=> ~(R[k + 1] > 0)
  BY <1>3, <1>4, <1>7
<1>9. IsResigned(A, S, B, R, m, L, M, k)
  BY <1>5, <1>7, <1>8, Resigned
<1> QED BY <1>9 DEF B, R, q

LEMMA PairToggled ==
    ASSUME NEW A \in Seq(Int \ {0}), NEW S \in Seq(Int \ {0}), NEW m \in Nat, NEW L \in Nat,
           NEW M \in Nat, Len(S) = L, Len(A) = M, 2 * m + L <= M,
           \A j \in 1..L : A[M - L + j] = S[j], NEW k \in 1..L, k + 1 \in 1..L,
           (S[k] > 0) <=> ~(S[k + 1] > 0)
    PROVE  IsResigned(A, S, togglePair(A, M - L + k), togglePair(S, k), m, L, M, k)
<1> DEFINE q == M - L + k
           B == togglePair(A, q)
           R == togglePair(S, k)
<1>1. q \in 1..M /\ q + 1 \in 1..M /\ q + 1 = M - L + (k + 1)
  OBVIOUS
<1>2. A[q] = S[k] /\ A[q + 1] = S[k + 1] /\ S[k] \in Int \ {0} /\ S[k + 1] \in Int \ {0}
  BY <1>1
<1>3. q = M - L + k
  OBVIOUS
<1> HIDE DEF q
<1>4. /\ R \in Seq(Int \ {0}) /\ Len(R) = L
      /\ \A j \in 1..L : j # k /\ j # k + 1 => R[j] = S[j]
      /\ R[k] = -S[k] /\ R[k + 1] = -S[k + 1]
  <2> DEFINE v == -S[k]
             w == -S[k + 1]
  <2>1. v \in Int \ {0} /\ w \in Int \ {0} /\ k # k + 1
    BY <1>2, SMTT(30)
  <2>2. R = [S EXCEPT ![k] = v, ![k + 1] = w]
    BY <2>1 DEF togglePair
  <2> HIDE DEF v, w, R
  <2>3. R \in Seq(Int \ {0}) /\ Len(R) = L
    BY <2>1, <2>2
  <2>4. (\A j \in 1..L : j # k /\ j # k + 1 => R[j] = S[j]) /\ R[k] = v /\ R[k + 1] = w
    <3>1. DOMAIN S = 1..L /\ k \in DOMAIN S /\ k + 1 \in DOMAIN S
      OBVIOUS
    <3> DEFINE k1 == k + 1
    <3> HIDE DEF k1
    <3>2. k \in DOMAIN S /\ k1 \in DOMAIN S /\ k # k1 /\ R = [S EXCEPT ![k] = v, ![k1] = w]
      BY <2>1, <2>2, <3>1 DEF k1
    <3>3. R[k] = v /\ R[k1] = w /\ \A j \in DOMAIN S : j # k /\ j # k1 => R[j] = S[j]
      BY <3>2
    <3> QED BY <3>1, <3>3 DEF k1
  <2> QED BY <2>3, <2>4 DEF v, w
<1>5. /\ B \in Seq(Int \ {0}) /\ Len(B) = M
      /\ \A j \in 1..M : j # q /\ j # q + 1 => B[j] = A[j]
      /\ B[q] = -A[q] /\ B[q + 1] = -A[q + 1]
  <2> DEFINE v == -A[q]
             w == -A[q + 1]
  <2>1. v \in Int \ {0} /\ w \in Int \ {0} /\ q # q + 1
    BY <1>1, <1>2, SMTT(30)
  <2>2. B = [A EXCEPT ![q] = v, ![q + 1] = w]
    BY <1>1, <2>1 DEF togglePair
  <2> HIDE DEF v, w, B
  <2>3. B \in Seq(Int \ {0}) /\ Len(B) = M
    BY <1>1, <2>1, <2>2, SMTT(30)
  <2>4. (\A j \in 1..M : j # q /\ j # q + 1 => B[j] = A[j]) /\ B[q] = v /\ B[q + 1] = w
    <3>1. DOMAIN A = 1..M /\ q \in DOMAIN A /\ q + 1 \in DOMAIN A
      BY <1>1
    <3> DEFINE q1 == q + 1
    <3> HIDE DEF q1
    <3>2. q \in DOMAIN A /\ q1 \in DOMAIN A /\ q # q1 /\ B = [A EXCEPT ![q] = v, ![q1] = w]
      BY <2>1, <2>2, <3>1 DEF q1
    <3>3. B[q] = v /\ B[q1] = w /\ \A j \in DOMAIN A : j # q /\ j # q1 => B[j] = A[j]
      BY <3>2
    <3> QED BY <3>1, <3>3 DEF q1
  <2> QED BY <2>3, <2>4 DEF v, w
<1> HIDE DEF B, R
<1>6. \A j \in Int \ {0} : var(-j) = var(j) /\ (-j > 0 <=> ~(j > 0))
  BY DEF var
<1>7. /\ B[q] = R[k] /\ B[q + 1] = R[k + 1]
      /\ var(R[k]) = var(S[k]) /\ var(R[k + 1]) = var(S[k + 1])
      /\ (R[k] > 0) <=> ~(R[k + 1] > 0)
  BY <1>2, <1>4, <1>5, <1>6
<1>8. IsResigned(A, S, B, R, m, L, M, k)
  BY <1>3, <1>4, <1>5, <1>7, Resigned
<1> QED BY <1>8 DEF B, R, q

LEMMA ResignedKeeps ==
    ASSUME RulesInv, stage = "search", UNCHANGED skolemVars,
           UNCHANGED <<default_setting, reads, last_variable, variables_with_defaults,
                       fixed_defaults, default_trees>>,
           NEW d \in undefined, NEW b \in DOMAIN current(d),
           IsResigned(validity_check_assumptions, default_selectors, validity_check_assumptions',
                      default_selectors', Cardinality(Existentials), Len(default_selectors),
                      Len(validity_check_assumptions), spot(d, b))
    PROVE  RulesInv'
<1> DEFINE A == validity_check_assumptions
           S == default_selectors
           m == Cardinality(Existentials)
           B == A'
           R == S'
<1>1. /\ B \in Seq(Int \ {0}) /\ Len(B) = Len(A)
      /\ R \in Seq(Int \ {0}) /\ Len(R) = Len(S)
      /\ \A j \in 1..Len(S) : /\ var(R[j]) = var(S[j])
                              /\ j # spot(d, b) /\ j # spot(d, b) + 1 => R[j] = S[j]
      /\ (R[spot(d, b)] > 0) <=> ~(R[spot(d, b) + 1] > 0)
      /\ \A j \in 1..Len(A) : var(B[j]) = var(A[j]) /\ (j <= 2 * m => B[j] = A[j])
      /\ \A j \in 1..Len(S) : B[Len(A) - Len(S) + j] = R[j]
  BY DEF IsResigned
<1>2. /\ ArrayInv /\ NumbersInv /\ SuffixInv /\ SortsInv /\ SearchInv
      /\ \A e \in DOMAIN definitions : IsDefined(e)
  BY DEF RulesInv
<1>3. /\ Len(A) \in Nat /\ m \in Nat
      /\ \A e \in Existentials : /\ forcing_disjunction(e) \in 1..Len(A) /\ 2 * rank(e) \in 1..Len(A)
                                 /\ forcing_disjunction(e) \in 1..2 * m
                                 /\ 2 * rank(e) <= 2 * m
  <2>1. \A e \in Existentials : rank(e) \in 1..m /\ m \in Nat
    BY RankFacts
  <2>2. \A e \in Existentials : 2 * rank(e) <= 2 * m
    <3> HIDE DEF m
    <3> QED BY <2>1
  <2> QED BY <1>2, <2>2, ArrayPlaces, RankFacts
<1>4. \A e \in Existentials : /\ B[forcing_disjunction(e)] = A[forcing_disjunction(e)]
                              /\ B[2 * rank(e)] = A[2 * rank(e)]
  <2> HIDE DEF m
  <2> QED BY <1>1, <1>3
<1>5. last_variable \in Nat
  BY <1>2 DEF NumbersInv
<1>6. /\ ArrayInv' /\ NumbersInv'
      /\ Public' \subseteq Public
  <2> DEFINE none == {}
  <2>1. /\ none \cap none = {} /\ none \cup none \cup none \subseteq (last_variable + 1)..last_variable'
        /\ Arbiters' \subseteq Arbiters \cup none
        /\ \A e \in Existentials : selectors'[e] = selectors[e] \/ selectors'[e] \in none
    BY DEF skolemVars, Arbiters
  <2>2. /\ last_variable' \in Nat /\ last_variable <= last_variable'
        /\ stage' \in {"idle", "preprocessing", "search"} /\ stage' = "search"
        /\ proper_arbiters' \subseteq Arbiters' /\ selectors' \in [Existentials -> Nat]
    <3>1. /\ stage' = stage /\ proper_arbiters' = proper_arbiters /\ selectors' = selectors
          /\ last_variable' = last_variable /\ Arbiters' = Arbiters
      BY DEF skolemVars, Arbiters
    <3>2. last_variable \in Nat /\ last_variable <= last_variable
      BY <1>5
    <3> QED BY <1>2, <3>1, <3>2 DEF NumbersInv
  <2>3. \A k \in 1..Len(B) :
           \/ k <= Len(A) /\ var(B[k]) = var(A[k])
           \/ /\ var(B[k]) \in none
              /\ \A l \in 1..Len(B) : var(B[k]) = var(B[l]) => k = l
    BY <1>1, <1>3
  <2>4. \A e \in Existentials : B[forcing_disjunction(e)] < 0 /\ B[2 * rank(e)] = A[2 * rank(e)]
    BY <1>2, <1>4 DEF ArrayInv
  <2>5. Len(A) <= Len(B)
    BY <1>1, <1>3
  <2> HIDE DEF none
  <2>6. ArrayInv' /\ NumbersInv' /\ Public' \subseteq Public \cup none \cup none \cup none
    BY <1>1, <1>2, <2>2, <2>3, <2>4, <2>5, <2>1, NumbersKept
  <2> QED BY <2>6 DEF none
<1>7. Grows
  BY <1>5, <1>6 DEF Grows
<1>8. /\ SuffixInv' /\ PlacesInv'
      /\ \A e \in undefined : \A D : Conforms(e, D) => Conforms(e, D)'
  <2>1. UNCHANGED <<definitions, variables_with_defaults, fixed_defaults, default_trees>>
    BY DEF skolemVars
  <2> QED BY <1>1, <1>2, <2>1, PairChanged DEF SearchInv
<1>9. SortsInv'
  BY <1>2, <1>7, SortsKept DEF skolemVars, SortsInv
<1>10. \A e \in DOMAIN definitions : IsDefined(e)'
  BY <1>2, <1>7, DefinedKept DEF skolemVars
<1>11. \A e \in undefined : Encoded(e)'
  <2> SUFFICES ASSUME NEW e \in undefined PROVE Encoded(e)'
    OBVIOUS
  <2>1. e \in Existentials
    BY DEF undefined
  <2>2. Encoded(e)
    BY <1>2 DEF SearchInv
  <2>3. RulesOf(e)' = RulesOf(e) /\ selectors'[e] = selectors[e] /\ validity_clauses'[e] = validity_clauses[e]
    BY DEF RulesOf, skolemVars
  <2> QED BY <1>4, <1>7, <1>8, <2>1, <2>2, <2>3, EncodedKept
<1>12. undefined' = undefined /\ DOMAIN default_trees' = DOMAIN default_trees
  BY DEF undefined, skolemVars
<1>13. (\A r \in forcing_clauses : IsRule(r))'
  BY <1>2, <1>12 DEF SearchInv, IsRule, skolemVars
<1>14. SearchInv'
  <2>1. (\A e \in undefined : Encoded(e))'
    BY <1>11, <1>12
  <2>2. (DOMAIN default_trees \subseteq undefined)'
    BY <1>2, <1>12 DEF SearchInv
  <2> QED BY <1>8, <1>13, <2>1, <2>2 DEF SearchInv
<1>15. (\A e \in DOMAIN definitions : IsDefined(e))'
  BY <1>10 DEF skolemVars
<1>16. stage' = "search"
  BY DEF skolemVars
<1> QED BY <1>6, <1>8, <1>9, <1>14, <1>15, <1>16 DEF RulesInv


\* setFixedDefaultPolarityUnchecked.
LEMMA SetPolarityKeeps ==
    ASSUME RulesInv, stage = "search", UNCHANGED skolemVars, NEW e, NEW b \in BOOLEAN,
           useDefault(e), ~treeActive(e), SetPolarity(e, b)
    PROVE  RulesInv'
<1>1. ArrayInv /\ SuffixInv /\ PlacesInv
  BY DEF RulesInv, SearchInv
<1>2. e \in undefined
  BY <1>1 DEF PlacesInv, useDefault
<1>3. current(e) = [c \in {Whole} |-> fixed_defaults[e]] /\ Whole \in DOMAIN current(e)
      /\ current(e)[Whole] = fixed_defaults[e]
  BY DEF current
<1>4. IsPlace(current(e)[Whole])
  BY <1>1, <1>2, <1>3 DEF PlacesInv
<1> DEFINE A == validity_check_assumptions
           S == default_selectors
           m == Cardinality(Existentials)
           k == spot(e, Whole)
           L == Len(S)
           M == Len(A)
<1>5. /\ k \in 1..L /\ k + 1 \in 1..L /\ fixed_defaults[e].assumptions = M - L + k
      /\ fixed_defaults[e].selectors = k
  BY <1>3, <1>4 DEF IsPlace, spot
<1>6. /\ A \in Seq(Int \ {0}) /\ S \in Seq(Int \ {0}) /\ m \in Nat /\ L \in Nat /\ M \in Nat
      /\ 2 * m + L <= M /\ \A j \in 1..L : A[M - L + j] = S[j]
  BY <1>1, SuffixFacts, ArrayPlaces, RankFacts DEF SuffixInv, ArrayInv
<1>7. IsResigned(A, S, setPair(A, M - L + k, b), setPair(S, k, b), m, L, M, k)
  <2>1. Len(S) = L /\ Len(A) = M
    OBVIOUS
  <2> HIDE DEF A, S, m, k, L, M
  <2> QED BY <1>5, <1>6, <2>1, PairSet
<1>8. A' = setPair(A, M - L + k, b) /\ S' = setPair(S, k, b)
  BY <1>5 DEF SetPolarity, selectorPosition
<1>9. IsResigned(A, S, A', S', m, L, M, k)
  <2> HIDE DEF A, S, m, k, L, M
  <2> QED BY <1>7, <1>8
<1>10. UNCHANGED <<default_setting, reads, last_variable, variables_with_defaults,
                   fixed_defaults, default_trees>>
  BY DEF SetPolarity
<1> QED BY <1>2, <1>3, <1>9, <1>10, ResignedKeeps

LEMMA ToggleLeafKeeps ==
    ASSUME RulesInv, stage = "search", UNCHANGED skolemVars, NEW e, NEW leaf, ToggleLeaf(e, leaf)
    PROVE  RulesInv'
<1>1. ArrayInv /\ SuffixInv /\ PlacesInv
  BY DEF RulesInv, SearchInv
<1>2. e \in undefined
  BY DEF RulesInv, SearchInv, ToggleLeaf, treeActive, treeIsAvailable
<1>3. leaf \in DOMAIN current(e) /\ current(e)[leaf] = default_trees[e][leaf]
  BY DEF current, ToggleLeaf
<1>4. IsPlace(current(e)[leaf])
  BY <1>1, <1>2, <1>3 DEF PlacesInv
<1> DEFINE A == validity_check_assumptions
           S == default_selectors
           m == Cardinality(Existentials)
           k == spot(e, leaf)
           L == Len(S)
           M == Len(A)
<1>5. /\ k \in 1..L /\ k + 1 \in 1..L /\ default_trees[e][leaf].assumptions = M - L + k
      /\ default_trees[e][leaf].selectors = k
      /\ (S[k] > 0) <=> ~(S[k + 1] > 0)
  BY <1>3, <1>4 DEF IsPlace, spot
<1>6. /\ A \in Seq(Int \ {0}) /\ S \in Seq(Int \ {0}) /\ m \in Nat /\ L \in Nat /\ M \in Nat
      /\ 2 * m + L <= M /\ \A j \in 1..L : A[M - L + j] = S[j]
  BY <1>1, SuffixFacts, ArrayPlaces, RankFacts DEF SuffixInv, ArrayInv
<1>7. IsResigned(A, S, togglePair(A, M - L + k), togglePair(S, k), m, L, M, k)
  <2>1. Len(S) = L /\ Len(A) = M
    OBVIOUS
  <2> HIDE DEF A, S, m, k, L, M
  <2> QED BY <1>5, <1>6, <2>1, PairToggled
<1>8. A' = togglePair(A, M - L + k) /\ S' = togglePair(S, k)
  BY <1>5 DEF ToggleLeaf, selectorPosition
<1>9. IsResigned(A, S, A', S', m, L, M, k)
  <2> HIDE DEF A, S, m, k, L, M
  <2> QED BY <1>7, <1>8
<1>10. UNCHANGED <<default_setting, reads, last_variable, variables_with_defaults,
                   fixed_defaults, default_trees>>
  BY DEF ToggleLeaf
<1> QED BY <1>2, <1>3, <1>9, <1>10, ResignedKeeps

--------------------------------------------------------------------------------
(***************************************************************************)
(* Literals of paths and of definitions.                                   *)
(***************************************************************************)
LEMMA PathLiterals ==
    ASSUME NEW c, IsCube(c, Variables)
    PROVE  /\ \A l \in pathClause(c) : l \in Int \ {0} /\ var(l) \in Variables /\ var(l) <= LastVariable
           /\ \A a \in Valuations : (\E l \in pathClause(c) : holds(l, a)) <=> ~Agrees(c, a)
<1>1. \A v \in DOMAIN c : v \in Variables /\ v \in 1..LastVariable /\ c[v] \in BOOLEAN
  BY NumberOfFacts DEF IsCube
<1>2. LastVariable \in Nat
  BY NumberOfFacts
<1>3. \A l \in pathClause(c) : l \in Int \ {0} /\ var(l) \in Variables /\ var(l) <= LastVariable
  <2> SUFFICES ASSUME NEW v \in DOMAIN c
               PROVE  /\ literal(v, ~c[v]) \in Int \ {0} /\ var(literal(v, ~c[v])) \in Variables
                      /\ var(literal(v, ~c[v])) <= LastVariable
    BY DEF pathClause
  <2>1. v \in Nat \ {0} /\ v \in Variables /\ v <= LastVariable
    BY <1>1, <1>2
  <2> QED BY <2>1 DEF literal, var
<1>4. ASSUME NEW a \in Valuations
      PROVE  (\E l \in pathClause(c) : holds(l, a)) <=> ~Agrees(c, a)
  <2>1. ASSUME NEW v \in DOMAIN c PROVE holds(literal(v, ~c[v]), a) <=> c[v] # a[v]
    <3>1. v \in Nat \ {0} /\ c[v] \in BOOLEAN /\ a[v] \in BOOLEAN
      BY <1>1 DEF Valuations
    <3>2. (holds(v, a) <=> a[v]) /\ (holds(-v, a) <=> ~a[v])
      BY <3>1, SignFacts DEF Valuations
    <3> QED BY <3>1, <3>2 DEF literal
  <2> QED BY <2>1 DEF pathClause, Agrees
<1> QED BY <1>3, <1>4

LEMMA GuardedMeaning ==
    ASSUME NEW cs, NEW S \in Nat \ {0}, NEW a \in Valuations, a[S]
    PROVE  Satisfies(guarded(cs, S), a) <=> Satisfies(cs, a)
<1>1. ~holds(-S, a)
  BY SignFacts DEF Valuations
<1>2. \A C : (\E l \in C \cup {-S} : holds(l, a)) <=> (\E l \in C : holds(l, a))
  BY <1>1
<1>3. Satisfies(guarded(cs, S), a) <=> \A C \in cs : \E l \in C \cup {-S} : holds(l, a)
  BY DEF Satisfies, guarded
<1> QED BY <1>2, <1>3 DEF Satisfies

\* The valuations that satisfy the clauses of a definition.
LEMMA DefinedMeaning ==
    ASSUME NEW e \in Existentials, e \in Nat \ {0}, NEW R \in SUBSET Variables,
           NEW f \in [[R -> BOOLEAN] -> BOOLEAN], NEW n \in Nat, NEW a \in Valuations, a[n + 10]
    PROVE  Satisfies(ActiveDefinition(e, f, n), a)
              <=> /\ a[n + 11] /\ a[n + 12] /\ ~a[no_forcing_clause_active(e)] /\ ~a[n + 13]
                  /\ \A c \in [R -> BOOLEAN] : Agrees(c, a) => a[e] = f[c]
<1> DEFINE nfc == no_forcing_clause_active(e)
           ca == n + 11
           s == n + 12
           x == n + 13
           d == n + 14
           new == n + 15
           S == n + 10
           ft == forcingTerminal(e)
           given == {{ca}, {ca, x, -s}, {-ca, s}, {-x, s}, {-x, nfc}, {-x, d}, {-nfc, -d, x}, {-ca, -nfc}}
           cells == {C \cup {-s} : C \in definitionClauses(e, f, e)}
           last == createDisjunct(-ft, {ca}, new)
<1>1. /\ nfc \in Nat \ {0} /\ ca \in Nat \ {0} /\ s \in Nat \ {0} /\ x \in Nat \ {0} /\ d \in Nat \ {0}
      /\ S \in Nat \ {0}
  BY NumberTypes DEF no_forcing_clause_active
<1>2. validityDefinition(e, f, ca, s, x, d) = given \cup cells
  BY DEF validityDefinition
<1>3. Satisfies(ActiveDefinition(e, f, n), a)
         <=> Satisfies(validityDefinition(e, f, ca, s, x, d) \cup {last}, a)
  BY <1>1, GuardedMeaning DEF ActiveDefinition
<1>4. ca \in last
  BY DEF createDisjunct
<1> HIDE DEF nfc, ca, s, x, d, last, cells
<1>5. Satisfies(validityDefinition(e, f, ca, s, x, d) \cup {last}, a)
         <=> Satisfies(given, a) /\ Satisfies(cells, a) /\ \E l \in last : holds(l, a)
  <2> HIDE DEF given
  <2> QED BY <1>2 DEF Satisfies
<1>6. /\ holds(nfc, a) <=> a[nfc]
      /\ holds(-nfc, a) <=> ~a[nfc]
      /\ holds(ca, a) <=> a[ca]
      /\ holds(-ca, a) <=> ~a[ca]
      /\ holds(s, a) <=> a[s]
      /\ holds(-s, a) <=> ~a[s]
      /\ holds(x, a) <=> a[x]
      /\ holds(-x, a) <=> ~a[x]
      /\ holds(d, a) <=> a[d]
      /\ holds(-d, a) <=> ~a[d]
  BY <1>1, SignFacts DEF Valuations
<1>7. Satisfies(given, a) <=> a[ca] /\ a[s] /\ ~a[nfc] /\ ~a[x]
  <2>1. Satisfies(given, a) <=>
          /\ a[ca] /\ (a[ca] \/ a[x] \/ ~a[s]) /\ (~a[ca] \/ a[s]) /\ (~a[x] \/ a[s])
          /\ (~a[x] \/ a[nfc]) /\ (~a[x] \/ a[d]) /\ (~a[nfc] \/ ~a[d] \/ a[x]) /\ (~a[ca] \/ ~a[nfc])
    BY <1>6 DEF Satisfies
  <2> QED BY <2>1
<1>8. a[ca] => \E l \in last : holds(l, a)
  BY <1>4, <1>6
<1>9. ASSUME a[s] PROVE Satisfies(cells, a) <=> \A c \in [R -> BOOLEAN] : Agrees(c, a) => a[e] = f[c]
  <2>1. \A c \in [R -> BOOLEAN] : /\ IsCube(c, Variables) /\ f[c] \in BOOLEAN
    BY DEF IsCube
  <2>2. DOMAIN f = [R -> BOOLEAN]
    OBVIOUS
  <2>3. Satisfies(cells, a) <=> \A c \in [R -> BOOLEAN] :
           \E l \in (pathClause(c) \cup {literal(e, f[c])}) \cup {-s} : holds(l, a)
    BY <2>2 DEF Satisfies, cells, definitionClauses
  <2>4. ASSUME NEW c \in [R -> BOOLEAN]
        PROVE  (\E l \in (pathClause(c) \cup {literal(e, f[c])}) \cup {-s} : holds(l, a))
                  <=> (Agrees(c, a) => a[e] = f[c])
    <3>1. (\E l \in pathClause(c) : holds(l, a)) <=> ~Agrees(c, a)
      BY <2>1, PathLiterals
    <3> DEFINE b == f[c]
    <3>2. b \in BOOLEAN
      BY <2>1
    <3> HIDE DEF b
    <3>3. holds(literal(e, b), a) <=> a[e] = b
      BY <3>2, SignFacts DEF Valuations
    <3>4. (\E l \in (pathClause(c) \cup {literal(e, b)}) \cup {-s} : holds(l, a))
             <=> (Agrees(c, a) => a[e] = b)
      BY <1>6, <1>9, <3>1, <3>3
    <3> QED BY <3>4 DEF b
  <2> QED BY <2>3, <2>4
<1> QED BY <1>3, <1>5, <1>7, <1>8, <1>9 DEF nfc, ca, s, x

LEMMA DefinedWithin ==
    ASSUME NEW e \in Existentials, e \in Nat \ {0}, NEW R \in SUBSET Variables,
           NEW f \in [[R -> BOOLEAN] -> BOOLEAN], NEW n \in Nat, Introduced <= n
    PROVE  Within(ActiveDefinition(e, f, n), n + 15)
<1> DEFINE N == n + 15
           nfc == no_forcing_clause_active(e)
           ft == forcingTerminal(e)
           Ok(l) == IsLiteralUpTo(l, N)
           given == {{n + 11}, {n + 11, n + 13, -(n + 12)}, {-(n + 11), n + 12}, {-(n + 13), n + 12},
                     {-(n + 13), nfc}, {-(n + 13), n + 14}, {-nfc, -(n + 14), n + 13}, {-(n + 11), -nfc}}
           cells == {C \cup {-(n + 12)} : C \in definitionClauses(e, f, e)}
           last == {n + 11} \cup {-ft, n + 15}
<1>1. /\ nfc \in Nat \ {0} /\ ft \in Nat \ {0} /\ nfc <= Introduced /\ ft <= Introduced
      /\ e <= LastVariable /\ LastVariable \in Nat /\ LastVariable <= Introduced /\ Introduced \in Nat
  BY NumberOfFacts DEF no_forcing_clause_active, forcingTerminal, Variables
<1> HIDE DEF nfc, ft
<1>2. /\ Ok(n + 10) /\ Ok(-(n + 10)) /\ Ok(n + 11) /\ Ok(-(n + 11)) /\ Ok(n + 12) /\ Ok(-(n + 12))
      /\ Ok(n + 13) /\ Ok(-(n + 13)) /\ Ok(n + 14) /\ Ok(-(n + 14)) /\ Ok(n + 15)
  BY DEF IsLiteralUpTo, var
<1>3. Ok(nfc) /\ Ok(-nfc) /\ Ok(-ft) /\ Ok(e) /\ Ok(-e)
  BY <1>1 DEF IsLiteralUpTo, var
<1>4. \A c \in [R -> BOOLEAN] : \A l \in pathClause(c) : Ok(l)
  <2> SUFFICES ASSUME NEW c \in [R -> BOOLEAN], NEW l \in pathClause(c) PROVE Ok(l)
    OBVIOUS
  <2>1. IsCube(c, Variables)
    BY DEF IsCube
  <2>2. l \in Int \ {0} /\ var(l) <= LastVariable
    BY <2>1, PathLiterals
  <2>3. var(l) \in Nat
    BY <2>2 DEF var
  <2> QED BY <1>1, <2>2, <2>3 DEF IsLiteralUpTo
<1>5. ActiveDefinition(e, f, n) = guarded((given \cup cells) \cup {last}, n + 10)
  BY DEF ActiveDefinition, validityDefinition, createDisjunct, nfc, ft
<1> HIDE DEF Ok
<1>6. \A C \in given : \A l \in C : Ok(l)
  BY <1>2, <1>3
<1>7. \A C \in cells : \A l \in C : Ok(l)
  <2>1. \A c \in [R -> BOOLEAN] : literal(e, f[c]) = e \/ literal(e, f[c]) = -e
    BY DEF literal
  <2>2. DOMAIN f = [R -> BOOLEAN]
    OBVIOUS
  <2> QED BY <1>2, <1>3, <1>4, <2>1, <2>2 DEF definitionClauses
<1>8. \A l \in last : Ok(l)
  BY <1>2, <1>3
<1> HIDE DEF given, cells, last
<1>9. \A C \in guarded((given \cup cells) \cup {last}, n + 10) : \A l \in C : Ok(l)
  BY <1>2, <1>6, <1>7, <1>8 DEF guarded
<1> QED BY <1>5, <1>9 DEF Within, Ok

\* Places of an array that is one longer.
LEMMA NextPlaces ==
    ASSUME NEW L \in Nat
    PROVE  \A k \in 1..(L + 1) : k = L + 1 \/ (k \in 1..L /\ k <= L)
  OBVIOUS

LEMMA AddDefinitionKeeps ==
    ASSUME RulesInv, NEW e \in Existentials, e \in Nat \ {0}, NEW R \in SUBSET Variables,
           NEW f \in [[R -> BOOLEAN] -> BOOLEAN], AddDefinition(e, f)
    PROVE  RulesInv'
<1> DEFINE A == validity_check_assumptions
           B == A'
           n == last_variable
           m == Cardinality(Existentials)
           p == forcing_disjunction(e)
<1>1. /\ ArrayInv /\ NumbersInv /\ SuffixInv /\ SortsInv /\ BeforeInv /\ stage = "preprocessing"
      /\ \A d \in DOMAIN definitions : IsDefined(d)
  BY DEF RulesInv, AddDefinition
<1>2. /\ e \notin DOMAIN definitions
      /\ definitions' = [d \in DOMAIN definitions \cup {e} |-> IF d = e THEN f ELSE definitions[d]]
      /\ selectors' = [selectors EXCEPT ![e] = n + 10]
      /\ validity_clauses' = [validity_clauses EXCEPT ![e] = validity_clauses[e] \cup guarded(
              validityDefinition(e, f, n + 11, n + 12, n + 13, n + 14)
                \cup {createDisjunct(A[p], {n + 11}, n + 15)}, n + 10)]
      /\ B = Append([A EXCEPT ![p] = -(n + 15)], -(n + 14))
      /\ last_variable' = n + 15
      /\ UNCHANGED <<stage, reads, default_selectors, forcing_clauses,
                      arbiter_to_annotation, proper_arbiters>>
  BY <1>1 DEF AddDefinition, newDefaultFunctionSelector, SortsInv
<1>3. /\ n \in Nat /\ Introduced \in Nat /\ Introduced <= n /\ selectors \in [Existentials -> Nat]
      /\ Arbiters = Arbiters'
  BY <1>1, <1>2, NumberOfFacts DEF NumbersInv, Arbiters
<1>4. e \in undefined /\ undefined' = undefined \ {e} /\ A[p] = -forcingTerminal(e)
      /\ selectors[e] = initialSelector(e) /\ validity_clauses[e] = initialValidityClauses(e)
  BY <1>1, <1>2 DEF undefined, BeforeInv
<1>5. /\ Len(A) \in Nat /\ m \in Nat /\ p \in 1..Len(A) /\ A \in Seq(Int \ {0}) /\ 2 * m <= Len(A)
      /\ \A d \in Existentials : /\ forcing_disjunction(d) \in 1..Len(A) /\ 2 * rank(d) \in 1..Len(A)
                                 /\ forcing_disjunction(d) = p => d = e
                                 /\ p # 2 * rank(d)
  BY <1>1, ArrayPlaces, RankFacts DEF ArrayInv
<1>6. /\ B \in Seq(Int \ {0}) /\ Len(B) = Len(A) + 1 /\ B[p] = -(n + 15)
      /\ B[Len(A) + 1] = -(n + 14)
      /\ \A j \in 1..Len(A) : j # p => B[j] = A[j]
  <2> DEFINE v == -(n + 15)
             w == -(n + 14)
             L == Len(A)
             C == [A EXCEPT ![p] = v]
  <2>1. v \in Int \ {0} /\ w \in Int \ {0} /\ L \in Nat /\ p \in 1..L
    BY <1>3, <1>5
  <2>2. B = Append(C, w) /\ Len(A) = L
    BY <1>2
  <2> HIDE DEF v, w, A, p, L, B
  <2>3. C \in Seq(Int \ {0}) /\ Len(C) = L /\ C[p] = v /\ \A j \in 1..L : j # p => C[j] = A[j]
    BY <1>5, <2>1, <2>2
  <2> HIDE DEF C
  <2>4. B \in Seq(Int \ {0}) /\ Len(B) = L + 1 /\ B[L + 1] = w /\ \A j \in 1..L : B[j] = C[j]
    BY <2>1, <2>2, <2>3, SMTT(30)
  <2> QED BY <2>1, <2>3, <2>4 DEF v, w, L
<1>a. /\ DOMAIN A = 1..Len(A) /\ 1..Len(B) = 1..(Len(A) + 1)
      /\ \A k \in 1..(Len(A) + 1) : k = Len(A) + 1 \/ (k \in 1..Len(A) /\ k <= Len(A))
      /\ \A k \in 1..Len(A) : k <= Len(A)
  <2>1. DOMAIN A = 1..Len(A)
    BY <1>5
  <2>2. \A k \in 1..(Len(A) + 1) : k = Len(A) + 1 \/ (k \in 1..Len(A) /\ k <= Len(A))
    BY <1>5, NextPlaces
  <2>3. \A k \in 1..Len(A) : k <= Len(A)
    BY <1>5
  <2>4. 1..Len(B) = 1..(Len(A) + 1)
    BY <1>6
  <2> QED BY <2>1, <2>2, <2>3, <2>4
<1> HIDE DEF p, B
<1>7. /\ ArrayInv' /\ NumbersInv' /\ Public' \subseteq Public \cup {} \cup {n + 10} \cup {n + 14, n + 15}
  <2> DEFINE FA == {}
             FS == {n + 10}
             FE == {n + 14, n + 15}
  <2>1. FA \cap FS = {} /\ FA \cap FE = {} /\ FS \cap FE = {}
        /\ FA \cup FS \cup FE \subseteq (last_variable + 1)..last_variable'
    BY <1>2, <1>3
  <2>2. /\ last_variable' \in Nat /\ last_variable <= last_variable'
        /\ stage' \in {"idle", "preprocessing", "search"} /\ stage # "search"
        /\ Arbiters' \subseteq Arbiters \cup FA /\ proper_arbiters' \subseteq Arbiters'
    BY <1>1, <1>2, <1>3 DEF NumbersInv
  <2>3. /\ selectors' \in [Existentials -> Nat]
        /\ \A d \in Existentials : selectors'[d] = selectors[d] \/ selectors'[d] \in FS
    BY <1>2, <1>3
  <2>4. Len(A) <= Len(B)
    BY <1>5, <1>6
  <2>5. \A k \in 1..Len(B) : k = Len(A) + 1 \/ k \in 1..Len(A)
    BY <1>a, Zenon
  <2>6. \A k \in 1..Len(A) : k # p => var(B[k]) # n + 14 /\ var(B[k]) # n + 15
    <3> SUFFICES ASSUME NEW k \in 1..Len(A), k # p PROVE var(B[k]) # n + 14 /\ var(B[k]) # n + 15
      OBVIOUS
    <3>1. var(B[k]) \in Public
      <4>1. k \in DOMAIN A /\ B[k] = A[k]
        BY <1>a, <1>6, Zenon
      <4> QED BY <4>1 DEF Public, Entries
    <3>2. var(B[k]) \in 1..n
      BY <1>1, <3>1, PublicFacts
    <3> QED BY <1>3, <3>2
  <2>7. var(B[p]) = n + 15 /\ var(B[Len(A) + 1]) = n + 14 /\ n + 14 # n + 15
    BY <1>3, <1>6 DEF var
  <2>8. \A k \in 1..Len(B) :
           \/ k <= Len(A) /\ var(B[k]) = var(A[k])
           \/ /\ var(B[k]) \in FE
              /\ \A l \in 1..Len(B) : var(B[k]) = var(B[l]) => k = l
    <3> SUFFICES ASSUME NEW k \in 1..Len(B)
                 PROVE  \/ k <= Len(A) /\ var(B[k]) = var(A[k])
                        \/ /\ var(B[k]) \in FE
                           /\ \A l \in 1..Len(B) : var(B[k]) = var(B[l]) => k = l
      OBVIOUS
    <3>1. CASE k \in 1..Len(A) /\ k # p
      <4>1. k <= Len(A) /\ B[k] = A[k]
        BY <1>a, <1>6, <3>1, Zenon
      <4> QED BY <4>1
    <3>2. CASE k = p
      BY <2>5, <2>6, <2>7, <3>2
    <3>3. CASE k = Len(A) + 1
      BY <2>5, <2>6, <2>7, <3>3
    <3> QED BY <2>5, <3>1, <3>2, <3>3
  <2>9. \A d \in Existentials : B[forcing_disjunction(d)] < 0 /\ B[2 * rank(d)] = A[2 * rank(d)]
    <3> SUFFICES ASSUME NEW d \in Existentials
                 PROVE  B[forcing_disjunction(d)] < 0 /\ B[2 * rank(d)] = A[2 * rank(d)]
      OBVIOUS
    <3>1. B[2 * rank(d)] = A[2 * rank(d)]
      BY <1>5, <1>6
    <3>2. A[forcing_disjunction(d)] < 0
      BY <1>1 DEF ArrayInv
    <3>3. B[p] < 0
      BY <1>3, <1>6
    <3> DEFINE q == forcing_disjunction(d)
    <3>4. q \in 1..Len(A)
      BY <1>5
    <3> HIDE DEF q
    <3>5. B[q] < 0
      BY <1>6, <3>2, <3>3, <3>4 DEF q
    <3> QED BY <3>1, <3>5 DEF q
  <2> HIDE DEF FA, FS, FE
  <2>10. ArrayInv' /\ NumbersInv' /\ Public' \subseteq Public \cup FA \cup FS \cup FE
    BY <1>1, <1>6, <2>1, <2>2, <2>3, <2>4, <2>8, <2>9, NumbersKept DEF B
  <2> QED BY <2>10 DEF FA, FS, FE
<1>8. Grows
  BY <1>2, <1>3, <1>7 DEF Grows
<1>9. SuffixInv'
  <2>1. default_selectors = <<>> /\ Len(default_selectors) = 0
    BY <1>1 DEF BeforeInv
  <2>2. 2 * m + 0 <= Len(A) + 1
    BY <1>5
  <2> QED BY <1>2, <1>6, <2>1, <2>2 DEF SuffixInv, B
<1>10. validity_clauses'[e] = definedClauses(e, f, n) /\ DOMAIN validity_clauses' = Existentials
       /\ \A d \in Existentials \ {e} : validity_clauses'[d] = validity_clauses[d]
  <2>1. DOMAIN validity_clauses = Existentials
    BY <1>1 DEF SortsInv
  <2>2. validity_clauses'[e] = validity_clauses[e] \cup guarded(
              validityDefinition(e, f, n + 11, n + 12, n + 13, n + 14)
                \cup {createDisjunct(A[p], {n + 11}, n + 15)}, n + 10)
    BY <1>2, <2>1
  <2>3. validity_clauses'[e] = definedClauses(e, f, n)
    BY <1>4, <2>2 DEF definedClauses, ActiveDefinition
  <2> QED BY <1>2, <2>1, <2>3
<1>11. SortsInv'
  <2>1. Within(validity_clauses'[e], n + 15)
    <3>1. Within(initialValidityClauses(e), n)
      <4>1. Within(validity_clauses[e], n)
        BY <1>1 DEF SortsInv
      <4> QED BY <1>4, <4>1
    <3>2. Within(initialValidityClauses(e), n + 15)
      BY <1>3, <3>1, WithinMore
    <3>3. Within(ActiveDefinition(e, f, n), n + 15)
      BY <1>3, DefinedWithin
    <3> QED BY <1>10, <3>2, <3>3 DEF Within, definedClauses
  <2>2. \A d \in Existentials : Within(validity_clauses'[d], n + 15)
    <3> SUFFICES ASSUME NEW d \in Existentials, d # e PROVE Within(validity_clauses'[d], n + 15)
      BY <2>1
    <3>1. Within(validity_clauses[d], n)
      BY <1>1 DEF SortsInv
    <3>2. Within(validity_clauses[d], n + 15)
      BY <1>3, <3>1, WithinMore
    <3> QED BY <1>10, <3>2
  <2>3. (\A d \in Existentials : Within(validity_clauses[d], last_variable))'
    BY <1>2, <2>2
  <2>4. (\A d \in DOMAIN definitions :
           \E Q \in SUBSET Variables : definitions[d] \in [[Q -> BOOLEAN] -> BOOLEAN])'
    BY <1>1, <1>2 DEF SortsInv
  <2>5. (DOMAIN definitions \subseteq Existentials)' /\ (reads \in [Existentials -> SUBSET Variables])'
    BY <1>1, <1>2 DEF SortsInv
  <2>6. (DOMAIN validity_clauses = Existentials)'
    BY <1>10
  <2> QED BY <2>3, <2>4, <2>5, <2>6 DEF SortsInv
<1>12. IsDefined(e)'
  <2>1. selectors'[e] = n + 10 /\ n + 15 <= last_variable' /\ definitions'[e] = f
    BY <1>2, <1>3
  <2>2. {n + 11, n + 12, n + 13} \cap Public' = {}
    <3>1. Public \subseteq 1..n
      BY <1>1, PublicFacts
    <3> QED BY <1>3, <1>7, <3>1
  <2>3. \A k : (definedClauses(e, f, k))' = definedClauses(e, f, k)
    BY DEF definedClauses
  <2>4. Introduced' = Introduced
    BY DEF Introduced
  <2>5. \E k \in Nat : /\ Introduced' <= k /\ k + 15 <= last_variable'
                       /\ selectors'[e] = k + 10 /\ {k + 11, k + 12, k + 13} \cap Public' = {}
                       /\ validity_clauses'[e] = definedClauses(e, definitions'[e], k)
    BY <1>3, <1>10, <2>1, <2>2, <2>4
  <2> QED BY <2>5 DEF IsDefined
<1>13. (\A d \in DOMAIN definitions : IsDefined(d))'
  <2>1. ASSUME NEW d \in DOMAIN definitions PROVE IsDefined(d)'
    <3>1. d \in Existentials \ {e} /\ definitions'[d] = definitions[d] /\ selectors'[d] = selectors[d]
      BY <1>1, <1>2 DEF SortsInv
    <3> QED BY <1>1, <1>8, <1>10, <3>1, DefinedKept
  <2> QED BY <1>2, <1>12, <2>1
<1>14. BeforeInv'
  <2>1. ASSUME NEW d \in undefined'
        PROVE  /\ selectors'[d] = initialSelector(d) /\ validity_clauses'[d] = initialValidityClauses(d)
               /\ B[forcing_disjunction(d)] = -forcingTerminal(d)
    <3>1. d \in Existentials /\ d # e /\ d \in undefined
      BY <1>4 DEF undefined
    <3>2. selectors'[d] = selectors[d] /\ validity_clauses'[d] = validity_clauses[d]
      BY <1>2, <1>10, <3>1
    <3>3. B[forcing_disjunction(d)] = A[forcing_disjunction(d)]
      BY <1>5, <1>6, <3>1
    <3> QED BY <1>1, <3>1, <3>2, <3>3 DEF BeforeInv
  <2>2. \A d : /\ initialSelector(d)' = initialSelector(d) /\ initialValidityClauses(d)' = initialValidityClauses(d)
              /\ forcing_disjunction(d)' = forcing_disjunction(d) /\ forcingTerminal(d)' = forcingTerminal(d)
    BY DEF initialSelector, initialValidityClauses, forcing_disjunction, forcingTerminal, numberOf, rank,
       no_forcing_clause_active, apply_default, use_default_value
  <2> QED BY <1>1, <1>2, <2>1, <2>2 DEF BeforeInv, B
<1> QED BY <1>1, <1>2, <1>7, <1>9, <1>11, <1>13, <1>14 DEF RulesInv

\* The array and the numbers when the terminal of e's disjunction is replaced.
LEMMA TerminalReplaced ==
    ASSUME ArrayInv, NumbersInv, stage = "search", stage' = "search",
           NEW e \in Existentials, selectors' = selectors,
           last_variable' \in Nat, last_variable <= last_variable',
           NEW FA, NEW FE, FA \cap FE = {}, FA \cup FE \subseteq (last_variable + 1)..last_variable',
           Arbiters' \subseteq Arbiters \cup FA, proper_arbiters' \subseteq Arbiters',
           NEW t \in FE,
           validity_check_assumptions' \in Seq(Int \ {0}),
           Len(validity_check_assumptions') = Len(validity_check_assumptions),
           validity_check_assumptions'[forcing_disjunction(e)] = -t,
           \A j \in 1..Len(validity_check_assumptions) : j # forcing_disjunction(e) =>
              validity_check_assumptions'[j] = validity_check_assumptions[j]
    PROVE  /\ ArrayInv' /\ NumbersInv' /\ Public' \subseteq Public \cup FA \cup FE
           /\ terminalOf(e) \notin Public'
<1> DEFINE A == validity_check_assumptions
           B == A'
           p == forcing_disjunction(e)
<1>3. /\ t \in Nat \ {0} /\ t > last_variable /\ last_variable \in Nat /\ Introduced \in Nat
      /\ Introduced <= last_variable
  <2>1. last_variable \in Nat /\ Introduced \in Nat /\ Introduced <= last_variable
    BY NumberOfFacts DEF NumbersInv
  <2>2. t \in (last_variable + 1)..last_variable'
    OBVIOUS
  <2> QED BY <2>1, <2>2
<1>4. /\ DOMAIN A = 1..Len(A) /\ Len(A) \in Nat /\ p \in 1..Len(A)
      /\ \A d \in Existentials : /\ forcing_disjunction(d) \in 1..Len(A) /\ 2 * rank(d) \in 1..Len(A)
                                 /\ forcing_disjunction(d) = p => d = e
                                 /\ p # 2 * rank(d)
  BY ArrayPlaces DEF ArrayInv
<1>5. /\ Len(B) = Len(A) /\ B[p] = -t /\ DOMAIN B = 1..Len(A)
      /\ \A j \in 1..Len(A) : j # p => B[j] = A[j]
  <2> HIDE DEF A, p
  <2>1. Len(B) = Len(A) /\ B[p] = -t /\ B \in Seq(Int \ {0})
    BY DEF A, p
  <2>2. \A j \in 1..Len(A) : j # p => B[j] = A[j]
    BY DEF A, p
  <2> HIDE DEF B
  <2> QED BY <2>1, <2>2
<1> HIDE DEF p
<1>6. A[p] \in Int \ {0} /\ A[p] < 0 /\ terminalOf(e) = -A[p] /\ terminalOf(e) = var(A[p])
  <2>1. A[p] \in Int \ {0}
    BY <1>4, ArrayPlaces
  <2>2. A[p] < 0
    BY DEF ArrayInv, p
  <2>3. terminalOf(e) = -A[p]
    BY DEF terminalOf, p
  <2> HIDE DEF A
  <2> QED BY <2>1, <2>2, <2>3 DEF var
<1>7. \A k \in 1..Len(A) : k # p => var(B[k]) # t
  <2> SUFFICES ASSUME NEW k \in 1..Len(A), k # p PROVE var(B[k]) # t
    OBVIOUS
  <2>1. var(A[k]) \in Public
    BY <1>4 DEF Public, Entries
  <2>2. var(A[k]) \in 1..last_variable
    BY <2>1, PublicFacts
  <2>3. B[k] = A[k]
    BY <1>5
  <2> QED BY <1>3, <2>2, <2>3
<1>8. var(B[p]) = t
  BY <1>3, <1>5 DEF var
<1>9. /\ ArrayInv' /\ NumbersInv' /\ Public' \subseteq Public \cup FA \cup {} \cup FE
      /\ \A n \in Entries : ~(\E k \in DOMAIN A : /\ var(A[k]) = n /\ k \in DOMAIN B /\ var(B[k]) = n)
                  => n \notin Public'
  <2> DEFINE none == {}
  <2>1. /\ FA \cap none = {} /\ none \cap FE = {}
        /\ FA \cup none \cup FE \subseteq (last_variable + 1)..last_variable'
        /\ \A d \in Existentials : selectors'[d] = selectors[d] \/ selectors'[d] \in none
    OBVIOUS
  <2>2. stage' \in {"idle", "preprocessing", "search"} /\ stage' = "search"
        /\ selectors' \in [Existentials -> Nat]
    BY DEF NumbersInv
  <2>3. \A k \in 1..Len(B) :
           \/ k <= Len(A) /\ var(B[k]) = var(A[k])
           \/ /\ var(B[k]) \in FE
              /\ \A l \in 1..Len(B) : var(B[k]) = var(B[l]) => k = l
    <3> SUFFICES ASSUME NEW k \in 1..Len(A)
                 PROVE  \/ k <= Len(A) /\ var(B[k]) = var(A[k])
                        \/ /\ var(B[k]) \in FE
                           /\ \A l \in 1..Len(A) : var(B[k]) = var(B[l]) => k = l
      BY <1>5
    <3>1. CASE k = p
      BY <1>7, <1>8, <3>1
    <3>2. CASE k # p
      <4>1. k <= Len(A)
        BY <1>4
      <4> QED BY <1>5, <3>2, <4>1
    <3> QED BY <3>1, <3>2
  <2>4. \A d \in Existentials : B[forcing_disjunction(d)] < 0 /\ B[2 * rank(d)] = A[2 * rank(d)]
    <3> SUFFICES ASSUME NEW d \in Existentials
                 PROVE  B[forcing_disjunction(d)] < 0 /\ B[2 * rank(d)] = A[2 * rank(d)]
      OBVIOUS
    <3>1. B[2 * rank(d)] = A[2 * rank(d)]
      BY <1>4, <1>5
    <3>2. A[forcing_disjunction(d)] < 0
      BY DEF ArrayInv
    <3>3. B[p] < 0
      BY <1>3, <1>5
    <3> DEFINE q == forcing_disjunction(d)
    <3>4. q \in 1..Len(A)
      BY <1>4
    <3> HIDE DEF q
    <3>5. B[q] < 0
      BY <1>5, <3>2, <3>3, <3>4 DEF q
    <3> QED BY <3>1, <3>5 DEF q
  <2>5. Len(A) <= Len(B)
    BY <1>4, <1>5
  <2> HIDE DEF none
  <2>6. /\ ArrayInv' /\ NumbersInv' /\ Public' \subseteq Public \cup FA \cup none \cup FE
        /\ \A n \in Entries : ~(\E k \in DOMAIN A : /\ var(A[k]) = n /\ k \in DOMAIN B /\ var(B[k]) = n)
                  => n \notin Public'
    BY <2>2, <2>3, <2>4, <2>5, <2>1, NumbersKept
  <2> QED BY <2>6 DEF none
<1>10. terminalOf(e) \notin Public'
  <2>1. terminalOf(e) \in Entries
    BY <1>4, <1>6 DEF Entries
  <2>2. ~(\E k \in DOMAIN A : /\ var(A[k]) = terminalOf(e) /\ k \in DOMAIN B /\ var(B[k]) = terminalOf(e))
    <3> SUFFICES ASSUME NEW k \in DOMAIN A, var(A[k]) = terminalOf(e), var(B[k]) = terminalOf(e)
                 PROVE  FALSE
      OBVIOUS
    <3>1. k = p
      BY <1>4, <1>6 DEF ArrayInv
    <3>2. t = terminalOf(e)
      BY <1>8, <3>1
    <3>3. terminalOf(e) \in 1..last_variable
      BY <2>1, PublicFacts DEF Public
    <3> QED BY <1>3, <3>2, <3>3
  <2> QED BY <1>9, <2>1, <2>2
<1> QED BY <1>9, <1>10

\* Rules R for e change nothing else, and they replace the terminal of its disjunction by
\* t; FA are numbers of new arbiters, FE of new terminals.
RulesAdded(e, FA, FE, R, t, more, defaults, hidden) ==
    /\ UNCHANGED <<stage, reads, default_selectors, variables_with_defaults, fixed_defaults,
                   default_trees, selectors, definitions>>
    /\ last_variable' \in Nat /\ last_variable <= last_variable'
    /\ FA \cap FE = {} /\ FA \cup FE \subseteq (last_variable + 1)..last_variable'
    /\ Arbiters' \subseteq Arbiters \cup FA /\ proper_arbiters \subseteq proper_arbiters'
    /\ proper_arbiters' \subseteq Arbiters'
    /\ forcing_clauses' = forcing_clauses \cup R
    /\ \A r \in R : /\ r.literal \in {e, -e}
                    /\ \A l \in r.premise : l \in Int \ {0} /\ var(l) \in Variables \cup proper_arbiters'
    /\ t \in FE
    /\ validity_check_assumptions' = [validity_check_assumptions EXCEPT ![forcing_disjunction(e)] = -t]
    /\ validity_clauses' = [validity_clauses EXCEPT ![e] = validity_clauses[e] \cup more]
    /\ Conforms(e, defaults)
    /\ Encodes(e, selectors[e], validity_clauses[e] \cup more, t, RulesOf(e) \cup R, defaults, hidden)
    /\ Within(validity_clauses[e] \cup more, last_variable')
    /\ hidden \subseteq 1..last_variable'
    /\ \A h \in hidden : h \notin FA \cup FE /\ (h \notin Public \/ h = terminalOf(e))
    /\ \A C \in defaults : \A l \in C : var(l) <= last_variable'

LEMMA ForcingKeeps ==
    ASSUME RulesInv, stage = "search", NEW e \in undefined, NEW FA, NEW FE, NEW R, NEW t, NEW more,
           NEW defaults, NEW hidden, RulesAdded(e, FA, FE, R, t, more, defaults, hidden)
    PROVE  RulesInv'
<1>0. /\ UNCHANGED <<stage, reads, default_selectors, variables_with_defaults, fixed_defaults,
                   default_trees, selectors, definitions>>
      /\ last_variable' \in Nat /\ last_variable <= last_variable'
      /\ FA \cap FE = {} /\ FA \cup FE \subseteq (last_variable + 1)..last_variable'
      /\ Arbiters' \subseteq Arbiters \cup FA /\ proper_arbiters \subseteq proper_arbiters'
      /\ proper_arbiters' \subseteq Arbiters'
      /\ forcing_clauses' = forcing_clauses \cup R
      /\ \A r \in R : /\ r.literal \in {e, -e}
                    /\ \A l \in r.premise : l \in Int \ {0} /\ var(l) \in Variables \cup proper_arbiters'
      /\ t \in FE
      /\ validity_check_assumptions' = [validity_check_assumptions EXCEPT ![forcing_disjunction(e)] = -t]
      /\ validity_clauses' = [validity_clauses EXCEPT ![e] = validity_clauses[e] \cup more]
      /\ Conforms(e, defaults)
      /\ Encodes(e, selectors[e], validity_clauses[e] \cup more, t, RulesOf(e) \cup R, defaults, hidden)
      /\ Within(validity_clauses[e] \cup more, last_variable')
      /\ hidden \subseteq 1..last_variable'
      /\ \A h \in hidden : h \notin FA \cup FE /\ (h \notin Public \/ h = terminalOf(e))
      /\ \A C \in defaults : \A l \in C : var(l) <= last_variable'
  BY Zenon DEF RulesAdded
<1> USE <1>0
<1> DEFINE A == validity_check_assumptions
           B == A'
           p == forcing_disjunction(e)
<1>1. /\ ArrayInv /\ NumbersInv /\ SuffixInv /\ SortsInv /\ SearchInv
      /\ \A d \in DOMAIN definitions : IsDefined(d)
  BY DEF RulesInv
<1>2. e \in Existentials /\ e \in Nat \ {0} /\ undefined' = undefined
      /\ \A d \in undefined : d \in Existentials
  BY NumberOfFacts DEF undefined, Variables
<1>3. t \in Nat \ {0} /\ last_variable \in Nat /\ Introduced \in Nat /\ Introduced <= last_variable
  BY <1>1, NumberOfFacts DEF NumbersInv
<1>4. /\ A \in Seq(Int \ {0}) /\ DOMAIN A = 1..Len(A) /\ Len(A) \in Nat /\ p \in 1..Len(A)
      /\ \A d \in Existentials : /\ forcing_disjunction(d) \in 1..Len(A) /\ 2 * rank(d) \in 1..Len(A)
                                 /\ forcing_disjunction(d) = p => d = e
                                 /\ p # 2 * rank(d)
      /\ p <= 2 * Cardinality(Existentials)
  BY <1>1, <1>2, ArrayPlaces DEF ArrayInv
<1>5. /\ B \in Seq(Int \ {0}) /\ Len(B) = Len(A) /\ B[p] = -t
      /\ \A j \in 1..Len(A) : j # p => B[j] = A[j]
  <2> DEFINE v == -t
             L == Len(A)
  <2>1. v \in Int \ {0} /\ B = [A EXCEPT ![p] = v] /\ Len(A) = L
    BY <1>3
  <2> HIDE DEF v, A, B, p, L
  <2> QED BY <1>4, <2>1 DEF v, L
<1> HIDE DEF p, B
<1>9. ArrayInv' /\ NumbersInv' /\ Public' \subseteq Public \cup FA \cup FE /\ terminalOf(e) \notin Public'
  <2>1. /\ B \in Seq(Int \ {0}) /\ Len(B) = Len(A) /\ B[forcing_disjunction(e)] = -t
        /\ \A j \in 1..Len(A) : j # forcing_disjunction(e) => B[j] = A[j]
    BY <1>5 DEF p
  <2> QED BY <1>1, <1>2, <2>1, TerminalReplaced DEF B
<1>10. Grows
  BY <1>3, <1>9 DEF Grows
<1>11. \A d : current(d)' = current(d) /\ (treeActive(d)' <=> treeActive(d))
  BY DEF current, treeActive, treeIsAvailable, Whole
<1>12. SuffixInv' /\ PlacesInv' /\ \A d, D : Conforms(d, D) => Conforms(d, D)'
  <2>1. SuffixInv'
    <3> DEFINE L == Len(default_selectors)
               m == Cardinality(Existentials)
    <3>1. L \in Nat /\ m \in Nat /\ 2 * m + L <= Len(A) /\ \A k \in 1..L : A[Len(A) - L + k] = default_selectors[k]
      BY <1>1, SuffixFacts, RankFacts DEF SuffixInv
    <3>2. ASSUME NEW k \in 1..L PROVE B[Len(A) - L + k] = default_selectors[k]
      <4> DEFINE j == Len(A) - L + k
      <4>1. j \in 1..Len(A) /\ j # p
        <5> HIDE DEF L, m, A
        <5> QED BY <1>4, <3>1 DEF m
      <4> HIDE DEF j
      <4>2. B[j] = A[j]
        BY <1>5, <4>1
      <4> QED BY <3>1, <4>2 DEF j
    <3> QED BY <1>1, <1>5, <3>2 DEF SuffixInv, B
  <2>2. \A d, c : spot(d, c)' = spot(d, c)
    BY <1>11 DEF spot
  <2>4. \A k : Retired(k)' <=> Retired(k)
    BY <1>2, <1>11, <2>2 DEF Retired
  <2>5. \A d, c, b : currentClause(d, c, b)' = currentClause(d, c, b)
    BY <2>2 DEF currentClause, selectorOf
  <2>6. PlacesInv'
    <3>1. PlacesInv
      BY <1>1 DEF SearchInv
    <3>2. ASSUME NEW d \in undefined, NEW c \in DOMAIN current(d)
          PROVE  IsPlace(current(d)[c])' /\ IsCube(c, Variables)
      <4> DEFINE q == current(d)[c]
      <4>1. IsPlace(q) /\ IsCube(c, Variables) /\ q' = q
        BY <1>11, <3>1 DEF PlacesInv
      <4> HIDE DEF q
      <4>2. IsPlace(q)'
        BY <1>5, <4>1 DEF IsPlace, B
      <4> QED BY <4>1, <4>2 DEF q
    <3>3. (\A d \in undefined : \A c \in DOMAIN current(d) :
             IsPlace(current(d)[c]) /\ IsCube(c, Variables))'
      BY <1>2, <1>11, <3>2
    <3>4. (\A d, g \in undefined : \A b \in DOMAIN current(d) : \A c \in DOMAIN current(g) :
             d # g \/ b # c => Distant(spot(d, b), spot(g, c)))'
      BY <1>2, <1>11, <2>2, <3>1 DEF PlacesInv
    <3>5. (\A d \in undefined : IsPartition(DOMAIN current(d)))'
      BY <1>2, <1>11, <3>1 DEF PlacesInv
    <3>6. (variables_with_defaults = undefined)'
          /\ (\A d \in undefined : treeActive(d) \/ d \in DOMAIN fixed_defaults)'
      BY <1>2, <1>11, <3>1 DEF PlacesInv
    <3> QED BY <3>3, <3>4, <3>5, <3>6 DEF PlacesInv
  <2>7. \A d, D : Conforms(d, D) => Conforms(d, D)'
    BY <1>11, <2>4, <2>5 DEF Conforms
  <2> QED BY <2>1, <2>6, <2>7
<1>13. /\ DOMAIN validity_clauses' = Existentials /\ validity_clauses'[e] = validity_clauses[e] \cup more
       /\ \A d \in Existentials \ {e} : validity_clauses'[d] = validity_clauses[d]
  BY <1>1, <1>2 DEF SortsInv
<1>14. SortsInv'
  <2>1. \A d \in Existentials : validity_clauses'[d] = validity_clauses[d]
                                  \/ Within(validity_clauses'[d], last_variable')
    BY <1>13
  <2> QED BY <1>1, <1>10, <1>13, <2>1, SortsKept
<1>15. (\A d \in DOMAIN definitions : IsDefined(d))'
  <2>1. ASSUME NEW d \in DOMAIN definitions PROVE IsDefined(d)'
    <3>1. d \in Existentials \ {e}
      BY <1>1 DEF SortsInv, undefined
    <3> QED BY <1>1, <1>10, <1>13, <3>1, DefinedKept
  <2> QED BY <2>1
<1>16. \A r \in R : var(r.literal) = e
  BY <1>2 DEF var
<1>17. ASSUME NEW d \in undefined, d # e PROVE Encoded(d)'
  <2>1. d \in Existentials /\ Encoded(d)
    BY <1>1, <1>2 DEF SearchInv
  <2>2. RulesOf(d)' = RulesOf(d)
    BY <1>16, <1>17 DEF RulesOf
  <2>3. B[forcing_disjunction(d)] = A[forcing_disjunction(d)]
    BY <1>4, <1>5, <1>17, <2>1
  <2>4. validity_clauses'[d] = validity_clauses[d] /\ selectors'[d] = selectors[d]
    BY <1>13, <1>17, <2>1
  <2> QED BY <1>10, <1>12, <2>1, <2>2, <2>3, <2>4, EncodedKept DEF B
<1>18. Encoded(e)'
  <2>1. RulesOf(e)' = RulesOf(e) \cup R
    BY <1>16 DEF RulesOf
  <2>2. terminalOf(e)' = t
    BY <1>3, <1>5 DEF terminalOf, p, B
  <2>3. terminalOf(e) \notin Public'
    BY <1>9
  <2>4. hidden \cap Public' = {}
    BY <1>9, <2>3
  <2>5. Encodes(e, selectors[e], validity_clauses[e], terminalOf(e), RulesOf(e), defaults, hidden)'
    BY <1>13, <2>1, <2>2
  <2>6. Conforms(e, defaults)'
    BY <1>12
  <2> QED BY <2>4, <2>5, <2>6 DEF Encoded
<1>19. (\A r \in forcing_clauses : IsRule(r))'
  <2>1. \A r \in forcing_clauses : IsRule(r)
    BY <1>1 DEF SearchInv
  <2>2. ASSUME NEW r \in forcing_clauses' PROVE IsRule(r)'
    <3>1. \E d \in undefined : r.literal \in {d, -d}
      BY <2>1 DEF IsRule
    <3>2. \A l \in r.premise : l \in Int \ {0} /\ var(l) \in Variables \cup proper_arbiters'
      BY <2>1 DEF IsRule
    <3> QED BY <1>2, <3>1, <3>2 DEF IsRule
  <2> QED BY <2>2
<1>20. (\A d \in undefined : Encoded(d))'
  BY <1>2, <1>17, <1>18
<1>21. SearchInv'
  <2>1. (DOMAIN default_trees \subseteq undefined)'
    BY <1>1, <1>2 DEF SearchInv
  <2> QED BY <1>12, <1>19, <1>20, <2>1 DEF SearchInv
<1>22. stage' = "search"
  OBVIOUS
<1> QED BY <1>9, <1>12, <1>14, <1>15, <1>21, <1>22 DEF RulesInv

\* What is known of an undefined variable in the search.
Context(e, D, H) ==
    /\ Encodes(e, selectors[e], validity_clauses[e], terminalOf(e), RulesOf(e), D, H)
    /\ H \subseteq 1..last_variable /\ H \cap Public = {}
    /\ \A C \in D : \A l \in C : var(l) <= last_variable
    /\ Conforms(e, D)
    /\ Within(validity_clauses[e], last_variable)
    /\ last_variable \in Nat /\ Introduced \in Nat /\ Introduced <= last_variable
    /\ terminalOf(e) \in Public /\ terminalOf(e) <= last_variable /\ selectors[e] <= last_variable
    /\ e <= last_variable
    /\ \A r \in RulesOf(e) : \A l \in r.premise : var(l) <= last_variable

LEMMA RuleContext ==
    ASSUME RulesInv, stage = "search", NEW e \in undefined
    PROVE  /\ \E D, H : Context(e, D, H)
           /\ \A H : H \cap Public = {} => \A l \in Int \ {0} :
                 var(l) \in Variables \cup Arbiters => IsOuter(l, e, terminalOf(e), H) /\ var(l) <= last_variable
           /\ -terminalOf(e) = validity_check_assumptions[forcing_disjunction(e)]
           /\ e \in Nat \ {0} /\ e \in Existentials
<1>1. /\ ArrayInv /\ NumbersInv /\ SortsInv /\ SearchInv
  BY DEF RulesInv
<1>2. e \in Existentials /\ e \in Nat \ {0} /\ e \in Public
  BY NumberOfFacts DEF undefined, Variables, Public
<1>3. last_variable \in Nat /\ Introduced \in Nat /\ Introduced <= last_variable
  BY <1>1, NumberOfFacts DEF NumbersInv
<1>4. \A k \in Public : k <= last_variable
  <2>1. Public \subseteq 1..last_variable
    BY <1>1, PublicFacts
  <2> HIDE DEF Public
  <2> QED BY <1>3, <2>1
<1> DEFINE A == validity_check_assumptions
           p == forcing_disjunction(e)
           T == terminalOf(e)
<1>5. /\ p \in DOMAIN A /\ A[p] \in Int \ {0} /\ A[p] < 0
  BY <1>1, <1>2, ArrayPlaces DEF ArrayInv
<1>6. T \in Entries /\ T \in Public /\ -T = A[p]
  <2>1. T = -A[p]
    BY DEF terminalOf
  <2> HIDE DEF T, A, p
  <2>2. T = var(A[p]) /\ -T = A[p]
    BY <1>5, <2>1 DEF var
  <2>3. T \in Entries
    BY <1>5, <2>2 DEF Entries, A
  <2> QED BY <2>2, <2>3 DEF Public
<1>7. selectors[e] \in Public
  BY <1>2 DEF Public, Selectors
<1>8. \E D, H : Context(e, D, H)
  <2>1. PICK D, H :
          /\ Encodes(e, selectors[e], validity_clauses[e], terminalOf(e), RulesOf(e), D, H)
          /\ H \subseteq 1..last_variable /\ H \cap Public = {}
          /\ \A C \in D : \A l \in C : var(l) <= last_variable
          /\ Conforms(e, D)
    BY <1>1 DEF SearchInv, Encoded
  <2>2. Within(validity_clauses[e], last_variable)
    BY <1>1, <1>2 DEF SortsInv
  <2>3. ASSUME NEW r \in RulesOf(e), NEW l \in r.premise PROVE var(l) <= last_variable
    <3>1. var(l) \in Variables \cup proper_arbiters
      BY <1>1 DEF SearchInv, IsRule, RulesOf
    <3>2. var(l) \in Public
      BY <1>1, <3>1 DEF NumbersInv, Public
    <3> QED BY <1>3, <1>4, <3>2
  <2>4. T <= last_variable /\ selectors[e] <= last_variable /\ e <= last_variable
    BY <1>2, <1>3, <1>4, <1>6, <1>7
  <2> QED BY <1>3, <1>6, <2>1, <2>2, <2>3, <2>4 DEF Context
<1>9. ASSUME NEW H, H \cap Public = {}, NEW l \in Int \ {0}, var(l) \in Variables \cup Arbiters
      PROVE  IsOuter(l, e, T, H) /\ var(l) <= last_variable
  <2>1. var(l) \in Public
    BY <1>9 DEF Public
  <2>2. no_forcing_clause_active(e) \notin Public /\ apply_default(e) \notin Public
    BY <1>1, <1>2, PublicFacts
  <2>3. var(l) # T
    BY <1>1, <1>6, <1>9, PublicFacts DEF NumbersInv
  <2>4. var(l) <= last_variable
    BY <1>3, <1>4, <2>1
  <2> HIDE DEF T
  <2> QED BY <1>9, <2>1, <2>2, <2>3, <2>4 DEF IsOuter, Inner
<1> QED BY <1>2, <1>6, <1>8, <1>9

\* The search adds one rule.
IsOneRule(e, r) ==
    /\ UNCHANGED <<stage, reads, default_selectors, variables_with_defaults, fixed_defaults,
                   default_trees, selectors, definitions, arbiter_to_annotation, proper_arbiters>>
    /\ r.literal \in {e, -e}
    /\ \A l \in r.premise : l \in Int \ {0} /\ var(l) \in Variables \cup proper_arbiters
    /\ last_variable' = last_variable + 4 /\ forcing_clauses' = forcing_clauses \cup {r}
    /\ validity_check_assumptions' =
         [validity_check_assumptions EXCEPT ![forcing_disjunction(e)] = -(last_variable + 4)]
    /\ validity_clauses' = [validity_clauses EXCEPT ![e] = validity_clauses[e] \cup
          guarded(validityRule(e, r, validity_check_assumptions[forcing_disjunction(e)],
                               last_variable), selectors[e])]

LEMMA OneRuleKeeps ==
    ASSUME RulesInv, stage = "search", NEW e \in undefined, NEW r, IsOneRule(e, r)
    PROVE  RulesInv'
<1>0. /\ UNCHANGED <<stage, reads, default_selectors, variables_with_defaults, fixed_defaults,
                   default_trees, selectors, definitions, arbiter_to_annotation, proper_arbiters>>
      /\ r.literal \in {e, -e}
      /\ \A l \in r.premise : l \in Int \ {0} /\ var(l) \in Variables \cup proper_arbiters
      /\ last_variable' = last_variable + 4 /\ forcing_clauses' = forcing_clauses \cup {r}
      /\ validity_check_assumptions' =
           [validity_check_assumptions EXCEPT ![forcing_disjunction(e)] = -(last_variable + 4)]
      /\ validity_clauses' = [validity_clauses EXCEPT ![e] = validity_clauses[e] \cup
          guarded(validityRule(e, r, validity_check_assumptions[forcing_disjunction(e)],
                               last_variable), selectors[e])]
  BY Zenon DEF IsOneRule
<1> USE <1>0
<1> DEFINE n == last_variable
           S == selectors[e]
           T == terminalOf(e)
           cs == validity_clauses[e]
           more == guarded(validityRule(e, r, validity_check_assumptions[forcing_disjunction(e)], n), S)
<1>1. PICK D, H : Context(e, D, H)
  BY RuleContext
<1>2. /\ Encodes(e, S, cs, T, RulesOf(e), D, H) /\ Conforms(e, D)
      /\ H \subseteq 1..n /\ H \cap Public = {} /\ Within(cs, n)
      /\ \A C \in D : \A l \in C : var(l) <= n
      /\ n \in Nat /\ Introduced <= n /\ T <= n /\ S <= n /\ e <= n /\ T \in Public
      /\ \A q \in RulesOf(e) : \A l \in q.premise : var(l) <= n
  BY <1>1 DEF Context
<1>3. /\ proper_arbiters \subseteq Arbiters /\ e \in Existentials /\ Arbiters' = Arbiters
      /\ Public \subseteq 1..n
  BY PublicFacts DEF RulesInv, NumbersInv, undefined, Arbiters
<1>4. \A l \in r.premise : IsOuter(l, e, T, H) /\ var(l) <= n
  BY <1>2, <1>3, RuleContext
<1>5. Encodes(e, S, cs \cup more, n + 4, RulesOf(e) \cup {r}, D, H \cup {T, n + 3})
      /\ Within(cs \cup more, n + 4)
  <2>1. CanEncode(e, S, cs, T, RulesOf(e), D, H, n, r)
    BY <1>0, <1>2, <1>4, Zenon DEF CanEncode
  <2>2. -T = validity_check_assumptions[forcing_disjunction(e)]
    BY RuleContext
  <2>3. RuleIsEncoded(e, S, cs, T, RulesOf(e), D, H, n, r)
    BY <1>3, <2>1, RuleEncoded
  <2> QED BY <2>2, <2>3, Zenon DEF RuleIsEncoded
<1> DEFINE hidden == H \cup {T, n + 3}
           t == n + 4
           FE == {n + 4}
           none == {}
           R == {r}
<1>6. /\ last_variable' \in Nat /\ n <= last_variable' /\ none \cap FE = {} /\ t \in FE
      /\ none \cup FE \subseteq (n + 1)..last_variable' /\ Arbiters' \subseteq Arbiters \cup none
      /\ proper_arbiters \subseteq proper_arbiters' /\ proper_arbiters' \subseteq Arbiters'
  BY <1>2, <1>3
<1>7. hidden \subseteq 1..last_variable' /\ \A h \in hidden : h \notin none \cup FE /\ (h \notin Public \/ h = T)
  <2>1. T \in 1..n
    BY <1>2, <1>3
  <2>2. n + 3 \notin Public
    BY <1>2, <1>3
  <2>3. \A h \in H : h \in 1..n
    BY <1>2
  <2>4. \A h \in 1..n : h \in 1..last_variable' /\ h # n + 4
    BY <1>2
  <2>5. n + 3 \in 1..last_variable' /\ n + 3 # n + 4
    BY <1>2
  <2> HIDE DEF T, n
  <2> QED BY <1>2, <2>2, <2>3, <2>4, <2>5, <2>1
<1>8. \A C \in D : \A l \in C : var(l) <= last_variable'
  <2>1. \A l \in Int \ {0} : var(l) \in Nat
    BY DEF var
  <2> QED BY <1>2, <2>1 DEF Encodes, Separated, IsOuter
<1>9. /\ forcing_clauses' = forcing_clauses \cup R
      /\ \A q \in R : /\ q.literal \in {e, -e}
                      /\ \A l \in q.premise : l \in Int \ {0} /\ var(l) \in Variables \cup proper_arbiters'
  OBVIOUS
<1>10. /\ validity_check_assumptions' = [validity_check_assumptions EXCEPT ![forcing_disjunction(e)] = -t]
       /\ validity_clauses' = [validity_clauses EXCEPT ![e] = validity_clauses[e] \cup more]
       /\ Encodes(e, selectors[e], validity_clauses[e] \cup more, t, RulesOf(e) \cup R, D, hidden)
       /\ Within(validity_clauses[e] \cup more, last_variable')
  BY <1>5
<1> HIDE DEF hidden, t, FE, none, R, more
<1>11. RulesAdded(e, none, FE, R, t, more, D, hidden)
  BY <1>2, <1>6, <1>7, <1>8, <1>9, <1>10, Zenon DEF RulesAdded
<1> QED BY <1>11, ForcingKeeps

\* addRules with one rule, and with two.
LEMMA OneAdded ==
    ASSUME NEW e, NEW r, NEW n \in Nat, addRules(e, <<r>>, n)
    PROVE  /\ last_variable' = n + 4 /\ forcing_clauses' = forcing_clauses \cup {r}
           /\ validity_check_assumptions' =
                [validity_check_assumptions EXCEPT ![forcing_disjunction(e)] = -(n + 4)]
           /\ validity_clauses' = [validity_clauses EXCEPT ![e] = validity_clauses[e] \cup
                guarded(validityRule(e, r, validity_check_assumptions[forcing_disjunction(e)], n),
                        selectors[e])]
           /\ UNCHANGED <<stage, reads, default_selectors, variables_with_defaults, fixed_defaults,
                          default_trees, selectors, definitions>>
<1> DEFINE rules == <<r>>
           start(k) == n + 4 * (k - 1)
           A == validity_check_assumptions
           p == forcing_disjunction(e)
           V(k) == validityRule(e, rules[k], IF k = 1 THEN A[p] ELSE -start(k), start(k))
<1>1. /\ Len(rules) = 1 /\ DOMAIN rules = {1} /\ rules[1] = r
  OBVIOUS
<1>2. start(1) = n /\ start(Len(rules)) + 4 = n + 4
  BY <1>1
<1>3. UNION {V(k) : k \in DOMAIN rules} = validityRule(e, r, A[p], n)
  <2>1. V(1) = validityRule(e, r, A[p], n)
    BY <1>1, <1>2
  <2> HIDE DEF V, rules
  <2>2. {V(k) : k \in DOMAIN rules} = {V(1)}
    BY <1>1
  <2> QED BY <2>1, <2>2
<1>4. /\ validity_clauses' = [validity_clauses EXCEPT ![e] = validity_clauses[e] \cup
            guarded(UNION {V(k) : k \in DOMAIN rules}, selectors[e])]
      /\ A' = [A EXCEPT ![p] = -(start(Len(rules)) + 4)]
      /\ forcing_clauses' = forcing_clauses \cup {rules[k] : k \in DOMAIN rules}
      /\ last_variable' = start(Len(rules)) + 4
      /\ UNCHANGED <<stage, reads, default_selectors, variables_with_defaults, fixed_defaults,
                     default_trees, selectors, definitions>>
  BY DEF addRules
<1>5. {rules[k] : k \in DOMAIN rules} = {r}
  BY <1>1
<1> QED BY <1>2, <1>3, <1>4, <1>5

LEMMA TwoAdded ==
    ASSUME NEW e, NEW r, NEW q, NEW n \in Nat, addRules(e, <<r, q>>, n)
    PROVE  /\ last_variable' = n + 8 /\ forcing_clauses' = forcing_clauses \cup {r, q}
           /\ validity_check_assumptions' =
                [validity_check_assumptions EXCEPT ![forcing_disjunction(e)] = -(n + 8)]
           /\ validity_clauses' = [validity_clauses EXCEPT ![e] = validity_clauses[e] \cup
                (guarded(validityRule(e, r, validity_check_assumptions[forcing_disjunction(e)], n),
                         selectors[e])
                 \cup guarded(validityRule(e, q, -(n + 4), n + 4), selectors[e]))]
           /\ UNCHANGED <<stage, reads, default_selectors, variables_with_defaults, fixed_defaults,
                          default_trees, selectors, definitions>>
<1> DEFINE rules == <<r, q>>
           start(k) == n + 4 * (k - 1)
           A == validity_check_assumptions
           p == forcing_disjunction(e)
           V(k) == validityRule(e, rules[k], IF k = 1 THEN A[p] ELSE -start(k), start(k))
           V1 == validityRule(e, r, A[p], n)
           V2 == validityRule(e, q, -(n + 4), n + 4)
<1>1. /\ Len(rules) = 2 /\ DOMAIN rules = {1, 2} /\ rules[1] = r /\ rules[2] = q
  OBVIOUS
<1>2. start(1) = n /\ start(2) = n + 4 /\ start(Len(rules)) + 4 = n + 8
  BY <1>1
<1>3. UNION {V(k) : k \in DOMAIN rules} = V1 \cup V2
  <2>1. V(1) = V1 /\ V(2) = V2
    BY <1>1, <1>2
  <2> HIDE DEF V, rules, V1, V2
  <2>2. {V(k) : k \in DOMAIN rules} = {V(1), V(2)}
    BY <1>1
  <2> QED BY <2>1, <2>2
<1>4. /\ validity_clauses' = [validity_clauses EXCEPT ![e] = validity_clauses[e] \cup
            guarded(UNION {V(k) : k \in DOMAIN rules}, selectors[e])]
      /\ A' = [A EXCEPT ![p] = -(start(Len(rules)) + 4)]
      /\ forcing_clauses' = forcing_clauses \cup {rules[k] : k \in DOMAIN rules}
      /\ last_variable' = start(Len(rules)) + 4
      /\ UNCHANGED <<stage, reads, default_selectors, variables_with_defaults, fixed_defaults,
                     default_trees, selectors, definitions>>
  BY DEF addRules
<1>5. {rules[k] : k \in DOMAIN rules} = {r, q}
  BY <1>1
<1>6. guarded(V1 \cup V2, selectors[e]) = guarded(V1, selectors[e]) \cup guarded(V2, selectors[e])
  <2> HIDE DEF V1, V2
  <2> QED BY DEF guarded
<1> QED BY <1>2, <1>3, <1>4, <1>5, <1>6

\* Literals of premises.
LEMMA CubeLiteralsOf ==
    ASSUME NEW c, IsCube(c, Variables)
    PROVE  \A l \in cubeLiterals(c) : l \in Int \ {0} /\ var(l) \in Variables
<1> SUFFICES ASSUME NEW v \in DOMAIN c
             PROVE  literal(v, c[v]) \in Int \ {0} /\ var(literal(v, c[v])) \in Variables
  BY DEF cubeLiterals
<1>1. v \in Nat \ {0} /\ v \in Variables
  BY NumberOfFacts DEF IsCube
<1> QED BY <1>1 DEF literal, var

LEMMA AddForcingKeeps ==
    ASSUME RulesInv, NEW e \in Existentials, NEW b \in BOOLEAN, NEW cube, NEW X \in ArbiterPremises,
           AddForcingClause(e, b, cube, X)
    PROVE  RulesInv'
<1> DEFINE r == [premise |-> cubeLiterals(cube) \cup X, literal |-> literal(e, b)]
<1>1. /\ stage = "search" /\ e \in undefined /\ IsCube(cube, reads[e])
      /\ addRules(e, <<r>>, last_variable) /\ UNCHANGED <<arbiter_to_annotation, proper_arbiters>>
  BY DEF AddForcingClause
<1>2. last_variable \in Nat /\ reads[e] \subseteq Variables
      /\ proper_arbiters \subseteq Later /\ Introduced \in Nat
  BY NumberOfFacts DEF RulesInv, NumbersInv, SortsInv
<1>3. IsCube(cube, Variables)
  BY <1>1, <1>2 DEF IsCube
<1>4. ASSUME NEW l \in X PROVE l \in Int \ {0} /\ var(l) \in proper_arbiters
  <2>1. \E a \in proper_arbiters, s \in BOOLEAN : l = literal(a, s)
    BY DEF ArbiterPremises
  <2>2. \A a \in proper_arbiters : a \in Nat \ {0}
    BY <1>2 DEF Later
  <2> QED BY <2>1, <2>2 DEF literal, var
<1>5. \A l \in r.premise : l \in Int \ {0} /\ var(l) \in Variables \cup proper_arbiters
  BY <1>3, <1>4, CubeLiteralsOf
<1>6. r.literal \in {e, -e}
  BY DEF literal
<1> HIDE DEF r
<1>7. /\ last_variable' = last_variable + 4 /\ forcing_clauses' = forcing_clauses \cup {r}
      /\ validity_check_assumptions' =
           [validity_check_assumptions EXCEPT ![forcing_disjunction(e)] = -(last_variable + 4)]
      /\ validity_clauses' = [validity_clauses EXCEPT ![e] = validity_clauses[e] \cup
           guarded(validityRule(e, r, validity_check_assumptions[forcing_disjunction(e)], last_variable),
                   selectors[e])]
      /\ UNCHANGED <<stage, reads, default_selectors, variables_with_defaults, fixed_defaults,
                     default_trees, selectors, definitions>>
  BY <1>1, <1>2, OneAdded
<1>8. UNCHANGED <<stage, reads, default_selectors, variables_with_defaults, fixed_defaults,
                  default_trees, selectors, definitions, arbiter_to_annotation, proper_arbiters>>
  BY <1>1, <1>7
<1>9. IsOneRule(e, r)
  BY <1>5, <1>6, <1>7, <1>8, Zenon DEF IsOneRule
<1> QED BY <1>1, <1>9, OneRuleKeeps

\* The clauses of an arbiter, which may be new: n is its number then.
AreTwoRules(e, FA, n, r, q) ==
    /\ UNCHANGED <<stage, reads, default_selectors, variables_with_defaults, fixed_defaults,
                   default_trees, selectors, definitions>>
    /\ n \in Nat /\ ((n = last_variable /\ FA = {}) \/ (n = last_variable + 1 /\ FA = {n}))
    /\ Arbiters' \subseteq Arbiters \cup FA /\ proper_arbiters \subseteq proper_arbiters'
    /\ proper_arbiters' \subseteq Arbiters'
    /\ r.literal \in {e, -e} /\ q.literal \in {e, -e}
    /\ \A l \in r.premise \cup q.premise : l \in Int \ {0} /\ var(l) \in Variables \cup proper_arbiters'
    /\ last_variable' = n + 8 /\ forcing_clauses' = forcing_clauses \cup {r, q}
    /\ validity_check_assumptions' =
         [validity_check_assumptions EXCEPT ![forcing_disjunction(e)] = -(n + 8)]
    /\ validity_clauses' = [validity_clauses EXCEPT ![e] = validity_clauses[e] \cup
         (guarded(validityRule(e, r, validity_check_assumptions[forcing_disjunction(e)], n),
                  selectors[e])
          \cup guarded(validityRule(e, q, -(n + 4), n + 4), selectors[e]))]

LEMMA TwoRulesKeep ==
    ASSUME RulesInv, stage = "search", NEW e \in undefined, NEW FA, NEW n, NEW r, NEW q,
           AreTwoRules(e, FA, n, r, q)
    PROVE  RulesInv'
<1>0. /\ UNCHANGED <<stage, reads, default_selectors, variables_with_defaults, fixed_defaults,
                     default_trees, selectors, definitions>>
      /\ n \in Nat /\ ((n = last_variable /\ FA = {}) \/ (n = last_variable + 1 /\ FA = {n}))
      /\ Arbiters' \subseteq Arbiters \cup FA /\ proper_arbiters \subseteq proper_arbiters'
      /\ proper_arbiters' \subseteq Arbiters'
      /\ r.literal \in {e, -e} /\ q.literal \in {e, -e}
      /\ \A l \in r.premise \cup q.premise : l \in Int \ {0} /\ var(l) \in Variables \cup proper_arbiters'
      /\ last_variable' = n + 8 /\ forcing_clauses' = forcing_clauses \cup {r, q}
      /\ validity_check_assumptions' =
           [validity_check_assumptions EXCEPT ![forcing_disjunction(e)] = -(n + 8)]
      /\ validity_clauses' = [validity_clauses EXCEPT ![e] = validity_clauses[e] \cup
           (guarded(validityRule(e, r, validity_check_assumptions[forcing_disjunction(e)], n),
                    selectors[e])
            \cup guarded(validityRule(e, q, -(n + 4), n + 4), selectors[e]))]
  BY Zenon DEF AreTwoRules
<1> USE <1>0
<1> DEFINE S == selectors[e]
           T == terminalOf(e)
           cs == validity_clauses[e]
           P == validity_check_assumptions[forcing_disjunction(e)]
           new1 == guarded(validityRule(e, r, P, n), S)
           new2 == guarded(validityRule(e, q, -(n + 4), n + 4), S)
           rules == RulesOf(e)
           n4 == n + 4
<1>1. PICK D, H : Context(e, D, H)
  BY RuleContext
<1>2. /\ Encodes(e, S, cs, T, rules, D, H) /\ Conforms(e, D)
      /\ H \subseteq 1..last_variable /\ H \cap Public = {} /\ Within(cs, last_variable)
      /\ \A C \in D : \A l \in C : var(l) <= last_variable
      /\ last_variable \in Nat /\ Introduced \in Nat /\ Introduced <= last_variable
      /\ T <= last_variable /\ S <= last_variable /\ e <= last_variable /\ T \in Public
      /\ \A k \in rules : \A l \in k.premise : var(l) <= last_variable
  BY <1>1 DEF Context
<1>3. /\ proper_arbiters \subseteq Arbiters /\ e \in Existentials /\ Public \subseteq 1..last_variable
      /\ T \in 1..last_variable
  BY <1>2, PublicFacts DEF RulesInv, NumbersInv, undefined, Arbiters
<1>4. /\ n4 \in Nat /\ last_variable <= n /\ last_variable <= n4 /\ n <= n4 /\ Introduced <= n /\ Introduced <= n4
      /\ T <= n /\ S <= n /\ e <= n /\ S <= n4 /\ e <= n4 /\ n4 <= n4
      /\ S \in Nat /\ T \in Nat /\ e \in Nat
  <2>1. S \in Nat /\ e \in Nat /\ T \in Nat
    BY <1>2, <1>3 DEF Encodes, Separated
  <2> HIDE DEF S, T
  <2> QED BY <1>2, <2>1
<1>5. \A k \in Int \ {0} : var(k) \in Nat
  BY DEF var
<1>6. /\ \A C \in D : \A l \in C : l \in Int \ {0}
      /\ \A k \in rules : \A l \in k.premise : l \in Int \ {0}
  BY <1>2 DEF Encodes, Separated, IsOuter
<1>7. /\ \A C \in D : \A l \in C : var(l) <= n /\ var(l) <= n4 /\ var(l) <= n + 8
      /\ \A k \in rules : \A l \in k.premise : var(l) <= n /\ var(l) <= n4
  <2>1. \A i \in Nat : i <= last_variable => i <= n /\ i <= n4 /\ i <= n + 8
    BY <1>2, <1>4
  <2> HIDE DEF n4, rules
  <2> QED BY <1>2, <1>5, <1>6, <2>1
<1>8. no_forcing_clause_active(e) <= n /\ apply_default(e) <= n
  BY <1>2, <1>3, <1>4, NumberOfFacts DEF no_forcing_clause_active, apply_default
<1>9. \A l \in r.premise \cup q.premise : IsOuter(l, e, T, H) /\ var(l) <= n
  <2> SUFFICES ASSUME NEW l \in r.premise \cup q.premise PROVE IsOuter(l, e, T, H) /\ var(l) <= n
    OBVIOUS
  <2>1. l \in Int \ {0} /\ var(l) \in Variables \cup Arbiters \cup FA
    OBVIOUS
  <2>2. CASE var(l) \in Variables \cup Arbiters
    <3>1. IsOuter(l, e, T, H) /\ var(l) <= last_variable
      BY <1>2, <2>1, <2>2, RuleContext
    <3> QED BY <1>2, <1>4, <1>5, <2>1, <3>1
  <2>3. CASE var(l) \in FA
    <3>1. var(l) = n /\ n = last_variable + 1
      BY <2>3
    <3>2. no_forcing_clause_active(e) <= last_variable /\ apply_default(e) <= last_variable
      BY <1>2, <1>3, NumberOfFacts DEF no_forcing_clause_active, apply_default
    <3>3. n \notin H /\ n # T
      BY <1>2, <1>3, <3>1
    <3> QED BY <1>2, <2>1, <3>1, <3>2, <3>3 DEF IsOuter, Inner
  <2> QED BY <2>1, <2>2, <2>3
<1> DEFINE H1 == H \cup {T, n + 3}
           cs1 == cs \cup new1
           rules1 == rules \cup {r}
<1>10. Encodes(e, S, cs1, n4, rules1, D, H1) /\ Within(cs1, n4)
  <2>1. -T = P
    BY RuleContext
  <2>2. H \subseteq 1..n /\ Within(cs, n)
    BY <1>2, <1>4, WithinMore
  <2>3. CanEncode(e, S, cs, T, rules, D, H, n, r)
    <3>1. \A l \in r.premise : IsOuter(l, e, T, H) /\ var(l) <= n
      BY <1>9
    <3> HIDE DEF S, T, cs, rules
    <3> QED BY <1>2, <1>4, <1>7, <2>2, <3>1, Zenon DEF CanEncode
  <2>4. new1 = guarded(validityRule(e, r, -T, n), S)
    BY <2>1
  <2>5. RuleIsEncoded(e, S, cs, T, rules, D, H, n, r)
    BY <1>3, <2>3, RuleEncoded
  <2> HIDE DEF S, T, cs, rules, new1
  <2> QED BY <2>4, <2>5, Zenon DEF RuleIsEncoded
<1>11. \A l \in q.premise : IsOuter(l, e, n4, H1) /\ var(l) <= n4
  <2> SUFFICES ASSUME NEW l \in q.premise PROVE IsOuter(l, e, n4, H1) /\ var(l) <= n4
    OBVIOUS
  <2>1. IsOuter(l, e, T, H) /\ var(l) <= n /\ l \in Int \ {0} /\ var(l) \in Nat
    BY <1>5, <1>9
  <2>2. var(l) <= n4 /\ var(l) # n4 /\ var(l) # n + 3
    BY <2>1
  <2> HIDE DEF n4
  <2> QED BY <2>1, <2>2 DEF IsOuter, Inner
<1> DEFINE H2 == H1 \cup {n4, n4 + 3}
           cs2 == cs1 \cup new2
           rules2 == rules1 \cup {q}
<1>12. Encodes(e, S, cs2, n4 + 4, rules2, D, H2) /\ Within(cs2, n4 + 4)
  <2>1. H1 \subseteq 1..n4
    <3>1. \A k \in 1..last_variable : k \in 1..n4
      BY <1>2, <1>4
    <3>2. n + 3 \in 1..n4
      OBVIOUS
    <3> HIDE DEF T, n4
    <3> QED BY <1>2, <1>3, <3>1, <3>2
  <2>2. \A k \in rules1 : \A l \in k.premise : var(l) <= n4
    <3>1. \A l \in r.premise : var(l) <= n4
      BY <1>4, <1>5, <1>9
    <3> HIDE DEF rules, n4
    <3> QED BY <1>7, <3>1
  <2>3. CanEncode(e, S, cs1, n4, rules1, D, H1, n4, q)
    <3> HIDE DEF S, T, cs1, rules1, H1, n4
    <3> QED BY <1>4, <1>7, <1>10, <1>11, <2>1, <2>2, Zenon DEF CanEncode
  <2>4. new2 = guarded(validityRule(e, q, -n4, n4), S)
    OBVIOUS
  <2> DEFINE N == n4 + 4
  <2> HIDE DEF S, T, cs1, rules1, H1, n4, new2
  <2>5. Encodes(e, S, cs1 \cup new2, N, rules1 \cup {q}, D, H1 \cup {n4, n4 + 3}) /\ Within(cs1 \cup new2, N)
    <3>1. RuleIsEncoded(e, S, cs1, n4, rules1, D, H1, n4, q)
      BY <1>3, <2>3, RuleEncoded
    <3> QED BY <2>4, <3>1, Zenon DEF RuleIsEncoded, N
  <2> QED BY <2>5
<1> DEFINE t == n + 8
           FE == {t}
           R == {r, q}
           more == new1 \cup new2
<1>13. Encodes(e, S, cs \cup more, t, rules \cup R, D, H2) /\ Within(cs \cup more, t)
  <2>1. n4 + 4 = t
    OBVIOUS
  <2>2. cs2 = cs \cup more /\ rules2 = rules \cup R
    <3> HIDE DEF new1, new2, cs, rules
    <3> QED OBVIOUS
  <2> HIDE DEF n4, cs2, rules2, H2, t, more, R, cs, rules
  <2> QED BY <1>12, <2>1, <2>2
<1>14. /\ last_variable' \in Nat /\ last_variable <= last_variable'
       /\ FA \cap FE = {} /\ FA \cup FE \subseteq (last_variable + 1)..last_variable' /\ t \in FE
  BY <1>2
<1>15. H2 \subseteq 1..last_variable' /\ \A h \in H2 : h \notin FA \cup FE /\ (h \notin Public \/ h = T)
  <2> HIDE DEF T
  <2>1. H2 = H \cup {T, n + 3, n + 4, n + 7}
    OBVIOUS
  <2>2. \A h \in H : h \in 1..last_variable
    BY <1>2
  <2>3. H2 \subseteq 1..last_variable'
    BY <1>2, <1>3, <1>4, <2>1, <2>2
  <2>4. \A h \in {n + 3, n + 4, n + 7} : h \notin FA \cup FE /\ h \notin Public
    BY <1>2, <1>3, <1>4
  <2>5. \A h \in 1..last_variable : h \notin FA \cup FE
    BY <1>2, <1>4
  <2> HIDE DEF FE, H2
  <2> QED BY <1>2, <1>3, <2>2, <2>3, <2>4, <2>5, <2>1
<1>16. \A C \in D : \A l \in C : var(l) <= last_variable'
  BY <1>7
<1>17. \A k \in R : /\ k.literal \in {e, -e}
                    /\ \A l \in k.premise : l \in Int \ {0} /\ var(l) \in Variables \cup proper_arbiters'
  OBVIOUS
<1>18. /\ validity_check_assumptions' = [validity_check_assumptions EXCEPT ![forcing_disjunction(e)] = -t]
       /\ validity_clauses' = [validity_clauses EXCEPT ![e] = validity_clauses[e] \cup more]
       /\ Encodes(e, selectors[e], validity_clauses[e] \cup more, t, RulesOf(e) \cup R, D, H2)
       /\ Within(validity_clauses[e] \cup more, last_variable')
       /\ \A h \in H2 : h \notin FA \cup FE /\ (h \notin Public \/ h = terminalOf(e))
       /\ forcing_clauses' = forcing_clauses \cup R
  BY <1>13, <1>15
<1> HIDE DEF H2, t, FE, R, more
<1>19. RulesAdded(e, FA, FE, R, t, more, D, H2)
  BY <1>2, <1>14, <1>15, <1>16, <1>17, <1>18, Zenon DEF RulesAdded
<1> QED BY <1>19, ForcingKeeps

\* What the default rules say of the places depends on these variables only.
LEMMA ConformsSame ==
    ASSUME UNCHANGED <<definitions, default_selectors, fixed_defaults, default_trees>>
    PROVE  \A d, D : Conforms(d, D) => Conforms(d, D)'
<1>1. undefined' = undefined /\ \A d : current(d)' = current(d)
  BY DEF undefined, current, treeActive, treeIsAvailable, Whole
<1>2. \A d, c : spot(d, c)' = spot(d, c)
  BY <1>1 DEF spot
<1>3. \A k : Retired(k)' <=> Retired(k)
  BY <1>1, <1>2 DEF Retired
<1>4. \A d, c, b : currentClause(d, c, b)' = currentClause(d, c, b)
  BY <1>2 DEF currentClause, selectorOf
<1> QED BY <1>1, <1>3, <1>4 DEF Conforms

\* A new arbiter, or none, without clauses.
ArbiterVars == <<stage, default_setting, reads, validity_check_assumptions, default_selectors,
                 variables_with_defaults, fixed_defaults, default_trees, selectors, validity_clauses,
                 consistency_clauses, disjunction_terminals, default_function_selectors, definitions,
                 forcing_clauses, proper_arbiters>>

LEMMA ArbiterKeeps ==
    ASSUME RulesInv, stage = "search", UNCHANGED ArbiterVars, NEW FA,
           last_variable' \in Nat, last_variable <= last_variable',
           FA \subseteq (last_variable + 1)..last_variable', Arbiters' = Arbiters \cup FA
    PROVE  RulesInv'
<1> DEFINE A == validity_check_assumptions
<1>1. /\ ArrayInv /\ NumbersInv /\ SuffixInv /\ SortsInv /\ SearchInv
      /\ \A e \in DOMAIN definitions : IsDefined(e)
  BY DEF RulesInv
<1>2. /\ stage' = stage /\ reads' = reads /\ A' = A /\ default_selectors' = default_selectors
      /\ variables_with_defaults' = variables_with_defaults /\ fixed_defaults' = fixed_defaults
      /\ default_trees' = default_trees /\ selectors' = selectors
      /\ validity_clauses' = validity_clauses /\ definitions' = definitions
      /\ forcing_clauses' = forcing_clauses /\ proper_arbiters' = proper_arbiters
  BY DEF ArbiterVars
<1>3. /\ ArrayInv' /\ NumbersInv' /\ Public' \subseteq Public \cup FA
  <2> DEFINE none == {}
  <2>1. /\ FA \cap none = {} /\ none \cap none = {}
        /\ FA \cup none \cup none \subseteq (last_variable + 1)..last_variable'
        /\ \A d \in Existentials : selectors'[d] = selectors[d] \/ selectors'[d] \in none
        /\ Arbiters' \subseteq Arbiters \cup FA /\ proper_arbiters' \subseteq Arbiters'
        /\ selectors' \in [Existentials -> Nat]
        /\ stage' = "search" /\ stage' \in {"idle", "preprocessing", "search"}
    BY <1>1, <1>2 DEF NumbersInv
  <2>2. A' \in Seq(Int \ {0}) /\ Len(A) <= Len(A')
    BY <1>1, <1>2 DEF ArrayInv
  <2>3. \A k \in 1..Len(A') :
           \/ k <= Len(A) /\ var(A'[k]) = var(A[k])
           \/ /\ var(A'[k]) \in none
              /\ \A l \in 1..Len(A') : var(A'[k]) = var(A'[l]) => k = l
    <3>1. Len(A) \in Nat
      BY <1>1, ArrayPlaces
    <3> QED BY <1>2, <3>1
  <2>4. \A d \in Existentials : A'[forcing_disjunction(d)] < 0 /\ A'[2 * rank(d)] = A[2 * rank(d)]
    BY <1>1, <1>2 DEF ArrayInv
  <2> HIDE DEF none
  <2>5. ArrayInv' /\ NumbersInv' /\ Public' \subseteq Public \cup FA \cup none \cup none
    BY <1>1, <2>1, <2>2, <2>3, <2>4, NumbersKept
  <2> QED BY <2>5 DEF none
<1>4. last_variable \in Nat
  BY <1>1 DEF NumbersInv
<1>5. Grows
  BY <1>3, <1>4 DEF Grows
<1>6. undefined' = undefined /\ \A d : current(d)' = current(d) /\ (treeActive(d)' <=> treeActive(d))
  BY <1>2 DEF undefined, current, treeActive, treeIsAvailable, Whole
<1>7. SuffixInv'
  BY <1>1, <1>2 DEF SuffixInv
<1>8. PlacesInv'
  <2>1. PlacesInv
    BY <1>1 DEF SearchInv
  <2>2. \A d, c : spot(d, c)' = spot(d, c)
    BY <1>6 DEF spot
  <2>3. ASSUME NEW d \in undefined, NEW c \in DOMAIN current(d)
        PROVE  IsPlace(current(d)[c])' /\ IsCube(c, Variables)
    <3> DEFINE q == current(d)[c]
    <3>1. IsPlace(q) /\ IsCube(c, Variables) /\ q' = q
      BY <1>6, <2>1 DEF PlacesInv
    <3> HIDE DEF q
    <3>2. IsPlace(q)'
      BY <1>2, <3>1 DEF IsPlace
    <3> QED BY <3>1, <3>2 DEF q
  <2>4. (\A d \in undefined : \A c \in DOMAIN current(d) :
           IsPlace(current(d)[c]) /\ IsCube(c, Variables))'
    BY <1>6, <2>3
  <2>5. (\A d, g \in undefined : \A b \in DOMAIN current(d) : \A c \in DOMAIN current(g) :
           d # g \/ b # c => Distant(spot(d, b), spot(g, c)))'
    BY <1>6, <2>1, <2>2 DEF PlacesInv
  <2>6. (\A d \in undefined : IsPartition(DOMAIN current(d)))'
    BY <1>6, <2>1 DEF PlacesInv
  <2>7. (variables_with_defaults = undefined)'
        /\ (\A d \in undefined : treeActive(d) \/ d \in DOMAIN fixed_defaults)'
    BY <1>2, <1>6, <2>1 DEF PlacesInv
  <2> QED BY <2>4, <2>5, <2>6, <2>7 DEF PlacesInv
<1>9. \A d, D : Conforms(d, D) => Conforms(d, D)'
  BY <1>2, ConformsSame
<1>10. SortsInv'
  <2>1. DOMAIN validity_clauses = Existentials
    BY <1>1 DEF SortsInv
  <2> QED BY <1>1, <1>2, <1>5, <2>1, SortsKept
<1>11. (\A e \in DOMAIN definitions : IsDefined(e))'
  <2>1. \A e \in DOMAIN definitions : IsDefined(e)'
    BY <1>1, <1>2, <1>5, DefinedKept
  <2> QED BY <1>2, <2>1
<1>12. \A e \in undefined : Encoded(e)'
  <2> SUFFICES ASSUME NEW e \in undefined PROVE Encoded(e)'
    OBVIOUS
  <2>1. Encoded(e) /\ RulesOf(e)' = RulesOf(e)
    BY <1>1, <1>2 DEF SearchInv, RulesOf
  <2> QED BY <1>2, <1>5, <1>9, <2>1, EncodedKept
<1>13. SearchInv'
  <2>1. (\A e \in undefined : Encoded(e))'
    BY <1>6, <1>12
  <2>2. (DOMAIN default_trees \subseteq undefined)'
    BY <1>1, <1>2, <1>6 DEF SearchInv
  <2>3. (\A r \in forcing_clauses : IsRule(r))'
    BY <1>1, <1>2, <1>6 DEF SearchInv, IsRule
  <2> QED BY <1>8, <2>1, <2>2, <2>3 DEF SearchInv
<1>14. stage' = "search"
  BY <1>2
<1> QED BY <1>3, <1>7, <1>10, <1>11, <1>13, <1>14 DEF RulesInv

\* getArbiter.
LEMMA GetArbiterKeeps ==
    ASSUME RulesInv, NEW e \in Existentials, NEW ic \in BOOLEAN,
           NEW annotation \in [reads[e] \cap Universals -> BOOLEAN], GetArbiter(e, annotation, ic)
    PROVE  RulesInv'
<1> DEFINE record == [existential |-> e, annotation |-> annotation]
           known == {a \in DOMAIN arbiter_to_annotation : arbiter_to_annotation[a] = record}
           new == known = {}
           arbiter == IF new THEN last_variable + 1 ELSE CHOOSE a \in known : TRUE
           n == IF new THEN last_variable + 1 ELSE last_variable
           FA == IF new THEN {n} ELSE {}
           r == [premise |-> cubeLiterals(annotation) \cup {arbiter}, literal |-> e]
           q == [premise |-> cubeLiterals(annotation) \cup {-arbiter}, literal |-> -e]
<1>1. /\ NumbersInv /\ SortsInv
  BY DEF RulesInv
<1>2. last_variable \in Nat /\ Introduced \in Nat /\ Introduced <= last_variable
      /\ proper_arbiters \subseteq Arbiters /\ Arbiters \subseteq Later
  BY <1>1, NumberOfFacts DEF NumbersInv
<1>3. /\ stage = "search" /\ e \in undefined
      /\ arbiter_to_annotation' = [a \in DOMAIN arbiter_to_annotation \cup {arbiter} |->
                                     IF a = arbiter THEN record ELSE arbiter_to_annotation[a]]
      /\ \/ /\ ic /\ arbiter \notin proper_arbiters
            /\ addRules(e, <<r, q>>, n) /\ proper_arbiters' = proper_arbiters \cup {arbiter}
         \/ last_variable' = n /\ UNCHANGED ArbiterVars
  <2>1. linkingRules(arbiter, e, annotation) = <<r, q>>
    BY DEF linkingRules
  <2> HIDE DEF r, q
  <2> QED BY <2>1 DEF GetArbiter, ArbiterVars
<1>4. /\ (n = last_variable /\ FA = {}) \/ (n = last_variable + 1 /\ FA = {n})
      /\ n \in Nat /\ last_variable <= n /\ arbiter \in Arbiters \cup FA
      /\ FA \subseteq (last_variable + 1)..n
  BY <1>2 DEF Arbiters
<1>5. Arbiters' = Arbiters \cup FA
  <2>1. Arbiters' = Arbiters \cup {arbiter}
    BY <1>3 DEF Arbiters
  <2>2. new => FA = {arbiter}
    OBVIOUS
  <2>3. ~new => FA = {} /\ arbiter \in Arbiters
    BY DEF Arbiters
  <2> HIDE DEF FA, arbiter, new
  <2> QED BY <2>1, <2>2, <2>3
<1>6. arbiter \in Nat \ {0}
  <2>1. \A a \in Later : a \in Nat \ {0}
    BY <1>2 DEF Later
  <2>2. \A a \in FA : a \in Nat \ {0}
    BY <1>2
  <2> HIDE DEF FA, arbiter
  <2> QED BY <1>2, <1>4, <2>1, <2>2
<1>7. CASE last_variable' = n /\ UNCHANGED ArbiterVars
  <2>1. last_variable' \in Nat /\ last_variable <= last_variable' /\ FA \subseteq (last_variable + 1)..last_variable'
    BY <1>4, <1>7
  <2> HIDE DEF FA, n
  <2> QED BY <1>3, <1>5, <1>7, <2>1, ArbiterKeeps
<1>8. CASE ic /\ arbiter \notin proper_arbiters /\ addRules(e, <<r, q>>, n)
           /\ proper_arbiters' = proper_arbiters \cup {arbiter}
  <2> DEFINE Extra == proper_arbiters'
  <2>1. \A l \in cubeLiterals(annotation) : l \in Int \ {0} /\ var(l) \in Variables
    <3>1. IsCube(annotation, Variables)
      BY DEF IsCube, Variables
    <3> QED BY <3>1, CubeLiteralsOf
  <2>2. var(arbiter) = arbiter /\ var(-arbiter) = arbiter /\ arbiter \in Int \ {0} /\ -arbiter \in Int \ {0}
    <3> HIDE DEF arbiter
    <3> QED BY <1>6 DEF var
  <2>3. arbiter \in Extra
    BY <1>8
  <2>4. \A l \in r.premise \cup q.premise : l \in Int \ {0} /\ var(l) \in Variables \cup Extra
    <3> HIDE DEF arbiter, Extra
    <3> QED BY <2>1, <2>2, <2>3
  <2>5. r.literal \in {e, -e} /\ q.literal \in {e, -e}
    OBVIOUS
  <2> HIDE DEF r, q, n, FA, arbiter
  <2>6. /\ last_variable' = n + 8 /\ forcing_clauses' = forcing_clauses \cup {r, q}
        /\ validity_check_assumptions' =
             [validity_check_assumptions EXCEPT ![forcing_disjunction(e)] = -(n + 8)]
        /\ validity_clauses' = [validity_clauses EXCEPT ![e] = validity_clauses[e] \cup
             (guarded(validityRule(e, r, validity_check_assumptions[forcing_disjunction(e)], n),
                      selectors[e])
              \cup guarded(validityRule(e, q, -(n + 4), n + 4), selectors[e]))]
        /\ UNCHANGED <<stage, reads, default_selectors, variables_with_defaults, fixed_defaults,
                       default_trees, selectors, definitions>>
    BY <1>4, <1>8, TwoAdded
  <2>7. /\ Arbiters' \subseteq Arbiters \cup FA /\ proper_arbiters \subseteq proper_arbiters'
        /\ proper_arbiters' \subseteq Arbiters'
    BY <1>2, <1>4, <1>5, <1>8
  <2>8. AreTwoRules(e, FA, n, r, q)
    BY <1>4, <2>4, <2>5, <2>6, <2>7, Zenon DEF AreTwoRules
  <2> QED BY <1>3, <2>8, TwoRulesKeep
<1> QED BY <1>3, <1>7, <1>8

\* The clauses of the two leaves.
SplitBodies(e, leaf, x) ==
    UNION {{C \cup {-apply_default(e)} : C \in Range(leafClauses(e, leaf, x, b))} : b \in BOOLEAN}

\* The clauses added for the default rules of e.
DefaultBodies(cs, e) == UNION {{C \cup {-apply_default(e)} : C \in Range(cs[e][b])} : b \in BOOLEAN}

LEMMA DefaultClausesAdded ==
    ASSUME NEW E, NEW cs, NEW active, NEW terminal, addDefaultClauses(E, cs, active, terminal)
    PROVE  /\ validity_clauses' = [d \in Existentials |-> IF d \notin E THEN validity_clauses[d] ELSE
                 validity_clauses[d] \cup guarded(DefaultBodies(cs, d), selectors[d])]
           /\ UNCHANGED <<selectors, definitions, forcing_clauses, arbiter_to_annotation, proper_arbiters>>
  BY DEF addDefaultClauses, DefaultBodies

LEMMA SplitAdded ==
    ASSUME NEW e, NEW leaf, NEW x, NEW majority, InsertAndSplit(e, leaf, x, majority)
    PROVE  /\ validity_clauses' = [d \in Existentials |-> IF d \notin {e} THEN validity_clauses[d] ELSE
                 validity_clauses[d] \cup guarded(SplitBodies(d, leaf, x), selectors[d])]
           /\ UNCHANGED <<selectors, definitions, forcing_clauses, arbiter_to_annotation, proper_arbiters>>
<1> DEFINE numbers(first) == [d \in {e} |-> [b \in BOOLEAN |->
                              LET n == last_variable + first + (IF b THEN 0 ELSE 2)
                              IN  <<n, n + 4>>]]
           cs == [d \in {e} |-> [b \in BOOLEAN |-> leafClauses(d, leaf, x, b)]]
<1>1. addDefaultClauses({e}, cs, numbers(5), numbers(6))
  BY DEF InsertAndSplit
<1>2. \A d \in {e}, b \in BOOLEAN : cs[d][b] = leafClauses(d, leaf, x, b)
  OBVIOUS
<1> HIDE DEF cs, numbers
<1>3. \A d \in {e} : DefaultBodies(cs, d) = SplitBodies(d, leaf, x)
  BY <1>2 DEF DefaultBodies, SplitBodies
<1> QED BY <1>1, <1>3, DefaultClausesAdded

LEMMA SplitBodiesFacts ==
    ASSUME last_variable \in Nat, NEW e, NEW leaf, NEW x
    PROVE  SplitBodies(e, leaf, x) = {C \cup {-apply_default(e)} : C \in splitClauses(e, leaf, x)}
<1> DEFINE app == apply_default(e)
           cs(b) == leafClauses(e, leaf, x, b)
           child(a, b) == childClause(e, leaf, x, a, b)
           some(b) == {C \cup {-app} : C \in Range(cs(b))}
           all == {C \cup {-app} : C \in splitClauses(e, leaf, x)}
<1>2. ASSUME NEW b \in BOOLEAN PROVE \A C : C \in Range(cs(b)) <=> \E a \in BOOLEAN : C = child(a, b)
  <2> DEFINE s == last_variable + (IF b THEN 1 ELSE 2)
             s2 == s + 2
             C0 == pathClause(childOf(leaf, x, FALSE)) \cup {-s, literal(e, b)}
             C1 == pathClause(childOf(leaf, x, TRUE)) \cup {-s2, literal(e, b)}
             t == cs(b)
  <2>1. t = <<C0, C1>>
    BY DEF leafClauses
  <2>2. \A a \in BOOLEAN : last_variable + childNumber(a, b) = IF a THEN s2 ELSE s
    BY DEF childNumber
  <2> HIDE DEF s, s2
  <2>3. \A a \in BOOLEAN : child(a, b) = IF a THEN C1 ELSE C0
    <3> SUFFICES ASSUME NEW a \in BOOLEAN PROVE child(a, b) = IF a THEN C1 ELSE C0
      OBVIOUS
    <3>1. CASE a = TRUE
      <4>1. last_variable + childNumber(a, b) = s2
        BY <2>2, <3>1
      <4>2. child(a, b) = pathClause(childOf(leaf, x, a)) \cup {-s2, literal(e, b)}
        BY <4>1, Zenon DEF childClause
      <4> QED BY <3>1, <4>2, Zenon
    <3>2. CASE a = FALSE
      <4>1. last_variable + childNumber(a, b) = s
        BY <2>2, <3>2
      <4>2. child(a, b) = pathClause(childOf(leaf, x, a)) \cup {-s, literal(e, b)}
        BY <4>1, Zenon DEF childClause
      <4> QED BY <3>2, <4>2, Zenon
    <3> QED BY <3>1, <3>2
  <2> DEFINE tt == <<C0, C1>>
  <2>4. Range(t) = {C0, C1}
    <3> HIDE DEF C0, C1, t
    <3>1. DOMAIN tt = {1, 2} /\ tt[1] = C0 /\ tt[2] = C1
      OBVIOUS
    <3> HIDE DEF tt
    <3>2. {tt[k] : k \in DOMAIN tt} = {C0, C1}
      BY <3>1
    <3> QED BY <2>1, <3>2 DEF Range, tt
  <2>5. \A C : (\E a \in BOOLEAN : C = child(a, b)) <=> C = C0 \/ C = C1
    <3> HIDE DEF C0, C1, child
    <3> QED BY <2>3
  <2> HIDE DEF C0, C1, t
  <2> QED BY <2>4, <2>5 DEF t
<1>3. UNION {some(b) : b \in BOOLEAN} = all
  <2>1. \A C : (\E b \in BOOLEAN : C \in Range(cs(b))) <=> C \in splitClauses(e, leaf, x)
    <3>1. \A C : C \in splitClauses(e, leaf, x) <=> \E a \in BOOLEAN : \E b \in BOOLEAN : C = child(a, b)
      BY DEF splitClauses
    <3> HIDE DEF cs, child
    <3> QED BY <1>2, <3>1
  <2> DEFINE R(b) == Range(cs(b))
             Z == splitClauses(e, leaf, x)
  <2>2. \A D : D \in UNION {some(b) : b \in BOOLEAN} <=> \E b \in BOOLEAN : \E C \in R(b) : D = C \cup {-app}
    <3> HIDE DEF R, cs, app
    <3>1. \A b : some(b) = {C \cup {-app} : C \in R(b)}
      BY DEF R
    <3> HIDE DEF some
    <3> QED BY <3>1
  <2>3. \A D : D \in all <=> \E C \in Z : D = C \cup {-app}
    OBVIOUS
  <2>4. \A C : (\E b \in BOOLEAN : C \in R(b)) <=> C \in Z
    BY <2>1
  <2> HIDE DEF R, Z, some, all
  <2> QED BY <2>2, <2>3, <2>4
<1> QED BY <1>3 DEF SplitBodies

\* When DefaultsEncoded applies, and what it gives.
CanEncodeDefaults(e, S, cs, T, rules, defaults, hidden, N, more) ==
    /\ Encodes(e, S, cs, T, rules, defaults, hidden)
    /\ N \in Nat /\ Within(cs, N) /\ S <= N /\ Introduced <= N
    /\ \A C \in more : \A l \in C : IsOuter(l, e, T, hidden) /\ var(l) <= N

DefaultsAreEncoded(e, S, cs, T, rules, defaults, hidden, N, more) ==
    LET new == guarded({C \cup {-apply_default(e)} : C \in more}, S)
    IN  /\ Encodes(e, S, cs \cup new, T, rules, defaults \cup more, hidden)
        /\ Within(cs \cup new, N)

LEMMA DefaultsEncodedBy ==
    ASSUME NEW e \in Existentials, NEW S, NEW cs, NEW T, NEW rules, NEW defaults, NEW hidden, NEW N,
           NEW more, CanEncodeDefaults(e, S, cs, T, rules, defaults, hidden, N, more)
    PROVE  DefaultsAreEncoded(e, S, cs, T, rules, defaults, hidden, N, more)
<1>1. Encodes(e, S, cs, T, rules, defaults, hidden)
  BY Zenon DEF CanEncodeDefaults
<1>2. N \in Nat /\ Within(cs, N) /\ S <= N /\ Introduced <= N
  BY Zenon DEF CanEncodeDefaults
<1>3. \A C \in more : \A l \in C : IsOuter(l, e, T, hidden) /\ var(l) <= N
  BY Zenon DEF CanEncodeDefaults
<1> QED BY <1>1, <1>2, <1>3, DefaultsEncoded DEF DefaultsAreEncoded

\* The literals of the new clauses.
LEMMA SplitLiterals ==
    ASSUME RulesInv, stage = "search", NEW e \in undefined, NEW leaf, IsCube(leaf, Variables),
           NEW x \in Variables, x \notin DOMAIN leaf, NEW D, NEW H, Context(e, D, H)
    PROVE  \A C \in splitClauses(e, leaf, x) : \A l \in C :
              IsOuter(l, e, terminalOf(e), H) /\ var(l) <= last_variable + 12
<1>1. /\ last_variable \in Nat /\ Introduced \in Nat /\ Introduced <= last_variable
      /\ H \subseteq 1..last_variable /\ H \cap Public = {}
      /\ terminalOf(e) <= last_variable /\ terminalOf(e) \in Public
  BY Zenon DEF Context
<1>2. e \in Nat \ {0} /\ e \in Existentials /\ e \in Variables
  BY RuleContext DEF Variables
<1>3. no_forcing_clause_active(e) <= last_variable /\ apply_default(e) <= last_variable
  BY <1>1, <1>2, NumberOfFacts DEF no_forcing_clause_active, apply_default
<1> SUFFICES ASSUME NEW a \in BOOLEAN, NEW b \in BOOLEAN, NEW l \in childClause(e, leaf, x, a, b)
             PROVE  IsOuter(l, e, terminalOf(e), H) /\ var(l) <= last_variable + 12
  BY DEF splitClauses
<1>4. ASSUME l \in Int \ {0}, var(l) \in Variables
      PROVE  IsOuter(l, e, terminalOf(e), H) /\ var(l) <= last_variable + 12
  <2>1. IsOuter(l, e, terminalOf(e), H) /\ var(l) <= last_variable
    BY <1>1, <1>4, RuleContext
  <2>2. var(l) \in Nat
    BY <1>4 DEF var
  <2> QED BY <1>1, <2>1, <2>2
<1>5. CASE l \in pathClause(childOf(leaf, x, a))
  <2>1. IsCube(childOf(leaf, x, a), Variables)
    BY ChildFacts
  <2>2. l \in Int \ {0} /\ var(l) \in Variables
    BY <1>5, <2>1, PathLiterals
  <2> QED BY <1>4, <2>2
<1>6. CASE l = -(last_variable + childNumber(a, b))
  <2>1. childNumber(a, b) \in 1..4
    BY DEF childNumber
  <2>2. l \in Int \ {0} /\ var(l) = last_variable + childNumber(a, b)
    BY <1>1, <1>6, <2>1 DEF var
  <2>3. var(l) > last_variable /\ var(l) <= last_variable + 12
    BY <1>1, <2>1, <2>2
  <2>4. var(l) \notin H
    <3> DEFINE v == var(l)
    <3>1. v > last_variable
      BY <2>3
    <3> HIDE DEF v
    <3>2. \A h \in 1..last_variable : h <= last_variable /\ ~(h > last_variable)
      BY <1>1
    <3>3. v \notin H
      BY <1>1, <3>1, <3>2
    <3> QED BY <3>3 DEF v
  <2>5. var(l) # no_forcing_clause_active(e) /\ var(l) # apply_default(e) /\ var(l) # terminalOf(e)
    <3>1. no_forcing_clause_active(e) \in Nat /\ apply_default(e) \in Nat
      BY <1>2, NumberTypes DEF no_forcing_clause_active, apply_default
    <3>2. terminalOf(e) \in Nat
      BY PublicFacts, <1>1 DEF RulesInv
    <3> QED BY <1>1, <1>3, <2>3, <3>1, <3>2
  <2> QED BY <2>2, <2>3, <2>4, <2>5 DEF IsOuter, Inner
<1>7. CASE l = literal(e, b)
  <2>1. l \in Int \ {0} /\ var(l) = e
    BY <1>2, <1>7 DEF literal, var
  <2> QED BY <1>2, <1>4, <2>1
<1> QED BY <1>5, <1>6, <1>7 DEF childClause

\* insertIntoDefaultContainer with the clauses of two leaves.
LEMMA SplitKeeps ==
    ASSUME RulesInv, NEW e, NEW leaf, NEW x \in sample_space(e), NEW majority \in [BOOLEAN -> BOOLEAN],
           InsertAndSplit(e, leaf, x, majority)
    PROVE  RulesInv'
<1> DEFINE A == validity_check_assumptions
           S == default_selectors
           m == Cardinality(Existentials)
           n == last_variable
           B == A'
           R == S'
           bodies == {C \cup {-apply_default(e)} : C \in splitClauses(e, leaf, x)}
           k0 == spot(e, leaf)
<1>1. /\ stage = "search" /\ stage' = stage /\ SplitLeaf(e, leaf, x, majority)
  BY DEF InsertAndSplit
<1>2. /\ ArrayInv /\ NumbersInv /\ SuffixInv /\ SortsInv /\ SearchInv /\ PlacesInv
      /\ \A d \in DOMAIN definitions : IsDefined(d)
  BY <1>1 DEF RulesInv, SearchInv
<1>3. /\ e \in undefined /\ e \in Existentials /\ x \notin DOMAIN leaf /\ last_variable' = n + 12
      /\ UNCHANGED <<reads, variables_with_defaults>>
  BY <1>1, <1>2 DEF SplitLeaf, useDefault, PlacesInv, undefined
<1>4. x \in Variables
  <2>1. reads[e] \subseteq Variables
    BY <1>2, <1>3 DEF SortsInv
  <2> QED BY <2>1 DEF sample_space
<1>5. n \in Nat /\ Introduced \in Nat /\ Introduced <= n
  BY <1>2, NumberOfFacts DEF NumbersInv
<1>6. /\ DOMAIN validity_clauses' = Existentials
      /\ validity_clauses'[e] = validity_clauses[e] \cup guarded(bodies, selectors[e])
      /\ \A d \in Existentials \ {e} : validity_clauses'[d] = validity_clauses[d]
      /\ UNCHANGED <<selectors, definitions, forcing_clauses, arbiter_to_annotation, proper_arbiters>>
  <2>1. /\ validity_clauses' = [d \in Existentials |-> IF d \notin {e} THEN validity_clauses[d] ELSE
              validity_clauses[d] \cup guarded(SplitBodies(d, leaf, x), selectors[d])]
        /\ UNCHANGED <<selectors, definitions, forcing_clauses, arbiter_to_annotation, proper_arbiters>>
    BY SplitAdded
  <2>2. SplitBodies(e, leaf, x) = bodies
    BY <1>5, SplitBodiesFacts
  <2> HIDE DEF bodies
  <2> QED BY <1>3, <2>1, <2>2
<1>7. /\ IsExtension(A, S, B, R, m, Len(S), Len(A), k0, n, majority)
      /\ IsSplit(e, leaf, x, majority)
      /\ SuffixInv' /\ PlacesInv'
      /\ \A D : /\ \A d \in undefined \ {e} : Conforms(d, D) => Conforms(d, D)'
                /\ Conforms(e, D) => \A E : E = D \cup splitClauses(e, leaf, x) => Conforms(e, E)'
  <2>1. UNCHANGED definitions
    BY <1>6
  <2> QED BY <1>1, <1>2, <1>3, <1>4, <1>5, <2>1, SplitArrays, SplitCurrent, SplitPlaces, SplitConforms
<1>8. leaf \in DOMAIN current(e) /\ IsCube(leaf, Variables) /\ undefined' = undefined
  <2>1. leaf \in DOMAIN current(e) /\ undefined' = undefined
    BY <1>7 DEF IsSplit
  <2> QED BY <1>2, <1>3, <2>1 DEF PlacesInv
<1>9. /\ B \in Seq(Int \ {0}) /\ Len(B) = Len(A) + 4
      /\ \A j \in 1..Len(A) : var(B[j]) = var(A[j]) /\ (j <= 2 * m => B[j] = A[j])
      /\ \A i \in 1..4 : var(B[Len(A) + i]) = n + i
  BY <1>7 DEF IsExtension
<1>10. /\ Len(A) \in Nat /\ m \in Nat
       /\ \A d \in Existentials : /\ forcing_disjunction(d) \in 1..Len(A) /\ 2 * rank(d) \in 1..Len(A)
                                  /\ forcing_disjunction(d) \in 1..2 * m
                                  /\ 2 * rank(d) <= 2 * m
  <2>1. \A d \in Existentials : rank(d) \in 1..m /\ m \in Nat
    BY RankFacts
  <2>2. \A d \in Existentials : 2 * rank(d) <= 2 * m
    <3> HIDE DEF m
    <3> QED BY <2>1
  <2> QED BY <1>2, <2>2, ArrayPlaces, RankFacts
<1>11. \A d \in Existentials : /\ B[forcing_disjunction(d)] = A[forcing_disjunction(d)]
                               /\ B[2 * rank(d)] = A[2 * rank(d)]
  <2> DEFINE M == Len(A)
             Same(j) == B[j] = A[j]
  <2>1. \A j \in 1..M : j <= 2 * m => Same(j)
    BY <1>9
  <2>2. \A d \in Existentials : /\ forcing_disjunction(d) \in 1..M /\ 2 * rank(d) \in 1..M
                                 /\ forcing_disjunction(d) <= 2 * m /\ 2 * rank(d) <= 2 * m
    <3>1. \A j \in 1..2 * m : j <= 2 * m
      BY <1>10
    <3> HIDE DEF m, M
    <3> QED BY <1>10, <3>1 DEF M
  <2>3. \A d \in Existentials : Same(forcing_disjunction(d)) /\ Same(2 * rank(d))
    <3> HIDE DEF m, M, Same
    <3> QED BY <2>1, <2>2
  <2> QED BY <2>3
<1>12. /\ ArrayInv' /\ NumbersInv' /\ Public' \subseteq Public \cup ((n + 1)..(n + 4))
  <2> DEFINE none == {}
             FE == (n + 1)..(n + 4)
  <2>1. /\ none \cap none = {} /\ none \cap FE = {}
        /\ none \cup none \cup FE \subseteq (last_variable + 1)..last_variable'
    BY <1>3, <1>5
  <2>2. /\ \A d \in Existentials : selectors'[d] = selectors[d] \/ selectors'[d] \in none
        /\ Arbiters' \subseteq Arbiters \cup none /\ proper_arbiters' \subseteq Arbiters'
        /\ selectors' \in [Existentials -> Nat]
        /\ stage' = "search" /\ stage' \in {"idle", "preprocessing", "search"}
    BY <1>1, <1>2, <1>6 DEF NumbersInv, Arbiters
  <2>3. last_variable' \in Nat /\ last_variable <= last_variable' /\ Len(A) <= Len(B)
    <3>1. Len(A) <= Len(A) + 4
      BY <1>10
    <3>2. Len(A) <= Len(B)
      BY <1>9, <3>1
    <3>3. last_variable' \in Nat /\ last_variable <= last_variable'
      BY <1>3, <1>5
    <3> QED BY <3>2, <3>3
  <2>4. ASSUME NEW k \in 1..Len(B)
        PROVE  \/ k <= Len(A) /\ var(B[k]) = var(A[k])
               \/ /\ var(B[k]) \in FE
                  /\ \A l \in 1..Len(B) : var(B[k]) = var(B[l]) => k = l
    <3> HIDE DEF A, B
    <3>1. \A l \in 1..Len(B) : l \in 1..Len(A) \/ \E i \in 1..4 : l = Len(A) + i
      <4> SUFFICES ASSUME NEW l \in 1..Len(B) PROVE l \in 1..Len(A) \/ \E i \in 1..4 : l = Len(A) + i
        OBVIOUS
      <4> DEFINE M == Len(A)
      <4>1. M \in Nat /\ l \in 1..(M + 4)
        BY <1>9, <1>10
      <4> HIDE DEF M
      <4>2. l \in 1..M \/ (l - M \in 1..4 /\ l = M + (l - M))
        BY <4>1
      <4> QED BY <4>2 DEF M
    <3>2. \A l \in 1..Len(A) : var(A[l]) \in 1..n
      <4>1. \A l \in 1..Len(A) : var(A[l]) \in Public
        BY <1>2, ArrayPlaces DEF Public, Entries, A
      <4> QED BY <1>2, <4>1, PublicFacts
    <3>3. CASE k \in 1..Len(A)
      BY <1>9, <1>10, <3>3
    <3>4. CASE \E i \in 1..4 : k = Len(A) + i
      <4>1. PICK i \in 1..4 : k = Len(A) + i
        BY <3>4
      <4>2. var(B[k]) = n + i /\ n + i \in FE
        <5>1. n + i \in FE
          BY <1>5
        <5>2. var(B[k]) = n + i
          BY <1>9, <4>1
        <5> QED BY <5>1, <5>2
      <4>3. ASSUME NEW l \in 1..Len(B), var(B[k]) = var(B[l]) PROVE k = l
        <5>1. CASE l \in 1..Len(A)
          <6>1. var(B[l]) \in 1..n
            BY <1>9, <3>2, <5>1
          <6> QED BY <1>5, <4>2, <4>3, <6>1
        <5>2. CASE \E j \in 1..4 : l = Len(A) + j
          <6>1. PICK j \in 1..4 : l = Len(A) + j
            BY <5>2
          <6>2. n + i = n + j
            BY <1>9, <4>2, <4>3, <6>1
          <6>3. i = j
            BY <1>5, <6>2
          <6> QED BY <4>1, <6>1, <6>3
        <5> QED BY <3>1, <5>1, <5>2
      <4> QED BY <4>2, <4>3
    <3> QED BY <3>1, <3>3, <3>4
  <2>5. \A d \in Existentials : B[forcing_disjunction(d)] < 0 /\ B[2 * rank(d)] = A[2 * rank(d)]
    BY <1>2, <1>11 DEF ArrayInv
  <2> HIDE DEF none, FE
  <2>6. ArrayInv' /\ NumbersInv' /\ Public' \subseteq Public \cup none \cup none \cup FE
    BY <1>2, <1>9, <2>2, <2>3, <2>4, <2>5, <2>1, NumbersKept
  <2> QED BY <2>6 DEF none, FE
<1>13. Grows
  <2>1. last_variable \in Nat /\ last_variable' \in Nat /\ last_variable <= last_variable'
    BY <1>3, <1>5
  <2>2. (n + 1)..(n + 4) \subseteq (last_variable + 1)..last_variable'
    BY <1>3, <1>5
  <2> QED BY <1>12, <2>1, <2>2 DEF Grows
<1>14. PICK D, H : Context(e, D, H)
  BY <1>1, <1>3, RuleContext
<1>15. /\ Encodes(e, selectors[e], validity_clauses[e], terminalOf(e), RulesOf(e), D, H)
       /\ H \subseteq 1..n /\ H \cap Public = {} /\ Within(validity_clauses[e], n)
       /\ \A C \in D : \A l \in C : var(l) <= n
       /\ selectors[e] <= n /\ Conforms(e, D)
  BY <1>14, Zenon DEF Context
<1> DEFINE N == n + 12
           more == splitClauses(e, leaf, x)
           cs == validity_clauses[e]
           new == guarded(bodies, selectors[e])
<1>16. /\ Encodes(e, selectors[e], cs \cup new, terminalOf(e), RulesOf(e), D \cup more, H)
       /\ Within(cs \cup new, N)
  <2>1. \A C \in more : \A l \in C : IsOuter(l, e, terminalOf(e), H) /\ var(l) <= N
    BY <1>1, <1>3, <1>4, <1>8, <1>14, SplitLiterals
  <2>2. Within(cs, N)
    BY <1>5, <1>15, WithinMore
  <2>3. selectors[e] \in Nat
    BY <1>2, <1>3 DEF NumbersInv
  <2>4. N \in Nat /\ selectors[e] <= N /\ Introduced <= N
    BY <1>5, <1>15, <2>3
  <2> HIDE DEF N, more, cs
  <2>5. CanEncodeDefaults(e, selectors[e], cs, terminalOf(e), RulesOf(e), D, H, N, more)
    BY <1>15, <2>1, <2>2, <2>4, Zenon DEF CanEncodeDefaults, cs
  <2>6. DefaultsAreEncoded(e, selectors[e], cs, terminalOf(e), RulesOf(e), D, H, N, more)
    BY <1>3, <2>5, DefaultsEncodedBy
  <2>7. new = guarded({C \cup {-apply_default(e)} : C \in more}, selectors[e])
    BY DEF more
  <2> HIDE DEF new
  <2> QED BY <2>6, <2>7, Zenon DEF DefaultsAreEncoded
<1>17. SortsInv'
  <2>1. \A d \in Existentials : validity_clauses'[d] = validity_clauses[d]
                                  \/ Within(validity_clauses'[d], last_variable')
    BY <1>3, <1>6, <1>16
  <2> HIDE DEF bodies
  <2> QED BY <1>2, <1>3, <1>6, <1>13, <2>1, SortsKept
<1>18. (\A d \in DOMAIN definitions : IsDefined(d))'
  <2>1. ASSUME NEW d \in DOMAIN definitions PROVE IsDefined(d)'
    <3>1. d \in Existentials \ {e}
      BY <1>2, <1>3 DEF SortsInv, undefined
    <3> HIDE DEF bodies
    <3> QED BY <1>2, <1>6, <1>13, <3>1, DefinedKept
  <2> QED BY <1>6, <2>1
<1>19. ASSUME NEW d \in undefined, d # e PROVE Encoded(d)'
  <2>1. d \in Existentials /\ Encoded(d)
    BY <1>2 DEF SearchInv, undefined
  <2>2. RulesOf(d)' = RulesOf(d)
    BY <1>6 DEF RulesOf
  <2> HIDE DEF bodies
  <2> QED BY <1>6, <1>7, <1>11, <1>13, <1>19, <2>1, <2>2, EncodedKept
<1>20. Encoded(e)'
  <2> DEFINE D2 == D \cup more
  <2>1. RulesOf(e)' = RulesOf(e) /\ terminalOf(e)' = terminalOf(e) /\ selectors'[e] = selectors[e]
    BY <1>3, <1>6, <1>11 DEF RulesOf, terminalOf
  <2>2. validity_clauses'[e] = cs \cup new
    BY <1>6
  <2>3. \A E : E = D2 => Conforms(e, E)'
    BY <1>7, <1>15
  <2>4. H \subseteq 1..last_variable' /\ H \cap Public' = {}
    <3>1. \A h \in H : h \in 1..n
      BY <1>15
    <3>2. \A h \in 1..n : h \in 1..last_variable' /\ h \notin (n + 1)..(n + 4)
      BY <1>3, <1>5
    <3> QED BY <1>12, <1>15, <3>1, <3>2
  <2>5. \A C \in D2 : \A l \in C : var(l) <= last_variable'
    <3>1. ASSUME NEW C \in more, NEW l \in C PROVE var(l) <= last_variable'
      BY <1>1, <1>3, <1>4, <1>8, <1>14, SplitLiterals
    <3>2. ASSUME NEW C \in D, NEW l \in C PROVE var(l) <= last_variable'
      <4>1. var(l) <= n /\ l \in Int \ {0}
        BY <1>15 DEF Encodes, Separated, IsOuter
      <4>2. var(l) \in Nat
        BY <4>1 DEF var
      <4> QED BY <1>3, <1>5, <4>1, <4>2
    <3> HIDE DEF more
    <3> QED BY <3>1, <3>2
  <2> HIDE DEF D2, more, cs, new
  <2>6. \A E : E = D2 => Encodes(e, selectors[e], validity_clauses[e], terminalOf(e), RulesOf(e), E, H)'
    BY <1>16, <2>1, <2>2 DEF D2
  <2> QED BY <2>3, <2>4, <2>5, <2>6 DEF Encoded
<1>21. SearchInv'
  <2>1. (\A d \in undefined : Encoded(d))'
    BY <1>8, <1>19, <1>20
  <2>2. (DOMAIN default_trees \subseteq undefined)'
    <3>1. DOMAIN default_trees' = DOMAIN default_trees
      BY <1>1 DEF SplitLeaf
    <3> QED BY <1>2, <1>8, <3>1 DEF SearchInv
  <2>3. (\A r \in forcing_clauses : IsRule(r))'
    BY <1>2, <1>6, <1>8 DEF SearchInv, IsRule
  <2> QED BY <1>7, <2>1, <2>2, <2>3 DEF SearchInv
<1> QED BY <1>1, <1>7, <1>12, <1>17, <1>18, <1>21 DEF RulesInv

--------------------------------------------------------------------------------
(***************************************************************************)
(* The defaults of the start: one pair for each undefined variable.        *)
(***************************************************************************)
nthOf(U, k) == CHOOSE e \in U : place(e, U) = k
startPairs(U) ==
    [k \in 1..2 * Cardinality(U) |->
        IF k % 2 = 1 THEN positive_selector(nthOf(U, (k + 1) \div 2))
                     ELSE -negative_selector(nthOf(U, k \div 2))]

\* Odd and even places.
LEMMA Halves ==
    ASSUME NEW n \in Nat
    PROVE  /\ \A k \in 1..n : /\ 2 * k - 1 \in 1..2 * n /\ 2 * k \in 1..2 * n
                              /\ (2 * k - 1) % 2 = 1 /\ ((2 * k - 1) + 1) \div 2 = k
                              /\ (2 * k) % 2 # 1 /\ (2 * k) \div 2 = k
           /\ \A j \in 1..2 * n : \E k \in 1..n : j = 2 * k - 1 \/ j = 2 * k
<1>1. \A k \in 1..n : /\ 2 * k - 1 \in 1..2 * n /\ 2 * k \in 1..2 * n
                      /\ (2 * k - 1) % 2 = 1 /\ ((2 * k - 1) + 1) \div 2 = k
                      /\ (2 * k) % 2 # 1 /\ (2 * k) \div 2 = k
  OBVIOUS
<1>2. ASSUME NEW j \in 1..2 * n PROVE \E k \in 1..n : j = 2 * k - 1 \/ j = 2 * k
  <2> DEFINE k == (j + 1) \div 2
  <2>1. k \in 1..n /\ (j = 2 * k - 1 \/ j = 2 * k)
    OBVIOUS
  <2> QED BY <2>1
<1> QED BY <1>1, <1>2

LEMMA StartPairs ==
    ASSUME NEW U \in SUBSET Existentials
    PROVE  LET n == Cardinality(U)
               s == startPairs(U)
           IN  /\ n \in Nat /\ s \in Seq(Int \ {0}) /\ Len(s) = 2 * n
               /\ \A e \in U : /\ place(e, U) \in 1..n
                               /\ 2 * place(e, U) - 1 \in 1..2 * n /\ 2 * place(e, U) \in 1..2 * n
                               /\ s[2 * place(e, U) - 1] = positive_selector(e)
                               /\ s[2 * place(e, U)] = -negative_selector(e)
               /\ \A d, e \in U : place(d, U) = place(e, U) => d = e
               /\ \A j \in 1..2 * n : \E e \in U : j = 2 * place(e, U) - 1 \/ j = 2 * place(e, U)
<1> DEFINE n == Cardinality(U)
           s == startPairs(U)
           K == 1..n
<1>1. U \in SUBSET Nat /\ IsFiniteSet(U)
  <2>1. IsFiniteSet(Existentials) /\ Existentials \in SUBSET Nat
    BY PrefixAssumption
  <2> QED BY <2>1, FS_Subset
<1>2. /\ n \in Nat
      /\ \A e \in U : place(e, U) \in K
      /\ \A d, e \in U : place(d, U) = place(e, U) => d = e
  BY <1>1, PlaceFacts
<1>3. \A k \in K : \E e \in U : place(e, U) = k
  <2>1. IsFiniteSet(K) /\ Cardinality(K) = n
    BY <1>2, FS_Interval
  <2> DEFINE f == [e \in U |-> place(e, U)]
  <2>2. f \in Injection(U, K)
    BY <1>2 DEF Injection, IsInjective
  <2> HIDE DEF f, K
  <2>3. f \in Surjection(U, K)
    BY <1>1, <1>2, <2>1, <2>2, FS_Injection
  <2> QED BY <2>3 DEF Surjection, f
<1>4. \A k \in K : nthOf(U, k) \in U /\ place(nthOf(U, k), U) = k
  BY <1>3 DEF nthOf
<1>5. \A e \in U : nthOf(U, place(e, U)) = e
  BY <1>2, <1>4
<1>6. \A k \in 1..2 * n :
         s[k] = IF k % 2 = 1 THEN positive_selector(nthOf(U, (k + 1) \div 2))
                             ELSE -negative_selector(nthOf(U, k \div 2))
  BY DEF startPairs
<1>7. DOMAIN s = 1..2 * n
  BY DEF startPairs
<1> HIDE DEF s, n
<1>8. \A k \in K : /\ 2 * k - 1 \in 1..2 * n /\ 2 * k \in 1..2 * n
                   /\ s[2 * k - 1] = positive_selector(nthOf(U, k))
                   /\ s[2 * k] = -negative_selector(nthOf(U, k))
  BY <1>2, <1>6, Halves
<1>9. \A j \in 1..2 * n : \E k \in K : j = 2 * k - 1 \/ j = 2 * k
  BY <1>2, Halves
<1> HIDE DEF K
<1>10. \A j \in 1..2 * n : s[j] \in Int \ {0}
  <2>1. \A e \in U : positive_selector(e) \in Int \ {0} /\ -negative_selector(e) \in Int \ {0}
    <3>1. \A e \in U : positive_selector(e) \in Nat \ {0} /\ negative_selector(e) \in Nat \ {0}
      BY NumberTypes DEF positive_selector, negative_selector
    <3> QED BY <3>1
  <2> QED BY <1>4, <1>8, <1>9, <2>1
<1>11. s \in Seq(Int \ {0}) /\ Len(s) = 2 * n
  <2>1. s = [k \in 1..2 * n |-> s[k]]
    BY <1>7 DEF s, startPairs
  <2>2. 2 * n \in Nat
    BY <1>2
  <2> QED BY <1>10, <2>1, <2>2
<1>12. \A e \in U : /\ 2 * place(e, U) - 1 \in 1..2 * n /\ 2 * place(e, U) \in 1..2 * n
                    /\ s[2 * place(e, U) - 1] = positive_selector(e)
                    /\ s[2 * place(e, U)] = -negative_selector(e)
  BY <1>2, <1>5, <1>8
<1>13. \A j \in 1..2 * n : \E e \in U : j = 2 * place(e, U) - 1 \/ j = 2 * place(e, U)
  <2> SUFFICES ASSUME NEW j \in 1..2 * n
               PROVE  \E e \in U : j = 2 * place(e, U) - 1 \/ j = 2 * place(e, U)
    OBVIOUS
  <2>1. PICK k \in K : j = 2 * k - 1 \/ j = 2 * k
    BY <1>9
  <2>2. nthOf(U, k) \in U /\ place(nthOf(U, k), U) = k
    BY <1>4
  <2> QED BY <2>1, <2>2
<1> QED BY <1>2, <1>11, <1>12, <1>13 DEF K, s, n

StartClauses(e) == UNION {{C \cup {-apply_default(e)} : C \in Range(<<fixedClause(e, b)>>)} : b \in BOOLEAN}
LEMMA StartAdded ==
    ASSUME InitDefaultValues
    PROVE  /\ validity_clauses' = [e \in Existentials |-> IF e \notin undefined THEN validity_clauses[e] ELSE
                 validity_clauses[e] \cup guarded(StartClauses(e), selectors[e])]
           /\ UNCHANGED <<selectors, definitions, forcing_clauses, arbiter_to_annotation, proper_arbiters>>
<1> DEFINE cs == [e \in undefined |-> [b \in BOOLEAN |-> <<fixedClause(e, b)>>]]
           active == [e \in undefined |-> [b \in BOOLEAN |-> <<fixedActive(e, b)>>]]
           terminal == [e \in undefined |-> [b \in BOOLEAN |-> <<fixedTerminal(e, b)>>]]
<1>1. addDefaultClauses(undefined, cs, active, terminal)
  BY DEF InitDefaultValues
<1>2. \A d \in undefined, b \in BOOLEAN : cs[d][b] = <<fixedClause(d, b)>>
  OBVIOUS
<1> HIDE DEF cs, active, terminal
<1>3. \A d \in undefined : DefaultBodies(cs, d) = StartClauses(d)
  BY <1>2 DEF DefaultBodies, StartClauses
<1> QED BY <1>1, <1>3, DefaultClausesAdded

fixedClauses(e) == {fixedClause(e, b) : b \in BOOLEAN}

LEMMA StartStep ==
    ASSUME InitDefaultValues
    PROVE  /\ stage = "preprocessing" /\ stage' = "search"
           /\ variables_with_defaults' = undefined
           /\ fixed_defaults' = [e \in undefined |-> nextPlace(2 * place(e, undefined) - 1)]
           /\ validity_check_assumptions' = validity_check_assumptions \o startPairs(undefined)
           /\ default_selectors' = default_selectors \o startPairs(undefined)
           /\ DOMAIN default_trees' \subseteq undefined
           /\ \A e \in DOMAIN default_trees' : DOMAIN default_trees'[e] = {}
           /\ UNCHANGED <<reads, last_variable, selectors, definitions, forcing_clauses,
                          arbiter_to_annotation, proper_arbiters>>
           /\ validity_clauses' = [e \in Existentials |-> IF e \notin undefined THEN validity_clauses[e] ELSE
                 validity_clauses[e] \cup guarded(StartClauses(e), selectors[e])]
<1>1. InitializeDefaults(undefined) /\ stage = "preprocessing" /\ stage' = "search"
  BY DEF InitDefaultValues
<1>2. /\ UNCHANGED <<selectors, definitions, forcing_clauses, arbiter_to_annotation, proper_arbiters>>
      /\ validity_clauses' = [e \in Existentials |-> IF e \notin undefined THEN validity_clauses[e] ELSE
            validity_clauses[e] \cup guarded(StartClauses(e), selectors[e])]
  BY StartAdded
<1>3. /\ variables_with_defaults' = undefined
      /\ fixed_defaults' = [e \in undefined |-> nextPlace(2 * place(e, undefined) - 1)]
      /\ validity_check_assumptions' = validity_check_assumptions \o startPairs(undefined)
      /\ default_selectors' = default_selectors \o startPairs(undefined)
      /\ UNCHANGED <<reads, last_variable>>
  BY <1>1, Zenon DEF InitializeDefaults, startPairs, nthOf, place
<1>4. default_trees' = [e \in {d \in undefined : default_setting["use_ml_trees"] /\ sample_space(d) # {}} |->
                          [c \in {} |-> 0]]
  BY <1>1 DEF InitializeDefaults
<1>5. DOMAIN [c \in {} |-> 0] = {}
  OBVIOUS
<1> QED BY <1>1, <1>2, <1>3, <1>4, <1>5

LEMMA StartBodies ==
    ASSUME NEW e
    PROVE  StartClauses(e) = {C \cup {-apply_default(e)} : C \in fixedClauses(e)}
<1> DEFINE app == apply_default(e)
           f(b) == fixedClause(e, b)
           R(b) == Range(<<f(b)>>)
           Z == fixedClauses(e)
<1>1. ASSUME NEW C PROVE Range(<<C>>) = {C}
  <2>1. DOMAIN <<C>> = {1} /\ <<C>>[1] = C
    OBVIOUS
  <2> QED BY <2>1 DEF Range
<1>2. \A C : (\E b \in BOOLEAN : C \in R(b)) <=> C \in Z
  <2>1. \A C : C \in Z <=> \E b \in BOOLEAN : C = f(b)
    BY DEF fixedClauses
  <2>2. \A b \in BOOLEAN : R(b) = {f(b)}
    <3> HIDE DEF f
    <3> QED BY <1>1
  <2> HIDE DEF R, Z, f
  <2> QED BY <2>1, <2>2
<1>3. StartClauses(e) = UNION {{C \cup {-app} : C \in R(b)} : b \in BOOLEAN}
  BY DEF StartClauses
<1> HIDE DEF app, f, R, Z
<1>4. UNION {{C \cup {-app} : C \in R(b)} : b \in BOOLEAN} = {C \cup {-app} : C \in Z}
  BY <1>2
<1> QED BY <1>3, <1>4 DEF app, Z

LEMMA FixedLiterals ==
    ASSUME NEW e \in Existentials
    PROVE  /\ \A C \in fixedClauses(e) : \A l \in C :
                 IsOuter(l, e, forcingTerminal(e), {}) /\ var(l) <= Introduced
           /\ \A b \in BOOLEAN : fixedClause(e, b)
                 = {-(IF b THEN positive_selector(e) ELSE negative_selector(e)), literal(e, b)}
<1> DEFINE p == positive_selector(e)
           n == negative_selector(e)
           T == forcingTerminal(e)
           nfc == no_forcing_clause_active(e)
           app == apply_default(e)
<1>1. /\ p \in Nat \ {0} /\ n \in Nat \ {0} /\ T \in Nat \ {0} /\ e \in Nat \ {0}
      /\ p <= Introduced /\ n <= Introduced /\ e <= Introduced
      /\ p \notin {T, nfc, app} /\ n \notin {T, nfc, app} /\ e \notin {T, nfc, app}
  BY NumberOfFacts DEF positive_selector, negative_selector, forcingTerminal, no_forcing_clause_active,
     apply_default, Variables
<1>2. \A b \in BOOLEAN : fixedClause(e, b) = {-(IF b THEN p ELSE n), literal(e, b)}
  BY DEF fixedClause
<1> HIDE DEF p, n, T, nfc, app
<1>3. ASSUME NEW b \in BOOLEAN, NEW l \in fixedClause(e, b)
      PROVE  IsOuter(l, e, T, {}) /\ var(l) <= Introduced
  <2>1. l \in Int \ {0} /\ var(l) \in {p, n, e}
    BY <1>1, <1>2 DEF var, literal
  <2> QED BY <1>1, <2>1 DEF IsOuter, Inner, nfc, app
<1> QED BY <1>2, <1>3 DEF fixedClauses, T, p, n

\* Numbers of one variable and of several.
LEMMA NumbersDiffer ==
    ASSUME NEW d \in Existentials, NEW e \in Existentials
    PROVE  /\ \A j \in {1, 2} : numberOf(d, j) \in Nat \ {0} /\ numberOf(d, j) <= Introduced
           /\ \A j, k \in {1, 2} : numberOf(d, j) = numberOf(e, k) => d = e /\ j = k
           /\ \A j \in {1, 2} : \A k \in {3, 6, 7} : numberOf(d, j) # numberOf(e, k)
<1>1. \A j \in 1..22 : numberOf(d, j) \in Nat \ {0} /\ numberOf(d, j) <= Introduced
  BY NumberOfFacts
<1>2. \A j, k \in 1..22 : numberOf(d, j) = numberOf(e, k) => d = e /\ j = k
  BY NumberOfFacts
<1>3. 1 \in 1..22 /\ 2 \in 1..22 /\ 3 \in 1..22 /\ 6 \in 1..22 /\ 7 \in 1..22
  OBVIOUS
<1>4. \A j \in {1, 2} : numberOf(d, j) \in Nat \ {0} /\ numberOf(d, j) <= Introduced
  BY <1>1, <1>3
<1>5. \A j, k \in {1, 2} : numberOf(d, j) = numberOf(e, k) => d = e /\ j = k
  BY <1>2, <1>3
<1>6. \A j \in {1, 2} : \A k \in {3, 6, 7} : numberOf(d, j) # numberOf(e, k)
  BY <1>2, <1>3
<1> QED BY <1>4, <1>5, <1>6

\* The numbers in the pairs.
LEMMA PairNumbers ==
    ASSUME NEW U \in SUBSET Existentials
    PROVE  LET s == startPairs(U)
           IN  /\ \A j \in 1..Len(s) : \E e \in U, i \in {1, 2} : var(s[j]) = numberOf(e, i)
               /\ \A j, k \in 1..Len(s) : var(s[j]) = var(s[k]) => j = k
               /\ \A e \in U : /\ var(s[2 * place(e, U) - 1]) = positive_selector(e)
                               /\ var(s[2 * place(e, U)]) = negative_selector(e)
                               /\ s[2 * place(e, U) - 1] > 0 /\ ~(s[2 * place(e, U)] > 0)
<1> DEFINE s == startPairs(U)
           n == Cardinality(U)
           p(e) == place(e, U)
<1>1. /\ n \in Nat /\ s \in Seq(Int \ {0}) /\ Len(s) = 2 * n
      /\ \A e \in U : /\ p(e) \in 1..n
                      /\ s[2 * p(e) - 1] = positive_selector(e)
                      /\ s[2 * p(e)] = -negative_selector(e)
      /\ \A j \in 1..2 * n : \E e \in U : j = 2 * p(e) - 1 \/ j = 2 * p(e)
  BY StartPairs
<1>2. \A e \in U : /\ positive_selector(e) = numberOf(e, 1) /\ negative_selector(e) = numberOf(e, 2)
                   /\ numberOf(e, 1) \in Nat \ {0} /\ numberOf(e, 2) \in Nat \ {0}
  BY NumberTypes DEF positive_selector, negative_selector
<1>3. \A k \in Nat \ {0} : var(k) = k /\ var(-k) = k /\ k > 0 /\ ~(-k > 0)
  BY DEF var
<1> HIDE DEF s, n, p
<1>4. \A e \in U : /\ var(s[2 * p(e) - 1]) = numberOf(e, 1) /\ var(s[2 * p(e)]) = numberOf(e, 2)
                   /\ s[2 * p(e) - 1] > 0 /\ ~(s[2 * p(e)] > 0)
  <2> SUFFICES ASSUME NEW e \in U
               PROVE  /\ var(s[2 * p(e) - 1]) = numberOf(e, 1) /\ var(s[2 * p(e)]) = numberOf(e, 2)
                      /\ s[2 * p(e) - 1] > 0 /\ ~(s[2 * p(e)] > 0)
    OBVIOUS
  <2>1. s[2 * p(e) - 1] = numberOf(e, 1) /\ s[2 * p(e)] = -numberOf(e, 2)
    BY <1>1, <1>2
  <2>2. numberOf(e, 1) \in Nat \ {0} /\ numberOf(e, 2) \in Nat \ {0}
    BY <1>2
  <2> QED BY <1>3, <2>1, <2>2
<1>5. ASSUME NEW j \in 1..Len(s) PROVE \E e \in U, i \in {1, 2} : var(s[j]) = numberOf(e, i)
  <2>1. PICK e \in U : j = 2 * p(e) - 1 \/ j = 2 * p(e)
    BY <1>1
  <2>2. var(s[j]) = numberOf(e, 1) \/ var(s[j]) = numberOf(e, 2)
    BY <1>4, <2>1
  <2> QED BY <2>2
<1>6. ASSUME NEW j \in 1..Len(s), NEW k \in 1..Len(s), var(s[j]) = var(s[k]) PROVE j = k
  <2>1. PICK d \in U : j = 2 * p(d) - 1 \/ j = 2 * p(d)
    BY <1>1
  <2>2. PICK e \in U : k = 2 * p(e) - 1 \/ k = 2 * p(e)
    BY <1>1
  <2>3. \A a, b \in {1, 2} : numberOf(d, a) = numberOf(e, b) => d = e /\ a = b
    <3>1. d \in Existentials /\ e \in Existentials
      OBVIOUS
    <3> QED BY <3>1, NumbersDiffer
  <2>4. /\ j = 2 * p(d) - 1 => var(s[j]) = numberOf(d, 1)
        /\ j = 2 * p(d) => var(s[j]) = numberOf(d, 2)
        /\ k = 2 * p(e) - 1 => var(s[k]) = numberOf(e, 1)
        /\ k = 2 * p(e) => var(s[k]) = numberOf(e, 2)
    BY <1>4
  <2> DEFINE x == 2 * p(d) - 1
             y == 2 * p(d)
             z == 2 * p(e) - 1
             w == 2 * p(e)
             v == var(s[j])
  <2>5. d = e => x = z /\ y = w
    OBVIOUS
  <2>6. 1 \in {1, 2} /\ 2 \in {1, 2} /\ 1 # 2
    OBVIOUS
  <2> HIDE DEF x, y, z, w
  <2>7. CASE j = x /\ k = z
    <3>1. d = e
      BY <1>6, <2>3, <2>4, <2>6, <2>7 DEF x, z
    <3> QED BY <2>5, <2>7, <3>1
  <2>8. CASE j = y /\ k = w
    <3>1. d = e
      BY <1>6, <2>3, <2>4, <2>6, <2>8 DEF y, w
    <3> QED BY <2>5, <2>8, <3>1
  <2>9. CASE j = x /\ k = w
    BY <1>6, <2>3, <2>4, <2>6, <2>9 DEF x, w
  <2>10. CASE j = y /\ k = z
    BY <1>6, <2>3, <2>4, <2>6, <2>10 DEF y, z
  <2> QED BY <2>1, <2>2, <2>7, <2>8, <2>9, <2>10 DEF x, y, z, w
<1> QED BY <1>2, <1>4, <1>5, <1>6 DEF s, p

\* The array and the numbers when the search starts.
LEMMA StartArrays ==
    ASSUME ArrayInv, NumbersInv, stage = "preprocessing", stage' = "search",
           UNCHANGED <<last_variable, selectors, arbiter_to_annotation, proper_arbiters>>,
           NEW U \in SUBSET Existentials, NEW P, P = startPairs(U),
           validity_check_assumptions' = validity_check_assumptions \o P
    PROVE  /\ ArrayInv' /\ NumbersInv'
           /\ \A k \in Public' : k \in Public \/ k <= Introduced
           /\ Len(validity_check_assumptions') = Len(validity_check_assumptions) + Len(P)
           /\ \A j \in 1..Len(validity_check_assumptions) :
                 validity_check_assumptions'[j] = validity_check_assumptions[j]
           /\ \A j \in 1..Len(P) : validity_check_assumptions'[Len(validity_check_assumptions) + j] = P[j]
<1> DEFINE A == validity_check_assumptions
           B == A'
           M == Len(A)
           N == Len(P)
           m == Cardinality(Existentials)
           OldKind(k) == k \in Later \/ \E d \in Existentials, i \in {6, 7} : k = numberOf(d, i)
           NewKind(k) == \E d \in Existentials, i \in {1, 2} : k = numberOf(d, i)
<1>1. /\ A \in Seq(Int \ {0}) /\ P \in Seq(Int \ {0}) /\ M \in Nat /\ N \in Nat
      /\ DOMAIN A = 1..M /\ 2 * m <= M /\ m \in Nat
  BY StartPairs, ArrayPlaces, RankFacts DEF ArrayInv
<1>2. /\ B \in Seq(Int \ {0}) /\ Len(B) = M + N
      /\ \A j \in 1..M : B[j] = A[j]
      /\ \A j \in 1..N : B[M + j] = P[j]
  <2>1. B = A \o P
    OBVIOUS
  <2> HIDE DEF A, B
  <2> QED BY <1>1, <2>1 DEF M, N
<1>3. /\ \A j \in 1..N : NewKind(var(P[j]))
      /\ \A j, k \in 1..N : var(P[j]) = var(P[k]) => j = k
  BY PairNumbers
<1>4. \A j \in 1..M : OldKind(var(A[j]))
  BY <1>1 DEF ArrayInv, IsEntry, EntryKinds
<1>5. \A j, k \in 1..M : var(A[j]) = var(A[k]) => j = k
  BY <1>1 DEF ArrayInv
<1>6. /\ LastVariable \in Nat /\ Introduced \in Nat /\ last_variable \in Nat /\ Introduced <= last_variable
      /\ \A k \in Later : k \in Nat /\ k > Introduced
  BY NumberOfFacts DEF NumbersInv, Later
<1>7. \A k : NewKind(k) => k \in Nat /\ k <= Introduced /\ ~OldKind(k) /\ k \notin Later
  <2> SUFFICES ASSUME NEW d \in Existentials, NEW i \in {1, 2}, NEW k, k = numberOf(d, i)
               PROVE  k \in Nat /\ k <= Introduced /\ ~OldKind(k) /\ k \notin Later
    OBVIOUS
  <2>2. k \in Nat /\ k <= Introduced
    BY NumbersDiffer
  <2>3. k \notin Later
    BY <1>6, <2>2
  <2>4. \A g \in Existentials : \A h \in {6, 7} : numberOf(d, i) # numberOf(g, h)
    BY NumbersDiffer
  <2> QED BY <2>2, <2>3, <2>4
<1> DEFINE Old(j) == j \in 1..M
           New(j) == \E i \in 1..N : j = M + i
<1>8. \A j \in 1..Len(B) : Old(j) \/ New(j)
  <2> HIDE DEF M, N, B
  <2> SUFFICES ASSUME NEW j \in 1..(M + N) PROVE Old(j) \/ New(j)
    BY <1>2
  <2>1. j \in 1..M \/ (j - M \in 1..N /\ j = M + (j - M))
    BY <1>1
  <2> QED BY <2>1
<1>9. \A j : /\ Old(j) => B[j] = A[j] /\ OldKind(var(B[j]))
             /\ New(j) => NewKind(var(B[j]))
  <2> HIDE DEF OldKind, NewKind, A, B, M, N
  <2> QED BY <1>2, <1>3, <1>4
<1>10. ASSUME NEW j \in 1..Len(B), NEW k \in 1..Len(B), var(B[j]) = var(B[k]) PROVE j = k
  <2> HIDE DEF OldKind, NewKind
  <2>1. CASE Old(j) /\ Old(k)
    BY <1>2, <1>5, <1>10, <2>1
  <2>2. CASE New(j) /\ New(k)
    <3>1. PICK a \in 1..N : j = M + a
      BY <2>2
    <3>2. PICK b \in 1..N : k = M + b
      BY <2>2
    <3>3. var(P[a]) = var(P[b])
      BY <1>2, <1>10, <3>1, <3>2
    <3> QED BY <1>3, <3>1, <3>2, <3>3
  <2>3. CASE Old(j) /\ New(k)
    BY <1>7, <1>9, <1>10, <2>3
  <2>4. CASE New(j) /\ Old(k)
    BY <1>7, <1>9, <1>10, <2>4
  <2> QED BY <1>8, <2>1, <2>2, <2>3, <2>4
<1> HIDE DEF Old, New
<1>11. ArrayInv'
  <2>1. \A d \in Existentials : /\ forcing_disjunction(d)' = forcing_disjunction(d)
                                /\ rank(d)' = rank(d) /\ use_default_value(d)' = use_default_value(d)
    BY DEF forcing_disjunction, rank, use_default_value, numberOf
  <2>2. 2 * m <= Len(B)
    <3> HIDE DEF m, M, N, B
    <3> QED BY <1>1, <1>2
  <2>3. \A d \in Existentials : B[forcing_disjunction(d)] < 0 /\ B[2 * rank(d)] = use_default_value(d)
    <3> SUFFICES ASSUME NEW d \in Existentials
                 PROVE  B[forcing_disjunction(d)] < 0 /\ B[2 * rank(d)] = use_default_value(d)
      OBVIOUS
    <3>1. forcing_disjunction(d) \in 1..M /\ 2 * rank(d) \in 1..M
      BY ArrayPlaces
    <3>2. A[forcing_disjunction(d)] < 0 /\ A[2 * rank(d)] = use_default_value(d)
      BY DEF ArrayInv
    <3> DEFINE f == forcing_disjunction(d)
               r == 2 * rank(d)
    <3> HIDE DEF f, r, A, B, M
    <3>3. B[f] < 0 /\ B[r] = use_default_value(d)
      BY <1>2, <3>1, <3>2 DEF f, r
    <3> QED BY <3>3 DEF f, r
  <2>4. EntryKinds' = {1, 2, 6, 7}
    BY DEF EntryKinds
  <2>5. Later' = Later /\ \A d, j : numberOf(d, j)' = numberOf(d, j)
    BY DEF Later, Introduced, numberOf, rank
  <2> DEFINE IsNew(w) == w \in Later' \/ \E d \in Existentials : \E j \in EntryKinds' : w = numberOf(d, j)
  <2>6. \A k \in DOMAIN B : IsNew(var(B[k]))
    <3>1. \A w : OldKind(w) \/ NewKind(w) => IsNew(w)
      <4>1. {1, 2} \subseteq EntryKinds' /\ {6, 7} \subseteq EntryKinds'
        BY <2>4
      <4> HIDE DEF EntryKinds, Later
      <4> QED BY <2>5, <4>1
    <3> HIDE DEF OldKind, NewKind, IsNew
    <3>2. DOMAIN B = 1..Len(B)
      BY <1>2
    <3> QED BY <1>8, <1>9, <3>1, <3>2
  <2>7. (\A k \in DOMAIN validity_check_assumptions : IsEntry(var(validity_check_assumptions[k])))'
    BY <2>5, <2>6 DEF IsEntry
  <2>8. (\A k, l \in DOMAIN validity_check_assumptions :
           var(validity_check_assumptions[k]) = var(validity_check_assumptions[l]) => k = l)'
    BY <1>2, <1>10, SMTT(30)
  <2>9. (\A d \in Existentials :
          /\ validity_check_assumptions[forcing_disjunction(d)] < 0
          /\ validity_check_assumptions[2 * rank(d)] = use_default_value(d))'
    BY <2>1, <2>3
  <2> QED BY <1>2, <2>2, <2>7, <2>8, <2>9 DEF ArrayInv
<1>12. Arbiters' = Arbiters /\ Selectors' = Selectors /\ Later' = Later
  BY DEF Arbiters, Selectors, Later, Introduced
<1>13. \A k \in Entries' : k \in Entries \/ NewKind(k)
  <2> HIDE DEF OldKind, NewKind
  <2> SUFFICES ASSUME NEW j \in 1..Len(B) PROVE var(B[j]) \in Entries \/ NewKind(var(B[j]))
    <3>1. DOMAIN B = 1..Len(B)
      BY <1>2
    <3> QED BY <3>1 DEF Entries
  <2>1. CASE Old(j)
    BY <1>1, <1>9, <2>1 DEF Entries, Old
  <2> QED BY <1>8, <1>9, <2>1
<1>14. NumbersInv'
  <2>1. \A k : NewKind(k) => k \notin Arbiters /\ k \notin Selectors
    <3> SUFFICES ASSUME NEW d \in Existentials, NEW i \in {1, 2}, NEW k, k = numberOf(d, i)
                 PROVE  k \notin Arbiters /\ k \notin Selectors
      OBVIOUS
    <3>1. NewKind(k) /\ k \notin Later
      BY <1>7
    <3>2. \A g \in Existentials : initialSelector(g) = numberOf(g, 3)
      BY DEF initialSelector
    <3>3. \A g \in Existentials : numberOf(d, i) # numberOf(g, 3)
      BY NumbersDiffer
    <3> QED BY <3>1, <3>2, <3>3 DEF NumbersInv, Selectors
  <2>2. \A d \in Existentials : initialSelector(d)' = initialSelector(d)
    BY DEF initialSelector, numberOf, rank
  <2>3. Introduced' = Introduced
    BY DEF Introduced
  <2>4. /\ Arbiters' \cap Selectors' = {} /\ Arbiters' \cap Entries' = {}
        /\ Selectors' \cap Entries' = {}
    <3> HIDE DEF NewKind
    <3> QED BY <1>12, <1>13, <2>1 DEF NumbersInv
  <2> QED BY <1>12, <2>2, <2>3, <2>4 DEF NumbersInv
<1>15. \A k \in Public' : k \in Public \/ k <= Introduced
  <2> HIDE DEF NewKind
  <2> QED BY <1>7, <1>12, <1>13 DEF Public
<1> QED BY <1>2, <1>11, <1>14, <1>15

\* The default rules of the start: a constant for each undefined variable.
LEMMA StartCurrent ==
    ASSUME ArrayInv, InitDefaultValues, default_selectors = <<>>
    PROVE  /\ undefined' = undefined
           /\ \A e : ~treeActive(e)'
           /\ \A e \in undefined :
                 /\ DOMAIN current(e)' = {Whole} /\ e \in DOMAIN fixed_defaults'
                 /\ current(e)'[Whole].selectors = 2 * place(e, undefined) - 1
                 /\ current(e)'[Whole].assumptions
                       = Len(validity_check_assumptions) + (2 * place(e, undefined) - 1)
                 /\ spot(e, Whole)' = 2 * place(e, undefined) - 1
<1> DEFINE U == undefined
           p(e) == 2 * place(e, U) - 1
           M == Len(validity_check_assumptions)
<1>1. /\ fixed_defaults' = [e \in U |-> nextPlace(p(e))]
      /\ \A e \in DOMAIN default_trees' : DOMAIN default_trees'[e] = {}
      /\ definitions' = definitions
  BY StartStep
<1>2. undefined' = undefined
  BY <1>1 DEF undefined
<1>3. \A e : ~treeActive(e)'
  BY <1>1 DEF treeActive, treeIsAvailable
<1>4. \A e \in U : p(e) \in Nat
  <2>1. \A e \in U : place(e, U) \in 1..Cardinality(U) /\ Cardinality(U) \in Nat
    BY StartPairs DEF undefined
  <2> HIDE DEF U
  <2> QED BY <2>1
<1>5. \A e \in U : nextPlace(p(e)) = [assumptions |-> M + p(e), selectors |-> p(e)]
  <2> HIDE DEF p, U
  <2>1. \A k \in Nat : Len(default_selectors) + k = k
    OBVIOUS
  <2> QED BY <1>4, <2>1 DEF nextPlace
<1> HIDE DEF p
<1>6. ASSUME NEW e \in U
      PROVE  /\ DOMAIN current(e)' = {Whole} /\ e \in DOMAIN fixed_defaults'
             /\ current(e)'[Whole] = fixed_defaults'[e]
  <2>1. current(e)' = [c \in {Whole} |-> fixed_defaults'[e]]
    BY <1>3 DEF current, Whole
  <2> QED BY <1>1, <2>1
<1>7. \A e \in U : current(e)'[Whole] = [assumptions |-> M + p(e), selectors |-> p(e)]
  BY <1>1, <1>5, <1>6
<1>8. \A e \in U : current(e)'[Whole].selectors = p(e) /\ current(e)'[Whole].assumptions = M + p(e)
  <2> SUFFICES ASSUME NEW e \in U
               PROVE  current(e)'[Whole].selectors = p(e) /\ current(e)'[Whole].assumptions = M + p(e)
    OBVIOUS
  <2> DEFINE q == current(e)'[Whole]
  <2>1. q = [assumptions |-> M + p(e), selectors |-> p(e)]
    BY <1>7
  <2> HIDE DEF q, M, p
  <2>2. q.selectors = p(e) /\ q.assumptions = M + p(e)
    BY <2>1
  <2> QED BY <2>2 DEF q
<1> HIDE DEF U, M
<1>9. \A e : spot(e, Whole)' = current(e)'[Whole].selectors
  BY DEF spot, Whole
<1>10. \A e \in U : spot(e, Whole)' = p(e)
  BY <1>8, <1>9
<1>11. \A e \in U : /\ DOMAIN current(e)' = {Whole} /\ e \in DOMAIN fixed_defaults'
                    /\ current(e)'[Whole].selectors = p(e)
                    /\ current(e)'[Whole].assumptions = M + p(e)
                    /\ spot(e, Whole)' = p(e)
  BY <1>6, <1>8, <1>10
<1> QED BY <1>2, <1>3, <1>11 DEF p, M, U

LEMMA StartSuffix ==
    ASSUME ArrayInv, SuffixInv, InitDefaultValues, default_selectors = <<>>, undefined \subseteq Existentials
    PROVE  /\ SuffixInv'
           /\ default_selectors' = startPairs(undefined)
           /\ Len(validity_check_assumptions') = Len(validity_check_assumptions) + Len(default_selectors')
           /\ \A k \in 1..Len(validity_check_assumptions) :
                 validity_check_assumptions'[k] = validity_check_assumptions[k]
<1> DEFINE A == validity_check_assumptions
           P == startPairs(undefined)
           M == Len(A)
           N == Len(P)
           m == Cardinality(Existentials)
<1>1. /\ A' = A \o P /\ default_selectors' = <<>> \o P
  BY StartStep
<1>2. P \in Seq(Int \ {0}) /\ N \in Nat
  BY StartPairs
<1>3. A \in Seq(Int \ {0}) /\ M \in Nat /\ 2 * m <= M /\ m \in Nat
  BY ArrayPlaces, RankFacts DEF ArrayInv
<1>4. default_selectors' = P
  <2> HIDE DEF P
  <2> QED BY <1>1, <1>2
<1>5. /\ Len(A') = M + N
      /\ \A k \in 1..M : A'[k] = A[k]
      /\ \A k \in 1..N : A'[M + k] = P[k]
  <2> HIDE DEF P, A
  <2> QED BY <1>1, <1>2, <1>3, SMTT(30) DEF M, N
<1>6. (\A k \in 1..Len(default_selectors) :
          validity_check_assumptions[Len(validity_check_assumptions) - Len(default_selectors) + k]
             = default_selectors[k])'
  <2> HIDE DEF A, P, M, N
  <2> SUFFICES ASSUME NEW k \in 1..N PROVE A'[Len(A') - N + k] = P[k]
    BY <1>4 DEF N, A
  <2>1. Len(A') - N + k = M + k
    BY <1>2, <1>3, <1>5
  <2> QED BY <1>5, <2>1
<1>7. (2 * Cardinality(Existentials) + Len(default_selectors) <= Len(validity_check_assumptions))'
  <2> HIDE DEF A, P, M, N, m
  <2>1. 2 * m + N <= M + N
    BY <1>2, <1>3
  <2> QED BY <1>4, <1>5, <2>1 DEF N, A, m
<1>8. SuffixInv'
  BY <1>2, <1>4, <1>6, <1>7 DEF SuffixInv
<1> QED BY <1>4, <1>5, <1>8

LEMMA WholeFacts ==
    IsCube(Whole, Variables) /\ IsPartition({Whole}) /\ pathClause(Whole) = {}
<1>1. DOMAIN Whole = {} /\ Whole \in [DOMAIN Whole -> BOOLEAN]
  BY DEF Whole
<1>2. \A a : Agrees(Whole, a)
  BY <1>1 DEF Agrees
<1> QED BY <1>1, <1>2 DEF IsCube, IsPartition, pathClause

LEMMA StartPlaces ==
    ASSUME ArrayInv, SuffixInv, InitDefaultValues, default_selectors = <<>>
    PROVE  /\ PlacesInv'
           /\ \A e \in undefined : Conforms(e, fixedClauses(e))'
<1> DEFINE U == undefined
           P == startPairs(U)
           M == Len(validity_check_assumptions)
           N == Len(P)
           p(e) == 2 * place(e, U) - 1
<1>1. U \in SUBSET Existentials
  BY DEF undefined
<1>2. /\ undefined' = U /\ \A e : ~treeActive(e)'
      /\ \A e \in U : /\ DOMAIN current(e)' = {Whole} /\ e \in DOMAIN fixed_defaults'
                      /\ current(e)'[Whole].selectors = p(e)
                      /\ current(e)'[Whole].assumptions = M + p(e)
                      /\ spot(e, Whole)' = p(e)
  BY StartCurrent
<1>3. default_selectors' = P /\ Len(validity_check_assumptions') = M + N /\ M \in Nat
  BY <1>1, StartSuffix, ArrayPlaces
<1>4. /\ N \in Nat
      /\ \A e \in U : /\ p(e) \in 1..N /\ p(e) + 1 \in 1..N /\ p(e) \in Nat
                      /\ p(e) + 1 = 2 * place(e, U) /\ place(e, U) \in Nat
      /\ \A d, e \in U : place(d, U) = place(e, U) => d = e
  <2>1. /\ Cardinality(U) \in Nat /\ N = 2 * Cardinality(U)
        /\ \A e \in U : place(e, U) \in 1..Cardinality(U)
        /\ \A d, e \in U : place(d, U) = place(e, U) => d = e
    BY <1>1, StartPairs
  <2> HIDE DEF U, P, N
  <2> QED BY <2>1
<1>5. \A e \in U : /\ var(P[p(e)]) = positive_selector(e) /\ var(P[p(e) + 1]) = negative_selector(e)
                   /\ P[p(e)] > 0 /\ ~(P[p(e) + 1] > 0)
  <2>1. \A e \in U : /\ var(P[2 * place(e, U) - 1]) = positive_selector(e)
                     /\ var(P[2 * place(e, U)]) = negative_selector(e)
                     /\ P[2 * place(e, U) - 1] > 0 /\ ~(P[2 * place(e, U)] > 0)
    BY <1>1, PairNumbers
  <2> HIDE DEF P, U
  <2> QED BY <1>4, <2>1
<1>6. \A d, e \in U : d # e => Distant(p(d), p(e))
  <2> SUFFICES ASSUME NEW d \in U, NEW e \in U, d # e PROVE Distant(p(d), p(e))
    OBVIOUS
  <2>1. place(d, U) \in Nat /\ place(e, U) \in Nat /\ place(d, U) # place(e, U)
    BY <1>4
  <2> QED BY <2>1 DEF Distant
<1> HIDE DEF p, U, P, N, M
<1>7. ASSUME NEW e \in U PROVE IsPlace(current(e)[Whole])'
  <2> DEFINE q == current(e)[Whole]
  <2>1. q'.selectors = p(e) /\ q'.assumptions = M + p(e)
    BY <1>2 DEF Whole
  <2>2. q'.assumptions = Len(validity_check_assumptions') - N + q'.selectors
    BY <1>3, <1>4, <2>1
  <2> HIDE DEF q
  <2>3. IsPlace(q)'
    BY <1>3, <1>4, <1>5, <2>1, <2>2 DEF IsPlace, N
  <2> QED BY <2>3 DEF q
<1>8. PlacesInv'
  <2>1. (\A e \in undefined : \A c \in DOMAIN current(e) :
            IsPlace(current(e)[c]) /\ IsCube(c, Variables))'
    BY <1>2, <1>7, WholeFacts
  <2>2. (\A d, e \in undefined : \A b \in DOMAIN current(d) : \A c \in DOMAIN current(e) :
            d # e \/ b # c => Distant(spot(d, b), spot(e, c)))'
    BY <1>2, <1>6 DEF Distant
  <2>3. (\A e \in undefined : IsPartition(DOMAIN current(e)))'
    BY <1>2, WholeFacts
  <2>4. (\A e \in undefined : treeActive(e) \/ e \in DOMAIN fixed_defaults)'
    BY <1>2
  <2>5. (variables_with_defaults = undefined)'
    BY <1>2, StartStep DEF U
  <2> QED BY <2>2, <2>3, <2>4, <2>5, <2>1 DEF PlacesInv
<1>9. ASSUME NEW e \in U PROVE Conforms(e, fixedClauses(e))'
  <2>1. \A b \in BOOLEAN : fixedClause(e, b)
           = {-(IF b THEN positive_selector(e) ELSE negative_selector(e)), literal(e, b)}
    BY <1>1, FixedLiterals
  <2>2. \A b \in BOOLEAN : selectorOf(e, Whole, b)' = IF b THEN positive_selector(e) ELSE negative_selector(e)
    <3>1. \A b \in BOOLEAN : selectorOf(e, Whole, b)' = var(P[IF b THEN p(e) ELSE p(e) + 1])
      BY <1>2, <1>3 DEF selectorOf
    <3> QED BY <1>5, <3>1
  <2>3. \A b \in BOOLEAN : currentClause(e, Whole, b)' = {} \cup {-selectorOf(e, Whole, b)', literal(e, b)}
    BY WholeFacts DEF currentClause
  <2>4. \A b \in BOOLEAN : currentClause(e, Whole, b)' = fixedClause(e, b)
    BY <2>1, <2>2, <2>3
  <2>5. (\A c \in DOMAIN current(e), b \in BOOLEAN : currentClause(e, c, b) \in fixedClauses(e))'
    <3>1. \A b \in BOOLEAN : currentClause(e, Whole, b)' \in fixedClauses(e)
      BY <2>4 DEF fixedClauses
    <3> QED BY <1>2, <3>1
  <2>6. (\A C \in fixedClauses(e) : \E c \in DOMAIN current(e), b \in BOOLEAN : C = currentClause(e, c, b))'
    <3>1. \A C \in fixedClauses(e) : \E b \in BOOLEAN : C = currentClause(e, Whole, b)'
      BY <2>4 DEF fixedClauses
    <3> QED BY <1>2, <3>1
  <2> QED BY <2>5, <2>6 DEF Conforms
<1> QED BY <1>8, <1>9 DEF U

\* An undefined variable's clauses with those of its constant.
LEMMA StartEncoded ==
    ASSUME NEW e \in Existentials, NEW n \in Nat, Introduced <= n
    PROVE  DefaultsAreEncoded(e, initialSelector(e), initialValidityClauses(e), forcingTerminal(e),
                              {}, {}, {}, n, fixedClauses(e))
<1> DEFINE S == initialSelector(e)
           cs == initialValidityClauses(e)
           T == forcingTerminal(e)
           more == fixedClauses(e)
           none == {}
<1>1. e \in Nat \ {0} /\ Introduced \in Nat
  BY NumberOfFacts DEF Variables
<1>2. Encodes(e, S, cs, T, none, none, none) /\ Within(cs, Introduced)
  BY <1>1, InitiallyEncoded
<1>3. S \in Nat /\ S <= Introduced
  BY <1>1, NumberOfFacts DEF initialSelector
<1>4. S <= n
  BY <1>1, <1>3
<1>5. Within(cs, n)
  BY <1>1, <1>2, WithinMore
<1>6. \A C \in more : \A l \in C : IsOuter(l, e, T, none) /\ var(l) <= n
  <2>1. \A C \in more : \A l \in C : IsOuter(l, e, T, none) /\ var(l) <= Introduced
    BY FixedLiterals
  <2>2. \A l \in Int \ {0} : var(l) \in Nat
    BY DEF var
  <2>3. \A C \in more : \A l \in C : l \in Int \ {0}
    BY <2>1 DEF IsOuter
  <2> HIDE DEF more
  <2>4. \A k \in Nat : k <= Introduced => k <= n
    BY <1>1
  <2> QED BY <2>1, <2>2, <2>3, <2>4
<1> HIDE DEF S, cs, T, more, none
<1>7. CanEncodeDefaults(e, S, cs, T, none, none, none, n, more)
  BY <1>2, <1>4, <1>5, <1>6, Zenon DEF CanEncodeDefaults
<1> QED BY <1>7, DefaultsEncodedBy DEF S, cs, T, more, none

\* initDefaultValues.
LEMMA InitDefaultsKeeps ==
    ASSUME RulesInv, InitDefaultValues
    PROVE  RulesInv'
<1> DEFINE A == validity_check_assumptions
           U == undefined
           n == last_variable
           bodies(e) == {C \cup {-apply_default(e)} : C \in fixedClauses(e)}
<1>1. /\ stage = "preprocessing" /\ stage' = "search"
      /\ DOMAIN default_trees' \subseteq U
      /\ UNCHANGED <<reads, last_variable, selectors, definitions, forcing_clauses,
                     arbiter_to_annotation, proper_arbiters>>
      /\ A' = A \o startPairs(U)
      /\ validity_clauses' = [e \in Existentials |-> IF e \notin U THEN validity_clauses[e] ELSE
            validity_clauses[e] \cup guarded(StartClauses(e), selectors[e])]
  BY StartStep
<1>2. /\ ArrayInv /\ NumbersInv /\ SuffixInv /\ SortsInv /\ BeforeInv
      /\ \A d \in DOMAIN definitions : IsDefined(d)
  BY <1>1 DEF RulesInv
<1>3. /\ U \in SUBSET Existentials /\ undefined' = U /\ default_selectors = <<>>
      /\ forcing_clauses = {}
  BY <1>1, <1>2 DEF undefined, BeforeInv
<1>4. /\ ArrayInv' /\ NumbersInv' /\ \A k \in Public' : k \in Public \/ k <= Introduced
      /\ \A j \in 1..Len(A) : A'[j] = A[j]
  <2> DEFINE P == startPairs(U)
  <2>1. A' = A \o P
    BY <1>1
  <2> HIDE DEF P
  <2>2. \A Q : Q = P => Q = startPairs(U)
    BY DEF P
  <2> HIDE DEF U
  <2> QED BY <1>1, <1>2, <1>3, <2>1, <2>2, StartArrays
<1>5. SuffixInv' /\ PlacesInv' /\ \A e \in U : Conforms(e, fixedClauses(e))'
  BY <1>2, <1>3, StartSuffix, StartPlaces
<1>6. n \in Nat /\ Introduced \in Nat /\ Introduced <= n
  BY <1>2, NumberOfFacts DEF NumbersInv
<1>7. \A e \in U : DefaultsAreEncoded(e, initialSelector(e), initialValidityClauses(e),
                                      forcingTerminal(e), {}, {}, {}, n, fixedClauses(e))
  BY <1>3, <1>6, StartEncoded
<1>8. \A e \in U : /\ selectors'[e] = initialSelector(e)
                   /\ validity_clauses'[e]
                         = initialValidityClauses(e) \cup guarded(bodies(e), initialSelector(e))
  <2> SUFFICES ASSUME NEW e \in U
               PROVE  /\ selectors'[e] = initialSelector(e)
                      /\ validity_clauses'[e]
                            = initialValidityClauses(e) \cup guarded(bodies(e), initialSelector(e))
    OBVIOUS
  <2>1. validity_clauses'[e] = validity_clauses[e] \cup guarded(StartClauses(e), selectors[e])
    BY <1>1, <1>3
  <2>2. StartClauses(e) = bodies(e)
    BY StartBodies
  <2>3. selectors[e] = initialSelector(e) /\ validity_clauses[e] = initialValidityClauses(e)
    BY <1>2 DEF BeforeInv
  <2> QED BY <1>1, <2>1, <2>2, <2>3
<1>9. SortsInv'
  <2>1. ASSUME NEW e \in Existentials PROVE Within(validity_clauses'[e], n)
    <3>1. CASE e \in U
      <4>1. Within(initialValidityClauses(e) \cup guarded(bodies(e), initialSelector(e)), n)
        BY <1>7, <3>1 DEF DefaultsAreEncoded
      <4> QED BY <1>8, <3>1, <4>1
    <3>2. CASE e \notin U
      <4>1. validity_clauses'[e] = validity_clauses[e]
        BY <1>1, <3>2
      <4> QED BY <1>2, <4>1 DEF SortsInv
    <3> QED BY <3>1, <3>2
  <2>2. (\A e \in Existentials : Within(validity_clauses[e], last_variable))'
    BY <1>1, <2>1
  <2>3. (reads \in [Existentials -> SUBSET Variables])' /\ (DOMAIN validity_clauses = Existentials)'
    BY <1>1, <1>2 DEF SortsInv
  <2>4. (\A e \in DOMAIN definitions :
            \E R \in SUBSET Variables : definitions[e] \in [[R -> BOOLEAN] -> BOOLEAN])'
    BY <1>1, <1>2 DEF SortsInv
  <2>5. (DOMAIN definitions \subseteq Existentials)'
    BY <1>1, <1>2 DEF SortsInv
  <2> QED BY <2>2, <2>3, <2>4, <2>5 DEF SortsInv
<1>10. ASSUME NEW d \in DOMAIN definitions PROVE IsDefined(d)'
  <2>1. PICK k \in Nat :
           /\ Introduced <= k /\ k + 15 <= last_variable
           /\ selectors[d] = k + 10 /\ {k + 11, k + 12, k + 13} \cap Public = {}
           /\ validity_clauses[d] = definedClauses(d, definitions[d], k)
    BY <1>2 DEF IsDefined
  <2>2. {k + 11, k + 12, k + 13} \cap Public' = {}
    <3>1. \A j \in {k + 11, k + 12, k + 13} : ~(j <= Introduced)
      BY <1>6, <2>1
    <3> QED BY <1>4, <2>1, <3>1
  <2>3. validity_clauses'[d] = validity_clauses[d]
    <3>1. d \in Existentials /\ d \notin U
      BY <1>2 DEF undefined, SortsInv
    <3> QED BY <1>1, <3>1
  <2>4. (definedClauses(d, definitions[d], k))' = definedClauses(d, definitions[d], k)
    BY <1>1 DEF definedClauses
  <2>5. Introduced' = Introduced
    BY DEF Introduced
  <2> QED BY <1>1, <2>2, <2>3, <2>4, <2>5, <2>1 DEF IsDefined
<1>11. ASSUME NEW e \in U PROVE Encoded(e)'
  <2>1. terminalOf(e)' = forcingTerminal(e)
    <3>1. forcing_disjunction(e) \in 1..Len(A) /\ A[forcing_disjunction(e)] = -forcingTerminal(e)
      BY <1>2, <1>3, ArrayPlaces DEF BeforeInv
    <3>2. forcingTerminal(e) \in Nat
      BY <1>3, NumberTypes DEF forcingTerminal
    <3>3. A'[forcing_disjunction(e)] = -forcingTerminal(e)
      BY <1>4, <3>1
    <3>4. terminalOf(e)' = -A'[forcing_disjunction(e)]
      BY DEF terminalOf, forcing_disjunction, rank
    <3> QED BY <3>2, <3>3, <3>4
  <2>2. RulesOf(e)' = {}
    BY <1>1, <1>3 DEF RulesOf
  <2> DEFINE D == fixedClauses(e)
             none == {}
             cs == initialValidityClauses(e) \cup guarded(bodies(e), initialSelector(e))
  <2>3. Encodes(e, initialSelector(e), cs, forcingTerminal(e), none, none \cup D, none)
    BY <1>7 DEF DefaultsAreEncoded
  <2>4. \A C \in D : \A l \in C : var(l) <= last_variable'
    <3>1. \A C \in D : \A l \in C : var(l) <= Introduced /\ l \in Int \ {0}
      BY <1>3, FixedLiterals DEF IsOuter
    <3>2. \A l \in Int \ {0} : var(l) \in Nat
      BY DEF var
    <3>3. \A k \in Nat : k <= Introduced => k <= n
      BY <1>6
    <3> HIDE DEF D
    <3> QED BY <1>1, <3>1, <3>2, <3>3
  <2>5. Conforms(e, D)'
    BY <1>5
  <2>6. none \cup D = D
    OBVIOUS
  <2> HIDE DEF D, none, cs, bodies
  <2>7. Encodes(e, initialSelector(e), cs, forcingTerminal(e), none, D, none)
    BY <2>3, <2>6
  <2>8. (Encodes(e, selectors[e], validity_clauses[e], terminalOf(e), RulesOf(e), D, none))'
    <3>1. selectors'[e] = initialSelector(e) /\ validity_clauses'[e] = cs
      BY <1>8 DEF cs
    <3>2. D' = D /\ none' = none /\ RulesOf(e)' = none
      BY <2>2 DEF D, none, fixedClauses, fixedClause, positive_selector, negative_selector,
         numberOf, rank, literal
    <3> QED BY <2>1, <2>7, <3>1, <3>2
  <2>9. none \subseteq 1..last_variable' /\ none \cap Public' = {}
    BY DEF none
  <2> QED BY <2>4, <2>5, <2>8, <2>9 DEF Encoded
<1>12. SearchInv'
  <2>1. (DOMAIN default_trees \subseteq undefined)'
    BY <1>1, <1>3
  <2>2. (\A r \in forcing_clauses : IsRule(r))'
    BY <1>1, <1>3
  <2>3. (\A e \in undefined : Encoded(e))'
    BY <1>3, <1>11
  <2> QED BY <1>5, <2>1, <2>2, <2>3 DEF SearchInv
<1>13. (\A d \in DOMAIN definitions : IsDefined(d))'
  BY <1>1, <1>10
<1> QED BY <1>1, <1>4, <1>5, <1>9, <1>12, <1>13 DEF RulesInv

\* The array of assumptions before there are rules.
LEMMA FirstArray ==
    ASSUME SkolemInit
    PROVE  /\ ArrayInv /\ Len(validity_check_assumptions) = 2 * Cardinality(Existentials)
           /\ \A k \in DOMAIN validity_check_assumptions :
                 \E e \in Existentials : \E j \in {6, 7} :
                    var(validity_check_assumptions[k]) = numberOf(e, j)
           /\ \A e \in Existentials :
                 validity_check_assumptions[forcing_disjunction(e)] = -forcingTerminal(e)
<1> DEFINE A == validity_check_assumptions
           m == Cardinality(Existentials)
           K == 1..m
           nth(k) == nthExistential(k)
           T(e) == forcingTerminal(e)
           D(e) == use_default_value(e)
<1>1. /\ m \in Nat
      /\ \A e \in Existentials : rank(e) \in K /\ nth(rank(e)) = e
      /\ \A k \in K : nth(k) \in Existentials /\ rank(nth(k)) = k
  BY RankFacts
<1>2. \A e \in Existentials : /\ T(e) = numberOf(e, 7) /\ D(e) = numberOf(e, 6)
                              /\ T(e) \in Nat \ {0} /\ D(e) \in Nat \ {0}
  BY NumberTypes DEF forcingTerminal, use_default_value
<1>3. A = [k \in 1..2 * m |-> IF k % 2 = 1 THEN -T(nth((k + 1) \div 2)) ELSE D(nth(k \div 2))]
  BY DEF SkolemInit
<1>4. stage = "idle"
  BY DEF SkolemInit
<1> HIDE DEF A, m, T, D, nth
<1>5. DOMAIN A = 1..2 * m
  BY <1>3
<1>6. \A k \in K : /\ 2 * k - 1 \in 1..2 * m /\ 2 * k \in 1..2 * m
                   /\ A[2 * k - 1] = -T(nth(k)) /\ A[2 * k] = D(nth(k))
  BY <1>1, <1>3, Halves
<1>7. \A j \in 1..2 * m : \E k \in K : j = 2 * k - 1 \/ j = 2 * k
  BY <1>1, Halves
<1>8. \A k \in K : /\ var(A[2 * k - 1]) = numberOf(nth(k), 7) /\ var(A[2 * k]) = numberOf(nth(k), 6)
                   /\ A[2 * k - 1] \in Int \ {0} /\ A[2 * k] \in Int \ {0} /\ A[2 * k - 1] < 0
  <2> SUFFICES ASSUME NEW k \in K
               PROVE  /\ var(A[2 * k - 1]) = numberOf(nth(k), 7) /\ var(A[2 * k]) = numberOf(nth(k), 6)
                      /\ A[2 * k - 1] \in Int \ {0} /\ A[2 * k] \in Int \ {0} /\ A[2 * k - 1] < 0
    OBVIOUS
  <2> DEFINE t == T(nth(k))
             d == D(nth(k))
  <2>1. /\ t = numberOf(nth(k), 7) /\ d = numberOf(nth(k), 6)
        /\ t \in Nat \ {0} /\ d \in Nat \ {0} /\ A[2 * k - 1] = -t /\ A[2 * k] = d
    BY <1>1, <1>2, <1>6
  <2> HIDE DEF t, d
  <2>2. var(-t) = t /\ var(d) = d /\ -t \in Int \ {0} /\ d \in Int \ {0} /\ -t < 0
    BY <2>1 DEF var
  <2> QED BY <2>1, <2>2
<1>9. A \in Seq(Int \ {0}) /\ Len(A) = 2 * m
  <2>1. 2 * m \in Nat
    BY <1>1
  <2>2. \A j \in 1..2 * m : A[j] \in Int \ {0}
    BY <1>7, <1>8
  <2>3. A = [j \in 1..2 * m |-> A[j]]
    BY <1>3
  <2> QED BY <2>1, <2>2, <2>3
<1>10. \A j \in 1..2 * m : \E e \in Existentials : \E i \in {6, 7} : var(A[j]) = numberOf(e, i)
  <2> SUFFICES ASSUME NEW j \in 1..2 * m
               PROVE  \E e \in Existentials : \E i \in {6, 7} : var(A[j]) = numberOf(e, i)
    OBVIOUS
  <2>1. PICK k \in K : j = 2 * k - 1 \/ j = 2 * k
    BY <1>7
  <2>2. nth(k) \in Existentials
    BY <1>1
  <2>3. var(A[j]) = numberOf(nth(k), 7) \/ var(A[j]) = numberOf(nth(k), 6)
    BY <1>8, <2>1
  <2> QED BY <2>2, <2>3
<1>11. ASSUME NEW i \in 1..2 * m, NEW j \in 1..2 * m, var(A[i]) = var(A[j]) PROVE i = j
  <2>1. PICK k \in K : i = 2 * k - 1 \/ i = 2 * k
    BY <1>7
  <2>2. PICK l \in K : j = 2 * l - 1 \/ j = 2 * l
    BY <1>7
  <2>3. nth(k) \in Existentials /\ nth(l) \in Existentials
    BY <1>1
  <2> DEFINE d == nth(k)
             e == nth(l)
             v == var(A[i])
  <2>4. \A a, b \in 1..22 : numberOf(d, a) = numberOf(e, b) => d = e /\ a = b
    BY <2>3, NumberOfFacts
  <2>5. 6 \in 1..22 /\ 7 \in 1..22
    OBVIOUS
  <2>6. /\ i = 2 * k - 1 => v = numberOf(d, 7)
        /\ i = 2 * k => v = numberOf(d, 6)
        /\ j = 2 * l - 1 => v = numberOf(e, 7)
        /\ j = 2 * l => v = numberOf(e, 6)
    BY <1>8, <1>11
  <2>7. d = e => k = l
    BY <1>1
  <2> HIDE DEF d, e, v
  <2>8. CASE i = 2 * k - 1 /\ j = 2 * l - 1
    <3>1. d = e
      BY <2>4, <2>5, <2>6, <2>8
    <3> QED BY <2>7, <2>8, <3>1
  <2>9. CASE i = 2 * k /\ j = 2 * l
    <3>1. d = e
      BY <2>4, <2>5, <2>6, <2>9
    <3> QED BY <2>7, <2>9, <3>1
  <2>10. CASE i = 2 * k - 1 /\ j = 2 * l
    BY <2>4, <2>5, <2>6, <2>10
  <2>11. CASE i = 2 * k /\ j = 2 * l - 1
    BY <2>4, <2>5, <2>6, <2>11
  <2> QED BY <2>1, <2>2, <2>8, <2>9, <2>10, <2>11
<1>12. \A e \in Existentials : /\ A[forcing_disjunction(e)] = -T(e) /\ A[forcing_disjunction(e)] < 0
                               /\ A[2 * rank(e)] = D(e)
  <2> SUFFICES ASSUME NEW e \in Existentials
               PROVE  /\ A[forcing_disjunction(e)] = -T(e) /\ A[forcing_disjunction(e)] < 0
                      /\ A[2 * rank(e)] = D(e)
    OBVIOUS
  <2>1. rank(e) \in K /\ nth(rank(e)) = e
    BY <1>1
  <2> DEFINE k == rank(e)
  <2>2. forcing_disjunction(e) = 2 * k - 1
    BY DEF forcing_disjunction
  <2> HIDE DEF k
  <2>3. k \in K /\ nth(k) = e /\ A[2 * k - 1] = -T(nth(k)) /\ A[2 * k] = D(nth(k)) /\ A[2 * k - 1] < 0
    BY <1>6, <1>8, <2>1 DEF k
  <2> QED BY <2>2, <2>3 DEF k
<1>13. ArrayInv
  <2>1. \A k \in DOMAIN A : IsEntry(var(A[k]))
    BY <1>4, <1>5, <1>10 DEF IsEntry, EntryKinds
  <2>2. \A k, l \in DOMAIN A : var(A[k]) = var(A[l]) => k = l
    BY <1>5, <1>11
  <2>3. 2 * m <= Len(A)
    BY <1>1, <1>9
  <2> QED BY <1>9, <1>12, <2>1, <2>2, <2>3 DEF ArrayInv, A, m, D
<1> QED BY <1>5, <1>9, <1>10, <1>12, <1>13 DEF A, m, T

LEMMA RulesStart ==
    ASSUME SkolemInit
    PROVE  RulesInv
<1> DEFINE A == validity_check_assumptions
           m == Cardinality(Existentials)
<1>1. /\ ArrayInv /\ Len(A) = 2 * m
      /\ \A k \in DOMAIN A : \E e \in Existentials : \E j \in {6, 7} : var(A[k]) = numberOf(e, j)
      /\ \A e \in Existentials : A[forcing_disjunction(e)] = -forcingTerminal(e)
  BY FirstArray
<1>2. /\ stage = "idle" /\ forcing_clauses = {} /\ default_selectors = <<>>
      /\ selectors = [e \in Existentials |-> initialSelector(e)]
      /\ validity_clauses = [e \in Existentials |-> initialValidityClauses(e)]
      /\ DOMAIN definitions = {} /\ DOMAIN arbiter_to_annotation = {} /\ proper_arbiters = {}
      /\ reads = [e \in Existentials |-> {}]
      /\ last_variable = Introduced
  BY DEF SkolemInit, DefaultInit, Introduced
<1>3. Introduced \in Nat
  BY NumberOfFacts
<1>4. m \in Nat
  BY RankFacts
<1>5. NumbersInv
  <2>1. \A e \in Existentials : initialSelector(e) = numberOf(e, 3) /\ initialSelector(e) \in Nat
    BY NumberTypes DEF initialSelector
  <2>2. selectors \in [Existentials -> Nat] /\ \A d \in Existentials : selectors[d] = initialSelector(d)
    BY <1>2, <2>1
  <2>3. Arbiters = {}
    BY <1>2 DEF Arbiters
  <2>4. Selectors \cap Entries = {}
    <3>1. 3 \in 1..22 /\ 6 \in 1..22 /\ 7 \in 1..22
      OBVIOUS
    <3>2. \A d, e \in Existentials : \A j \in {6, 7} : numberOf(d, 3) # numberOf(e, j)
      BY <3>1, NumberOfFacts
    <3>3. \A n \in Selectors : \E d \in Existentials : n = numberOf(d, 3)
      BY <2>1, <2>2 DEF Selectors
    <3>4. \A n \in Entries : \E e \in Existentials : \E j \in {6, 7} : n = numberOf(e, j)
      BY <1>1 DEF Entries
    <3> QED BY <3>2, <3>3, <3>4
  <2>5. Introduced <= last_variable
    BY <1>2, <1>3
  <2> QED BY <1>2, <1>3, <2>2, <2>3, <2>4, <2>5 DEF NumbersInv
<1>6. SuffixInv
  <2>1. Len(default_selectors) = 0 /\ default_selectors \in Seq(Int \ {0})
    BY <1>2
  <2>2. 2 * m + Len(default_selectors) <= Len(A)
    <3> HIDE DEF m, A
    <3> QED BY <1>1, <1>4, <2>1
  <2> QED BY <2>1, <2>2 DEF SuffixInv
<1>7. SortsInv
  <2>1. \A e \in Existentials : Within(validity_clauses[e], last_variable)
    <3>1. \A e \in Existentials : e \in Nat \ {0}
      BY NumberOfFacts DEF Variables
    <3> QED BY <1>2, <3>1, InitiallyEncoded
  <2> QED BY <1>2, <2>1 DEF SortsInv
<1>8. BeforeInv
  BY <1>1, <1>2 DEF BeforeInv, undefined
<1> QED BY <1>1, <1>2, <1>5, <1>6, <1>7, <1>8 DEF RulesInv

\* Nothing the rules depend on changes.
LEMMA RulesFrame ==
    ASSUME RulesInv, UNCHANGED defaultVars, UNCHANGED skolemVars
    PROVE  RulesInv'
<1>1. UNCHANGED <<default_setting, reads, last_variable, validity_check_assumptions, default_selectors,
                  variables_with_defaults, fixed_defaults, default_trees>>
  BY DEF defaultVars
<1>2. UNCHANGED <<stage, selectors, validity_clauses, definitions, forcing_clauses,
                  arbiter_to_annotation, proper_arbiters>>
  BY DEF skolemVars
<1>3. ArrayInv => ArrayInv'
  BY <1>1, <1>2 DEF ArrayInv, IsEntry, EntryKinds, Later
<1>4. NumbersInv => NumbersInv'
  BY <1>1, <1>2 DEF NumbersInv, Arbiters, Later, Selectors, Entries
<1>5. SuffixInv => SuffixInv'
  BY <1>1, <1>2 DEF SuffixInv
<1>6. SortsInv => SortsInv'
  BY <1>1, <1>2 DEF SortsInv
<1>7. Public' = Public
  BY <1>1, <1>2 DEF Public, Arbiters, Selectors, Entries
<1>8. ASSUME NEW d \in DOMAIN definitions, IsDefined(d) PROVE IsDefined(d)'
  BY <1>1, <1>2, <1>7, <1>8 DEF IsDefined
<1>9. BeforeInv => BeforeInv'
  BY <1>1, <1>2 DEF BeforeInv, undefined
<1>10. undefined' = undefined /\ \A e : current(e)' = current(e) /\ (treeActive(e)' <=> treeActive(e))
  BY <1>1, <1>2 DEF undefined, current, treeActive, treeIsAvailable, Whole
<1>11. PlacesInv => PlacesInv'
  BY <1>1, <1>2, <1>10 DEF PlacesInv, IsPlace, spot
<1>12. ASSUME SearchInv PROVE SearchInv'
  <2>1. Grows \/ ~NumbersInv
    BY <1>1, <1>2, <1>7 DEF Grows, NumbersInv
  <2>2. NumbersInv
    BY DEF RulesInv
  <2>3. \A e : RulesOf(e)' = RulesOf(e)
    BY <1>2 DEF RulesOf
  <2>4. \A e, D : Conforms(e, D) => Conforms(e, D)'
    BY <1>1, <1>2, ConformsSame
  <2>5. ASSUME NEW e \in undefined PROVE Encoded(e)'
    <3>1. Encoded(e)
      BY <1>12 DEF SearchInv
    <3> QED BY <1>1, <1>2, <2>1, <2>2, <2>3, <2>4, <3>1, EncodedKept
  <2>6. (\A e \in undefined : Encoded(e))'
    BY <1>10, <2>5
  <2>7. (\A r \in forcing_clauses : IsRule(r))'
    BY <1>2, <1>10, <1>12 DEF SearchInv, IsRule
  <2> QED BY <1>1, <1>10, <1>11, <1>12, <2>6, <2>7 DEF SearchInv
<1>13. (\A d \in DOMAIN definitions : IsDefined(d))'
  BY <1>2, <1>8 DEF RulesInv
<1> QED BY <1>2, <1>3, <1>4, <1>5, <1>6, <1>9, <1>12, <1>13 DEF RulesInv

\* The constructors: what existentials may read is known.
LEMMA ConstructKeeps ==
    ASSUME RulesInv, SchemeInv, Construct
    PROVE  RulesInv'
<1>1. /\ stage = "idle" /\ stage' = "preprocessing"
      /\ reads' = computeExtendedDependencies(AllDependencies)
      /\ UNCHANGED <<last_variable, validity_check_assumptions, default_selectors, selectors,
                     validity_clauses, definitions, forcing_clauses, arbiter_to_annotation,
                     proper_arbiters>>
  BY DEF Construct
<1>2. /\ ArrayInv /\ NumbersInv /\ SuffixInv /\ SortsInv /\ BeforeInv
      /\ \A d \in DOMAIN definitions : IsDefined(d)
  BY <1>1 DEF RulesInv
<1>3. reads' \in [Existentials -> SUBSET Variables]
  <2>1. \A v \in Existentials : reads'[v] \subseteq Variables
    BY <1>1, ReadsVariables
  <2>2. reads' = [v \in Existentials |-> reads'[v]]
    BY <1>1 DEF computeExtendedDependencies
  <2> QED BY <2>1, <2>2
<1>4. ArrayInv'
  BY <1>1, <1>2 DEF ArrayInv, IsEntry, EntryKinds, Later
<1>5. NumbersInv'
  BY <1>1, <1>2 DEF NumbersInv, Arbiters, Later, Selectors, Entries
<1>6. SuffixInv'
  BY <1>1, <1>2 DEF SuffixInv
<1>7. SortsInv'
  BY <1>1, <1>2, <1>3 DEF SortsInv
<1>8. BeforeInv'
  BY <1>1, <1>2 DEF BeforeInv, undefined
<1>9. Public' = Public
  BY <1>1 DEF Public, Arbiters, Selectors, Entries
<1>10. (\A d \in DOMAIN definitions : IsDefined(d))'
  <2>1. ASSUME NEW d \in DOMAIN definitions PROVE IsDefined(d)'
    <3>1. IsDefined(d)
      BY <1>2
    <3> QED BY <1>1, <1>9, <3>1 DEF IsDefined
  <2> QED BY <1>1, <2>1
<1> QED BY <1>1, <1>4, <1>5, <1>6, <1>7, <1>8, <1>10 DEF RulesInv

\* The definition of a variable with a unate literal.
LEMMA ConstantDefinition ==
    ASSUME NEW b \in BOOLEAN
    PROVE  [c \in {[y \in {} |-> TRUE]} |-> b] \in [[{} -> BOOLEAN] -> BOOLEAN]
<1>1. [{} -> BOOLEAN] = {[y \in {} |-> TRUE]}
  OBVIOUS
<1> QED BY <1>1

LEMMA SkolemOperationsKeep ==
    ASSUME RulesInv, SkolemOperations
    PROVE  RulesInv'
<1>1. ASSUME NEW e \in Existentials, NEW b \in BOOLEAN, NEW cube \in ForcingPremises,
             NEW X \in ArbiterPremises, AddForcingClause(e, b, cube, X)
      PROVE  RulesInv'
  BY <1>1, AddForcingKeeps
<1>2. ASSUME NEW e \in Existentials, NEW ic \in BOOLEAN,
             NEW annotation \in [reads[e] \cap Universals -> BOOLEAN], GetArbiter(e, annotation, ic)
      PROVE  RulesInv'
  BY <1>2, GetArbiterKeeps
<1>3. ASSUME NEW e \in Existentials, NEW b \in BOOLEAN, SetDefaultValue(e, b) \/ InsertIntoConstant(e, b)
      PROVE  RulesInv'
  <2>1. /\ stage = "search" /\ UNCHANGED skolemVars
        /\ useDefault(e) /\ ~treeActive(e) /\ SetPolarity(e, b)
    BY <1>3 DEF SetDefaultValue, InsertIntoConstant, setFixedDefaultPolarity, InsertFixed, defaultOnly
  <2> QED BY <2>1, SetPolarityKeeps
<1>4. ASSUME NEW e, NEW leaf, InsertIntoLeaf(e, leaf) PROVE RulesInv'
  <2>1. stage = "search" /\ UNCHANGED skolemVars /\ ToggleLeaf(e, leaf)
    BY <1>4 DEF InsertIntoLeaf, defaultOnly
  <2> QED BY <2>1, ToggleLeafKeeps
<1>5. ASSUME NEW e, NEW majority \in [BOOLEAN -> BOOLEAN], NEW leaf, NEW x \in sample_space(e),
             InsertAndSplit(e, leaf, x, majority)
      PROVE  RulesInv'
  BY <1>5, SplitKeeps
<1>6. CASE \E e \in Existentials, b \in BOOLEAN, cube \in ForcingPremises, A \in ArbiterPremises :
              AddForcingClause(e, b, cube, A)
  BY <1>1, <1>6
<1>7. CASE \E e \in Existentials, introduce_clauses \in BOOLEAN :
              \E annotation \in [reads[e] \cap Universals -> BOOLEAN] :
                 GetArbiter(e, annotation, introduce_clauses)
  BY <1>2, <1>7
<1>8. CASE \E e \in Existentials, b \in BOOLEAN : SetDefaultValue(e, b) \/ InsertIntoConstant(e, b)
  BY <1>3, <1>8
<1>9. CASE \E e \in DOMAIN default_trees : \E leaf \in DOMAIN default_trees[e] : InsertIntoLeaf(e, leaf)
  BY <1>4, <1>9
<1>10. CASE \E e \in DOMAIN default_trees, majority \in [BOOLEAN -> BOOLEAN] :
               \E leaf \in DOMAIN default_trees[e] \cup {[y \in {} |-> TRUE]}, x \in sample_space(e) :
                  InsertAndSplit(e, leaf, x, majority)
  BY <1>5, <1>10
<1> QED BY <1>6, <1>7, <1>8, <1>9, <1>10 DEF SkolemOperations

LEMMA SkolemKeeps ==
    ASSUME RulesInv, SchemeInv, SkolemNext
    PROVE  RulesInv'
<1>1. CASE Construct
  BY <1>1, ConstructKeeps
<1>2. CASE AddFoundDefinition
  <2>1. PICK e \in toDefine : \E f \in [[reads[e] -> BOOLEAN] -> BOOLEAN] : AddDefinition(e, f)
    BY <1>2 DEF AddFoundDefinition
  <2>2. e \in Existentials /\ e \in Nat \ {0}
    BY NumberOfFacts DEF toDefine, Variables
  <2>3. reads[e] \in SUBSET Variables
    BY <2>2 DEF RulesInv, SortsInv
  <2> QED BY <2>1, <2>2, <2>3, AddDefinitionKeeps
<1>3. CASE AddUnate
  <2>1. PICK e \in Existentials : AddDefinition(e, [c \in {[y \in {} |-> TRUE]} |-> e \in FoundLiterals])
    BY <1>3 DEF AddUnate
  <2>2. e \in Nat \ {0}
    BY NumberOfFacts DEF Variables
  <2> DEFINE b == e \in FoundLiterals
             f == [c \in {[y \in {} |-> TRUE]} |-> b]
             R == {}
  <2>3. f \in [[R -> BOOLEAN] -> BOOLEAN]
    <3>1. b \in BOOLEAN
      OBVIOUS
    <3> HIDE DEF b
    <3> QED BY <3>1, ConstantDefinition
  <2>4. R \in SUBSET Variables /\ AddDefinition(e, f)
    BY <2>1
  <2> HIDE DEF f, R
  <2> QED BY <2>2, <2>3, <2>4, AddDefinitionKeeps
<1>4. CASE StartSearch
  BY <1>4, InitDefaultsKeeps DEF StartSearch
<1>5. CASE SkolemOperations
  BY <1>5, SkolemOperationsKeep
<1> QED BY <1>1, <1>2, <1>3, <1>4, <1>5 DEF SkolemNext

--------------------------------------------------------------------------------
(***************************************************************************)
(* What the validity check accepts.                                        *)
(***************************************************************************)
\* The values agree with the point s and with what is assumed.
Given == Variables \cup proper_arbiters
Assumed(a, s) ==
    /\ \A k \in DOMAIN validity_check_assumptions : holds(validity_check_assumptions[k], a)
    /\ \A d \in Existentials : a[selectors[d]]
    /\ \A v \in Given : a[v] = s[v]

LEMMA GivenFacts ==
    ASSUME RulesInv
    PROVE  /\ Public \subseteq Nat \ {0} /\ last_variable \in Nat
           /\ \A n \in Public : n <= last_variable
           /\ Given \subseteq Public /\ Selectors \subseteq Public /\ Entries \subseteq Public
           /\ Given \cap Selectors = {} /\ Given \cap Entries = {} /\ Selectors \cap Entries = {}
           /\ \A d \in Existentials : selectors[d] \in Selectors
           /\ \A k \in DOMAIN validity_check_assumptions :
                 /\ validity_check_assumptions[k] \in Int \ {0}
                 /\ var(validity_check_assumptions[k]) \in Entries
<1>1. ArrayInv /\ NumbersInv
  BY DEF RulesInv
<1>2. /\ Public \subseteq 1..last_variable
      /\ Variables \cap (Arbiters \cup Selectors \cup Entries) = {}
  BY <1>1, PublicFacts
<1>3. last_variable \in Nat /\ proper_arbiters \subseteq Arbiters
  BY <1>1 DEF NumbersInv
<1>4. \A n \in 1..last_variable : n \in Nat \ {0} /\ n <= last_variable
  BY <1>3
<1>5. Given \subseteq Public /\ Selectors \subseteq Public /\ Entries \subseteq Public
  BY <1>3 DEF Given, Public
<1>6. Given \cap Selectors = {} /\ Given \cap Entries = {} /\ Selectors \cap Entries = {}
  BY <1>1, <1>2, <1>3 DEF Given, NumbersInv
<1>7. \A k \in DOMAIN validity_check_assumptions :
         /\ validity_check_assumptions[k] \in Int \ {0}
         /\ var(validity_check_assumptions[k]) \in Entries
  BY <1>1, ArrayPlaces DEF Entries
<1> QED BY <1>2, <1>3, <1>4, <1>5, <1>6, <1>7 DEF Selectors

\* There are such values, whatever the numbers that are not assumed have.
LEMMA AssumedExists ==
    ASSUME RulesInv, NEW s \in RulePoints, NEW D \in SUBSET Nat, D \cap Public = {},
           NEW G \in [D -> BOOLEAN]
    PROVE  \E a \in Valuations : Assumed(a, s) /\ \A n \in D : a[n] = G[n]
<1> DEFINE A == validity_check_assumptions
           P == {A[k] : k \in DOMAIN A}
           val(v) == IF v \in D THEN G[v] ELSE IF v \in Given THEN s[v]
                     ELSE IF v \in Selectors THEN TRUE ELSE v \in P
           a == [v \in Nat |-> val(v)]
<1>1. /\ Public \subseteq Nat \ {0}
      /\ Given \subseteq Public /\ Selectors \subseteq Public /\ Entries \subseteq Public
      /\ Given \cap Selectors = {} /\ Given \cap Entries = {} /\ Selectors \cap Entries = {}
      /\ \A d \in Existentials : selectors[d] \in Selectors
      /\ \A k \in DOMAIN A : A[k] \in Int \ {0} /\ var(A[k]) \in Entries
  BY GivenFacts
<1>2. s \in [Given -> BOOLEAN]
  BY DEF RulePoints, Given
<1>3. \A k, l \in DOMAIN A : var(A[k]) = var(A[l]) => k = l
  BY DEF RulesInv, ArrayInv
<1> HIDE DEF A, P
<1>4. a \in Valuations
  <2>1. ASSUME NEW v \in Nat PROVE val(v) \in BOOLEAN
    <3>1. CASE v \in D
      BY <3>1
    <3>2. CASE v \notin D /\ v \in Given
      BY <1>2, <3>2
    <3>3. CASE v \notin D /\ v \notin Given /\ v \in Selectors
      BY <3>3
    <3>4. CASE v \notin D /\ v \notin Given /\ v \notin Selectors
      <4> DEFINE q == v \in P
      <4>1. q \in BOOLEAN
        OBVIOUS
      <4> HIDE DEF P, q
      <4>2. val(v) = q
        BY <3>4, Zenon DEF q
      <4> QED BY <4>1, <4>2
    <3> QED BY <3>1, <3>2, <3>3, <3>4
  <2> HIDE DEF val
  <2> QED BY <2>1 DEF Valuations
<1>5. \A v \in Nat : a[v] = IF v \in D THEN G[v] ELSE IF v \in Given THEN s[v]
                            ELSE IF v \in Selectors THEN TRUE ELSE v \in P
  OBVIOUS
<1> HIDE DEF a
<1>6. \A n \in D : a[n] = G[n]
  BY <1>5
<1>7. \A v \in Given : a[v] = s[v]
  <2>1. \A v \in Given : v \in Nat /\ v \notin D
    BY <1>1
  <2> QED BY <1>5, <2>1
<1>8. \A d \in Existentials : a[selectors[d]]
  <2>1. \A v \in Selectors : v \in Nat /\ v \notin D /\ v \notin Given
    BY <1>1
  <2> QED BY <1>1, <1>5, <2>1
<1>9. ASSUME NEW k \in DOMAIN A PROVE holds(A[k], a)
  <2> DEFINE l == A[k]
             v == var(l)
  <2>1. v \in Nat \ {0} /\ v \notin D /\ v \notin Given /\ v \notin Selectors /\ l \in Int \ {0}
    BY <1>1
  <2>2. a[v] <=> v \in P
    BY <1>5, <2>1
  <2>3. l \in P /\ \A j \in DOMAIN A : var(A[j]) = v => A[j] = l
    BY <1>3 DEF P
  <2> HIDE DEF l
  <2>4. CASE l > 0
    <3>1. v = l
      BY <2>1, <2>4 DEF var
    <3>2. holds(v, a) <=> a[v]
      BY <1>4, <2>1, SignFacts DEF Valuations
    <3>3. holds(l, a)
      BY <2>2, <2>3, <3>1, <3>2
    <3> QED BY <3>3 DEF l
  <2>5. CASE l < 0
    <3>1. l = -v
      BY <2>1, <2>5 DEF var
    <3>2. holds(-v, a) <=> ~a[v]
      BY <1>4, <2>1, SignFacts DEF Valuations
    <3>3. v \notin P
      <4> SUFFICES ASSUME NEW j \in DOMAIN A, A[j] = v PROVE FALSE
        BY DEF P
      <4>1. var(A[j]) = v
        <5>1. var(v) = v
          BY <1>4, <2>1, SignFacts DEF Valuations
        <5> QED BY <5>1
      <4>2. v = l
        BY <2>3, <4>1
      <4>3. v > 0
        BY <2>1
      <4> HIDE DEF v
      <4> QED BY <2>1, <2>5, <4>2, <4>3
    <3>4. holds(l, a)
      BY <2>2, <3>1, <3>2, <3>3
    <3> QED BY <3>4 DEF l
  <2>6. l > 0 \/ l < 0
    BY <2>1
  <2> QED BY <2>4, <2>5, <2>6
<1> QED BY <1>4, <1>6, <1>7, <1>8, <1>9 DEF Assumed, A

\* What is assumed, as literals.
LEMMA AssumedLiterals ==
    ASSUME RulesInv, NEW s \in RulePoints
    PROVE  LET L == Range(validity_check_assumptions) \cup {selectors[d] : d \in Existentials}
                       \cup cubeLiterals(s)
           IN  /\ \A l \in L : IsLiteralUpTo(l, last_variable)
               /\ \A a \in Valuations : (\A l \in L : holds(l, a)) <=> Assumed(a, s)
<1> DEFINE A == validity_check_assumptions
           L1 == Range(A)
           L2 == {selectors[d] : d \in Existentials}
           L3 == cubeLiterals(s)
<1>1. /\ Public \subseteq Nat \ {0} /\ \A n \in Public : n <= last_variable
      /\ Given \subseteq Public /\ Selectors \subseteq Public /\ Entries \subseteq Public
      /\ \A d \in Existentials : selectors[d] \in Selectors
      /\ \A k \in DOMAIN A : A[k] \in Int \ {0} /\ var(A[k]) \in Entries
  BY GivenFacts
<1>2. s \in [Given -> BOOLEAN] /\ DOMAIN s = Given
  BY DEF RulePoints, Given
<1>3. \A n \in Nat \ {0} : n \in Nat
  OBVIOUS
<1>4. /\ \A l \in L1 : IsLiteralUpTo(l, last_variable)
      /\ \A a \in Valuations : (\A l \in L1 : holds(l, a)) <=> \A k \in DOMAIN A : holds(A[k], a)
  <2>1. L1 = {A[k] : k \in DOMAIN A}
    BY DEF Range
  <2> HIDE DEF A, L1
  <2> QED BY <1>1, <2>1 DEF IsLiteralUpTo
<1>5. \A d \in Existentials : selectors[d] \in Nat \ {0} /\ selectors[d] <= last_variable
  BY <1>1
<1>6. /\ \A l \in L2 : IsLiteralUpTo(l, last_variable)
      /\ \A a \in Valuations : (\A l \in L2 : holds(l, a)) <=> \A d \in Existentials : a[selectors[d]]
  <2>1. \A n \in Nat \ {0} : n \in Int \ {0} /\ var(n) = n
    BY DEF var
  <2>2. \A a \in Valuations : \A n \in Nat \ {0} : holds(n, a) <=> a[n]
    BY SignFacts DEF Valuations
  <2>3. \A l \in L2 : IsLiteralUpTo(l, last_variable)
    BY <1>5, <2>1 DEF IsLiteralUpTo
  <2>4. \A a \in Valuations : (\A l \in L2 : holds(l, a)) <=> \A d \in Existentials : a[selectors[d]]
    BY <1>5, <2>2
  <2> QED BY <2>3, <2>4
<1>7. ASSUME NEW v \in Given
      PROVE  /\ literal(v, s[v]) \in Int \ {0} /\ var(literal(v, s[v])) = v /\ v <= last_variable
             /\ \A a \in Valuations : holds(literal(v, s[v]), a) <=> a[v] = s[v]
  <2>1. v \in Nat \ {0} /\ s[v] \in BOOLEAN /\ v <= last_variable
    BY <1>1, <1>2
  <2>2. literal(v, s[v]) \in Int \ {0} /\ var(literal(v, s[v])) = v
    BY <2>1 DEF literal, var
  <2>3. ASSUME NEW a \in Valuations PROVE holds(literal(v, s[v]), a) <=> a[v] = s[v]
    BY <2>1, SignFacts DEF Valuations
  <2> QED BY <2>1, <2>2, <2>3
<1>8. /\ \A l \in L3 : IsLiteralUpTo(l, last_variable)
      /\ \A a \in Valuations : (\A l \in L3 : holds(l, a)) <=> \A v \in Given : a[v] = s[v]
  <2>1. L3 = {literal(v, s[v]) : v \in Given}
    BY <1>2 DEF cubeLiterals
  <2> HIDE DEF L3
  <2> QED BY <1>7, <2>1 DEF IsLiteralUpTo
<1> HIDE DEF A, L1, L2, L3
<1>9. \A l \in L1 \cup L2 \cup L3 : IsLiteralUpTo(l, last_variable)
  BY <1>4, <1>6, <1>8
<1>10. \A a \in Valuations : (\A l \in L1 \cup L2 \cup L3 : holds(l, a))
          <=> (\A l \in L1 : holds(l, a)) /\ (\A l \in L2 : holds(l, a)) /\ (\A l \in L3 : holds(l, a))
  OBVIOUS
<1>11. \A a \in Valuations : (\A l \in L1 \cup L2 \cup L3 : holds(l, a)) <=> Assumed(a, s)
  BY <1>4, <1>6, <1>8, <1>10 DEF Assumed, A
<1> QED BY <1>9, <1>11 DEF A, L1, L2, L3

\* The check finds values that satisfy the clauses under what is assumed.
LEMMA AcceptsMeaning ==
    ASSUME RulesInv, NEW e \in Existentials, NEW s \in RulePoints
    PROVE  validityAccepts(e, s)
              <=> \E a \in Valuations : Satisfies(validity_clauses[e], a) /\ Assumed(a, s)
<1> DEFINE L == Range(validity_check_assumptions) \cup {selectors[d] : d \in Existentials}
                   \cup cubeLiterals(s)
           cs == validity_clauses[e]
           n == last_variable
           all == under(cs, L)
<1>1. /\ \A l \in L : IsLiteralUpTo(l, n)
      /\ \A a \in Valuations : (\A l \in L : holds(l, a)) <=> Assumed(a, s)
  BY AssumedLiterals
<1>2. Within(cs, n) /\ n \in Nat
  BY DEF RulesInv, SortsInv, NumbersInv
<1>3. validityAccepts(e, s) <=> Sat(all)
  BY DEF validityAccepts
<1> HIDE DEF L, cs, n
<1>4. \A l \in UNION all : IsLiteralUpTo(l, n)
  BY <1>1, <1>2 DEF under, Within
<1>5. UNION all \subseteq Int \ {0} /\ \A l \in UNION all : var(l) \in Nat
  <2>1. \A l \in Int \ {0} : var(l) \in Nat
    BY DEF var
  <2> QED BY <1>4, <2>1 DEF IsLiteralUpTo
<1>6. IsFiniteSet(UNION all)
  <2>1. IsFiniteSet((-n)..n)
    BY <1>2, FS_Interval
  <2>2. \A l \in Int \ {0} : var(l) <= n => l \in (-n)..n
    BY <1>2 DEF var
  <2>3. UNION all \subseteq (-n)..n
    BY <1>4, <2>2 DEF IsLiteralUpTo
  <2> QED BY <2>1, <2>3, FS_Subset
<1>7. Sat(all) <=> CanSatisfy(all, Nat)
  <2> HIDE DEF all
  <2> QED BY <1>5, <1>6, SatDecides
<1>8. ASSUME NEW a \in Valuations
      PROVE  Satisfies(all, a) <=> Satisfies(cs, a) /\ \A l \in L : holds(l, a)
  <2>1. \A l : {l} \in all <=> {l} \in cs \/ l \in L
    BY DEF under
  <2>2. \A C : C \in all <=> C \in cs \/ \E l \in L : C = {l}
    BY DEF under
  <2>3. \A l : (\E k \in {l} : holds(k, a)) <=> holds(l, a)
    OBVIOUS
  <2> DEFINE Ok(C) == \E l \in C : holds(l, a)
  <2>4. \A l : Ok({l}) <=> holds(l, a)
    BY <2>3
  <2>5. /\ Satisfies(all, a) <=> \A C \in all : Ok(C)
        /\ Satisfies(cs, a) <=> \A C \in cs : Ok(C)
    BY DEF Satisfies
  <2> HIDE DEF all, Ok
  <2>6. (\A C \in all : Ok(C)) <=> (\A C \in cs : Ok(C)) /\ \A l \in L : Ok({l})
    BY <2>2
  <2> QED BY <2>4, <2>5, <2>6
<1> QED BY <1>1, <1>3, <1>7, <1>8 DEF CanSatisfy, Valuations, cs

\* A clause of a current default rule.
LEMMA CurrentMeaning ==
    ASSUME RulesInv, stage = "search", NEW e \in undefined, NEW s \in RulePoints,
           NEW a \in Valuations, Assumed(a, s), NEW x \in DOMAIN current(e), NEW b \in BOOLEAN
    PROVE  (\E l \in currentClause(e, x, b) : holds(l, a))
              <=> \/ ~Agrees(x, a)
                  \/ ~(default_selectors[IF b THEN spot(e, x) ELSE spot(e, x) + 1] > 0)
                  \/ a[e] = b
<1> DEFINE S == default_selectors
           i == IF b THEN spot(e, x) ELSE spot(e, x) + 1
           w == selectorOf(e, x, b)
           Ok(C) == \E l \in C : holds(l, a)
<1>1. ArrayInv /\ SuffixInv /\ PlacesInv
  BY DEF RulesInv, SearchInv
<1>2. e \in Nat \ {0}
  BY NumberOfFacts DEF undefined, Variables
<1>3. IsCube(x, Variables) /\ i \in 1..Len(S)
  BY <1>1 DEF PlacesInv, IsPlace, spot
<1>4. S[i] \in Int \ {0} /\ holds(S[i], a)
  <2>1. \A k \in 1..Len(S) : S[k] \in Int \ {0} /\ holds(S[k], a)
    <3> DEFINE j(k) == Len(validity_check_assumptions) - Len(S) + k
    <3>1. \A k \in 1..Len(S) : /\ S[k] \in Int \ {0} /\ validity_check_assumptions[j(k)] = S[k]
                               /\ j(k) \in 1..Len(validity_check_assumptions)
      BY <1>1, SuffixFacts
    <3>2. DOMAIN validity_check_assumptions = 1..Len(validity_check_assumptions)
      BY <1>1, ArrayPlaces
    <3> HIDE DEF j
    <3> QED BY <3>1, <3>2 DEF Assumed
  <2> HIDE DEF i
  <2> QED BY <1>3, <2>1
<1>5. w = var(S[i])
  BY DEF selectorOf
<1>6. w \in Nat \ {0} /\ (a[w] <=> S[i] > 0)
  <2> DEFINE l == S[i]
  <2>1. l \in Int \ {0} /\ holds(l, a) /\ w = var(l)
    BY <1>4, <1>5
  <2> HIDE DEF l, w
  <2>2. var(l) \in Nat \ {0}
    BY <2>1 DEF var
  <2>3. a[w] = (l > 0)
    BY <2>1 DEF holds
  <2>4. a[w] <=> l > 0
    BY <2>3
  <2> QED BY <2>1, <2>2, <2>4 DEF l
<1>7. Ok(pathClause(x)) <=> ~Agrees(x, a)
  BY <1>3, PathLiterals
<1>8. holds(-w, a) <=> ~a[w]
  BY <1>6, SignFacts DEF Valuations
<1>9. holds(literal(e, b), a) <=> a[e] = b
  BY <1>2, SignFacts DEF Valuations
<1>10. currentClause(e, x, b) = pathClause(x) \cup {-w, literal(e, b)}
  BY DEF currentClause
<1>11. Ok(currentClause(e, x, b)) <=> Ok(pathClause(x)) \/ holds(-w, a) \/ holds(literal(e, b), a)
  <2> HIDE DEF w
  <2> QED BY <1>10
<1> HIDE DEF i, w
<1>12. Ok(currentClause(e, x, b)) <=> ~Agrees(x, a) \/ ~(S[i] > 0) \/ a[e] = b
  BY <1>6, <1>7, <1>8, <1>9, <1>11
<1> QED BY <1>12 DEF i

\* The value of the default that agrees with a point.
LEMMA DefaultValue ==
    ASSUME RulesInv, stage = "search", NEW e \in undefined, NEW s \in RulePoints,
           NEW a \in Valuations, Assumed(a, s), NEW c \in DOMAIN current(e), Agrees(c, a),
           \A x \in DOMAIN current(e) : Agrees(x, a) => x = c
    PROVE  defaultValue(e, s) = (default_selectors[spot(e, c)] > 0)
<1> DEFINE value(x) == default_selectors[spot(e, x)] > 0
           leafOf(x) == [path |-> x, value |-> value(x)]
           L == DOMAIN current(e)
           Z == {leafOf(x) : x \in L}
<1>1. getCertificate(e) = Z
  <2>1. CASE treeActive(e)
    <3>1. current(e) = default_trees[e]
      BY <2>1 DEF current
    <3>2. getCertificate(e) = {[path |-> x, value |-> activeValue(default_trees[e][x])] : x \in DOMAIN default_trees[e]}
      BY <2>1 DEF getCertificate
    <3>3. \A x : activeValue(current(e)[x]) = value(x)
      BY DEF activeValue, selectorPosition, spot
    <3> QED BY <3>1, <3>2, <3>3
  <2>2. CASE ~treeActive(e)
    <3>1. current(e) = [x \in {Whole} |-> fixed_defaults[e]]
      BY <2>2 DEF current
    <3>2. L = {Whole} /\ current(e)[Whole] = fixed_defaults[e]
      BY <3>1
    <3>3. getCertificate(e) = {[path |-> Whole, value |-> activeValue(fixed_defaults[e])]}
      BY <2>2 DEF getCertificate, Whole
    <3>4. activeValue(current(e)[Whole]) = value(Whole)
      BY DEF activeValue, selectorPosition, spot
    <3>5. getCertificate(e) = {leafOf(Whole)}
      BY <3>2, <3>3, <3>4
    <3> HIDE DEF leafOf, L
    <3> QED BY <3>2, <3>5
  <2> QED BY <2>1, <2>2
<1>2. \A x \in L : IsCube(x, Variables)
  BY DEF RulesInv, SearchInv, PlacesInv
<1>3. \A x \in L : Agrees(x, s) <=> Agrees(x, a)
  <2>1. \A v \in Variables : a[v] = s[v]
    BY DEF Assumed, Given
  <2> QED BY <1>2, <2>1 DEF Agrees, IsCube
<1>4. \A x : leafOf(x).path = x /\ leafOf(x).value = value(x)
  <2> HIDE DEF value
  <2> QED OBVIOUS
<1> HIDE DEF leafOf, value
<1>5. \A z \in Z : Agrees(z.path, s) => z = leafOf(c)
  <2> SUFFICES ASSUME NEW x \in L, Agrees(leafOf(x).path, s) PROVE leafOf(x) = leafOf(c)
    OBVIOUS
  <2>1. Agrees(x, s)
    BY <1>4
  <2> QED BY <1>3, <2>1
<1>6. leafOf(c) \in Z /\ Agrees(leafOf(c).path, s)
  BY <1>3, <1>4
<1> HIDE DEF Z
<1>7. (CHOOSE z \in Z : Agrees(z.path, s)) = leafOf(c)
  BY <1>5, <1>6
<1>8. defaultValue(e, s) = leafOf(c).value
  BY <1>1, <1>7 DEF defaultValue
<1> QED BY <1>4, <1>8 DEF value

\* The clauses of the default rules say that the variable has its default value.
LEMMA DefaultMeaning ==
    ASSUME RulesInv, stage = "search", NEW e \in undefined, NEW D, Conforms(e, D),
           NEW s \in RulePoints, NEW a \in Valuations, Assumed(a, s)
    PROVE  Satisfies(D, a) <=> a[e] = defaultValue(e, s)
<1> DEFINE S == default_selectors
           L == DOMAIN current(e)
           Ok(C) == \E l \in C : holds(l, a)
<1>1. ArrayInv /\ SuffixInv /\ PlacesInv
  BY DEF RulesInv, SearchInv
<1>2. PICK c \in L : Agrees(c, a) /\ \A x \in L : Agrees(x, a) => x = c
  BY <1>1 DEF PlacesInv, IsPartition
<1> DEFINE k == spot(e, c)
<1>3. defaultValue(e, s) = (S[k] > 0)
  BY <1>2, DefaultValue
<1>4. (S[k] > 0) <=> ~(S[k + 1] > 0)
  BY <1>1 DEF PlacesInv, IsPlace, spot
<1>5. \A x \in L : x # c => \A b \in BOOLEAN : Ok(currentClause(e, x, b))
  BY <1>2, CurrentMeaning
<1>6. /\ Ok(currentClause(e, c, TRUE)) <=> ~(S[k] > 0) \/ a[e] = TRUE
      /\ Ok(currentClause(e, c, FALSE)) <=> ~(S[k + 1] > 0) \/ a[e] = FALSE
  <2>1. \A b \in BOOLEAN : Ok(currentClause(e, c, b))
           <=> ~Agrees(c, a) \/ ~(S[IF b THEN k ELSE k + 1] > 0) \/ a[e] = b
    BY CurrentMeaning
  <2>2. \A b \in BOOLEAN : b = TRUE => (Ok(currentClause(e, c, b)) <=> ~(S[k] > 0) \/ a[e] = TRUE)
    BY <1>2, <2>1
  <2>3. \A b \in BOOLEAN : b = FALSE => (Ok(currentClause(e, c, b)) <=> ~(S[k + 1] > 0) \/ a[e] = FALSE)
    BY <1>2, <2>1
  <2> HIDE DEF Ok, k, S
  <2> QED BY <2>2, <2>3, Zenon
<1>7. a[e] \in BOOLEAN
  <2>1. e \in Nat
    BY NumberOfFacts DEF undefined, Variables
  <2> QED BY <2>1 DEF Valuations
<1>8. (\A b \in BOOLEAN : Ok(currentClause(e, c, b)))
         <=> Ok(currentClause(e, c, TRUE)) /\ Ok(currentClause(e, c, FALSE))
  <2> HIDE DEF Ok
  <2>1. \A b \in BOOLEAN : b = TRUE \/ b = FALSE
    OBVIOUS
  <2> QED BY <2>1, Zenon
<1>9. ASSUME NEW j \in DOMAIN S PROVE holds(S[j], a)
  <2> DEFINE p == Len(validity_check_assumptions) - Len(S) + j
  <2>1. /\ validity_check_assumptions[p] = S[j] /\ p \in 1..Len(validity_check_assumptions)
        /\ DOMAIN S = 1..Len(S)
    BY <1>1, SuffixFacts
  <2>2. DOMAIN validity_check_assumptions = 1..Len(validity_check_assumptions)
    BY <1>1, ArrayPlaces
  <2> HIDE DEF p
  <2> QED BY <2>1, <2>2 DEF Assumed
<1>10. \A C \in D : \/ \E x \in L : \E b \in BOOLEAN : C = currentClause(e, x, b)
                    \/ Ok(C)
  BY <1>9 DEF Conforms
<1>11. \A x \in L : \A b \in BOOLEAN : currentClause(e, x, b) \in D
  BY DEF Conforms
<1> HIDE DEF L, Ok
<1>12. (\A C \in D : Ok(C)) <=> \A b \in BOOLEAN : Ok(currentClause(e, c, b))
  BY <1>2, <1>5, <1>10, <1>11
<1>13. Satisfies(D, a) <=> \A C \in D : Ok(C)
  BY DEF Satisfies, Ok
<1> DEFINE p == S[k] > 0
<1>14. Satisfies(D, a) <=> (~p \/ a[e] = TRUE) /\ (p \/ a[e] = FALSE)
  BY <1>4, <1>6, <1>8, <1>12, <1>13
<1>15. p \in BOOLEAN
  OBVIOUS
<1>16. defaultValue(e, s) = p
  BY <1>3
<1> HIDE DEF p
<1> QED BY <1>7, <1>14, <1>15, <1>16

\* The rules of a variable at a point.
LEMMA RulesAt ==
    ASSUME RulesInv, stage = "search", NEW e \in undefined, NEW s \in RulePoints,
           NEW a \in Valuations, Assumed(a, s)
    PROVE  /\ \A r \in RulesOf(e) : /\ r.literal \in {e, -e}
                                    /\ Fires(r, a) <=> \A l \in r.premise : holds(l, s)
                                    /\ holds(r.literal, a) <=> s[e] = (r.literal > 0)
           /\ forcedValues(e, s) = {r.literal > 0 : r \in {q \in RulesOf(e) : Fires(q, a)}}
           /\ a[e] = s[e] /\ s[e] \in BOOLEAN
<1>1. /\ \A r \in forcing_clauses : IsRule(r)
      /\ \A v \in Given : a[v] = s[v] /\ s[v] \in BOOLEAN
  BY DEF RulesInv, SearchInv, Assumed, RulePoints, Given
<1>2. e \in Nat \ {0} /\ e \in Given
  BY NumberOfFacts DEF undefined, Variables, Given
<1>3. ASSUME NEW r \in RulesOf(e)
      PROVE  /\ r.literal \in {e, -e}
             /\ Fires(r, a) <=> \A l \in r.premise : holds(l, s)
             /\ holds(r.literal, a) <=> s[e] = (r.literal > 0)
  <2>1. r \in forcing_clauses /\ var(r.literal) = e
    BY DEF RulesOf
  <2>2. PICK d \in undefined : r.literal \in {d, -d}
    BY <1>1, <2>1 DEF IsRule
  <2>3. d \in Nat \ {0}
    BY NumberOfFacts DEF undefined, Variables
  <2>4. var(r.literal) = d
    BY <2>2, <2>3 DEF var
  <2>5. \A l \in r.premise : var(l) \in Given
    BY <1>1, <2>1 DEF IsRule, Given
  <2>6. \A l \in r.premise : holds(l, a) <=> holds(l, s)
    BY <1>1, <2>5 DEF holds
  <2>7. holds(r.literal, a) <=> s[e] = (r.literal > 0)
    BY <1>1, <1>2, <2>1 DEF holds
  <2> QED BY <2>1, <2>2, <2>4, <2>6, <2>7 DEF Fires
<1>4. {r \in forcing_clauses : var(r.literal) = e /\ \A l \in r.premise : holds(l, s)}
         = {q \in RulesOf(e) : Fires(q, a)}
  <2>1. \A r : r \in RulesOf(e) <=> r \in forcing_clauses /\ var(r.literal) = e
    BY DEF RulesOf
  <2> HIDE DEF RulesOf
  <2> QED BY <1>3, <2>1
<1>5. forcedValues(e, s) = {r.literal > 0 : r \in {q \in RulesOf(e) : Fires(q, a)}}
  BY <1>4 DEF forcedValues
<1> QED BY <1>1, <1>2, <1>3, <1>5

\* The point has the values it must have, if a variable is undefined.
LEMMA ObeysMeaning ==
    ASSUME RulesInv, stage = "search", NEW e \in undefined, NEW s \in RulePoints,
           NEW a \in Valuations, Assumed(a, s)
    PROVE  obeys(e, s) <=> /\ \A r \in RulesOf(e) : Fires(r, a) => holds(r.literal, a)
                           /\ (\A r \in RulesOf(e) : ~Fires(r, a)) => a[e] = defaultValue(e, s)
<1> DEFINE F == {q \in RulesOf(e) : Fires(q, a)}
           V == forcedValues(e, s)
           value(r) == r.literal > 0
           x == s[e]
           y == defaultValue(e, s)
<1>1. /\ \A r \in RulesOf(e) : holds(r.literal, a) <=> x = value(r)
      /\ V = {value(r) : r \in F}
      /\ a[e] = x
  BY RulesAt
<1>2. e \notin DOMAIN definitions
  BY DEF undefined
<1>3. obeys(e, s) <=> (IF V # {} THEN V ELSE {y}) = {x}
  BY <1>2 DEF obeys, valuesOf
<1> HIDE DEF V, value, x, y
<1>4. V # {} <=> F # {}
  BY <1>1
<1>5. CASE F # {}
  <2>1. obeys(e, s) <=> V = {x}
    BY <1>3, <1>4, <1>5
  <2>2. V = {x} <=> \A r \in F : value(r) = x
    BY <1>1, <1>5
  <2> QED BY <1>1, <1>5, <2>1, <2>2
<1>6. CASE F = {}
  <2>1. obeys(e, s) <=> {y} = {x}
    BY <1>3, <1>4, <1>6
  <2>2. {y} = {x} <=> y = x
    OBVIOUS
  <2> QED BY <1>1, <1>6, <2>1, <2>2 DEF x, y
<1> QED BY <1>5, <1>6

\* The numbers of a variable that are assumed.
LEMMA AssumedValues ==
    ASSUME RulesInv, stage = "search", NEW e \in undefined, NEW s \in RulePoints,
           NEW a \in Valuations, Assumed(a, s)
    PROVE  a[selectors[e]] /\ ~a[terminalOf(e)] /\ a[use_default_value(e)]
<1> DEFINE A == validity_check_assumptions
           T == terminalOf(e)
           u == use_default_value(e)
<1>1. /\ A[forcing_disjunction(e)] < 0 /\ A[2 * rank(e)] = u
      /\ e \in Existentials /\ forcing_disjunction(e) \in DOMAIN A /\ 2 * rank(e) \in DOMAIN A
      /\ A[forcing_disjunction(e)] \in Int \ {0}
  BY ArrayPlaces DEF RulesInv, ArrayInv, undefined
<1>2. holds(A[forcing_disjunction(e)], a) /\ holds(u, a)
  BY <1>1 DEF Assumed
<1>3. u \in Nat \ {0}
  BY <1>1, NumberTypes DEF use_default_value
<1>4. a[u]
  BY <1>2, <1>3, SignFacts DEF Valuations
<1>5. ~a[T]
  <2> DEFINE l == A[forcing_disjunction(e)]
  <2>1. T = -l
    BY DEF terminalOf
  <2> HIDE DEF l, T
  <2>2. l < 0 /\ l \in Int /\ holds(l, a)
    BY <1>1, <1>2 DEF l
  <2>3. T \in Nat \ {0} /\ l = -T
    BY <2>1, <2>2
  <2>4. holds(-T, a) <=> ~a[T]
    BY <2>3, SignFacts DEF Valuations
  <2> QED BY <2>2, <2>3, <2>4
<1>6. a[selectors[e]]
  BY <1>1 DEF Assumed
<1> QED BY <1>4, <1>5, <1>6

LEMMA UndefinedAccepted ==
    ASSUME RulesInv, stage = "search", NEW e \in undefined, NEW s \in RulePoints
    PROVE  validityAccepts(e, s) <=> obeys(e, s)
<1> DEFINE S == selectors[e]
           T == terminalOf(e)
           cs == validity_clauses[e]
           R == RulesOf(e)
           nfc == no_forcing_clause_active(e)
           app == apply_default(e)
           udv == use_default_value(e)
<1>1. PICK D, H :
         /\ Encodes(e, S, cs, T, R, D, H)
         /\ H \subseteq 1..last_variable /\ H \cap Public = {}
         /\ Conforms(e, D)
  BY DEF RulesInv, SearchInv, Encoded
<1>2. e \in Existentials
  BY DEF undefined
<1>3. validityAccepts(e, s) <=> \E a \in Valuations : Satisfies(cs, a) /\ Assumed(a, s)
  BY <1>2, AcceptsMeaning
<1>4. ASSUME NEW a \in Valuations, Satisfies(cs, a), Assumed(a, s) PROVE obeys(e, s)
  <2>1. a[S] /\ ~a[T] /\ a[udv]
    BY <1>4, AssumedValues
  <2>2. Meaning(e, T, R, D, a)
    BY <1>1, <1>4, <2>1 DEF Encodes, Sound
  <2>3. (\A r \in R : ~Fires(r, a)) => Satisfies(D, a)
    BY <2>1, <2>2 DEF Meaning
  <2>4. Satisfies(D, a) => a[e] = defaultValue(e, s)
    BY <1>1, <1>4, DefaultMeaning
  <2>5. \A r \in R : Fires(r, a) => holds(r.literal, a)
    BY <2>2 DEF Meaning
  <2> QED BY <1>4, <2>3, <2>4, <2>5, ObeysMeaning
<1>5. ASSUME obeys(e, s) PROVE \E a \in Valuations : Satisfies(cs, a) /\ Assumed(a, s)
  <2>1. ArrayInv /\ NumbersInv
    BY DEF RulesInv
  <2>2. /\ nfc \in Nat \ {0} /\ app \in Nat \ {0} /\ nfc # app
        /\ nfc \notin Public /\ app \notin Public
    <3>1. nfc = numberOf(e, 4) /\ app = numberOf(e, 5) /\ 4 \in 1..22 /\ 5 \in 1..22
      BY DEF no_forcing_clause_active, apply_default
    <3> QED BY <1>2, <2>1, <3>1, PublicFacts, NumberOfFacts, NumberTypes
  <2> DEFINE X == {nfc, app}
  <2>3. X \in SUBSET Nat /\ X \cap Public = {}
    BY <2>2
  <2> HIDE DEF nfc, app, udv, T, S, cs, R
  <2>4. \A b \in BOOLEAN : \E a \in Valuations : Assumed(a, s) /\ a[nfc] = b /\ a[app] = b
    <3> SUFFICES ASSUME NEW b \in BOOLEAN
                 PROVE  \E a \in Valuations : Assumed(a, s) /\ a[nfc] = b /\ a[app] = b
      OBVIOUS
    <3> DEFINE G == [n \in X |-> b]
    <3>1. G \in [X -> BOOLEAN] /\ \A n \in X : G[n] = b
      OBVIOUS
    <3>2. nfc \in X /\ app \in X
      OBVIOUS
    <3> HIDE DEF G, X
    <3> QED BY <2>3, <3>1, <3>2, AssumedExists
  <2>5. PICK a0 \in Valuations : Assumed(a0, s)
    BY <2>4
  <2> DEFINE Holds(r) == \A l \in r.premise : holds(l, s)
             none == \A r \in R : ~Holds(r)
  <2>6. none \in BOOLEAN
    OBVIOUS
  <2>7. PICK a \in Valuations : Assumed(a, s) /\ a[nfc] = none /\ a[app] = none
    <3> HIDE DEF none
    <3> QED BY <2>4, <2>6
  <2>8. \A r \in R : Fires(r, a) <=> Holds(r)
    BY <2>7, RulesAt DEF R
  <2> HIDE DEF Holds
  <2>9. none <=> \A r \in R : ~Fires(r, a)
    BY <2>8
  <2> HIDE DEF none
  <2>10. /\ \A r \in R : Fires(r, a) => holds(r.literal, a)
         /\ (\A r \in R : ~Fires(r, a)) => a[e] = defaultValue(e, s)
    BY <1>5, <2>7, ObeysMeaning DEF R
  <2>11. a[S] /\ ~a[T] /\ a[udv]
    BY <2>7, AssumedValues DEF S, T, udv
  <2>12. none => Satisfies(D, a)
    BY <1>1, <2>7, <2>9, <2>10, DefaultMeaning
  <2>13. (a[nfc] <=> none) /\ (a[app] <=> none)
    BY <2>6, <2>7
  <2>14. Meaning(e, T, R, D, a)
    BY <2>9, <2>10, <2>11, <2>12, <2>13 DEF Meaning, nfc, app, udv
  <2>15. PICK b \in Valuations : Satisfies(cs, b) /\ \A n \in Nat \ H : b[n] = a[n]
    BY <1>1, <2>11, <2>14 DEF Encodes, Complete
  <2>16. /\ \A n \in Public : n \in Nat /\ n \notin H
         /\ Given \subseteq Public
         /\ \A d \in Existentials : selectors[d] \in Public
         /\ \A k \in DOMAIN validity_check_assumptions : var(validity_check_assumptions[k]) \in Public
    BY <1>1, GivenFacts
  <2>17. \A n \in Public : b[n] = a[n]
    BY <2>15, <2>16
  <2>18. Assumed(b, s)
    BY <2>7, <2>16, <2>17, SameValues DEF Assumed
  <2> QED BY <2>15, <2>18
<1> QED BY <1>3, <1>4, <1>5

\* A definition at a point: one cube over its inputs agrees.
LEMMA DefinitionAt ==
    ASSUME RulesInv, NEW e \in DOMAIN definitions, NEW R \in SUBSET Variables,
           definitions[e] \in [[R -> BOOLEAN] -> BOOLEAN], NEW s \in RulePoints,
           NEW a \in Valuations, Assumed(a, s)
    PROVE  obeys(e, s) <=> \A c \in [R -> BOOLEAN] : Agrees(c, a) => a[e] = definitions[e][c]
<1> DEFINE f == definitions[e]
           d == [v \in R |-> s[v]]
           chosen == CHOOSE c \in DOMAIN f : Agrees(c, s)
<1>1. /\ \A v \in Variables : a[v] = s[v] /\ s[v] \in BOOLEAN
      /\ e \in Variables
  BY DEF Assumed, Given, RulePoints, RulesInv, SortsInv, Variables
<1>2. DOMAIN f = [R -> BOOLEAN]
  OBVIOUS
<1>3. d \in [R -> BOOLEAN] /\ Agrees(d, s)
  BY <1>1 DEF Agrees
<1>4. \A c \in [R -> BOOLEAN] : Agrees(c, s) => c = d
  BY DEF Agrees
<1>5. \A c \in [R -> BOOLEAN] : Agrees(c, a) <=> Agrees(c, s)
  BY <1>1 DEF Agrees
<1> HIDE DEF d, f
<1>6. chosen = d
  BY <1>2, <1>3, <1>4
<1>7. obeys(e, s) <=> {f[chosen]} = {s[e]}
  BY DEF obeys, valuesOf, f
<1> HIDE DEF chosen
<1>8. obeys(e, s) <=> s[e] = f[d]
  BY <1>6, <1>7
<1>9. (\A c \in [R -> BOOLEAN] : Agrees(c, a) => a[e] = f[c]) <=> a[e] = f[d]
  BY <1>3, <1>4, <1>5
<1> QED BY <1>1, <1>8, <1>9 DEF f

\* The meaning of a definition's clauses, its conditions and conclusion named.
CanDefine(e, R, f, n, a) ==
    /\ e \in Existentials /\ e \in Nat \ {0} /\ R \in SUBSET Variables
    /\ f \in [[R -> BOOLEAN] -> BOOLEAN] /\ n \in Nat /\ a \in Valuations /\ a[n + 10]
DefinitionHolds(e, R, f, n, a) ==
    Satisfies(ActiveDefinition(e, f, n), a)
        <=> /\ a[n + 11] /\ a[n + 12] /\ ~a[no_forcing_clause_active(e)] /\ ~a[n + 13]
            /\ \A c \in [R -> BOOLEAN] : Agrees(c, a) => a[e] = f[c]

LEMMA DefinedMeaningNamed ==
    ASSUME NEW e, NEW R, NEW f, NEW n, NEW a, CanDefine(e, R, f, n, a)
    PROVE  DefinitionHolds(e, R, f, n, a)
<1>1. /\ e \in Existentials /\ e \in Nat \ {0} /\ R \in SUBSET Variables
      /\ f \in [[R -> BOOLEAN] -> BOOLEAN] /\ n \in Nat /\ a \in Valuations /\ a[n + 10]
  BY Zenon DEF CanDefine
<1>2. Satisfies(ActiveDefinition(e, f, n), a)
         <=> /\ a[n + 11] /\ a[n + 12] /\ ~a[no_forcing_clause_active(e)] /\ ~a[n + 13]
             /\ \A c \in [R -> BOOLEAN] : Agrees(c, a) => a[e] = f[c]
  BY <1>1, DefinedMeaning
<1> QED BY <1>2 DEF DefinitionHolds

LEMMA DefinedAccepted ==
    ASSUME RulesInv, stage = "search", NEW e \in DOMAIN definitions, NEW s \in RulePoints
    PROVE  validityAccepts(e, s) <=> obeys(e, s)
<1> DEFINE f == definitions[e]
           cs == validity_clauses[e]
           nfc == no_forcing_clause_active(e)
           i == initialSelector(e)
<1>1. ArrayInv /\ NumbersInv /\ SortsInv /\ IsDefined(e)
  BY DEF RulesInv
<1>2. e \in Existentials /\ e \in Nat \ {0}
  BY <1>1, NumberOfFacts DEF SortsInv, Variables
<1>3. PICK R \in SUBSET Variables : f \in [[R -> BOOLEAN] -> BOOLEAN]
  BY <1>1 DEF SortsInv
<1>4. PICK n \in Nat :
         /\ Introduced <= n /\ selectors[e] = n + 10 /\ {n + 11, n + 12, n + 13} \cap Public = {}
         /\ cs = definedClauses(e, f, n)
  BY <1>1 DEF IsDefined
<1>5. \A a \in Valuations : Satisfies(cs, a)
         <=> Satisfies(initialValidityClauses(e), a) /\ Satisfies(ActiveDefinition(e, f, n), a)
  BY <1>4 DEF Satisfies, definedClauses
<1> DEFINE Follows(a) == \A c \in [R -> BOOLEAN] : Agrees(c, a) => a[e] = f[c]
<1>6. ASSUME NEW a \in Valuations, a[n + 10]
      PROVE  Satisfies(ActiveDefinition(e, f, n), a)
                <=> a[n + 11] /\ a[n + 12] /\ ~a[nfc] /\ ~a[n + 13] /\ Follows(a)
  <2>1. n \in Nat
    BY <1>4
  <2> HIDE DEF f, cs, nfc, i, Follows
  <2>2. CanDefine(e, R, f, n, a)
    BY <1>2, <1>3, <1>6, <2>1 DEF CanDefine
  <2>3. DefinitionHolds(e, R, f, n, a)
    BY <2>2, DefinedMeaningNamed
  <2> USE DEF nfc, Follows
  <2> QED BY <2>3 DEF DefinitionHolds
<1>7. ASSUME NEW a \in Valuations, Assumed(a, s)
      PROVE  a[n + 10] /\ (obeys(e, s) <=> Follows(a))
  <2>1. a[n + 10]
    BY <1>2, <1>4, <1>7 DEF Assumed
  <2>2. obeys(e, s) <=> Follows(a)
    BY <1>3, <1>7, DefinitionAt
  <2> QED BY <2>1, <2>2
<1> HIDE DEF Follows, f
<1>8. validityAccepts(e, s) <=> \E a \in Valuations : Satisfies(cs, a) /\ Assumed(a, s)
  BY <1>2, AcceptsMeaning
<1>9. ASSUME obeys(e, s) PROVE \E a \in Valuations : Satisfies(cs, a) /\ Assumed(a, s)
  <2> DEFINE X == {n + 11, n + 12, n + 13, nfc, i}
             G == [v \in X |-> v \in {n + 11, n + 12}]
  <2>1. /\ nfc = numberOf(e, 4) /\ i = numberOf(e, 3)
        /\ nfc \in Nat \ {0} /\ i \in Nat \ {0} /\ nfc <= Introduced /\ i <= Introduced
        /\ Introduced \in Nat
    <3>1. 4 \in 1..22 /\ 3 \in 1..22
      OBVIOUS
    <3>2. numberOf(e, 4) \in (LastVariable + 1)..Introduced /\ numberOf(e, 3) \in (LastVariable + 1)..Introduced
          /\ LastVariable \in Nat /\ Introduced \in Nat
      BY <1>2, <3>1, NumberOfFacts
    <3>3. numberOf(e, 4) \in Nat \ {0} /\ numberOf(e, 3) \in Nat \ {0}
      BY <1>2, <3>1, NumberTypes
    <3>4. numberOf(e, 4) <= Introduced /\ numberOf(e, 3) <= Introduced
      BY <3>2
    <3> QED BY <3>2, <3>3, <3>4 DEF no_forcing_clause_active, initialSelector
  <2> HIDE DEF nfc, i
  <2>2. nfc \notin Public /\ i \notin Public
    <3>1. selectors[e] # i
      BY <1>4, <2>1
    <3> QED BY <1>1, <1>2, <3>1, PublicFacts DEF nfc, i
  <2>3. X \in SUBSET Nat /\ X \cap Public = {} /\ G \in [X -> BOOLEAN]
    BY <1>4, <2>1, <2>2
  <2>4. nfc # n + 11 /\ nfc # n + 12 /\ i # n + 11 /\ i # n + 12 /\ n + 13 # n + 11 /\ n + 13 # n + 12
    BY <1>4, <2>1
  <2>5. G[n + 11] /\ G[n + 12] /\ ~G[n + 13] /\ ~G[nfc] /\ ~G[i]
    BY <2>4
  <2>6. n + 11 \in X /\ n + 12 \in X /\ n + 13 \in X /\ nfc \in X /\ i \in X
    OBVIOUS
  <2> HIDE DEF X, G
  <2>7. PICK a \in Valuations : Assumed(a, s) /\ \A v \in X : a[v] = G[v]
    BY <2>3, AssumedExists
  <2>8. a[n + 11] /\ a[n + 12] /\ ~a[nfc] /\ ~a[n + 13] /\ ~a[i]
    BY <2>5, <2>6, <2>7
  <2>9. Satisfies(ActiveDefinition(e, f, n), a)
    BY <1>6, <1>7, <1>9, <2>7, <2>8
  <2>10. Satisfies(initialValidityClauses(e), a)
    <3>1. holds(-i, a)
      BY <2>1, <2>8, SignFacts DEF Valuations
    <3>2. \A C \in initialValidityClauses(e) : -i \in C
      BY DEF initialValidityClauses, i
    <3> QED BY <3>1, <3>2 DEF Satisfies
  <2> QED BY <1>5, <2>7, <2>9, <2>10
<1>10. ASSUME NEW a \in Valuations, Satisfies(cs, a), Assumed(a, s) PROVE obeys(e, s)
  BY <1>5, <1>6, <1>7, <1>10
<1> QED BY <1>8, <1>9, <1>10

LEMMA RulesFollow == RulesInv => ValidityEncodesRules
<1> SUFFICES ASSUME RulesInv, stage = "search", NEW s \in RulePoints, NEW e \in Existentials
             PROVE  validityAccepts(e, s) <=> obeys(e, s)
  BY DEF ValidityEncodesRules
<1>1. CASE e \in DOMAIN definitions
  BY <1>1, DefinedAccepted
<1>2. CASE e \notin DOMAIN definitions
  BY <1>2, UndefinedAccepted DEF undefined
<1> QED BY <1>1, <1>2

--------------------------------------------------------------------------------
(***************************************************************************)
(* The rules of the specification.                                         *)
(***************************************************************************)

LEMMA SetupStart == SetupInit => SchemeInv /\ RulesInv
  BY SchemeStart, RulesStart DEF SetupInit, UnatesInit

LEMMA SetupKeeps ==
    ASSUME SchemeInv, RulesInv, [SetupNext]_setupVars
    PROVE  (SchemeInv /\ RulesInv)'
<1>1. CASE UnatesNext /\ UNCHANGED <<definabilityVars, defaultVars, skolemVars>>
  <2>1. [PreprocessingNext]_preprocessingVars
    BY <1>1 DEF UnatesNext
  <2>2. UNCHANGED defaultVars /\ UNCHANGED skolemVars
    BY <1>1
  <2>3. SchemeInv'
    BY <2>1, SchemeStepInv
  <2>4. RulesInv'
    BY <2>2, RulesFrame
  <2> QED BY <2>3, <2>4
<1>2. CASE DefinabilityNext /\ UNCHANGED <<preprocessingVars, unateVars, defaultVars, skolemVars>>
  <2>1. [PreprocessingNext]_preprocessingVars /\ UNCHANGED defaultVars /\ UNCHANGED skolemVars
    BY <1>2
  <2>2. SchemeInv'
    BY <2>1, SchemeStepInv
  <2>3. RulesInv'
    BY <2>1, RulesFrame
  <2> QED BY <2>2, <2>3
<1>3. CASE SkolemNext /\ UNCHANGED <<preprocessingVars, definabilityVars, unateVars>>
  <2>1. [PreprocessingNext]_preprocessingVars
    BY <1>3
  <2>2. SchemeInv'
    BY <2>1, SchemeStepInv
  <2>3. RulesInv'
    BY <1>3, SkolemKeeps
  <2> QED BY <2>2, <2>3
<1>4. CASE UNCHANGED setupVars
  <2>1. [PreprocessingNext]_preprocessingVars /\ UNCHANGED defaultVars /\ UNCHANGED skolemVars
    BY <1>4 DEF setupVars
  <2>2. SchemeInv'
    BY <2>1, SchemeStepInv
  <2>3. RulesInv'
    BY <2>1, RulesFrame
  <2> QED BY <2>2, <2>3
<1> QED BY <1>1, <1>2, <1>3, <1>4 DEF SetupNext

LEMMA SetupInvariant == SolverSetupSpec => [](SchemeInv /\ RulesInv)
<1>1. SchemeInv /\ RulesInv /\ [SetupNext]_setupVars => (SchemeInv /\ RulesInv)'
  BY SetupKeeps
<1> QED BY SetupStart, <1>1, PTL DEF SolverSetupSpec

\* Whatever rules, definitions, default values and splits of default trees the
\* solver has added, in whatever order, the clauses of an existential with the
\* assumptions of the validity check admit an assignment of the variables exactly
\* where the rules give the existential the value it has there.
THEOREM ValidityFollowsRules == SolverSetupSpec => []ValidityEncodesRules
<1> QED BY SetupInvariant, RulesFollow, PTL
================================================================================
