--------------------------- MODULE DependencyVectors ---------------------------
(***************************************************************************)
(* The vectors behind the container.  extended_dependencies_map holds      *)
(* sorted vectors, which are merged with scheduled updates and searched by *)
(* bisection, and every scheduled update is appended to another vector.    *)
(* They go through the steps of CheckDefined beside the sets.              *)
(***************************************************************************)
EXTENDS CheckDefined, SortedVectors

\* Variables are numbers.
ASSUME VectorAssumption == Universals \subseteq Nat

VARIABLES
    vectors,   \* extended_dependencies_map
    pending    \* variables_to_update, empty where the map has no entry

vectorVars == <<setupVars, vectors, pending>>

\* The elements of a std::set in its order, and what std::sort makes of them.
ordered == [S \in SUBSET Variables |-> increasing(S)]

--------------------------------------------------------------------------------
(***************************************************************************)
(* The algorithms.                                                         *)
(***************************************************************************)
tail(s, i) == SubSeq(s, i, Len(s))

\* includedInDependencies with an entry in variables_to_update: one walk along
\* both vectors, at dep1_it, dep2_it and supp_it.
includedInBoth(s, t, support) ==
    LET walk[p \in (1..Len(s) + 1) \X (1..Len(t) + 1) \X (1..Len(support) + 1)] ==
            LET i == p[1]
                j == p[2]
                k == p[3]
                next == IF support[k] \in {s[i], t[j]} THEN k + 1 ELSE k
                behind(x) == next <= Len(support) /\ x < support[next]
            IN  IF k > Len(support) THEN TRUE
                ELSE IF i > Len(s) THEN Includes(tail(t, j), tail(support, k))
                ELSE IF j > Len(t) THEN Includes(tail(s, i), tail(support, k))
                ELSE /\ ~(support[k] < s[i] /\ support[k] < t[j])
                     /\ walk[<<IF behind(s[i]) THEN i + 1 ELSE i,
                               IF behind(t[j]) THEN j + 1 ELSE j, next>>]
    IN  walk[<<1, 1, 1>>]

includedInVectors(v, S) ==
    IF pending[v] = <<>> THEN Includes(vectors[v], ordered[S])
                         ELSE includedInBoth(vectors[v], pending[v], ordered[S])

\* Merging two sorted vectors: the loop, then what is left of the first one and, as
\* the last insert does, of the second one.
merging(s, t, inserted) ==
    LET from[p \in (1..Len(s) + 1) \X (1..Len(t) + 1)] ==
            LET i == p[1]
                j == p[2]
            IN  IF i > Len(s) \/ j > Len(t)
                THEN tail(s, i) \o (IF inserted THEN tail(t, j) ELSE <<>>)
                ELSE IF s[i] = t[j] THEN <<s[i]>> \o from[<<i + 1, j + 1>>]
                ELSE IF s[i] < t[j] THEN <<s[i]>> \o from[<<i + 1, j>>]
                ELSE <<t[j]>> \o from[<<i, j + 1>>]
    IN  from[<<1, 1>>]

\* Mutant: the last insert is missing.
MergeFirstOnly(s, t) == merging(s, t, FALSE)
updateVectorMap(s, t) == merging(s, t, TRUE)

--------------------------------------------------------------------------------
(***************************************************************************)
(* The steps.                                                              *)
(***************************************************************************)
\* The constructor sorts all dependencies.
VectorsInit ==
    /\ vectors = [v \in DOMAIN ext |-> ordered[ext[v]]]
    /\ pending = [v \in Existentials |-> <<>>]

\* The steps of the container, which go with those on sets.
scheduleVectorUpdate(v, S) ==
    /\ vectors' = [w \in DOMAIN vectors \ {v} |-> vectors[w]]
    /\ pending' = [w \in Existentials |->
                      CASE w = v -> <<>>
                        [] w \in undefined' /\ includedInVectors(w, S) -> Append(pending[w], v)
                        [] OTHER -> pending[w]]

performVectorUpdate ==
    /\ vectors' = [w \in DOMAIN vectors |-> updateVectorMap(vectors[w], pending[w])]
    /\ pending' = [w \in Existentials |-> <<>>]

VectorStep ==
    \/ /\ \/ BeginRound
          \/ SkipRounds
          \/ SkipUnates
          \/ \E v \in queue : NotDefined(v)
          \/ \E X \in SUBSET undefined : CheckUnates(X)
       /\ UNCHANGED <<vectors, pending>>
    \/ \E v \in queue : \E S \in SUBSET ED(v) :
          /\ Defined(v, S)
          /\ IF config["dynamic_dependencies"] THEN scheduleVectorUpdate(v, S)
                                               ELSE UNCHANGED <<vectors, pending>>
    \/ EndIteration /\ performVectorUpdate

VectorNext == VectorStep \/ (Ready /\ UNCHANGED <<vectors, pending>>)

VectorSpec == SetupInit /\ VectorsInit /\ [][VectorNext]_vectorVars

--------------------------------------------------------------------------------
(***************************************************************************)
(* Properties.                                                             *)
(***************************************************************************)
Holds(s, S) == Increasing(s) /\ ToSet(s) = S

\* The vectors stay sorted, also those of scheduled updates, whose entries come in the
\* order of the queue, and hold what the sets hold; the walk along two vectors decides
\* what their union says.
VectorsMatch ==
    /\ DOMAIN vectors = DOMAIN ext
    /\ \A v \in DOMAIN ext : Holds(vectors[v], ext[v]) /\ Holds(pending[v], toUpdate[v])
    /\ \A v \in undefined : pending[v] # <<>> =>
          \A S \in SUBSET Variables : includedInVectors(v, S) <=> includedInDependencies(v, S)

\* dependencycontainer.cc: the range to which literals are restricted is "sorted".
RangesSorted == \A v \in DOMAIN vectors : Increasing(vectors[v])
================================================================================
