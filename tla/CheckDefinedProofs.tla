--------------------------- MODULE CheckDefinedProofs ---------------------------
(***************************************************************************)
(* Proofs about the search for definitions, for every prefix and every     *)
(* configuration: the dependencies stay an order that respects the prefix  *)
(* although every definition found changes them.  Then the same after the  *)
(* library's entry, with given definitions, and for the sorted vectors.    *)
(***************************************************************************)
EXTENDS LibraryEntry, SortedVectorProofs

--------------------------------------------------------------------------------
(***************************************************************************)
(* The invariant.  Its heart is a certificate: an assignment X of          *)
(* dependencies to all variables that is an order, stays inside the        *)
(* prefix, agrees with the stored dependencies and bounds the supports.    *)
(* What the recursion over supports reads is then bounded by X, so nothing *)
(* has to be said about the recursion in the steps.                        *)
(***************************************************************************)

\* The stored dependencies with everything scheduled merged into them.
Merged == [e \in DOMAIN ext |-> ext[e] \cup toUpdate[e]]

IsOrder(X) ==
    \A e \in Existentials : /\ e \notin X[e]
                            /\ \A d \in X[e] \cap Existentials : X[d] \subseteq X[e]

Certifies(X, D) ==
    /\ X \in [Existentials -> SUBSET Variables]
    /\ IsOrder(X)
    /\ \A e \in Existentials : X[e] \cap Universals \subseteq prefix[e]
    /\ \A e \in DOMAIN ext : X[e] = D[e]
    /\ \A c \in Computed : supports[c] \subseteq X[c]

Certified(D) == \E X : Certifies(X, D)

\* The maps of the container divide the variables, and the variables in the
\* queues are undefined.
Shape ==
    /\ DOMAIN ext = Existentials \ Computed
    /\ undefined \cap Computed = {}
    /\ phase # "ready" /\ config["dynamic_dependencies"] => undefined = DOMAIN ext
    /\ phase = "checking" => queue \subseteq undefined /\ newQueue \subseteq undefined
    /\ ~config["dynamic_dependencies"] => newQueue = {}
    /\ phase # "checking" => newQueue = {}
    /\ ScheduledAreRequeued

TypeInv == SetupTypeOK /\ Shape

IInv == TypeInv /\ Certified(ext) /\ Certified(Merged)

--------------------------------------------------------------------------------
(***************************************************************************)
(* The recursion over supports.                                            *)
(***************************************************************************)

\* What is read through the supports is bounded by every order that bounds the
\* supports: computeDynamicDependencies stays within it.
LEMMA ReadByBounded ==
    ASSUME NEW X, IsOrder(X), Computed \subseteq Existentials,
           \A c \in Computed : supports[c] \subseteq X[c],
           NEW v \in Computed
    PROVE  ReadBy(v) \subseteq X[v]
<1> DEFINE C == {c \in Computed : c = v \/ c \in X[v]}
<1>1. \A c \in C : X[c] \subseteq X[v]
  BY DEF IsOrder
<1>2. SupportClosed(C)
  BY <1>1 DEF SupportClosed
<1>3. Reach(v) \subseteq C
  <2>1. C \in SUBSET Computed /\ v \in C
    OBVIOUS
  <2> QED BY <1>2, <2>1 DEF Reach
<1>4. \A c \in Reach(v) : supports[c] \subseteq X[v]
  BY <1>1, <1>3
<1> QED BY <1>4 DEF ReadBy

\* The recursion started in v includes the one started in any defined variable
\* it meets.
LEMMA ReachIncludes ==
    ASSUME NEW v \in Computed, NEW d \in ReadBy(v) \cap Computed
    PROVE  ReadBy(d) \subseteq ReadBy(v)
<1>1. d \in Reach(v)
  <2>1. PICK c \in Reach(v) : d \in supports[c]
    BY DEF ReadBy
  <2>2. SUFFICES ASSUME NEW C \in SUBSET Computed, v \in C, SupportClosed(C)
                 PROVE  d \in C
    BY DEF Reach
  <2>3. c \in C
    BY <2>1, <2>2 DEF Reach
  <2> QED BY <2>1, <2>2, <2>3 DEF SupportClosed
<1>2. Reach(d) \subseteq Reach(v)
  BY <1>1 DEF Reach, SupportClosed
<1> QED BY <1>2 DEF ReadBy

\* The supports of v are read by the recursion started in v.
LEMMA ReadBySupport ==
    ASSUME NEW v \in Computed
    PROVE  supports[v] \subseteq ReadBy(v)
<1>1. v \in Reach(v)
  BY DEF Reach
<1> QED BY <1>1 DEF ReadBy

\* What v reads when D has the dependencies of the variables not computed: the
\* stored dependencies and the effective ones are the instances for ext and
\* Merged.
ReadThrough(v, D) ==
    IF v \in Computed
    THEN ReadBy(v) \cup UNION {D[d] : d \in (ReadBy(v) \cap Existentials) \ Computed}
    ELSE D[v]

LEMMA ReadThroughExt ==
    ASSUME SetupTypeOK, Shape, NEW v \in Existentials
    PROVE  ReadThrough(v, ext) = ED(v)
<1>1. Computed \subseteq Existentials
  BY DEF SetupTypeOK, ContainerTypeOK, Computed
<1>2. CASE v \in Computed
  <2>1. (ReadBy(v) \cap Existentials) \ Computed = (ReadBy(v) \cap DOMAIN ext) \ Computed
    BY <1>1 DEF Shape
  <2> QED BY <1>2, <2>1 DEF ReadThrough, ED, computeDynamicDependencies
<1>3. CASE v \notin Computed
  BY <1>3 DEF ReadThrough, ED
<1> QED BY <1>2, <1>3

LEMMA ReadThroughMerged ==
    ASSUME SetupTypeOK, Shape, NEW v \in Existentials
    PROVE  ReadThrough(v, Merged) = EffectiveED(v)
<1>1. \A d \in Existentials \ Computed : Merged[d] = Stored(d)
  BY DEF Merged, Stored, Shape
<1>2. CASE v \in Computed
  BY <1>1, <1>2 DEF ReadThrough, EffectiveED
<1>3. CASE v \notin Computed
  BY <1>1, <1>3 DEF ReadThrough, EffectiveED
<1> QED BY <1>2, <1>3

\* A certificate bounds what is read.
LEMMA CertificateBounds ==
    ASSUME SetupTypeOK, Shape, NEW D, NEW X, Certifies(X, D), NEW v \in Existentials
    PROVE  ReadThrough(v, D) \subseteq X[v]
<1>1. Computed \subseteq Existentials
  BY DEF SetupTypeOK, ContainerTypeOK, Computed
<1>2. CASE v \in Computed
  <2>1. ReadBy(v) \subseteq X[v]
    BY <1>1, <1>2, ReadByBounded DEF Certifies
  <2>2. \A d \in (ReadBy(v) \cap Existentials) \ Computed : D[d] \subseteq X[v]
    BY <2>1 DEF Certifies, IsOrder, Shape
  <2> QED BY <1>2, <2>1, <2>2 DEF ReadThrough
<1>3. CASE v \notin Computed
  BY <1>3 DEF ReadThrough, Certifies, Shape
<1> QED BY <1>2, <1>3

\* What is read is itself an order.
LEMMA CertifiedOrder ==
    ASSUME SetupTypeOK, Shape, NEW D, Certified(D), NEW e \in Existentials
    PROVE  /\ e \notin ReadThrough(e, D)
           /\ ReadThrough(e, D) \cap Universals \subseteq prefix[e]
           /\ \A d \in ReadThrough(e, D) \cap Existentials :
                 ReadThrough(d, D) \subseteq ReadThrough(e, D)
<1>1. PICK X : Certifies(X, D)
  BY DEF Certified
<1>2. \A v \in Existentials : ReadThrough(v, D) \subseteq X[v]
  BY <1>1, CertificateBounds
<1>3. e \notin ReadThrough(e, D) /\ ReadThrough(e, D) \cap Universals \subseteq prefix[e]
  BY <1>1, <1>2 DEF Certifies, IsOrder
<1>4. ASSUME NEW d \in ReadThrough(e, D) \cap Existentials
      PROVE  ReadThrough(d, D) \subseteq ReadThrough(e, D)
  <2>1. ASSUME NEW f \in Existentials \ Computed, d \in D[f]
        PROVE  ReadThrough(d, D) \subseteq D[f]
    <3>1. D[f] = X[f]
      BY <1>1, <2>1 DEF Certifies, Shape
    <3>2. X[d] \subseteq X[f]
      BY <1>1, <2>1, <3>1 DEF Certifies, IsOrder
    <3> QED BY <1>2, <3>1, <3>2
  <2>2. CASE e \notin Computed
    BY <2>1, <2>2 DEF ReadThrough
  <2>3. CASE e \in Computed /\ d \in ReadBy(e)
    <3>1. CASE d \in Computed
      <4>1. ReadBy(d) \subseteq ReadBy(e)
        BY <2>3, <3>1, ReachIncludes
      <4> QED BY <2>3, <3>1, <4>1 DEF ReadThrough
    <3>2. CASE d \notin Computed
      BY <2>3, <3>2 DEF ReadThrough
    <3> QED BY <3>1, <3>2
  <2>4. CASE e \in Computed /\ d \notin ReadBy(e)
    <3>1. PICK f \in (ReadBy(e) \cap Existentials) \ Computed : d \in D[f]
      BY <2>4 DEF ReadThrough
    <3>2. ReadThrough(d, D) \subseteq D[f]
      BY <2>1, <3>1
    <3> QED BY <2>4, <3>1, <3>2 DEF ReadThrough
  <2> QED BY <2>2, <2>3, <2>4
<1> QED BY <1>3, <1>4

--------------------------------------------------------------------------------
(***************************************************************************)
(* The initial states.                                                     *)
(***************************************************************************)

\* The extended dependencies DependencyExtractor computes are an order.
LEMMA ComputedExtendedOrder ==
    ASSUME NEW pre \in [Existentials -> SUBSET Universals]
    PROVE  /\ computeExtendedDependencies(pre) \in [Existentials -> SUBSET Variables]
           /\ IsOrder(computeExtendedDependencies(pre))
           /\ \A e \in Existentials :
                 computeExtendedDependencies(pre)[e] \cap Universals \subseteq pre[e]
<1> DEFINE X == computeExtendedDependencies(pre)
<1>1. \A e \in Existentials : X[e] = pre[e] \cup {d \in Existentials : MayRead(pre, d, e)}
  BY DEF computeExtendedDependencies
<1>2. X \in [Existentials -> SUBSET Variables]
  BY <1>1 DEF computeExtendedDependencies, Variables
<1>3. \A e \in Existentials : X[e] \cap Universals \subseteq pre[e]
  BY <1>1, PrefixAssumption
<1>4. ASSUME NEW e \in Existentials
      PROVE  e \notin X[e]
  <2>1. ~MayRead(pre, e, e)
    BY PrefixAssumption DEF MayRead
  <2>2. e \notin Universals
    BY PrefixAssumption
  <2> QED BY <1>1, <2>1, <2>2
<1>5. ASSUME NEW e \in Existentials, NEW d \in X[e] \cap Existentials
      PROVE  X[d] \subseteq X[e]
  <2>1. MayRead(pre, d, e)
    BY <1>1, PrefixAssumption
  <2>2. pre[d] \subseteq pre[e]
    BY <2>1 DEF MayRead
  <2>3. ASSUME NEW c \in Existentials, MayRead(pre, c, d)
        PROVE  MayRead(pre, c, e)
    <3>1. CASE pre[c] = pre[d] /\ pre[d] = pre[e]
      <4>1. c < d /\ d < e
        BY <2>1, <2>3, <3>1 DEF MayRead
      <4>2. c \in Nat /\ d \in Nat /\ e \in Nat
        BY PrefixAssumption
      <4>3. c < e
        BY <4>1, <4>2
      <4> QED BY <3>1, <4>3 DEF MayRead
    <3>2. CASE pre[c] # pre[d] \/ pre[d] # pre[e]
      <4>1. pre[c] \subseteq pre[d] /\ pre[d] \subseteq pre[e]
        BY <2>1, <2>3 DEF MayRead
      <4>2. pre[c] # pre[e]
        BY <3>2, <4>1
      <4> QED BY <4>1, <4>2 DEF MayRead
    <3> QED BY <3>1, <3>2
  <2> QED BY <1>1, <2>2, <2>3
<1> QED BY <1>2, <1>3, <1>4, <1>5 DEF IsOrder

LEMMA InitType == SetupInit => TypeInv
<1> SUFFICES ASSUME SetupInit PROVE TypeInv
  OBVIOUS
<1>1. PICK pre \in InputPrefixes, dep \in [Existentials -> SUBSET Universals] :
          /\ \A e \in Existentials : dep[e] \subseteq pre[e]
          /\ ContainerInit(pre, dep, config["extended_dependencies"])
  BY DEF SetupInit
<1>2. pre \in [Existentials -> SUBSET Universals]
  BY SetupAssumption
<1>3. ext \in [Existentials -> SUBSET Variables]
  BY <1>1, <1>2, ComputedExtendedOrder DEF ContainerInit, Variables
<1>4. Computed = {}
  BY <1>1 DEF ContainerInit, Computed
<1>5. ContainerTypeOK
  BY <1>1, <1>2, <1>3 DEF ContainerInit, ContainerTypeOK
<1>6. SetupTypeOK
  BY <1>5, SetupAssumption DEF SetupInit, PassInit, SetupTypeOK
<1>7. Shape
  BY <1>1, <1>3, <1>4 DEF SetupInit, PassInit, ContainerInit, Shape, ScheduledAreRequeued
<1> QED BY <1>6, <1>7 DEF TypeInv

LEMMA InitCertified == SetupInit => Certified(ext) /\ Certified(Merged)
<1> SUFFICES ASSUME SetupInit PROVE Certified(ext) /\ Certified(Merged)
  OBVIOUS
<1>1. PICK pre \in InputPrefixes, dep \in [Existentials -> SUBSET Universals] :
          /\ \A e \in Existentials : dep[e] \subseteq pre[e]
          /\ ContainerInit(pre, dep, config["extended_dependencies"])
  BY DEF SetupInit
<1>2. pre \in [Existentials -> SUBSET Universals]
  BY SetupAssumption
<1>3. Computed = {}
  BY <1>1 DEF ContainerInit, Computed
<1>4. ext \in [Existentials -> SUBSET Variables] /\ prefix = pre
  BY <1>1, <1>2, ComputedExtendedOrder DEF ContainerInit, Variables
<1>5. IsOrder(ext) /\ \A e \in Existentials : ext[e] \cap Universals \subseteq pre[e]
  <2>1. CASE config["extended_dependencies"]
    BY <1>1, <1>2, <2>1, ComputedExtendedOrder DEF ContainerInit
  <2>2. CASE ~config["extended_dependencies"]
    BY <1>1, <2>2, PrefixAssumption DEF ContainerInit, IsOrder
  <2> QED BY <2>1, <2>2
<1>6. Merged = ext
  BY <1>1, <1>4 DEF ContainerInit, Merged
<1>7. Certifies(ext, ext)
  BY <1>3, <1>4, <1>5 DEF Certifies
<1> QED BY <1>6, <1>7 DEF Certified

--------------------------------------------------------------------------------
(***************************************************************************)
(* The steps keep the types and the shape.                                 *)
(***************************************************************************)

\* What the steps that leave the container alone have in common.
LEMMA ContainerKept ==
    ASSUME TypeInv, UNCHANGED containerVars
    PROVE  ContainerTypeOK' /\ Computed' = Computed
BY DEF TypeInv, SetupTypeOK, ContainerTypeOK, containerVars, Computed

LEMMA ConfigurationKept ==
    ASSUME NEW c \in Configurations
    PROVE  incremental_definability_max_iterations(c) \in 1..2
BY DEF incremental_definability_max_iterations

\* A variable in the queue is undefined, so its dependencies are stored.
LEMMA QueueStored ==
    ASSUME TypeInv, NEW v \in queue, phase = "checking"
    PROVE  /\ v \in undefined \cap DOMAIN ext
           /\ v \in Existentials
           /\ v \notin Computed
           /\ ED(v) = ext[v]
           /\ ED(v) \subseteq Variables
<1>1. v \in undefined /\ v \in Existentials
  BY DEF TypeInv, SetupTypeOK, ContainerTypeOK, Shape
<1>2. v \notin Computed /\ v \in DOMAIN ext
  BY <1>1 DEF TypeInv, Shape
<1>3. ED(v) = ext[v]
  BY <1>2 DEF ED
<1>4. ext[v] \subseteq Variables
  BY <1>2 DEF TypeInv, SetupTypeOK, ContainerTypeOK
<1> QED BY <1>1, <1>2, <1>3, <1>4

\* scheduleUpdate keeps the types and exchanges stored dependencies for a
\* support.
LEMMA ScheduleType ==
    ASSUME TypeInv, NEW v \in undefined \cap DOMAIN ext, NEW S \in SUBSET Variables,
           undefined' = undefined \ {v}, innermost' = innermost, scheduleUpdate(v, S)
    PROVE  /\ ContainerTypeOK'
           /\ Computed' = Computed \cup {v}
           /\ DOMAIN ext' = DOMAIN ext \ {v}
<1>1. v \in Existentials
  BY DEF TypeInv, SetupTypeOK, ContainerTypeOK
<1>2. Computed' = Computed \cup {v}
  BY DEF scheduleUpdate, Computed
<1>3. DOMAIN ext' = DOMAIN ext \ {v}
  BY DEF scheduleUpdate
<1>4. ext' \in [DOMAIN ext' -> SUBSET Variables] /\ DOMAIN ext' \subseteq Existentials
  BY <1>3 DEF scheduleUpdate, TypeInv, SetupTypeOK, ContainerTypeOK
<1>5. supports' \in [DOMAIN supports' -> SUBSET Variables] /\ DOMAIN supports' \subseteq Existentials
  BY <1>1, <1>2 DEF scheduleUpdate, TypeInv, SetupTypeOK, ContainerTypeOK, Computed
<1>6. toUpdate' \in [Existentials -> SUBSET Existentials]
  BY <1>1 DEF scheduleUpdate, TypeInv, SetupTypeOK, ContainerTypeOK
<1> QED BY <1>2, <1>3, <1>4, <1>5, <1>6 DEF scheduleUpdate, TypeInv, SetupTypeOK, ContainerTypeOK

LEMMA DefinedType ==
    ASSUME TypeInv, NEW v \in queue, NEW S \in SUBSET ED(v), Defined(v, S)
    PROVE  TypeInv'
<1>1. phase = "checking"
  BY DEF Defined, NextInQueue
<1>2. v \in undefined \cap DOMAIN ext /\ v \in Existentials /\ S \in SUBSET Variables
  BY <1>1, QueueStored
<1>3. CASE config["dynamic_dependencies"]
  <2>1. undefined' = undefined \ {v} /\ innermost' = innermost /\ scheduleUpdate(v, S)
    BY <1>3 DEF Defined
  <2>2. ContainerTypeOK' /\ Computed' = Computed \cup {v} /\ DOMAIN ext' = DOMAIN ext \ {v}
    BY <1>2, <2>1, ScheduleType
  <2>3. newQueue' = (newQueue \ {v}) \cup Gaining(S)
    BY <1>3 DEF Defined, Requeue
  <2>4. Gaining(S) \subseteq undefined'
    BY DEF Gaining
  <2>5. SetupTypeOK'
    BY <2>2, <2>3, <2>4 DEF Defined, TypeInv, SetupTypeOK, ContainerTypeOK
  <2>6. ScheduledAreRequeued'
    <3>1. \A w \in Existentials : toUpdate'[w] = IF w = v THEN {}
                                     ELSE IF w \in Gaining(S) THEN toUpdate[w] \cup {v}
                                     ELSE toUpdate[w]
      BY <2>1 DEF scheduleUpdate
    <3> QED BY <2>3, <3>1 DEF TypeInv, Shape, ScheduledAreRequeued
  <2>7. Shape'
    BY <1>1, <1>2, <1>3, <2>1, <2>2, <2>3, <2>4, <2>6 DEF Defined, TypeInv, Shape
  <2> QED BY <2>5, <2>7 DEF TypeInv
<1>4. CASE ~config["dynamic_dependencies"]
  <2>1. UNCHANGED <<prefix, dependencies, ext, supports, toUpdate, newQueue, innermost>>
    BY <1>4 DEF Defined
  <2>2. undefined' = undefined \ {v} /\ queue' = queue \ {v}
    BY DEF Defined
  <2>3. SetupTypeOK'
    BY <2>1, <2>2 DEF Defined, TypeInv, SetupTypeOK, ContainerTypeOK
  <2>4. Shape'
    BY <1>1, <1>4, <2>1, <2>2 DEF Defined, TypeInv, Shape, ScheduledAreRequeued, Computed
  <2> QED BY <2>3, <2>4 DEF TypeInv
<1> QED BY <1>3, <1>4

LEMMA EndIterationType ==
    ASSUME TypeInv, EndIteration
    PROVE  TypeInv' /\ Computed' = Computed /\ DOMAIN ext' = DOMAIN ext
<1>1. DOMAIN ext' = DOMAIN ext /\ Computed' = Computed
  BY DEF EndIteration, performUpdate, Computed
<1>2. ext' \in [DOMAIN ext' -> SUBSET Variables] /\ DOMAIN ext' \subseteq Existentials
  BY <1>1 DEF EndIteration, performUpdate, TypeInv, SetupTypeOK, ContainerTypeOK, Variables
<1>3. ContainerTypeOK'
  BY <1>1, <1>2 DEF EndIteration, performUpdate, TypeInv, SetupTypeOK, ContainerTypeOK
<1>4. iteration' \in 0..2
  BY ConfigurationKept DEF EndIteration, TypeInv, SetupTypeOK
<1>5. SetupTypeOK'
  BY <1>3, <1>4 DEF EndIteration, TypeInv, SetupTypeOK
<1>6. Shape'
  BY <1>1 DEF EndIteration, performUpdate, TypeInv, SetupTypeOK, Shape, ScheduledAreRequeued
<1> QED BY <1>1, <1>5, <1>6 DEF TypeInv

LEMMA StepType == TypeInv /\ [SetupNext]_setupVars => TypeInv'
<1> SUFFICES ASSUME TypeInv, [SetupNext]_setupVars PROVE TypeInv'
  OBVIOUS
<1>1. CASE BeginRound
  <2>1. ContainerTypeOK' /\ Computed' = Computed
    BY <1>1, ContainerKept DEF BeginRound
  <2>2. SetupTypeOK'
    BY <1>1, <2>1 DEF BeginRound, TypeInv, SetupTypeOK, ContainerTypeOK
  <2>3. Shape'
    BY <1>1, <2>1 DEF BeginRound, containerVars, TypeInv, Shape, ScheduledAreRequeued
  <2> QED BY <2>2, <2>3 DEF TypeInv
<1>2. CASE SkipRounds \/ SkipUnates
  <2>1. ContainerTypeOK' /\ Computed' = Computed
    BY <1>2, ContainerKept DEF SkipRounds, SkipUnates
  <2>2. SetupTypeOK'
    BY <1>2, <2>1 DEF SkipRounds, SkipUnates, passVars, TypeInv, SetupTypeOK
  <2>3. Shape'
    BY <1>2, <2>1
    DEF SkipRounds, SkipUnates, passVars, containerVars, TypeInv, Shape, ScheduledAreRequeued
  <2> QED BY <2>2, <2>3 DEF TypeInv
<1>3. ASSUME NEW v \in queue, NotDefined(v) PROVE TypeInv'
  <2>1. ContainerTypeOK' /\ Computed' = Computed
    BY <1>3, ContainerKept DEF NotDefined
  <2>2. SetupTypeOK'
    BY <1>3, <2>1 DEF NotDefined, TypeInv, SetupTypeOK
  <2>3. Shape'
    BY <1>3, <2>1 DEF NotDefined, containerVars, TypeInv, Shape, ScheduledAreRequeued
  <2> QED BY <2>2, <2>3 DEF TypeInv
<1>4. ASSUME NEW v \in queue, NEW S \in SUBSET ED(v), Defined(v, S) PROVE TypeInv'
  BY <1>4, DefinedType
<1>5. CASE EndIteration
  BY <1>5, EndIterationType
<1>6. ASSUME NEW X \in SUBSET undefined, CheckUnates(X) PROVE TypeInv'
  <2>1. SetupTypeOK'
    BY <1>6 DEF CheckUnates, passVars, TypeInv, SetupTypeOK, ContainerTypeOK
  <2>2. Shape'
    BY <1>6 DEF CheckUnates, passVars, TypeInv, Shape, ScheduledAreRequeued, Computed
  <2> QED BY <2>1, <2>2 DEF TypeInv
<1>7. CASE Ready \/ UNCHANGED setupVars
  BY <1>7 DEF Ready, setupVars, containerVars, passVars, TypeInv, SetupTypeOK, ContainerTypeOK,
              Shape, ScheduledAreRequeued, Computed
<1> QED BY <1>2, <1>3, <1>4, <1>5, <1>6, <1>7, <1>1 DEF SetupNext, SetupStep

--------------------------------------------------------------------------------
(***************************************************************************)
(* The steps keep the certificates.                                        *)
(***************************************************************************)

\* The certificate after v was found defined by S: v keeps what S needs, and
\* the variables T that may read all of S may now read v.
Exchange(X, v, S, T) ==
    [e \in Existentials |->
        IF e = v THEN S \cup UNION {X[d] : d \in S \cap Existentials}
        ELSE IF e \in T THEN X[e] \cup {v}
        ELSE X[e]]

Exchanged(Y, X, v, S, T) ==
    /\ Y \in [Existentials -> SUBSET Variables]
    /\ IsOrder(Y)
    /\ Y[v] \subseteq X[v]
    /\ S \subseteq Y[v]
    /\ \A e \in Existentials \ {v} : Y[e] = IF e \in T THEN X[e] \cup {v} ELSE X[e]

\* Exchanging the dependencies of v keeps an order an order if the variables
\* that gain v may read S, and with each of them all that may read it gain v.
LEMMA ExchangeOrder ==
    ASSUME NEW X \in [Existentials -> SUBSET Variables], IsOrder(X),
           NEW v \in Existentials, NEW S \in SUBSET X[v],
           NEW T \in SUBSET Existentials, \A e \in T : S \subseteq X[e],
           \A e \in Existentials : \A d \in X[e] \cap T : e \in T
    PROVE  Exchanged(Exchange(X, v, S, T), X, v, S, T)
<1> DEFINE Y == Exchange(X, v, S, T)
<1>1. Y[v] = S \cup UNION {X[d] : d \in S \cap Existentials}
  BY DEF Exchange
<1>2. \A e \in Existentials \ {v} : Y[e] = IF e \in T THEN X[e] \cup {v} ELSE X[e]
  BY DEF Exchange
<1> HIDE DEF Y
<1>3. Y[v] \subseteq X[v] /\ S \subseteq Y[v]
  BY <1>1 DEF IsOrder
<1>4. \A e \in Existentials : Y[e] \subseteq Variables
  <2>1. ASSUME NEW e \in Existentials PROVE X[e] \subseteq Variables
    OBVIOUS
  <2>2. v \in Variables
    BY DEF Variables
  <2>3. Y[v] \subseteq Variables
    BY <1>3, <2>1
  <2>4. ASSUME NEW e \in Existentials \ {v} PROVE Y[e] \subseteq Variables
    <3>1. Y[e] \subseteq X[e] \cup {v}
      BY <1>2
    <3> QED BY <2>1, <2>2, <3>1
  <2> QED BY <2>3, <2>4
\* No variable that gains v is among those v reads.
<1>6. T \cap Y[v] = {}
  <2>1. SUFFICES ASSUME NEW w \in T, w \in Y[v] PROVE FALSE
    OBVIOUS
  <2>2. w \in Existentials /\ S \subseteq X[w]
    BY <2>1
  <2>3. CASE w \in S
    BY <2>2, <2>3 DEF IsOrder
  <2>4. CASE w \notin S
    <3>1. PICK d \in S \cap Existentials : w \in X[d]
      BY <1>1, <2>1, <2>4
    <3>2. d \in X[w]
      BY <2>2, <3>1
    <3>3. d \in X[d]
      BY <2>2, <3>1, <3>2 DEF IsOrder
    <3> QED BY <3>1, <3>3 DEF IsOrder
  <2> QED BY <2>3, <2>4
<1>7. ASSUME NEW e \in Existentials PROVE e \notin Y[e]
  <2>1. e \notin X[e]
    BY DEF IsOrder
  <2>2. CASE e = v
    BY <1>3, <2>1, <2>2
  <2>3. CASE e # v
    <3>1. Y[e] \subseteq X[e] \cup {v}
      BY <1>2, <2>3
    <3> QED BY <2>1, <2>3, <3>1
  <2> QED BY <2>2, <2>3
<1>8. ASSUME NEW e \in Existentials, NEW d \in Y[e] \cap Existentials
      PROVE  Y[d] \subseteq Y[e]
  <2>1. CASE e = v
    <3>1. d # v /\ d \notin T
      BY <1>6, <1>7, <2>1
    <3>2. Y[d] = X[d]
      BY <1>2, <3>1
    <3>3. X[d] \subseteq Y[v]
      <4>1. CASE d \in S
        BY <1>1, <4>1
      <4>2. CASE d \notin S
        <5>1. PICK f \in S \cap Existentials : d \in X[f]
          BY <1>1, <2>1, <4>2
        <5>2. X[d] \subseteq X[f]
          BY <5>1 DEF IsOrder
        <5> QED BY <1>1, <5>2
      <4> QED BY <4>1, <4>2
    <3> QED BY <2>1, <3>2, <3>3
  <2>2. CASE e # v /\ d = v
    <3>1. CASE v \in X[e]
      <4>1. X[v] \subseteq X[e]
        BY <3>1 DEF IsOrder
      <4> QED BY <1>2, <1>3, <2>2, <4>1
    <3>2. CASE v \notin X[e]
      <4>1. S \subseteq X[e]
        BY <1>2, <2>2, <3>2
      <4>2. Y[v] \subseteq X[e]
        BY <1>1, <4>1 DEF IsOrder
      <4> QED BY <1>2, <2>2, <4>2
    <3> QED BY <3>1, <3>2
  <2>3. CASE e # v /\ d # v
    <3>1. Y[e] = (IF e \in T THEN X[e] \cup {v} ELSE X[e])
      BY <1>2, <2>3
    <3>2. Y[d] = (IF d \in T THEN X[d] \cup {v} ELSE X[d])
      BY <1>2, <2>3
    <3>3. d \in X[e]
      BY <2>3, <3>1
    <3>4. X[d] \subseteq X[e]
      BY <3>3 DEF IsOrder
    <3>5. d \in T => e \in T
      BY <3>3
    <3> QED BY <3>1, <3>2, <3>4, <3>5
  <2> QED BY <2>1, <2>2, <2>3
<1>9. Y \in [Existentials -> SUBSET Variables]
  <2>1. Y = [e \in Existentials |-> Y[e]]
    BY DEF Y, Exchange
  <2> QED BY <1>4, <2>1
<1>10. IsOrder(Y)
  BY <1>7, <1>8 DEF IsOrder
<1> QED BY <1>2, <1>3, <1>9, <1>10 DEF Exchanged, Y

\* Nothing changes a certificate but the dependencies it is about.
LEMMA CertifiedKept ==
    ASSUME UNCHANGED <<prefix, ext, supports, toUpdate>>
    PROVE  /\ Certified(ext) => Certified(ext)'
           /\ Certified(Merged) => Certified(Merged)'
BY DEF Certified, Certifies, Merged, Computed

LEMMA ScheduleCertified ==
    ASSUME IInv, NEW v \in queue, NEW S \in SUBSET ED(v), Defined(v, S),
           config["dynamic_dependencies"]
    PROVE  Certified(ext)' /\ Certified(Merged)'
<1>1. phase = "checking" /\ undefined' = undefined \ {v} /\ scheduleUpdate(v, S)
      /\ innermost' = innermost
  BY DEF Defined, NextInQueue
<1>2. /\ v \in undefined \cap DOMAIN ext /\ v \in Existentials /\ v \notin Computed
      /\ S \subseteq ext[v] /\ S \in SUBSET Variables
  BY <1>1, QueueStored DEF IInv
<1>3. Computed' = Computed \cup {v} /\ DOMAIN ext' = DOMAIN ext \ {v} /\ prefix' = prefix
  BY <1>1, <1>2, ScheduleType DEF IInv, scheduleUpdate
<1>4. /\ \A e \in DOMAIN ext' : ext'[e] = ext[e]
      /\ \A c \in Computed : supports'[c] = supports[c]
      /\ supports'[v] = S
  BY <1>1, <1>2 DEF scheduleUpdate, Computed
<1>5. Computed \subseteq Existentials /\ DOMAIN ext \subseteq Existentials
  BY DEF IInv, TypeInv, SetupTypeOK, ContainerTypeOK, Computed
<1>6. Certified(ext)'
  <2>1. PICK X : Certifies(X, ext)
    BY DEF IInv, Certified
  <2>2. S \in SUBSET X[v]
    BY <1>2, <2>1 DEF Certifies
  <2> DEFINE Y == Exchange(X, v, S, {})
  <2>3. /\ Y \in [Existentials -> SUBSET Variables]
        /\ IsOrder(Y)
        /\ Y[v] \subseteq X[v]
        /\ S \subseteq Y[v]
        /\ \A e \in Existentials \ {v} : Y[e] = X[e]
    <3>1. X \in [Existentials -> SUBSET Variables] /\ IsOrder(X) /\ v \in Existentials
      BY <1>2, <2>1 DEF Certifies
    <3>2. Exchanged(Y, X, v, S, {})
      BY <2>2, <3>1, ExchangeOrder
    <3> HIDE DEF Y
    <3> QED BY <3>2 DEF Exchanged
  <2> HIDE DEF Y
  <2>4. \A e \in Existentials : Y[e] \cap Universals \subseteq prefix[e]
    BY <2>1, <2>3 DEF Certifies
  <2>5. \A e \in DOMAIN ext' : Y[e] = ext'[e]
    BY <1>3, <1>4, <1>5, <2>1, <2>3 DEF Certifies
  <2>6. \A c \in Computed' : supports'[c] \subseteq Y[c]
    BY <1>2, <1>3, <1>4, <1>5, <2>1, <2>3 DEF Certifies
  <2>7. Certifies(Y, ext)'
    BY <1>3, <2>3, <2>4, <2>5, <2>6 DEF Certifies, IsOrder
  <2> QED BY <2>7 DEF Certified
<1>7. Certified(Merged)'
  <2>1. PICK X : Certifies(X, Merged)
    BY DEF IInv, Certified
  <2>2. \A e \in DOMAIN ext : X[e] = ext[e] \cup toUpdate[e]
    BY <2>1 DEF Certifies, Merged
  <2>3. S \in SUBSET X[v]
    BY <1>2, <2>2
  <2> DEFINE T == {e \in Existentials : S \subseteq X[e]}
             Y == Exchange(X, v, S, T)
  <2>4. /\ Y \in [Existentials -> SUBSET Variables]
        /\ IsOrder(Y)
        /\ Y[v] \subseteq X[v]
        /\ S \subseteq Y[v]
        /\ \A e \in Existentials \ {v} : Y[e] = IF e \in T THEN X[e] \cup {v} ELSE X[e]
    <3>1. X \in [Existentials -> SUBSET Variables] /\ IsOrder(X) /\ v \in Existentials
      BY <1>2, <2>1 DEF Certifies
    <3>2. /\ T \in SUBSET Existentials
          /\ \A e \in T : S \subseteq X[e]
          /\ \A e \in Existentials : \A d \in X[e] \cap T : e \in T
      BY <3>1 DEF IsOrder
    <3> HIDE DEF T
    <3>3. Exchanged(Y, X, v, S, T)
      BY <2>3, <3>1, <3>2, ExchangeOrder
    <3> HIDE DEF Y
    <3> QED BY <3>3 DEF Exchanged
  <2> HIDE DEF Y
  <2>5. \A e \in Existentials : Y[e] \cap Universals \subseteq prefix[e]
    BY <1>2, <2>1, <2>4, PrefixAssumption DEF Certifies
  <2>6. ASSUME NEW e \in DOMAIN ext' PROVE Y[e] = Merged'[e]
    <3>1. e \in undefined' /\ e # v /\ e \in DOMAIN ext /\ e \in Existentials
      BY <1>1, <1>3, <1>5, <2>6 DEF IInv, TypeInv, Shape
    <3>2. e \in Gaining(S) <=> e \in T
      BY <2>2, <3>1 DEF Gaining, includedInDependencies
    <3>3. toUpdate'[e] = IF e \in Gaining(S) THEN toUpdate[e] \cup {v} ELSE toUpdate[e]
      BY <1>1, <3>1 DEF scheduleUpdate
    <3>4. Merged'[e] = ext'[e] \cup toUpdate'[e]
      BY <2>6 DEF Merged
    <3> QED BY <1>4, <2>2, <2>4, <2>6, <3>1, <3>2, <3>3, <3>4
  <2>7. \A c \in Computed' : supports'[c] \subseteq Y[c]
    BY <1>2, <1>3, <1>4, <1>5, <2>1, <2>4 DEF Certifies
  <2>8. Certifies(Y, Merged)'
    BY <1>3, <2>4, <2>5, <2>6, <2>7 DEF Certifies, IsOrder
  <2> QED BY <2>8 DEF Certified
<1> QED BY <1>6, <1>7

\* Once the schedule is merged the effective dependencies are the stored ones.
LEMMA EndIterationCertified ==
    ASSUME IInv, EndIteration
    PROVE  Certified(ext)' /\ Certified(Merged)'
<1>1. /\ Computed' = Computed /\ DOMAIN ext' = DOMAIN ext
      /\ prefix' = prefix /\ supports' = supports
  BY EndIterationType DEF IInv, EndIteration, performUpdate
<1>2. \A e \in DOMAIN ext : ext'[e] = Merged[e]
  BY DEF EndIteration, performUpdate, Merged
<1>3. \A e \in DOMAIN ext : Merged'[e] = Merged[e]
  <2>1. DOMAIN ext \subseteq Existentials
    BY DEF IInv, TypeInv, SetupTypeOK, ContainerTypeOK
  <2>2. \A e \in DOMAIN ext : toUpdate'[e] = {}
    BY <2>1 DEF EndIteration, performUpdate
  <2> QED BY <1>1, <1>2, <2>2 DEF Merged
<1>4. PICK X : Certifies(X, Merged)
  BY DEF IInv, Certified
<1>5. Certifies(X, ext)'
  BY <1>1, <1>2, <1>4 DEF Certifies
<1>6. Certifies(X, Merged)'
  BY <1>1, <1>3, <1>4 DEF Certifies
<1> QED BY <1>5, <1>6 DEF Certified

LEMMA StepCertified ==
    IInv /\ [SetupNext]_setupVars => Certified(ext)' /\ Certified(Merged)'
<1> SUFFICES ASSUME IInv, [SetupNext]_setupVars
             PROVE  Certified(ext)' /\ Certified(Merged)'
  OBVIOUS
<1>1. ASSUME UNCHANGED <<prefix, ext, supports, toUpdate>>
      PROVE  Certified(ext)' /\ Certified(Merged)'
  BY <1>1, CertifiedKept DEF IInv
<1>2. CASE BeginRound \/ SkipRounds \/ SkipUnates
  BY <1>1, <1>2 DEF BeginRound, SkipRounds, SkipUnates, containerVars
<1>3. ASSUME NEW v \in queue, NotDefined(v) PROVE Certified(ext)' /\ Certified(Merged)'
  BY <1>1, <1>3 DEF NotDefined, containerVars
<1>4. ASSUME NEW v \in queue, NEW S \in SUBSET ED(v), Defined(v, S)
      PROVE  Certified(ext)' /\ Certified(Merged)'
  <2>1. CASE config["dynamic_dependencies"]
    BY <1>4, <2>1, ScheduleCertified
  <2>2. CASE ~config["dynamic_dependencies"]
    BY <1>1, <1>4, <2>2 DEF Defined
  <2> QED BY <2>1, <2>2
<1>5. CASE EndIteration
  BY <1>5, EndIterationCertified
<1>6. ASSUME NEW X \in SUBSET undefined, CheckUnates(X)
      PROVE  Certified(ext)' /\ Certified(Merged)'
  BY <1>1, <1>6 DEF CheckUnates
<1>7. CASE Ready \/ UNCHANGED setupVars
  BY <1>1, <1>7 DEF Ready, setupVars, containerVars
<1> QED BY <1>2, <1>3, <1>4, <1>5, <1>6, <1>7 DEF SetupNext, SetupStep

--------------------------------------------------------------------------------
(***************************************************************************)
(* The theorems.                                                           *)
(***************************************************************************)
LEMMA InvariantLemma == SetupSpec => []IInv
<1>1. SetupInit => IInv
  BY InitType, InitCertified DEF IInv
<1>2. IInv /\ [SetupNext]_setupVars => IInv'
  BY StepType, StepCertified DEF IInv
<1> QED BY <1>1, <1>2, PTL DEF SetupSpec

\* The container and the queues of checkDefined keep their types.
THEOREM SetupTypeCorrect == SetupSpec => []SetupTypeOK
<1>1. IInv => SetupTypeOK
  BY DEF IInv, TypeInv
<1> QED BY <1>1, InvariantLemma, PTL

\* No lookup of computeDynamicDependencies fails, and the assertion of
\* includedInDependencies holds.
THEOREM LookupsNeverFail == SetupSpec => []LookupsSucceed
<1>1. ASSUME IInv PROVE LookupsSucceed
  <2>1. undefined \cap Computed = {}
    BY <1>1 DEF IInv, TypeInv, Shape
  <2>2. ASSUME NEW v \in Existentials PROVE Queryable(v)
    BY <1>1 DEF Queryable, IInv, TypeInv, Shape
  <2> QED BY <2>1, <2>2 DEF LookupsSucceed
<1> QED BY <1>1, InvariantLemma, PTL

\* Every variable with scheduled dependencies is checked again.
THEOREM NoGainUnseen == SetupSpec => []ScheduledAreRequeued
<1>1. IInv => ScheduledAreRequeued
  BY DEF IInv, TypeInv, Shape
<1> QED BY <1>1, InvariantLemma, PTL

\* The dependencies are an order at every time, with and without the entries
\* that are only scheduled.
THEOREM EffectiveOrderHolds == SetupSpec => []EffectiveOrder
<1>1. ASSUME IInv PROVE EffectiveOrder
  <2>1. SetupTypeOK /\ Shape
    BY <1>1 DEF IInv, TypeInv
  <2>2. \A v \in Existentials : ReadThrough(v, Merged) = EffectiveED(v)
    BY <2>1, ReadThroughMerged
  <2>3. \A e \in Existentials :
           /\ e \notin ReadThrough(e, Merged)
           /\ \A d \in ReadThrough(e, Merged) \cap Existentials :
                 ReadThrough(d, Merged) \subseteq ReadThrough(e, Merged)
    BY <1>1, <2>1, CertifiedOrder DEF IInv
  <2> QED BY <2>2, <2>3 DEF EffectiveOrder
<1> QED BY <1>1, InvariantLemma, PTL

THEOREM StoredOrderHolds == SetupSpec => []StoredOrder
<1>1. ASSUME IInv PROVE StoredOrder
  <2>1. SetupTypeOK /\ Shape
    BY <1>1 DEF IInv, TypeInv
  <2>2. \A v \in Existentials : ReadThrough(v, ext) = ED(v)
    BY <2>1, ReadThroughExt
  <2>3. \A e \in Existentials :
           /\ e \notin ReadThrough(e, ext)
           /\ \A d \in ReadThrough(e, ext) \cap Existentials :
                 ReadThrough(d, ext) \subseteq ReadThrough(e, ext)
    BY <1>1, <2>1, CertifiedOrder DEF IInv
  <2> QED BY <2>2, <2>3 DEF StoredOrder
<1> QED BY <1>1, InvariantLemma, PTL

\* Whatever definitions are found, no variable gets to read a universal that
\* is not among its dependencies in the input.
THEOREM PrefixRespected == SetupSpec => []UniversalsRespected
<1>1. ASSUME IInv PROVE UniversalsRespected
  <2>1. SetupTypeOK /\ Shape
    BY <1>1 DEF IInv, TypeInv
  <2>2. \A v \in Existentials : ReadThrough(v, Merged) = EffectiveED(v)
    BY <2>1, ReadThroughMerged
  <2>3. \A e \in Existentials : ReadThrough(e, Merged) \cap Universals \subseteq prefix[e]
    BY <1>1, <2>1, CertifiedOrder DEF IInv
  <2> QED BY <2>2, <2>3 DEF UniversalsRespected
<1> QED BY <1>1, InvariantLemma, PTL

\* What an undefined variable v gains in a step, if it is still undefined.
Gains(v) ==
    /\ Stored(v) \subseteq Stored(v)'
    /\ Stored(v)' \ Stored(v) \subseteq Computed'

LEMMA StepGains ==
    ASSUME IInv, SetupNext
    PROVE  undefined' \subseteq undefined /\ \A v \in undefined' : Gains(v)
<1>1. ASSUME UNCHANGED <<ext, toUpdate>>, undefined' \subseteq undefined
      PROVE  undefined' \subseteq undefined /\ \A v \in undefined' : Gains(v)
  BY <1>1 DEF Gains, Stored
<1>2. CASE BeginRound \/ SkipRounds \/ SkipUnates \/ Ready
  BY <1>1, <1>2 DEF BeginRound, SkipRounds, SkipUnates, Ready, setupVars, containerVars
<1>3. ASSUME NEW v \in queue, NotDefined(v)
      PROVE  undefined' \subseteq undefined /\ \A w \in undefined' : Gains(w)
  BY <1>1, <1>3 DEF NotDefined, containerVars
<1>4. ASSUME NEW v \in queue, NEW S \in SUBSET ED(v), Defined(v, S)
      PROVE  undefined' \subseteq undefined /\ \A w \in undefined' : Gains(w)
  <2>1. CASE config["dynamic_dependencies"]
    <3>1. undefined' = undefined \ {v} /\ scheduleUpdate(v, S) /\ undefined \subseteq Existentials
      BY <1>4, <2>1 DEF Defined, IInv, TypeInv, SetupTypeOK, ContainerTypeOK
    <3>2. ASSUME NEW w \in undefined' PROVE Gains(w)
      <4>1. w # v /\ w \in Existentials /\ DOMAIN ext' = DOMAIN ext \ {v}
        BY <3>1, <3>2 DEF scheduleUpdate
      <4>2. w \in DOMAIN ext => ext'[w] = ext[w]
        BY <3>1, <4>1 DEF scheduleUpdate
      <4>3. toUpdate'[w] = IF w \in Gaining(S) THEN toUpdate[w] \cup {v} ELSE toUpdate[w]
        BY <3>1, <4>1 DEF scheduleUpdate
      <4>4. v \in Computed'
        BY <3>1 DEF scheduleUpdate, Computed
      <4> QED BY <4>1, <4>2, <4>3, <4>4 DEF Gains, Stored
    <3> QED BY <3>1, <3>2
  <2>2. CASE ~config["dynamic_dependencies"]
    BY <1>1, <1>4, <2>2 DEF Defined
  <2> QED BY <2>1, <2>2
<1>5. CASE EndIteration
  <2>1. DOMAIN ext' = DOMAIN ext /\ undefined' = undefined
    BY <1>5 DEF EndIteration, performUpdate
  <2>2. ASSUME NEW w \in undefined' PROVE Stored(w)' = Stored(w)
    <3>1. w \in Existentials
      BY <2>1, <2>2 DEF IInv, TypeInv, SetupTypeOK, ContainerTypeOK
    <3>2. w \in DOMAIN ext => ext'[w] = ext[w] \cup toUpdate[w] /\ toUpdate'[w] = {}
      BY <1>5, <3>1 DEF EndIteration, performUpdate
    <3> QED BY <2>1, <3>2 DEF Stored
  <2> QED BY <2>1, <2>2 DEF Gains
<1>6. ASSUME NEW X \in SUBSET undefined, CheckUnates(X)
      PROVE  undefined' \subseteq undefined /\ \A v \in undefined' : Gains(v)
  BY <1>1, <1>6 DEF CheckUnates
<1> QED BY <1>2, <1>3, <1>4, <1>5, <1>6 DEF SetupNext, SetupStep

\* An undefined variable loses no dependency and gains only defined variables.
THEOREM UndefinedNeverLose == SetupSpec => UndefinedOnlyGain
<1> DEFINE Gain == \A v \in undefined' :
                      /\ EffectiveED(v) \subseteq EffectiveED(v)'
                      /\ EffectiveED(v)' \ EffectiveED(v) \subseteq Computed'
<1>1. ASSUME IInv, SetupNext PROVE Gain
  <2>1. TypeInv /\ TypeInv'
    BY <1>1, StepType DEF IInv
  <2>2. undefined' \subseteq undefined /\ \A v \in undefined' : Gains(v)
    BY <1>1, StepGains
  <2>3. ASSUME NEW v \in undefined'
        PROVE  EffectiveED(v) = Stored(v) /\ EffectiveED(v)' = Stored(v)'
    BY <2>1, <2>2 DEF TypeInv, Shape, EffectiveED
  <2> QED BY <2>2, <2>3 DEF Gains
<1>2. IInv /\ [SetupNext]_setupVars => [Gain]_setupVars
  BY <1>1
<1> QED BY <1>2, InvariantLemma, PTL DEF SetupSpec, UndefinedOnlyGain

--------------------------------------------------------------------------------
(***************************************************************************)
(* The library's entry, for every formula, block and set of given          *)
(* definitions: unless a lookup fails while the given definitions are      *)
(* processed, none fails later, they can be used by every variable that    *)
(* may read what they read, and they keep the order of the dependencies.   *)
(*                                                                         *)
(* The argument: where no lookup failed, a definition was processed after  *)
(* the variables it reads, whatever the order of the map.  So what is      *)
(* known to the container, computed or stored, is closed under reading,    *)
(* and the block's variables it does not know are read by nobody.  A new   *)
(* definition then extends a certificate as one that was found does.       *)
(*                                                                         *)
(* At the end, the vectors in which the container keeps its sets: they     *)
(* stay in order and hold what the sets hold.  A vector in order is the    *)
(* only one with its elements, so merging and walking along two of them    *)
(* are followed element by element, by induction on what is left of both.  *)
(***************************************************************************)

(***************************************************************************)
(* The invariant.                                                          *)
(***************************************************************************)
Known == Computed \cup DOMAIN ext

LibraryTypeOK ==
    /\ ContainerTypeOK
    /\ config \in Configurations
    /\ given \in GivenSets
    /\ unprocessed \subseteq DOMAIN given
    /\ \A v \in Block : prefix[v] = Universals

\* The maps of the container divide the variables outside the block that have no
\* definition and those defined; in the block only the given definitions count.
LibraryShape ==
    /\ DOMAIN ext = Existentials \ (Block \cup Computed)
    /\ Computed \cap Block = DOMAIN given \ unprocessed
    /\ \A v \in Computed \cap Block : supports[v] = given[v]
    /\ phase # "given" => unprocessed = {}
    /\ phase \in {"given", "innermost"} => Computed \subseteq Block
    /\ phase = "innermost" => \A v \in Existentials : toUpdate[v] = {}
    /\ undefined \subseteq DOMAIN ext
    /\ phase # "ready" /\ (phase \in {"given", "innermost"} \/ config["dynamic_dependencies"])
          => undefined = DOMAIN ext
    /\ phase = "checking" => queue \subseteq undefined /\ newQueue \subseteq undefined
    /\ ~config["dynamic_dependencies"] \/ phase # "checking" => newQueue = {}

\* Nobody reads a variable the container does not know.
KnownClosed ==
    /\ \A c \in Computed : supports[c] \cap Existentials \subseteq Known
    /\ \A w \in DOMAIN ext : ext[w] \cap Existentials \subseteq Known
    /\ \A w \in Existentials : toUpdate[w] \subseteq Computed

\* A variable that may read, now or after the update, what a definition reads may
\* read the variable defined.
ProcessedAreUsable ==
    phase \in {"given", "innermost"} =>
        \A v \in Computed, w \in DOMAIN ext : supports[v] \subseteq Merged[w] => v \in Merged[w]

LibraryCertifies(X) ==
    /\ Certifies(X, Merged)
    /\ \A e \in Existentials \ Known : X[e] = {}
    /\ \A e \in Existentials : X[e] \cap Existentials \subseteq Known

LibraryInv ==
    phase # "thrown" =>
        /\ LibraryTypeOK /\ LibraryShape /\ KnownClosed /\ ProcessedAreUsable
        /\ \E X : LibraryCertifies(X)

--------------------------------------------------------------------------------
(***************************************************************************)
(* What the invariant says of the queries.                                 *)
(***************************************************************************)
LEMMA KnownExistential ==
    ASSUME LibraryTypeOK
    PROVE  Computed \subseteq Existentials /\ DOMAIN ext \subseteq Existentials
BY DEF LibraryTypeOK, ContainerTypeOK, Computed

LEMMA MergedTyped ==
    ASSUME LibraryTypeOK
    PROVE  \A w \in DOMAIN ext : Merged[w] = ext[w] \cup toUpdate[w] /\ Merged[w] \subseteq Variables
<1>1. \A w \in DOMAIN ext : ext[w] \subseteq Variables /\ toUpdate[w] \subseteq Existentials
  BY KnownExistential DEF LibraryTypeOK, ContainerTypeOK
<1> QED BY <1>1 DEF Merged, Variables

\* What is read through supports is known.
LEMMA ReadByKnown ==
    ASSUME LibraryTypeOK, KnownClosed, NEW v \in Computed
    PROVE  ReadBy(v) \cap Existentials \subseteq Known
<1>1. \A c \in Reach(v) : supports[c] \cap Existentials \subseteq Known
  BY DEF Reach, KnownClosed
<1> QED BY <1>1 DEF ReadBy

LEMMA EffectiveBounded ==
    ASSUME LibraryTypeOK, LibraryShape, NEW X, LibraryCertifies(X), NEW v \in Existentials
    PROVE  EffectiveED(v) \subseteq X[v]
<1>1. /\ IsOrder(X) /\ \A e \in DOMAIN ext : X[e] = Merged[e]
      /\ \A c \in Computed : supports[c] \subseteq X[c]
  BY DEF LibraryCertifies, Certifies
<1>2. \A d \in DOMAIN ext : Stored(d) = X[d]
  BY <1>1, MergedTyped DEF Stored
<1>3. \A d : d \notin DOMAIN ext => Stored(d) = {}
  BY DEF Stored
<1>4. CASE v \in Computed
  <2>1. ReadBy(v) \subseteq X[v]
    BY <1>1, <1>4, KnownExistential, ReadByBounded
  <2>2. ASSUME NEW d \in (ReadBy(v) \cap Existentials) \ Computed
        PROVE  Stored(d) \subseteq X[v]
    <3>1. X[d] \subseteq X[v]
      BY <1>1, <2>1 DEF IsOrder
    <3> QED BY <1>2, <1>3, <3>1
  <2> QED BY <1>4, <2>1, <2>2 DEF EffectiveED
<1>5. CASE v \notin Computed
  BY <1>2, <1>3, <1>5 DEF EffectiveED
<1> QED BY <1>4, <1>5

\* What a variable reads, it reads the dependencies of.
LEMMA EffectiveClosed ==
    ASSUME LibraryTypeOK, LibraryShape, NEW X, LibraryCertifies(X),
           NEW e \in Existentials, NEW d \in EffectiveED(e) \cap Existentials
    PROVE  EffectiveED(d) \subseteq EffectiveED(e)
<1>1. IsOrder(X) /\ \A f \in DOMAIN ext : X[f] = Merged[f]
  BY DEF LibraryCertifies, Certifies
<1>2. ASSUME NEW f \in Existentials, d \in Stored(f)
      PROVE  EffectiveED(d) \subseteq Stored(f)
  <2>1. f \in DOMAIN ext /\ Stored(f) = X[f]
    BY <1>1, <1>2, MergedTyped DEF Stored
  <2>2. X[d] \subseteq X[f]
    BY <1>1, <1>2, <2>1 DEF IsOrder
  <2> QED BY <2>1, <2>2, EffectiveBounded
<1>3. CASE e \notin Computed
  BY <1>2, <1>3 DEF EffectiveED
<1>4. CASE e \in Computed /\ d \in ReadBy(e)
  <2>1. CASE d \in Computed
    <3>1. ReadBy(d) \subseteq ReadBy(e)
      BY <1>4, <2>1, KnownExistential, ReachIncludes
    <3> QED BY <1>4, <2>1, <3>1 DEF EffectiveED
  <2>2. CASE d \notin Computed
    BY <1>4, <2>2 DEF EffectiveED
  <2> QED BY <2>1, <2>2
<1>5. CASE e \in Computed /\ d \notin ReadBy(e)
  <2>1. PICK f \in (ReadBy(e) \cap Existentials) \ Computed : d \in Stored(f)
    BY <1>5 DEF EffectiveED
  <2>2. EffectiveED(d) \subseteq Stored(f)
    BY <1>2, <2>1
  <2> QED BY <1>5, <2>1, <2>2 DEF EffectiveED
<1> QED BY <1>3, <1>4, <1>5

--------------------------------------------------------------------------------
(***************************************************************************)
(* The initial states.                                                     *)
(***************************************************************************)
LEMMA LibraryStart == LibraryInit => LibraryInv
<1> SUFFICES ASSUME LibraryInit PROVE LibraryInv
  OBVIOUS
<1> USE DEF LibraryInit
<1>1. PICK pre \in InputPrefixes :
          /\ \A v \in Block : pre[v] = Universals
          /\ prefix = pre
          /\ dependencies = restrictTo(pre, Existentials \ Block)
          /\ ext = [v \in Existentials \ Block |->
                       IF config["extended_dependencies"]
                       THEN computeExtendedDependencies(pre)[v] \ Block
                       ELSE pre[v]]
  OBVIOUS
<1>2. pre \in [Existentials -> SUBSET Universals]
  BY SetupAssumption
<1> DEFINE E == computeExtendedDependencies(pre)
<1>3. /\ E \in [Existentials -> SUBSET Variables] /\ IsOrder(E)
      /\ \A e \in Existentials : E[e] \cap Universals \subseteq pre[e]
  BY <1>2, ComputedExtendedOrder
<1> HIDE DEF E
<1>4. DOMAIN ext = Existentials \ Block /\ Computed = {} /\ Known = Existentials \ Block
  BY <1>1 DEF Computed, Known
<1>5. \A e \in DOMAIN ext : ext[e] = IF config["extended_dependencies"] THEN E[e] \ Block ELSE pre[e]
  BY <1>1, <1>4 DEF E
<1>6. ASSUME NEW e \in DOMAIN ext
      PROVE  /\ ext[e] \subseteq Variables /\ ext[e] \cap Existentials \subseteq Known
             /\ e \notin ext[e] /\ ext[e] \cap Universals \subseteq pre[e]
             /\ \A d \in ext[e] \cap Existentials :
                   config["extended_dependencies"] /\ d \in E[e] /\ d \notin Block
  <2>1. e \in Existentials /\ pre[e] \subseteq Universals /\ E[e] \subseteq Variables
    BY <1>2, <1>3, <1>4
  <2>2. CASE config["extended_dependencies"]
    <3>1. ext[e] = E[e] \ Block
      BY <1>5, <2>2
    <3>2. e \notin E[e] /\ E[e] \cap Universals \subseteq pre[e]
      BY <1>3, <2>1 DEF IsOrder
    <3> QED BY <1>4, <2>1, <2>2, <3>1, <3>2
  <2>3. CASE ~config["extended_dependencies"]
    <3>1. ext[e] = pre[e]
      BY <1>5, <2>3
    <3> QED BY <2>1, <3>1, PrefixAssumption DEF Variables
  <2> QED BY <2>2, <2>3
<1>7. LibraryTypeOK
  <2>1. config \in Configurations
    BY SetupAssumption
  <2>2. dependencies \in [DOMAIN dependencies -> SUBSET Universals]
        /\ DOMAIN dependencies \subseteq Existentials
    BY <1>1, <1>2 DEF restrictTo
  <2>3. ext \in [DOMAIN ext -> SUBSET Variables]
    BY <1>1, <1>4, <1>6
  <2>4. \A v \in Block : prefix[v] = Universals
    BY <1>1
  <2> QED BY <1>1, <1>2, <1>4, <2>1, <2>2, <2>3, <2>4 DEF LibraryTypeOK, ContainerTypeOK
<1>8. LibraryShape
  BY <1>4 DEF LibraryShape
<1>9. KnownClosed
  BY <1>4, <1>6 DEF KnownClosed
<1>10. ProcessedAreUsable
  BY <1>4 DEF ProcessedAreUsable
<1>11. \E X : LibraryCertifies(X)
  <2> DEFINE X == [e \in Existentials |-> IF e \in Block THEN {} ELSE ext[e]]
  <2>1. \A e \in Existentials : X[e] = IF e \in Block THEN {} ELSE ext[e]
    OBVIOUS
  <2>2. X \in [Existentials -> SUBSET Variables]
    BY <1>4, <1>6
  <2> HIDE DEF X
  <2>3. IsOrder(X)
    <3>1. ASSUME NEW e \in Existentials PROVE e \notin X[e]
      BY <1>4, <1>6, <2>1
    <3>2. ASSUME NEW e \in Existentials, NEW d \in X[e] \cap Existentials
          PROVE  X[d] \subseteq X[e]
      <4>1. e \in DOMAIN ext /\ e \notin Block /\ d \in ext[e]
        BY <1>4, <2>1
      <4>2. config["extended_dependencies"] /\ d \in E[e] /\ d \notin Block
        BY <1>6, <4>1
      <4>3. E[d] \subseteq E[e]
        BY <1>3, <4>2 DEF IsOrder
      <4> QED BY <1>4, <1>5, <2>1, <4>1, <4>2, <4>3
    <3> QED BY <3>1, <3>2 DEF IsOrder
  <2>4. \A e \in Existentials : X[e] \cap Universals \subseteq prefix[e]
    BY <1>1, <1>4, <1>6, <2>1
  <2>5. \A e \in DOMAIN ext : X[e] = Merged[e]
    BY <1>4, <2>1 DEF Merged
  <2>6. Certifies(X, Merged)
    BY <1>4, <2>2, <2>3, <2>4, <2>5 DEF Certifies
  <2>7. \A e \in Existentials \ Known : X[e] = {}
    BY <1>4, <2>1
  <2>8. \A e \in Existentials : X[e] \cap Existentials \subseteq Known
    BY <1>4, <1>6, <2>1
  <2> QED BY <2>6, <2>7, <2>8 DEF LibraryCertifies
<1> QED BY <1>7, <1>8, <1>9, <1>10, <1>11 DEF LibraryInv

--------------------------------------------------------------------------------
(***************************************************************************)
(* A new definition.                                                       *)
(***************************************************************************)

\* v, stored or not yet known, is computed from known variables S from now on.
NewDefinition(v, S) ==
    /\ v \in Existentials \ Computed /\ S \subseteq Variables
    /\ v \notin S /\ S \cap Existentials \subseteq Known
    /\ v \in DOMAIN ext => S \subseteq ext[v]
    /\ v \notin DOMAIN ext => v \in Block
    /\ scheduleUpdate(v, S) /\ undefined' = DOMAIN ext \ {v}

LEMMA ScheduleEffect ==
    ASSUME LibraryTypeOK, NEW v, NEW S, NewDefinition(v, S)
    PROVE  /\ Computed' = Computed \cup {v} /\ DOMAIN ext' = DOMAIN ext \ {v}
           /\ Known' = Known \cup {v} /\ prefix' = prefix /\ dependencies' = dependencies
           /\ \A c \in Computed : supports'[c] = supports[c]
           /\ supports'[v] = S
           /\ \A w \in DOMAIN ext' :
                 /\ ext'[w] = ext[w] /\ w # v /\ w \in Existentials
                 /\ toUpdate'[w] = IF S \subseteq Merged[w] THEN toUpdate[w] \cup {v}
                                                            ELSE toUpdate[w]
                 /\ Merged'[w] = IF S \subseteq Merged[w] THEN Merged[w] \cup {v} ELSE Merged[w]
<1> USE DEF NewDefinition
<1>1. Computed' = Computed \cup {v} /\ DOMAIN ext' = DOMAIN ext \ {v}
  BY DEF scheduleUpdate, Computed
<1>2. Known' = Known \cup {v}
  BY <1>1 DEF Known
<1>3. prefix' = prefix /\ dependencies' = dependencies
      /\ \A c \in Computed : supports'[c] = supports[c]
  BY DEF scheduleUpdate
<1>4. supports'[v] = S
  BY DEF scheduleUpdate
<1>5. ASSUME NEW w \in DOMAIN ext'
      PROVE  /\ ext'[w] = ext[w] /\ w # v /\ w \in Existentials
             /\ toUpdate'[w] = IF S \subseteq Merged[w] THEN toUpdate[w] \cup {v}
                                                        ELSE toUpdate[w]
             /\ Merged'[w] = IF S \subseteq Merged[w] THEN Merged[w] \cup {v} ELSE Merged[w]
  <2>1. w \in DOMAIN ext /\ w # v /\ w \in Existentials /\ w \in undefined'
    BY <1>1, KnownExistential
  <2>2. ext'[w] = ext[w]
    BY <2>1 DEF scheduleUpdate
  <2>3. Merged[w] = ext[w] \cup toUpdate[w] /\ Merged'[w] = ext'[w] \cup toUpdate'[w]
    BY <1>5, <2>1 DEF Merged
  <2>4. w \in Gaining(S) <=> S \subseteq Merged[w]
    BY <2>1, <2>3 DEF Gaining, includedInDependencies
  <2>5. toUpdate'[w] = IF w \in Gaining(S) THEN toUpdate[w] \cup {v} ELSE toUpdate[w]
    BY <2>1 DEF scheduleUpdate
  <2> QED BY <2>4, <2>5, <2>2, <2>3, <2>1
<1> QED BY <1>4, <1>5, <1>1, <1>2, <1>3

LEMMA ScheduleTyped ==
    ASSUME LibraryTypeOK, NEW v, NEW S, NewDefinition(v, S),
           innermost' \subseteq Existentials
    PROVE  ContainerTypeOK'
<1>1. v \in Existentials /\ S \subseteq Variables
  BY DEF NewDefinition
<1>2. Computed' = Computed \cup {v} /\ DOMAIN ext' = DOMAIN ext \ {v}
      /\ prefix' = prefix /\ dependencies' = dependencies
  BY ScheduleEffect
<1>3. ext' \in [DOMAIN ext' -> SUBSET Variables] /\ DOMAIN ext' \subseteq Existentials
  BY <1>2 DEF NewDefinition, scheduleUpdate, LibraryTypeOK, ContainerTypeOK
<1>4. supports' \in [DOMAIN supports' -> SUBSET Variables] /\ DOMAIN supports' \subseteq Existentials
  BY <1>1, <1>2 DEF NewDefinition, scheduleUpdate, LibraryTypeOK, ContainerTypeOK, Computed
<1>5. toUpdate' \in [Existentials -> SUBSET Existentials]
  BY <1>1 DEF NewDefinition, scheduleUpdate, LibraryTypeOK, ContainerTypeOK
<1>6. undefined' \subseteq Existentials
  BY KnownExistential DEF NewDefinition
<1> QED BY <1>2, <1>3, <1>4, <1>5, <1>6 DEF LibraryTypeOK, ContainerTypeOK

LEMMA ScheduleClosed ==
    ASSUME LibraryTypeOK, KnownClosed, NEW v, NEW S, NewDefinition(v, S)
    PROVE  KnownClosed'
<1>1. /\ Computed' = Computed \cup {v} /\ Known' = Known \cup {v}
      /\ DOMAIN ext' = DOMAIN ext \ {v}
      /\ \A c \in Computed : supports'[c] = supports[c]
      /\ supports'[v] = S
      /\ \A w \in DOMAIN ext' : ext'[w] = ext[w]
  BY ScheduleEffect
<1>2. S \cap Existentials \subseteq Known /\ v \in Existentials
  BY DEF NewDefinition
<1>3. \A w \in Existentials : toUpdate'[w] \subseteq toUpdate[w] \cup {v}
  BY DEF NewDefinition, scheduleUpdate
<1> QED BY <1>1, <1>2, <1>3 DEF KnownClosed

\* A certificate after the definition.
LEMMA ScheduleCertificate ==
    ASSUME LibraryTypeOK, KnownClosed, NEW v, NEW S, NewDefinition(v, S),
           NEW X, LibraryCertifies(X)
    PROVE  \E Y : LibraryCertifies(Y)'
<1>1. /\ X \in [Existentials -> SUBSET Variables] /\ IsOrder(X)
      /\ \A e \in Existentials : X[e] \cap Universals \subseteq prefix[e]
      /\ \A e \in DOMAIN ext : X[e] = Merged[e]
      /\ \A c \in Computed : supports[c] \subseteq X[c]
      /\ \A e \in Existentials \ Known : X[e] = {}
      /\ \A e \in Existentials : X[e] \cap Existentials \subseteq Known
  BY DEF LibraryCertifies, Certifies
<1>2. /\ v \in Existentials /\ v \notin Computed /\ S \in SUBSET Variables
      /\ v \notin S /\ S \cap Existentials \subseteq Known
  BY DEF NewDefinition
<1>3. PICK W : /\ W \in [Existentials -> SUBSET Variables] /\ IsOrder(W) /\ S \subseteq W[v]
               /\ W[v] \cap Universals \subseteq prefix[v] /\ W[v] \cap Existentials \subseteq Known
               /\ \A e \in Existentials \ {v} : W[e] = X[e]
  <2>1. CASE v \in DOMAIN ext
    <3>1. S \subseteq X[v]
      BY <1>1, <2>1, MergedTyped DEF NewDefinition
    <3> QED BY <1>1, <1>2, <3>1
  <2>2. CASE v \notin DOMAIN ext
    <3>1. v \notin Known /\ prefix[v] = Universals
      BY <1>2, <2>2 DEF Known, NewDefinition, LibraryTypeOK
    <3>2. \A e \in Existentials : v \notin X[e]
      BY <1>1, <1>2, <3>1
    <3> DEFINE B == S \cup UNION {X[d] : d \in S \cap Existentials}
               W == [X EXCEPT ![v] = B]
    <3>3. B \subseteq Variables /\ B \cap Existentials \subseteq Known /\ v \notin B
      BY <1>1, <1>2, <3>2
    <3>4. \A d \in B \cap Existentials : X[d] \subseteq B
      BY <1>1 DEF IsOrder
    <3>5. S \subseteq B
      OBVIOUS
    <3> HIDE DEF B
    <3>6. /\ W \in [Existentials -> SUBSET Variables] /\ W[v] = B
          /\ \A e \in Existentials \ {v} : W[e] = X[e]
      BY <1>1, <1>2, <3>3
    <3> HIDE DEF W
    <3>7. IsOrder(W)
      <4>1. ASSUME NEW e \in Existentials
            PROVE  e \notin W[e] /\ \A d \in W[e] \cap Existentials : W[d] \subseteq W[e]
        <5>1. CASE e = v
          BY <3>3, <3>4, <3>6, <5>1
        <5>2. CASE e # v
          <6>1. W[e] = X[e] /\ v \notin W[e]
            BY <3>2, <3>6, <5>2
          <6> QED BY <1>1, <3>6, <6>1 DEF IsOrder
        <5> QED BY <5>1, <5>2
      <4> QED BY <4>1 DEF IsOrder
    <3>8. W[v] \cap Universals \subseteq prefix[v]
      BY <3>1
    <3> QED BY <3>3, <3>5, <3>6, <3>7, <3>8
  <2> QED BY <2>1, <2>2
<1> DEFINE T == {e \in Known \cup {v} : S \subseteq W[e]}
<1>4. T \subseteq Existentials
  BY <1>2, KnownExistential DEF Known
<1>5. ASSUME NEW e \in Existentials, NEW d \in W[e] \cap T PROVE e \in T
  <2>1. d \in Existentials /\ S \subseteq W[d]
    BY <1>4, <1>5
  <2>2. S \subseteq W[e]
    BY <1>3, <1>5, <2>1 DEF IsOrder
  <2>3. e \in Known \cup {v}
    BY <1>1, <1>3, <1>5
  <2> QED BY <2>2, <2>3
<1>6. \A e \in T : e \in Known \cup {v} /\ S \subseteq W[e]
  OBVIOUS
<1>7. \A e \in Known \cup {v} : S \subseteq W[e] => e \in T
  OBVIOUS
<1> HIDE DEF T
<1>8. PICK Y : Exchanged(Y, W, v, S, T)
  <2>1. T \in SUBSET Existentials /\ S \in SUBSET W[v]
    BY <1>3, <1>4
  <2>2. Exchanged(Exchange(W, v, S, T), W, v, S, T)
    BY <1>2, <1>3, <1>5, <1>6, <2>1, ExchangeOrder
  <2> QED BY <2>2
<1>9. /\ Y \in [Existentials -> SUBSET Variables] /\ IsOrder(Y)
      /\ Y[v] \subseteq W[v] /\ S \subseteq Y[v]
      /\ \A e \in Existentials \ {v} : Y[e] = IF e \in T THEN X[e] \cup {v} ELSE X[e]
  BY <1>3, <1>8 DEF Exchanged
<1>10. /\ Computed' = Computed \cup {v} /\ DOMAIN ext' = DOMAIN ext \ {v}
       /\ Known' = Known \cup {v} /\ prefix' = prefix
       /\ \A c \in Computed : supports'[c] = supports[c]
       /\ supports'[v] = S
       /\ \A w \in DOMAIN ext' :
             Merged'[w] = IF S \subseteq Merged[w] THEN Merged[w] \cup {v} ELSE Merged[w]
  BY ScheduleEffect
<1>11. \A e \in Existentials : Y[e] \cap Universals \subseteq prefix'[e]
  BY <1>1, <1>2, <1>3, <1>9, <1>10, PrefixAssumption
<1>12. ASSUME NEW e \in DOMAIN ext' PROVE Y[e] = Merged'[e]
  <2>1. e \in DOMAIN ext /\ e # v /\ e \in Known /\ e \in Existentials
    BY <1>10, <1>12, KnownExistential DEF Known
  <2>2. W[e] = X[e] /\ X[e] = Merged[e]
    BY <1>1, <1>3, <2>1
  <2>3. e \in T <=> S \subseteq Merged[e]
    BY <1>6, <1>7, <2>1, <2>2
  <2> QED BY <1>9, <1>10, <1>12, <2>1, <2>2, <2>3
<1>13. \A c \in Computed' : supports'[c] \subseteq Y[c]
  BY <1>1, <1>9, <1>10, KnownExistential
<1>14. \A e \in Existentials \ Known' : Y[e] = {}
  BY <1>1, <1>6, <1>9, <1>10
<1>15. \A e \in Existentials : Y[e] \cap Existentials \subseteq Known'
  BY <1>1, <1>3, <1>9, <1>10
<1>16. Certifies(Y, Merged)'
  BY <1>9, <1>11, <1>12, <1>13 DEF Certifies, IsOrder
<1>17. LibraryCertifies(Y)'
  BY <1>14, <1>15, <1>16 DEF LibraryCertifies
<1> QED BY <1>17

--------------------------------------------------------------------------------
(***************************************************************************)
(* The steps of the constructor.                                           *)
(***************************************************************************)

\* Where no lookup failed, the given definition reads known variables only.
LEMMA GivenReadsKnown ==
    ASSUME LibraryTypeOK, LibraryShape, NEW v \in unprocessed, GivenDefinition(v),
           ~LookupFails(v)
    PROVE  NewDefinition(v, given[v]) /\ v \notin Known
<1> DEFINE S == given[v]
<1>1. /\ v \in DOMAIN given /\ given \in GivenSets /\ v \in Block /\ v \in Existentials
      /\ S \subseteq Variables /\ Acyclic(given)
  BY GivenAssumption DEF LibraryTypeOK
<1>2. v \notin Computed /\ v \notin DOMAIN ext /\ v \notin Known
  BY <1>1 DEF LibraryShape, Known
<1>3. v \notin S
  <2>1. {v} \in SUBSET DOMAIN given /\ {v} # {}
    BY <1>1
  <2>2. \E w \in {v} : given[w] \cap {v} = {}
    BY <1>1, <2>1 DEF Acyclic
  <2> QED BY <2>2
<1>4. scheduleUpdate(v, S) /\ undefined' = DOMAIN ext \ {v}
  BY DEF GivenDefinition, LibraryShape
<1>5. Computed' = Computed \cup {v} /\ DOMAIN ext' = DOMAIN ext \ {v} /\ supports'[v] = S
  BY <1>2, <1>4 DEF scheduleUpdate, Computed
<1>6. S \cap Existentials \subseteq Known
  <2>1. CASE S = {}
    BY <2>1
  <2>2. CASE S # {}
    <3>1. Queryable(v)'
      BY <2>2 DEF LookupFails
    <3>2. v \in Reach(v)'
      BY <1>5 DEF Reach
    <3>3. S \subseteq ReadBy(v)'
      BY <1>5, <3>2 DEF ReadBy
    <3>4. S \cap Existentials \subseteq Computed' \cup DOMAIN ext'
      BY <1>5, <3>1, <3>3 DEF Queryable
    <3> QED BY <1>3, <1>5, <3>4 DEF Known
  <2> QED BY <2>1, <2>2
<1> HIDE DEF S
<1>7. NewDefinition(v, S)
  BY <1>1, <1>2, <1>3, <1>4, <1>6 DEF NewDefinition
<1> QED BY <1>2, <1>7 DEF S

\* A definition processed earlier does not read the new variable, so what is
\* usable stays usable.
LEMMA GivenStaysUsable ==
    ASSUME LibraryTypeOK, LibraryShape, KnownClosed, ProcessedAreUsable,
           NEW v, NEW S, NewDefinition(v, S), v \notin Known, phase = "given"
    PROVE  ProcessedAreUsable'
<1>1. /\ Computed' = Computed \cup {v} /\ DOMAIN ext' = DOMAIN ext \ {v}
      /\ \A c \in Computed : supports'[c] = supports[c]
      /\ supports'[v] = S
      /\ \A w \in DOMAIN ext' :
            Merged'[w] = IF S \subseteq Merged[w] THEN Merged[w] \cup {v} ELSE Merged[w]
  BY ScheduleEffect
<1>2. v \in Existentials /\ v \notin S
  BY DEF NewDefinition
<1>3. \A c \in Computed : v \notin supports[c]
  BY <1>2 DEF KnownClosed
<1>4. \A c \in Computed, w \in DOMAIN ext : supports[c] \subseteq Merged[w] => c \in Merged[w]
  BY DEF ProcessedAreUsable
<1>5. ASSUME NEW c \in Computed', NEW w \in DOMAIN ext', supports'[c] \subseteq Merged'[w]
      PROVE  c \in Merged'[w]
  <2>1. w \in DOMAIN ext
    BY <1>1
  <2>2. Merged'[w] = IF S \subseteq Merged[w] THEN Merged[w] \cup {v} ELSE Merged[w]
    BY <1>1, <1>5
  <2>3. CASE c = v
    <3>1. S \subseteq Merged'[w]
      BY <1>1, <1>5, <2>3
    <3>2. S \subseteq Merged[w]
      BY <1>2, <2>2, <3>1
    <3> QED BY <2>2, <2>3, <3>2
  <2>4. CASE c # v
    <3>1. c \in Computed /\ supports[c] \subseteq Merged'[w] /\ v \notin supports[c]
      BY <1>1, <1>3, <1>5, <2>4
    <3>2. supports[c] \subseteq Merged[w]
      BY <2>2, <3>1
    <3>3. c \in Merged[w]
      BY <1>4, <2>1, <3>1, <3>2
    <3> QED BY <2>2, <3>3
  <2> QED BY <2>3, <2>4
<1> QED BY <1>5 DEF ProcessedAreUsable

LEMMA GivenStep ==
    ASSUME LibraryInv, NEW v \in unprocessed, GivenDefinition(v)
    PROVE  LibraryInv'
<1>1. phase = "given" /\ LibraryTypeOK /\ LibraryShape /\ KnownClosed /\ ProcessedAreUsable
  BY DEF GivenDefinition, LibraryInv
<1>2. CASE LookupFails(v)
  BY <1>2 DEF GivenDefinition, LibraryInv
<1>3. CASE ~LookupFails(v)
  <2>1. NewDefinition(v, given[v]) /\ v \notin Known
    BY <1>1, <1>3, GivenReadsKnown
  <2>2. /\ Computed' = Computed \cup {v} /\ DOMAIN ext' = DOMAIN ext \ {v} /\ prefix' = prefix
        /\ \A c \in Computed : supports'[c] = supports[c]
        /\ supports'[v] = given[v]
    BY <1>1, <2>1, ScheduleEffect
  <2>3. /\ phase' = phase /\ given' = given /\ config' = config
        /\ unprocessed' = unprocessed \ {v} /\ undefined' = undefined \ {v}
        /\ innermost' = innermost \cup {v} /\ UNCHANGED passVars
    BY <1>3 DEF GivenDefinition, addInnermostExistential
  <2>4. v \in Existentials /\ v \in Block /\ v \in DOMAIN given
    BY <1>1, GivenAssumption DEF LibraryTypeOK
  <2>5. LibraryTypeOK'
    <3>1. innermost' \subseteq Existentials
      BY <1>1, <2>3, <2>4 DEF LibraryTypeOK, ContainerTypeOK
    <3>2. ContainerTypeOK'
      BY <1>1, <2>1, <3>1, ScheduleTyped
    <3> QED BY <1>1, <2>2, <2>3, <3>2 DEF LibraryTypeOK
  <2>6. LibraryShape'
    BY <1>1, <2>1, <2>2, <2>3, <2>4 DEF LibraryShape, passVars, Known
  <2>7. KnownClosed'
    BY <1>1, <2>1, ScheduleClosed
  <2>8. ProcessedAreUsable'
    BY <1>1, <2>1, GivenStaysUsable
  <2>9. \E X : LibraryCertifies(X)
    BY <1>1 DEF LibraryInv
  <2>10. (\E X : LibraryCertifies(X))'
    BY <1>1, <2>1, <2>9, ScheduleCertificate
  <2> QED BY <2>5, <2>6, <2>7, <2>8, <2>10 DEF LibraryInv
<1> QED BY <1>2, <1>3

\* Merging what is scheduled changes nothing for those who look at both.
LEMMA UpdateKeeps ==
    ASSUME LibraryTypeOK, KnownClosed, performUpdate, undefined' = undefined
    PROVE  /\ ContainerTypeOK' /\ KnownClosed' /\ Merged' = Merged
           /\ Computed' = Computed /\ DOMAIN ext' = DOMAIN ext /\ Known' = Known
           /\ prefix' = prefix /\ supports' = supports
           /\ \A w \in Existentials : toUpdate'[w] = {}
<1> USE DEF performUpdate
<1>1. /\ Computed' = Computed /\ DOMAIN ext' = DOMAIN ext /\ prefix' = prefix
      /\ supports' = supports /\ \A w \in Existentials : toUpdate'[w] = {}
  BY DEF Computed
<1>2. Known' = Known
  BY <1>1 DEF Known
<1>3. \A w \in DOMAIN ext : ext'[w] = ext[w] \cup toUpdate[w] /\ w \in Existentials
  BY KnownExistential
<1>4. Merged' = Merged
  <2>1. Merged' = [w \in DOMAIN ext |-> ext'[w] \cup toUpdate'[w]]
    BY <1>1 DEF Merged
  <2>2. \A w \in DOMAIN ext : ext'[w] \cup toUpdate'[w] = ext[w] \cup toUpdate[w]
    BY <1>1, <1>3
  <2> QED BY <2>1, <2>2 DEF Merged
<1>5. ContainerTypeOK'
  <2>1. ext' \in [DOMAIN ext' -> SUBSET Variables] /\ DOMAIN ext' \subseteq Existentials
    BY <1>1, <1>3 DEF LibraryTypeOK, ContainerTypeOK, Variables
  <2> QED BY <1>1, <2>1 DEF LibraryTypeOK, ContainerTypeOK
<1>6. KnownClosed'
  BY <1>1, <1>2, <1>3 DEF KnownClosed, Known
<1> QED BY <1>1, <1>2, <1>4, <1>5, <1>6

\* A certificate says nothing of the state but the maps.
LEMMA CertificateKept ==
    ASSUME NEW X, LibraryCertifies(X), Merged' = Merged, Known' = Known,
           DOMAIN ext' = DOMAIN ext, prefix' = prefix, supports' = supports
    PROVE  LibraryCertifies(X)'
<1>1. Computed' = Computed
  BY DEF Computed
<1> QED BY <1>1 DEF LibraryCertifies, Certifies, IsOrder

LEMMA EndGivenStep ==
    ASSUME LibraryInv, EndGiven
    PROVE  LibraryInv'
<1>1. /\ phase = "given" /\ LibraryTypeOK /\ LibraryShape /\ KnownClosed /\ ProcessedAreUsable
      /\ \E X : LibraryCertifies(X)
  BY DEF EndGiven, LibraryInv
<1>2. /\ performUpdate /\ phase' = "innermost" /\ unprocessed = {}
      /\ UNCHANGED <<config, undefined, queue, newQueue, given, unprocessed>>
  BY DEF EndGiven, passVars
<1>3. /\ ContainerTypeOK' /\ KnownClosed' /\ Merged' = Merged
      /\ Computed' = Computed /\ DOMAIN ext' = DOMAIN ext /\ Known' = Known
      /\ prefix' = prefix /\ supports' = supports
      /\ \A w \in Existentials : toUpdate'[w] = {}
  BY <1>1, <1>2, UpdateKeeps
<1>4. LibraryTypeOK'
  BY <1>1, <1>2, <1>3 DEF LibraryTypeOK
<1>5. LibraryShape'
  BY <1>1, <1>2, <1>3 DEF LibraryShape
<1>6. ProcessedAreUsable'
  BY <1>1, <1>3 DEF ProcessedAreUsable
<1>7. (\E X : LibraryCertifies(X))'
  <2>1. PICK X : LibraryCertifies(X)
    BY <1>1
  <2>2. LibraryCertifies(X)'
    BY <1>3, <2>1, CertificateKept
  <2> QED BY <2>2
<1> QED BY <1>3, <1>4, <1>5, <1>6, <1>7 DEF LibraryInv

\* No variable of the block is undefined, so the loop has nothing to process.
LEMMA InnermostStep ==
    ASSUME LibraryInv, ProcessInnermost
    PROVE  LibraryInv'
<1>1. /\ phase = "innermost" /\ LibraryTypeOK /\ LibraryShape /\ KnownClosed
      /\ \E X : LibraryCertifies(X)
  BY DEF ProcessInnermost, LibraryInv
<1>2. ToProcess = {}
  BY <1>1 DEF LibraryShape, ToProcess
<1>3. /\ phase' = "start" /\ undefined' = undefined /\ innermost' = innermost
      /\ UNCHANGED <<config, prefix, dependencies, supports, toUpdate, queue, newQueue,
                     given, unprocessed>>
  BY <1>2 DEF ProcessInnermost, passVars
<1>4. ext' = ext
  <2>1. ext' = [w \in DOMAIN ext |-> ext[w]]
    BY <1>2 DEF ProcessInnermost
  <2>2. ext = [w \in DOMAIN ext |-> ext[w]]
    BY <1>1 DEF LibraryTypeOK, ContainerTypeOK
  <2> QED BY <2>1, <2>2
<1>5. Computed' = Computed /\ Known' = Known /\ Merged' = Merged
  BY <1>3, <1>4 DEF Computed, Known, Merged
<1>6. LibraryTypeOK' /\ KnownClosed'
  BY <1>1, <1>3, <1>4, <1>5 DEF LibraryTypeOK, ContainerTypeOK, KnownClosed
<1>7. LibraryShape'
  BY <1>1, <1>3, <1>4, <1>5 DEF LibraryShape
<1>8. ProcessedAreUsable'
  BY <1>3 DEF ProcessedAreUsable
<1>9. (\E X : LibraryCertifies(X))'
  <2>1. PICK X : LibraryCertifies(X)
    BY <1>1
  <2>2. LibraryCertifies(X)'
    BY <1>3, <1>4, <1>5, <2>1, CertificateKept
  <2> QED BY <2>2
<1> QED BY <1>6, <1>7, <1>8, <1>9 DEF LibraryInv

--------------------------------------------------------------------------------
(***************************************************************************)
(* The steps of the search for definitions.                                *)
(***************************************************************************)

\* The steps that leave the maps of the container alone.
LEMMA MapsKept ==
    ASSUME LibraryInv, phase \notin {"thrown", "given", "innermost"},
           UNCHANGED <<config, prefix, dependencies, ext, supports, toUpdate, innermost,
                       given, unprocessed>>,
           phase' \notin {"thrown", "given", "innermost"}, LibraryShape',
           undefined' \subseteq undefined
    PROVE  LibraryInv'
<1>1. /\ LibraryTypeOK /\ LibraryShape /\ KnownClosed /\ \E X : LibraryCertifies(X)
  BY DEF LibraryInv
<1>2. Computed' = Computed /\ Known' = Known /\ Merged' = Merged
  BY DEF Computed, Known, Merged
<1>3. LibraryTypeOK' /\ KnownClosed'
  BY <1>1, <1>2 DEF LibraryTypeOK, ContainerTypeOK, KnownClosed
<1>4. ProcessedAreUsable'
  BY DEF ProcessedAreUsable
<1>5. (\E X : LibraryCertifies(X))'
  <2>1. PICK X : LibraryCertifies(X)
    BY <1>1
  <2>2. LibraryCertifies(X)'
    BY <1>2, <2>1, CertificateKept
  <2> QED BY <2>2
<1> QED BY <1>3, <1>4, <1>5 DEF LibraryInv

LEMMA SearchStart ==
    ASSUME LibraryInv, UNCHANGED <<given, unprocessed>>,
           BeginRound \/ SkipRounds \/ SkipUnates
    PROVE  LibraryInv'
<1>1. phase \in {"start", "checked"} /\ phase' \in {"checking", "checked", "ready"}
      /\ UNCHANGED <<config, containerVars>>
  BY DEF BeginRound, SkipRounds, SkipUnates
<1>2. LibraryShape
  BY <1>1 DEF LibraryInv
<1>3. LibraryShape'
  <2>1. Computed' = Computed /\ undefined' = undefined /\ ext' = ext /\ supports' = supports
        /\ toUpdate' = toUpdate
    BY <1>1 DEF Computed, containerVars
  <2>2. CASE BeginRound
    BY <1>1, <1>2, <2>1, <2>2 DEF LibraryShape, BeginRound
  <2>3. CASE SkipRounds \/ SkipUnates
    <3>1. newQueue' = newQueue /\ phase' \in {"checked", "ready"}
      BY <1>1, <2>3 DEF SkipRounds, SkipUnates, passVars
    <3>2. phase' = "ready" \/ phase # "ready"
      BY <1>1
    <3> QED BY <1>1, <1>2, <2>1, <3>1, <3>2 DEF LibraryShape
  <2> QED BY <2>2, <2>3
<1> QED BY <1>1, <1>3, MapsKept DEF containerVars

LEMMA SearchWithout ==
    ASSUME LibraryInv, UNCHANGED <<given, unprocessed>>,
           \/ \E v \in queue : NotDefined(v)
           \/ \E X \in SUBSET undefined : CheckUnates(X)
    PROVE  LibraryInv'
<1>1. ASSUME NEW v \in queue, NotDefined(v) PROVE LibraryInv'
  <2>1. /\ phase = "checking" /\ phase' = phase /\ newQueue' = newQueue
        /\ UNCHANGED <<config, containerVars>> /\ queue' \subseteq queue
    BY <1>1 DEF NotDefined, NextInQueue
  <2>2. LibraryShape /\ Computed' = Computed
    BY <2>1 DEF LibraryInv, Computed, containerVars
  <2>3. LibraryShape'
    BY <2>1, <2>2 DEF LibraryShape, containerVars
  <2> QED BY <2>1, <2>3, MapsKept DEF containerVars
<1>2. ASSUME NEW X \in SUBSET undefined, CheckUnates(X) PROVE LibraryInv'
  <2>1. /\ phase = "checked" /\ phase' = "ready" /\ undefined' \subseteq undefined
        /\ newQueue' = newQueue
        /\ UNCHANGED <<config, prefix, dependencies, ext, supports, toUpdate, innermost>>
    BY <1>2 DEF CheckUnates, passVars
  <2>2. LibraryShape /\ Computed' = Computed
    BY <2>1 DEF LibraryInv, Computed
  <2>3. LibraryShape'
    BY <2>1, <2>2 DEF LibraryShape
  <2> QED BY <2>1, <2>3, MapsKept
<1> QED BY <1>1, <1>2

LEMMA SearchDefined ==
    ASSUME LibraryInv, UNCHANGED <<given, unprocessed>>,
           NEW v \in queue, NEW S \in SUBSET ED(v), Defined(v, S)
    PROVE  LibraryInv'
<1>1. /\ phase = "checking" /\ phase' = phase /\ config' = config /\ innermost' = innermost
      /\ undefined' = undefined \ {v} /\ queue' = queue \ {v}
  BY DEF Defined, NextInQueue
<1>2. /\ LibraryTypeOK /\ LibraryShape /\ KnownClosed
  BY <1>1 DEF LibraryInv
<1>3. PICK X : LibraryCertifies(X)
  BY <1>1 DEF LibraryInv
<1>4. /\ v \in undefined /\ v \in DOMAIN ext /\ v \in Existentials \ Computed /\ v \notin Block
  BY <1>1, <1>2, KnownExistential DEF LibraryShape
<1>5. S \subseteq ext[v] /\ S \subseteq Variables
  <2>1. ED(v) = ext[v]
    BY <1>4 DEF ED
  <2> QED BY <1>2, <1>4, <2>1 DEF LibraryTypeOK, ContainerTypeOK
<1>6. CASE config["dynamic_dependencies"]
  <2>1. scheduleUpdate(v, S) /\ newQueue' = (newQueue \ {v}) \cup Gaining(S)
    BY <1>6 DEF Defined, Requeue
  <2>2. undefined = DOMAIN ext
    BY <1>1, <1>2, <1>6 DEF LibraryShape
  <2>3. v \notin S
    <3>1. v \notin X[v] /\ X[v] = Merged[v]
      BY <1>3, <1>4 DEF LibraryCertifies, Certifies, IsOrder
    <3> QED BY <1>2, <1>4, <1>5, <3>1, MergedTyped
  <2>4. NewDefinition(v, S)
    BY <1>1, <1>2, <1>4, <1>5, <2>1, <2>2, <2>3 DEF NewDefinition, KnownClosed
  <2>5. /\ Computed' = Computed \cup {v} /\ DOMAIN ext' = DOMAIN ext \ {v} /\ prefix' = prefix
        /\ \A c \in Computed : supports'[c] = supports[c]
    BY <1>2, <2>4, ScheduleEffect
  <2>6. LibraryTypeOK'
    <3>1. ContainerTypeOK'
      BY <1>1, <1>2, <2>4, ScheduleTyped DEF LibraryTypeOK, ContainerTypeOK
    <3> QED BY <1>1, <1>2, <2>5, <3>1 DEF LibraryTypeOK
  <2>7. LibraryShape'
    BY <1>1, <1>2, <1>4, <1>6, <2>1, <2>2, <2>5 DEF LibraryShape, Gaining
  <2>8. KnownClosed'
    BY <1>2, <2>4, ScheduleClosed
  <2>9. ProcessedAreUsable'
    BY <1>1 DEF ProcessedAreUsable
  <2>10. (\E Y : LibraryCertifies(Y))'
    BY <1>2, <1>3, <2>4, ScheduleCertificate
  <2> QED BY <2>6, <2>7, <2>8, <2>9, <2>10 DEF LibraryInv
<1>7. CASE ~config["dynamic_dependencies"]
  <2>1. UNCHANGED <<prefix, dependencies, ext, supports, toUpdate, newQueue>>
    BY <1>7 DEF Defined
  <2>2. Computed' = Computed /\ newQueue = {}
    BY <1>2, <1>7, <2>1 DEF Computed, LibraryShape
  <2>3. LibraryShape'
    BY <1>1, <1>2, <1>7, <2>1, <2>2 DEF LibraryShape
  <2> QED BY <1>1, <2>1, <2>3, MapsKept
<1> QED BY <1>6, <1>7

LEMMA SearchMerged ==
    ASSUME LibraryInv, UNCHANGED <<given, unprocessed>>, EndIteration
    PROVE  LibraryInv'
<1>1. /\ phase = "checking" /\ phase' \in {"checking", "start", "checked"} /\ performUpdate
      /\ queue' = newQueue /\ newQueue' = {}
      /\ UNCHANGED <<config, undefined>>
  BY DEF EndIteration
<1>2. /\ LibraryTypeOK /\ LibraryShape /\ KnownClosed /\ \E X : LibraryCertifies(X)
  BY <1>1 DEF LibraryInv
<1>3. /\ ContainerTypeOK' /\ KnownClosed' /\ Merged' = Merged
      /\ Computed' = Computed /\ DOMAIN ext' = DOMAIN ext /\ Known' = Known
      /\ prefix' = prefix /\ supports' = supports
      /\ \A w \in Existentials : toUpdate'[w] = {}
  BY <1>1, <1>2, UpdateKeeps
<1>4. LibraryTypeOK'
  BY <1>1, <1>2, <1>3 DEF LibraryTypeOK
<1>5. LibraryShape'
  BY <1>1, <1>2, <1>3 DEF LibraryShape
<1>6. ProcessedAreUsable'
  BY <1>1 DEF ProcessedAreUsable
<1>7. (\E X : LibraryCertifies(X))'
  <2>1. PICK X : LibraryCertifies(X)
    BY <1>2
  <2>2. LibraryCertifies(X)'
    BY <1>3, <2>1, CertificateKept
  <2> QED BY <2>2
<1> QED BY <1>3, <1>4, <1>5, <1>6, <1>7 DEF LibraryInv

LEMMA LibraryStepInv == LibraryInv /\ [LibraryNext]_libraryVars => LibraryInv'
<1> SUFFICES ASSUME LibraryInv, [LibraryNext]_libraryVars PROVE LibraryInv'
  OBVIOUS
<1>1. ASSUME NEW v \in unprocessed, GivenDefinition(v) PROVE LibraryInv'
  BY <1>1, GivenStep
<1>2. CASE EndGiven
  BY <1>2, EndGivenStep
<1>3. CASE ProcessInnermost
  BY <1>3, InnermostStep
<1>4. ASSUME VectorStep, UNCHANGED <<given, unprocessed>> PROVE LibraryInv'
  <2>1. CASE BeginRound \/ SkipRounds \/ SkipUnates
    BY <1>4, <2>1, SearchStart
  <2>2. CASE (\E v \in queue : NotDefined(v)) \/ (\E X \in SUBSET undefined : CheckUnates(X))
    BY <1>4, <2>2, SearchWithout
  <2>3. ASSUME NEW v \in queue, NEW S \in SUBSET ED(v), Defined(v, S) PROVE LibraryInv'
    BY <1>4, <2>3, SearchDefined
  <2>4. CASE EndIteration
    BY <1>4, <2>4, SearchMerged
  <2> QED BY <1>4, <2>1, <2>2, <2>3, <2>4 DEF VectorStep
<1>5. CASE UNCHANGED libraryVars
  <2>1. /\ UNCHANGED <<config, prefix, undefined, dependencies, ext, supports, toUpdate>>
        /\ UNCHANGED <<innermost, phase, queue, newQueue, given, unprocessed>>
    BY <1>5 DEF libraryVars, vectorVars, setupVars, containerVars, passVars
  <2>2. Computed' = Computed /\ Known' = Known /\ Merged' = Merged
    BY <2>1 DEF Computed, Known, Merged
  <2>3. CASE phase = "thrown"
    BY <2>1, <2>3 DEF LibraryInv
  <2>4. CASE phase # "thrown"
    <3>1. LibraryTypeOK' /\ LibraryShape' /\ KnownClosed' /\ ProcessedAreUsable'
      BY <2>1, <2>2, <2>4
      DEF LibraryInv, LibraryTypeOK, ContainerTypeOK, LibraryShape, KnownClosed, ProcessedAreUsable
    <3>2. PICK X : LibraryCertifies(X)
      BY <2>4 DEF LibraryInv
    <3>3. LibraryCertifies(X)'
      BY <2>1, <2>2, <3>2, CertificateKept
    <3> QED BY <3>1, <3>3 DEF LibraryInv
  <2> QED BY <2>3, <2>4
<1> QED BY <1>2, <1>3, <1>4, <1>5, <1>1 DEF LibraryNext, LibraryStep

--------------------------------------------------------------------------------
(***************************************************************************)
(* The theorems.                                                           *)
(***************************************************************************)

\* The invariant holds whatever definitions are given and in whatever order the
\* map delivers them.
THEOREM LibraryInvariant == LibrarySpec => []LibraryInv
BY LibraryStart, LibraryStepInv, PTL DEF LibrarySpec

\* If no lookup failed while processGivenDefinitions ran, computeDynamicDependencies
\* finds every variable it meets in the rest of solve().
THEOREM NoLaterLookupFails == LibrarySpec => []DefinedAreQueryable
<1>1. LibraryInv => DefinedAreQueryable
  <2> SUFFICES ASSUME LibraryInv, Constructed, NEW v \in Computed PROVE Queryable(v)
    BY DEF DefinedAreQueryable
  <2>1. LibraryTypeOK /\ KnownClosed
    BY DEF LibraryInv, Constructed
  <2> QED BY <2>1, ReadByKnown DEF Queryable, Known
<1> QED BY <1>1, LibraryInvariant, PTL

\* When all given definitions are processed, whoever may read what one of them reads
\* may read the variable it defines, although the map has no order.
THEOREM GivenUsableInAnyOrder == LibrarySpec => []GivenAreUsable
<1>1. LibraryInv => GivenAreUsable
  <2> SUFFICES ASSUME LibraryInv, phase = "innermost",
                      NEW v \in DOMAIN given, NEW w \in undefined, given[v] \subseteq ED(w)
               PROVE  v \in ED(w)
    BY DEF GivenAreUsable
  <2>1. LibraryTypeOK /\ LibraryShape /\ ProcessedAreUsable
    BY DEF LibraryInv
  <2>2. v \in Computed /\ supports[v] = given[v]
    BY <2>1 DEF LibraryShape
  <2>3. w \in DOMAIN ext /\ w \in Existentials /\ w \notin Computed
    BY <2>1, KnownExistential DEF LibraryShape
  <2>4. Merged[w] = ext[w] /\ ED(w) = ext[w]
    BY <2>1, <2>3, MergedTyped DEF LibraryShape, ED
  <2> QED BY <2>1, <2>2, <2>3, <2>4 DEF ProcessedAreUsable
<1> QED BY <1>1, LibraryInvariant, PTL

\* The given definitions and those found later keep the dependencies an order and let
\* nobody read more universals than its prefix allows.
THEOREM GivenKeepOrder == LibrarySpec => []LibraryOrder
<1>1. LibraryInv => LibraryOrder
  <2> SUFFICES ASSUME LibraryInv, Constructed PROVE LibraryOrder
    BY DEF LibraryOrder
  <2>1. LibraryTypeOK /\ LibraryShape
    BY DEF LibraryInv, Constructed
  <2>2. PICK X : LibraryCertifies(X)
    BY DEF LibraryInv, Constructed
  <2>3. \A e \in Existentials : EffectiveED(e) \subseteq X[e]
    BY <2>1, <2>2, EffectiveBounded
  <2>4. \A e \in Existentials : \A d \in EffectiveED(e) \cap Existentials :
            EffectiveED(d) \subseteq EffectiveED(e)
    BY <2>1, <2>2, EffectiveClosed
  <2>5. \A e \in Existentials :
            /\ e \notin EffectiveED(e)
            /\ EffectiveED(e) \cap Universals \subseteq prefix[e]
    BY <2>2, <2>3 DEF LibraryCertifies, Certifies, IsOrder
  <2> QED BY <2>4, <2>5 DEF EffectiveOrder, LibraryOrder
<1> QED BY <1>1, LibraryInvariant, PTL

--------------------------------------------------------------------------------
(***************************************************************************)
(* The algorithms on ascending vectors.                                    *)
(***************************************************************************)
\* The elements of s from place i on.
From(s, i) == {s[q] : q \in i..Len(s)}

LEMMA TailFacts ==
    ASSUME NEW S, NEW s \in Seq(S), NEW i \in 1..(Len(s) + 1)
    PROVE  /\ tail(s, i) \in Seq(S) /\ Len(tail(s, i)) = Len(s) + 1 - i
           /\ \A q \in 1..(Len(s) + 1 - i) : tail(s, i)[q] = s[i + q - 1]
           /\ ToSet(tail(s, i)) = From(s, i)
<1> DEFINE l == tail(s, i)
           n == Len(s) + 1 - i
<1>1. Len(s) \in Nat /\ DOMAIN s = 1..Len(s) /\ i \in Nat /\ n \in Nat
  BY LenProperties
<1>2. l \in Seq(S) /\ Len(l) = n /\ \A q \in 1..n : l[q] = s[i + q - 1]
  BY <1>1, SubSeqProperties DEF tail
<1> HIDE DEF l
<1>3. DOMAIN l = 1..n
  BY <1>2, LenProperties
<1>4. ASSUME NEW q \in 1..n PROVE i + q - 1 \in i..Len(s)
  BY <1>1
<1>5. ASSUME NEW r \in i..Len(s) PROVE r - i + 1 \in 1..n /\ i + (r - i + 1) - 1 = r
  BY <1>1
<1> HIDE DEF n
<1>6. ToSet(l) = {l[q] : q \in 1..n}
  BY <1>3 DEF ToSet
<1>7. ToSet(l) \subseteq From(s, i)
  BY <1>2, <1>4, <1>6 DEF From
<1>8. From(s, i) \subseteq ToSet(l)
  <2>1. ASSUME NEW r \in i..Len(s) PROVE \E q \in 1..n : l[q] = s[r]
    <3>1. l[r - i + 1] = s[r]
      BY <1>2, <1>5
    <3> QED BY <1>5, <3>1
  <2> QED BY <1>6, <2>1 DEF From
<1> QED BY <1>2, <1>7, <1>8 DEF l, n

LEMMA FromFacts ==
    ASSUME NEW s \in Seq(Nat), Increasing(s), NEW i \in 1..(Len(s) + 1)
    PROVE  /\ From(s, i) \in SUBSET Nat /\ IsFiniteSet(From(s, i))
           /\ i > Len(s) => From(s, i) = {}
           /\ i <= Len(s) =>
                 /\ s[i] \in Nat
                 /\ From(s, i) = {s[i]} \cup From(s, i + 1)
                 /\ \A x \in From(s, i + 1) : s[i] < x
           /\ tail(s, i) = increasing(From(s, i))
           /\ From(s, 1) = ToSet(s)
<1>1. Len(s) \in Nat /\ DOMAIN s = 1..Len(s) /\ i \in Nat /\ \A q \in 1..Len(s) : s[q] \in Nat
  BY LenProperties, ElementOfSeq
<1>2. /\ tail(s, i) \in Seq(Nat) /\ Len(tail(s, i)) = Len(s) + 1 - i
      /\ \A q \in 1..(Len(s) + 1 - i) : tail(s, i)[q] = s[i + q - 1]
      /\ ToSet(tail(s, i)) = From(s, i)
  BY TailFacts
<1>3. Increasing(tail(s, i))
  <2> DEFINE l == tail(s, i)
  <2>1. DOMAIN l = 1..(Len(s) + 1 - i)
    BY <1>2, LenProperties
  <2> HIDE DEF l
  <2>2. ASSUME NEW p \in 1..(Len(s) + 1 - i), NEW q \in 1..(Len(s) + 1 - i), p < q
        PROVE  s[i + p - 1] < s[i + q - 1]
    <3>1. i + p - 1 \in DOMAIN s /\ i + q - 1 \in DOMAIN s /\ i + p - 1 < i + q - 1
      BY <1>1, <2>2
    <3> QED BY <3>1 DEF Increasing
  <2>3. \A q \in 1..(Len(s) + 1 - i) : l[q] = s[i + q - 1]
    BY <1>2 DEF l
  <2>4. Increasing(l)
    BY <2>1, <2>2, <2>3 DEF Increasing
  <2> QED BY <2>4 DEF l
<1>4. From(s, i) \in SUBSET Nat /\ IsFiniteSet(From(s, i)) /\ tail(s, i) = increasing(From(s, i))
  BY <1>2, <1>3, IncreasingUnique
<1>5. i > Len(s) => From(s, i) = {}
  BY <1>1 DEF From
<1>6. ASSUME i <= Len(s)
      PROVE  /\ s[i] \in Nat
             /\ From(s, i) = {s[i]} \cup From(s, i + 1)
             /\ \A x \in From(s, i + 1) : s[i] < x
  <2>1. i \in 1..Len(s) /\ i..Len(s) = {i} \cup (i + 1)..Len(s)
    BY <1>1, <1>6
  <2>2. ASSUME NEW q \in (i + 1)..Len(s) PROVE s[i] < s[q]
    <3>1. q \in DOMAIN s /\ i \in DOMAIN s /\ i < q
      BY <1>1, <2>1
    <3> QED BY <3>1 DEF Increasing
  <2>3. From(s, i) = {s[i]} \cup From(s, i + 1)
    BY <2>1 DEF From
  <2> QED BY <1>1, <2>1, <2>2, <2>3 DEF From
<1>7. From(s, 1) = ToSet(s)
  BY <1>1 DEF From, ToSet
<1> QED BY <1>4, <1>5, <1>6, <1>7

\* A smaller number in front of an ascending vector.
LEMMA SmallestFirst ==
    ASSUME NEW A \in SUBSET Nat, IsFiniteSet(A), NEW x \in Nat, \A y \in A : x < y
    PROVE  <<x>> \o increasing(A) = increasing({x} \cup A)
<1> DEFINE l == increasing(A)
           m == <<x>> \o l
           n == Len(l)
<1>1. l \in Seq(Nat) /\ Increasing(l) /\ ToSet(l) = A
  <2>1. l \in Seq(A) /\ Increasing(l) /\ ToSet(l) = A
    BY IncreasingFacts
  <2> QED BY <2>1, SeqMonotonic
<1> HIDE DEF l
<1>2. n \in Nat /\ DOMAIN l = 1..n /\ \A q \in 1..n : l[q] \in A /\ l[q] \in Nat
  BY <1>1, ListFacts
<1>3. <<x>> \in Seq(Nat) /\ Len(<<x>>) = 1 /\ <<x>>[1] = x
  OBVIOUS
<1>4. /\ m \in Seq(Nat) /\ Len(m) = n + 1
      /\ \A q \in 1..(n + 1) : m[q] = IF q <= 1 THEN <<x>>[q] ELSE l[q - 1]
  BY <1>1, <1>3, ConcatProperties
<1> HIDE DEF m, n
<1>5. DOMAIN m = 1..(n + 1) /\ m[1] = x /\ \A q \in 1..n : q + 1 \in 1..(n + 1) /\ m[q + 1] = l[q]
  <2>1. DOMAIN m = 1..(n + 1)
    BY <1>4, LenProperties
  <2>2. m[1] = x
    BY <1>2, <1>3, <1>4
  <2>3. ASSUME NEW q \in 1..n PROVE q + 1 \in 1..(n + 1) /\ m[q + 1] = l[q]
    <3>1. q + 1 \in 1..(n + 1) /\ ~(q + 1 <= 1) /\ (q + 1) - 1 = q
      BY <1>2
    <3> QED BY <1>4, <3>1
  <2> QED BY <2>1, <2>2, <2>3
<1>6. \A p \in 1..(n + 1) : p = 1 \/ (p - 1 \in 1..n /\ m[p] = l[p - 1])
  <2>1. ASSUME NEW p \in 1..(n + 1), p # 1 PROVE p - 1 \in 1..n /\ (p - 1) + 1 = p
    BY <1>2, <2>1
  <2>2. ASSUME NEW p \in 1..(n + 1), p # 1 PROVE m[p] = l[p - 1]
    BY <1>5, <2>1, <2>2
  <2> QED BY <2>1, <2>2
<1>7. ToSet(m) = {x} \cup A
  <2>1. ToSet(m) \subseteq {x} \cup A
    <3>1. \A p \in 1..(n + 1) : m[p] \in {x} \cup A
      BY <1>2, <1>5, <1>6
    <3> QED BY <1>5, <3>1 DEF ToSet
  <2>2. x \in ToSet(m)
    BY <1>2, <1>5 DEF ToSet
  <2>3. A \subseteq ToSet(m)
    BY <1>1, <1>2, <1>5 DEF ToSet
  <2> QED BY <2>1, <2>2, <2>3
<1>8. Increasing(m)
  <2>1. ASSUME NEW p \in 1..(n + 1), NEW q \in 1..(n + 1), p < q PROVE m[p] < m[q]
    <3>1. q # 1 /\ p \in Nat /\ q \in Nat /\ 1 <= p
      BY <1>2, <2>1
    <3>2. q - 1 \in 1..n /\ m[q] = l[q - 1]
      BY <1>6, <3>1
    <3>3. CASE p = 1
      BY <1>2, <1>5, <3>2, <3>3
    <3>4. CASE p # 1
      <4>1. p - 1 \in 1..n /\ m[p] = l[p - 1] /\ p - 1 < q - 1
        BY <1>6, <2>1, <3>1, <3>4
      <4> QED BY <1>1, <1>2, <3>2, <4>1 DEF Increasing
    <3> QED BY <3>3, <3>4
  <2> QED BY <1>5, <2>1 DEF Increasing
<1>9. m = increasing({x} \cup A)
  BY <1>4, <1>7, <1>8, IncreasingUnique
<1> QED BY <1>9 DEF m, l

\* Merging two ascending vectors lists all their elements in order.
LEMMA MergeFacts ==
    ASSUME NEW s \in Seq(Nat), NEW t \in Seq(Nat), Increasing(s), Increasing(t)
    PROVE  updateVectorMap(s, t) = increasing(ToSet(s) \cup ToSet(t))
<1> DEFINE P == (1..Len(s) + 1) \X (1..Len(t) + 1)
           F == [p \in P |-> increasing(From(s, p[1]) \cup From(t, p[2]))]
           turn(f, p) ==
               IF p[1] > Len(s) \/ p[2] > Len(t)
               THEN tail(s, p[1]) \o (IF TRUE THEN tail(t, p[2]) ELSE <<>>)
               ELSE IF s[p[1]] = t[p[2]] THEN <<s[p[1]]>> \o f[<<p[1] + 1, p[2] + 1>>]
               ELSE IF s[p[1]] < t[p[2]] THEN <<s[p[1]]>> \o f[<<p[1] + 1, p[2]>>]
               ELSE <<t[p[2]]>> \o f[<<p[1], p[2] + 1>>]
           from == CHOOSE f : f = [p \in P |-> turn(f, p)]
           measure == [p \in P |-> (Len(s) + 1 - p[1]) + (Len(t) + 1 - p[2])]
<1>1. Len(s) \in Nat /\ Len(t) \in Nat
  BY LenProperties
<1>2. ASSUME NEW p \in P
      PROVE  /\ p[1] \in 1..(Len(s) + 1) /\ p[2] \in 1..(Len(t) + 1)
             /\ p[1] <= Len(s) /\ p[2] <= Len(t) =>
                   <<p[1] + 1, p[2] + 1>> \in P /\ <<p[1] + 1, p[2]>> \in P /\ <<p[1], p[2] + 1>> \in P
  <2>1. p[1] \in 1..(Len(s) + 1) /\ p[2] \in 1..(Len(t) + 1)
    OBVIOUS
  <2>2. p[1] <= Len(s) => p[1] + 1 \in 1..(Len(s) + 1)
    BY <1>1, <2>1
  <2>3. p[2] <= Len(t) => p[2] + 1 \in 1..(Len(t) + 1)
    BY <1>1, <2>1
  <2> QED BY <2>1, <2>2, <2>3
<1>3. ASSUME NEW p \in P PROVE F[p] = turn(F, p)
  <2> DEFINE i == p[1]
             j == p[2]
             A == From(s, i)
             B == From(t, j)
             C == From(s, i + 1)
             D == From(t, j + 1)
  <2>1. i \in 1..(Len(s) + 1) /\ j \in 1..(Len(t) + 1) /\ F[p] = increasing(A \cup B)
    BY <1>2
  <2>2. /\ A \in SUBSET Nat /\ IsFiniteSet(A) /\ B \in SUBSET Nat /\ IsFiniteSet(B)
        /\ tail(s, i) = increasing(A) /\ tail(t, j) = increasing(B)
        /\ tail(s, i) \in Seq(Nat) /\ Len(tail(s, i)) = Len(s) + 1 - i
        /\ tail(t, j) \in Seq(Nat) /\ Len(tail(t, j)) = Len(t) + 1 - j
    <3> HIDE DEF i, j
    <3>1. A \in SUBSET Nat /\ IsFiniteSet(A) /\ tail(s, i) = increasing(A)
      BY <2>1, FromFacts
    <3>2. B \in SUBSET Nat /\ IsFiniteSet(B) /\ tail(t, j) = increasing(B)
      BY <2>1, FromFacts
    <3>3. tail(s, i) \in Seq(Nat) /\ Len(tail(s, i)) = Len(s) + 1 - i
      BY <2>1, TailFacts
    <3>4. tail(t, j) \in Seq(Nat) /\ Len(tail(t, j)) = Len(t) + 1 - j
      BY <2>1, TailFacts
    <3> QED BY <3>1, <3>2, <3>3, <3>4
  <2>3. CASE i > Len(s)
    <3>1. A = {} /\ Len(tail(s, i)) = 0
      BY <1>1, <2>1, <2>2, <2>3, FromFacts
    <3>2. tail(s, i) = <<>>
      BY <2>2, <3>1, EmptySeq
    <3>3. turn(F, p) = <<>> \o tail(t, j)
      BY <2>3, <3>2
    <3>4. turn(F, p) = increasing(B)
      BY <2>2, <3>3, ConcatEmptySeq
    <3>5. A \cup B = B
      BY <3>1
    <3> QED BY <2>1, <3>4, <3>5
  <2>4. CASE ~(i > Len(s)) /\ j > Len(t)
    <3>1. B = {} /\ Len(tail(t, j)) = 0
      BY <1>1, <2>1, <2>2, <2>4, FromFacts
    <3>2. tail(t, j) = <<>>
      BY <2>2, <3>1, EmptySeq
    <3>3. turn(F, p) = tail(s, i) \o <<>>
      BY <2>4, <3>2
    <3>4. turn(F, p) = increasing(A)
      BY <2>2, <3>3, ConcatEmptySeq
    <3>5. A \cup B = A
      BY <3>1
    <3> QED BY <2>1, <3>4, <3>5
  <2>5. CASE i <= Len(s) /\ j <= Len(t)
    <3> DEFINE x == s[i]
               y == t[j]
    <3>1. /\ x \in Nat /\ A = {x} \cup C /\ \A z \in C : x < z
          /\ y \in Nat /\ B = {y} \cup D /\ \A z \in D : y < z
      BY <2>1, <2>5, FromFacts
    <3>2. /\ i + 1 \in 1..(Len(s) + 1) /\ j + 1 \in 1..(Len(t) + 1)
          /\ ~(i > Len(s)) /\ ~(j > Len(t))
          /\ <<i + 1, j + 1>> \in P /\ <<i + 1, j>> \in P /\ <<i, j + 1>> \in P
      <4>1. <<i + 1, j + 1>> \in P /\ <<i + 1, j>> \in P /\ <<i, j + 1>> \in P
        BY <1>2, <2>5
      <4> HIDE DEF i, j, P
      <4>2. /\ i + 1 \in 1..(Len(s) + 1) /\ j + 1 \in 1..(Len(t) + 1)
            /\ ~(i > Len(s)) /\ ~(j > Len(t))
        BY <1>1, <2>1, <2>5
      <4> QED BY <4>1, <4>2
    <3>3. /\ C \in SUBSET Nat /\ IsFiniteSet(C) /\ D \in SUBSET Nat /\ IsFiniteSet(D)
      <4> HIDE DEF i, j
      <4>1. C \in SUBSET Nat /\ IsFiniteSet(C)
        BY <3>2, FromFacts
      <4>2. D \in SUBSET Nat /\ IsFiniteSet(D)
        BY <3>2, FromFacts
      <4> QED BY <4>1, <4>2
    <3>4. /\ F[<<i + 1, j + 1>>] = increasing(C \cup D)
          /\ F[<<i + 1, j>>] = increasing(C \cup B)
          /\ F[<<i, j + 1>>] = increasing(A \cup D)
      BY <3>2
    <3>5. IsFiniteSet(C \cup D) /\ IsFiniteSet(C \cup B) /\ IsFiniteSet(A \cup D)
      BY <2>2, <3>3, FS_Union
    <3>6. turn(F, p) = IF x = y THEN <<x>> \o F[<<i + 1, j + 1>>]
                       ELSE IF x < y THEN <<x>> \o F[<<i + 1, j>>]
                       ELSE <<y>> \o F[<<i, j + 1>>]
      BY <3>2
    <3> HIDE DEF turn, F, x, y, A, B, C, D, i, j
    <3>7. CASE x = y
      <4>1. C \cup D \in SUBSET Nat /\ \A z \in C \cup D : x < z
        BY <3>1, <3>3, <3>7
      <4>2. <<x>> \o increasing(C \cup D) = increasing({x} \cup (C \cup D))
        BY <3>1, <3>5, <4>1, SmallestFirst
      <4>3. {x} \cup (C \cup D) = A \cup B
        BY <3>1, <3>7
      <4> QED BY <2>1, <3>4, <3>6, <3>7, <4>2, <4>3
    <3>8. CASE x # y /\ x < y
      <4>1. C \cup B \in SUBSET Nat /\ \A z \in C \cup B : x < z
        BY <2>2, <3>1, <3>3, <3>8
      <4>2. <<x>> \o increasing(C \cup B) = increasing({x} \cup (C \cup B))
        BY <3>1, <3>5, <4>1, SmallestFirst
      <4>3. {x} \cup (C \cup B) = A \cup B
        BY <3>1
      <4> QED BY <2>1, <3>4, <3>6, <3>8, <4>2, <4>3
    <3>9. CASE x # y /\ ~(x < y)
      <4>1. A \cup D \in SUBSET Nat /\ \A z \in A \cup D : y < z
        BY <2>2, <3>1, <3>3, <3>9
      <4>2. <<y>> \o increasing(A \cup D) = increasing({y} \cup (A \cup D))
        BY <3>1, <3>5, <4>1, SmallestFirst
      <4>3. {y} \cup (A \cup D) = A \cup B
        BY <3>1
      <4> QED BY <2>1, <3>4, <3>6, <3>9, <4>2, <4>3
    <3> QED BY <3>7, <3>8, <3>9
  <2> HIDE DEF F, turn
  <2>6. i \in Nat /\ j \in Nat
    BY <1>1, <2>1
  <2> QED BY <1>1, <2>3, <2>4, <2>5, <2>6
<1>4. F = [p \in P |-> turn(F, p)]
  <2>1. F = [p \in P |-> F[p]]
    OBVIOUS
  <2> HIDE DEF F, turn, P
  <2> QED BY <1>3, <2>1
<1>5. from = [p \in P |-> turn(from, p)]
  <2> HIDE DEF F, turn, P
  <2> QED BY <1>4
<1>6. measure \in [P -> Nat]
  BY <1>1, <1>2
<1>7. ASSUME NEW p \in P, \A q \in P : measure[q] < measure[p] => from[q] = F[q]
      PROVE  from[p] = F[p]
  <2>1. from[p] = turn(from, p)
    <3> HIDE DEF from, turn, P
    <3> QED BY <1>5
  <2>2. CASE p[1] > Len(s) \/ p[2] > Len(t)
    <3>1. turn(from, p) = turn(F, p)
      BY <2>2
    <3> HIDE DEF from, turn, P, F
    <3> QED BY <1>3, <2>1, <3>1
  <2>3. CASE p[1] <= Len(s) /\ p[2] <= Len(t)
    <3>1. <<p[1] + 1, p[2] + 1>> \in P /\ <<p[1] + 1, p[2]>> \in P /\ <<p[1], p[2] + 1>> \in P
          /\ p[1] \in 1..(Len(s) + 1) /\ p[2] \in 1..(Len(t) + 1)
      BY <1>2, <2>3
    <3>2. /\ measure[p] = (Len(s) + 1 - p[1]) + (Len(t) + 1 - p[2])
          /\ measure[<<p[1] + 1, p[2] + 1>>] = (Len(s) + 1 - (p[1] + 1)) + (Len(t) + 1 - (p[2] + 1))
          /\ measure[<<p[1] + 1, p[2]>>] = (Len(s) + 1 - (p[1] + 1)) + (Len(t) + 1 - p[2])
          /\ measure[<<p[1], p[2] + 1>>] = (Len(s) + 1 - p[1]) + (Len(t) + 1 - (p[2] + 1))
      BY <3>1
    <3> DEFINE a == p[1]
               b == p[2]
    <3>0. a \in Nat /\ b \in Nat /\ a <= Len(s) /\ b <= Len(t)
      BY <1>1, <2>3, <3>1
    <3> HIDE DEF from, P, F, measure, a, b
    <3>3. /\ measure[<<p[1] + 1, p[2] + 1>>] < measure[p]
          /\ measure[<<p[1] + 1, p[2]>>] < measure[p]
          /\ measure[<<p[1], p[2] + 1>>] < measure[p]
      <4>1. /\ measure[p] = (Len(s) + 1 - a) + (Len(t) + 1 - b)
            /\ measure[<<p[1] + 1, p[2] + 1>>] = (Len(s) + 1 - (a + 1)) + (Len(t) + 1 - (b + 1))
            /\ measure[<<p[1] + 1, p[2]>>] = (Len(s) + 1 - (a + 1)) + (Len(t) + 1 - b)
            /\ measure[<<p[1], p[2] + 1>>] = (Len(s) + 1 - a) + (Len(t) + 1 - (b + 1))
        BY <3>2 DEF a, b
      <4> QED BY <1>1, <3>0, <4>1
    <3>4. /\ from[<<p[1] + 1, p[2] + 1>>] = F[<<p[1] + 1, p[2] + 1>>]
          /\ from[<<p[1] + 1, p[2]>>] = F[<<p[1] + 1, p[2]>>]
          /\ from[<<p[1], p[2] + 1>>] = F[<<p[1], p[2] + 1>>]
      BY <1>7, <3>1, <3>3
    <3>5. turn(from, p) = turn(F, p)
      BY <3>4
    <3> HIDE DEF turn
    <3> QED BY <1>3, <2>1, <3>5
  <2>4. \/ p[1] > Len(s) \/ p[2] > Len(t)
        \/ p[1] <= Len(s) /\ p[2] <= Len(t)
    <3> DEFINE a == p[1]
               b == p[2]
    <3>1. a \in Nat /\ b \in Nat
      BY <1>1, <1>2
    <3> HIDE DEF a, b
    <3>2. a > Len(s) \/ b > Len(t) \/ (a <= Len(s) /\ b <= Len(t))
      BY <1>1, <3>1
    <3> QED BY <3>2 DEF a, b
  <2> HIDE DEF from, F, P
  <2> QED BY <2>2, <2>3, <2>4
<1>8. \A p \in P : from[p] = F[p]
  <2> HIDE DEF from, F, P, measure
  <2> DEFINE T == {p \in P : from[p] = F[p]}
  <2>1. \A p \in P : (\A q \in P : measure[q] < measure[p] => q \in T) => p \in T
    BY <1>7
  <2>2. \A p \in P : p \in T
    <3> HIDE DEF T, turn
    <3> QED BY <1>6, <2>1, MeasureInduction
  <2> QED BY <2>2
<1>9. updateVectorMap(s, t) = from[<<1, 1>>]
  BY DEF updateVectorMap, merging
<1>10. <<1, 1>> \in P /\ F[<<1, 1>>] = increasing(From(s, 1) \cup From(t, 1))
  BY <1>1
<1>11. From(s, 1) = ToSet(s) /\ From(t, 1) = ToSet(t)
  <2>1. 1 \in 1..(Len(s) + 1) /\ 1 \in 1..(Len(t) + 1)
    BY <1>1
  <2> QED BY <2>1, FromFacts
<1> HIDE DEF from, F, P
<1> QED BY <1>8, <1>9, <1>10, <1>11

\* The walk along two ascending vectors decides what their union says.
LEMMA WalkDecides ==
    ASSUME NEW s \in Seq(Nat), NEW t \in Seq(Nat), NEW support \in Seq(Nat),
           Increasing(s), Increasing(t), Increasing(support)
    PROVE  includedInBoth(s, t, support) <=> ToSet(support) \subseteq ToSet(s) \cup ToSet(t)
<1> DEFINE P == (1..Len(s) + 1) \X (1..Len(t) + 1) \X (1..Len(support) + 1)
           F == [p \in P |-> From(support, p[3]) \subseteq From(s, p[1]) \cup From(t, p[2])]
           next(p) == IF support[p[3]] \in {s[p[1]], t[p[2]]} THEN p[3] + 1 ELSE p[3]
           behind(p, x) == next(p) <= Len(support) /\ x < support[next(p)]
           after(p) == <<IF behind(p, s[p[1]]) THEN p[1] + 1 ELSE p[1],
                         IF behind(p, t[p[2]]) THEN p[2] + 1 ELSE p[2], next(p)>>
           turn(f, p) ==
               IF p[3] > Len(support) THEN TRUE
               ELSE IF p[1] > Len(s) THEN Includes(tail(t, p[2]), tail(support, p[3]))
               ELSE IF p[2] > Len(t) THEN Includes(tail(s, p[1]), tail(support, p[3]))
               ELSE /\ ~(support[p[3]] < s[p[1]] /\ support[p[3]] < t[p[2]])
                    /\ f[after(p)]
           walk == CHOOSE f : f = [p \in P |-> turn(f, p)]
           measure == [p \in P |-> (Len(s) + 1 - p[1]) + (Len(t) + 1 - p[2]) + (Len(support) + 1 - p[3])]
           Inside(p) == p[1] <= Len(s) /\ p[2] <= Len(t) /\ p[3] <= Len(support)
<1>1. Len(s) \in Nat /\ Len(t) \in Nat /\ Len(support) \in Nat
  BY LenProperties
<1>2. ASSUME NEW p \in P
      PROVE  p[1] \in 1..(Len(s) + 1) /\ p[2] \in 1..(Len(t) + 1) /\ p[3] \in 1..(Len(support) + 1)
  BY <1>1
<1>3. ASSUME NEW p \in P, Inside(p)
      PROVE  /\ after(p) \in P
             /\ ~(support[p[3]] < s[p[1]] /\ support[p[3]] < t[p[2]]) => measure[after(p)] < measure[p]
             /\ F[p] <=> /\ ~(support[p[3]] < s[p[1]] /\ support[p[3]] < t[p[2]])
                         /\ F[after(p)]
  <2> DEFINE i == p[1]
             j == p[2]
             k == p[3]
             x == s[i]
             y == t[j]
             z == support[k]
             n == next(p)
             a == IF behind(p, x) THEN i + 1 ELSE i
             b == IF behind(p, y) THEN j + 1 ELSE j
  <2>1. /\ i \in 1..Len(s) /\ j \in 1..Len(t) /\ k \in 1..Len(support)
        /\ i \in 1..(Len(s) + 1) /\ j \in 1..(Len(t) + 1) /\ k \in 1..(Len(support) + 1)
        /\ i + 1 \in 1..(Len(s) + 1) /\ j + 1 \in 1..(Len(t) + 1) /\ k + 1 \in 1..(Len(support) + 1)
    <3>1. /\ i \in 1..(Len(s) + 1) /\ j \in 1..(Len(t) + 1) /\ k \in 1..(Len(support) + 1)
          /\ i <= Len(s) /\ j <= Len(t) /\ k <= Len(support)
      BY <1>2, <1>3
    <3> HIDE DEF i, j, k
    <3> QED BY <1>1, <3>1
  <2>2. after(p) = <<a, b, n>> /\ n = IF z \in {x, y} THEN k + 1 ELSE k
    OBVIOUS
  <2>3. /\ a = IF n <= Len(support) /\ x < support[n] THEN i + 1 ELSE i
        /\ b = IF n <= Len(support) /\ y < support[n] THEN j + 1 ELSE j
    OBVIOUS
  <2>4. p = <<i, j, k>>
    OBVIOUS
  <2>5. F[p] <=> From(support, k) \subseteq From(s, i) \cup From(t, j)
    OBVIOUS
  <2> HIDE DEF after, i, j, k, n, a, b
  <2>6. a \in 1..(Len(s) + 1) /\ b \in 1..(Len(t) + 1) /\ n \in 1..(Len(support) + 1)
    BY <2>1, <2>2, <2>3
  <2>7. after(p) \in P
    <3>1. <<a, b, n>> \in P
      BY <2>6
    <3> QED BY <2>2, <3>1
  <2>8. F[after(p)] <=> From(support, n) \subseteq From(s, a) \cup From(t, b)
    <3>1. F[<<a, b, n>>] <=> From(support, n) \subseteq From(s, a) \cup From(t, b)
      BY <2>6
    <3> QED BY <2>2, <3>1
  <2>9. /\ measure[p] = (Len(s) + 1 - i) + (Len(t) + 1 - j) + (Len(support) + 1 - k)
        /\ measure[after(p)] = (Len(s) + 1 - a) + (Len(t) + 1 - b) + (Len(support) + 1 - n)
    <3>1. /\ measure[<<i, j, k>>] = (Len(s) + 1 - i) + (Len(t) + 1 - j) + (Len(support) + 1 - k)
          /\ measure[<<a, b, n>>] = (Len(s) + 1 - a) + (Len(t) + 1 - b) + (Len(support) + 1 - n)
      BY <2>1, <2>6
    <3> QED BY <2>2, <2>4, <3>1
  <2>10. i <= Len(s) /\ j <= Len(t) /\ k <= Len(support)
    BY <1>1, <2>1
  <2>11. /\ x \in Nat /\ From(s, i) = {x} \cup From(s, i + 1) /\ \A w \in From(s, i + 1) : x < w
         /\ From(s, i + 1) \in SUBSET Nat
    <3>1. x \in Nat /\ From(s, i) = {x} \cup From(s, i + 1) /\ \A w \in From(s, i + 1) : x < w
      BY <2>1, <2>10, FromFacts
    <3> QED BY <2>1, <3>1, FromFacts
  <2>12. /\ y \in Nat /\ From(t, j) = {y} \cup From(t, j + 1) /\ \A w \in From(t, j + 1) : y < w
         /\ From(t, j + 1) \in SUBSET Nat
    <3>1. y \in Nat /\ From(t, j) = {y} \cup From(t, j + 1) /\ \A w \in From(t, j + 1) : y < w
      BY <2>1, <2>10, FromFacts
    <3> QED BY <2>1, <3>1, FromFacts
  <2>13. /\ z \in Nat /\ From(support, k) = {z} \cup From(support, k + 1)
         /\ \A w \in From(support, k + 1) : z < w
         /\ From(support, k + 1) \in SUBSET Nat
    <3>1. /\ z \in Nat /\ From(support, k) = {z} \cup From(support, k + 1)
          /\ \A w \in From(support, k + 1) : z < w
      BY <2>1, <2>10, FromFacts
    <3> QED BY <2>1, <3>1, FromFacts
  <2>14. From(support, n) = IF z \in {x, y} THEN From(support, k + 1) ELSE From(support, k)
    BY <2>2
  <2>15. \A w \in From(support, n) : n <= Len(support) /\ support[n] \in Nat /\ w \in Nat /\ support[n] <= w
    <3>1. From(support, n) \in SUBSET Nat
      BY <2>6, FromFacts
    <3>2. CASE n > Len(support)
      BY <2>6, <3>2, FromFacts
    <3>3. CASE n <= Len(support)
      <4>1. /\ support[n] \in Nat /\ From(support, n) = {support[n]} \cup From(support, n + 1)
            /\ \A w \in From(support, n + 1) : support[n] < w
        BY <2>6, <3>3, FromFacts
      <4> QED BY <3>1, <3>3, <4>1
    <3> QED BY <1>1, <2>6, <3>2, <3>3
  <2> HIDE DEF x, y, z, F, P, measure
  <2>16. From(s, a) = From(s, i) \/ (From(s, a) = From(s, i + 1) /\ \A w \in From(support, n) : x < w)
    <3>1. CASE n <= Len(support) /\ x < support[n]
      BY <2>3, <2>11, <2>15, <3>1
    <3>2. CASE ~(n <= Len(support) /\ x < support[n])
      BY <2>3, <3>2
    <3> QED BY <3>1, <3>2
  <2>17. From(t, b) = From(t, j) \/ (From(t, b) = From(t, j + 1) /\ \A w \in From(support, n) : y < w)
    <3>1. CASE n <= Len(support) /\ y < support[n]
      BY <2>3, <2>12, <2>15, <3>1
    <3>2. CASE ~(n <= Len(support) /\ y < support[n])
      BY <2>3, <3>2
    <3> QED BY <3>1, <3>2
  <2>18. From(support, k) \subseteq From(s, i) \cup From(t, j)
            <=> ~(z < x /\ z < y) /\ From(support, n) \subseteq From(s, a) \cup From(t, b)
    <3> DEFINE SA == From(s, i)
               SB == From(t, j)
               SU == From(support, k)
               C == From(s, i + 1)
               D == From(t, j + 1)
               V == From(support, k + 1)
               N == From(support, n)
               A2 == From(s, a)
               B2 == From(t, b)
    <3>1. /\ x \in Nat /\ y \in Nat /\ z \in Nat
          /\ C \in SUBSET Nat /\ D \in SUBSET Nat /\ V \in SUBSET Nat
          /\ (\A w \in C : x < w) /\ (\A w \in D : y < w) /\ (\A w \in V : z < w)
          /\ SA = {x} \cup C /\ SB = {y} \cup D /\ SU = {z} \cup V
          /\ N = IF z \in {x, y} THEN V ELSE SU
          /\ (A2 = SA \/ (A2 = C /\ \A w \in N : x < w))
          /\ (B2 = SB \/ (B2 = D /\ \A w \in N : y < w))
      BY <2>11, <2>12, <2>13, <2>14, <2>16, <2>17
    <3> HIDE DEF SA, SB, SU, C, D, V, N, A2, B2
    <3>2. SU \subseteq SA \cup SB <=> (~(z < x /\ z < y) /\ N \subseteq A2 \cup B2)
      <4>1. A2 \subseteq SA /\ B2 \subseteq SB
        BY <3>1
      <4>2. ASSUME z < x, z < y PROVE ~(SU \subseteq SA \cup SB)
        <5>1. z # x /\ z # y /\ z \notin C /\ z \notin D
          BY <3>1, <4>2
        <5> QED BY <3>1, <5>1
      <4>3. ASSUME ~(z < x /\ z < y), N \subseteq A2 \cup B2 PROVE SU \subseteq SA \cup SB
        BY <3>1, <4>1, <4>3
      <4>4. ASSUME SU \subseteq SA \cup SB PROVE N \subseteq A2 \cup B2
        <5> SUFFICES ASSUME NEW w \in N PROVE w \in A2 \cup B2
          OBVIOUS
        <5>1. w \in Nat /\ (w \in SA \/ w \in SB)
          BY <3>1, <4>4
        <5>2. w \in SA => w \in A2 \/ (x < w /\ w = x)
          BY <3>1
        <5>3. w \in SB => w \in B2 \/ (y < w /\ w = y)
          BY <3>1
        <5> QED BY <5>1, <5>2, <5>3
      <4> QED BY <4>2, <4>3, <4>4
    <3> QED BY <3>2 DEF SA, SB, SU, N, A2, B2
  <2>19. ~(z < x /\ z < y) => measure[after(p)] < measure[p]
    <3> SUFFICES ASSUME ~(z < x /\ z < y) PROVE measure[after(p)] < measure[p]
      OBVIOUS
    <3>1. n = k + 1 \/ (n = k /\ (x < z \/ y < z))
      BY <2>2, <2>11, <2>12, <2>13
    <3>2. n = k => support[n] = z /\ n <= Len(support)
      BY <1>1, <2>1 DEF z
    <3>3. a \in {i, i + 1} /\ b \in {j, j + 1} /\ (n = k + 1 \/ (n = k /\ (a = i + 1 \/ b = j + 1)))
      BY <2>3, <3>1, <3>2
    <3>4. i \in Nat /\ j \in Nat /\ k \in Nat
      BY <2>1
    <3> QED BY <1>1, <2>9, <3>3, <3>4
  <2> QED BY <2>5, <2>7, <2>8, <2>18, <2>19 DEF x, y, z, i, j, k
<1>4. ASSUME NEW p \in P, NEW f, ~Inside(p) PROVE turn(f, p) = F[p]
  <2> DEFINE i == p[1]
             j == p[2]
             k == p[3]
  <2>1. i \in 1..(Len(s) + 1) /\ j \in 1..(Len(t) + 1) /\ k \in 1..(Len(support) + 1)
    BY <1>2
  <2>2. F[p] = (From(support, k) \subseteq From(s, i) \cup From(t, j))
    OBVIOUS
  <2>3. i \in Nat /\ j \in Nat /\ k \in Nat
    BY <1>1, <2>1
  <2>4. /\ i > Len(s) => From(s, i) = {}
        /\ j > Len(t) => From(t, j) = {}
        /\ k > Len(support) => From(support, k) = {}
    <3> HIDE DEF i, j, k
    <3> QED BY <2>1, FromFacts
  <2>5. /\ ToSet(tail(s, i)) = From(s, i) /\ ToSet(tail(t, j)) = From(t, j)
        /\ ToSet(tail(support, k)) = From(support, k)
    <3> HIDE DEF i, j, k
    <3> QED BY <2>1, TailFacts
  <2>6. turn(f, p) = IF k > Len(support) THEN TRUE
                     ELSE IF i > Len(s) THEN Includes(tail(t, j), tail(support, k))
                     ELSE IF j > Len(t) THEN Includes(tail(s, i), tail(support, k))
                     ELSE /\ ~(support[k] < s[i] /\ support[k] < t[j])
                          /\ f[after(p)]
    BY Zenon
  <2>7. k > Len(support) \/ i > Len(s) \/ j > Len(t)
    <3>1. ~(k <= Len(support) /\ i <= Len(s) /\ j <= Len(t))
      BY <1>4
    <3> HIDE DEF i, j, k
    <3> QED BY <1>1, <2>3, <3>1
  <2> HIDE DEF F, turn, after, i, j, k
  <2>8. Includes(tail(t, j), tail(support, k)) = (From(support, k) \subseteq From(t, j))
    BY <2>5, Zenon DEF Includes
  <2>9. Includes(tail(s, i), tail(support, k)) = (From(support, k) \subseteq From(s, i))
    BY <2>5, Zenon DEF Includes
  <2>10. CASE k > Len(support)
    <3>1. From(support, k) \subseteq From(s, i) \cup From(t, j)
      BY <2>4, <2>10
    <3> QED BY <2>2, <2>6, <2>10, <3>1, Zenon
  <2>11. CASE ~(k > Len(support)) /\ i > Len(s)
    <3>1. From(s, i) \cup From(t, j) = From(t, j)
      BY <2>4, <2>11
    <3> QED BY <2>2, <2>6, <2>8, <2>11, <3>1, Zenon
  <2>12. CASE ~(k > Len(support)) /\ ~(i > Len(s)) /\ j > Len(t)
    <3>1. From(s, i) \cup From(t, j) = From(s, i)
      BY <2>4, <2>12
    <3> QED BY <2>2, <2>6, <2>9, <2>12, <3>1, Zenon
  <2> QED BY <2>7, <2>10, <2>11, <2>12, Zenon
<1>5. ASSUME NEW p \in P, NEW f, Inside(p)
      PROVE  turn(f, p) = (~(support[p[3]] < s[p[1]] /\ support[p[3]] < t[p[2]]) /\ f[after(p)])
  <2> DEFINE i == p[1]
             j == p[2]
             k == p[3]
  <2>1. i \in 1..(Len(s) + 1) /\ j \in 1..(Len(t) + 1) /\ k \in 1..(Len(support) + 1)
    BY <1>2
  <2>2. i <= Len(s) /\ j <= Len(t) /\ k <= Len(support)
    BY <1>5
  <2>3. i \in Nat /\ j \in Nat /\ k \in Nat
    BY <1>1, <2>1
  <2>4. ~(k > Len(support)) /\ ~(i > Len(s)) /\ ~(j > Len(t))
    <3> HIDE DEF i, j, k, turn, P, F, after
    <3> QED BY <1>1, <2>2, <2>3
  <2> QED BY <2>4, Zenon
<1>6. ASSUME NEW p \in P PROVE F[p] = turn(F, p)
  <2>1. F[p] \in BOOLEAN
    OBVIOUS
  <2>2. CASE Inside(p)
    <3>1. F[p] <=> ~(support[p[3]] < s[p[1]] /\ support[p[3]] < t[p[2]]) /\ F[after(p)]
      BY <1>3, <2>2
    <3> HIDE DEF F, turn, after, Inside
    <3> QED BY <1>5, <2>1, <2>2, <3>1, Zenon
  <2>3. CASE ~Inside(p)
    <3> HIDE DEF F, turn, Inside
    <3> QED BY <1>4, <2>3
  <2> QED BY <2>2, <2>3
<1>7. F = [p \in P |-> turn(F, p)]
  <2>1. F = [p \in P |-> F[p]]
    OBVIOUS
  <2> HIDE DEF F, turn, P
  <2> QED BY <1>6, <2>1
<1>8. walk = [p \in P |-> turn(walk, p)]
  <2> HIDE DEF F, turn, P
  <2> QED BY <1>7
<1>9. measure \in [P -> Nat]
  <2>1. ASSUME NEW p \in P
        PROVE  (Len(s) + 1 - p[1]) + (Len(t) + 1 - p[2]) + (Len(support) + 1 - p[3]) \in Nat
    <3> DEFINE i == p[1]
               j == p[2]
               k == p[3]
    <3>1. i \in 1..(Len(s) + 1) /\ j \in 1..(Len(t) + 1) /\ k \in 1..(Len(support) + 1)
      BY <1>2
    <3> HIDE DEF i, j, k
    <3>2. (Len(s) + 1 - i) + (Len(t) + 1 - j) + (Len(support) + 1 - k) \in Nat
      BY <1>1, <3>1
    <3> QED BY <3>2 DEF i, j, k
  <2> HIDE DEF P
  <2> QED BY <2>1
<1>10. ASSUME NEW p \in P, \A q \in P : measure[q] < measure[p] => walk[q] = F[q]
       PROVE  walk[p] = F[p]
  <2>1. walk[p] = turn(walk, p)
    <3> HIDE DEF walk, turn, P
    <3> QED BY <1>8
  <2>2. F[p] = turn(F, p)
    <3> HIDE DEF walk, F, turn, P
    <3> QED BY <1>6
  <2>3. CASE ~Inside(p)
    <3> HIDE DEF walk, F, turn, P, Inside
    <3> QED BY <1>4, <2>1, <2>3
  <2>4. CASE Inside(p)
    <3> DEFINE behindBoth == support[p[3]] < s[p[1]] /\ support[p[3]] < t[p[2]]
    <3>1. after(p) \in P /\ (~behindBoth => measure[after(p)] < measure[p])
      <4> HIDE DEF after, F, measure, P, Inside
      <4> QED BY <1>3, <2>4
    <3> HIDE DEF walk, F, turn, P, Inside, after, measure
    <3>2. turn(walk, p) = (~behindBoth /\ walk[after(p)]) /\ turn(F, p) = (~behindBoth /\ F[after(p)])
      BY <1>5, <2>4
    <3> HIDE DEF behindBoth
    <3>3. ~behindBoth => walk[after(p)] = F[after(p)]
      BY <1>10, <3>1
    <3> QED BY <2>1, <2>2, <3>2, <3>3, Zenon
  <2> QED BY <2>3, <2>4
<1>11. \A p \in P : walk[p] = F[p]
  <2> HIDE DEF walk, F, P, measure
  <2> DEFINE T == {p \in P : walk[p] = F[p]}
  <2>1. \A p \in P : (\A q \in P : measure[q] < measure[p] => q \in T) => p \in T
    BY <1>10
  <2>2. \A p \in P : p \in T
    <3> HIDE DEF T, turn, after, Inside, next, behind
    <3> QED BY <1>9, <2>1, MeasureInduction
  <2> QED BY <2>2
<1>12. includedInBoth(s, t, support) = walk[<<1, 1, 1>>]
  BY Zenon DEF includedInBoth
<1>13. <<1, 1, 1>> \in P /\ (F[<<1, 1, 1>>] <=> From(support, 1) \subseteq From(s, 1) \cup From(t, 1))
  <2>1. <<1, 1, 1>> \in P
    <3>1. 1 \in 1..(Len(s) + 1) /\ 1 \in 1..(Len(t) + 1) /\ 1 \in 1..(Len(support) + 1)
      BY <1>1
    <3> QED BY <3>1
  <2> HIDE DEF P
  <2> QED BY <2>1
<1>14. From(s, 1) = ToSet(s) /\ From(t, 1) = ToSet(t) /\ From(support, 1) = ToSet(support)
  <2>1. 1 \in 1..(Len(s) + 1) /\ 1 \in 1..(Len(t) + 1) /\ 1 \in 1..(Len(support) + 1)
    BY <1>1
  <2> QED BY <2>1, FromFacts
<1> HIDE DEF walk, F, P
<1> QED BY <1>11, <1>12, <1>13, <1>14
\* A larger number behind an ascending vector.
LEMMA LargestLast ==
    ASSUME NEW A \in SUBSET Nat, IsFiniteSet(A), NEW x \in Nat, \A y \in A : y < x
    PROVE  Append(increasing(A), x) = increasing(A \cup {x})
<1> DEFINE l == increasing(A)
           m == Append(l, x)
           n == Len(l)
<1>1. l \in Seq(Nat) /\ Increasing(l) /\ ToSet(l) = A
  <2>1. l \in Seq(A) /\ Increasing(l) /\ ToSet(l) = A
    BY IncreasingFacts
  <2> QED BY <2>1, SeqMonotonic
<1> HIDE DEF l
<1>2. n \in Nat /\ DOMAIN l = 1..n /\ \A q \in 1..n : l[q] \in A /\ l[q] \in Nat
  BY <1>1, ListFacts
<1>3. m \in Seq(Nat) /\ Len(m) = n + 1 /\ (\A q \in 1..n : m[q] = l[q]) /\ m[n + 1] = x
  BY <1>1, AppendProperties
<1> HIDE DEF m, n
<1>4. DOMAIN m = 1..(n + 1)
  BY <1>3, LenProperties
<1>5. \A p \in 1..(n + 1) : p \in 1..n \/ p = n + 1
  BY <1>2
<1>6. n + 1 \in 1..(n + 1) /\ 1..n \subseteq 1..(n + 1)
  BY <1>2
<1>7. ToSet(m) = A \cup {x}
  <2>1. ToSet(m) \subseteq A \cup {x}
    BY <1>2, <1>3, <1>4, <1>5 DEF ToSet
  <2>2. A \subseteq ToSet(m)
    BY <1>1, <1>2, <1>3, <1>4, <1>6 DEF ToSet
  <2>3. x \in ToSet(m)
    BY <1>3, <1>4, <1>6 DEF ToSet
  <2> QED BY <2>1, <2>2, <2>3
<1>8. Increasing(m)
  <2>1. ASSUME NEW p \in 1..(n + 1), NEW q \in 1..(n + 1), p < q PROVE m[p] < m[q]
    <3>1. p \in 1..n
      BY <1>2, <2>1
    <3>2. CASE q \in 1..n
      BY <1>1, <1>2, <1>3, <2>1, <3>1, <3>2 DEF Increasing
    <3>3. CASE q = n + 1
      BY <1>2, <1>3, <3>1, <3>3
    <3> QED BY <1>5, <3>2, <3>3
  <2> QED BY <1>4, <2>1 DEF Increasing
<1>9. m = increasing(A \cup {x})
  BY <1>3, <1>7, <1>8, IncreasingUnique
<1> QED BY <1>9 DEF m, l

LEMMA NothingIncreasing == increasing({}) = <<>>
<1>1. {} \in SUBSET Nat /\ IsFiniteSet({})
  BY FS_EmptySet
<1>2. increasing({}) \in Seq({}) /\ Len(increasing({})) = 0
  BY <1>1, IncreasingFacts, FS_EmptySet
<1> QED BY <1>2, EmptySeq

LEMMA OrderedFacts ==
    ASSUME NEW S \in SUBSET Variables
    PROVE  /\ S \in SUBSET Nat /\ IsFiniteSet(S) /\ ordered[S] = increasing(S)
           /\ increasing(S) \in Seq(Nat) /\ Increasing(increasing(S)) /\ ToSet(increasing(S)) = S
<1>1. S \in SUBSET Nat /\ IsFiniteSet(S)
  <2>1. IsFiniteSet(Variables)
    BY PrefixAssumption, FS_Union DEF Variables
  <2> QED BY <2>1, PrefixAssumption, VectorAssumption, FS_Subset DEF Variables
<1>2. increasing(S) \in Seq(S) /\ Increasing(increasing(S)) /\ ToSet(increasing(S)) = S
  BY <1>1, IncreasingFacts
<1> QED BY <1>1, <1>2, SeqMonotonic DEF ordered

--------------------------------------------------------------------------------
(***************************************************************************)
(* The vectors beside the sets.                                            *)
(***************************************************************************)
VectorsAscend ==
    /\ DOMAIN vectors = DOMAIN ext
    /\ \A v \in DOMAIN ext : vectors[v] = increasing(ext[v])
    /\ DOMAIN pending = Existentials
    /\ \A v \in Existentials : pending[v] = increasing(toUpdate[v])

\* What is scheduled comes before all that is still in the queue.
QueueAscends ==
    /\ \A v \in Existentials : \A d \in toUpdate[v], w \in queue : d < w
    /\ phase # "checking" => \A v \in Existentials : toUpdate[v] = {}

VectorsInv == VectorsAscend /\ QueueAscends

LEMMA StoredFacts ==
    ASSUME TypeInv
    PROVE  /\ \A v \in DOMAIN ext : v \in Existentials /\ ext[v] \in SUBSET Variables
           /\ \A v \in Existentials : toUpdate[v] \in SUBSET Variables
           /\ undefined \subseteq DOMAIN ext
BY DEF TypeInv, SetupTypeOK, ContainerTypeOK, Shape, Variables

\* The searches in the vectors decide what the sets say.
LEMMA VectorsDecide ==
    ASSUME TypeInv, VectorsAscend, NEW v \in DOMAIN ext, NEW S \in SUBSET Variables
    PROVE  includedInVectors(v, S) <=> includedInDependencies(v, S)
<1>1. v \in Existentials /\ ext[v] \in SUBSET Variables /\ toUpdate[v] \in SUBSET Variables
  BY StoredFacts
<1>2. vectors[v] = increasing(ext[v]) /\ pending[v] = increasing(toUpdate[v])
  BY <1>1 DEF VectorsAscend
<1>3. /\ vectors[v] \in Seq(Nat) /\ Increasing(vectors[v]) /\ ToSet(vectors[v]) = ext[v]
      /\ pending[v] \in Seq(Nat) /\ Increasing(pending[v]) /\ ToSet(pending[v]) = toUpdate[v]
  BY <1>1, <1>2, OrderedFacts
<1>4. ordered[S] \in Seq(Nat) /\ Increasing(ordered[S]) /\ ToSet(ordered[S]) = S
  BY OrderedFacts
<1>5. CASE pending[v] = <<>>
  <2>1. toUpdate[v] = {}
    BY <1>3, <1>5 DEF ToSet
  <2>2. includedInVectors(v, S) <=> Includes(vectors[v], ordered[S])
    BY <1>5 DEF includedInVectors
  <2> QED BY <1>3, <1>4, <2>1, <2>2 DEF Includes, includedInDependencies
<1>6. CASE pending[v] # <<>>
  <2>1. includedInVectors(v, S) <=> includedInBoth(vectors[v], pending[v], ordered[S])
    BY <1>6 DEF includedInVectors
  <2>2. includedInBoth(vectors[v], pending[v], ordered[S])
            <=> ToSet(ordered[S]) \subseteq ToSet(vectors[v]) \cup ToSet(pending[v])
    BY <1>3, <1>4, WalkDecides
  <2> QED BY <1>3, <1>4, <2>1, <2>2 DEF includedInDependencies
<1> QED BY <1>5, <1>6

LEMMA VectorsStart == SetupInit /\ VectorsInit => VectorsInv
<1> SUFFICES ASSUME SetupInit, VectorsInit PROVE VectorsInv
  OBVIOUS
<1>1. TypeInv
  BY InitType
<1>2. \A v \in DOMAIN ext : vectors[v] = increasing(ext[v])
  <2> SUFFICES ASSUME NEW v \in DOMAIN ext PROVE vectors[v] = increasing(ext[v])
    OBVIOUS
  <2>1. ext[v] \in SUBSET Variables
    BY <1>1, StoredFacts
  <2>2. vectors[v] = ordered[ext[v]]
    BY DEF VectorsInit
  <2> QED BY <2>1, <2>2, OrderedFacts
<1>3. \A v \in Existentials : toUpdate[v] = {}
  BY DEF SetupInit, ContainerInit
<1>4. \A v \in Existentials : pending[v] = increasing(toUpdate[v])
  BY <1>3, NothingIncreasing DEF VectorsInit
<1>5. DOMAIN vectors = DOMAIN ext /\ DOMAIN pending = Existentials
  BY DEF VectorsInit
<1> QED BY <1>2, <1>3, <1>4, <1>5 DEF VectorsInv, VectorsAscend, QueueAscends

\* The end of an iteration merges the sets and the vectors alike.
LEMMA VectorsMerged ==
    ASSUME TypeInv, VectorsInv, performUpdate, performVectorUpdate
    PROVE  VectorsInv'
<1>1. /\ ext' = [w \in DOMAIN ext |-> ext[w] \cup toUpdate[w]]
      /\ toUpdate' = [w \in Existentials |-> {}]
      /\ vectors' = [w \in DOMAIN vectors |-> updateVectorMap(vectors[w], pending[w])]
      /\ pending' = [w \in Existentials |-> <<>>]
      /\ DOMAIN vectors = DOMAIN ext
  BY DEF performUpdate, performVectorUpdate, VectorsInv, VectorsAscend
<1>2. ASSUME NEW v \in DOMAIN ext PROVE vectors'[v] = increasing(ext'[v])
  <2>1. v \in Existentials /\ ext[v] \in SUBSET Variables /\ toUpdate[v] \in SUBSET Variables
    BY StoredFacts
  <2>2. vectors[v] = increasing(ext[v]) /\ pending[v] = increasing(toUpdate[v])
    BY <2>1 DEF VectorsInv, VectorsAscend
  <2>3. /\ vectors[v] \in Seq(Nat) /\ Increasing(vectors[v]) /\ ToSet(vectors[v]) = ext[v]
        /\ pending[v] \in Seq(Nat) /\ Increasing(pending[v]) /\ ToSet(pending[v]) = toUpdate[v]
    BY <2>1, <2>2, OrderedFacts
  <2>4. updateVectorMap(vectors[v], pending[v]) = increasing(ext[v] \cup toUpdate[v])
    BY <2>3, MergeFacts
  <2> QED BY <1>1, <2>4
<1>3. \A v \in Existentials : pending'[v] = increasing(toUpdate'[v])
  BY <1>1, NothingIncreasing
<1>4. VectorsAscend'
  BY <1>1, <1>2, <1>3 DEF VectorsAscend
<1>5. QueueAscends'
  BY <1>1 DEF QueueAscends
<1> QED BY <1>4, <1>5 DEF VectorsInv

\* A definition is scheduled with the vectors as with the sets; as the queue is
\* in order, what is appended is the largest.
LEMMA VectorsScheduled ==
    ASSUME TypeInv, VectorsInv, phase = "checking", NEW v \in queue, NEW S \in SUBSET Variables,
           \A w \in queue : v <= w, undefined' = undefined \ {v}, queue' = queue \ {v},
           phase' = "checking", scheduleUpdate(v, S), scheduleVectorUpdate(v, S)
    PROVE  VectorsInv'
<1>1. /\ ext' = [w \in DOMAIN ext \ {v} |-> ext[w]]
      /\ toUpdate' = [w \in Existentials |->
                         IF w = v THEN {}
                         ELSE IF w \in Gaining(S) THEN toUpdate[w] \cup {v}
                         ELSE toUpdate[w]]
  BY DEF scheduleUpdate
<1>2. /\ vectors' = [w \in DOMAIN vectors \ {v} |-> vectors[w]]
      /\ pending' = [w \in Existentials |->
                        CASE w = v -> <<>>
                          [] w \in undefined' /\ includedInVectors(w, S) -> Append(pending[w], v)
                          [] OTHER -> pending[w]]
  BY DEF scheduleVectorUpdate
<1>3. /\ DOMAIN vectors = DOMAIN ext /\ VectorsAscend /\ QueueAscends
      /\ \A w \in DOMAIN ext : vectors[w] = increasing(ext[w])
      /\ \A w \in Existentials : pending[w] = increasing(toUpdate[w])
  BY DEF VectorsInv, VectorsAscend
<1>4. queue \subseteq undefined /\ v \in Existentials /\ v \in Nat /\ queue \subseteq Nat
  BY PrefixAssumption DEF TypeInv, SetupTypeOK, Shape
<1>5. \A w \in undefined' : includedInVectors(w, S) <=> w \in Gaining(S)
  <2> TAKE w \in undefined'
  <2>1. w \in DOMAIN ext
    BY StoredFacts
  <2> QED BY <1>3, <2>1, VectorsDecide DEF Gaining
<1>6. ASSUME NEW w \in Existentials PROVE pending'[w] = increasing(toUpdate'[w])
  <2>1. CASE w = v
    BY <1>1, <1>2, <2>1, NothingIncreasing
  <2>2. CASE w # v /\ w \in Gaining(S)
    <3>1. w \in undefined' /\ includedInVectors(w, S)
      BY <1>5, <2>2 DEF Gaining
    <3>2. pending'[w] = Append(pending[w], v) /\ toUpdate'[w] = toUpdate[w] \cup {v}
      BY <1>1, <1>2, <2>2, <3>1
    <3>3. toUpdate[w] \in SUBSET Nat /\ IsFiniteSet(toUpdate[w])
      BY StoredFacts, OrderedFacts
    <3>4. \A d \in toUpdate[w] : d < v
      BY <1>3 DEF QueueAscends
    <3>5. Append(increasing(toUpdate[w]), v) = increasing(toUpdate[w] \cup {v})
      BY <1>4, <3>3, <3>4, LargestLast
    <3> QED BY <1>3, <3>2, <3>5
  <2>3. CASE w # v /\ w \notin Gaining(S)
    <3>1. ~(w \in undefined' /\ includedInVectors(w, S))
      BY <1>5, <2>3
    <3>2. pending'[w] = pending[w] /\ toUpdate'[w] = toUpdate[w]
      BY <1>1, <1>2, <2>3, <3>1
    <3> QED BY <1>3, <3>2
  <2> QED BY <2>1, <2>2, <2>3
<1>7. VectorsAscend'
  BY <1>1, <1>2, <1>3, <1>6 DEF VectorsAscend
<1>8. QueueAscends'
  <2>1. ASSUME NEW e \in Existentials, NEW d \in toUpdate'[e], NEW w \in queue \ {v} PROVE d < w
    <3>1. d \in toUpdate[e] \/ d = v
      BY <1>1
    <3>2. v < w
      BY <1>4
    <3> QED BY <1>3, <3>1, <3>2 DEF QueueAscends
  <2> QED BY <2>1 DEF QueueAscends
<1> QED BY <1>7, <1>8 DEF VectorsInv

LEMMA VectorsStep ==
    TypeInv /\ VectorsInv /\ [VectorNext]_vectorVars => VectorsInv'
<1> SUFFICES ASSUME TypeInv, VectorsInv, [VectorNext]_vectorVars PROVE VectorsInv'
  OBVIOUS
<1>1. ASSUME UNCHANGED <<vectors, pending, ext, toUpdate>>,
             \/ UNCHANGED <<queue, phase>>
             \/ queue' \subseteq queue /\ phase' = phase
             \/ \A v \in Existentials : toUpdate[v] = {}
      PROVE  VectorsInv'
  <2>1. VectorsAscend'
    BY <1>1 DEF VectorsInv, VectorsAscend
  <2>2. QueueAscends'
    BY <1>1 DEF VectorsInv, QueueAscends
  <2> QED BY <2>1, <2>2 DEF VectorsInv
<1>2. phase # "checking" => \A v \in Existentials : toUpdate[v] = {}
  BY DEF VectorsInv, QueueAscends
<1>3. ASSUME BeginRound \/ SkipRounds \/ SkipUnates, UNCHANGED <<vectors, pending>> PROVE VectorsInv'
  <2>1. phase # "checking" /\ UNCHANGED <<ext, toUpdate>>
    BY <1>3 DEF BeginRound, SkipRounds, SkipUnates, containerVars
  <2> QED BY <1>1, <1>2, <1>3, <2>1
<1>4. ASSUME NEW v \in queue, NotDefined(v), UNCHANGED <<vectors, pending>> PROVE VectorsInv'
  <2>1. UNCHANGED <<ext, toUpdate, phase>> /\ queue' \subseteq queue
    BY <1>4 DEF NotDefined, containerVars
  <2> QED BY <1>1, <1>4, <2>1
<1>5. ASSUME NEW X \in SUBSET undefined, CheckUnates(X), UNCHANGED <<vectors, pending>> PROVE VectorsInv'
  <2>1. phase # "checking" /\ UNCHANGED <<ext, toUpdate>>
    BY <1>5 DEF CheckUnates
  <2> QED BY <1>1, <1>2, <1>5, <2>1
<1>6. ASSUME NEW v \in queue, NEW S \in SUBSET ED(v), Defined(v, S),
             IF config["dynamic_dependencies"] THEN scheduleVectorUpdate(v, S)
                                               ELSE UNCHANGED <<vectors, pending>>
      PROVE  VectorsInv'
  <2>1. /\ phase = "checking" /\ phase' = phase /\ \A w \in queue : v <= w
        /\ undefined' = undefined \ {v} /\ queue' = queue \ {v}
    BY <1>6 DEF Defined, NextInQueue
  <2>2. CASE config["dynamic_dependencies"]
    <3>1. v \in DOMAIN ext /\ v \notin Computed
      <4>1. v \in undefined /\ undefined \cap Computed = {}
        BY <2>1 DEF TypeInv, Shape
      <4>2. undefined \subseteq DOMAIN ext
        BY StoredFacts
      <4> QED BY <4>1, <4>2
    <3>2. S \in SUBSET Variables
      BY <3>1, StoredFacts DEF ED
    <3>3. scheduleUpdate(v, S) /\ scheduleVectorUpdate(v, S)
      BY <1>6, <2>2 DEF Defined
    <3> QED BY <2>1, <3>2, <3>3, VectorsScheduled
  <2>3. CASE ~config["dynamic_dependencies"]
    <3>1. UNCHANGED <<vectors, pending, ext, toUpdate>>
      BY <1>6, <2>3 DEF Defined
    <3> QED BY <1>1, <2>1, <3>1
  <2> QED BY <2>2, <2>3
<1>7. ASSUME EndIteration, performVectorUpdate PROVE VectorsInv'
  BY <1>7, VectorsMerged DEF EndIteration
<1>8. ASSUME Ready \/ UNCHANGED setupVars, UNCHANGED <<vectors, pending>> PROVE VectorsInv'
  <2>1. UNCHANGED <<ext, toUpdate, queue, phase>>
    BY <1>8 DEF Ready, setupVars, containerVars, passVars
  <2> QED BY <1>1, <1>8, <2>1
<1>9. CASE UNCHANGED vectorVars
  BY <1>8, <1>9 DEF vectorVars
<1> QED BY <1>3, <1>4, <1>5, <1>6, <1>7, <1>8, <1>9 DEF VectorNext, VectorStep

\* The steps with vectors are steps of the search for definitions.
LEMMA VectorsRefine == VectorSpec => SetupSpec
<1>1. [VectorNext]_vectorVars => [SetupNext]_setupVars
  BY DEF VectorNext, VectorStep, SetupNext, SetupStep, vectorVars
<1> QED BY <1>1, PTL DEF VectorSpec, SetupSpec

LEMMA VectorsInvariant == VectorSpec => [](TypeInv /\ VectorsInv)
<1>1. VectorSpec => []TypeInv
  <2>1. IInv => TypeInv
    BY DEF IInv
  <2> QED BY <2>1, VectorsRefine, InvariantLemma, PTL
<1> QED BY <1>1, VectorsStart, VectorsStep, PTL DEF VectorSpec

\* For every formula and every run the sorted vectors hold what the sets of the
\* container hold, and the walk along them answers as the union of the sets does.
THEOREM VectorsFollowSets == VectorSpec => []VectorsMatch
<1>1. TypeInv /\ VectorsInv => VectorsMatch
  <2> SUFFICES ASSUME TypeInv, VectorsInv PROVE VectorsMatch
    OBVIOUS
  <2>1. VectorsAscend
    BY DEF VectorsInv
  <2>2. ASSUME NEW v \in DOMAIN ext PROVE Holds(vectors[v], ext[v]) /\ Holds(pending[v], toUpdate[v])
    <3>1. v \in Existentials /\ ext[v] \in SUBSET Variables /\ toUpdate[v] \in SUBSET Variables
      BY StoredFacts
    <3>2. vectors[v] = increasing(ext[v]) /\ pending[v] = increasing(toUpdate[v])
      BY <2>1, <3>1 DEF VectorsAscend
    <3> QED BY <3>1, <3>2, OrderedFacts DEF Holds
  <2>3. \A v \in undefined : \A S \in SUBSET Variables :
            includedInVectors(v, S) <=> includedInDependencies(v, S)
    BY <2>1, StoredFacts, VectorsDecide
  <2>4. DOMAIN vectors = DOMAIN ext
    BY <2>1 DEF VectorsAscend
  <2> QED BY <2>2, <2>3, <2>4 DEF VectorsMatch
<1> QED BY <1>1, VectorsInvariant, PTL

================================================================================
