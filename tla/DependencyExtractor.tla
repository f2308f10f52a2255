--------------------------- MODULE DependencyExtractor ---------------------------
(***************************************************************************)
(* From the lines of the input to the dependencies of the solver: DQDIMACS *)
(* collects blocks of variables and explicit dependencies line by line,    *)
(* DependencyExtractor turns them into dependencies and extended           *)
(* dependencies.  What it computes for a variable from the blocks is one   *)
(* loop over positions; the variables with explicit dependencies follow    *)
(* one by one in the order of an unordered map.                            *)
(*                                                                         *)
(* prefix and lastBlock say what the lines mean, whatever the lists are.   *)
(* Indices are those of the code, sequences start at 1.                    *)
(***************************************************************************)
EXTENDS DQBF, SortedVectors

CONSTANT ExtractorSettings  \* config.extended_dependencies and ignore_innermost_existentials

ASSUME ExtractorAssumption ==
    /\ Universals \subseteq Nat
    /\ ExtractorSettings \subseteq [extended : BOOLEAN, ignore : BOOLEAN]

VARIABLES
    setting,
    first_block_type,         \* TRUE: universal; not initialised by the constructor
    universal_variables, universal_blocks,
    existential_variables, existential_blocks,
    explicit_dependencies,
    prefix,                   \* the dependencies the lines describe
    lastBlock,                \* the existential block the prefix ends with, or {}
    original_dependency_map, extended_dependencies,
    processed,                \* the variables with explicit dependencies seen so far
    phase                     \* "reading", "explicit", "done", "thrown"

formulaVars == <<first_block_type, universal_variables, universal_blocks,
                 existential_variables, existential_blocks, explicit_dependencies>>
meaningVars == <<prefix, lastBlock>>
resultVars == <<original_dependency_map, extended_dependencies, processed>>
extractorVars == <<setting, formulaVars, meaningVars, resultVars, phase>>

\* Sequences of different elements.
Lists(S) == SetToAllKPermutations(S)

--------------------------------------------------------------------------------
(***************************************************************************)
(* DQDIMACS: the lines of the input.                                       *)
(***************************************************************************)
getNofUniversalBlocks == Len(universal_blocks) - 1
getNofExistentialBlocks == Len(existential_blocks) - 1

\* The type of the last block; blocks of both types alternate.
lastBlockType(first) ==
    IF Len(existential_blocks) = Len(universal_blocks) THEN ~first ELSE first

ExtractorInit ==
    /\ setting \in ExtractorSettings
    /\ first_block_type \in BOOLEAN
    /\ universal_variables = <<>> /\ universal_blocks = <<0>>
    /\ existential_variables = <<>> /\ existential_blocks = <<0>>
    /\ explicit_dependencies = [v \in {} |-> <<>>]
    /\ prefix = [v \in {} |-> {}]
    /\ lastBlock = {}
    /\ original_dependency_map = [v \in {} |-> <<>>]
    /\ extended_dependencies = [v \in {} |-> <<>>]
    /\ processed = {}
    /\ phase = "reading"

Unread == Existentials \ DOMAIN prefix

\* The ends of the blocks when a block ends at position n: a new block, or the
\* last one goes on.
\* Mutant: every line is a block.
EveryLineABlock(blocks, continued, n) == Append(blocks, n)
EndBlock(blocks, continued, n) ==
    IF continued /\ Len(blocks) > 1 THEN ReplaceAt(blocks, Len(blocks), n)
                                    ELSE Append(blocks, n)

addUniversalBlock(vs) ==
    /\ phase = "reading" /\ vs # <<>>
    /\ first_block_type' = (existential_variables = <<>> \/ first_block_type)
    /\ universal_variables' = universal_variables \o vs
    /\ universal_blocks' = EndBlock(universal_blocks, lastBlockType(first_block_type'),
                                    Len(universal_variables'))
    /\ lastBlock' = {}
    /\ UNCHANGED <<setting, existential_variables, existential_blocks,
                   explicit_dependencies, prefix, resultVars, phase>>

\* The variables of a block depend on all universals before it.
addExistentialBlock(vs) ==
    /\ phase = "reading" /\ vs # <<>>
    /\ first_block_type' = (universal_variables # <<>> /\ first_block_type)
    /\ existential_variables' = existential_variables \o vs
    /\ existential_blocks' = EndBlock(existential_blocks, ~lastBlockType(first_block_type'),
                                      Len(existential_variables'))
    /\ prefix' = [v \in DOMAIN prefix \cup ToSet(vs) |->
                     IF v \in ToSet(vs) THEN ToSet(universal_variables) ELSE prefix[v]]
    /\ lastBlock' = lastBlock \cup ToSet(vs)
    /\ UNCHANGED <<setting, universal_variables, universal_blocks,
                   explicit_dependencies, resultVars, phase>>

addExplicitDependencies(v, deps) ==
    /\ phase = "reading"
    /\ explicit_dependencies' = [w \in DOMAIN explicit_dependencies \cup {v} |->
                                    IF w = v THEN deps ELSE explicit_dependencies[w]]
    /\ prefix' = [w \in DOMAIN prefix \cup {v} |-> IF w = v THEN ToSet(deps) ELSE prefix[w]]
    /\ UNCHANGED <<setting, first_block_type, universal_variables, universal_blocks,
                   existential_variables, existential_blocks, lastBlock, resultVars, phase>>

--------------------------------------------------------------------------------
(***************************************************************************)
(* DependencyExtractor: the variables in blocks.                           *)
(***************************************************************************)

\* The blocks the extraction looks at; the constructor leaves out the last
\* block if it is existential and is to be ignored.
existential_block_idx_end ==
    IF setting.ignore /\ ~lastBlockType(first_block_type)
    THEN getNofExistentialBlocks - 1 ELSE getNofExistentialBlocks

\* Block i has the positions EB(i) + 1 .. EB(i + 1).
EB(i) == existential_blocks[i + 1]
Block(i) == SubSeq(existential_variables, EB(i) + 1, EB(i + 1))
BlockAt(p) == CHOOSE i \in 0..(getNofExistentialBlocks - 1) : p \in (EB(i) + 1)..EB(i + 1)
From(i) == {existential_variables[p] : p \in (EB(i) + 1)..Len(existential_variables)}

\* Mutant: every formula is taken to start with a universal block.
UniversalFirst(i) == IF i + 1 < getNofUniversalBlocks THEN i + 1 ELSE getNofUniversalBlocks

\* The index of the universal block that ends before existential block i.
UniversalIndex(i) ==
    LET index == IF first_block_type THEN i + 1 ELSE i
    IN  IF index < getNofUniversalBlocks THEN index ELSE getNofUniversalBlocks

\* The universals of the first k blocks, which the code has sorted by then.
UniversalsUpTo(k) == Sorted(SubSeq(universal_variables, 1, universal_blocks[k + 1]))

\* With extended dependencies each block is sorted too.
SortedBlock(i) == IF setting.extended THEN Sorted(Block(i)) ELSE Block(i)
SortedBlocks ==
    [p \in DOMAIN existential_variables |->
        IF p <= EB(existential_block_idx_end)
        THEN SortedBlock(BlockAt(p))[p - EB(BlockAt(p))] ELSE existential_variables[p]]

\* The variables that get an entry in extended_dependencies.
Extended(E) == IF setting.extended THEN E ELSE {}

\* A formula without universals: the ignored block is not left out.
NoUniversals ==
    LET all == increasing(Existentials)
        visited(e) == SubSeq(all, 1, (CHOOSE p \in DOMAIN all : all[p] = e) - 1)
    IN
    /\ original_dependency_map' = [e \in Existentials |-> <<>>]
    /\ extended_dependencies' =
          [e \in Extended(Existentials) |-> visited(e)]
    /\ phase' = "done"
    /\ UNCHANGED <<universal_variables, existential_variables>>

ImplicitDependencies ==
    LET end == existential_block_idx_end
        implicit == {existential_variables[p] : p \in 1..EB(end)}
        place(e) == CHOOSE p \in DOMAIN SortedBlocks : SortedBlocks[p] = e
        universals(e) == UniversalsUpTo(UniversalIndex(BlockAt(place(e))))
        before(e) == SubSeq(SortedBlocks, 1, place(e) - 1)
        last == universal_blocks[UniversalIndex(end) + 1]
    IN
    /\ universal_variables # <<>>
    /\ existential_variables' = SortedBlocks
    /\ universal_variables' = UniversalsUpTo(UniversalIndex(end))
                                 \o SubSeq(universal_variables, last + 1, Len(universal_variables))
    /\ original_dependency_map' = [e \in implicit |-> universals(e)]
    /\ extended_dependencies' =
          [e \in Extended(implicit) |-> universals(e) \o before(e)]
    /\ phase' = "explicit"

\* The extraction starts when the whole formula has been read.
ExtractImplicit ==
    /\ phase = "reading" /\ Unread = {}
    /\ universal_variables # <<>> \/ existential_variables # <<>>
    /\ IF universal_variables = <<>> THEN NoUniversals ELSE ImplicitDependencies
    /\ UNCHANGED <<setting, first_block_type, universal_blocks, existential_blocks,
                   explicit_dependencies, meaningVars, processed>>

--------------------------------------------------------------------------------
(***************************************************************************)
(* DependencyExtractor: the variables with explicit dependencies.          *)
(***************************************************************************)

BlockDependencies(i) == original_dependency_map[existential_variables[EB(i) + 1]]

\* The ranges of blocks the binary searches look at, by their start and end index.
Ranges == {r \in (0..existential_block_idx_end) \X (0..existential_block_idx_end) : r[1] <= r[2]}
mid_idx(r) == (r[1] + r[2]) \div 2

\* The last block whose dependencies are included in deps, or -1: the
\* dependencies of the blocks grow, so that a binary search finds it.
getMaximalSubSet(deps) ==
    LET search[r \in Ranges] ==
            LET mid == mid_idx(r) IN
            IF r[1] = r[2] THEN -1
            ELSE IF Includes(deps, BlockDependencies(mid))
            THEN LET x == search[<<mid + 1, r[2]>>] IN IF x > mid THEN x ELSE mid
            ELSE search[<<r[1], mid>>]
    IN  search[<<0, existential_block_idx_end>>]

\* The first block from start on whose dependencies include deps, or the
\* number of blocks, the ignored one included.
getMinimalSuperSet(deps, start) ==
    LET search[r \in Ranges] ==
            LET mid == mid_idx(r) IN
            IF r[1] = r[2] THEN getNofExistentialBlocks
            ELSE IF Includes(BlockDependencies(mid), deps)
            THEN LET x == search[<<r[1], mid>>] IN IF x < mid THEN x ELSE mid
            ELSE search[<<mid + 1, r[2]>>]
    IN  search[<<start, existential_block_idx_end>>]

\* std::lower_bound in a sorted block: the position of the last smaller variable.
lower_bound(i, v) ==
    CHOOSE p \in EB(i)..EB(i + 1) :
        \A q \in (EB(i) + 1)..EB(i + 1) : existential_variables[q] < v <=> q <= p

\* addImplicitToExplicit and addExplicitToImplicit: the variables in blocks v
\* may read, and those that may read v.
ImplicitRead(v, deps) ==
    LET sub == getMaximalSubSet(deps) IN
    IF sub = -1 THEN <<>>
    ELSE SubSeq(existential_variables, 1,
                IF Len(BlockDependencies(sub)) = Len(deps) THEN lower_bound(sub, v) ELSE EB(sub + 1))

ImplicitReaders(v, deps) ==
    LET sub == getMaximalSubSet(deps)
        sup == getMinimalSuperSet(deps, sub + 1)
    IN
    IF sub # -1 /\ Len(BlockDependencies(sub)) = Len(deps)
    THEN {existential_variables[p] : p \in (lower_bound(sub, v) + 1)..EB(sub + 1)}
            \cup (IF sub = Len(existential_variables) - 1 THEN {} ELSE From(sub + 1))
    ELSE IF sup = getNofExistentialBlocks THEN {} ELSE From(sup)

\* Mutant: variables with the same explicit dependencies read each other.
ReadEachOther(v, deps, w, other) == Includes(deps, other)

\* checkExplicitDependencies: v with the dependencies deps may read w.
ExplicitRead(v, deps, w, other) ==
    Includes(deps, other) /\ (Len(deps) = Len(other) => w < v)

\* One turn of the loop over the explicit dependencies.
AddExplicit(v) ==
    LET deps == Sorted(explicit_dependencies[v])
        reads == {w \in processed : ExplicitRead(v, deps, w, original_dependency_map[w])}
        readers == ImplicitReaders(v, deps)
                      \cup {w \in processed : ExplicitRead(w, original_dependency_map[w], v, deps)}
        all == extended_dependencies
    IN
    IF readers \subseteq DOMAIN all
    THEN /\ extended_dependencies' =
               [e \in DOMAIN all \cup {v} |->
                   IF e = v THEN deps \o ImplicitRead(v, deps) \o SetToSeq(reads)
                   ELSE IF e \in readers THEN Append(all[e], v) ELSE all[e]]
         /\ original_dependency_map' = [e \in DOMAIN original_dependency_map \cup {v} |->
               IF e = v THEN deps ELSE original_dependency_map[e]]
         /\ processed' = processed \cup {v}
         /\ UNCHANGED phase
    ELSE /\ phase' = "thrown"
         /\ UNCHANGED resultVars

\* Without extended dependencies the lists are copied.
CopyExplicit(v) ==
    /\ original_dependency_map' = [e \in DOMAIN original_dependency_map \cup {v} |->
          IF e = v THEN explicit_dependencies[v] ELSE original_dependency_map[e]]
    /\ processed' = processed \cup {v}
    /\ UNCHANGED <<extended_dependencies, phase>>

ExtractExplicit(v) ==
    /\ phase = "explicit"
    /\ v \in DOMAIN explicit_dependencies \ processed
    /\ IF setting.extended THEN AddExplicit(v) ELSE CopyExplicit(v)
    /\ UNCHANGED <<setting, formulaVars, meaningVars>>

EndExtraction ==
    /\ phase = "explicit" /\ processed = DOMAIN explicit_dependencies
    /\ phase' = "done"
    /\ UNCHANGED <<setting, formulaVars, meaningVars, resultVars>>

Extraction ==
    \/ ExtractImplicit
    \/ \E v \in Existentials : ExtractExplicit(v)
    \/ EndExtraction
    \/ phase \in {"done", "thrown"} /\ UNCHANGED extractorVars

--------------------------------------------------------------------------------
(***************************************************************************)
(* Properties.                                                             *)
(***************************************************************************)

\* Where preprocess takes the innermost block from: from its own two indices
\* into the list of blocks.
InnermostBlock ==
    IF setting.ignore /\ ~lastBlockType(first_block_type)
    THEN ToSet(Block(getNofExistentialBlocks - 1)) ELSE {}

\* The lists of blocks keep the type and the extent of the last block, although
\* lines with explicit dependencies come in between and first_block_type starts
\* with an arbitrary value: what is ignored is the block the prefix ends with.
InnermostRecognised ==
    /\ phase = "reading" /\ universal_variables \o existential_variables # <<>>
          => (lastBlock = {} <=> lastBlockType(first_block_type))
    /\ phase \in {"explicit", "done"} /\ setting.ignore => InnermostBlock = lastBlock

\* The variables the solver gets dependencies for.
Kept == IF setting.ignore /\ universal_variables # <<>> THEN Existentials \ lastBlock
                                                       ELSE Existentials

\* The dependencies are those the lines of the input describe: a block depends
\* on the universals before it, however the lines were split and ordered.
\* They are listed in order, as the container reads them; only without extended
\* dependencies explicit ones stay as they were written.
DependenciesOfPrefix ==
    phase = "done" =>
        /\ DOMAIN original_dependency_map = Kept
        /\ \A e \in Kept : ToSet(original_dependency_map[e]) = prefix[e]
        /\ \A e \in Kept :
              setting.extended \/ e \notin DOMAIN explicit_dependencies
              => original_dependency_map[e] = Sorted(original_dependency_map[e])

\* A block sees all that a variable with explicit dependencies does, and an ignored
\* block follows.
IgnoredReader ==
    /\ Existentials \ Kept # {}
    /\ \E v \in DOMAIN explicit_dependencies, e \in Kept \ DOMAIN explicit_dependencies :
          prefix[v] \subseteq prefix[e]

\* A variable may read exactly the variables the reference allows, each listed
\* once (sizes are compared later), in whatever order the map with the explicit
\* dependencies is visited.  The extraction ends with an exception exactly if
\* a variable of that map is to be added to those of the ignored block, which has
\* no entry, because it is to be added to those of a block before.
ExtendedExact ==
    /\ phase = "done" /\ setting.extended =>
          /\ ~IgnoredReader
          /\ DOMAIN extended_dependencies = Kept
          /\ \A e \in Kept :
                /\ IsInjective(extended_dependencies[e])
                /\ ToSet(extended_dependencies[e])
                      = computeExtendedDependencies(prefix)[e] \cap (Universals \cup Kept)
    /\ phase = "thrown" => setting.extended /\ IgnoredReader
================================================================================
