------------------------------ MODULE ModelLogger ------------------------------
(***************************************************************************)
(* The clauses of a model (modellogger.cc).                                *)
(*                                                                         *)
(* A writer keeps the lines written and the next number for an auxiliary   *)
(* variable.  Each variable has a comment with its number, followed by its *)
(* clauses.  Rules, definitions and defaults are those of AIGERBuilder.    *)
(***************************************************************************)
EXTENDS Literals, Sequences

LOCAL INSTANCE SequencesExt

writeClauseToStream(w, C) ==
    [w EXCEPT !.lines = Append(@, [kind |-> "clause", clause |-> C])]
writeFormulaToStream(w, cs) == FoldLeft(writeClauseToStream, w, cs)

\* applyAssignment for each clause: those the arbiters do not satisfy, without arbiters.
applyAssignment(cs, arbiters) ==
    LET open == SelectSeq(cs, LAMBDA C : \A k \in DOMAIN C : C[k] \notin arbiters)
    IN  [j \in DOMAIN open |-> SelectSeq(open[j], LAMBDA l : -l \notin arbiters)]

\* writeClauseActive: a new variable that is true iff all literals are false.
writeClauseActive(w, C) ==
    LET active == w.unused
        implied == [k \in DOMAIN C |-> <<-C[k], -active>>]
    IN  [active |-> active,
         writer |-> writeFormulaToStream([w EXCEPT !.unused = @ + 1],
                                         <<Append(C, active)>> \o implied)]

addActive(r, a) == [active |-> Append(r.active, a.active), writer |-> a.writer]
addActiveClause(r, C) == addActive(r, writeClauseActive(r.writer, C))
writeClausesActive(w, cs) == FoldLeft(addActiveClause, [active |-> <<>>, writer |-> w], cs)

writeForcingClauses(w, cs, arbiters) == writeClausesActive(w, applyAssignment(cs, arbiters))

--------------------------------------------------------------------------------
\* processForcingClauses with a constant, from its literal: only the rules against it
\* matter.
constantUnless(constant, none) ==
    writeFormulaToStream(none.writer,
                         <<<<-none.active, constant>>, <<none.active, -constant>>>>)
constantAfter(constant, r) ==
    IF r.active = <<>> THEN writeClauseToStream(r.writer, <<constant>>)
    ELSE constantUnless(constant, writeClauseActive(r.writer, r.active))

processConstant(w, constant, positive, negative, arbiters) ==
    constantAfter(constant,
                  writeForcingClauses(w, IF constant > 0 THEN negative ELSE positive, arbiters))

\* writeClausalEncodingDefaults: the leaves, where the literal given is false.
writeClausalEncodingDefaults(w, defaults, activator) ==
    writeFormulaToStream(w, [k \in DOMAIN defaults |-> Append(defaults[k], activator)])

\* Only rules for the literal l: where none fires the leaves decide.
oneSign(l, none, defaults) ==
    writeClausalEncodingDefaults(writeClauseToStream(none.writer, <<none.active, l>>),
                                 defaults, -none.active)

\* Rules for both signs, with two variables for that none of one sign fires.
neitherFires(w, e, noPositive, noNegative) ==
    writeClauseActive(writeFormulaToStream(w, <<<<noPositive, e>>, <<noNegative, -e>>>>),
                      <<-noPositive, -noNegative>>)
leavesUnless(neither, defaults) ==
    writeClausalEncodingDefaults(neither.writer, defaults, -neither.active)
bothSigns(e, no, defaults) ==
    leavesUnless(neitherFires(no.writer, e, no.active[1], no.active[2]), defaults)

afterRules(w, e, positive, negative, defaults) ==
    CASE positive = <<>> /\ negative = <<>> -> writeFormulaToStream(w, defaults)
      [] positive = <<>> /\ negative # <<>> -> oneSign(-e, writeClauseActive(w, negative), defaults)
      [] positive # <<>> /\ negative = <<>> -> oneSign(e, writeClauseActive(w, positive), defaults)
      [] positive # <<>> /\ negative # <<>> ->
            bothSigns(e, writeClausesActive(w, <<positive, negative>>), defaults)

\* processForcingClauses with a tree.
processTree(w, e, positive, negative, defaults, arbiters) ==
    LET p == writeForcingClauses(w, positive, arbiters)
        n == writeForcingClauses(p.writer, negative, arbiters)
    IN  afterRules(n.writer, e, p.active, n.active, defaults)

\* There is always a default: a constant, or a tree with at least two leaves.
processForcingClauses(w, e, r, arbiters) ==
    IF Len(r.defaults) = 1
    THEN processConstant(w, r.defaults[1][1], r.positive, r.negative, arbiters)
    ELSE processTree(w, e, r.positive, r.negative, r.defaults, arbiters)

--------------------------------------------------------------------------------
clausalEncodingAND(gate) ==
    [k \in DOMAIN gate.inputs |-> <<gate.inputs[k], -gate.output>>]
      \o <<Append([k \in DOMAIN gate.inputs |-> -gate.inputs[k]], gate.output)>>

\* writeFormulaToStream of a definition, with writeLiteral: auxiliary variables get
\* the next numbers when they are first met.
writeDefinition(w, gates, last_variable, arbiters) ==
    LET encoded == FoldLeft(LAMBDA s, gate : s \o clausalEncodingAND(gate), <<>>, gates)
        cs == applyAssignment(encoded, arbiters)
        met == FoldLeft(LAMBDA s, l : IF Contains(s, var(l)) THEN s ELSE Append(s, var(l)),
                        <<>>, FoldLeft(LAMBDA s, C : s \o C, <<>>, cs))
        new == SelectSeq(met, LAMBDA v : v > last_variable /\ v \notin DOMAIN w.renamings)
        renamings == [v \in DOMAIN w.renamings \cup Range(new) |->
                         IF v \in DOMAIN w.renamings THEN w.renamings[v]
                         ELSE w.unused - 1 + CHOOSE k \in DOMAIN new : new[k] = v]
        renamed(l) == IF var(l) > last_variable THEN literal(renamings[var(l)], l > 0) ELSE l
    IN  writeFormulaToStream([w EXCEPT !.renamings = renamings, !.unused = @ + Len(new)],
                             [j \in DOMAIN cs |-> [k \in DOMAIN cs[j] |-> renamed(cs[j][k])]])

\* writeModelAsCNFToFile: rules is a function of the existentials; the header, with the
\* number of variables, comes first.  Its number of clauses, which nobody reads, is left out.
writeModelAsCNFToFile(existentials, rules, last_variable, arbiters) ==
    LET writeVariable(w, e) ==
            LET named == [w EXCEPT !.lines = Append(@, [kind |-> "comment", variable |-> e])]
            IN  IF rules[e].definition # <<>>
                THEN writeDefinition(named, rules[e].definition, last_variable, arbiters)
                ELSE processForcingClauses(named, e, rules[e], arbiters)
        start == [lines |-> <<>>, unused |-> last_variable + 1, renamings |-> [v \in {} |-> 0]]
        written == FoldLeft(writeVariable, start, existentials)
    IN  <<[kind |-> "problem", vars |-> written.unused - 1]>> \o written.lines
================================================================================
