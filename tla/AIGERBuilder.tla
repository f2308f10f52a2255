------------------------------ MODULE AIGERBuilder ------------------------------
(***************************************************************************)
(* The circuit of a model (buildAIGER.cc).                                 *)
(*                                                                         *)
(* A rule is a clause without the literal it forces, a sequence of         *)
(* literals: it fires if they are all false.  Definitions are sequences of *)
(* gates, the last one for the variable; they are found before there are   *)
(* arbiters, inner gates have two inputs, and there are no conditional     *)
(* definitions.  The builder hands out numbers for gates from the largest  *)
(* number of a variable on.                                                *)
(***************************************************************************)
EXTENDS Literals, Aiger

LOCAL INSTANCE SequencesExt

getAIGERRepresentation(x) == IF x > 0 THEN 2 * x ELSE -2 * x + 1
getAIGERNegation(x) == aiger_not(x)

newBuilder(last_variable) ==
    [circuit |-> aiger_init, start |-> last_variable + 1, last |-> last_variable,
     renamings |-> [v \in {} |-> 0]]

addGate(b, lhs, rhs0, rhs1) == [b EXCEPT !.circuit = aiger_add_and(@, lhs, rhs0, rhs1)]

--------------------------------------------------------------------------------
\* removeArbiters: the clauses the arbiters do not satisfy, without arbiters.
removeArbiters(cs, arbiters) ==
    LET active == SelectSeq(cs, LAMBDA C : \A k \in DOMAIN C : C[k] \notin arbiters)
    IN  [j \in DOMAIN active |-> SelectSeq(active[j], LAMBDA l : -l \notin arbiters)]

\* getIsActiveCircuit of one clause: a chain of gates, for that no literal is true.
clauseActive(b, C) ==
    LET n == Len(C)
        output(k) == IF k = 1 THEN -C[1] ELSE b.last + k - 1
        gate(k) == [lhs |-> getAIGERRepresentation(output(k + 1)),
                    rhs0 |-> getAIGERRepresentation(output(k)),
                    rhs1 |-> getAIGERRepresentation(-C[k + 1])]
    IN  [literal |-> output(n),
         builder |-> [b EXCEPT !.last = @ + n - 1, !.circuit.ands = @ \o [k \in 1..n - 1 |-> gate(k)]]]

addFires(r, a) == [builder |-> a.builder, fires |-> Append(r.fires, a.literal)]
addClauseActive(r, C) == addFires(r, clauseActive(r.builder, C))
clausesActive(b, cs) == FoldLeft(addClauseActive, [builder |-> b, fires |-> <<>>], cs)

outputOf(a, out) == [builder |-> a.builder, out |-> out]
anyFires(a) ==
    IF Len(a.fires) = 1 THEN outputOf(a, getAIGERRepresentation(a.fires[1]))
    ELSE LET none == clauseActive(a.builder, a.fires)
         IN  outputOf(none, getAIGERRepresentation(-none.literal))

activeCircuit(b, reduced) ==
    CASE Contains(reduced, <<>>) -> [builder |-> b, out |-> aiger_true]
      [] reduced = <<>> -> [builder |-> b, out |-> aiger_false]
      [] reduced # <<>> /\ ~Contains(reduced, <<>>) -> anyFires(clausesActive(b, reduced))

\* getIsActiveCircuit: one of the clauses fires.  The result is a literal of the circuit.
getIsActiveCircuit(b, cs, arbiters) == activeCircuit(b, removeArbiters(cs, arbiters))

combineAIGERVariables(b, in1, in2) ==
    CASE in1 = aiger_false \/ in2 = aiger_false -> [builder |-> b, out |-> aiger_false]
      [] in1 = aiger_true /\ in2 # aiger_false -> [builder |-> b, out |-> in2]
      [] in1 \notin {aiger_false, aiger_true} /\ in2 = aiger_true -> [builder |-> b, out |-> in1]
      [] {in1, in2} \cap {aiger_false, aiger_true} = {} ->
            LET out == getAIGERRepresentation(b.last + 1)
            IN  [builder |-> addGate([b EXCEPT !.last = @ + 1], out, in1, in2), out |-> out]

--------------------------------------------------------------------------------
\* checkVariableInDefinition: inner gates of definitions get numbers of the builder.
checkVariableInDefinition(b, l) ==
    IF var(l) < b.start THEN [builder |-> b, literal |-> l]
    ELSE LET known == var(l) \in DOMAIN b.renamings
             aux == IF known THEN b.renamings[var(l)] ELSE b.last + 1
         IN  [builder |-> IF known THEN b ELSE
                 [b EXCEPT !.last = aux,
                           !.renamings = [v \in DOMAIN @ \cup {var(l)} |->
                                             IF v = var(l) THEN aux ELSE @[v]]],
              literal |-> literal(aux, l > 0)]

\* addDefinitionCircuitAdder, with e the variable defined.
addDefinitionCircuitAdder(e, b, gate) ==
    LET step(r, l) == LET x == checkVariableInDefinition(r.builder, l)
                      IN  [builder |-> x.builder,
                           inputs |-> Append(r.inputs, getAIGERRepresentation(x.literal))]
        in == FoldLeft(step, [builder |-> b, inputs |-> <<>>], gate.inputs)
        constant == IF gate.output > 0 THEN aiger_true ELSE aiger_false
        out == checkVariableInDefinition(in.builder, gate.output)
    IN  CASE gate.inputs = <<>> ->
                addGate(in.builder, getAIGERRepresentation(e), constant, constant)
          [] Len(gate.inputs) = 1 ->
                addGate(in.builder, getAIGERRepresentation(e), in.inputs[1], aiger_true)
          [] Len(gate.inputs) = 2 ->
                addGate(out.builder, getAIGERRepresentation(out.literal),
                        in.inputs[1], in.inputs[2])

addDefinition(b, e, gates) ==
    FoldLeft(LAMBDA c, gate : addDefinitionCircuitAdder(e, c, gate), b, gates)

--------------------------------------------------------------------------------
\* filterClauses: the clauses with a last literal of that sign, without it.
filterClauses(cs, positive) ==
    LET those == SelectSeq(cs, LAMBDA C : (Last(C) > 0) = positive)
    IN  [k \in DOMAIN those |-> Front(those[k])]

addResult(e, r, negated) ==
    addGate(r.builder, getAIGERRepresentation(e),
            IF negated THEN getAIGERNegation(r.out) ELSE r.out, aiger_true)

\* addForcingClauses with a constant: only the rules against it matter.
addConstantRules(b, e, positive, negative, constant, arbiters) ==
    addResult(e, getIsActiveCircuit(b, IF constant > 0 THEN negative ELSE positive, arbiters),
              constant > 0)

\* addForcingClauses with a tree, whose leaves for the rarer value become a circuit:
\* own and other say that a rule for that value, or for the other one, fires.
unlessFired(r, fired) == combineAIGERVariables(r.builder, getAIGERNegation(fired), r.out)
unlessFiredNot(r, fired) ==
    combineAIGERVariables(r.builder, getAIGERNegation(fired), getAIGERNegation(r.out))

addTreeRules(b, e, own, other, leaves, value, arbiters) ==
    addResult(e, unlessFiredNot(unlessFired(getIsActiveCircuit(b, leaves, arbiters), other), own),
              value)

\* The same with the circuits for both kinds of rules.
addTree(e, p, n, positive_default, negative_default, arbiters) ==
    CASE p.out = aiger_true ->
            addGate(p.builder, getAIGERRepresentation(e), aiger_true, aiger_true)
      [] p.out # aiger_true /\ n.out = aiger_true ->
            addGate(n.builder, getAIGERRepresentation(e), aiger_false, aiger_false)
      [] p.out # aiger_true /\ n.out # aiger_true ->
            IF Len(positive_default) > Len(negative_default)
            THEN addTreeRules(n.builder, e, n.out, p.out, negative_default, FALSE, arbiters)
            ELSE addTreeRules(n.builder, e, p.out, n.out, positive_default, TRUE, arbiters)

addForcingClauses(b, e, positive, negative, defaults, arbiters) ==
    LET p == getIsActiveCircuit(b, positive, arbiters)
    IN  IF Len(defaults) = 1
        THEN addConstantRules(b, e, positive, negative, defaults[1][1], arbiters)
        ELSE addTree(e, p, getIsActiveCircuit(p.builder, negative, arbiters),
                     filterClauses(defaults, TRUE), filterClauses(defaults, FALSE), arbiters)

\* computeCircuitRepresentation and addSkolemFunction.  universals and existentials
\* are sequences, rules a function of the existentials.
computeCircuitRepresentation(universals, existentials, rules, last_variable, arbiters) ==
    LET name(c, u) == aiger_add_input(c, getAIGERRepresentation(u), u)
        start == newBuilder(last_variable)
        addSkolemFunction(b, e) ==
            LET r == rules[e]
                done == IF r.definition # <<>> THEN addDefinition(b, e, r.definition)
                        ELSE addForcingClauses(b, e, r.positive, r.negative, r.defaults, arbiters)
            IN  [done EXCEPT !.circuit = aiger_add_output(@, getAIGERRepresentation(e), e)]
    IN  FoldLeft(addSkolemFunction,
                 [start EXCEPT !.circuit = FoldLeft(name, @, universals)], existentials).circuit

\* write, with writeToFile: nothing is written if the circuit is not right.
writeModelAsAIGToFile(universals, existentials, rules, last_variable, arbiters, mode) ==
    LET c == computeCircuitRepresentation(universals, existentials, rules, last_variable, arbiters)
    IN  IF aiger_check(c) THEN aiger_write_to_file(c, mode) ELSE <<>>
================================================================================
