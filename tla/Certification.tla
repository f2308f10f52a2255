----------------------------- MODULE Certification -----------------------------
(***************************************************************************)
(* From the rules logged in a search to a certificate, and from the        *)
(* certificate to a verdict.                                               *)
(*                                                                         *)
(* The solver logs rules and definitions, and when it has found a model it *)
(* writes it as clauses or as a circuit.  A writer may be stopped half-way, *)
(* what it has written stays.  certifyModel.py is run on a formula and a   *)
(* certificate later.  It converts an ASCII circuit to the binary format   *)
(* (aigtoaig), has the inputs of each output compared with the prefix      *)
(* (AIGERDependencyChecker.cc), has the circuit written as clauses         *)
(* (AigerCnfConverter.cc), and checks that they imply the matrix; clauses  *)
(* are checked by the script itself.  The script trusts no rule: here they *)
(* may read what they like, but not each other, and be contradictory.      *)
(***************************************************************************)
EXTENDS DQBF, ModelLogger, AIGERBuilder, ClauseSat

LOCAL INSTANCE SequencesExt

CONSTANTS
    universal_variables, existential_variables,  \* in the order of the solver
    Arbiters,
    max_variable_in_matrix,
    Formulas,          \* prefix, and clauses of literals
    ForcingClauses,    \* clauses of the log, with the forced literal at the end
    Definitions,       \* variable and gates
    DefaultClauses,    \* certificates of the default values, for all existentials
    MaxRules,          \* clauses and gates logged
    Options,           \* sets of options of certifyModel.py, and of what is installed
    Formats

ASSUME CertificationAssumption ==
    /\ Range(universal_variables) = Universals /\ Range(existential_variables) = Existentials
    /\ \A v \in Variables : v \in 1..max_variable_in_matrix
    /\ \A a \in Arbiters : a > max_variable_in_matrix
    /\ Options \subseteq SUBSET {"check_def", "check_cons", "std_dep", "abc"}
    /\ Formats \subseteq {"cnf", "aag", "aig"}

VARIABLES
    formula,
    rules,               \* of each existential: definition, rules of both signs, default clauses
    arbiter_assignment,  \* literals
    options,
    phase,               \* "search", "written", "converted", "dependencies", "clauses", "done"
    format,
    file,
    complete,            \* the writer was not stopped
    clauses,             \* of the certificate
    verdict              \* "none", "validated", "invalid"

vars == <<formula, rules, arbiter_assignment, options, phase, format, file, complete,
          clauses, verdict>>

--------------------------------------------------------------------------------
(***************************************************************************)
(* The log.                                                                *)
(***************************************************************************)
CertificationInit ==
    /\ formula \in Formulas /\ options \in Options
    /\ \E defaults \in DefaultClauses : rules = [e \in Existentials |->
          [definition |-> <<>>, positive |-> <<>>, negative |-> <<>>, defaults |-> defaults[e]]]
    /\ arbiter_assignment = {} /\ phase = "search" /\ format = "none" /\ file = <<>>
    /\ complete = FALSE /\ clauses = {} /\ verdict = "none"

logged == {<<e, sort, k>> \in Existentials \X {"positive", "negative", "definition"} \X (1..MaxRules) :
              k \in DOMAIN rules[e][sort]}

\* The variables the clauses or gates of an existential read.
variablesRead(r) ==
    IF r.definition # <<>> THEN {var(l) : l \in UNION {Range(g.inputs) : g \in Range(r.definition)}}
    ELSE {var(l) : l \in UNION {Range(C) : C \in Range(r.positive \o r.negative \o r.defaults)}}

\* The dependency container keeps rules from reading each other.
acyclic(rs) ==
    \A S \in SUBSET Existentials \ {{}} : \E e \in S : (variablesRead(rs[e]) \ {e}) \cap S = {}

unchangedSearch == UNCHANGED <<formula, arbiter_assignment, options, phase, format, file, complete,
                               clauses, verdict>>

addForcingClause(C) ==
    LET e == var(Last(C))
        fc == Front(C)
    IN  /\ phase = "search" /\ Cardinality(logged) < MaxRules
        /\ rules' = IF Last(C) > 0 THEN [rules EXCEPT ![e].positive = Append(@, fc)]
                                   ELSE [rules EXCEPT ![e].negative = Append(@, fc)]
        /\ acyclic(rules')
        /\ unchangedSearch

AddDefinition(d) ==
    /\ phase = "search" /\ Cardinality(logged) < MaxRules /\ rules[d.variable].definition = <<>>
    /\ rules' = [rules EXCEPT ![d.variable].definition = d.gates]
    /\ acyclic(rules')
    /\ unchangedSearch

--------------------------------------------------------------------------------
(***************************************************************************)
(* Writing.                                                                *)
(***************************************************************************)
\* Clauses are written in the order of an unordered_map.
orders(as) == IF as = "cnf" THEN SetToSeqs(Existentials) ELSE {existential_variables}

certificate(as, arbiters, order) ==
    IF as = "cnf"
    THEN writeModelAsCNFToFile(order, rules, max_variable_in_matrix, arbiters)
    ELSE writeModelAsAIGToFile(universal_variables, order, rules,
                               max_variable_in_matrix, arbiters, as)

\* The end of solve.
WriteModel(as, arbiters, order) ==
    /\ phase = "search" /\ phase' = "written"
    /\ format' = as /\ arbiter_assignment' = arbiters
    /\ file' = certificate(as, arbiters, order) /\ complete' = TRUE
    /\ UNCHANGED <<formula, rules, options, clauses, verdict>>

\* The file ends after some records, or within one.
StopWriting(n, within) ==
    /\ phase = "written" /\ complete /\ n \in 0..Len(file) - 1
    /\ complete' = FALSE
    /\ file' = SubSeq(file, 1, n) \o (IF within THEN <<[kind |-> "broken"]>> ELSE <<>>)
    /\ UNCHANGED <<formula, rules, arbiter_assignment, options, phase, format, clauses, verdict>>

--------------------------------------------------------------------------------
(***************************************************************************)
(* Circuits.                                                               *)
(***************************************************************************)
unchangedCertification ==
    UNCHANGED <<formula, rules, arbiter_assignment, options, format, complete>>

decide(validated) ==
    /\ phase' = "done" /\ verdict' = IF validated THEN "validated" ELSE "invalid"
    /\ unchangedCertification

\* checkModelAIG: aigtoaig for ASCII files.
ConvertToBinary ==
    /\ phase = "written" /\ format \in {"aag", "aig"} /\ phase' = "converted"
    /\ file' = IF format = "aag" THEN aigtoaig(file) ELSE file
    /\ unchangedCertification /\ UNCHANGED <<clauses, verdict>>

\* checkModelAIG: with ABC installed a simplified file is read, which is never there,
\* since the path ABC gets contains the name of the temporary directory twice.
modelFile == IF "abc" \in options THEN <<>> ELSE file

\* Mutant: the commented-out line, which keeps the second operand only.
SecondOperandOnly(c) ==
    FoldLeft(LAMBDA computed, g :
                 [v \in DOMAIN computed \cup {aiger_lit2var(g.lhs)} |->
                     IF v # aiger_lit2var(g.lhs) THEN computed[v]
                     ELSE IF aiger_lit2var(g.rhs1) \in DOMAIN computed
                          THEN computed[aiger_lit2var(g.rhs1)] ELSE {}],
             [v \in inputVariables(c) |->
                 {i.name : i \in {j \in Range(c.inputs) : aiger_lit2var(j.lit) = v}}],
             c.ands)

\* computeDependencies: the gates in the order of the file; of an operand that has not
\* been seen nothing is known.
computeDependencies(c) ==
    FoldLeft(LAMBDA computed, g :
                 [v \in DOMAIN computed \cup {aiger_lit2var(g.lhs)} |->
                     IF v # aiger_lit2var(g.lhs) THEN computed[v]
                     ELSE UNION {computed[w] : w \in operands(g) \cap DOMAIN computed}],
             [v \in inputVariables(c) |->
                 {i.name : i \in {j \in Range(c.inputs) : aiger_lit2var(j.lit) = v}}],
             c.ands)

\* check.  An output or an input without a name ends the program.
dependenciesOk(c) ==
    LET computed == computeDependencies(c)
    IN  /\ \A i \in Range(c.inputs) : i.name # 0
        /\ Len(c.outputs) = Cardinality(Existentials)
        /\ \A o \in Range(c.outputs) :
              /\ o.name # 0
              /\ aiger_lit2var(o.lit) \in DOMAIN computed =>
                    computed[aiger_lit2var(o.lit)] \subseteq
                        IF o.name \in Existentials THEN formula.prefix[o.name] ELSE {}

CheckDependencies ==
    LET c == aiger_open_and_read_from_file(modelFile).circuit
    IN  /\ phase = "converted" /\ UNCHANGED <<clauses, file>>
        /\ IF dependenciesOk(c) THEN /\ phase' = "dependencies"
                                     /\ unchangedCertification /\ UNCHANGED verdict
                                ELSE decide(FALSE)

\* handleAnd, with name the variable that stands for a literal.
handleAnd(g, name) ==
    CASE g.rhs0 = 0 \/ g.rhs1 = 0 -> {{-name[g.lhs]}}
      [] g.rhs0 = 1 /\ g.rhs1 # 0 ->
            {{name[g.lhs], -name[g.rhs1]}, {-name[g.lhs], name[g.rhs1]}}
              \cup (IF g.rhs1 = 1 THEN {{name[g.lhs]}} ELSE {})
      [] g.rhs0 > 1 /\ g.rhs1 = 1 ->
            {{name[g.lhs], -name[g.rhs0]}, {-name[g.lhs], name[g.rhs0]}}
      [] g.rhs0 > 1 /\ g.rhs1 > 1 ->
            {{name[g.lhs], -name[g.rhs0], -name[g.rhs1]},
             {-name[g.lhs], name[g.rhs0]}, {-name[g.lhs], name[g.rhs1]}}

\* CNFConverter: inputs are renamed to their variables, gates to unused ones.
writeCNFModel(c) ==
    LET lits == 0..2 * maxvar(c) + 1
        inputOf(v) == {i \in Range(c.inputs) : aiger_lit2var(i.lit) = v}
        variable(v) == IF inputOf(v) # {} THEN (CHOOSE i \in inputOf(v) : TRUE).name
                       ELSE max_variable_in_matrix + 1 + v
        name == [l \in lits |-> literal(variable(aiger_lit2var(l)), aiger_sign(l) = 0)]
        outputClauses(o) ==
            CASE o.lit = 0 -> {{-o.name}}
              [] o.lit = 1 -> {{o.name}}
              [] o.lit > 1 -> {{o.name, -name[o.lit]}, {-o.name, name[o.lit]}}
    IN  UNION {handleAnd(g, name) : g \in Range(c.ands)}
          \cup UNION {outputClauses(o) : o \in Range(c.outputs)}

\* aig2cnf.  The error of the reader is ignored here, too.
ConvertToCNF ==
    /\ phase = "dependencies" /\ phase' = "clauses"
    /\ clauses' = writeCNFModel(aiger_open_and_read_from_file(modelFile).circuit)
    /\ unchangedCertification /\ UNCHANGED <<file, verdict>>

--------------------------------------------------------------------------------
(***************************************************************************)
(* Clauses.                                                                *)
(***************************************************************************)
\* parseModel: the clauses after the comment of each variable, or an exception.
parseModel ==
    LET lines == file
        step(m, line) ==
            CASE line.kind = "comment" -> [m EXCEPT !.current = line.variable,
                    !.model = [e \in DOMAIN @ \cup {line.variable} |->
                                  IF e \in DOMAIN @ THEN @[e] ELSE {}]]
              [] line.kind = "clause" -> [m EXCEPT !.model[m.current] = @ \cup {Range(line.clause)}]
              [] line.kind = "problem" -> m
    IN  FoldLeft(step, [current |-> 0, model |-> [e \in {} |-> {}]], lines).model

parses ==
    /\ file # <<>> /\ file[1].kind = "problem"
    /\ \A k \in DOMAIN file : file[k].kind # "broken"
    /\ \A k \in DOMAIN file : file[k].kind = "clause" =>
          \A l \in Range(file[k].clause) : var(l) <= file[1].vars

variablesIn(cs) == {var(l) : l \in UNION cs}

\* getModelVaribles: the variables whose clauses are read for those in S, and S.
RECURSIVE sectionsRead(_, _)
sectionsRead(model, S) ==
    LET next == S \cup UNION {variablesIn(model[e]) \cap Existentials : e \in S \cap DOMAIN model}
    IN  IF next = S THEN S ELSE sectionsRead(model, next)

\* checkDynamicDependencies; the option about dependencies has no influence.
checkDynamicDependencies(model) ==
    \A e \in DOMAIN model :
        LET read == sectionsRead(model, {e})
        IN  /\ read \subseteq DOMAIN model
            /\ UNION {variablesIn(model[d]) : d \in read} \cap Universals \subseteq formula.prefix[e]

\* checkModelQBF: for each universal assignment the clauses can be satisfied.
checkModelQBF(cs) == \A u \in UniversalAssignments : Sat(under(cs, cubeLiterals(u)))

\* All other variables, auxiliary ones too, are existential.
consistency_checker(cs) == checkModelQBF(cs)

maxVarIndex(cs) == CHOOSE v \in variablesIn(cs) : \A w \in variablesIn(cs) : w <= v
renameFormula(cs, by) == {{literal(var(l) + by, l > 0) : l \in C} : C \in cs}
equality(v, w) == {{v, -w}, {-v, w}}

\* checkDefinability: no two solutions agree on the variables but not on e.
checkDefinability(cs, defining, e) ==
    LET max_variable == maxVarIndex(cs \cup {Existentials})
    IN  /\ e \in variablesIn(cs)
        /\ ~Sat(cs \cup renameFormula(cs, max_variable)
                   \cup UNION {equality(v, v + max_variable) : v \in defining \cap variablesIn(cs)}
                   \cup {{e}, {-(e + max_variable)}})

\* The script computes them itself, by the same definition as the solver's.
extendedDependencies == computeExtendedDependencies(formula.prefix)

dependencies == IF "std_dep" \in options THEN formula.prefix ELSE extendedDependencies

\* checkModelCNF up to the check of the matrix.
CheckClauses ==
    LET model == parseModel
        cs == UNION {model[e] : e \in DOMAIN model}
    IN  /\ phase = "written" /\ format = "cnf" /\ UNCHANGED file
        /\ IF /\ parses
              /\ checkDynamicDependencies(model)
              /\ "check_cons" \in options => consistency_checker(cs)
              /\ "check_def" \in options =>
                    \A e \in Existentials : checkDefinability(cs, dependencies[e], e)
           THEN /\ phase' = "clauses" /\ clauses' = cs
                /\ unchangedCertification /\ UNCHANGED verdict
           ELSE decide(FALSE) /\ UNCHANGED clauses

\* check_matrix: no clause can be false.
check_matrix(cs, matrix) == \A C \in matrix : ~Sat(under(cs, negateEach(C)))

\* checkModel, the end.
CheckMatrix ==
    /\ phase = "clauses" /\ UNCHANGED <<clauses, file>>
    /\ decide(Sat(clauses) /\ check_matrix(clauses, formula.clauses))

--------------------------------------------------------------------------------
ArbiterAssignments == {cubeLiterals(b) : b \in [Arbiters -> BOOLEAN]}

CertificationNext ==
    \/ \E C \in ForcingClauses : addForcingClause(C)
    \/ \E d \in Definitions : AddDefinition(d)
    \/ \E as \in Formats, arbiters \in ArbiterAssignments : \E order \in orders(as) :
          WriteModel(as, arbiters, order)
    \/ \E n \in 0..Len(file) - 1, within \in BOOLEAN : StopWriting(n, within)
    \/ ConvertToBinary
    \/ CheckDependencies
    \/ ConvertToCNF
    \/ CheckClauses
    \/ CheckMatrix

CertificationSpec == CertificationInit /\ [][CertificationNext]_vars

--------------------------------------------------------------------------------
(***************************************************************************)
(* What the rules say.                                                     *)
(***************************************************************************)
\* The value of a definition: that of its last gate.
definedValue(gates, s) ==
    LET value(t, g) ==
            LET b == \A l \in Range(g.inputs) : holds(l, t)
            IN  Merge([v \in {var(g.output)} |-> b = (g.output > 0)], t)
        last == Last(gates)
    IN  FoldLeft(value, s, gates)[var(last.output)]

fires(C, s) == \A l \in Range(C) : ~holds(l, s)

\* The values the rules of e allow at s, which has values for the arbiters too; a rule
\* for a value takes precedence over the default.
allowed(e, s) ==
    LET r == rules[e]
        forced == {b \in BOOLEAN :
                      \E C \in Range(IF b THEN r.positive ELSE r.negative) : fires(C, s)}
    IN  CASE r.definition # <<>> -> {definedValue(r.definition, s)}
          [] r.definition = <<>> /\ forced # {} -> forced
          [] r.definition = <<>> /\ forced = {} ->
                {Last(C) > 0 : C \in {D \in Range(r.defaults) : fires(Front(D), s)}}

arbiterValues == [a \in Arbiters |-> a \in arbiter_assignment]

\* The assignments that obey the rules at u.
ruleAssignments(u) ==
    {t \in {Join(u, r) : r \in Responses} :
        \A e \in Existentials : allowed(e, Merge(t, arbiterValues)) = {t[e]}}

\* No two rules fire for both values where the variables read obey theirs.
consistentRules == \A u \in UniversalAssignments : ruleAssignments(u) # {}
ruleModel == [u \in UniversalAssignments |-> CHOOSE t \in ruleAssignments(u) : TRUE]

satisfied(matrix, t) == \A C \in matrix : \E l \in C : holds(l, t)

rulesAreModel ==
    LET F == ruleModel
    IN  /\ \A u \in UniversalAssignments : satisfied(formula.clauses, F[u])
        /\ \A e \in Existentials : \A u, w \in UniversalAssignments :
              (\A x \in formula.prefix[e] : u[x] = w[x]) => F[u][e] = F[w][e]

\* The universals the clauses or gates of e mention, its own and those of the existentials
\* it mentions.
RECURSIVE mentioned(_, _)
mentioned(e, unread) ==
    LET own == variablesRead(rules[e])
    IN  (own \cap Universals) \cup UNION {mentioned(d, unread \ {e}) : d \in own \cap (unread \ {e})}

rulesObeyPrefix == \A e \in Existentials : mentioned(e, Existentials) \subseteq formula.prefix[e]

\* The formulas with a model.
trueFormulas ==
    {f \in Formulas : Satisfiable(f.prefix, {t \in TotalAssignments : satisfied(f.clauses, t)})}

--------------------------------------------------------------------------------
(***************************************************************************)
(* Properties.                                                             *)
(***************************************************************************)
\* The value of a literal of a circuit at u.
RECURSIVE circuitValue(_, _, _)
circuitValue(c, lit, u) ==
    LET v == aiger_lit2var(lit)
        inputs == {i \in Range(c.inputs) : aiger_lit2var(i.lit) = v}
        value == IF v = 0 THEN FALSE
                 ELSE IF inputs # {} THEN u[(CHOOSE i \in inputs : TRUE).name]
                 ELSE LET g == andOf(c, v)
                      IN  circuitValue(c, g.rhs0, u) /\ circuitValue(c, g.rhs1, u)
    IN  value # (aiger_sign(lit) = 1)

circuitAgrees ==
    LET read == aiger_open_and_read_from_file(file)
    IN  /\ read.ok
        /\ {o.name : o \in Range(read.circuit.outputs)} = Existentials
        /\ \A u \in UniversalAssignments : \A o \in Range(read.circuit.outputs) :
              circuitValue(read.circuit, o.lit, u) = ruleModel[u][o.name]

clausesAgree ==
    LET model == parseModel
        cs == UNION {model[e] : e \in DOMAIN model}
    IN  /\ parses
        /\ \A u \in UniversalAssignments :
              /\ Sat(under(cs, cubeLiterals(ruleModel[u])))
              /\ \A e \in Existentials :
                    ~Sat(under(cs, cubeLiterals(u) \cup {literal(e, ~ruleModel[u][e])}))

\* A certificate that was written to its end, as clauses or as a circuit in either
\* format, and after its conversion, gives each existential the value of its rules, for
\* each universal assignment, if the rules are not contradictory.
CertificateRight ==
    complete /\ phase \in {"written", "converted"} /\ consistentRules =>
        IF format = "cnf" THEN clausesAgree ELSE circuitAgrees

\* A formula that is validated has a model: for circuits always, even if the file is
\* cut off; for clauses with both options, or if they were written to the end for rules
\* that are not contradictory.  And the certificate of a model is validated, if each rule
\* mentions dependencies only, unless ABC is installed.
VerdictRight ==
    LET trusted == \/ format # "cnf"
                   \/ {"check_def", "check_cons"} \subseteq options
                   \/ complete /\ consistentRules
        accepted == /\ complete /\ consistentRules /\ rulesAreModel /\ rulesObeyPrefix
                    /\ format = "cnf" \/ "abc" \notin options
    IN  phase = "done" => /\ verdict = "validated" /\ trusted => formula \in trueFormulas
                          /\ accepted => verdict = "validated"
================================================================================
