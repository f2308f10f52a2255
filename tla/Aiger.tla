--------------------------------- MODULE Aiger ---------------------------------
(***************************************************************************)
(* The AIGER library: and-inverter graphs, the ASCII and the binary format *)
(* (aiger.c), and the conversion between them (aigtoaig.c).                *)
(*                                                                         *)
(* Certificates have inputs, gates and outputs only; latches, properties   *)
(* and comments are left out, and so is the largest index, which is that   *)
(* of the literals used.  A name is the number of a variable, 0 stands for *)
(* none.  A file is a sequence of records: lines, and bytes for the gates  *)
(* of the binary format.  A record of kind "broken" is the beginning of    *)
(* one.  Differences of literals do not reach 32 bits.                     *)
(***************************************************************************)
EXTENDS Integers, Sequences

LOCAL INSTANCE SequencesExt

CONSTANT ByteBase  \* numbers up to ByteBase - 1 fit into a byte; 128

ASSUME ByteBaseAssumption == ByteBase \in Nat /\ ByteBase > 1

aiger_false == 0
aiger_true == 1
aiger_sign(lit) == lit % 2
aiger_strip(lit) == lit - aiger_sign(lit)
aiger_not(lit) == aiger_strip(lit) + 1 - aiger_sign(lit)
aiger_lit2var(lit) == lit \div 2

--------------------------------------------------------------------------------
(***************************************************************************)
(* Circuits.                                                               *)
(***************************************************************************)
aiger_init == [inputs |-> <<>>, ands |-> <<>>, outputs |-> <<>>]

aiger_add_input(c, lit, name) ==
    [c EXCEPT !.inputs = Append(@, [lit |-> lit, name |-> name])]
aiger_add_output(c, lit, name) ==
    [c EXCEPT !.outputs = Append(@, [lit |-> lit, name |-> name])]
aiger_add_and(c, lhs, rhs0, rhs1) ==
    [c EXCEPT !.ands = Append(@, [lhs |-> lhs, rhs0 |-> rhs0, rhs1 |-> rhs1])]

inputVariables(c) == {aiger_lit2var(i.lit) : i \in Range(c.inputs)}
andVariables(c) == {aiger_lit2var(g.lhs) : g \in Range(c.ands)}
andOf(c, v) == c.ands[CHOOSE k \in DOMAIN c.ands : aiger_lit2var(c.ands[k].lhs) = v]
operands(g) == {aiger_lit2var(g.rhs0), aiger_lit2var(g.rhs1)}

aiger_literal_defined(c, lit) == aiger_lit2var(lit) \in {0} \cup inputVariables(c) \cup andVariables(c)

maxvar(c) ==
    FoldSet(LAMBDA v, w : IF v > w THEN v ELSE w, 0,
            inputVariables(c) \cup andVariables(c)
              \cup {aiger_lit2var(o.lit) : o \in Range(c.outputs)}
              \cup UNION {operands(g) : g \in Range(c.ands)})

\* The gates of vs on cycles, or that read such a gate.
RECURSIVE cyclicGates(_, _)
cyclicGates(c, vs) ==
    LET rest == {v \in vs : operands(andOf(c, v)) \cap vs # {}}
    IN  IF rest = vs THEN vs ELSE cyclicGates(c, rest)

\* The checks hold if they set no error.
aiger_check_outputs_defined(c) == \A o \in Range(c.outputs) : aiger_literal_defined(c, o.lit)
aiger_check_right_hand_sides_defined(c) ==
    \A g \in Range(c.ands) : aiger_literal_defined(c, g.rhs0) /\ aiger_literal_defined(c, g.rhs1)
aiger_check_for_cycles(c) == cyclicGates(c, andVariables(c)) = {}

aiger_check(c) ==
    /\ aiger_check_outputs_defined(c)
    /\ aiger_check_right_hand_sides_defined(c)
    /\ aiger_check_for_cycles(c)

--------------------------------------------------------------------------------
(***************************************************************************)
(* The numbering the binary format needs: inputs, then gates after what    *)
(* they read, without gaps.                                                *)
(***************************************************************************)
aiger_is_reencoded(c) ==
    LET n == Len(c.inputs)
    IN  /\ \A k \in 1..n : c.inputs[k].lit = 2 * k
        /\ \A k \in DOMAIN c.ands :
              /\ c.ands[k].lhs = 2 * (n + k)
              /\ c.ands[k].lhs >= c.ands[k].rhs0 /\ c.ands[k].rhs0 >= c.ands[k].rhs1

\* aiger_reencode_lit: the variables in seq, followed by v and the gates below it
\* in postfix order, the smaller operand first.
RECURSIVE numbered(_, _, _)
numbered(c, seq, v) ==
    IF v = 0 \/ Contains(seq, v) THEN seq
    ELSE LET g == andOf(c, v)
             first == CHOOSE w \in operands(g) : \A x \in operands(g) : w <= x
             second == CHOOSE w \in operands(g) : \A x \in operands(g) : w >= x
         IN  Append(numbered(c, numbered(c, seq, first), second), v)

\* Mutant: the gates keep their place.
KeepGateOrder(gates) == gates

\* qsort with cmp_lhs.
sortedByLhs(gates) == SortSeq(gates, LAMBDA g, h : g.lhs < h.lhs)

\* Gates no output needs get no number and are dropped.
aiger_reencode(c) ==
    LET inputs == [k \in DOMAIN c.inputs |-> aiger_lit2var(c.inputs[k].lit)]
        order == FoldLeft(LAMBDA seq, o : numbered(c, seq, aiger_lit2var(o.lit)), inputs, c.outputs)
        code(lit) == IF lit < 2 THEN lit
                     ELSE aiger_sign(lit) +
                          2 * CHOOSE k \in DOMAIN order : order[k] = aiger_lit2var(lit)
        coded(g) == LET r0 == code(g.rhs0)
                        r1 == code(g.rhs1)
                    IN  [lhs |-> code(g.lhs), rhs0 |-> IF r0 < r1 THEN r1 ELSE r0,
                         rhs1 |-> IF r0 < r1 THEN r0 ELSE r1]
        kept == SelectSeq(c.ands, LAMBDA g : Contains(order, aiger_lit2var(g.lhs)))
        relabelled(symbols) == [k \in DOMAIN symbols |-> [symbols[k] EXCEPT !.lit = code(@)]]
    IN  IF aiger_is_reencoded(c) THEN c
        ELSE [inputs |-> relabelled(c.inputs), outputs |-> relabelled(c.outputs),
              ands |-> sortedByLhs([k \in DOMAIN kept |-> coded(kept[k])])]

--------------------------------------------------------------------------------
(***************************************************************************)
(* Writing.                                                                *)
(***************************************************************************)
\* aiger_write_delta: the least significant byte first.
RECURSIVE aiger_write_delta(_)
aiger_write_delta(delta) ==
    IF delta < ByteBase THEN <<[kind |-> "byte", more |-> FALSE, value |-> delta]>>
    ELSE <<[kind |-> "byte", more |-> TRUE, value |-> delta % ByteBase]>>
           \o aiger_write_delta(delta \div ByteBase)

literalLines(symbols) == [k \in DOMAIN symbols |-> [kind |-> "literal", lit |-> symbols[k].lit]]

\* aiger_write_header; the inputs of the binary format are known from their number.
aiger_write_header(c, mode) ==
    <<[kind |-> "header", mode |-> mode, maxvar |-> maxvar(c), inputs |-> Len(c.inputs),
       outputs |-> Len(c.outputs), ands |-> Len(c.ands)]>>
      \o (IF mode = "aag" THEN literalLines(c.inputs) ELSE <<>>) \o literalLines(c.outputs)

\* aiger_write_symbols_aux.
symbolLines(type, symbols) ==
    FoldLeftDomain(LAMBDA lines, k : IF symbols[k].name = 0 THEN lines ELSE
            Append(lines, [kind |-> "symbol", type |-> type, pos |-> k, name |-> symbols[k].name]),
        <<>>, symbols)

aiger_write_symbols(c) == symbolLines("i", c.inputs) \o symbolLines("o", c.outputs)

aiger_write_ascii(c) ==
    aiger_write_header(c, "aag") \o
        [k \in DOMAIN c.ands |-> [kind |-> "and", lhs |-> c.ands[k].lhs,
                                  rhs0 |-> c.ands[k].rhs0, rhs1 |-> c.ands[k].rhs1]]

aiger_write_binary(c) ==
    LET r == aiger_reencode(c)
    IN  FoldLeft(LAMBDA bytes, g : bytes \o aiger_write_delta(g.lhs - g.rhs0)
                                         \o aiger_write_delta(g.rhs0 - g.rhs1),
                 aiger_write_header(r, "aig"), r.ands)

\* aiger_write_to_file; the symbols are those of the circuit after reencoding, with
\* the same names at the same places.
aiger_write_to_file(c, mode) ==
    (IF mode = "aag" THEN aiger_write_ascii(c) ELSE aiger_write_binary(c)) \o aiger_write_symbols(c)

--------------------------------------------------------------------------------
(***************************************************************************)
(* Reading.  A reader takes one record after the other, and keeps what it  *)
(* has read when it fails.                                                 *)
(***************************************************************************)
newReader ==
    [circuit |-> aiger_init, error |-> FALSE, header |-> <<>>,
     delta |-> 0, place |-> 1,  \* of the number of which some bytes have been read
     rhs0 |-> -1]               \* of a gate of which one number has been read, or -1

failed(r) == [r EXCEPT !.error = TRUE]

\* What comes next.
expected(r) ==
    IF r.header = <<>> THEN "header"
    ELSE LET h == r.header[1]
         IN  CASE Len(r.circuit.inputs) < h.inputs -> "input"
               [] Len(r.circuit.inputs) = h.inputs /\ Len(r.circuit.outputs) < h.outputs -> "output"
               [] Len(r.circuit.inputs) = h.inputs /\ Len(r.circuit.outputs) = h.outputs
                    /\ Len(r.circuit.ands) < h.ands -> IF h.mode = "aag" THEN "and" ELSE "byte"
               [] OTHER -> "symbol"

inRange(r, lit) == aiger_lit2var(lit) <= r.header[1].maxvar
\* A literal that can be an input or a gate, and is neither yet.
definable(r, lit) ==
    /\ lit # 0 /\ aiger_sign(lit) = 0 /\ inRange(r, lit)
    /\ aiger_lit2var(lit) \notin inputVariables(r.circuit) \cup andVariables(r.circuit)

\* aiger_read_header, which adds the inputs of the binary format.
readHeader(r, h) ==
    LET binaryInputs == [k \in 1..h.inputs |-> [lit |-> 2 * k, name |-> 0]]
    IN  CASE h.mode = "aag" -> [r EXCEPT !.header = <<h>>]
          [] h.mode = "aig" /\ h.inputs + h.ands = h.maxvar ->
                [r EXCEPT !.header = <<h>>, !.circuit.inputs = binaryInputs]
          [] OTHER -> failed(r)

readInput(r, l) ==
    IF definable(r, l.lit) THEN [r EXCEPT !.circuit = aiger_add_input(@, l.lit, 0)] ELSE failed(r)

readOutput(r, l) ==
    IF inRange(r, l.lit) THEN [r EXCEPT !.circuit = aiger_add_output(@, l.lit, 0)] ELSE failed(r)

\* A step of aiger_read_ascii.
readAnd(r, g) ==
    IF definable(r, g.lhs) /\ inRange(r, g.rhs0) /\ inRange(r, g.rhs1)
    THEN [r EXCEPT !.circuit = aiger_add_and(@, g.lhs, g.rhs0, g.rhs1)]
    ELSE failed(r)

\* aiger_read_binary with the difference that has been read: the first operand of
\* the next gate, or the second.
readDelta(r, delta) ==
    LET lhs == 2 * (Len(r.circuit.inputs) + Len(r.circuit.ands) + 1)
        next == [r EXCEPT !.delta = 0, !.place = 1]
    IN  CASE r.rhs0 < 0 /\ delta <= lhs -> [next EXCEPT !.rhs0 = lhs - delta]
          [] r.rhs0 >= 0 /\ delta <= r.rhs0 ->
                [next EXCEPT !.rhs0 = -1,
                             !.circuit = aiger_add_and(@, lhs, r.rhs0, r.rhs0 - delta)]
          [] OTHER -> failed(r)

\* aiger_read_delta.
readByte(r, b) ==
    LET delta == r.delta + r.place * b.value
    IN  IF b.more THEN [r EXCEPT !.delta = delta, !.place = @ * ByteBase] ELSE readDelta(r, delta)

\* A step of aiger_read_symbols_and_comments.
readSymbol(r, s) ==
    LET named(symbols) == [symbols EXCEPT ![s.pos].name = s.name]
        free(symbols) == s.pos \in DOMAIN symbols /\ symbols[s.pos].name = 0
    IN  CASE s.type = "i" /\ free(r.circuit.inputs) -> [r EXCEPT !.circuit.inputs = named(@)]
          [] s.type = "o" /\ free(r.circuit.outputs) -> [r EXCEPT !.circuit.outputs = named(@)]
          [] OTHER -> failed(r)

readRecord(r, record) ==
    LET what == expected(r)
        kind == IF what \in {"input", "output"} THEN "literal" ELSE what
    IN  IF r.error \/ record.kind # kind THEN failed(r)
        ELSE CASE what = "header" -> readHeader(r, record)
               [] what = "input" -> readInput(r, record)
               [] what = "output" -> readOutput(r, record)
               [] what = "and" -> readAnd(r, record)
               [] what = "byte" -> readByte(r, record)
               [] what = "symbol" -> readSymbol(r, record)

\* aiger_read_generic: the circuit, and whether there was no error.  A file that is
\* not there is like an empty one.
aiger_open_and_read_from_file(file) ==
    LET r == FoldLeft(readRecord, newReader, file)
    IN  [circuit |-> r.circuit,
         ok |-> ~r.error /\ expected(r) = "symbol" /\ aiger_check(r.circuit)]

\* main of aigtoaig with the name of an aig file.
aigtoaig(file) ==
    LET read == aiger_open_and_read_from_file(file)
    IN  IF read.ok THEN aiger_write_to_file(read.circuit, "aig") ELSE <<>>
================================================================================
