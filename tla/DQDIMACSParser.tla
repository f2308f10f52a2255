----------------------------- MODULE DQDIMACSParser -----------------------------
(***************************************************************************)
(* The input file, line by line: DQDIMACSParser skips comments up to the   *)
(* preamble, then passes each line on to DQDIMACS.  A line is what its     *)
(* first character says it is, and its words; a number ends it if it is 0. *)
(* Once the file has ended the dependencies are extracted.                 *)
(*                                                                         *)
(* Lines name variables of the prefix that were not named before; clauses  *)
(* are read here and modelled in Preprocessing.                            *)
(***************************************************************************)
EXTENDS DependencyExtractor, Integers

CONSTANTS
    Cnf,          \* the word "cnf"
    NotANumber,   \* a word std::stoi finds no number in
    TooLarge      \* a number that is no int: std::out_of_range, which nobody catches

VARIABLE parser   \* "preamble", "formula"; "invalid", "thrown", "undefined"

parserVars == <<extractorVars, parser>>

\* The word that ends a line, by being 0 or by an exception, or 0 for none.
lastWord(words, check_is_positive) ==
    SelectInSeq(words, LAMBDA w : \/ w \in {0, Cnf, NotANumber, TooLarge}
                                  \/ check_is_positive /\ w < 0)

parseLine(words, check_is_positive) ==
    LET last == lastWord(words, check_is_positive)
    IN  IF last = 0 THEN words ELSE SubSeq(words, 1, last - 1)

\* InvalidFileException goes to main, with the exit code 1.
exceptionOf(words, check_is_positive) ==
    LET last == lastWord(words, check_is_positive)
    IN  IF last = 0 \/ words[last] = 0 THEN "none"
        ELSE IF words[last] = TooLarge THEN "thrown" ELSE "invalid"

Fails(exception) == parser' = exception /\ UNCHANGED extractorVars

\* Comments and lines without a word.
Ignored(first) == first \in {"c", "empty"}

ParserInit == ExtractorInit /\ parser = "preamble"

\* If the file ends before the preamble, processPrefix returns no value.
processPrefix(first) ==
    /\ parser = "preamble"
    /\ \/ Ignored(first) /\ UNCHANGED parserVars
       \/ ~Ignored(first) /\ first \notin {"p", "end"} /\ Fails("invalid")
       \/ first = "end" /\ Fails("undefined")

parsePrefix(words) ==
    /\ parser = "preamble"
    /\ IF Len(words) < 2 \/ words[1] # Cnf \/ words[2] \in {Cnf, NotANumber} THEN Fails("invalid")
       ELSE IF words[2] = TooLarge THEN Fails("thrown")
       ELSE parser' = "formula" /\ UNCHANGED extractorVars

\* A line of the formula: the numbers go to DQDIMACS unless the line is rejected.
parseUniversalBlock(words) ==
    IF exceptionOf(words, TRUE) # "none" THEN Fails(exceptionOf(words, TRUE))
    ELSE /\ parseLine(words, TRUE) # <<>> /\ addUniversalBlock(parseLine(words, TRUE))
         /\ UNCHANGED parser

parseExistentialBlock(words) ==
    IF exceptionOf(words, TRUE) # "none" THEN Fails(exceptionOf(words, TRUE))
    ELSE /\ parseLine(words, TRUE) # <<>> /\ addExistentialBlock(parseLine(words, TRUE))
         /\ UNCHANGED parser

parseDependencyBlock(words) ==
    LET vars == parseLine(words, TRUE) IN
    IF exceptionOf(words, TRUE) # "none" THEN Fails(exceptionOf(words, TRUE))
    ELSE IF vars = <<>> THEN Fails("invalid")
    ELSE addExplicitDependencies(Head(vars), Tail(vars)) /\ UNCHANGED parser

parseClause(words) ==
    IF exceptionOf(words, FALSE) # "none" THEN Fails(exceptionOf(words, FALSE))
    ELSE UNCHANGED parserVars

\* Lines without numbers leave the formula as it is; there is one preamble.
parseOther(first) ==
    \/ (Ignored(first) \/ first \in {"a", "e"}) /\ UNCHANGED parserVars
    \/ first = "p" /\ Fails("invalid")

--------------------------------------------------------------------------------
\* What may follow the variables of a line, and the clauses and preambles considered.
Endings == {<<>>, <<0, NotANumber>>, <<-1>>}
Clauses == {<<-1>>, <<-1, 0, NotANumber>>, <<-1, NotANumber>>, <<TooLarge>>}
Preambles == {<<Cnf, 9>>, <<Cnf>>, <<>>, <<NotANumber, 9>>, <<Cnf, NotANumber>>, <<Cnf, TooLarge>>}

parseFormula ==
    /\ phase = "reading" /\ parser = "formula"
    /\ \E ending \in Endings :
          \/ \E vs \in Lists(Universals \ ToSet(universal_variables)) :
                parseUniversalBlock(vs \o ending)
          \/ \E vs \in Lists(Unread) : parseExistentialBlock(vs \o ending)
          \/ \E v \in Unread, deps \in Lists(ToSet(universal_variables)) :
                parseDependencyBlock(<<v>> \o deps \o ending)
          \/ parseDependencyBlock(ending)
          \/ \E clause \in Clauses : parseClause(clause)
          \/ \E first \in {"c", "empty", "a", "e", "p"} : parseOther(first)

ParserNext ==
    \/ \E first \in {"c", "empty", "a", "end"} : processPrefix(first)
    \/ \E words \in Preambles : parsePrefix(words)
    \/ parseFormula
    \/ parser = "formula" /\ Extraction /\ UNCHANGED parser
    \/ parser \in {"invalid", "thrown", "undefined"} /\ UNCHANGED parserVars

ParserSpec == ParserInit /\ [][ParserNext]_parserVars
================================================================================
