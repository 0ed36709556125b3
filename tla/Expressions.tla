----------------------------- MODULE Expressions -----------------------------
(***************************************************************************)
(* The two expression grammars of the semantic layer: what is validated    *)
(* when an expression is stored (app/services/expressions.py), and what it *)
(* is parsed into when a question is compiled                              *)
(* (app/services/sql_expressions.py).  An expression is a sequence of      *)
(* items: a name, a ${reference}, a number, a character, or white space:   *)
(* "blank" is a space or a tab, "newline" any other.  The parser's         *)
(* recursive descent is a machine: a step is one pass of a loop, a call or *)
(* a return.                                                               *)
(***************************************************************************)
EXTENDS Integers, Sequences, FiniteSetsExt, Functions

CONSTANTS
    Columns,      \* bare names
    References,   \* names as ${name}
    Numbers

VARIABLE parsing

Grammars == {"measure", "metric"}

Signs == {"+", "-", "*", "/"}

\* str.isspace(), and \s of a regular expression.
Blanks == {"blank", "newline"}

Operands == Columns \cup References \cup Numbers

\* Items are told apart by their spelling.
ASSUME ItemsAssumption ==
    /\ Columns \cap References = {} /\ Columns \cap Numbers = {} /\ References \cap Numbers = {}
    /\ Operands \cap (Signs \cup {"(", ")", "blank", "newline", "NULLIF", "ZERO", "negate"}) = {}

\* What each grammar calls an atom.
Atoms(grammar) == IF grammar = "measure" THEN Columns ELSE References

AtomsIn(grammar, items) == Range(items) \cap Atoms(grammar)

Nesting(items, n) ==
    Cardinality({i \in 1..n : items[i] \in {"(", "NULLIF"}})
        - Cardinality({i \in 1..n : items[i] \in {")", "ZERO"}})

-----------------------------------------------------------------------------
\* The validators.

\* _check_no_comment_marker()
HasComment(items) == \E i \in 1..(Len(items) - 1) : items[i] = "-" /\ items[i + 1] = "-"

\* _check_balanced()
Balanced(items) ==
    Nesting(items, Len(items)) = 0 /\ \A n \in 1..Len(items) : Nesting(items, n) >= 0

\* FUNCTION_CALL: only the validator of measures looks for one.
CallsFunction(items) ==
    \E i, j \in 1..Len(items) :
        /\ i < j
        /\ items[i] \in Columns /\ items[j] = "("
        /\ \A k \in (i + 1)..(j - 1) : items[k] \in Blanks

\* validate_measure_expression(), validate_metric_expression(): is it accepted?
\* The names returned are AtomsIn(grammar, expression).  Of white space OPERATORS has
\* spaces and tabs only.
Validated(grammar, expression) ==
    /\ ~HasComment(expression)
    /\ grammar = "measure" => ~CallsFunction(expression)
    /\ Balanced(expression)
    /\ AtomsIn(grammar, expression) # {}
    /\ Range(expression) \subseteq Atoms(grammar) \cup Numbers \cup Signs \cup {"(", ")", "blank"}

-----------------------------------------------------------------------------
\* The parser.  A node is its Polish notation: its operator, then its operands,
\* each a node; a number or an atom is itself.
Negate(operand) == <<"negate">> \o operand
BinaryOp(operator, left, right) == <<operator>> \o left \o right

\* _tokenize() accepts it.
Tokenized(grammar, items) ==
    /\ Range(items) \subseteq Atoms(grammar) \cup Numbers \cup Signs \cup {"(", ")"} \cup Blanks
    /\ \E i \in 1..Len(items) : items[i] \notin Blanks

ParseCall(grammar, expression) ==
    [pc         |-> "tokenize",
     grammar    |-> grammar,
     expression |-> expression,
     taken      |-> 0,         \* up to and with the last token taken: _position
     stack      |-> <<>>,      \* the operators whose right operand is being parsed, and their left
     node       |-> <<>>]      \* what was returned last

\* No token is white space.
Upcoming == {i \in (parsing.taken + 1)..Len(parsing.expression) : parsing.expression[i] \notin Blanks}

Token == parsing.expression[Min(Upcoming)]

\* _peek()
Peek(tokens) == Upcoming # {} /\ Token \in tokens

\* The operator whose right operand is being parsed.
Pending == parsing.stack[Len(parsing.stack)]
Awaiting == IF parsing.stack = <<>> THEN "nothing" ELSE Pending.operator

Awaits(operator, left) == Append(parsing.stack, [operator |-> operator, left |-> left])
Applied == SubSeq(parsing.stack, 1, Len(parsing.stack) - 1)

\* The operators of the loops of _term() and of _expr().
Loop(method) == IF method = "term" THEN {"*", "/"} ELSE {"+", "-"}

Tokenize ==
    /\ parsing.pc = "tokenize"
    /\ parsing' = [parsing EXCEPT
           !.pc = IF Tokenized(parsing.grammar, parsing.expression) THEN "factor" ELSE "error"]

\* _factor(): a sign or a parenthesis, and the call for what follows it.
Open ==
    /\ parsing.pc = "factor"
    /\ Peek({"-", "("})
    /\ parsing' = [parsing EXCEPT
           !.taken = Min(Upcoming),
           !.stack = Awaits(IF Token = "-" THEN "negate" ELSE "(", <<>>)]

\* An atom or a number is returned to a _factor() or a _term().
Atom ==
    /\ parsing.pc = "factor"
    /\ Peek(Operands)
    /\ parsing' = [parsing EXCEPT !.pc = "term", !.taken = Min(Upcoming), !.node = <<Token>>]

NoFactor ==
    /\ parsing.pc = "factor"
    /\ ~Peek({"-", "("} \cup Operands)
    /\ parsing' = [parsing EXCEPT !.pc = "error"]

Negated ==
    /\ parsing.pc = "term"
    /\ Awaiting = "negate"
    /\ parsing' = [parsing EXCEPT !.node = Negate(@), !.stack = Applied]

\* In a loop the right operand was returned,
Combine ==
    /\ parsing.pc \in {"term", "expr"}
    /\ Awaiting \in Loop(parsing.pc)
    /\ parsing' = [parsing EXCEPT
           !.node = BinaryOp(Awaiting, Pending.left, @), !.stack = Applied]

\* or another operator follows,
Operate ==
    /\ parsing.pc \in {"term", "expr"}
    /\ Awaiting \notin Loop(parsing.pc) \cup {"negate"}
    /\ Peek(Loop(parsing.pc))
    /\ parsing' = [parsing EXCEPT
           !.pc = "factor", !.taken = Min(Upcoming), !.stack = Awaits(Token, parsing.node)]

\* or it ends: that of _term(),
TermReturns ==
    /\ parsing.pc = "term"
    /\ Awaiting \notin Loop("term") \cup {"negate"}
    /\ ~Peek(Loop("term"))
    /\ parsing' = [parsing EXCEPT !.pc = "expr"]

\* that of an _expr() in parentheses,
Close ==
    /\ parsing.pc = "expr"
    /\ Awaiting = "("
    /\ ~Peek(Loop("expr"))
    /\ parsing' =
           IF Peek({")"})
           THEN [parsing EXCEPT !.pc = "term", !.taken = Min(Upcoming), !.stack = Applied]
           ELSE [parsing EXCEPT !.pc = "error"]

\* Mutation of ParseEnds: trailing input is ignored.
ParsePrefix ==
    /\ parsing.pc = "expr"
    /\ Awaiting = "nothing"
    /\ ~Peek(Loop("expr"))
    /\ parsing' = [parsing EXCEPT !.pc = "parsed"]

\* or that of the _expr() parse() called.
ParseEnds ==
    /\ parsing.pc = "expr"
    /\ Awaiting = "nothing"
    /\ ~Peek(Loop("expr"))
    /\ parsing' = [parsing EXCEPT !.pc = IF Upcoming = {} THEN "parsed" ELSE "error"]

ParseInit ==
    \E grammar \in Grammars,
       expression \in Seq(Operands \cup Signs \cup {"(", ")"} \cup Blanks) :
          parsing = ParseCall(grammar, expression)

ParseStep ==
    Tokenize \/ Open \/ Atom \/ NoFactor \/ Negated \/ Combine \/ Operate \/ TermReturns
        \/ Close \/ ParseEnds

ParseSpec == ParseInit /\ [][ParseStep]_parsing

-----------------------------------------------------------------------------
\* Properties.

\* The validators and the parsers, written apart, agree on what can be compiled:
\* the names set_expression() stores edges for are the atoms the compiler will ask
\* for, and nothing is refused but constants, "--", and white space that is neither
\* a space nor a tab, which the parsers skip.
StoredAsParsed ==
    LET grammar    == parsing.grammar
        expression == parsing.expression
    IN  parsing.pc = "parsed" =>
            /\ AtomsIn(grammar, parsing.node) = AtomsIn(grammar, expression)
            /\ Validated(grammar, expression)
                  <=> /\ AtomsIn(grammar, expression) # {}
                      /\ ~HasComment(expression)
                      /\ "newline" \notin Range(expression)

\* What is stored can be compiled: does not hold, for the validators look at the
\* items and not at their order.
ValidatedIsParsed ==
    parsing.pc = "error" => ~Validated(parsing.grammar, parsing.expression)
=============================================================================
