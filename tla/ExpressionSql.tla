---------------------------- MODULE ExpressionSql ----------------------------
(***************************************************************************)
(* emit() of app/services/sql_expressions.py, and what the SQL means: the  *)
(* reference reads arithmetic by splitting it at an operator, and is used  *)
(* both for what the modeller wrote and for what was emitted.  Recursive   *)
(* operators are kept here, apart from the parser.                         *)
(***************************************************************************)
EXTENDS Expressions

\* Where the first operand of a binary node ends: as soon as it has one operand more
\* than binary operators.
OperandEnd(node) ==
    Min({j \in 2..Len(node) :
            Cardinality({i \in 2..j : node[i] \in Operands})
                = Cardinality({i \in 2..j : node[i] \in Signs}) + 1})

LeftOf(node)  == SubSeq(node, 2, OperandEnd(node))
RightOf(node) == SubSeq(node, OperandEnd(node) + 1, Len(node))

RECURSIVE Emit(_)

\* Mutation of Emit: a negated operand has no parentheses of its own.
EmitBareNegation(node) ==
    CASE Head(node) \in Operands -> node
      [] Head(node) = "negate" -> <<"-">> \o Emit(Tail(node))
      [] Head(node) = "/" ->
            <<"(">> \o Emit(LeftOf(node)) \o <<"blank", "/", "blank", "NULLIF">>
                \o Emit(RightOf(node)) \o <<"ZERO", ")">>
      [] OTHER ->
            <<"(">> \o Emit(LeftOf(node)) \o <<"blank", Head(node), "blank">> \o Emit(RightOf(node)) \o <<")">>

\* emit(): the SQL, "NULLIF" and "ZERO" being one item each.
Emit(node) ==
    CASE Head(node) \in Operands -> node
      [] Head(node) = "negate" -> <<"-", "(">> \o Emit(Tail(node)) \o <<")">>
      [] Head(node) = "/" ->
            <<"(">> \o Emit(LeftOf(node)) \o <<"blank", "/", "blank", "NULLIF">>
                \o Emit(RightOf(node)) \o <<"ZERO", ")">>
      [] OTHER ->
            <<"(">> \o Emit(LeftOf(node)) \o <<"blank", Head(node), "blank">> \o Emit(RightOf(node)) \o <<")">>

-----------------------------------------------------------------------------
\* The reference: how arithmetic is read, by splitting it at the last operator
\* of the lowest rank that is outside all parentheses and has an operand before it.
Tokens(items) == SelectSeq(items, LAMBDA item : item \notin Blanks)

Nonsense == <<>>

SplitsAt(t, signs) ==
    {i \in 2..Len(t) :
        /\ t[i] \in signs
        /\ t[i - 1] \notin Signs \cup {"(", "NULLIF"}
        /\ Nesting(t, i) = 0}

Enclosed(t, open, close) == Len(t) > 2 /\ t[1] = open /\ t[Len(t)] = close

RECURSIVE Reading(_)

ReadBinary(t, i) ==
    LET left  == Reading(SubSeq(t, 1, i - 1))
        right == Reading(SubSeq(t, i + 1, Len(t)))
    IN  IF Nonsense \in {left, right} THEN Nonsense ELSE BinaryOp(t[i], left, right)

ReadUnary(label, inner) ==
    LET node == Reading(inner)
    IN  IF node = Nonsense THEN Nonsense ELSE label \o node

Reading(t) ==
    LET sums     == SplitsAt(t, {"+", "-"})
        products == SplitsAt(t, {"*", "/"})
    IN  CASE t = <<>> -> Nonsense
          [] sums # {} -> ReadBinary(t, Max(sums))
          [] sums = {} /\ products # {} -> ReadBinary(t, Max(products))
          [] sums \cup products = {} /\ t # <<>> /\ t[1] = "-" -> ReadUnary(<<"negate">>, Tail(t))
          [] sums \cup products = {} /\ Enclosed(t, "(", ")") ->
                ReadUnary(<<>>, SubSeq(t, 2, Len(t) - 1))
          [] sums \cup products = {} /\ Enclosed(t, "NULLIF", "ZERO") ->
                ReadUnary(<<"nullif">>, SubSeq(t, 2, Len(t) - 1))
          [] Len(t) = 1 /\ t[1] \in Operands -> t
          [] OTHER -> Nonsense

\* In SQL "--" begins a comment.
SqlReading(sql) == IF HasComment(sql) THEN Nonsense ELSE Reading(Tokens(sql))

\* A reading whose divisors are guarded against zero.
RECURSIVE Guarded(_)
Guarded(node) ==
    CASE Head(node) \in Operands -> node
      [] Head(node) = "negate" -> Negate(Guarded(Tail(node)))
      [] Head(node) = "/" ->
            BinaryOp("/", Guarded(LeftOf(node)), <<"nullif">> \o Guarded(RightOf(node)))
      [] OTHER -> BinaryOp(Head(node), Guarded(LeftOf(node)), Guarded(RightOf(node)))

-----------------------------------------------------------------------------
\* The SQL means what the modeller wrote, with every division guarded against a
\* zero divisor: it reads as the expression does, never as a comment, and an
\* expression that has no reading is refused.
SqlMeansTheExpression ==
    LET reading == IF Tokenized(parsing.grammar, parsing.expression)
                   THEN Reading(Tokens(parsing.expression)) ELSE Nonsense
    IN  /\ parsing.pc = "parsed" =>
              reading # Nonsense /\ SqlReading(Emit(parsing.node)) = Guarded(reading)
        /\ parsing.pc = "error" => reading = Nonsense
=============================================================================
