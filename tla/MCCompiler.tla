------------------------------ MODULE MCCompiler ------------------------------
(* Compilations over a small star schema and its modeller. *)
EXTENDS Compiler, TLC

CONSTANTS orders, customers, items

Rel(f, t, c, k) == [from |-> f, to |-> t, cardinality |-> c, keyed |-> k]

\* Orders belong to customers and have items, which one relationship without
\* join keys ties to customers as well.
Star == {Rel(orders, customers, "many_to_one", TRUE),
         Rel(orders, items, "one_to_many", TRUE),
         Rel(items, customers, "one_to_one", FALSE)}
=============================================================================
