------------------------- MODULE MCWriteExecutors -------------------------
(* Instances of WriteExecutors: two vertices and an edge, twice; a policy  *)
(* protects one vertex and the edge of the second pair.                      *)
EXTENDS WriteExecutors, TLC

CONSTANTS t1, t2

V(id, val) == [id |-> id, ends |-> <<>>, val |-> val]
E(id, from, to) == [id |-> id, ends |-> <<from, to>>, val |-> None]
MCGraph == <<V(1, 0), V(2, 0), E(3, 1, 2), V(4, 0), V(5, 0), E(6, 4, 5)>>

MCVars == {"a", "b", "e", "m"}
R(a, b, e) == [a |-> a, b |-> b, e |-> e, m |-> Null]

Create(from, to, val) == [op |-> "create", from |-> from, to |-> to, val |-> val]
Merge(from, val, on_create, on_match) ==
    [op |-> "merge", from |-> from, val |-> val, on_create |-> on_create, on_match |-> on_match]
Item(w, val) == [var |-> w, val |-> val]
SetClause(items) == [op |-> "set", items |-> items]
Delete(items) == [op |-> "delete", items |-> items, detach |-> FALSE]
Detach(items) == [op |-> "delete", items |-> items, detach |-> TRUE]

Query(rows, clauses) == [rows |-> rows, clauses |-> clauses, match |-> TRUE, terminal |-> TRUE]
Returning(q) == [q EXCEPT !.terminal = FALSE]
First(clauses) ==
    [rows |-> <<R(Null, Null, Null)>>, clauses |-> clauses, match |-> FALSE, terminal |-> TRUE]

AB == <<R(1, 2, 3)>>
Guarded == <<R(4, 5, 6)>>
Crossed == <<R(1, 2, 3), R(2, 1, 3)>>
Twice == <<R(1, 2, Null), R(1, 2, Null)>>

\* The queries of the main run.
MCStatements ==
    { Query(AB, <<Create("a", "b", None)>>),
      Query(AB, <<Create("a", "e", None)>>),
      Query(<<R(2, Null, Null)>>, <<Delete(<<"a">>)>>),
      Query(AB, <<Detach(<<"a", "b">>)>>),
      Query(AB, <<Detach(<<"b", "e", "a">>)>>),
      Query(AB, <<Delete(<<"e">>), Create("b", "a", None)>>),
      Query(AB, <<SetClause(<<Item("b", 1), Item("a", 2), Item("b", 3)>>), Detach(<<"a">>)>>),
      Query(Twice, <<SetClause(<<Item("b", 4)>>)>>),
      Query(Twice, <<Merge("a", 5, None, None)>>),
      Query(AB, <<Detach(<<"a">>), Create("b", "a", None)>>),
      Query(Guarded, <<SetClause(<<Item("a", 9)>>), Delete(<<"a">>)>>),
      Query(Guarded, <<Detach(<<"b">>)>>),
      Query(Crossed, <<SetClause(<<Item("a", 6)>>), Detach(<<"b">>)>>),
      Query(<<R(1, Null, Null)>>, <<SetClause(<<Item("b", 1)>>), Delete(<<"b">>)>>),
      Query(<<R(1, Null, Null)>>, <<SetClause(<<Item("b", 1), Item("a", 2)>>)>>) }

\* Queries with MERGE and the clauses that follow it.
MCMergeStatements ==
    { First(<<Merge(None, 5, None, None)>>),
      First(<<Merge(None, 0, None, 7), Delete(<<"m">>)>>),
      First(<<Merge(None, 5, 6, 7), Create("m", "m", None)>>),
      First(<<Merge(None, 5, 6, None), SetClause(<<Item("m", 7)>>)>>),
      Query(Twice, <<Merge("a", 5, 6, None), Create("m", "b", None)>>),
      Returning(Query(Twice, <<SetClause(<<Item("a", 1)>>), Merge("a", 5, None, None)>>)),
      Returning(Query(AB, <<Create("b", None, 5), Detach(<<"m">>)>>)),
      Query(<<R(Null, 1, Null)>>, <<Merge("a", 5, None, None)>>),
      Query(<<R(1, 2, 8)>>, <<Delete(<<"e">>), Merge("a", 5, None, None)>>) }

MCAllStatements == MCStatements \cup MCMergeStatements

\* What the second statement of the first transaction may be.
MCAgain ==
    { Query(Twice, <<Merge("a", 5, None, None)>>),
      Query(<<R(1, 2, Null)>>, <<Create("a", "b", None), Merge("a", 5, None, 7)>>),
      First(<<Merge(None, 5, None, None)>>),
      Query(AB, <<Detach(<<"a">>)>>) }

MCScripts == (t1 :> <<MCAllStatements, MCAgain>>) @@ (t2 :> <<MCAllStatements>>)
=============================================================================
