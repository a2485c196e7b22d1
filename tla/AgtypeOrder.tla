---------------------------- MODULE AgtypeOrder ----------------------------
(***************************************************************************)
(* The order of agtype values (agtype_util.c, agtype.c): the comparison    *)
(* that ORDER BY, the comparison operators and B-tree indexes on agtype    *)
(* use.  Two values are compared by stepping through the tokens of both at *)
(* once; scalars at the top, and sorts, have faster ways that must agree.  *)
(*                                                                         *)
(* The state is a B-tree index on agtype values, as the sequence of its    *)
(* keys: rows are inserted at the place the comparison function gives, and *)
(* a build sorts them with the sort support function.  The B-tree itself   *)
(* is PostgreSQL's, modelled from what it does with the two functions.     *)
(*                                                                         *)
(* A value is a record of its type and a sequence: the number of a bool,   *)
(* integer, float, numeric or entity id, the rank of a string under the    *)
(* collation (a float or numeric with the empty sequence is NaN), the      *)
(* elements of a path or an array, and keys and values in turn of an       *)
(* object, in the order they are stored in: by length first, which need    *)
(* not be the order of the collation.                                      *)
(***************************************************************************)
EXTENDS Integers, Sequences, SequencesExt, FiniteSets

CONSTANTS
    Values,       \* the values that are indexed
    FloatExact,   \* up to here every integer is a float8 (2^53 in the code)
    DigitsExact,  \* up to here float8_numeric is exact (15 digits in the code)
    MaxRows       \* bound on the rows of the index

VARIABLE index    \* the keys of the index, first to last

vars == <<index>>

-----------------------------------------------------------------------------
\* Values.

Value(type, val) == [type |-> type, val |-> val]

Numbers == {"integer", "float", "numeric"}
Containers == {"array", "object"}

IsScalar(v) == v.type \notin Containers
IsNumber(v) == v.type \in Numbers

\* Mutant: the type of numerics is forgotten and sorts before all others.
get_type_sort_priority_NoNumeric(type) ==
    CASE type = "path"   -> 0
      [] type = "edge"   -> 1
      [] type = "vertex" -> 2
      [] type = "object" -> 3
      [] type = "array"  -> 4
      [] type = "string" -> 5
      [] type = "bool"   -> 6
      [] type \in {"integer", "float"} -> 7
      [] type = "null"   -> 8
      [] OTHER -> -1

get_type_sort_priority(type) ==
    CASE type = "path"   -> 0
      [] type = "edge"   -> 1
      [] type = "vertex" -> 2
      [] type = "object" -> 3
      [] type = "array"  -> 4
      [] type = "string" -> 5
      [] type = "bool"   -> 6
      [] type \in Numbers -> 7
      [] type = "null"   -> 8

\* "Type-defined order": never equal, whatever the types.
type_order(a, b) ==
    IF get_type_sort_priority(a.type) < get_type_sort_priority(b.type)
    THEN -1 ELSE 1

-----------------------------------------------------------------------------
\* Scalars.

Sign(n) == IF n > 0 THEN 1 ELSE IF n < 0 THEN -1 ELSE 0

Abs(n) == IF n < 0 THEN -n ELSE n

\* A conversion that is exact up to limit and keeps only even numbers beyond
\* it, ties to the multiple of four: the next binade of a float8.
Rounded(n, limit) ==
    IF Abs(n) <= limit \/ n % 2 = 0 THEN n
    ELSE IF (n - 1) % 4 = 0 THEN n - 1 ELSE n + 1

\* (float8) int_value, and float8_numeric, which keeps DBL_DIG digits.
to_float8(v) ==
    IF v.type = "integer" THEN <<Rounded(v.val[1], FloatExact)>> ELSE v.val
to_numeric(v) ==
    IF v.type = "float" /\ v.val # <<>>
    THEN <<Rounded(v.val[1], DigitsExact)>> ELSE v.val

compare_two_floats_orderability(lhs, rhs) ==
    IF lhs = <<>> THEN IF rhs = <<>> THEN 0 ELSE 1
    ELSE IF rhs = <<>> THEN -1
    ELSE Sign(lhs[1] - rhs[1])

\* numeric_cmp orders NaN as float8 does.
numeric_cmp(lhs, rhs) ==
    IF lhs = rhs THEN 0
    ELSE IF lhs = <<>> THEN 1
    ELSE IF rhs = <<>> THEN -1
    ELSE Sign(lhs[1] - rhs[1])

RECURSIVE compare_agtype_scalar_values(_, _)
compare_agtype_scalar_values(a, b) ==
    IF a.type = b.type
    THEN CASE a.type = "null" -> 0
           [] a.type \in {"string", "bool", "integer", "vertex", "edge"} ->
                  Sign(a.val[1] - b.val[1])
           [] a.type = "numeric" -> numeric_cmp(a.val, b.val)
           [] a.type = "float" ->
                  compare_two_floats_orderability(a.val, b.val)
           [] a.type = "path" ->
                  LET differing == {i \in 1..Len(a.val) :
                          compare_agtype_scalar_values(a.val[i], b.val[i]) # 0}
                      first == CHOOSE i \in differing :
                                   \A j \in differing : i <= j
                  IN IF Len(a.val) # Len(b.val)
                     THEN Sign(Len(a.val) - Len(b.val))
                     ELSE IF differing = {} THEN 0
                     ELSE compare_agtype_scalar_values(a.val[first], b.val[first])
    ELSE IF "numeric" \in {a.type, b.type}
    THEN numeric_cmp(to_numeric(a), to_numeric(b))
    ELSE compare_two_floats_orderability(to_float8(a), to_float8(b))

\* The choice both the fast path and the loop make for two scalars.
compare_scalars(a, b) ==
    IF a.type = b.type \/ (IsNumber(a) /\ IsNumber(b))
    THEN compare_agtype_scalar_values(a, b)
    ELSE type_order(a, b)

-----------------------------------------------------------------------------
\* Tokens: what agtype_iterator_next returns, call by call.  A value that is
\* not a container is stored as an array of one element marked raw_scalar.

Token(tok, value) == [tok |-> tok, value |-> value, raw_scalar |-> FALSE]

BeginArray(raw) ==
    [tok |-> "begin_array", value |-> Value("array", <<>>), raw_scalar |-> raw]
BeginObject == Token("begin_object", Value("object", <<>>))

\* The end tokens set no value.
EndArray == Token("end_array", Value("null", <<>>))
EndObject == Token("end_object", Value("null", <<>>))
IsEnd(t) == t.tok \in {"end_array", "end_object"}

RECURSIVE Tokens(_)
Tokens(v) ==
    LET Child(tok, c) == IF IsScalar(c) THEN <<Token(tok, c)>> ELSE Tokens(c)
        Part(i) == IF v.type = "array" THEN Child("elem", v.val[i])
                   ELSE IF i % 2 = 1 THEN <<Token("key", v.val[i])>>
                   ELSE Child("value", v.val[i])
        parts == FlattenSeq([i \in 1..Len(v.val) |-> Part(i)])
    IN IF v.type = "array" THEN <<BeginArray(FALSE)>> \o parts \o <<EndArray>>
       ELSE <<BeginObject>> \o parts \o <<EndObject>>

RootTokens(v) ==
    IF IsScalar(v) THEN <<BeginArray(TRUE), Token("elem", v), EndArray>>
    ELSE Tokens(v)

\* The value after one more call of the iterator that has returned token i:
\* an end token leaves the one that was there.
NextValue(tokens, i) ==
    IF IsEnd(tokens[i + 1]) THEN tokens[i].value ELSE tokens[i + 1].value

-----------------------------------------------------------------------------
\* compare_agtype_containers_orderability.

\* Two arrays begin: nothing is known yet unless one of them stands for a
\* scalar, whose own type then counts.
compare_begin_array(ta, tb, i) ==
    CASE ta[i].raw_scalar = tb[i].raw_scalar -> 0
      [] ta[i].raw_scalar /\ ~tb[i].raw_scalar ->
             type_order(NextValue(ta, i), tb[i].value)
      [] tb[i].raw_scalar /\ ~ta[i].raw_scalar ->
             type_order(ta[i].value, NextValue(tb, i))

compare_same_token(ta, tb, i) ==
    CASE IsEnd(ta[i]) \/ ta[i].tok = "begin_object" -> 0
      [] ta[i].tok = "begin_array" -> compare_begin_array(ta, tb, i)
      [] ta[i].tok \in {"key", "elem", "value"} ->
             compare_scalars(ta[i].value, tb[i].value)

\* "AGTV_ARRAY might be there just because of the container type": where an
\* array meets an object, the array's first element takes its place.
corrected(tokens, i, other) ==
    IF tokens[i].value.type = "array" /\ other.type = "object"
    THEN NextValue(tokens, i) ELSE tokens[i].value

\* Mutant: the value that ends first is the greater one.
compare_other_token_ShorterLast(ta, tb, i) ==
    CASE IsEnd(ta[i]) -> 1
      [] IsEnd(tb[i]) /\ ~IsEnd(ta[i]) -> -1
      [] OTHER -> type_order(corrected(ta, i, tb[i].value),
                             corrected(tb, i, ta[i].value))

compare_other_token(ta, tb, i) ==
    CASE IsEnd(ta[i]) -> -1
      [] IsEnd(tb[i]) /\ ~IsEnd(ta[i]) -> 1
      [] OTHER -> type_order(corrected(ta, i, tb[i].value),
                             corrected(tb, i, ta[i].value))

\* The loop: token by token until one decides, or both are done.
RECURSIVE compare_from(_, _, _)
compare_from(ta, tb, i) ==
    IF i > Len(ta) THEN 0
    ELSE LET res == IF ta[i].tok = tb[i].tok THEN compare_same_token(ta, tb, i)
                    ELSE compare_other_token(ta, tb, i)
         IN IF res # 0 THEN res ELSE compare_from(ta, tb, i + 1)

compare_agtype_containers_orderability(a, b) ==
    IF IsScalar(a) /\ IsScalar(b) THEN compare_scalars(a, b)
    ELSE compare_from(RootTokens(a), RootTokens(b), 1)

agtype_btree_cmp(a, b) == compare_agtype_containers_orderability(a, b)

\* Mutant: two bools are compared the wrong way round.
agtype_sortsupport_cmp_Bool(a, b) ==
    CASE a.type = b.type /\ a.type = "bool" -> Sign(b.val[1] - a.val[1])
      [] OTHER -> compare_agtype_containers_orderability(a, b)

agtype_sortsupport_cmp(a, b) ==
    CASE a.type = b.type /\ a.type \in {"integer", "string", "bool"} ->
             Sign(a.val[1] - b.val[1])
      [] a.type = b.type /\ a.type \in {"float", "numeric"} ->
             numeric_cmp(a.val, b.val)
      [] OTHER -> compare_agtype_containers_orderability(a, b)

-----------------------------------------------------------------------------
\* The index.

\* The first of positions low .. high whose key is not before v, as a binary
\* search finds it.
RECURSIVE binsrch(_, _, _)
binsrch(v, low, high) ==
    IF low >= high THEN low
    ELSE LET mid == (low + high) \div 2
         IN IF agtype_btree_cmp(v, index[mid]) > 0
            THEN binsrch(v, mid + 1, high) ELSE binsrch(v, low, mid)

Position(v) == binsrch(v, 1, Len(index) + 1)

Found(v) == /\ Position(v) <= Len(index)
            /\ agtype_btree_cmp(v, index[Position(v)]) = 0

\* The sort of a build of few rows: each row moves up past the rows that the
\* sort support function puts behind it.
MovedUp(sorted, v) ==
    LET stays == {i \in 1..Len(sorted) : agtype_sortsupport_cmp(sorted[i], v) <= 0}
        after == IF stays = {} THEN 0
                 ELSE CHOOSE i \in stays : \A j \in stays : j <= i
    IN InsertAt(sorted, after + 1, v)

Sorted(rows) == FoldLeft(MovedUp, <<>>, rows)

Init == index = <<>>

Insert ==
    /\ Len(index) < MaxRows
    /\ \E v \in Values : index' = InsertAt(index, Position(v), v)

\* REINDEX, with the rows of the table in any order.
Reindex ==
    /\ index # <<>>
    /\ \E order \in [1..Len(index) -> 1..Len(index)] :
          /\ \A i, j \in 1..Len(index) : order[i] = order[j] => i = j
          /\ index' = Sorted([i \in 1..Len(index) |-> index[order[i]]])

Next == Insert \/ Reindex

Spec == Init /\ [][Next]_vars

-----------------------------------------------------------------------------
\* Properties.

\* Both streams of tokens are read as far as token i: none before it decides.
Reached(ta, tb, i) ==
    LET Same(k) == ta[k].tok = tb[k].tok /\ compare_same_token(ta, tb, k) = 0
    IN i <= Len(ta) /\ i <= Len(tb) /\ \A k \in 1..(i - 1) : Same(k)

\* The two values first differ where a map meets a list that begins with a map
\* or an entity.  There the correction step, meant for scalars, compares the
\* map with the list's first element, and the order is not one: {} is before
\* [], [] before [edge] and [edge] before {}; and [{}] and {} are each after
\* the other.
Clash(a, b) ==
    LET ta == RootTokens(a)
        tb == RootTokens(b)
        Begins(tokens, i, others) ==
            /\ tokens[i].tok = "begin_array" /\ others[i].tok = "begin_object"
            /\ NextValue(tokens, i).type \in {"object", "vertex", "edge", "path"}
            /\ ~tokens[i].raw_scalar
    IN \E i \in 1..Len(ta) :
          Reached(ta, tb, i) /\ (Begins(ta, i, tb) \/ Begins(tb, i, ta))

\* The comparison meets two numbers of different types, one of which the
\* conversion to the other's type changes: an integer beyond FloatExact against
\* a float, a float beyond DigitsExact against a numeric.
Rounds(a, b) ==
    LET ta == RootTokens(a)
        tb == RootTokens(b)
        Changed(x, y) ==
            /\ IsNumber(x) /\ IsNumber(y) /\ x.type # y.type
            /\ IF "numeric" \in {x.type, y.type}
               THEN to_numeric(x) # x.val \/ to_numeric(y) # y.val
               ELSE to_float8(x) # x.val \/ to_float8(y) # y.val
    IN \E i \in 1..Len(ta) : Reached(ta, tb, i) /\ Changed(ta[i].value, tb[i].value)

\* The comparison of any two of the values means what it says.
Comparable(vs) == \A a, b \in vs : ~Clash(a, b) /\ ~Rounds(a, b)

Keys == {index[i] : i \in 1..Len(index)}

Has(v) == \E i \in 1..Len(index) : agtype_btree_cmp(index[i], v) = 0

\* A lookup of any value finds a row that compares equal to it if the index
\* has one: the order is consistent enough for a binary search, whatever was
\* inserted in which order and however the index was built (the "requirements
\* for a B-Tree operator class" compare_agtype_containers_orderability states),
\* as long as no two of the values clash and no comparison of two rounds.
\* Where they do it does not: an integer that rounds equals a float that another
\* integer equals as well, and a map that meets a list closes a circle.
RowsFound == \A v \in Values : Has(v) /\ Comparable(Keys \cup {v}) => Found(v)

\* A build, which sorts with agtype_sortsupport_cmp, leaves at each place a
\* row equal to the one that inserts, which use agtype_btree_cmp, put there,
\* as long as no two of the rows clash and no comparison of two rounds.
BuildAgrees ==
    [][Len(index') = Len(index) /\ Comparable(Keys) =>
          \A i \in 1..Len(index) : agtype_btree_cmp(index[i], index'[i]) = 0]_vars

\* The order by its meaning: by type first; lists, maps (as keys and values in
\* turn) and paths by their first difference, lists and maps then shorter
\* first and paths shorter first before all; numbers of all types by value,
\* NaN last.
Kinds == <<"path", "edge", "vertex", "object", "array", "string", "bool",
           "number", "null">>
Rank(v) == CHOOSE k \in DOMAIN Kinds :
               Kinds[k] = IF IsNumber(v) THEN "number" ELSE v.type

RECURSIVE Before(_, _)
Before(a, b) ==
    LET la == Len(a.val)
        lb == Len(b.val)
        common == IF la < lb THEN la ELSE lb
        Differ(i) == Before(a.val[i], b.val[i]) \/ Before(b.val[i], a.val[i])
        FirstBefore == \E i \in 1..common :
                          /\ Before(a.val[i], b.val[i])
                          /\ \A j \in 1..(i - 1) : ~Differ(j)
        AllSame == \A i \in 1..common : ~Differ(i)
    IN IF Rank(a) # Rank(b) THEN Rank(a) < Rank(b)
       ELSE CASE a.type \in Containers -> FirstBefore \/ (AllSame /\ la < lb)
              [] a.type = "path" -> la < lb \/ (la = lb /\ FirstBefore)
              [] IsNumber(a) -> la > lb \/ (la = 1 /\ lb = 1 /\ a.val[1] < b.val[1])
              [] a.type = "null" -> FALSE
              [] OTHER -> a.val[1] < b.val[1]

\* The comparison of token streams computes that order wherever the two values
\* do not clash and no number is rounded to compare them.
InOrder ==
    \A i, j \in 1..Len(index) :
        ~Clash(index[i], index[j]) /\ ~Rounds(index[i], index[j]) =>
        agtype_btree_cmp(index[i], index[j]) =
            IF Before(index[i], index[j]) THEN -1
            ELSE IF Before(index[j], index[i]) THEN 1 ELSE 0
=============================================================================
