------------------------- MODULE GenericJoin_proofs -------------------------
(***************************************************************************)
(* The reductions of the generic join are safe, for every pattern and every  *)
(* input: none takes away a row that a join of the pattern needs.            *)
(***************************************************************************)
EXTENDS GenericJoin, SequenceTheorems, FiniteSetTheorems, WellFoundedInduction, TLAPS

Pat == Patterns[query.pat]

\* The key that a join has for a variable, by any edge that ends there; and the
\* row that it takes from a provider.
JoinKey(c, v) ==
    LET e == CHOOSE f \in Hyperedges(Pat) : v \in Joined(Pat, f)
    IN  KeyAt(Pat, e, c[Pat.vars + e], v)
RowOf(c, p) == IF p \in Vars THEN <<JoinKey(c, p), 0, 0>> ELSE c[p]

\* The join's rows are still in R.
Keeps(R, c) == \A p \in Eager : RowOf(c, p) \in R[p]

\* The query is planned from a pattern, and joins are its joins in the input.
WorldInv ==
    /\ query.pat \in DOMAIN Patterns /\ plan = Plan(Pat)
    /\ joins = Joins(Pat, input)
    /\ rows = [p \in P |-> rows[p]]

Reducing == {"steps", "tail", "separate", "pair", "pass"}

States == [materialized : BOOLEAN, exhausted : BOOLEAN, ready : BOOLEAN, combining : BOOLEAN]

\* The inductive invariant.
IInv ==
    /\ WorldInv
    /\ state \in States
    /\ pc = "steps" => at \in Nat \ {0}
    /\ state.materialized \/ pc \in Reducing => \A c \in joins : Keeps(rows, c)

-----------------------------------------------------------------------------
(* Patterns and their plans.                                                 *)

\* A nonempty set of natural numbers has a least element.
LEMMA LeastOf ==
    ASSUME NEW S \in SUBSET Nat, S # {}
    PROVE  \E x \in S : \A y \in S : x <= y
<1> DEFINE R == OpToRel(<, Nat)
<1>1. PICK x \in S : \A y \in S : ~ (<<y, x>> \in R)
  BY NatLessThanWellFounded, WFMin
<1>2. \A m, n \in Nat : n < m => <<n, m>> \in R
  BY DEF OpToRel
<1>3. \A y \in S : x <= y
  <2> TAKE y \in S
  <2>1. x \in Nat /\ y \in Nat
    OBVIOUS
  <2>2. ~(y < x)
    BY <1>1, <1>2, <2>1
  <2> QED
    BY <2>1, <2>2
<1> QED
  BY <1>3

\* Least, of a set of numbers that is not empty, is one of them.
LEMMA LeastIs ==
    ASSUME NEW S \in SUBSET Nat, S # {}
    PROVE  Least(S) \in S
<1>1. \E x \in S : \A y \in S : x <= y
  BY LeastOf
<1> QED
  BY <1>1 DEF Least

\* An edge of a pattern joins two variables, which Var1 and Var2 name in order.
LEMMA EdgeIs ==
    ASSUME NEW n \in DOMAIN Patterns, NEW e \in Hyperedges(Patterns[n])
    PROVE  LET pat == Patterns[n]
           IN  /\ pat.vars \in Nat /\ e \in Nat /\ e > 0 /\ e <= Len(pat.edges)
               /\ Var1(pat, e) \in Variables(pat) /\ Var2(pat, e) \in Variables(pat)
               /\ Joined(pat, e) = {Var1(pat, e), Var2(pat, e)}
               /\ Var1(pat, e) # Var2(pat, e)
<1> DEFINE pat == Patterns[n]
<1>1. /\ pat.vars \in Nat /\ pat.edges \in Seq([from : Variables(pat), to : Variables(pat)])
      /\ pat.edges[e].from # pat.edges[e].to
  BY PatternAssumption
<1>2. e \in 1 .. Len(pat.edges) /\ Len(pat.edges) \in Nat
  BY <1>1, LenProperties DEF Hyperedges
<1>3. pat.edges[e] \in [from : Variables(pat), to : Variables(pat)]
  BY <1>1, <1>2, ElementOfSeq
<1>4. pat.edges[e].from \in Variables(pat) /\ pat.edges[e].to \in Variables(pat)
  BY <1>3
<1>5. e \in Nat /\ e > 0 /\ e <= Len(pat.edges)
  BY <1>2
<1> QED
  BY <1>1, <1>4, <1>5 DEF Var1, Var2, Joined

\* Every variable has an edge.
LEMMA VariableIs ==
    ASSUME NEW n \in DOMAIN Patterns, NEW v \in Variables(Patterns[n])
    PROVE  \E e \in Hyperedges(Patterns[n]) : v \in Joined(Patterns[n], e)
<1>1. UNION {Joined(Patterns[n], e) : e \in Hyperedges(Patterns[n])} = Variables(Patterns[n])
  BY PatternAssumption
<1>2. v \in UNION {Joined(Patterns[n], e) : e \in Hyperedges(Patterns[n])}
  BY <1>1, Zenon
<1> QED
  BY <1>2, Zenon

\* A function on 1 .. n is a sequence of length n.
LEMMA SeqOfFunction ==
    ASSUME NEW T, NEW n \in Nat, NEW f \in [1 .. n -> T]
    PROVE  f \in Seq(T) /\ Len(f) = n
<1>1. f = [i \in 1 .. n |-> f[i]] /\ \A i \in 1 .. n : f[i] \in T
  OBVIOUS
<1>2. f \in Seq(T)
  BY <1>1
<1>3. DOMAIN f = 1 .. n /\ DOMAIN f = 1 .. Len(f) /\ Len(f) \in Nat
  BY <1>2, LenProperties
<1> QED
  BY <1>2, <1>3

\* Two functions on 1 .. m and on 1 .. n, one after the other.
LEMMA ConcatOfFunctions ==
    ASSUME NEW T, NEW m \in Nat, NEW n \in Nat, NEW f \in [1 .. m -> T], NEW g \in [1 .. n -> T]
    PROVE  /\ DOMAIN (f \o g) = 1 .. m + n
           /\ \A i \in 1 .. m : (f \o g)[i] = f[i]
           /\ \A i \in 1 .. n : (f \o g)[m + i] = g[i]
<1>1. f \in Seq(T) /\ Len(f) = m /\ g \in Seq(T) /\ Len(g) = n
  BY SeqOfFunction
<1>2. /\ f \o g \in Seq(T) /\ Len(f \o g) = m + n
      /\ \A i \in 1 .. m + n : (f \o g)[i] = IF i <= m THEN f[i] ELSE g[i - m]
  BY <1>1, ConcatProperties, Zenon
<1>3. DOMAIN (f \o g) = 1 .. m + n
  BY <1>2, LenProperties
<1>4. ASSUME NEW i \in 1 .. m PROVE (f \o g)[i] = f[i]
  BY <1>2
<1>5. ASSUME NEW i \in 1 .. n PROVE (f \o g)[m + i] = g[i]
  <2>1. m + i \in 1 .. m + n /\ ~(m + i <= m) /\ (m + i) - m = i
    OBVIOUS
  <2> QED
    BY <1>2, <2>1
<1> QED
  BY <1>3, <1>4, <1>5

\* The providers of a plan: first the variables', then the edges'.
VertexProvider(v) == [edge |-> FALSE, var1 |-> v, var2 |-> 0, lazy |-> FALSE, groups |-> {}]
EdgeProvider(pat, e) ==
    [edge |-> TRUE, var1 |-> Var1(pat, e), var2 |-> Var2(pat, e),
     lazy |-> Physical(pat, e), groups |-> pat.groups[e]]

\* The same as a sequence.
LEMMA ProvidersAre ==
    ASSUME NEW n \in DOMAIN Patterns, NEW pat, pat = Patterns[n]
    PROVE  /\ pat.vars \in Nat /\ Len(pat.edges) \in Nat
           /\ Variables(pat) = 1 .. pat.vars /\ Hyperedges(pat) = 1 .. Len(pat.edges)
           /\ DOMAIN Plan(pat).providers = 1 .. pat.vars + Len(pat.edges)
           /\ \A v \in 1 .. pat.vars : Plan(pat).providers[v] = VertexProvider(v)
           /\ \A e \in 1 .. Len(pat.edges) :
                 Plan(pat).providers[pat.vars + e] = EdgeProvider(pat, e)
<1>1. pat.vars \in Nat /\ pat.edges \in Seq([from : Variables(pat), to : Variables(pat)])
  BY PatternAssumption
<1>2. Len(pat.edges) \in Nat /\ Variables(pat) = 1 .. pat.vars /\ Hyperedges(pat) = 1 .. Len(pat.edges)
  BY <1>1, LenProperties DEF Variables, Hyperedges
<1>3. PICK A : A = [v \in 1 .. pat.vars |-> VertexProvider(v)]
  OBVIOUS
<1>4. PICK B : B = [e \in 1 .. Len(pat.edges) |-> EdgeProvider(pat, e)]
  OBVIOUS
<1>5. Plan(pat).providers = A \o B
  BY <1>2, <1>3, <1>4, Zenon DEF Plan, VertexProvider, EdgeProvider
<1>6. PICK T : T = {A[v] : v \in 1 .. pat.vars} \cup {B[e] : e \in 1 .. Len(pat.edges)}
  OBVIOUS
<1>7. A \in [1 .. pat.vars -> T]
  BY <1>3, <1>6
<1>8. B \in [1 .. Len(pat.edges) -> T]
  BY <1>4, <1>6
<1>9. /\ DOMAIN (A \o B) = 1 .. pat.vars + Len(pat.edges)
      /\ \A v \in 1 .. pat.vars : (A \o B)[v] = A[v]
      /\ \A e \in 1 .. Len(pat.edges) : (A \o B)[pat.vars + e] = B[e]
  <2>1. PICK k \in Nat : k = pat.vars
    BY <1>1
  <2>2. PICK l \in Nat : l = Len(pat.edges)
    BY <1>2
  <2>3. A \in [1 .. k -> T] /\ B \in [1 .. l -> T]
    BY <1>7, <1>8, <2>1, <2>2
  <2>4. /\ DOMAIN (A \o B) = 1 .. k + l
        /\ \A v \in 1 .. k : (A \o B)[v] = A[v]
        /\ \A e \in 1 .. l : (A \o B)[k + e] = B[e]
    BY <2>3, ConcatOfFunctions
  <2> QED
    BY <2>1, <2>2, <2>4
<1>10. ASSUME NEW v \in 1 .. pat.vars PROVE Plan(pat).providers[v] = VertexProvider(v)
  BY <1>3, <1>5, <1>9
<1>11. ASSUME NEW e \in 1 .. Len(pat.edges)
       PROVE  Plan(pat).providers[pat.vars + e] = EdgeProvider(pat, e)
  BY <1>4, <1>5, <1>9
<1>12. DOMAIN Plan(pat).providers = 1 .. pat.vars + Len(pat.edges)
  BY <1>5, <1>9
<1> QED
  BY <1>1, <1>2, <1>10, <1>11, <1>12

\* What the plan says of a variable's provider.
LEMMA VertexShape ==
    ASSUME WorldInv, NEW v \in Vars
    PROVE  /\ v \in P /\ v \in Eager /\ v \in Variables(Pat)
           /\ \A u : Has(v, u) <=> u = v
           /\ \A r : Key(v, r, v) = r[1]
           /\ ~plan.providers[v].edge
<1>1. query.pat \in DOMAIN Patterns /\ plan = Plan(Pat)
  BY DEF WorldInv
<1>2. /\ Pat.vars \in Nat /\ Len(Pat.edges) \in Nat /\ Variables(Pat) = 1 .. Pat.vars
      /\ DOMAIN plan.providers = 1 .. Pat.vars + Len(Pat.edges)
      /\ \A u \in 1 .. Pat.vars : plan.providers[u] = VertexProvider(u)
  BY <1>1, ProvidersAre DEF Pat
<1>3. plan.vars = Pat.vars
  BY <1>1 DEF Plan
<1>4. v \in 1 .. Pat.vars
  BY <1>3 DEF Vars
<1>5. v \in P
  BY <1>2, <1>4 DEF P
<1>6. plan.providers[v] = VertexProvider(v)
  BY <1>2, <1>4
<1>7. plan.providers[v].var1 = v /\ plan.providers[v].edge = FALSE /\ plan.providers[v].lazy = FALSE
  BY <1>6 DEF VertexProvider
<1> QED
  BY <1>2, <1>4, <1>5, <1>7 DEF Eager, Lazy, Has, Key

\* What the plan says of an edge's provider.
LEMMA EdgeShape ==
    ASSUME WorldInv, NEW e \in Hyperedges(Pat), NEW p, p = Pat.vars + e
    PROVE  /\ p \in P /\ p \notin Vars /\ plan.providers[p].edge
           /\ Joined(Pat, e) \subseteq Vars
           /\ \A u : Has(p, u) <=> u \in Joined(Pat, e)
           /\ \A r, u : Key(p, r, u) = KeyAt(Pat, e, r, u)
           /\ plan.providers[p].var1 = Var1(Pat, e) /\ plan.providers[p].var2 = Var2(Pat, e)
<1>1. query.pat \in DOMAIN Patterns /\ plan = Plan(Pat)
  BY DEF WorldInv
<1>2. /\ Pat.vars \in Nat /\ Len(Pat.edges) \in Nat /\ Variables(Pat) = 1 .. Pat.vars
      /\ Hyperedges(Pat) = 1 .. Len(Pat.edges)
      /\ DOMAIN plan.providers = 1 .. Pat.vars + Len(Pat.edges)
      /\ \A f \in 1 .. Len(Pat.edges) : plan.providers[Pat.vars + f] = EdgeProvider(Pat, f)
  BY <1>1, ProvidersAre DEF Pat
<1>3. plan.vars = Pat.vars
  BY <1>1 DEF Plan
<1>4. p \in 1 .. Pat.vars + Len(Pat.edges) /\ p \notin 1 .. Pat.vars
  BY <1>2
<1>5. p \in P /\ p \notin Vars
  BY <1>2, <1>3, <1>4 DEF P, Vars
<1>6. plan.providers[p] = EdgeProvider(Pat, e)
  BY <1>2
<1>7. /\ plan.providers[p].var1 = Var1(Pat, e) /\ plan.providers[p].var2 = Var2(Pat, e)
      /\ plan.providers[p].edge = TRUE
  BY <1>6 DEF EdgeProvider
<1>8. /\ Joined(Pat, e) = {Var1(Pat, e), Var2(Pat, e)}
      /\ Var1(Pat, e) \in Variables(Pat) /\ Var2(Pat, e) \in Variables(Pat)
  BY <1>1, EdgeIs DEF Pat
<1>9. Joined(Pat, e) \subseteq Vars
  BY <1>2, <1>3, <1>8 DEF Vars
<1> QED
  BY <1>5, <1>7, <1>8, <1>9 DEF Has, Key, KeyAt

\* There are no other providers, and every variable has an edge.
LEMMA PlanShape ==
    ASSUME WorldInv
    PROVE  /\ \A p \in P : p \in Vars \/ \E e \in Hyperedges(Pat) : p = Pat.vars + e
           /\ \A v \in Vars : \E e \in Hyperedges(Pat) : v \in Joined(Pat, e)
           /\ Vars = Variables(Pat)
<1>1. query.pat \in DOMAIN Patterns /\ plan = Plan(Pat)
  BY DEF WorldInv
<1>2. /\ Pat.vars \in Nat /\ Len(Pat.edges) \in Nat /\ Variables(Pat) = 1 .. Pat.vars
      /\ Hyperedges(Pat) = 1 .. Len(Pat.edges)
      /\ DOMAIN plan.providers = 1 .. Pat.vars + Len(Pat.edges)
  BY <1>1, ProvidersAre DEF Pat
<1>3. plan.vars = Pat.vars
  BY <1>1 DEF Plan
<1>4. Vars = Variables(Pat)
  BY <1>2, <1>3 DEF Vars
<1>5. ASSUME NEW p \in P, p \notin Vars PROVE \E e \in Hyperedges(Pat) : p = Pat.vars + e
  <2>1. p \in 1 .. Pat.vars + Len(Pat.edges) /\ p \notin 1 .. Pat.vars
    BY <1>2, <1>3, <1>5 DEF P, Vars
  <2>2. PICK k \in Nat : k = Pat.vars
    BY <1>2
  <2>3. PICK l \in Nat : l = Len(Pat.edges)
    BY <1>2
  <2>4. p - k \in 1 .. l /\ p = k + (p - k)
    BY <2>1, <2>2, <2>3
  <2> QED
    BY <1>2, <2>2, <2>3, <2>4
<1>6. ASSUME NEW v \in Vars PROVE \E e \in Hyperedges(Pat) : v \in Joined(Pat, e)
  BY <1>1, <1>4, VariableIs DEF Pat
<1> QED
  BY <1>4, <1>5, <1>6

-----------------------------------------------------------------------------
(* The planned steps.                                                        *)

\* A step goes from one variable of an edge to the other.
Crossings(pat) ==
    {s \in [provider : {pat.vars + e : e \in Hyperedges(pat)},
            from : Variables(pat), to : Variables(pat)] :
        {s.from, s.to} = Joined(pat, s.provider - pat.vars)}

\* Both steps over an edge are such.
LEMMA CrossingIs ==
    ASSUME NEW n \in DOMAIN Patterns, NEW pat, pat = Patterns[n], NEW e \in Hyperedges(pat),
           NEW a, NEW b, {a, b} = Joined(pat, e)
    PROVE  Step(pat.vars + e, a, b) \in Crossings(pat) /\ Step(pat.vars + e, b, a) \in Crossings(pat)
<1>1. /\ pat.vars \in Nat /\ e \in Nat
      /\ Var1(pat, e) \in Variables(pat) /\ Var2(pat, e) \in Variables(pat)
      /\ Joined(pat, e) = {Var1(pat, e), Var2(pat, e)}
  BY EdgeIs
<1>2. a \in Variables(pat) /\ b \in Variables(pat)
  BY <1>1
<1>3. PICK p : p = pat.vars + e
  OBVIOUS
<1>4. p - pat.vars = e /\ p \in {pat.vars + f : f \in Hyperedges(pat)}
  BY <1>1, <1>3
<1>5. {b, a} = Joined(pat, e)
  OBVIOUS
<1>6. Step(p, a, b) \in Crossings(pat)
  BY <1>2, <1>4 DEF Step, Crossings
<1>7. Step(p, b, a) \in Crossings(pat)
  BY <1>2, <1>4, <1>5 DEF Step, Crossings
<1> QED
  BY <1>3, <1>6, <1>7

\* Numbers have an ascending order: by the least counterexample, the least
\* number goes before the ascending order of the others.
LEMMA AscendingExists ==
    ASSUME NEW S \in SUBSET Nat, IsFiniteSet(S)
    PROVE  \E f \in [1 .. Cardinality(S) -> S] : \A i, j \in DOMAIN f : i < j => f[i] < f[j]
<1> DEFINE Sorts(f, T, k) == f \in [1 .. k -> T] /\ \A i, j \in 1 .. k : i < j => f[i] < f[j]
           Bad == {k \in Nat : \E T \in SUBSET Nat : /\ IsFiniteSet(T) /\ Cardinality(T) = k
                                                     /\ ~ \E f : Sorts(f, T, k)}
<1>1. SUFFICES Bad = {}
  <2>1. Cardinality(S) \in Nat
    BY FS_CardinalityType
  <2>2. \E f : Sorts(f, S, Cardinality(S))
    BY <1>1, <2>1
  <2>3. PICK f : Sorts(f, S, Cardinality(S))
    BY <2>2
  <2>4. f \in [1 .. Cardinality(S) -> S] /\ DOMAIN f = 1 .. Cardinality(S)
    BY <2>3
  <2> QED
    BY <2>3, <2>4
<1>2. SUFFICES ASSUME Bad # {} PROVE FALSE
  OBVIOUS
<1>3. PICK k \in Bad : \A l \in Bad : k <= l
  <2>1. Bad \in SUBSET Nat
    OBVIOUS
  <2> HIDE DEF Bad
  <2> QED
    BY <1>2, <2>1, LeastOf
<1>4. PICK T \in SUBSET Nat : IsFiniteSet(T) /\ Cardinality(T) = k /\ ~ \E f : Sorts(f, T, k)
  BY <1>3
<1>5. k \in Nat
  OBVIOUS
<1>6. k # 0
  <2>1. SUFFICES ASSUME k = 0 PROVE FALSE
    OBVIOUS
  <2>2. 1 .. k = {}
    BY <2>1
  <2>3. PICK f : f = [i \in 1 .. k |-> 0]
    OBVIOUS
  <2>4. f \in [1 .. k -> T]
    BY <2>2, <2>3
  <2>5. Sorts(f, T, k)
    BY <2>2, <2>4
  <2> QED
    BY <1>4, <2>5
<1>7. PICK m \in T : \A y \in T : m <= y
  <2>1. T # {}
    BY <1>4, <1>6, FS_EmptySet
  <2> QED
    BY <2>1, LeastOf
<1>8. PICK U : U = T \ {m}
  OBVIOUS
<1>9. IsFiniteSet(U) /\ Cardinality(U) = k - 1
  BY <1>4, <1>7, <1>8, FS_RemoveElement
<1>10. PICK h : Sorts(h, U, k - 1)
  <2>1. k - 1 \in Nat /\ ~(k <= k - 1)
    BY <1>5, <1>6
  <2>2. k - 1 \notin Bad
    BY <1>3, <2>1
  <2>3. U \in SUBSET Nat
    BY <1>8
  <2> QED
    BY <1>9, <2>1, <2>2, <2>3
<1>11. PICK f : f = [i \in 1 .. k |-> IF i = 1 THEN m ELSE h[i - 1]]
  OBVIOUS
<1>12. \A i \in 1 .. k : i # 1 => i - 1 \in 1 .. (k - 1) /\ h[i - 1] \in U
  BY <1>5, <1>10
<1>13. f \in [1 .. k -> T]
  BY <1>7, <1>8, <1>11, <1>12
<1>14. ASSUME NEW i \in 1 .. k, NEW j \in 1 .. k, i < j PROVE f[i] < f[j]
  <2>1. j # 1 /\ j - 1 \in 1 .. (k - 1) /\ h[j - 1] \in U /\ f[j] = h[j - 1]
    BY <1>5, <1>11, <1>12, <1>14
  <2>2. CASE i = 1
    <3>1. f[i] = m
      BY <1>11, <2>2
    <3>2. h[j - 1] \in T /\ h[j - 1] # m /\ h[j - 1] \in Nat /\ m \in Nat
      BY <1>8, <2>1
    <3> QED
      BY <1>7, <2>1, <3>1, <3>2
  <2>3. CASE i # 1
    <3>1. f[i] = h[i - 1] /\ i - 1 \in 1 .. (k - 1) /\ i - 1 < j - 1
      BY <1>5, <1>11, <1>12, <1>14, <2>3
    <3> QED
      BY <1>10, <2>1, <3>1
  <2> QED
    BY <2>2, <2>3
<1> QED
  BY <1>4, <1>13, <1>14

\* An edge with one end in the core joins the separator and the tail.
LEMMA TailFacts ==
    ASSUME NEW n \in DOMAIN Patterns, NEW pat, pat = Patterns[n], NEW e \in Hyperedges(pat),
           TailEdge(pat, e)
    PROVE  /\ LeafTail(pat, e).provider = pat.vars + e
           /\ {LeafTail(pat, e).separator, LeafTail(pat, e).tail} = Joined(pat, e)
<1>1. PICK core : core = CoreVariables(pat)
  OBVIOUS
<1>2. Cardinality(Joined(pat, e) \cap core) = 1
  BY <1>1 DEF TailEdge
<1>3. Joined(pat, e) = {Var1(pat, e), Var2(pat, e)} /\ Var1(pat, e) # Var2(pat, e)
  BY EdgeIs
<1>4. PICK a, b : Joined(pat, e) = {a, b} /\ a # b
  BY <1>3
<1>5. \E v \in Joined(pat, e) : v \in core
  <2>1. SUFFICES ASSUME \A v \in Joined(pat, e) : v \notin core PROVE FALSE
    OBVIOUS
  <2>2. Joined(pat, e) \cap core = {}
    BY <2>1
  <2>3. Cardinality({}) = 0
    BY FS_EmptySet
  <2> QED
    BY <1>2, <2>2, <2>3
<1>6. \E v \in Joined(pat, e) : v \notin core
  <2>1. SUFFICES ASSUME \A v \in Joined(pat, e) : v \in core PROVE FALSE
    OBVIOUS
  <2>2. Joined(pat, e) \cap core = {a} \cup {b}
    BY <1>4, <2>1
  <2>3. IsFiniteSet({a}) /\ Cardinality({a}) = 1
    BY FS_Singleton
  <2>4. Cardinality({a} \cup {b}) = IF b \in {a} THEN Cardinality({a}) ELSE Cardinality({a}) + 1
    BY <2>3, FS_AddElement, Zenon
  <2> QED
    BY <1>2, <1>4, <2>2, <2>3, <2>4
<1>7. PICK x : x = CHOOSE v \in Joined(pat, e) : v \in core
  OBVIOUS
<1>8. PICK y : y = CHOOSE v \in Joined(pat, e) : v \notin core
  OBVIOUS
<1>9. x \in Joined(pat, e) /\ x \in core /\ y \in Joined(pat, e) /\ y \notin core
  BY <1>5, <1>6, <1>7, <1>8
<1>10. {x, y} = Joined(pat, e)
  BY <1>4, <1>9
<1>11. LeafTail(pat, e) = [provider |-> pat.vars + e, separator |-> x, tail |-> y]
  BY <1>1, <1>7, <1>8 DEF LeafTail
<1> QED
  BY <1>10, <1>11

\* Two sequences of steps, one after the other, each made of k elements.
LEMMA StepsOf ==
    ASSUME NEW T, NEW k \in Nat, NEW f, NEW g, f \in [1 .. k -> T], g \in [1 .. k -> T]
    PROVE  f \o g \in Seq(T)
<1>1. f \in Seq(T) /\ g \in Seq(T)
  BY SeqOfFunction
<1> QED
  BY <1>1, ConcatProperties

\* The steps of a cyclic pattern go from its tails to the core and back.
LEMMA TailSteps ==
    ASSUME NEW n \in DOMAIN Patterns, NEW pat, pat = Patterns[n], Cyclic(pat)
    PROVE  SemijoinSteps(pat) \in Seq(Crossings(pat))
<1>1. CASE pat.local
  BY <1>1 DEF SemijoinSteps
<1>2. CASE ~pat.local
  <2>1. PICK tails : tails = {e \in Hyperedges(pat) : TailEdge(pat, e)}
    OBVIOUS
  <2>2. PICK order : order = Ascending(tails)
    OBVIOUS
  <2>3. Hyperedges(pat) = 1 .. Len(pat.edges) /\ Len(pat.edges) \in Nat
    BY ProvidersAre
  <2>4. tails \in SUBSET Nat /\ IsFiniteSet(tails)
    <3>1. tails \in SUBSET (1 .. Len(pat.edges))
      BY <2>1, <2>3
    <3>2. IsFiniteSet(1 .. Len(pat.edges))
      BY <2>3, FS_Interval
    <3>3. IsFiniteSet(tails)
      BY <3>1, <3>2, FS_Subset, Zenon
    <3> QED
      BY <2>3, <3>1, <3>3
  <2>5. PICK k \in Nat : k = Cardinality(tails)
    BY <2>4, FS_CardinalityType
  <2>6. order \in [1 .. k -> tails]
    <3>1. \E f \in [1 .. k -> tails] : \A i, j \in DOMAIN f : i < j => f[i] < f[j]
      BY <2>4, <2>5, AscendingExists
    <3> QED
      BY <2>2, <2>5, <3>1 DEF Ascending
  <2>7. PICK leaf : leaf = [i \in 1 .. k |-> LeafTail(pat, order[i])]
    OBVIOUS
  <2>8. PICK up : up = [i \in 1 .. k |-> Step(leaf[i].provider, leaf[i].tail, leaf[i].separator)]
    OBVIOUS
  <2>9. PICK down :
          down = [i \in 1 .. k |-> Step(leaf[i].provider, leaf[i].separator, leaf[i].tail)]
    OBVIOUS
  <2>10. SemijoinSteps(pat) = up \o down
    <3>1. DOMAIN order = 1 .. k
      BY <2>6
    <3>2. DOMAIN leaf = 1 .. k
      BY <2>7
    <3> QED
      BY <1>2, <2>1, <2>2, <2>7, <2>8, <2>9, <3>1, <3>2, Zenon DEF SemijoinSteps
  <2>11. ASSUME NEW i \in 1 .. k
         PROVE  /\ Step(leaf[i].provider, leaf[i].tail, leaf[i].separator) \in Crossings(pat)
                /\ Step(leaf[i].provider, leaf[i].separator, leaf[i].tail) \in Crossings(pat)
    <3>1. PICK e : e = order[i]
      OBVIOUS
    <3>2. e \in Hyperedges(pat) /\ TailEdge(pat, e) /\ leaf[i] = LeafTail(pat, e)
      BY <2>1, <2>6, <2>7, <3>1
    <3>3. leaf[i].provider = pat.vars + e /\ {leaf[i].separator, leaf[i].tail} = Joined(pat, e)
      BY <3>2, TailFacts
    <3> QED
      BY <3>2, <3>3, CrossingIs
  <2>12. up \in [1 .. k -> Crossings(pat)] /\ down \in [1 .. k -> Crossings(pat)]
    BY <2>8, <2>9, <2>11
  <2> QED
    BY <2>10, <2>12, StepsOf
<1> QED
  BY <1>1, <1>2

\* The rounds of the leaf peel, as LeafPeel defines them.
IsPeel(pat, m, f) == f = [k \in 0 .. m |-> IF k = 0 THEN <<>> ELSE Peel(pat, f[k - 1])]

\* That function exists, by the least number of rounds for which it would not.
LEMMA PeelExists ==
    ASSUME NEW pat, NEW m \in Nat
    PROVE  \E f : IsPeel(pat, m, f)
<1> DEFINE Is(f, l) == IsPeel(pat, l, f)
           Bad == {l \in Nat : ~ \E f : Is(f, l)}
<1>1. SUFFICES ASSUME Bad # {} PROVE FALSE
  OBVIOUS
<1>2. PICK l \in Bad : \A x \in Bad : l <= x
  <2>1. Bad \in SUBSET Nat
    OBVIOUS
  <2> HIDE DEF Bad
  <2> QED
    BY <1>1, <2>1, LeastOf
<1>3. l \in Nat /\ ~ \E f : Is(f, l)
  OBVIOUS
<1>4. l # 0
  <2>1. SUFFICES ASSUME l = 0 PROVE FALSE
    OBVIOUS
  <2>2. PICK f : f = [k \in 0 .. l |-> <<>>]
    OBVIOUS
  <2>3. \A k \in 0 .. l : k = 0
    BY <2>1
  <2>4. Is(f, l)
    BY <2>2, <2>3 DEF IsPeel
  <2> QED
    BY <1>3, <2>4
<1>5. PICK g : Is(g, l - 1)
  <2>1. l - 1 \in Nat /\ ~(l <= l - 1)
    BY <1>3, <1>4
  <2> QED
    BY <1>2, <2>1
<1>6. PICK f : f = [k \in 0 .. l |-> IF k = l THEN Peel(pat, g[l - 1]) ELSE g[k]]
  OBVIOUS
<1>7. ASSUME NEW k \in 0 .. l PROVE f[k] = IF k = 0 THEN <<>> ELSE Peel(pat, f[k - 1])
  <2>1. CASE k = l
    <3>1. k - 1 \in 0 .. l /\ k - 1 # l /\ k # 0
      BY <1>3, <1>4, <2>1
    <3>2. f[k] = Peel(pat, g[l - 1]) /\ f[k - 1] = g[k - 1]
      BY <1>6, <2>1, <3>1
    <3> QED
      BY <2>1, <3>1, <3>2
  <2>2. CASE k # l
    <3>1. k \in 0 .. (l - 1) /\ f[k] = g[k]
      BY <1>3, <1>6, <2>2
    <3>2. g[k] = IF k = 0 THEN <<>> ELSE Peel(pat, g[k - 1])
      BY <1>5, <3>1 DEF IsPeel
    <3>3. k # 0 => k - 1 \in 0 .. l /\ k - 1 # l
      BY <1>3, <2>2
    <3>4. k # 0 => f[k - 1] = g[k - 1]
      BY <1>6, <3>3
    <3> QED
      BY <3>1, <3>2, <3>4
  <2> QED
    BY <2>1, <2>2
<1>8. f = [k \in 0 .. l |-> f[k]]
  BY <1>6
<1>9. Is(f, l)
  BY <1>7, <1>8 DEF IsPeel
<1> QED
  BY <1>3, <1>9

\* Without a core, edges that are left have an end that no other of them reaches.
LEMMA LeafExists ==
    ASSUME NEW n \in DOMAIN Patterns, NEW pat, pat = Patterns[n], CoreEdges(pat) = {},
           NEW alive \in SUBSET Hyperedges(pat), alive # {}
    PROVE  \E e \in alive : \E v \in Joined(pat, e) : Degree(pat, alive, v) = 1
<1>1. ~ \A e \in alive : \A v \in Joined(pat, e) : Degree(pat, alive, v) > 1
  <2>1. SUFFICES ASSUME \A e \in alive : \A v \in Joined(pat, e) : Degree(pat, alive, v) > 1
                 PROVE  FALSE
    OBVIOUS
  <2>2. alive \in {S \in SUBSET Hyperedges(pat) :
                      \A e \in S : \A v \in Joined(pat, e) : Degree(pat, S, v) > 1}
    BY <2>1
  <2>3. alive \subseteq CoreEdges(pat)
    BY <2>2, Zenon DEF CoreEdges
  <2> QED
    BY <2>3
<1>2. PICK e \in alive : \E v \in Joined(pat, e) : ~(Degree(pat, alive, v) > 1)
  BY <1>1
<1>3. PICK v \in Joined(pat, e) : ~(Degree(pat, alive, v) > 1)
  BY <1>2
<1>4. PICK ends : ends = {f \in alive : v \in Joined(pat, f)}
  OBVIOUS
<1>5. Hyperedges(pat) = 1 .. Len(pat.edges) /\ Len(pat.edges) \in Nat
  BY ProvidersAre
<1>6. IsFiniteSet(Hyperedges(pat))
  BY <1>5, FS_Interval
<1>7. ends \in SUBSET Hyperedges(pat) /\ e \in ends
  BY <1>4
<1>8. IsFiniteSet(ends)
  BY <1>6, <1>7, FS_Subset
<1>9. Cardinality(ends) \in Nat /\ Cardinality(ends) # 0
  BY <1>7, <1>8, FS_CardinalityType, FS_EmptySet
<1>10. Degree(pat, alive, v) = Cardinality(ends)
  BY <1>4 DEF Degree
<1>11. Degree(pat, alive, v) = 1
  BY <1>3, <1>9, <1>10
<1> QED
  BY <1>3, <1>11

\* What the leaf peel takes away: an edge and its two ends.
Peeled(pat) ==
    {r \in [edge : Hyperedges(pat), leaf : Variables(pat), sep : Variables(pat)] :
        {r.leaf, r.sep} = Joined(pat, r.edge)}

\* As long as fewer edges than there are were taken, another can be.
LEMMA EdgesLeft ==
    ASSUME NEW n \in DOMAIN Patterns, NEW pat, pat = Patterns[n],
           NEW order \in Seq(Peeled(pat)), Len(order) < Len(pat.edges),
           NEW alive, alive = Hyperedges(pat) \ {order[i].edge : i \in DOMAIN order}
    PROVE  alive # {}
<1>1. SUFFICES ASSUME alive = {} PROVE FALSE
  OBVIOUS
<1>2. PICK k \in Nat : k = Len(order)
  BY LenProperties
<1>3. PICK l \in Nat : l = Len(pat.edges)
  BY ProvidersAre
<1>4. Hyperedges(pat) = 1 .. l
  BY <1>3, ProvidersAre
<1>5. DOMAIN order = 1 .. k
  BY <1>2, LenProperties
<1>6. PICK h : h = [i \in 1 .. k |-> order[i].edge]
  OBVIOUS
<1>7. PICK done : done = {order[i].edge : i \in DOMAIN order}
  OBVIOUS
<1>8. h \in Surjection(1 .. k, done)
  BY <1>5, <1>6, <1>7 DEF Surjection
<1>9. ExistsSurjection(1 .. k, done)
  BY <1>8 DEF ExistsSurjection
<1>10. IsFiniteSet(done) /\ Cardinality(done) <= k
  BY <1>9, FS_NatSurjection, FS_SurjCardinalityBound
<1>11. 1 .. l \in SUBSET done
  BY <1>1, <1>4, <1>7
<1>12. Cardinality(1 .. l) <= Cardinality(done)
  BY <1>10, <1>11, FS_Subset
<1>13. Cardinality(1 .. l) = l
  BY FS_Interval
<1>14. Cardinality(done) \in Nat
  BY <1>10, FS_CardinalityType
<1>15. k < l
  BY <1>2, <1>3
<1> QED
  BY <1>10, <1>12, <1>13, <1>14, <1>15

\* One round of the leaf peel.
LEMMA PeelRound ==
    ASSUME NEW n \in DOMAIN Patterns, NEW pat, pat = Patterns[n], CoreEdges(pat) = {},
           NEW order \in Seq(Peeled(pat)), Len(order) < Len(pat.edges)
    PROVE  Peel(pat, order) \in Seq(Peeled(pat)) /\ Len(Peel(pat, order)) = Len(order) + 1
<1>1. PICK alive : alive = Hyperedges(pat) \ {order[i].edge : i \in DOMAIN order}
  OBVIOUS
<1>2. alive # {}
  BY <1>1, EdgesLeft, ZenonT(60)
<1>3. PICK leaves : leaves = {f \in alive : \E v \in Joined(pat, f) : Degree(pat, alive, v) = 1}
  OBVIOUS
<1>4. alive \in SUBSET Hyperedges(pat)
  BY <1>1
<1>5. leaves # {}
  BY <1>2, <1>3, <1>4, LeafExists
<1>6. \A e \in Hyperedges(pat) : e \in Nat
  BY EdgeIs
<1>7. leaves \in SUBSET Nat
  BY <1>3, <1>4, <1>6
<1>8. PICK e : e = Least(leaves)
  OBVIOUS
<1>9. e \in leaves
  BY <1>5, <1>7, <1>8, LeastIs
<1>10. e \in Hyperedges(pat)
  BY <1>3, <1>4, <1>9
<1>11. /\ Joined(pat, e) = {Var1(pat, e), Var2(pat, e)} /\ Var1(pat, e) # Var2(pat, e)
       /\ Var1(pat, e) \in Variables(pat) /\ Var2(pat, e) \in Variables(pat)
  BY <1>10, EdgeIs
<1>12. PICK leaf : leaf = IF Degree(pat, alive, Var1(pat, e)) = 1 THEN Var1(pat, e) ELSE Var2(pat, e)
  OBVIOUS
<1>13. PICK sep : sep = CHOOSE v \in Joined(pat, e) : v # leaf
  OBVIOUS
<1>14. leaf \in Joined(pat, e) /\ sep \in Joined(pat, e) /\ sep # leaf
  <2>1. leaf \in Joined(pat, e)
    BY <1>11, <1>12
  <2>2. \E v \in Joined(pat, e) : v # leaf
    BY <1>11
  <2> QED
    BY <1>13, <2>1, <2>2
<1>15. PICK r : r = [edge |-> e, leaf |-> leaf, sep |-> sep]
  OBVIOUS
<1>16. r \in Peeled(pat)
  <2>1. leaf \in Variables(pat) /\ sep \in Variables(pat) /\ {leaf, sep} = Joined(pat, e)
    BY <1>11, <1>14
  <2> QED
    BY <1>10, <1>15, <2>1 DEF Peeled
<1>17. Peel(pat, order) = Append(order, r)
  BY <1>1, <1>3, <1>8, <1>12, <1>13, <1>15 DEF Peel
<1>18. Append(order, r) \in Seq(Peeled(pat)) /\ Len(Append(order, r)) = Len(order) + 1
  BY <1>16, AppendProperties
<1> QED
  BY <1>17, <1>18

\* All rounds of it.
LEMMA PeelRounds ==
    ASSUME NEW n \in DOMAIN Patterns, NEW pat, pat = Patterns[n], CoreEdges(pat) = {},
           NEW m \in Nat, m = Len(pat.edges), NEW f, IsPeel(pat, m, f)
    PROVE  \A k \in 0 .. m : f[k] \in Seq(Peeled(pat)) /\ Len(f[k]) = k
<1> DEFINE Good(k) == f[k] \in Seq(Peeled(pat)) /\ Len(f[k]) = k
           Bad == {k \in 0 .. m : ~Good(k)}
<1>1. SUFFICES ASSUME Bad # {} PROVE FALSE
  OBVIOUS
<1>2. PICK k \in Bad : \A x \in Bad : k <= x
  <2>1. Bad \in SUBSET Nat
    OBVIOUS
  <2> HIDE DEF Bad
  <2> QED
    BY <1>1, <2>1, LeastOf
<1>3. k \in 0 .. m /\ ~Good(k)
  OBVIOUS
<1>4. CASE k = 0
  <2>1. f[k] = <<>>
    BY <1>3, <1>4 DEF IsPeel
  <2> QED
    BY <1>3, <1>4, <2>1, EmptySeq
<1>5. CASE k # 0
  <2>1. k - 1 \in 0 .. m /\ ~(k <= k - 1) /\ k - 1 < m /\ (k - 1) + 1 = k
    BY <1>3, <1>5
  <2>2. Good(k - 1)
    BY <1>2, <2>1
  <2>3. PICK order : order = f[k - 1]
    OBVIOUS
  <2>4. order \in Seq(Peeled(pat)) /\ Len(order) = k - 1
    BY <2>2, <2>3
  <2>5. f[k] = Peel(pat, order)
    BY <1>3, <1>5, <2>3 DEF IsPeel
  <2>6. Peel(pat, order) \in Seq(Peeled(pat)) /\ Len(Peel(pat, order)) = Len(order) + 1
    BY <2>1, <2>4, PeelRound
  <2> QED
    BY <1>3, <2>1, <2>4, <2>5, <2>6
<1> QED
  BY <1>4, <1>5

\* The steps of an acyclic pattern go over the edges in the order of the peel.
LEMMA PeelSteps ==
    ASSUME NEW n \in DOMAIN Patterns, NEW pat, pat = Patterns[n], ~Cyclic(pat)
    PROVE  SemijoinSteps(pat) \in Seq(Crossings(pat))
<1>1. PICK m \in Nat : m = Len(pat.edges)
  BY ProvidersAre
<1>2. CoreEdges(pat) = {}
  BY PatternAssumption
<1>3. PICK peel : peel = LeafPeel(pat)
  OBVIOUS
<1>4. peel \in Seq(Peeled(pat)) /\ Len(peel) = m
  <2> DEFINE F == CHOOSE f : IsPeel(pat, m, f)
  <2>1. peel = F[m]
    BY <1>1, <1>3 DEF LeafPeel, IsPeel
  <2>2. IsPeel(pat, m, F)
    BY PeelExists
  <2> HIDE DEF F
  <2>3. \A k \in 0 .. m : F[k] \in Seq(Peeled(pat)) /\ Len(F[k]) = k
    BY <1>1, <1>2, <2>2, PeelRounds
  <2>4. m \in 0 .. m
    OBVIOUS
  <2> QED
    BY <2>1, <2>3, <2>4
<1>5. DOMAIN peel = 1 .. m
  BY <1>4, LenProperties
<1>6. PICK up : up = [i \in 1 .. m |-> Step(pat.vars + peel[i].edge, peel[i].leaf, peel[i].sep)]
  OBVIOUS
<1>7. PICK down : down = [i \in 1 .. m |-> Step(pat.vars + peel[i].edge, peel[i].sep, peel[i].leaf)]
  OBVIOUS
<1>8. SemijoinSteps(pat) = Reverse(up) \o down
  BY <1>3, <1>5, <1>6, <1>7, Zenon DEF SemijoinSteps
<1>9. ASSUME NEW i \in 1 .. m
      PROVE  /\ Step(pat.vars + peel[i].edge, peel[i].leaf, peel[i].sep) \in Crossings(pat)
             /\ Step(pat.vars + peel[i].edge, peel[i].sep, peel[i].leaf) \in Crossings(pat)
  <2>1. peel[i] \in Peeled(pat)
    BY <1>4, ElementOfSeq
  <2>2. peel[i].edge \in Hyperedges(pat) /\ {peel[i].leaf, peel[i].sep} = Joined(pat, peel[i].edge)
    BY <2>1 DEF Peeled
  <2> QED
    BY <2>2, CrossingIs
<1>10. up \in [1 .. m -> Crossings(pat)] /\ down \in [1 .. m -> Crossings(pat)]
  BY <1>6, <1>7, <1>9
<1>11. Reverse(up) \in [1 .. m -> Crossings(pat)]
  <2>1. up \in Seq(Crossings(pat)) /\ Len(up) = m
    BY <1>10, SeqOfFunction
  <2>2. Reverse(up) = [i \in 1 .. m |-> up[(m - i) + 1]]
    BY <2>1 DEF Reverse
  <2>3. \A i \in 1 .. m : (m - i) + 1 \in 1 .. m
    OBVIOUS
  <2>4. \A i \in 1 .. m : up[(m - i) + 1] \in Crossings(pat)
    BY <1>10, <2>3
  <2> QED
    BY <2>2, <2>4
<1> QED
  BY <1>8, <1>10, <1>11, StepsOf

\* Every planned step goes from one variable of an edge to the other.
LEMMA StepsAre ==
    ASSUME NEW n \in DOMAIN Patterns
    PROVE  SemijoinSteps(Patterns[n]) \in Seq(Crossings(Patterns[n]))
BY TailSteps, PeelSteps

-----------------------------------------------------------------------------
(* The rows of a join.                                                       *)

\* Two rows of a join agree on the variable their edges share.
LEMMA KeyOfEdge ==
    ASSUME WorldInv, NEW c \in joins, NEW e \in Hyperedges(Pat), NEW v \in Joined(Pat, e)
    PROVE  /\ KeyAt(Pat, e, c[Pat.vars + e], v) = JoinKey(c, v)
           /\ <<JoinKey(c, v), 0, 0>> \in input[v]
<1>1. joins = Joins(Pat, input)
  BY DEF WorldInv
<1>2. IsJoin(Pat, input, c)
  BY <1>1 DEF Joins
<1>3. PICK f : f = CHOOSE g \in Hyperedges(Pat) : v \in Joined(Pat, g)
  OBVIOUS
<1>4. f \in Hyperedges(Pat) /\ v \in Joined(Pat, f)
  BY <1>3
<1>5. JoinKey(c, v) = KeyAt(Pat, f, c[Pat.vars + f], v)
  BY <1>3 DEF JoinKey
<1>6. /\ KeyAt(Pat, f, c[Pat.vars + f], v) = KeyAt(Pat, e, c[Pat.vars + e], v)
      /\ <<KeyAt(Pat, e, c[Pat.vars + e], v), 0, 0>> \in input[v]
  BY <1>2, <1>4 DEF IsJoin
<1> QED
  BY <1>5, <1>6

\* A join takes its rows from what the providers find.
LEMMA RowOfEdge ==
    ASSUME WorldInv, NEW c \in joins, NEW e \in Hyperedges(Pat)
    PROVE  c[Pat.vars + e] \in input[Pat.vars + e]
BY DEF WorldInv, Joins

\* The row a join has of a provider is there, with the join's keys.
LEMMA RowIs ==
    ASSUME WorldInv, NEW c \in joins, NEW p \in P
    PROVE  /\ RowOf(c, p) \in input[p]
           /\ \A v : Has(p, v) => v \in Vars /\ Key(p, RowOf(c, p), v) = JoinKey(c, v)
<1>1. CASE p \in Vars
  <2>1. RowOf(c, p) = <<JoinKey(c, p), 0, 0>> /\ RowOf(c, p)[1] = JoinKey(c, p)
    BY <1>1 DEF RowOf
  <2>2. PICK e \in Hyperedges(Pat) : p \in Joined(Pat, e)
    BY <1>1, PlanShape
  <2>3. <<JoinKey(c, p), 0, 0>> \in input[p]
    BY <2>2, KeyOfEdge
  <2>4. \A v : Has(p, v) => v = p
    BY <1>1, VertexShape
  <2>5. Key(p, RowOf(c, p), p) = RowOf(c, p)[1]
    BY <1>1, VertexShape
  <2> QED
    BY <1>1, <2>1, <2>3, <2>4, <2>5
<1>2. CASE p \notin Vars
  <2>1. PICK e \in Hyperedges(Pat) : p = Pat.vars + e
    BY <1>2, PlanShape
  <2>2. RowOf(c, p) = c[p]
    BY <1>2 DEF RowOf
  <2>3. \A v : Has(p, v) => v \in Joined(Pat, e) /\ v \in Vars
    BY <2>1, EdgeShape
  <2>4. \A v : Key(p, c[p], v) = KeyAt(Pat, e, c[p], v)
    BY <2>1, EdgeShape
  <2>5. \A v \in Joined(Pat, e) : KeyAt(Pat, e, c[p], v) = JoinKey(c, v)
    BY <2>1, KeyOfEdge
  <2>6. c[p] \in input[p]
    BY <2>1, RowOfEdge
  <2> QED
    BY <2>2, <2>3, <2>4, <2>5, <2>6
<1> QED
  BY <1>1, <1>2

\* ReductionSafe says that all joins keep their rows.
LEMMA SafeIs ==
    ASSUME WorldInv, NEW c \in joins, Keeps(rows, c), NEW e \in Hyperedges(Pat), NEW p, p = Pat.vars + e
    PROVE  /\ Lazy(p) \/ c[p] \in rows[p]
           /\ \A v \in Joined(Pat, e) : <<KeyAt(Pat, e, c[p], v), 0, 0>> \in rows[v]
<1>1. p \in P /\ p \notin Vars /\ Joined(Pat, e) \subseteq Vars
  BY EdgeShape
<1>2. RowOf(c, p) = c[p]
  BY <1>1 DEF RowOf
<1>3. Lazy(p) \/ c[p] \in rows[p]
  BY <1>1, <1>2 DEF Keeps, Eager
<1>4. ASSUME NEW v \in Joined(Pat, e) PROVE <<KeyAt(Pat, e, c[p], v), 0, 0>> \in rows[v]
  <2>1. v \in Eager /\ v \in Vars
    BY <1>1, VertexShape
  <2>2. RowOf(c, v) = <<JoinKey(c, v), 0, 0>> /\ RowOf(c, v) \in rows[v]
    BY <2>1 DEF RowOf, Keeps
  <2> QED
    BY <2>2, KeyOfEdge
<1> QED
  BY <1>3, <1>4

\* The keys of a join are in the domains of the rows that keep it.
LEMMA InDomains ==
    ASSUME WorldInv, NEW c \in joins, NEW R, Keeps(R, c), NEW v \in Vars
    PROVE  <<v, JoinKey(c, v)>> \in Domains(R)
<1>1. v \in Eager /\ v \in P
  BY VertexShape
<1>2. RowOf(c, v) \in R[v] /\ RowOf(c, v)[1] = JoinKey(c, v)
  BY <1>1 DEF Keeps, RowOf
<1>3. PICK d : d = <<v, JoinKey(c, v)>>
  OBVIOUS
<1>4. d[1] = v /\ d[2] = JoinKey(c, v)
  BY <1>3
<1>5. d \in {<<v, r[1]>> : r \in R[v]}
  BY <1>2, <1>3
<1>6. d \in UNION {{<<u, r[1]>> : r \in R[u]} : u \in Vars}
  BY <1>5
<1>7. ASSUME NEW p \in Eager, Has(p, d[1]) PROVE \E r \in R[p] : Key(p, r, d[1]) = d[2]
  <2>1. p \in P
    BY DEF Eager
  <2>2. RowOf(c, p) \in R[p]
    BY DEF Keeps
  <2>3. Key(p, RowOf(c, p), v) = JoinKey(c, v)
    BY <1>4, <1>7, <2>1, RowIs
  <2> QED
    BY <1>4, <2>2, <2>3
<1> QED
  BY <1>3, <1>6, <1>7 DEF Domains

-----------------------------------------------------------------------------
(* The filters keep the rows of every join.                                  *)

\* filter_generic_provider, on the domains of the rows themselves.
LEMMA KeepsFiltered ==
    ASSUME WorldInv, NEW c \in joins, NEW R, Keeps(R, c), NEW S
    PROVE  Keeps(Filtered(R, Domains(R), S), c)
<1> SUFFICES ASSUME NEW p \in Eager PROVE RowOf(c, p) \in Filtered(R, Domains(R), S)[p]
  BY DEF Keeps
<1>1. p \in P /\ RowOf(c, p) \in R[p]
  BY DEF Eager, Keeps
<1>2. ASSUME NEW v \in Vars, Has(p, v) PROVE <<v, Key(p, RowOf(c, p), v)>> \in Domains(R)
  <2>1. Key(p, RowOf(c, p), v) = JoinKey(c, v)
    BY <1>1, <1>2, RowIs
  <2> QED
    BY <2>1, InDomains
<1>3. Within(Domains(R), p, RowOf(c, p))
  BY <1>2 DEF Within
<1> QED
  BY <1>1, <1>3 DEF Filtered

\* filter_generic_provider_on_variable, on keys that have the join's.
LEMMA KeepsOnVariable ==
    ASSUME WorldInv, NEW c \in joins, NEW R, Keeps(R, c), NEW v, NEW keys, JoinKey(c, v) \in keys
    PROVE  Keeps(OnVariable(R, v, keys), c)
<1> SUFFICES ASSUME NEW p \in Eager PROVE RowOf(c, p) \in OnVariable(R, v, keys)[p]
  BY DEF Keeps
<1>1. p \in P /\ RowOf(c, p) \in R[p]
  BY DEF Eager, Keeps
<1>2. Has(p, v) => Key(p, RowOf(c, p), v) \in keys
  BY <1>1, RowIs
<1> QED
  BY <1>1, <1>2 DEF OnVariable

\* The keys of a join pass every semijoin step.
LEMMA InStepDomain ==
    ASSUME WorldInv, NEW c \in joins, Keeps(rows, c), NEW s \in Crossings(Pat)
    PROVE  JoinKey(c, s.to) \in StepDomain(s, Domains(rows))
<1>1. PICK e \in Hyperedges(Pat) : s.provider = Pat.vars + e
  BY DEF Crossings
<1>2. {s.from, s.to} = Joined(Pat, s.provider - Pat.vars)
  BY DEF Crossings
<1>3. PICK p : p = s.provider
  OBVIOUS
<1>4. Pat.vars \in Nat /\ e \in Nat
  BY EdgeIs DEF WorldInv, Pat
<1>5. p - Pat.vars = e
  BY <1>1, <1>3, <1>4
<1>6. s.from \in Joined(Pat, e) /\ s.to \in Joined(Pat, e) /\ Var1(Pat, e) \in Joined(Pat, e)
  <2>1. {s.from, s.to} = Joined(Pat, e)
    BY <1>2, <1>3, <1>5
  <2>2. Joined(Pat, e) = {Var1(Pat, e), Var2(Pat, e)}
    BY EdgeIs DEF WorldInv, Pat
  <2> QED
    BY <2>1, <2>2
<1>7. /\ p \in P /\ Has(p, s.from) /\ Has(p, s.to)
      /\ Has(p, plan.providers[p].var1)
  BY <1>1, <1>3, <1>6, EdgeShape
<1>8. PICK r : r = RowOf(c, p)
  OBVIOUS
<1>9. /\ r \in input[p] /\ s.from \in Vars /\ plan.providers[p].var1 \in Vars
      /\ Key(p, r, s.from) = JoinKey(c, s.from) /\ Key(p, r, s.to) = JoinKey(c, s.to)
      /\ Key(p, r, plan.providers[p].var1) = JoinKey(c, plan.providers[p].var1)
  BY <1>7, <1>8, RowIs
<1>10. <<s.from, Key(p, r, s.from)>> \in Domains(rows)
  BY <1>9, InDomains
<1>11. Key(p, r, plan.providers[p].var1) = r[1]
  BY DEF Key
<1>12. <<plan.providers[p].var1, r[1]>> \in Domains(rows)
  BY <1>9, <1>11, InDomains
<1>13. ~Lazy(p) => r \in rows[p]
  BY <1>7, <1>8 DEF Keeps, Eager
<1> HIDE DEF plan, Domains, Lazy, Key, JoinKey
<1>14. CASE Lazy(p)
  <2>1. r \in {x \in input[p] : <<plan.providers[p].var1, x[1]>> \in Domains(rows)}
    BY <1>9, <1>12
  <2> QED
    BY <1>3, <1>9, <1>10, <1>14, <2>1 DEF StepDomain
<1>15. CASE ~Lazy(p)
  BY <1>3, <1>9, <1>10, <1>13, <1>15 DEF StepDomain
<1> QED
  BY <1>14, <1>15

\* A separator's provider joins the separator and the tail.
LEMMA SeparatorIs ==
    ASSUME WorldInv, NEW s \in Separators
    PROVE  s.provider \in P /\ Has(s.provider, s.separator) /\ Has(s.provider, s.tail)
<1>1. query.pat \in DOMAIN Patterns /\ plan = Plan(Pat)
  BY DEF WorldInv
<1>2. CASE s \in plan.tails
  <2>1. s \in LeafTails(Pat)
    BY <1>1, <1>2 DEF Plan
  <2>2. PICK e \in Hyperedges(Pat) : TailEdge(Pat, e) /\ s = LeafTail(Pat, e)
    BY <2>1 DEF LeafTails
  <2>3. /\ s.provider = Pat.vars + e
        /\ s.separator \in Joined(Pat, e) /\ s.tail \in Joined(Pat, e)
    BY <1>1, <2>2, TailFacts DEF Pat
  <2> QED
    BY <2>3, EdgeShape
<1>3. CASE s \notin plan.tails
  <2>1. PICK p \in EdgeProviders :
          s = [provider |-> p,
               separator |-> IF plan.providers[p].var1 \in plan.core
                             THEN plan.providers[p].var1 ELSE plan.providers[p].var2,
               tail |-> IF plan.providers[p].var1 \in plan.core
                        THEN plan.providers[p].var2 ELSE plan.providers[p].var1]
    BY <1>3 DEF Separators
  <2>2. p \in P /\ plan.providers[p].edge
    BY DEF EdgeProviders
  <2> QED
    BY <2>1, <2>2 DEF Has
<1> QED
  BY <1>2, <1>3

-----------------------------------------------------------------------------
(* The split of a four-cycle.                                                *)

\* The two providers of a bag join on via, and have both ends of its pair.
IsBag(b, via, s) ==
    /\ b[1] \in P /\ b[2] \in P /\ b[1] # b[2]
    /\ Has(b[1], via) /\ Has(b[2], via)
    /\ Has(b[1], s.u) \/ Has(b[2], s.u)
    /\ Has(b[1], s.w) \/ Has(b[2], s.w)

\* Two edges that share the variable via, and have u and w, are a bag.
LEMMA BagIs ==
    ASSUME WorldInv, NEW e \in Hyperedges(Pat), NEW f \in Hyperedges(Pat), e # f, NEW s,
           NEW via, NEW b, b = <<Pat.vars + e, Pat.vars + f>>,
           via \in Joined(Pat, e) \cap Joined(Pat, f),
           s.u \in Joined(Pat, e) \cup Joined(Pat, f), s.w \in Joined(Pat, e) \cup Joined(Pat, f)
    PROVE  IsBag(b, via, s)
<1>1. Pat.vars \in Nat /\ e \in Nat /\ f \in Nat
  BY EdgeIs DEF WorldInv, Pat
<1>2. PICK p : p = Pat.vars + e
  OBVIOUS
<1>3. PICK q : q = Pat.vars + f
  OBVIOUS
<1>4. p # q
  BY <1>1, <1>2, <1>3
<1>5. p \in P /\ \A v : Has(p, v) <=> v \in Joined(Pat, e)
  BY <1>2, EdgeShape
<1>6. q \in P /\ \A v : Has(q, v) <=> v \in Joined(Pat, f)
  BY <1>3, EdgeShape
<1>7. b[1] = p /\ b[2] = q
  BY <1>2, <1>3
<1> QED
  BY <1>4, <1>5, <1>6, <1>7 DEF IsBag

\* The parent and the child of a split are bags.
LEMMA SplitIs ==
    ASSUME WorldInv, plan.pairs # <<>>, NEW s, s = plan.pairs[1]
    PROVE  IsBag(s.parent, s.parent_via, s) /\ IsBag(s.child, s.child_via, s)
<1>1. query.pat \in DOMAIN Patterns /\ plan = Plan(Pat)
  BY DEF WorldInv
<1>2. plan.pairs = PairSeparators(Pat)
  BY <1>1 DEF Plan
<1> DEFINE core == {e \in Hyperedges(Pat) : Joined(Pat, e) \subseteq CoreVariables(Pat)}
           first == Least(core)
           u == Var1(Pat, first)
           v == Var2(Pat, first)
           seconds == {e \in core \ {first} : v \in Joined(Pat, e) /\ u \notin Joined(Pat, e)}
           second == Least(seconds)
           w == CHOOSE y \in Joined(Pat, second) : y # v
           thirds == {e \in core \ {first, second} :
                         w \in Joined(Pat, e) /\ v \notin Joined(Pat, e)}
           third == Least(thirds)
           x == CHOOSE y \in Joined(Pat, third) : y # w
           fourths == {e \in core \ {first, second, third} : Joined(Pat, e) = {x, u}}
           fourth == Least(fourths)
           split == [u |-> u, w |-> w, parent |-> <<Pat.vars + first, Pat.vars + second>>,
                     child |-> <<Pat.vars + fourth, Pat.vars + third>>,
                     parent_via |-> v, child_via |-> x]
<1>3. PairSeparators(Pat) # <<>> =>
        /\ Cardinality(core) = 4
        /\ seconds # {} /\ thirds # {} /\ fourths # {}
        /\ PairSeparators(Pat) = <<split>>
  BY Zenon DEF PairSeparators
<1>4. core \in SUBSET Nat /\ core \subseteq Hyperedges(Pat)
  <2>1. \A e \in Hyperedges(Pat) : e \in Nat
    BY <1>1, EdgeIs DEF Pat
  <2> QED
    BY <2>1
<1>5. \A e \in Hyperedges(Pat) : /\ Joined(Pat, e) = {Var1(Pat, e), Var2(Pat, e)}
                                 /\ Var1(Pat, e) # Var2(Pat, e)
  BY <1>1, EdgeIs DEF Pat
<1> HIDE DEF core
<1>6. core # {}
  <2>1. Cardinality({}) = 0
    BY FS_EmptySet
  <2> QED
    BY <1>2, <1>3, <2>1
<1>7. first \in core
  BY <1>4, <1>6, LeastIs
<1> HIDE DEF first
<1>8. Joined(Pat, first) = {u, v} /\ first \in Hyperedges(Pat)
  BY <1>4, <1>5, <1>7
<1>9. seconds \in SUBSET Nat /\ seconds # {}
  BY <1>2, <1>3, <1>4
<1>10. second \in seconds
  BY <1>9, LeastIs
<1>11. second \in Hyperedges(Pat) /\ second # first /\ v \in Joined(Pat, second)
  BY <1>4, <1>10
<1> HIDE DEF second, u, v
<1>12. w \in Joined(Pat, second) /\ w # v
  <2>1. \E y \in Joined(Pat, second) : y # v
    BY <1>5, <1>11
  <2> QED
    BY <2>1
<1> HIDE DEF w, seconds
<1>13. thirds \in SUBSET Nat /\ thirds # {}
  BY <1>2, <1>3, <1>4
<1>14. third \in thirds
  BY <1>13, LeastIs
<1>15. third \in Hyperedges(Pat) /\ w \in Joined(Pat, third)
  BY <1>4, <1>14
<1> HIDE DEF third
<1>16. x \in Joined(Pat, third)
  <2>1. \E y \in Joined(Pat, third) : y # w
    BY <1>5, <1>15
  <2> QED
    BY <2>1
<1> HIDE DEF x, thirds
<1>17. fourths \in SUBSET Nat /\ fourths # {}
  BY <1>2, <1>3, <1>4
<1>18. fourth \in fourths
  BY <1>17, LeastIs
<1>19. fourth \in Hyperedges(Pat) /\ fourth # third /\ Joined(Pat, fourth) = {x, u}
  BY <1>4, <1>18
<1> HIDE DEF fourth, fourths
<1>20. s = split
  BY <1>2, <1>3
<1>21. /\ s.u = u /\ s.w = w /\ s.parent_via = v /\ s.child_via = x
       /\ s.parent = <<Pat.vars + first, Pat.vars + second>>
       /\ s.child = <<Pat.vars + fourth, Pat.vars + third>>
  BY <1>20
<1> HIDE DEF split
<1>22. IsBag(s.parent, s.parent_via, s)
  BY <1>8, <1>11, <1>12, <1>21, BagIs
<1>23. IsBag(s.child, s.child_via, s)
  BY <1>15, <1>16, <1>19, <1>21, BagIs
<1> QED
  BY <1>22, <1>23

\* The rows of a join are a path of the bag, with the join's pair.
LEMMA PathOfBag ==
    ASSUME WorldInv, NEW c \in joins, NEW R, Keeps(R, c), NEW b, NEW via, NEW s, IsBag(b, via, s),
           b[1] \in Eager, b[2] \in Eager, NEW rt, rt = <<RowOf(c, b[1]), RowOf(c, b[2])>>
    PROVE  rt \in Ends(R, b, via, s) /\ PairOf(b, s, rt) = <<JoinKey(c, s.u), JoinKey(c, s.w)>>
<1>1. PICK p, q : p = b[1] /\ q = b[2]
  OBVIOUS
<1>2. /\ p \in P /\ q \in P /\ Has(p, via) /\ Has(q, via)
      /\ Has(p, s.u) \/ Has(q, s.u)
      /\ Has(p, s.w) \/ Has(q, s.w)
  BY <1>1 DEF IsBag
<1>3. rt[1] = RowOf(c, p) /\ rt[2] = RowOf(c, q)
  BY <1>1
<1>4. rt \in R[p] \X R[q]
  BY <1>1 DEF Keeps
<1>5. \A v : Has(p, v) => Key(p, rt[1], v) = JoinKey(c, v)
  BY <1>2, <1>3, RowIs
<1>6. \A v : Has(q, v) => Key(q, rt[2], v) = JoinKey(c, v)
  BY <1>2, <1>3, RowIs
<1> HIDE DEF Key, JoinKey, Has
<1>7. rt \in Ends(R, b, via, s)
  BY <1>1, <1>2, <1>4, <1>5, <1>6 DEF Ends
<1>8. PairOf(b, s, rt) = <<JoinKey(c, s.u), JoinKey(c, s.w)>>
  BY <1>1, <1>2, <1>5, <1>6 DEF PairOf
<1> QED
  BY <1>7, <1>8

\* Filtering a bag on pairs that have the join's keeps the join.
LEMMA KeepsOnPairs ==
    ASSUME WorldInv, NEW c \in joins, NEW R, R = [p \in P |-> R[p]], Keeps(R, c),
           NEW b, NEW via, NEW s, IsBag(b, via, s), b[1] \in Eager, b[2] \in Eager,
           NEW pairs, <<JoinKey(c, s.u), JoinKey(c, s.w)>> \in pairs
    PROVE  /\ Keeps(OnPairs(R, b, via, s, pairs), c)
           /\ OnPairs(R, b, via, s, pairs) = [p \in P |-> OnPairs(R, b, via, s, pairs)[p]]
<1>1. PICK rt : rt = <<RowOf(c, b[1]), RowOf(c, b[2])>>
  OBVIOUS
<1>2. rt \in Ends(R, b, via, s) /\ PairOf(b, s, rt) \in pairs
  BY <1>1, PathOfBag
<1>3. PICK kept : kept = {x \in Ends(R, b, via, s) : PairOf(b, s, x) \in pairs}
  OBVIOUS
<1>4. rt \in kept
  BY <1>2, <1>3
<1>5. PICK N : N = OnPairs(R, b, via, s, pairs)
  OBVIOUS
<1>6. N = [R EXCEPT ![b[1]] = {x[1] : x \in kept}, ![b[2]] = {x[2] : x \in kept}]
  BY <1>3, <1>5 DEF OnPairs
<1>7. PICK A : A = {x[1] : x \in kept}
  OBVIOUS
<1>8. PICK B : B = {x[2] : x \in kept}
  OBVIOUS
<1>9. RowOf(c, b[1]) \in A /\ RowOf(c, b[2]) \in B
  BY <1>1, <1>4, <1>7, <1>8
<1>10. b[1] \in P /\ b[2] \in P /\ b[1] # b[2]
  BY DEF IsBag
<1>11. DOMAIN R = P
  OBVIOUS
<1>12. N = [R EXCEPT ![b[1]] = A, ![b[2]] = B]
  BY <1>6, <1>7, <1>8
<1>13. DOMAIN N = P /\ N[b[1]] = A /\ N[b[2]] = B /\ \A p \in P \ {b[1], b[2]} : N[p] = R[p]
  BY <1>10, <1>11, <1>12
<1>14. N = [p \in P |-> N[p]]
  BY <1>11, <1>12
<1>15. Keeps(N, c)
  BY <1>9, <1>13 DEF Keeps, Eager
<1> QED
  BY <1>5, <1>14, <1>15

\* The pair of a join is among those of a bag.
LEMMA InPairDomain ==
    ASSUME WorldInv, NEW c \in joins, NEW R, Keeps(R, c), NEW b, NEW via, NEW s, IsBag(b, via, s),
           b[1] \in Eager, b[2] \in Eager
    PROVE  <<JoinKey(c, s.u), JoinKey(c, s.w)>> \in PairDomain(R, b, via, s)
<1>1. PICK rt : rt = <<RowOf(c, b[1]), RowOf(c, b[2])>>
  OBVIOUS
<1>2. rt \in Ends(R, b, via, s) /\ PairOf(b, s, rt) = <<JoinKey(c, s.u), JoinKey(c, s.w)>>
  BY <1>1, PathOfBag
<1> QED
  BY <1>2 DEF PairDomain

-----------------------------------------------------------------------------
(* The steps.                                                                *)

\* A step that leaves the query and its joins alone, and keeps the rows of every
\* join from when they are read, preserves the invariant.
LEMMA KeepingStep ==
    ASSUME IInv, query' = query, input' = input, joins' = joins, state' \in States,
           rows' = [p \in P |-> rows'[p]],
           pc' = "steps" => at' \in Nat \ {0},
           state'.materialized \/ pc' \in Reducing => \A c \in joins : Keeps(rows', c)
    PROVE  IInv'
<1>1. plan' = plan /\ Pat' = Pat
  BY DEF plan, Pat
<1>2. WorldInv'
  BY <1>1 DEF IInv, WorldInv, P
<1>3. ASSUME NEW c, Keeps(rows', c) PROVE Keeps(rows, c)'
  BY <1>1, <1>3 DEF Keeps, Eager, Lazy, P, RowOf, Vars, JoinKey
<1>4. (state.materialized \/ pc \in Reducing => \A c \in joins : Keeps(rows, c))'
  BY <1>3 DEF Reducing
<1> QED
  BY <1>2, <1>4 DEF IInv

\* A step that leaves the rows alone, and is no reduction, preserves it.
LEMMA QuietStep ==
    ASSUME IInv, query' = query, input' = input, joins' = joins, rows' = rows, state' \in States,
           state'.materialized = state.materialized, pc' \notin Reducing
    PROVE  IInv'
<1>1. rows' = [p \in P |-> rows'[p]]
  BY DEF IInv, WorldInv
<1>2. pc' # "steps"
  BY DEF Reducing
<1>3. state'.materialized \/ pc' \in Reducing => \A c \in joins : Keeps(rows', c)
  BY DEF IInv
<1> QED
  BY <1>1, <1>2, <1>3, KeepingStep

\* What the end of the reduction does to the state.
LEMMA ReducedIs ==
    ASSUME IInv, NEW x \in BOOLEAN, Reduced(x)
    PROVE  state' \in States /\ pc' # "steps" /\ pc' \notin Reducing
BY DEF IInv, States, Reduced, Reducing

\* Reading the providers: a provider without a row has no join either.
LEMMA MaterializeStep ==
    ASSUME IInv, Materialize
    PROVE  IInv'
<1>1. WorldInv /\ state \in States
  BY DEF IInv
<1>2. query' = query /\ input' = input /\ joins' = joins /\ at' = 1
  BY DEF Materialize
<1>3. rows' = [p \in P |->
                  IF Lazy(p) \/ \E q \in Eager : q < p /\ input[q] = {} THEN {} ELSE input[p]]
  BY DEF Materialize
<1>4. rows' = [p \in P |-> rows'[p]]
  BY <1>3
<1>5. ASSUME NEW c \in joins PROVE Keeps(rows', c)
  <2>1. \A p \in P : RowOf(c, p) \in input[p]
    BY <1>1, RowIs
  <2>2. \A p \in Eager : p \in P /\ ~Lazy(p)
    BY DEF Eager
  <2>3. \A p \in Eager : input[p] # {}
    BY <2>1, <2>2
  <2>4. ASSUME NEW p \in Eager PROVE rows'[p] = input[p]
    BY <1>3, <2>2, <2>3
  <2> QED
    BY <2>1, <2>2, <2>4 DEF Keeps
<1>6. state' \in States
  <2>1. CASE Reduced(TRUE)
    BY <2>1, ReducedIs
  <2>2. CASE UNCHANGED state
    BY <1>1, <2>2
  <2> QED
    BY <2>1, <2>2 DEF Materialize
<1> QED
  BY <1>2, <1>4, <1>5, <1>6, KeepingStep

\* A semijoin step.
LEMMA SemijoinStep ==
    ASSUME IInv, ReduceSemijoinSteps
    PROVE  IInv'
<1>1. WorldInv /\ state \in States /\ pc = "steps" /\ at \in Nat /\ at > 0
  BY DEF IInv, ReduceSemijoinSteps
<1>2. \A c \in joins : Keeps(rows, c)
  BY <1>1 DEF IInv, Reducing
<1>3. query' = query /\ input' = input /\ joins' = joins
  BY DEF ReduceSemijoinSteps
<1>4. CASE at > Len(plan.steps)
  <2>1. rows' = rows /\ state' = state /\ pc' = "tail"
    BY <1>4 DEF ReduceSemijoinSteps
  <2>2. rows' = [p \in P |-> rows'[p]]
    BY <1>1, <2>1 DEF WorldInv
  <2> QED
    BY <1>1, <1>2, <1>3, <2>1, <2>2, KeepingStep
<1>5. CASE ~(at > Len(plan.steps))
  <2>1. PICK s : s = plan.steps[at]
    OBVIOUS
  <2>2. s \in Crossings(Pat)
    <3>1. plan.steps \in Seq(Crossings(Pat))
      BY <1>1, StepsAre DEF WorldInv, Plan, Pat
    <3>2. Len(plan.steps) \in Nat
      BY <3>1, LenProperties
    <3>3. at \in 1 .. Len(plan.steps)
      BY <1>1, <1>5, <3>2
    <3> QED
      BY <2>1, <3>1, <3>3, ElementOfSeq
  <2>3. PICK D : D = Domains(rows)
    OBVIOUS
  <2>4. PICK next : next = OnVariable(rows, s.to, StepDomain(s, D))
    OBVIOUS
  <2>5. /\ rows' = IF NoDomain(D) THEN rows ELSE next
        /\ at' = at + 1
        /\ Reduced(TRUE) \/ UNCHANGED <<state, pc>>
    BY <1>5, <2>1, <2>3, <2>4 DEF ReduceSemijoinSteps
  <2>6. ASSUME NEW c \in joins PROVE Keeps(next, c)
    <3>1. JoinKey(c, s.to) \in StepDomain(s, Domains(rows))
      BY <1>1, <1>2, <2>2, InStepDomain
    <3> QED
      BY <1>1, <1>2, <2>3, <2>4, <3>1, KeepsOnVariable
  <2>7. \A c \in joins : Keeps(rows', c)
    BY <1>2, <2>5, <2>6
  <2>8. rows' = [p \in P |-> rows'[p]]
    <3>1. next = [p \in P |-> next[p]]
      BY <2>4 DEF OnVariable
    <3>2. rows = [p \in P |-> rows[p]]
      BY <1>1 DEF WorldInv
    <3> QED
      BY <2>5, <3>1, <3>2
  <2>9. state' \in States
    BY <1>1, <2>5, ReducedIs
  <2>10. at' \in Nat \ {0}
    BY <1>1, <2>5
  <2> QED
    BY <1>3, <2>7, <2>8, <2>9, <2>10, KeepingStep
<1> QED
  BY <1>4, <1>5

\* A pass over the providers outside of the core.
LEMMA TailStep ==
    ASSUME IInv, ReduceTailDomains
    PROVE  IInv'
<1>1. WorldInv /\ state \in States /\ pc = "tail"
  BY DEF IInv, ReduceTailDomains
<1>2. \A c \in joins : Keeps(rows, c)
  BY <1>1 DEF IInv, Reducing
<1>3. query' = query /\ input' = input /\ joins' = joins
  BY DEF ReduceTailDomains
<1>4. PICK next : next = Filtered(rows, Domains(rows), {p \in P : ~InCore(p)})
  OBVIOUS
<1>5. /\ rows' = rows \/ rows' = next
      /\ Reduced(TRUE) \/ (UNCHANGED state /\ pc' \in {"tail", "pair", "separate"})
  BY <1>1, <1>4 DEF ReduceTailDomains
<1>6. \A c \in joins : Keeps(rows', c)
  BY <1>1, <1>2, <1>4, <1>5, KeepsFiltered
<1>7. rows' = [p \in P |-> rows'[p]]
  <2>1. next = [p \in P |-> next[p]]
    BY <1>4 DEF Filtered
  <2>2. rows = [p \in P |-> rows[p]]
    BY <1>1 DEF WorldInv
  <2> QED
    BY <1>5, <2>1, <2>2
<1>8. state' \in States /\ pc' # "steps"
  BY <1>1, <1>5, ReducedIs
<1> QED
  BY <1>3, <1>6, <1>7, <1>8, KeepingStep

\* The separators.
LEMMA SeparatorStep ==
    ASSUME IInv, ReduceLeafTailSeparators
    PROVE  IInv'
<1>1. WorldInv /\ state \in States /\ pc = "separate"
  BY DEF IInv, ReduceLeafTailSeparators
<1>2. \A c \in joins : Keeps(rows, c)
  BY <1>1 DEF IInv, Reducing
<1>3. query' = query /\ input' = input /\ joins' = joins
  BY DEF ReduceLeafTailSeparators
<1> DEFINE D == Domains(rows)
           seps == {s \in Separators : ~Lazy(s.provider)}
           keys(s) == {Key(s.provider, r, s.separator) :
                          r \in {x \in rows[s.provider] :
                                   <<s.tail, Key(s.provider, x, s.tail)>> \in D}}
<1>4. rows' = [p \in P |->
                 {r \in rows[p] : \A s \in seps : Has(p, s.separator) =>
                                      Key(p, r, s.separator) \in keys(s)}]
  BY DEF ReduceLeafTailSeparators
<1>5. ASSUME NEW c \in joins, NEW s \in seps PROVE JoinKey(c, s.separator) \in keys(s)
  <2>1. s \in Separators /\ ~Lazy(s.provider)
    OBVIOUS
  <2>2. s.provider \in P /\ Has(s.provider, s.separator) /\ Has(s.provider, s.tail)
    BY <1>1, <2>1, SeparatorIs
  <2>3. PICK r : r = RowOf(c, s.provider)
    OBVIOUS
  <2>4. r \in rows[s.provider]
    BY <1>2, <2>1, <2>2, <2>3 DEF Keeps, Eager
  <2>5. /\ Key(s.provider, r, s.separator) = JoinKey(c, s.separator)
        /\ Key(s.provider, r, s.tail) = JoinKey(c, s.tail) /\ s.tail \in Vars
    BY <1>1, <2>2, <2>3, RowIs
  <2>6. <<s.tail, JoinKey(c, s.tail)>> \in D
    BY <1>1, <1>2, <2>5, InDomains
  <2> HIDE DEF D
  <2> QED
    BY <2>4, <2>5, <2>6
<1> HIDE DEF keys, seps
<1>6. ASSUME NEW c \in joins PROVE Keeps(rows', c)
  <2> SUFFICES ASSUME NEW p \in Eager PROVE RowOf(c, p) \in rows'[p]
    BY DEF Keeps
  <2>1. p \in P /\ RowOf(c, p) \in rows[p]
    BY <1>2 DEF Eager, Keeps
  <2>2. \A v : Has(p, v) => Key(p, RowOf(c, p), v) = JoinKey(c, v)
    BY <1>1, <2>1, RowIs
  <2>3. \A s \in seps : Has(p, s.separator) => Key(p, RowOf(c, p), s.separator) \in keys(s)
    BY <1>5, <2>2
  <2> QED
    BY <1>4, <2>1, <2>3
<1>7. rows' = [p \in P |-> rows'[p]]
  BY <1>4
<1>8. state' \in States /\ pc' # "steps"
  <2>1. state' = state \/ state' = [state EXCEPT !.materialized = TRUE, !.exhausted = TRUE]
    BY DEF ReduceLeafTailSeparators
  <2>2. pc' \in {"none", "pair"}
    BY DEF ReduceLeafTailSeparators
  <2> QED
    BY <1>1, <2>1, <2>2 DEF States
<1> QED
  BY <1>3, <1>6, <1>7, <1>8, KeepingStep

\* The bags of a split of which no provider is physical are read.
LEMMA SplitEager ==
    ASSUME WorldInv, plan.pairs # <<>>, NEW s, s = plan.pairs[1],
           IsBag(s.parent, s.parent_via, s), IsBag(s.child, s.child_via, s),
           \A p \in P : Lazy(p) => p \notin ToSet(s.parent \o s.child)
    PROVE  /\ s.parent[1] \in Eager /\ s.parent[2] \in Eager
           /\ s.child[1] \in Eager /\ s.child[2] \in Eager
<1>1. PICK p1, p2, q1, q2 : s.parent = <<p1, p2>> /\ s.child = <<q1, q2>>
  BY Zenon DEF WorldInv, Plan, PairSeparators
<1>2. PICK T : T = {p1, p2, q1, q2}
  OBVIOUS
<1>3. {p1, p2, q1, q2} \subseteq ToSet(s.parent \o s.child)
  <2>1. s.parent \in Seq(T) /\ Len(s.parent) = 2 /\ s.child \in Seq(T) /\ Len(s.child) = 2
    BY <1>1, <1>2
  <2>2. PICK b1 \in Seq(T) : b1 = s.parent
    BY <2>1
  <2>3. PICK b2 \in Seq(T) : b2 = s.child
    BY <2>1
  <2>4. /\ b1 \o b2 \in Seq(T) /\ Len(b1 \o b2) = Len(b1) + Len(b2)
        /\ \A i \in 1 .. Len(b1) + Len(b2) :
              (b1 \o b2)[i] = IF i <= Len(b1) THEN b1[i] ELSE b2[i - Len(b1)]
    BY ConcatProperties
  <2>5. PICK cat : cat = b1 \o b2
    OBVIOUS
  <2>6. /\ cat \in Seq(T) /\ Len(cat) = 4
        /\ \A i \in 1 .. 4 : cat[i] = IF i <= 2 THEN b1[i] ELSE b2[i - 2]
    <3>1. Len(b1) = 2 /\ Len(b2) = 2
      BY <2>1, <2>2, <2>3
    <3>2. /\ cat \in Seq(T) /\ Len(cat) = 2 + 2
          /\ \A i \in 1 .. 2 + 2 : cat[i] = IF i <= 2 THEN b1[i] ELSE b2[i - 2]
      BY <2>4, <2>5, <3>1, Zenon
    <3> QED
      BY <3>2
  <2>7. DOMAIN cat = 1 .. 4
    BY <2>6, LenProperties
  <2>8. cat[1] = p1 /\ cat[2] = p2 /\ cat[3] = q1 /\ cat[4] = q2
    BY <1>1, <2>2, <2>3, <2>6
  <2>9. 1 \in DOMAIN cat /\ 2 \in DOMAIN cat /\ 3 \in DOMAIN cat /\ 4 \in DOMAIN cat
    BY <2>7
  <2> QED
    BY <2>2, <2>3, <2>5, <2>8, <2>9, ZenonT(60) DEF ToSet
<1>4. {p1, p2, q1, q2} \subseteq P
  BY <1>1 DEF IsBag
<1> QED
  BY <1>1, <1>3, <1>4 DEF Eager

\* Filtering a bag leaves the providers.
LEMMA OnPairsIs ==
    ASSUME NEW R, R = [p \in P |-> R[p]], NEW b, NEW via, NEW s, NEW pairs, NEW N,
           N = OnPairs(R, b, via, s, pairs)
    PROVE  N = [p \in P |-> N[p]]
<1>1. DOMAIN R = P
  OBVIOUS
<1>2. PICK A, B : N = [R EXCEPT ![b[1]] = A, ![b[2]] = B]
  BY DEF OnPairs
<1> QED
  BY <1>1, <1>2

\* The split of a four-cycle.
LEMMA PairStep ==
    ASSUME IInv, ReducePairSeparators
    PROVE  IInv'
<1>1. WorldInv /\ state \in States /\ pc = "pair"
  BY DEF IInv, ReducePairSeparators
<1>2. \A c \in joins : Keeps(rows, c)
  BY <1>1 DEF IInv, Reducing
<1>3. query' = query /\ input' = input /\ joins' = joins
  BY DEF ReducePairSeparators
<1>4. PICK s : s = plan.pairs[1]
  OBVIOUS
<1> DEFINE skip == plan.pairs = <<>> \/ \E p \in P : Lazy(p) /\ p \in ToSet(s.parent \o s.child)
<1>5. CASE skip
  <2>1. rows' = rows /\ state' = state /\ pc' = "pass"
    BY <1>4, <1>5 DEF ReducePairSeparators
  <2>2. rows' = [p \in P |-> rows'[p]]
    BY <1>1, <2>1 DEF WorldInv
  <2> QED
    BY <1>1, <1>2, <1>3, <2>1, <2>2, KeepingStep
<1>6. CASE ~skip
  <2>1. IsBag(s.parent, s.parent_via, s) /\ IsBag(s.child, s.child_via, s)
    BY <1>1, <1>4, <1>6, SplitIs
  <2>2. s.parent[1] \in Eager /\ s.parent[2] \in Eager /\ s.child[1] \in Eager /\ s.child[2] \in Eager
    BY <1>1, <1>4, <1>6, <2>1, SplitEager
  <2>3. PICK up : up = OnPairs(rows, s.parent, s.parent_via, s,
                               PairDomain(rows, s.child, s.child_via, s))
    OBVIOUS
  <2>4. PICK down : down = OnPairs(up, s.child, s.child_via, s,
                                   PairDomain(up, s.parent, s.parent_via, s))
    OBVIOUS
  <2>5. rows' = down /\ (Reduced(TRUE) \/ (UNCHANGED state /\ pc' = "pass"))
    BY <1>4, <1>6, <2>3, <2>4, Zenon DEF ReducePairSeparators
  <2>6. rows = [p \in P |-> rows[p]]
    BY <1>1 DEF WorldInv
  <2>7. up = [p \in P |-> up[p]] /\ down = [p \in P |-> down[p]]
    BY <2>3, <2>4, <2>6, OnPairsIs
  <2>8. ASSUME NEW c \in joins PROVE Keeps(down, c)
    <3>1. <<JoinKey(c, s.u), JoinKey(c, s.w)>> \in PairDomain(rows, s.child, s.child_via, s)
      BY <1>1, <1>2, <2>1, <2>2, InPairDomain
    <3>2. Keeps(up, c)
      BY <1>1, <1>2, <2>1, <2>2, <2>3, <2>6, <3>1, KeepsOnPairs
    <3>3. <<JoinKey(c, s.u), JoinKey(c, s.w)>> \in PairDomain(up, s.parent, s.parent_via, s)
      BY <1>1, <2>1, <2>2, <3>2, InPairDomain
    <3> QED
      BY <1>1, <2>1, <2>2, <2>4, <2>7, <3>2, <3>3, KeepsOnPairs
  <2>9. state' \in States /\ pc' # "steps"
    BY <1>1, <2>5, ReducedIs
  <2> QED
    BY <1>3, <2>5, <2>7, <2>8, <2>9, KeepingStep
<1> QED
  BY <1>5, <1>6

\* A pass over all providers.
LEMMA PassStep ==
    ASSUME IInv, ReduceProviders
    PROVE  IInv'
<1>1. WorldInv /\ state \in States /\ pc = "pass"
  BY DEF IInv, ReduceProviders
<1>2. \A c \in joins : Keeps(rows, c)
  BY <1>1 DEF IInv, Reducing
<1>3. query' = query /\ input' = input /\ joins' = joins
  BY DEF ReduceProviders
<1>4. PICK next : next = Filtered(rows, Domains(rows), P)
  OBVIOUS
<1>5. /\ rows' = rows \/ rows' = next
      /\ Reduced(NoDomain(Domains(rows))) \/ Reduced(Emptied(next)) \/ UNCHANGED <<state, pc>>
  BY <1>4 DEF ReduceProviders
<1>6. \A c \in joins : Keeps(rows', c)
  BY <1>1, <1>2, <1>4, <1>5, KeepsFiltered
<1>7. rows' = [p \in P |-> rows'[p]]
  <2>1. next = [p \in P |-> next[p]]
    BY <1>4 DEF Filtered
  <2>2. rows = [p \in P |-> rows[p]]
    BY <1>1 DEF WorldInv
  <2> QED
    BY <1>5, <2>1, <2>2
<1>8. NoDomain(Domains(rows)) \in BOOLEAN /\ Emptied(next) \in BOOLEAN
  BY DEF NoDomain, Emptied
<1>9. state' \in States /\ pc' # "steps"
  BY <1>1, <1>5, <1>8, ReducedIs
<1> QED
  BY <1>3, <1>6, <1>7, <1>9, KeepingStep

\* The search, the combinations and the consumers leave the rows alone.
LEMMA SearchStep ==
    ASSUME IInv, NextBinding \/ BuildLevel \/ TakeCandidate \/ Backtrack \/ Combine
    PROVE  IInv'
<1>1. state \in States
  BY DEF IInv
<1>2. CASE NextBinding
  BY <1>1, <1>2, QuietStep DEF NextBinding, Reducing
<1>3. CASE BuildLevel
  BY <1>1, <1>3, QuietStep DEF BuildLevel, Reducing
<1>4. CASE TakeCandidate
  <2>1. /\ query' = query /\ input' = input /\ joins' = joins /\ rows' = rows
        /\ state' = state \/ state' = [state EXCEPT !.ready = TRUE, !.combining = FALSE]
        /\ pc' \in {"search", "use"}
    BY <1>4 DEF TakeCandidate
  <2> QED
    BY <1>1, <2>1, QuietStep DEF States, Reducing
<1>5. CASE Backtrack
  <2>1. /\ query' = query /\ input' = input /\ joins' = joins /\ rows' = rows
        /\ state' = state \/ state' = [state EXCEPT !.exhausted = TRUE]
        /\ pc' \in {"search", "none"}
    BY <1>5 DEF Backtrack
  <2> QED
    BY <1>1, <2>1, QuietStep DEF States, Reducing
<1>6. CASE Combine
  <2>1. /\ query' = query /\ input' = input /\ joins' = joins /\ rows' = rows
        /\ state' = state \/ state' = [state EXCEPT !.ready = FALSE, !.combining = FALSE]
        /\ pc' \in {"combine", "want", "found"}
    BY <1>6 DEF Combine
  <2> QED
    BY <1>1, <2>1, QuietStep DEF States, Reducing
<1> QED
  BY <1>2, <1>3, <1>4, <1>5, <1>6

\* The consumers count, group or return, and read nothing but the bags.
LEMMA ConsumerStep ==
    ASSUME IInv, \/ Call \/ OpenGroup \/ UseProduct \/ UseSmallBags \/ UseCombinations
                 \/ TakeCombination \/ TakeDistinct \/ CloseGroup \/ Finish
    PROVE  IInv'
<1>1. state \in States
  BY DEF IInv
<1>2. query' = query /\ input' = input /\ joins' = joins /\ rows' = rows
  BY DEF Call, OpenGroup, UseProduct, UseSmallBags, UseCombinations, TakeCombination,
         TakeDistinct, CloseGroup, Finish, fixed
<1>3. \/ state' = state
      \/ state' = [state EXCEPT !.ready = FALSE, !.combining = FALSE]
      \/ state' = [state EXCEPT !.combining = TRUE]
  BY Zenon DEF Call, OpenGroup, UseProduct, UseSmallBags, UseCombinations, TakeCombination,
         TakeDistinct, CloseGroup, Finish, Consumed
<1>4. state' \in States /\ state'.materialized = state.materialized
  BY <1>1, <1>3 DEF States
<1>5. pc' \in {"idle", "use", "want", "combine", "none"}
  BY DEF Call, OpenGroup, UseProduct, UseSmallBags, UseCombinations, TakeCombination,
         TakeDistinct, CloseGroup, Finish, Consumed, Return, ReturnNone, InGroup
<1>6. pc' \notin Reducing
  BY <1>5 DEF Reducing
<1> QED
  BY <1>2, <1>4, <1>6, QuietStep

\* The joins of a world are those of its pattern in its input.
LEMMA WorldIs ==
    ASSUME NEW w \in Worlds
    PROVE  w.pat \in DOMAIN Patterns /\ w.joins = Joins(Patterns[w.pat], w.input)
<1>1. PICK n \in DOMAIN Patterns :
        w \in {[pat |-> n, input |-> i, joins |-> Joins(Patterns[n], i)] : i \in Inputs[n]}
  BY Zenon DEF Worlds
<1>2. PICK i \in Inputs[n] : w = [pat |-> n, input |-> i, joins |-> Joins(Patterns[n], i)]
  BY <1>1
<1> QED
  BY <1>2

\* A scan starts again with another input and nothing read of it.
LEMMA RescanStep ==
    ASSUME IInv, Rescan
    PROVE  IInv'
<1>1. PICK w \in Worlds : w.pat = query.pat /\ input' = w.input /\ joins' = w.joins
  BY DEF Rescan
<1>2. joins' = Joins(Pat, input')
  BY <1>1, WorldIs DEF Pat
<1>3. query' = query /\ pc' = "idle" /\ state' = NewState /\ rows' = [p \in P |-> {}]
  BY DEF Rescan
<1>4. plan' = plan /\ Pat' = Pat
  BY <1>3 DEF plan, Pat
<1>5. rows' = [p \in P |-> rows'[p]]
  BY <1>3
<1>6. WorldInv'
  BY <1>2, <1>3, <1>4, <1>5 DEF IInv, WorldInv, P
<1>7. state' \in States /\ ~state'.materialized
  BY <1>3 DEF NewState, States
<1>8. pc' # "steps" /\ pc' \notin Reducing
  BY <1>3 DEF Reducing
<1> QED
  BY <1>6, <1>7, <1>8 DEF IInv, Reducing

-----------------------------------------------------------------------------
(* The theorems.                                                             *)

\* The invariant holds before the first call.
LEMMA InitIInv == Init => IInv
<1> SUFFICES ASSUME Init PROVE IInv
  OBVIOUS
<1>1. PICK w \in Worlds : w.pat = query.pat /\ input = w.input /\ joins = w.joins
  BY DEF Init
<1>2. query.pat \in DOMAIN Patterns /\ joins = Joins(Pat, input)
  BY <1>1, WorldIs DEF Pat
<1>3. plan = Plan(Pat)
  <2>1. PICK q \in Queries :
          query = [pat |-> q.pat, plan |-> Plan(Patterns[q.pat]), kind |-> q.kind, key |-> q.key,
                   sum |-> q.sum, goal |-> q.goal]
    BY DEF Init, Planned
  <2>2. query.plan = Plan(Patterns[query.pat])
    BY <2>1
  <2> QED
    BY <2>2 DEF plan, Pat
<1>4. rows = [p \in P |-> {}] /\ state = NewState /\ pc = "idle"
  BY DEF Init
<1>5. WorldInv
  BY <1>2, <1>3, <1>4 DEF WorldInv
<1>6. state \in States /\ ~state.materialized /\ pc # "steps" /\ pc \notin Reducing
  BY <1>4 DEF NewState, States, Reducing
<1> QED
  BY <1>5, <1>6 DEF IInv

\* Every step preserves it.
LEMMA NextIInv == IInv /\ [Next]_vars => IInv'
<1> SUFFICES ASSUME IInv, [Next]_vars PROVE IInv'
  OBVIOUS
<1>1. CASE Materialize
  BY <1>1, MaterializeStep
<1>2. CASE ReduceSemijoinSteps
  BY <1>2, SemijoinStep
<1>3. CASE ReduceTailDomains
  BY <1>3, TailStep
<1>4. CASE ReduceLeafTailSeparators
  BY <1>4, SeparatorStep
<1>5. CASE ReducePairSeparators
  BY <1>5, PairStep
<1>6. CASE ReduceProviders
  BY <1>6, PassStep
<1>7. CASE NextBinding \/ BuildLevel \/ TakeCandidate \/ Backtrack \/ Combine
  BY <1>7, SearchStep
<1>8. CASE \/ Call \/ OpenGroup \/ UseProduct \/ UseSmallBags \/ UseCombinations
           \/ TakeCombination \/ TakeDistinct \/ CloseGroup \/ Finish
  BY <1>8, ConsumerStep
<1>9. CASE Rescan
  BY <1>9, RescanStep
<1>10. CASE UNCHANGED vars
  <2>1. /\ query' = query /\ input' = input /\ joins' = joins /\ rows' = rows
        /\ state' = state /\ pc' = pc /\ at' = at
    BY <1>10 DEF vars
  <2>2. /\ rows' = [p \in P |-> rows'[p]] /\ state' \in States
        /\ pc' = "steps" => at' \in Nat \ {0}
        /\ state'.materialized \/ pc' \in Reducing => \A c \in joins : Keeps(rows', c)
    BY <2>1 DEF IInv, WorldInv
  <2> QED
    BY <2>1, <2>2, KeepingStep
<1> QED
  BY <1>1, <1>2, <1>3, <1>4, <1>5, <1>6, <1>7, <1>8, <1>9, <1>10 DEF Next, Execute

\* From when they are read, the rows of the providers hold the rows of every
\* join, through every filter of reduce_generic_providers and all rescans.
THEOREM Invariance == Spec => []IInv
<1>1. Init => IInv
  BY InitIInv
<1>2. IInv /\ [Next]_vars => IInv'
  BY NextIInv
<1> QED
  BY <1>1, <1>2, PTL DEF Spec

\* ReductionSafe, for every pattern, every input and every consumer: no semijoin
\* step, separator or pass of the reduction takes away a vertex or an edge that
\* some join of the pattern needs.
THEOREM ReductionSafeAlways == Spec => []ReductionSafe
<1>1. IInv => ReductionSafe
  <2> SUFFICES ASSUME IInv, state.materialized \/ pc \in Reducing,
                      NEW c \in joins, NEW e \in Hyperedges(Pat), NEW p, p = Pat.vars + e
               PROVE  /\ Lazy(p) \/ c[p] \in rows[p]
                      /\ \A v \in Joined(Pat, e) : <<KeyAt(Pat, e, c[p], v), 0, 0>> \in rows[v]
    BY DEF ReductionSafe, Reducing, Pat
  <2>1. WorldInv /\ Keeps(rows, c)
    BY DEF IInv
  <2> QED
    BY <2>1, SafeIs
<1> QED
  BY <1>1, Invariance, PTL

=============================================================================
