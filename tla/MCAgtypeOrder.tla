--------------------------- MODULE MCAgtypeOrder ---------------------------
(***************************************************************************)
(* Values for the model checker: two or three of every type, of every      *)
(* length up to two, nested once or twice.  Numbers lie on both sides of   *)
(* the bounds up to which conversions are exact: an integer is rounded     *)
(* when it is compared with a float, and a float when it is compared with  *)
(* a numeric.                                                              *)
(***************************************************************************)
EXTENDS AgtypeOrder

Integer(n) == Value("integer", <<n>>)
Float(n) == Value("float", <<n>>)
FloatNaN == Value("float", <<>>)
Numeric(n) == Value("numeric", <<n>>)
Bool(n) == Value("bool", <<n>>)
Str(n) == Value("string", <<n>>)
Null == Value("null", <<>>)
Vertex(id) == Value("vertex", <<id>>)
Edge(id) == Value("edge", <<id>>)
Path(entities) == Value("path", entities)
List(elems) == Value("array", elems)
Map(pairs) == Value("object", pairs)

Scalars ==
    {Null, Bool(0), Bool(1), Str(1), Str(2), Integer(-1), Integer(4),
     Integer(5), Float(3), Float(4), FloatNaN, Numeric(3), Numeric(4), Vertex(1), Vertex(2), Edge(1),
     Path(<<Vertex(2)>>), Path(<<Vertex(1), Edge(1), Vertex(2)>>),
     Path(<<Vertex(1), Edge(1), Vertex(1)>>)}

\* Str(2) is shorter than Str(1): keys are stored by length first.
MapValues ==
    {Map(<<>>), Map(<<Str(1), Integer(4)>>), Map(<<Str(1), Map(<<>>)>>),
     Map(<<Str(2), List(<<>>)>>), Map(<<Str(2), Integer(-1), Str(1), Null>>)}

ListValues ==
    {List(<<>>), List(<<Integer(4)>>), List(<<Integer(5)>>), List(<<Float(4), Edge(1)>>),
     List(<<Edge(1)>>), List(<<Map(<<>>)>>), List(<<List(<<>>)>>), List(<<Null, Map(<<>>)>>),
     List(<<Str(1), List(<<Integer(4)>>)>>)}

MCValues == Scalars \cup MapValues \cup ListValues
=============================================================================
