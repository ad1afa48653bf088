------------------------------ MODULE MCFormats ------------------------------
(* A small instance of Formats. *)
EXTENDS Formats

Names == {"x", "y", "sand", "v", "w", "m"}
MCChars == [n \in Names \cup {"long", "elem", "glob", "surf", "S", "R", "G", "F"} |->
               CASE n = "sand" -> 5 [] n = "long" -> 6 [] n \in {"elem", "glob", "surf"} -> 5 [] OTHER -> 2]
MCTitle == [n \in Names |-> IF n \in {"y", "v"} THEN "long" ELSE ""]

MCScalarCalls == {<<Scalar("x", "float4"), Scalar("sand", "int")>>, <<Scalar("y", "double")>>,
                  <<Scalar("sand", "int")>>, <<Scalar("m", "float"), Scalar("", "int")>>}
Vec(n, type, dims, comps) ==
    [name |-> n, agg |-> IF dims = << >> THEN "vector" ELSE "vec_array", type |-> type, dims |-> dims,
     comps |-> comps]
MCListCalls == {Vec("v", "float", << >>, <<"x", "y">>), Vec("w", "float", <<2>>, <<"v", "x">>),
                Vec("v", "float4", << >>, <<"x", "y">>), Vec("v", "float", << >>, <<"y", "x">>)}
MCArrayCalls == {[name |-> "m", agg |-> "array", type |-> "double", dims |-> <<2, 2>>, comps |-> << >>]}

B(x, y) == [start |-> x, stop |-> y]
Sub(n, org, svars, class, format, ids) ==
    [name |-> n, org |-> org, svars |-> svars, mclass |-> class, format |-> format, ids |-> ids, flags |-> << >>]
MCSubrecCalls == {
    Sub("S", "result", <<"x", "y">>, "elem", "block", <<B(1, 1), B(3, 3)>>),
    Sub("R", "object", <<"x", "v">>, "elem", "list", <<2, 3, 1>>),
    Sub("R", "object", <<"w">>, "elem", "list", <<3, 4>>),
    Sub("G", "result", <<"w">>, "glob", "block", <<B(1, 1)>>),
    Sub("G", "object", <<"m">>, "glob", "block", <<B(1, 1)>>),
    Sub("F", "object", <<"x">>, "surf", "block", <<B(1, 1)>>),
    [Sub("F", "object", <<"v">>, "surf", "block", <<B(2, 2)>>) EXCEPT !.flags = <<"per_facet", "per_object">>]}
MCClasses == [elem |-> [super |-> "element", qty |-> 3, facets |-> << >>],
              glob |-> [super |-> "mesh", qty |-> 1, facets |-> << >>],
              surf |-> [super |-> "surface", qty |-> 2, facets |-> <<1, 2>>]]
=============================================================================
