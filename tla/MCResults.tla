----------------------------- MODULE MCResults -----------------------------
EXTENDS Results
S == [agg |-> "scalar", type |-> "float", dims |-> << >>, comps |-> << >>]
MCSvars == [
    a |-> S, b |-> S, d |-> [S EXCEPT !.type = "double"],
    v |-> [S EXCEPT !.agg = "vector", !.comps = <<"a", "b">>],
    m |-> [S EXCEPT !.agg = "array", !.dims = <<2, 2>>, !.type = "double"],
    w |-> [S EXCEPT !.agg = "vec_array", !.dims = <<2>>, !.comps = <<"v", "a">>],
    y |-> [S EXCEPT !.agg = "vec_array", !.dims = <<2>>, !.comps = <<"b", "a">>],
    x |-> [S EXCEPT !.agg = "vec_array", !.dims = <<2>>, !.comps = <<"a", "v">>]]
B(x, y) == [start |-> x, stop |-> y]
Subrec(org, svars, super, blocks, flags) ==
    [org |-> org, svars |-> svars, super |-> super, blocks |-> blocks, flags |-> flags,
     facets |-> <<1, 2>>, class |-> IF super = "surface" THEN "surf" ELSE "node"]
MCFormats == <<
    <<Subrec("result", <<"d", "v", "m">>, "node", <<B(1, 1), B(3, 3)>>, << >>),
      Subrec("object", <<"a", "v", "w">>, "node", <<B(4, 5)>>, << >>)>>,
    <<Subrec("result", <<"b", "v">>, "node", <<B(2, 2)>>, << >>),
      Subrec("object", <<"b", "x", "y">>, "node", <<B(4, 5)>>, << >>)>>,
    <<Subrec("result", <<"d">>, "node", <<B(2, 2)>>, << >>),
      Subrec("object", <<"v">>, "surface", <<B(2, 2)>>, <<"per_facet">>)>>
  >>
R(n, i, c) == [name |-> n, index |-> i, names |-> c]
MCRequests == {
    <<R("v", << >>, << >>)>>, <<R("v", << >>, <<"b">>), R("v", << >>, <<"a">>)>>,
    <<R("v", <<2>>, << >>)>>, <<R("v", <<3>>, << >>)>>, <<R("v", << >>, << >>), R("v", << >>, <<"b">>)>>,
    <<R("d", << >>, << >>), R("m", <<2>>, << >>)>>, <<R("m", <<1, 2>>, << >>)>>, 
    <<R("a", << >>, << >>), R("w", <<2>>, <<"v">>)>>, <<R("w", <<2>>, << >>)>>,
    <<R("w", << >>, <<"v">>)>>, <<R("w", <<1>>, <<"v", "b">>)>>, <<R("b", << >>, << >>)>>,
    <<R("x", <<1>>, <<"v">>)>>, <<R("b", << >>, << >>), R("x", <<2>>, <<"a">>)>>}
=============================================================================
