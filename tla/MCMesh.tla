------------------------------ MODULE MCMesh ------------------------------
EXTENDS Mesh
MCDeclared == {<<"one", "node">>, <<"one", "element">>, <<"one", "ident">>, <<"one", "surface">>}
R(a, b)  == [start |-> a, stop |-> b]
MCRanges == {R(1, 1), R(2, 2), R(4, 4), R(1, 3)}
MCLists  == {<<R(3, 4), R(1, 1)>>}
=============================================================================
