------------------------------ MODULE MCCombiner ------------------------------
(***************************************************************************)
(* Partitions of meshes of five nodes and three or four trusses, for two   *)
(* or three processors that share nodes.                                   *)
(***************************************************************************)
EXTENDS Combiner

Scalar(t)     == [agg |-> "scalar", type |-> t]
Vector(t, cs) == [agg |-> "vector", type |-> t, comps |-> cs]
MCSvars ==
    [s  |-> Scalar("float"), x |-> Scalar("float"), y |-> Scalar("float"),
     d  |-> Scalar("double"), dx |-> Scalar("double"), dy |-> Scalar("double"),
     v  |-> Vector("float", <<"x", "y">>), w |-> Vector("double", <<"dx", "dy">>),
     a  |-> [agg |-> "array", type |-> "float", dims |-> <<3>>],
     b  |-> [agg |-> "array", type |-> "float", dims |-> <<2, 2>>]]

Super_(c) == CASE c = "node" -> "node" [] c = "truss" -> "elem" [] c = "mat" -> "mat" [] c = "glob" -> "mesh"
Class(c, chunks, objects, idents) ==
    [super |-> Super_(c), chunks |-> chunks, objects |-> objects, idents |-> idents]
Chunk(ids, labels) == [ids |-> ids, labels |-> labels]
Truss(a, b, m)     == [nodes |-> <<a, b>>, mat |-> m]

\* The classes of a processor: its nodes' labels, which are their coordinates, and
\* its trusses with their labels.
Mesh(nodes, trusses, labels) ==
    [node  |-> Class("node", <<Chunk(<< >>, nodes)>>, nodes, << >>),
     truss |-> Class("truss", labels, trusses, << >>),
     mat   |-> Class("mat", << >>, << >>, <<1, 2>>),
     glob  |-> Class("glob", << >>, << >>, <<1, 1>>)]

Blocks(a, b)  == <<[start |-> a, stop |-> b]>>
Subrec(name, class, org, svars, blocks) ==
    [name |-> name, mclass |-> class, super |-> Super_(class), org |-> org, svars |-> svars, blocks |-> blocks]
Database(classes, subrecs) == [classes |-> classes, subrecs |-> subrecs, params |-> [title |-> 1]]

Left  == Mesh(<<1, 2, 3>>, <<Truss(1, 2, 1), Truss(2, 3, 1)>>, <<Chunk(<<1, 2>>, <<10, 30>>)>>)
Right == Mesh(<<3, 4, 5>>, <<Truss(1, 2, 2)>>, <<Chunk(<<1>>, <<20>>)>>)
Third == Mesh(<<2, 5>>, <<Truss(2, 1, 1)>>, <<Chunk(<<1>>, <<40>>)>>)

\* The same with labels that are not in the order of the ids, in two definitions.
Turned   == Mesh(<<3, 2, 1>>, <<Truss(3, 2, 1), Truss(2, 1, 1)>>,
                 <<Chunk(<<2>>, <<30>>), Chunk(<<1>>, <<10>>)>>)
Shuffled == Mesh(<<3, 2, 1>>, <<Truss(3, 2, 1), Truss(2, 1, 1)>>, <<Chunk(<<2, 1>>, <<10, 30>>)>>)
\* The same with no labels for trusses.
Bare(m) == [m EXCEPT !.truss.chunks = << >>]

AllNodes == Blocks(1, 3)
MCPartitions == <<
    \* Whole classes, all widths, a global class and the mesh itself.
    <<Database(Left,  <<Subrec("A", "node", "result", <<"s", "v", "d", "w">>, AllNodes),
                        Subrec("T", "truss", "object", <<"s", "v">>, Blocks(1, 2)),
                        Subrec("M", "mat", "result", <<"s", "v">>, Blocks(1, 2)),
                        Subrec("G", "glob", "result", <<"d", "s">>, << >>)>>),
      Database(Right, <<Subrec("A", "node", "result", <<"s", "v", "d", "w">>, AllNodes),
                        Subrec("T", "truss", "object", <<"s", "v">>, Blocks(1, 1)),
                        Subrec("M", "mat", "result", <<"s", "v">>, Blocks(1, 2)),
                        Subrec("G", "glob", "result", <<"d", "s">>, << >>)>>)>>,
    \* Parts of a class, in any order, with labels in any order.
    <<Database(Turned, <<Subrec("A", "node", "result", <<"s", "w">>, Blocks(1, 2)),
                         Subrec("B", "node", "object", <<"s", "v">>, Blocks(3, 3) \o Blocks(1, 1)),
                         Subrec("T", "truss", "result", <<"s">>, Blocks(1, 2))>>),
      Database(Right,  <<Subrec("A", "node", "result", <<"s", "w">>, Blocks(2, 3)),
                         Subrec("B", "node", "object", <<"s", "v">>, Blocks(3, 3)),
                         Subrec("T", "truss", "result", <<"s">>, Blocks(1, 1))>>)>>,
    \* Three processors, not all of them with every subrecord.
    <<Database(Shuffled, <<Subrec("A", "node", "result", <<"s", "a">>, AllNodes),
                           Subrec("T", "truss", "object", <<"s", "v">>, Blocks(1, 2))>>),
      Database(Right,    <<Subrec("A", "node", "result", <<"s", "a">>, AllNodes)>>),
      Database(Third,    <<Subrec("A", "node", "result", <<"s", "a">>, Blocks(1, 2)),
                           Subrec("T", "truss", "object", <<"s", "v">>, Blocks(1, 1))>>)>>,
    \* Trusses without labels; an array in object order.
    <<Database(Bare(Left),  <<Subrec("T", "truss", "object", <<"b">>, Blocks(1, 2)),
                              Subrec("A", "node", "result", <<"d", "x">>, AllNodes)>>),
      Database(Bare(Right), <<Subrec("T", "truss", "object", <<"b">>, Blocks(1, 1)),
                              Subrec("A", "node", "result", <<"d", "x">>, AllNodes)>>)>> >>

\* All nodes in the subrecords together, and only some of the second's in its own.
MCParts == <<
    <<Database(Left,  <<Subrec("A", "node", "result", <<"s">>, AllNodes)>>),
      Database(Right, <<Subrec("A", "node", "result", <<"s">>, Blocks(2, 3))>>)>> >>
=============================================================================
