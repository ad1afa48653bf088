------------------------------- MODULE MCLabels -------------------------------
(* A small instance of Labels: applications that define labels, that write *)
(* parameters, and that describe classes while they label.                 *)
EXTENDS Labels

Class(m, n) == [mesh |-> m, name |-> n]
MCElemClasses == {Class(0, "sph"), Class(0, "ml"), Class(1, "ml")}
MCNodeClasses == {Class(0, "node"), Class(1, "node2")}
MCBegins == [n \in {"sph", "ml", "node", "node2"} |->
                IF n = "node" THEN {"node", "node2"} ELSE {n}]
MCChunks == {[ids |-> <<1, 2>>, labels |-> <<11, 12>>, globals |-> <<101, 102>>],
             [ids |-> <<4, 3>>, labels |-> <<12, 14>>, globals |-> <<104, 103>>]}
MCNodeChunks == {<<5, 6, 9>>, <<8, 7>>}

Value(op, type, order, data) == [op |-> op, type |-> type, order |-> order, data |-> data]
Param(name, ti, p)           == [name |-> name, ti |-> ti, p |-> p]
Text(n)                      == String([i \in 1..n |-> n])

\* The name of a system holds that of its host.
Machine(n, user) == [name \in Range(MetadataNames) |->
    CASE name = "host name"   -> [i \in 1..n |-> n]
      [] name = "arch name"   -> [i \in 1..(n + 11) |-> n]
      [] name = "date"        -> [i \in 1..24 |-> n]
      [] name = "username"    -> [i \in 1..user |-> n]
      [] name = "lib version" -> <<n, n>>]

None == [calls |-> 3, sessions |-> 3, elems |-> {}, chunks |-> {}, nodes |-> {}, loads |-> {}, writes |-> {},
         counts |-> {}, defs |-> {}, enables |-> {}, home |-> Machine(3, 9), machines |-> {}]

Labelling == [None EXCEPT !.elems = MCElemClasses, !.chunks = MCChunks, !.nodes = MCNodeChunks]

Writing ==
    [None EXCEPT !.calls = 4, !.sessions = 2,
                 !.writes = {Param("scalar", TRUE, Value("scalar", "M_INT", 0, <<1>>)),
                             Param("scalar", TRUE, Value("scalar", "M_INT", 0, <<2>>)),
                             Param("scalar", TRUE, Value("scalar", "M_FLOAT8", 0, <<1>>)),
                             Param("string", TRUE, Text(3)), Param("string", TRUE, Text(8)),
                             Param("array", FALSE, Value("array", "M_FLOAT8", 1, <<1, 2>>)),
                             Param("array", FALSE, Value("array", "M_FLOAT8", 1, <<3>>)),
                             Param("dims", TRUE, Value("array", "M_INT", 3, <<1, 2>>))},
                 !.counts = {[name |-> "ml", count |-> 2]},
                 !.enables = BOOLEAN,
                 !.machines = {Machine(4, 7), Machine(7, 5)}]

Args(mat, superclass, nodal, short) ==
    [mesh |-> 1, mat |-> mat, state |-> 2, meshvar |-> 0, nodal |-> nodal,
     superclass |-> superclass, short |-> short]

Describing ==
    [None EXCEPT !.calls = 4, !.sessions = 2,
                 !.elems = {Class(0, "sph")},
                 !.chunks = {CHOOSE k \in MCChunks : TRUE},
                 !.nodes = {<<6>>},
                 !.loads = {Class(0, "sph")},
                 !.writes = {Param("p", TRUE, Value("scalar", "M_INT", 0, <<1>>)),
                             Param("p", TRUE, Value("scalar", "M_INT", 0, <<2>>))},
                 !.defs = {Args(7, "M_HEX", 0, "sph"), Args(-1, "M_TRUSS", 1, Null),
                           Args(3, Null, -1, Null), Args(1, "M_WEDGE", 0, "w")}]

\* An application that never opens its family again
MCOneSession == {[Labelling EXCEPT !.sessions = 1]}

MCApps == {Labelling, Writing, Describing}
=============================================================================
