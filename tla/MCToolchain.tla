----------------------------- MODULE MCToolchain -----------------------------
(***************************************************************************)
(* The compiler, the code it generates and the language server, one suite  *)
(* per algorithm.  The others have a trivial input meanwhile and make no   *)
(* step.                                                                   *)
(***************************************************************************)
EXTENDS BlockOrder, TypeOrder, ChunkReach, Selection, ForLoop, Workspace,
        Locations, RetainTable

CONSTANT Suites  \* of "blocks", "types", "chunks", "select", "loop", "editor",
                 \* "located", "table"

VARIABLE suite

toolVars ==
  <<suite, blockVars, typeVars, reachVars, selectionVars, loopVars, workspaceVars,
    locationVars, tableVars>>

\* Function blocks in the order of their declarations.
Declared == [b \in Blocks |-> IF b = "A" THEN 1 ELSE IF b = "B" THEN 2 ELSE 3]

\* Library b was compiled with library a.
Resolved == [a \in Archives |-> IF a = "b" THEN {"a"} ELSE {}]

\* 8, 16, 32 and 64 bits: each holds what an unsigned type one level below
\* does with a sign added.
Scaled == [l \in 1..4 |-> 2 ^ l]

\* A control variable of -3..3, with an end beyond it.
LowestControl == -3
Ends == {-1, 2, 4}
By == {-2, 0, 1}

\* Bits of a byte of two, and words; a bit out of range, an array across a
\* byte, one that has no run of addresses, a type that does not fit; the
\* global g in two configurations, and with its address left open.
At(size, byte, bit) ==
  [area |-> "Memory", size |-> size, byteIndex |-> byte, bitIndex |-> bit]
Plain ==
  [name |-> "x", scope |-> "program", of |-> "P", at |-> At("Word", 0, 0),
   open |-> FALSE, constant |-> FALSE, slots |-> 1, fits |-> TRUE]
Placed ==
  LET g == [Plain EXCEPT !.name = "g", !.scope = "configuration"]
  IN { Plain, [Plain EXCEPT !.of = "Q", !.at = At("Word", 1, 0)],
       [Plain EXCEPT !.slots = 3], [Plain EXCEPT !.slots = 0],
       [Plain EXCEPT !.constant = TRUE], [Plain EXCEPT !.fits = FALSE],
       [Plain EXCEPT !.scope = "functionBlock"], [Plain EXCEPT !.scope = "function"],
       [Plain EXCEPT !.at = At("Bit", 0, 1), !.slots = 3],
       [Plain EXCEPT !.at = At("Bit", 1, 0)], [Plain EXCEPT !.at = At("Bit", 0, 2)],
       g, [g EXCEPT !.at = At("Word", 2, 0)], [g EXCEPT !.open = TRUE],
       [g EXCEPT !.name = "h", !.at = At("Word", 1, 0), !.slots = 2] }

\* A block inside another in a program with two instances, each of the project
\* or of a library, which has only libraries' blocks inside; an interface, none
\* or one with a VAR_IN_OUT; a temporary, and a leaf that has to be skipped.  Of
\* a global two configurations declare, the first has the say.
M(name, type, section, qualifier) ==
  [name |-> name, type |-> type, in |-> section, is |-> qualifier]
Leaf(name, section, qualifier) == M(name, Elementary, section, qualifier)

Qualifiers == {"plain", "retain", "nonRetain", "constant"}

ProjectOf(inner, outer, base, outerVar) ==
  [globals |-> <<Leaf("g", "var", "retain"), Leaf("g", "var", "plain")>>,
   instances |-> <<"I", "J">>,
   vars |-> <<outerVar, Leaf("t", "temp", "plain"), M("s", Opaque, "var", "retain")>>,
   blocks |-> [Inner |-> [from |-> inner[1], members |-> inner[2], parent |-> {}],
               Outer |-> [from |-> outer[1], members |-> outer[2], parent |-> base]]]

\* A project without variables, for the other suites.
NoProject ==
  [globals |-> <<>>, instances |-> <<>>, vars |-> <<>>,
   blocks |-> [b \in {"Inner", "Outer"} |->
                 [from |-> "project", members |-> <<>>, parent |-> {}]]]

Nested ==
  {ProjectOf(<<from[1], interface \o <<Leaf("y", "var", q[1])>> >>,
             <<from[2], <<Leaf("z", z, "plain"), M("i", "Inner", "var", q[2]),
                          Leaf("u", "temp", "plain")>> >>,
             {}, M("o", "Outer", "var", q[3])) :
     from \in {f \in {"project", "library", "older"} \X {"project", "library", "older"} :
                 f[2] # "project" => f[1] = f[2]},
     interface \in {<<>>, <<Leaf("x", "interface", "plain")>>,
                    <<Leaf("x", "interface", "retain")>>},
     z \in {"interface", "inout"},
     q \in Qualifiers \X {"plain", "retain", "nonRetain"} \X {"plain", "retain"}}

\* A retained instance of a block that extends another.
Extended ==
  {ProjectOf(<<"project", <<Leaf("y", "var", "plain")>> >>,
             <<"project", <<Leaf("z", "interface", "plain")>> >>, {"Inner"},
             M("o", "Outer", "var", "retain"))}

\* Graphs in which only x may point to itself.
LoopAtMost(S, x) == {g \in [S -> SUBSET S] : \A n \in S \ {x} : n \notin g[n]}

Else(s, trivial) == suite = s \/ (suite # s /\ trivial)

\* One order to start from the types is enough: every graph of them is tried,
\* and another order is this one under other names.
ToolInit ==
  /\ suite \in Suites
  /\ members \in LoopAtMost(Blocks, "A") /\ refers \in LoopAtMost(Names, "P")
  /\ Else("blocks", members = [b \in Blocks |-> {}] /\ parent = members)
  /\ Else("types", fields = [t \in Types |-> <<>>])
  /\ roots = CHOOSE l \in Listings : TRUE
  /\ Else("chunks", /\ chunks = [a \in Archives |-> {}]
                    /\ refers = [n \in Names |-> {}]
                    /\ loaded = {} /\ everything = FALSE)
  /\ referenced = {CHOOSE n \in Names : TRUE}
  /\ everything \in BOOLEAN /\ (everything => \A n \in Names : refers[n] = {})
  /\ Else("select", /\ pick = "max" /\ native = 4
                    /\ acc = [type |-> [signed |-> TRUE, level |-> 1], value |-> 0])
  /\ Else("loop", /\ control = C!Fresh(0, 0) /\ constants = {}
                  /\ asked = [start |-> -1, end |-> -1, step |-> 0])
  /\ Else("editor", disk = [d \in Docs |-> 1])
  /\ Else("located", project = <<>> /\ instances = [p \in Programs |-> 0])
  /\ BlocksInit /\ TypesInit /\ ReachInit /\ SelectionInit /\ LoopInit /\ WorkspaceInit
  /\ LocationsInit
  /\ IF suite = "table" THEN TableInit ELSE TableOf(NoProject)

InBlocks(A) ==
  /\ suite = "blocks" /\ A
  /\ UNCHANGED <<suite, typeVars, reachVars, selectionVars, loopVars, workspaceVars,
                 locationVars, tableVars>>
InTypes(A) ==
  /\ suite = "types" /\ A
  /\ UNCHANGED <<suite, blockVars, reachVars, selectionVars, loopVars, workspaceVars,
                 locationVars, tableVars>>
InChunks(A) ==
  /\ suite = "chunks" /\ A
  /\ UNCHANGED <<suite, blockVars, typeVars, selectionVars, loopVars, workspaceVars,
                 locationVars, tableVars>>
InSelect(A) ==
  /\ suite = "select" /\ A
  /\ UNCHANGED <<suite, blockVars, typeVars, reachVars, loopVars, workspaceVars,
                 locationVars, tableVars>>
InLoop(A) ==
  /\ suite = "loop" /\ A
  /\ UNCHANGED <<suite, blockVars, typeVars, reachVars, selectionVars, workspaceVars,
                 locationVars, tableVars>>
InEditor(A) ==
  /\ suite = "editor" /\ A
  /\ UNCHANGED <<suite, blockVars, typeVars, reachVars, selectionVars, loopVars,
                 locationVars, tableVars>>

InLocated(A) ==
  /\ suite = "located" /\ A
  /\ UNCHANGED <<suite, blockVars, typeVars, reachVars, selectionVars, loopVars,
                 workspaceVars, tableVars>>
InTable(A) ==
  /\ suite = "table" /\ A
  /\ UNCHANGED <<suite, blockVars, typeVars, reachVars, selectionVars, loopVars,
                 workspaceVars, locationVars>>

ToolNext ==
  \/ InBlocks(BlocksNext) \/ InTypes(TypesNext) \/ InChunks(Follow)
  \/ InSelect(SelectionNext) \/ InLoop(LoopNext) \/ InEditor(WorkspaceNext)
  \/ InLocated(LocationsNext) \/ InTable(TableNext)

\* The fairness of each suite's own specification.
ToolSpec ==
  /\ ToolInit /\ [][ToolNext]_toolVars
  /\ WF_toolVars(InBlocks(BlocksNext))
  /\ WF_toolVars(InTypes(TypesNext))
  /\ WF_toolVars(InLoop(LoopNext))
  /\ \A d \in Docs : WF_toolVars(InEditor(Debounced(d)))
=============================================================================
