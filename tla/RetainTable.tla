----------------------------- MODULE RetainTable -----------------------------
(***************************************************************************)
(* Which variables a program retains, and where the debug table has them   *)
(* (generateDebugTable): the walk over the globals and the program         *)
(* instances, through function blocks down to leaves.  A block of the      *)
(* project is walked by its declaration, a block of a library by what its  *)
(* manifest tells (buildFBEntry, serializeLocal).  The recursion is the    *)
(* list of what is still to be visited, depth first; a structure or an     *)
(* array is a project block whose members have no qualifier.               *)
(***************************************************************************)
EXTENDS Naturals, SequencesExt

CONSTANTS
  BlockTypes,   \* function blocks
  Sources,      \* what a project may declare, see TableAssumption
  MaxEntries    \* entries of one array of the table

\* A leaf, and one the debugger has no access to: a STRING of another length,
\* a structure of a library.
Elementary == "elementary"
Opaque     == "opaque"

\* "in" is the section: an input or output, a VAR_IN_OUT, a VAR, or one without
\* storage of its own (VAR_TEMP, VAR_EXTERNAL);
\* "is" the qualifier.
Members ==
  [name : STRING, type : BlockTypes \union {Elementary, Opaque},
   in : {"interface", "inout", "var", "temp"},
   is : {"plain", "retain", "nonRetain", "constant"}]

\* The type of a place where a program instance begins, and the home of the
\* variables that no block has.
AtBoundary == "boundary"
Program    == "program"

DifferentNames(members) ==
  \A k, l \in DOMAIN members : members[k].name = members[l].name => k = l

\* No block has an instance of itself inside, or extends itself.
Nests(blocks) ==
  \E rank \in [BlockTypes -> 1 .. Cardinality(BlockTypes)] :
    \A b \in BlockTypes :
      /\ \A m \in Range(blocks[b].members) :
           m.type \in BlockTypes => rank[m.type] < rank[b]
      /\ \A c \in blocks[b].parent : rank[c] < rank[b]

\* An "older" library was compiled before manifests had the locals.  A scope
\* has a name once (Scope.define), the instances are members of one class.
ASSUME TableAssumption ==
  /\ MaxEntries \in Nat \ {0} /\ IsFiniteSet(BlockTypes)
  /\ BlockTypes \cap {Elementary, Opaque, AtBoundary, Program} = {}
  /\ \A p \in Sources :
       /\ p.globals \in Seq(Members)       \* in the order of the configurations
       /\ \A g \in Range(p.globals) : g.in = "var"
       /\ p.instances \in Seq(STRING)      \* of the one program
       /\ \A i, j \in DOMAIN p.instances : p.instances[i] = p.instances[j] => i = j
       /\ p.vars \in Seq(Members) /\ DifferentNames(p.vars)
       /\ Nests(p.blocks)
       /\ \A b \in BlockTypes :
            /\ p.blocks[b].from \in {"project", "library", "older"}
            /\ p.blocks[b].members \in Seq(Members)
            /\ DifferentNames(p.blocks[b].members)
            /\ p.blocks[b].parent \subseteq BlockTypes     \* none or one
            /\ \A c \in p.blocks[b].parent : p.blocks[c].parent = {}

VARIABLES
  unit,        \* the project
  todo,        \* what is still to be visited
  arrays,      \* the table: arrays of entries
  retainVars,  \* the retained leaves and their addresses, in walk order
  incomplete,  \* the instances a partial retain was reported for
  skipped,     \* the leaves that were reported as left out
  done

tableVars == <<unit, todo, arrays, retainVars, incomplete, skipped, done>>

NoFlags == [retain |-> FALSE, readOnly |-> FALSE]

\* A qualifier on top of what the container has; NON_RETAIN opts out again.
ApplyBlockFlagsSticky(flags, is) ==
  [retain   |-> flags.retain \/ is = "retain",
   readOnly |-> flags.readOnly \/ is = "constant"]
ApplyBlockFlags(flags, is) ==
  [retain   |-> (flags.retain \/ is = "retain") /\ is # "nonRetain",
   readOnly |-> flags.readOnly \/ is = "constant"]

Item(path, m, flags) ==
  [path |-> Append(path, m.name), type |-> m.type, flags |-> flags]

Walked(path, members, flags) ==
  [k \in DOMAIN members |->
     Item(path, members[k], ApplyBlockFlags(flags, members[k].is))]

\* The elements of s that have their place in ks.
Kept(s, ks) == FlattenSeq([k \in DOMAIN s |-> IF k \in ks THEN <<s[k]>> ELSE <<>>])

\* The members declared in one of the sections.
Section(members, in) == Kept(members, {k \in DOMAIN members : members[k].in \in in})

\* One variable per name: a second configuration that declares it is passed.
FirstOfName(globals, k) == \A j \in 1 .. k - 1 : globals[j].name # globals[k].name

Distinct(globals) == Kept(globals, {k \in DOMAIN globals : FirstOfName(globals, k)})

\* Where a program instance begins, and what it keeps between scans.
Boundary == [path |-> <<>>, type |-> AtBoundary, flags |-> NoFlags]

InstanceWalk(u, name) ==
  <<Boundary>> \o Walked(<<name>>, Section(u.vars, {"interface", "var"}), NoFlags)

TableOf(u) ==
  /\ unit = u
  /\ todo = Walked(<<>>, Distinct(u.globals), NoFlags) \o
            FlattenSeq([i \in DOMAIN u.instances |-> InstanceWalk(u, u.instances[i])])
  /\ arrays = <<<<>>>> /\ retainVars = <<>>
  /\ incomplete = {} /\ skipped = {} /\ done = FALSE

TableInit == \E p \in Sources : TableOf(p)

AtFront(type) == todo # <<>> /\ Head(todo).type = type
Definition(type) == unit.blocks[type]

\* A full array is left for a new one.
EnsureRoom == IF Len(Last(arrays)) >= MaxEntries THEN Append(arrays, <<>>) ELSE arrays

AddLeaf ==
  /\ AtFront(Elementary)
  /\ LET leaf == Head(todo)
         room == EnsureRoom
         bucket == Append(Last(room), [path |-> leaf.path, flags |-> leaf.flags])
     IN /\ arrays' = Append(Front(room), bucket)
        /\ retainVars' =
             IF leaf.flags.retain
             THEN Append(retainVars, [path |-> leaf.path, arrayIdx |-> Len(room),
                                      elemIdx |-> Len(bucket)])
             ELSE retainVars
  /\ todo' = Tail(todo)
  /\ UNCHANGED <<unit, incomplete, skipped, done>>

Skip ==
  /\ AtFront(Opaque)
  /\ skipped' = skipped \union {Head(todo).path}
  /\ todo' = Tail(todo)
  /\ UNCHANGED <<unit, arrays, retainVars, incomplete, done>>

\* A program instance has arrays of its own.
EnterInstance ==
  /\ AtFront(AtBoundary)
  /\ arrays' = IF Last(arrays) = <<>> THEN arrays ELSE Append(arrays, <<>>)
  /\ todo' = Tail(todo)
  /\ UNCHANGED <<unit, retainVars, incomplete, skipped, done>>

OfLibrary(b) == b.from # "project"

\* What the manifest tells of a block: the interface without its qualifiers,
\* and of the locals' qualifiers only RETAIN is read back.
Interface(b) == Section(b.members, {"interface", "inout"})
Locals(b) == IF b.from = "older" THEN <<>> ELSE Section(b.members, {"var"})

\* The interface, and the locals that are retained.  A block without an
\* interface has no declaration here to walk either.
VisitLibraryBlock(type) ==
  /\ AtFront(type) /\ OfLibrary(Definition(type))
  /\ LET v == Head(todo)
         shown == Interface(Definition(type))
         locals == Locals(Definition(type))
         walked == Kept(locals, {k \in DOMAIN locals :
                                   v.flags.retain \/ locals[k].is = "retain"})
     IN IF shown = <<>> THEN todo' = Tail(todo) /\ UNCHANGED incomplete
        ELSE /\ todo' =
                  [k \in DOMAIN shown |-> Item(v.path, shown[k], v.flags)] \o
                  [k \in DOMAIN walked |->
                     Item(v.path, walked[k],
                          [v.flags EXCEPT !.retain = @ \/ walked[k].is = "retain"])] \o
                  Tail(todo)
             /\ incomplete' = IF v.flags.retain /\ locals = <<>>
                              THEN incomplete \union {v.path} ELSE incomplete
  /\ UNCHANGED <<unit, arrays, retainVars, skipped, done>>

\* A block of the project: its own variable blocks.
VisitBlock(type) ==
  /\ AtFront(type) /\ ~OfLibrary(Definition(type))
  /\ todo' =
       Walked(Head(todo).path,
              Section(Definition(type).members, {"interface", "inout", "var"}),
              Head(todo).flags) \o Tail(todo)
  /\ UNCHANGED <<unit, arrays, retainVars, incomplete, skipped, done>>

\* An empty array at the end is dropped, unless it is the only one.
FinishTable ==
  /\ todo = <<>> /\ ~done
  /\ arrays' = IF Last(arrays) = <<>> /\ Len(arrays) > 1 THEN Front(arrays) ELSE arrays
  /\ done' = TRUE
  /\ UNCHANGED <<unit, todo, retainVars, incomplete, skipped>>

TableNext ==
  \/ AddLeaf \/ Skip \/ EnterInstance \/ FinishTable
  \/ \E b \in BlockTypes : VisitLibraryBlock(b) \/ VisitBlock(b)

TableSpec == TableInit /\ [][TableNext]_tableVars
-----------------------------------------------------------------------------
(* What project u declares: the chains of members from a variable to its     *)
(* leaves, the inherited ones included.                                      *)

Step(home, m) == [home |-> home, m |-> m]

Roots(u) ==
  {[at |-> <<>>, steps |-> <<Step(Program, m)>>] :
     m \in Range(Distinct(u.globals))} \union
  {[at |-> <<i>>, steps |-> <<Step(Program, m)>>] :
     i \in Range(u.instances), m \in Range(u.vars)}

MembersOf(u, type) ==
  UNION {{Step(b, m) : m \in Range(u.blocks[b].members)} :
           b \in {type} \union u.blocks[type].parent}

\* The chains cs, each one member longer.
Longer(u, cs) ==
  UNION {{[c EXCEPT !.steps = Append(@, s)] : s \in MembersOf(u, Last(c.steps).m.type)} :
           c \in {c \in cs : Last(c.steps).m.type \in BlockTypes}}

Chains(u) ==
  LET deep[n \in Nat] == IF n = 0 THEN Roots(u) ELSE Longer(u, deep[n - 1])
  IN  UNION {deep[n] : n \in 0 .. Cardinality(BlockTypes)}

Path(c) == c.at \o [i \in DOMAIN c.steps |-> c.steps[i].m.name]
EndsIn(c, types) == Last(c.steps).m.type \in types

InLibrary(u, s) == s.home # Program /\ OfLibrary(u.blocks[s.home])

\* The qualifier of a member, as far as a manifest tells it.
Told(u, s) ==
  IF InLibrary(u, s) /\ ~(s.m.in = "var" /\ s.m.is = "retain") THEN "plain" ELSE s.m.is

\* Of RETAIN and NON_RETAIN the innermost counts.
RetainedAt(u, c, i) ==
  \E k \in 1 .. i : /\ Told(u, c.steps[k]) = "retain"
                    /\ \A j \in k + 1 .. i : Told(u, c.steps[j]) # "nonRetain"

FlagsOf(u, c) ==
  [retain   |-> RetainedAt(u, c, Len(c.steps)),
   readOnly |-> \E i \in DOMAIN c.steps : Told(u, c.steps[i]) = "constant"]

\* A library shows no locals but retained ones.
Shown(u, c) ==
  \A i \in DOMAIN c.steps :
    LET s == c.steps[i]
    IN /\ s.m.in # "temp"
       /\ s.home = Program => s.m.in # "inout"
       /\ InLibrary(u, s) =>
            /\ Interface(u.blocks[s.home]) # <<>>
            /\ s.m.in = "var" => /\ u.blocks[s.home].from # "older"
                                 /\ RetainedAt(u, c, i)

\* An instance whose locals a retain should reach and whose manifest has none.
Partial(u, c) ==
  /\ EndsIn(c, BlockTypes) /\ RetainedAt(u, c, Len(c.steps))
  /\ LET b == u.blocks[Last(c.steps).m.type]
     IN  OfLibrary(b) /\ Interface(b) # <<>> /\ Locals(b) = <<>>

\* The globals own their arrays together.
PartOf(u, path) == IF path[1] \in Range(u.instances) THEN path[1] ELSE "globals"

(* When the walk is over, every leaf that is declared and shown has one entry *)
(* with the flags of its declaration: of nested RETAIN and NON_RETAIN the     *)
(* innermost, of CONSTANT any.  The retained ones are listed once, at the     *)
(* address of their entry; arrays are neither overfull nor empty nor shared   *)
(* by two instances, so that an edit does not move another's addresses; and   *)
(* what is left out of a retained instance is reported.                       *)
TableIsExact ==
  done =>
    LET entries == FlattenSeq(arrays)
        shown == {c \in Chains(unit) : Shown(unit, c)}
        leaves == {c \in shown : EndsIn(c, {Elementary})}
        retained == {c \in leaves : FlagsOf(unit, c).retain}
    IN /\ Range(entries) = {[path |-> Path(c), flags |-> FlagsOf(unit, c)] : c \in leaves}
       /\ Len(entries) = Cardinality({Path(c) : c \in leaves})
       /\ {v.path : v \in Range(retainVars)} = {Path(c) : c \in retained}
       /\ Len(retainVars) = Cardinality(retained)
       /\ \A v \in Range(retainVars) :
            arrays[v.arrayIdx][v.elemIdx].path = v.path
       /\ \A a \in DOMAIN arrays :
            /\ Len(arrays[a]) <= MaxEntries
            /\ arrays[a] = <<>> => leaves = {}
            /\ \A e, f \in Range(arrays[a]) : PartOf(unit, e.path) = PartOf(unit, f.path)
       /\ skipped = {Path(c) : c \in {c \in shown : EndsIn(c, {Opaque})}}
       /\ incomplete = {Path(c) : c \in {c \in shown : Partial(unit, c)}}

Reported(c) == \E path \in incomplete \union skipped : IsPrefix(path, Path(c))

(* RETAIN on an instance retains every leaf inside it (debug-table-gen.ts,    *)
(* the comment on applyBlockFlags), or says which it does not.                *)
RetainedInstancesAreWhole ==
  done =>
    \A c \in Chains(unit) :
      /\ c.steps[1].m.is = "retain" /\ c.steps[1].m.in = "var"
      /\ EndsIn(c, {Elementary, Opaque})
      /\ \A i \in DOMAIN c.steps :
           c.steps[i].m.in # "temp" /\ c.steps[i].m.is # "nonRetain"
      => Path(c) \in {v.path : v \in Range(retainVars)} \/ Reported(c)
=============================================================================
