----------------------------- MODULE ScanCycle -----------------------------
(***************************************************************************)
(* The scan of a compiled program: copy the input image in, run the        *)
(* programs in table order, copy the output image out                      *)
(* (src/runtime/repl/iec_repl.hpp, src/runtime/repl/iec_cyclic.hpp), with  *)
(* the debug dispatch forcing, releasing, writing and addressing variables *)
(* next to it (src/runtime/include/debug_dispatch.hpp).                    *)
(*                                                                         *)
(* A variable's value is the row of bits its storage holds, lowest first.  *)
(* Which programs are due is left open here (CyclicRunner says which): a   *)
(* program that is not due ends without executing a statement.             *)
(***************************************************************************)
EXTENDS Integers, Sequences, IECVar, LocatedAddress

CONSTANTS
  Var,          \* variables with a leaf in the debug table
  Table,        \* locatedVars[], the located ones in emission order
  Desc,         \* Desc[v], the row of located variable v
  Constants,    \* leaves flagged LEAF_FLAG_READONLY; a global one may have a row
  NumPrograms,
  Uses,         \* Uses[i], the variables the body of program i names
  Declared,     \* Declared[v], the initial value of v
  Served,       \* variables a client serves in place, by address (OPC-UA)
  MidScan       \* TRUE when a debugger may stop the scan between statements

Located == {Table[i] : i \in DOMAIN Table}

Length(v) == IF v \in Located THEN Width(Desc[v]) ELSE 1

Value(v) == [0 .. Length(v) - 1 -> 0 .. 1]

ZeroOf(v) == [k \in 0 .. Length(v) - 1 |-> 0]

ASSUME TableAssumption ==
  /\ Table \in Seq(Var)
  /\ \A i, j \in DOMAIN Table : Table[i] = Table[j] => i = j
  /\ Desc \in [Located -> Descriptor]

ASSUME ProgramAssumption ==
  /\ NumPrograms \in Nat \ {0}
  /\ Uses \in [1 .. NumPrograms -> SUBSET Var]
  /\ Constants \subseteq Var
  /\ \A v \in Var : Declared[v] \in Value(v)
  /\ Served \subseteq Var
  /\ MidScan \in BOOLEAN

ASSUME HandleAssumption == "none" \notin Var

\* The area a variable lives in; "None" for one without an address.
AreaOf(v) == IF v \in Located THEN Desc[v].area ELSE "None"

Markers == {v \in Located : Desc[v].area = "Memory"}

CopiedIn(v)  == AreaOf(v) \in {"Input", "Memory"}
CopiedOut(v) == AreaOf(v) \in {"Output", "Memory"}

\* The bit of v's storage at a cell of its area's image.
Covers(v, c) == v \in Located /\ c \in Cells(Desc[v])
BitAt(v, c)  == c - FirstCell(Desc[v])
CellOf(v, k) == FirstCell(Desc[v]) + k

\* The cells of the images any row of the table touches.
ImageCells == UNION {Cells(Desc[v]) : v \in Located}

\* The input bits some row reads; others drive nothing.
InputCells ==
  UNION {Cells(Desc[v]) : v \in {w \in Located : Desc[w].area = "Input"}}

\* No two rows are copied to or from a common cell.
Disjoint == \A v, w \in Located : v # w => ~Overlap(Desc[v], Desc[w])

VARIABLES
  cell,      \* cell[v], the IECVar of v
  image,     \* image[area], the process image of an area
  phase,     \* "idle", "run" or "out"
  prog,      \* the program in execution while phase = "run"
  left,      \* history: left[v], the raw value of marker v at the last copy-out
  handle     \* the pointer a client last took with handle_ptr

vars == <<cell, image, phase, prog, left, handle>>

NoHandle == [var |-> "none", field |-> "none", forced |-> FALSE]
-----------------------------------------------------------------------------
Init ==
  /\ cell = [v \in Var |-> Fresh(Declared[v], ZeroOf(v))]
  /\ image = [a \in Area |-> [c \in ImageCells |-> 0]]
  /\ phase = "idle"
  /\ prog = 1
  /\ left = [v \in Markers |-> ZeroOf(v)]
  /\ handle = NoHandle

\* What the image holds for v.
ImageOf(v) == [k \in 0 .. Length(v) - 1 |-> image[AreaOf(v)][CellOf(v, k)]]

\* __sync_located_in: inputs and markers, straight into the raw value.
AfterCopyInputsOnly(v) ==
  IF AreaOf(v) = "Input" THEN Poke(cell[v], ImageOf(v)) ELSE cell[v]
AfterCopyIn(v) ==
  IF CopiedIn(v) THEN Poke(cell[v], ImageOf(v)) ELSE cell[v]

SyncIn ==
  /\ phase = "idle"
  /\ cell' = [v \in Var |-> AfterCopyIn(v)]
  /\ phase' = "run"
  /\ prog' = 1
  /\ UNCHANGED <<image, left, handle>>

\* A statement of the running program: `dst := expression` or `dst := src`.
Assignable(dst) == phase = "run" /\ dst \in Uses[prog] \ Constants

Compute(dst, v) ==
  /\ Assignable(dst)
  /\ cell' = [cell EXCEPT ![dst] = Set(@, v)]
  /\ UNCHANGED <<image, phase, prog, left, handle>>

Copy(dst, src) ==
  /\ Assignable(dst)
  /\ src \in Uses[prog]
  /\ Length(src) = Length(dst)
  /\ cell' = [cell EXCEPT ![dst] = Assign(@, cell[src])]
  /\ UNCHANGED <<image, phase, prog, left, handle>>

EndProgram ==
  /\ phase = "run"
  /\ IF prog < NumPrograms
       THEN prog' = prog + 1 /\ UNCHANGED phase
       ELSE phase' = "out" /\ UNCHANGED prog
  /\ UNCHANGED <<cell, image, left, handle>>

\* __sync_located_out: outputs and markers, the raw value, in table order, so
\* that the last row over a cell decides it.
Writers(a, c) ==
  {i \in DOMAIN Table : /\ AreaOf(Table[i]) = a
                        /\ CopiedOut(Table[i])
                        /\ Covers(Table[i], c)}

OutputWriters(a, c) == {i \in Writers(a, c) : a = "Output"}

Last(I) == CHOOSE i \in I : \A j \in I : j <= i

AfterCopyOutputsOnly(a, c) ==
  IF OutputWriters(a, c) = {}
    THEN image[a][c]
    ELSE LET v == Table[Last(OutputWriters(a, c))]
         IN  cell[v].value[BitAt(v, c)]
AfterCopyOutUnforcedOnly(a, c) ==
  IF \A i \in Writers(a, c) : cell[Table[i]].forced
    THEN image[a][c]
    ELSE LET v == Table[Last(Writers(a, c))]
         IN  cell[v].value[BitAt(v, c)]
AfterCopyOut(a, c) ==
  IF Writers(a, c) = {}
    THEN image[a][c]
    ELSE LET v == Table[Last(Writers(a, c))]
         IN  cell[v].value[BitAt(v, c)]

SyncOut ==
  /\ phase = "out"
  /\ image' = [a \in Area |-> [c \in ImageCells |-> AfterCopyOut(a, c)]]
  /\ left' = [v \in Markers |-> cell[v].value]
  /\ phase' = "idle"
  /\ UNCHANGED <<cell, prog, handle>>
-----------------------------------------------------------------------------
(* The debug dispatch.  A refused request (a constant leaf, a payload that *)
(* is too short, an address outside the table) changes nothing.  The       *)
(* super-loop and the REPL serve requests between scans; a session stopped *)
(* at a breakpoint (MidScan) is between two statements.                    *)

MayDebug == phase = "idle" \/ MidScan

AnyLeaf(v)  == TRUE
Writable(v) == v \notin Constants

ForceVar(v, x) ==
  /\ MayDebug
  /\ Writable(v)
  /\ cell' = [cell EXCEPT ![v] = ForceTo(@, x)]
  /\ UNCHANGED <<image, phase, prog, left, handle>>

UnforceVar(v) ==
  /\ MayDebug
  /\ Writable(v)
  /\ cell' = [cell EXCEPT ![v] = Unforce(@)]
  /\ UNCHANGED <<image, phase, prog, left, handle>>

WriteVar(v, x) ==
  /\ MayDebug
  /\ Writable(v)
  /\ cell' = [cell EXCEPT ![v] = Set(@, x)]
  /\ UNCHANGED <<image, phase, prog, left, handle>>

\* handle_ptr: the client keeps the address, not the value.
TakePointer(v) ==
  /\ MayDebug
  /\ v \in Served
  /\ handle' = [var |-> v, field |-> ReadField(cell[v]),
                forced |-> cell[v].forced]
  /\ UNCHANGED <<cell, image, phase, prog, left>>

\* The world outside drives an input bit of the image.
DriveInput(c, b) ==
  /\ image' = [image EXCEPT !["Input"][c] = b]
  /\ UNCHANGED <<cell, phase, prog, left, handle>>
-----------------------------------------------------------------------------
Scan == SyncIn \/ EndProgram \/ SyncOut

Program ==
  \/ \E dst \in Var : \E v \in Value(dst) : Compute(dst, v)
  \/ \E dst, src \in Var : Copy(dst, src)

Debugger ==
  \E v \in Var :
    \/ \E x \in Value(v) : ForceVar(v, x)
    \/ UnforceVar(v)
    \/ \E x \in Value(v) : WriteVar(v, x)
    \/ TakePointer(v)

Environment == \E c \in InputCells, b \in 0 .. 1 : DriveInput(c, b)

Next == Scan \/ Program \/ Debugger \/ Environment

Spec == Init /\ [][Next]_vars

\* The runner's loop never waits for anyone and a program body terminates.
Fairness == WF_vars(SyncIn) /\ WF_vars(EndProgram) /\ WF_vars(SyncOut)

FairSpec == Spec /\ Fairness
-----------------------------------------------------------------------------
(* Types: every cell holds values of its variable, every image bits. *)
TypeOK ==
  /\ DOMAIN cell = Var
  /\ \A v \in Var : cell[v] \in CellType(Value(v))
  /\ image \in [Area -> [ImageCells -> 0 .. 1]]
  /\ phase \in {"idle", "run", "out"}
  /\ prog \in 1 .. NumPrograms
  /\ DOMAIN left = Markers
  /\ \A v \in Markers : left[v] \in Value(v)
  /\ \/ handle = NoHandle
     \/ handle \in [var : Var, field : {"value", "forcedValue"},
                    forced : BOOLEAN]

(* Statements and copies never move what a forced variable reads as and     *)
(* never release it; only the operator does.  Assigning one variable to     *)
(* another, as in BLINK := TOF0.Q, is the case that would (iec_var.hpp,     *)
(* copy assignment).                                                        *)
KeepsForces ==
  Scan \/ Program =>
    \A v \in Var :
      /\ cell'[v].forced = cell[v].forced
      /\ cell[v].forced => Get(cell'[v]) = Get(cell[v])

ForceStaysWithOperator == [][KeepsForces]_vars

(* A force on a variable the image never writes reaches its raw storage and *)
(* stays there, whatever the program assigns, so a driver that reads the    *)
(* storage or the image never sees anything else (iec_var.hpp, set, force   *)
(* and raw_ptr).                                                            *)
ForcedRawHolds ==
  \A v \in Var :
    cell[v].forced /\ ~CopiedIn(v) => cell[v].value = cell[v].forcedValue

(* Every copy-out hands the drivers the forced value of every forced output, *)
(* even when the program assigned the output in the same scan.               *)
Delivers(v) ==
  phase = "out" /\ phase' = "idle" /\ cell[v].forced =>
    \A k \in 0 .. Length(v) - 1 :
      image'[AreaOf(v)][CellOf(v, k)] = cell[v].forcedValue[k]

ForcedOutputsDelivered ==
  [][\A v \in Located : AreaOf(v) = "Output" => Delivers(v)]_vars

(* The same claim for every variable a driver can read, markers included. *)
ForcedVariablesDelivered ==
  [][\A v \in Located : CopiedOut(v) => Delivers(v)]_vars

(* A marker (%M) carries what the program left in it from one scan to the   *)
(* next: copying all markers out and back in gives each its own value, not a *)
(* neighbour's.                                                              *)
BringsBack(v) == phase = "idle" /\ phase' = "run" => cell'[v].value = left[v]

MarkersSurvive == [][\A v \in Markers : BringsBack(v)]_vars

(* A CONSTANT starts as declared, and from then on neither program nor       *)
(* debugger changes what it reads as, or leaves it forced (STATUS_READ_ONLY, *)
(* debug_dispatch.hpp).  The copy-in does, for a CONSTANT with an input's or *)
(* a marker's address, which reads as its image from then on; nothing else.  *)
MovesOnlyToImage(v) ==
  /\ ~cell'[v].forced
  /\ \/ Get(cell'[v]) = Get(cell[v])
     \/ SyncIn /\ CopiedIn(v) /\ Get(cell'[v]) = ImageOf(v)

OnlyImageMovesConstants ==
  /\ \A v \in Constants : Get(cell[v]) = Declared[v] /\ ~cell[v].forced
  /\ [][\A v \in Constants : MovesOnlyToImage(v)]_vars

(* The address handle_ptr returned shows the value a reader should see until *)
(* the force state of the variable changes, across writes and copy-ins       *)
(* (iec_var.hpp, read_ptr; debug_dispatch.hpp, ptr_impl).                    *)
PointerHonoursForce ==
  \A v \in Var :
    handle.var = v /\ handle.forced = cell[v].forced =>
      cell[v][handle.field] = Get(cell[v])

(* A value an operator forces on an output is in the output image            *)
(* eventually, or the operator has changed it.                               *)
ForceReachesDriver ==
  \A v \in Located : AreaOf(v) = "Output" =>
    \A x \in Value(v) :
      (cell[v].forced /\ cell[v].forcedValue = x) ~>
        \/ ~cell[v].forced
        \/ cell[v].forcedValue # x
        \/ ImageOf(v) = x
=============================================================================
