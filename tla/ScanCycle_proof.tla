--------------------------- MODULE ScanCycle_proof ---------------------------
(***************************************************************************)
(* Proofs about ScanCycle, for every set of variables, every located table *)
(* and every set of programs.                                              *)
(***************************************************************************)
EXTENDS ScanCycle, WellFoundedInduction, TLAPS

USE DEF Area, Size
-----------------------------------------------------------------------------
(* The wrapper. *)

\* Every operation of IECVar keeps a cell a cell.
LEMMA CellTyped ==
  ASSUME NEW V, NEW c \in CellType(V), NEW x \in V
  PROVE  /\ Get(c) \in V
         /\ Set(c, x) \in CellType(V)
         /\ ForceTo(c, x) \in CellType(V)
         /\ Unforce(c) \in CellType(V)
         /\ Poke(c, x) \in CellType(V)
BY DEF CellType, Get, Set, ForceTo, Unforce, Poke

\* `dst := src` keeps the force state of dst and the value it reads as.
LEMMA SetKeepsForce ==
  ASSUME NEW V, NEW c \in CellType(V), NEW x \in V
  PROVE  /\ Set(c, x).forced = c.forced
         /\ Set(c, x).forcedValue = c.forcedValue
         /\ c.forced => Set(c, x) = c
BY DEF CellType, Set
-----------------------------------------------------------------------------
(* Addresses. *)

LEMMA DescTyped ==
  ASSUME NEW v \in Located
  PROVE  /\ Desc[v] \in Descriptor
         /\ AreaOf(v) \in Area
         /\ AreaOf(v) = Desc[v].area
         /\ FirstCell(Desc[v]) \in Nat
         /\ Width(Desc[v]) \in Nat
<1>1. Desc[v] \in Descriptor
  BY TableAssumption
<1>2. FirstCell(Desc[v]) \in Nat
  BY <1>1, ByteBitsAssumption DEF FirstCell, Descriptor
<1>3. Width(Desc[v]) \in Nat
  BY <1>1, ByteBitsAssumption DEF Width, ByteSize, Descriptor
<1>4. QED
  BY <1>1, <1>2, <1>3 DEF AreaOf, Descriptor

\* A located variable's bits and its cells are the same, one by one.
LEMMA CellBijection ==
  ASSUME NEW v \in Located
  PROVE  /\ \A k \in 0 .. Length(v) - 1 :
              /\ CellOf(v, k) \in Cells(Desc[v])
              /\ CellOf(v, k) \in ImageCells
              /\ BitAt(v, CellOf(v, k)) = k
         /\ \A c \in Cells(Desc[v]) :
              /\ BitAt(v, c) \in 0 .. Length(v) - 1
              /\ CellOf(v, BitAt(v, c)) = c
<1>1. Length(v) = Width(Desc[v])
  BY DEF Length
<1>2. FirstCell(Desc[v]) \in Nat /\ Width(Desc[v]) \in Nat
  BY DescTyped
<1>3. ASSUME NEW k \in 0 .. Length(v) - 1
      PROVE  /\ CellOf(v, k) \in Cells(Desc[v])
             /\ BitAt(v, CellOf(v, k)) = k
  BY <1>1, <1>2 DEF CellOf, BitAt, Cells
<1>4. Cells(Desc[v]) \subseteq ImageCells
  BY DEF ImageCells
<1>5. ASSUME NEW c \in Cells(Desc[v])
      PROVE  /\ BitAt(v, c) \in 0 .. Length(v) - 1
             /\ CellOf(v, BitAt(v, c)) = c
  BY <1>1, <1>2 DEF CellOf, BitAt, Cells
<1>6. QED
  BY <1>3, <1>4, <1>5

\* What the image holds for a variable is a value of that variable.
LEMMA ImageTyped ==
  ASSUME TypeOK, NEW v \in Located
  PROVE  ImageOf(v) \in Value(v)
<1>1. ASSUME NEW k \in 0 .. Length(v) - 1
      PROVE  image[AreaOf(v)][CellOf(v, k)] \in 0 .. 1
  BY DescTyped, CellBijection DEF TypeOK
<1>2. QED
  BY <1>1 DEF ImageOf, Value

\* Several rows over a cell: there is a last one.
LEMMA LastIsLast ==
  ASSUME NEW I, I \subseteq DOMAIN Table, I # {}
  PROVE  Last(I) \in I /\ \A j \in I : j <= Last(I)
<1> DEFINE n == Len(Table)
           T == {n - i : i \in I}
           R == {ss \in Nat \X Nat : ss[1] < ss[2]}
<1>1. n \in Nat /\ I \subseteq 1 .. n
  BY TableAssumption
<1>2. T \subseteq Nat /\ T # {}
  BY <1>1
<1>3. PICK x \in T : \A y \in T : ~ (<<y, x>> \in R)
  <2>1. IsWellFoundedOn(R, Nat)
    BY NatLessThanWellFounded DEF OpToRel
  <2> HIDE DEF T, R
  <2>2. QED
    BY <1>2, <2>1, WFMin
<1>4. ASSUME NEW y \in T PROVE x <= y
  <2>1. x \in Nat /\ y \in Nat
    BY <1>2, <1>4
  <2>2. ~ (<<y, x>> \in R)
    BY <1>3, <1>4
  <2>3. ~ (y < x)
    BY <2>1, <2>2
  <2> HIDE DEF T, R
  <2>4. QED
    BY <2>1, <2>3
<1>5. PICK i \in I : x = n - i
  OBVIOUS
<1>6. ASSUME NEW j \in I PROVE j <= i
  <2>1. n - j \in T
    BY <1>6
  <2>2. n - i <= n - j
    BY <1>4, <1>5, <2>1
  <2> HIDE DEF T, R
  <2>3. QED
    BY <1>1, <2>2
<1>7. QED
  BY <1>6 DEF Last

LEMMA WritersLast ==
  ASSUME NEW a, NEW c, Writers(a, c) # {}
  PROVE  /\ Last(Writers(a, c)) \in Writers(a, c)
         /\ \A j \in Writers(a, c) : j <= Last(Writers(a, c))
BY LastIsLast DEF Writers

LEMMA ZeroTyped == \A v \in Var : ZeroOf(v) \in Value(v)
BY DEF ZeroOf, Value

LEMMA LocatedVar == Located \subseteq Var
BY TableAssumption DEF Located

LEMMA CopiedIsLocated ==
  \A v : CopiedIn(v) \/ CopiedOut(v) => v \in Located
BY DEF CopiedIn, CopiedOut, AreaOf
-----------------------------------------------------------------------------
(* Type correctness. *)

LEMMA InitTyped == Init => TypeOK
<1> SUFFICES ASSUME Init PROVE TypeOK
  OBVIOUS
<1>1. DOMAIN cell = Var /\ \A v \in Var : cell[v] \in CellType(Value(v))
  BY ZeroTyped, ProgramAssumption DEF Init, Fresh, CellType
<1>2. image \in [Area -> [ImageCells -> 0 .. 1]]
  BY DEF Init
<1>3. DOMAIN left = Markers /\ \A v \in Markers : left[v] \in Value(v)
  BY ZeroTyped, LocatedVar DEF Init, Markers
<1>4. QED
  BY <1>1, <1>2, <1>3, ProgramAssumption DEF Init, TypeOK

\* One cell replaced by another cell of its variable.
LEMMA CellReplaced ==
  ASSUME TypeOK, NEW v \in Var, NEW c \in CellType(Value(v)),
         cell' = [cell EXCEPT ![v] = c],
         UNCHANGED <<image, phase, prog, left, handle>>
  PROVE  TypeOK'
BY DEF TypeOK

LEMMA StepTyped == TypeOK /\ [Next]_vars => TypeOK'
<1> SUFFICES ASSUME TypeOK, [Next]_vars PROVE TypeOK'
  OBVIOUS
<1>0. \A v \in Var : cell[v] \in CellType(Value(v))
  BY DEF TypeOK
<1>1. CASE SyncIn
  <2>1. \A v \in Var : AfterCopyIn(v) \in CellType(Value(v))
    BY <1>0, ImageTyped, CopiedIsLocated, CellTyped DEF AfterCopyIn
  <2>2. QED
    BY <1>1, <2>1, ProgramAssumption DEF SyncIn, TypeOK
<1>2. ASSUME NEW dst \in Var, NEW x \in Value(dst), Compute(dst, x)
      PROVE  TypeOK'
  <2>1. Set(cell[dst], x) \in CellType(Value(dst))
    BY <1>0, CellTyped
  <2>2. QED
    BY <1>2, <2>1, CellReplaced DEF Compute
<1>3. ASSUME NEW dst \in Var, NEW src \in Var, Copy(dst, src)
      PROVE  TypeOK'
  <2>1. Value(src) = Value(dst)
    BY <1>3 DEF Copy, Value
  <2>2. Get(cell[src]) \in Value(dst)
    BY <1>0, <2>1, ZeroTyped, CellTyped
  <2>3. Assign(cell[dst], cell[src]) \in CellType(Value(dst))
    BY <1>0, <2>2, CellTyped DEF Assign
  <2>4. QED
    BY <1>3, <2>3, CellReplaced DEF Copy
<1>4. CASE EndProgram
  BY <1>4, ProgramAssumption DEF EndProgram, TypeOK
<1>5. CASE SyncOut
  <2>1. ASSUME NEW a \in Area, NEW c \in ImageCells
        PROVE  AfterCopyOut(a, c) \in 0 .. 1
    <3>1. CASE Writers(a, c) = {}
      BY <3>1 DEF AfterCopyOut, TypeOK
    <3>2. CASE Writers(a, c) # {}
      <4> DEFINE v == Table[Last(Writers(a, c))]
      <4>1. Last(Writers(a, c)) \in Writers(a, c)
        BY <3>2, WritersLast
      <4>2. v \in Located /\ c \in Cells(Desc[v])
        BY <4>1 DEF Writers, Covers
      <4>3. cell[v].value[BitAt(v, c)] \in 0 .. 1
        BY <1>0, <4>2, LocatedVar, CellBijection DEF CellType, Value
      <4>4. QED
        BY <3>2, <4>3 DEF AfterCopyOut
    <3>3. QED
      BY <3>1, <3>2
  <2>2. image' \in [Area -> [ImageCells -> 0 .. 1]]
    BY <1>5, <2>1 DEF SyncOut
  <2>3. DOMAIN left' = Markers /\ \A v \in Markers : left'[v] \in Value(v)
    BY <1>0, <1>5, LocatedVar DEF SyncOut, Markers, CellType
  <2>4. QED
    BY <1>5, <2>2, <2>3 DEF SyncOut, TypeOK
<1>6. ASSUME NEW v \in Var, NEW x \in Value(v), ForceVar(v, x)
      PROVE  TypeOK'
  <2>1. ForceTo(cell[v], x) \in CellType(Value(v))
    BY <1>0, CellTyped
  <2>2. QED
    BY <1>6, <2>1, CellReplaced DEF ForceVar
<1>7. ASSUME NEW v \in Var, UnforceVar(v)
      PROVE  TypeOK'
  <2>1. Unforce(cell[v]) \in CellType(Value(v))
    BY <1>0, ZeroTyped, CellTyped
  <2>2. QED
    BY <1>7, <2>1, CellReplaced DEF UnforceVar
<1>8. ASSUME NEW v \in Var, NEW x \in Value(v), WriteVar(v, x)
      PROVE  TypeOK'
  <2>1. Set(cell[v], x) \in CellType(Value(v))
    BY <1>0, CellTyped
  <2>2. QED
    BY <1>8, <2>1, CellReplaced DEF WriteVar
<1>9. ASSUME NEW v \in Var, TakePointer(v)
      PROVE  TypeOK'
  <2>1. handle' \in [var : Var, field : {"value", "forcedValue"},
                     forced : BOOLEAN]
    BY <1>0, <1>9 DEF TakePointer, ReadField, CellType
  <2>2. QED
    BY <1>9, <2>1 DEF TakePointer, TypeOK
<1>10. ASSUME NEW c \in InputCells, NEW b \in 0 .. 1, DriveInput(c, b)
       PROVE  TypeOK'
  <2>1. c \in ImageCells
    BY DEF InputCells, ImageCells
  <2>2. QED
    BY <1>10, <2>1 DEF DriveInput, TypeOK
<1>11. CASE UNCHANGED vars
  BY <1>11 DEF vars, TypeOK
<1>12. QED
  BY <1>1, <1>2, <1>3, <1>4, <1>5, <1>6, <1>7, <1>8, <1>9, <1>10, <1>11
     DEF Next, Scan, Program, Debugger, Environment

\* Every cell, image and history of every reachable state has its type.
THEOREM TypeCorrect == Spec => []TypeOK
BY InitTyped, StepTyped, PTL DEF Spec
-----------------------------------------------------------------------------
(* Forces. *)

\* A force on a variable the image never writes holds its raw storage.
LEMMA StepKeepsRaw ==
  TypeOK /\ ForcedRawHolds /\ [Next]_vars => ForcedRawHolds'
<1> SUFFICES ASSUME TypeOK, ForcedRawHolds, [Next]_vars,
                    NEW v \in Var, cell'[v].forced, ~CopiedIn(v)
             PROVE  cell'[v].value = cell'[v].forcedValue
  BY DEF ForcedRawHolds
<1>0. /\ cell[v] \in CellType(Value(v))
      /\ DOMAIN cell = Var
      /\ cell[v].forced => cell[v].value = cell[v].forcedValue
  BY DEF TypeOK, ForcedRawHolds
<1>1. CASE SyncIn
  BY <1>0, <1>1 DEF SyncIn, AfterCopyIn
<1>2. ASSUME NEW dst \in Var, NEW x \in Value(dst), Compute(dst, x)
      PROVE  cell'[v].value = cell'[v].forcedValue
  BY <1>0, <1>2 DEF Compute, Set, CellType
<1>3. ASSUME NEW dst \in Var, NEW src \in Var, Copy(dst, src)
      PROVE  cell'[v].value = cell'[v].forcedValue
  BY <1>0, <1>3 DEF Copy, Assign, Set, CellType
<1>4. ASSUME NEW w \in Var, NEW x \in Value(w), ForceVar(w, x)
      PROVE  cell'[v].value = cell'[v].forcedValue
  BY <1>0, <1>4 DEF ForceVar, ForceTo, CellType
<1>5. ASSUME NEW w \in Var, UnforceVar(w)
      PROVE  cell'[v].value = cell'[v].forcedValue
  BY <1>0, <1>5 DEF UnforceVar, Unforce, CellType
<1>6. ASSUME NEW w \in Var, NEW x \in Value(w), WriteVar(w, x)
      PROVE  cell'[v].value = cell'[v].forcedValue
  BY <1>0, <1>6 DEF WriteVar, Set, CellType
<1>7. CASE UNCHANGED cell
  BY <1>0, <1>7
<1>8. QED
  BY <1>1, <1>2, <1>3, <1>4, <1>5, <1>6, <1>7
     DEF Next, Scan, Program, Debugger, Environment, EndProgram, SyncOut,
         TakePointer, DriveInput, vars

\* Whatever the program assigns, a driver bound to the storage of a forced
\* variable that is not copied in reads the forced value (iec_var.hpp).
THEOREM ForcedRawAlways == Spec => []ForcedRawHolds
<1>1. Init => ForcedRawHolds
  BY DEF Init, ForcedRawHolds, Fresh
<1>2. QED
  BY <1>1, InitTyped, StepTyped, StepKeepsRaw, PTL DEF Spec

\* Neither a copy of the image nor a statement of a program takes a force
\* away from the operator or changes what a forced variable reads as.
THEOREM ProgramsKeepForces == Spec => ForceStaysWithOperator
<1>1. TypeOK /\ [Next]_vars => KeepsForces
  <2> SUFFICES ASSUME TypeOK, Scan \/ Program, NEW v \in Var
               PROVE  /\ cell'[v].forced = cell[v].forced
                      /\ cell[v].forced => Get(cell'[v]) = Get(cell[v])
    BY DEF KeepsForces
  <2>0. cell[v] \in CellType(Value(v)) /\ DOMAIN cell = Var
    BY DEF TypeOK
  <2>1. CASE SyncIn
    BY <2>0, <2>1 DEF SyncIn, AfterCopyIn, Poke, Get, CellType
  <2>2. CASE EndProgram \/ SyncOut
    BY <2>2 DEF EndProgram, SyncOut
  <2>3. ASSUME NEW dst \in Var, NEW x, Compute(dst, x)
        PROVE  /\ cell'[v].forced = cell[v].forced
               /\ cell[v].forced => Get(cell'[v]) = Get(cell[v])
    BY <2>0, <2>3 DEF Compute, Set, Get, CellType
  <2>4. ASSUME NEW dst \in Var, NEW src \in Var, Copy(dst, src)
        PROVE  /\ cell'[v].forced = cell[v].forced
               /\ cell[v].forced => Get(cell'[v]) = Get(cell[v])
    <3>1. cell' = [cell EXCEPT ![dst] = Set(@, Get(cell[src]))]
      BY <2>4 DEF Copy, Assign
    <3>2. QED
      BY <2>0, <3>1 DEF Set, Get, CellType
  <2>5. QED
    BY <2>1, <2>2, <2>3, <2>4 DEF Scan, Program
<1>2. QED
  BY <1>1, InitTyped, StepTyped, PTL DEF Spec, ForceStaysWithOperator

ConstantsUnforced == \A v \in Constants : ~cell[v].forced

\* Statements and requests leave a constant's cell as it is.
LEMMA OnlyCopyInMovesConstants ==
  ASSUME TypeOK, [Next]_vars, NEW v \in Constants, ~SyncIn
  PROVE  cell'[v] = cell[v]
<1>0. v \in Var /\ DOMAIN cell = Var
  BY ProgramAssumption DEF TypeOK
<1>1. ASSUME NEW dst \in Var, NEW x, Compute(dst, x)
      PROVE  cell'[v] = cell[v]
  BY <1>0, <1>1 DEF Compute, Assignable
<1>2. ASSUME NEW dst \in Var, NEW src \in Var, Copy(dst, src)
      PROVE  cell'[v] = cell[v]
  BY <1>0, <1>2 DEF Copy, Assignable
<1>3. ASSUME NEW w \in Var,
             \/ UnforceVar(w)
             \/ \E x \in Value(w) : ForceVar(w, x) \/ WriteVar(w, x)
      PROVE  cell'[v] = cell[v]
  BY <1>0, <1>3 DEF ForceVar, UnforceVar, WriteVar, Writable
<1>4. CASE UNCHANGED cell
  BY <1>4
<1>5. QED
  BY <1>1, <1>2, <1>3, <1>4
     DEF Next, Scan, Program, Debugger, Environment, EndProgram, SyncOut,
         TakePointer, DriveInput, vars

\* The requests a CONSTANT's leaf refuses, and what the compiler lets a program
\* assign, leave every constant as declared, or as its address was copied in.
THEOREM ConstantsAlways == Spec => OnlyImageMovesConstants
<1>1. Init => \A v \in Constants : Get(cell[v]) = Declared[v] /\ ~cell[v].forced
  BY ProgramAssumption DEF Init, Fresh, Get
<1>2. Init => ConstantsUnforced
  BY <1>1 DEF ConstantsUnforced
<1>3. TypeOK /\ ConstantsUnforced /\ [Next]_vars
        => ConstantsUnforced' /\ \A v \in Constants : MovesOnlyToImage(v)
  <2> SUFFICES ASSUME TypeOK, ConstantsUnforced, [Next]_vars, NEW v \in Constants
               PROVE  MovesOnlyToImage(v)
    BY DEF MovesOnlyToImage, ConstantsUnforced
  <2>0. v \in Var /\ cell[v] \in CellType(Value(v)) /\ ~cell[v].forced
    BY ProgramAssumption DEF TypeOK, ConstantsUnforced
  <2>1. CASE SyncIn
    <3>1. cell'[v] = IF CopiedIn(v) THEN Poke(cell[v], ImageOf(v)) ELSE cell[v]
      BY <2>0, <2>1 DEF SyncIn, AfterCopyIn
    <3>2. CASE CopiedIn(v)
      <4>1. /\ ~Poke(cell[v], ImageOf(v)).forced
            /\ Poke(cell[v], ImageOf(v)).value = ImageOf(v)
        BY <2>0 DEF Poke, CellType
      <4>2. QED
        BY <2>1, <3>1, <3>2, <4>1 DEF MovesOnlyToImage, Get
    <3>3. CASE ~CopiedIn(v)
      BY <2>0, <3>1, <3>3 DEF MovesOnlyToImage
    <3>4. QED
      BY <3>2, <3>3
  <2>2. CASE ~SyncIn
    BY <2>0, <2>2, OnlyCopyInMovesConstants DEF MovesOnlyToImage
  <2>3. QED
    BY <2>1, <2>2
<1>4. QED
  BY <1>1, <1>2, <1>3, InitTyped, StepTyped, PTL DEF Spec, OnlyImageMovesConstants

\* What a client holds: the field its variable was served from.
HandleInv ==
  handle # NoHandle =>
    handle.field = IF handle.forced THEN "forcedValue" ELSE "value"

\* An address taken of a variable shows what a reader should see for as long
\* as the force state of the variable is the one it was taken under.
THEOREM PointersHonourForce == Spec => []PointerHonoursForce
<1>1. Init => HandleInv
  BY DEF Init, HandleInv
<1>2. TypeOK /\ HandleInv /\ [Next]_vars => HandleInv'
  <2> SUFFICES ASSUME TypeOK, HandleInv, [Next]_vars PROVE HandleInv'
    OBVIOUS
  <2>1. ASSUME NEW v \in Var, TakePointer(v) PROVE HandleInv'
    BY <2>1 DEF TakePointer, HandleInv, ReadField
  <2>2. CASE UNCHANGED handle
    BY <2>2 DEF HandleInv, NoHandle
  <2>3. QED
    BY <2>1, <2>2
       DEF Next, Scan, Program, Debugger, Environment, SyncIn, EndProgram,
           SyncOut, Compute, Copy, ForceVar, UnforceVar, WriteVar, DriveInput,
           vars
<1>3. TypeOK /\ HandleInv => PointerHonoursForce
  BY HandleAssumption
     DEF TypeOK, HandleInv, NoHandle, PointerHonoursForce, Get, CellType
<1>4. QED
  BY <1>1, <1>2, <1>3, InitTyped, StepTyped, PTL DEF Spec
-----------------------------------------------------------------------------
(* The image, for a table whose rows touch no common cell. *)

\* A row that shares no cell with another is the only writer of its cells.
LEMMA OnlyWriter ==
  ASSUME Disjoint, NEW v \in Located, CopiedOut(v), NEW k \in 0 .. Length(v) - 1
  PROVE  AfterCopyOut(AreaOf(v), CellOf(v, k)) = cell[v].value[k]
<1> DEFINE a == AreaOf(v)
           c == CellOf(v, k)
<1>1. c \in Cells(Desc[v]) /\ BitAt(v, c) = k
  BY CellBijection
<1>2. PICK i \in DOMAIN Table : Table[i] = v
  BY DEF Located
<1>3. i \in Writers(a, c)
  BY <1>1, <1>2 DEF Writers, Covers
<1>4. ASSUME NEW j \in Writers(a, c) PROVE Table[j] = v
  <2>1. Table[j] \in Located /\ c \in Cells(Desc[Table[j]])
    BY <1>4 DEF Writers, Covers
  <2>2. Desc[Table[j]].area = Desc[v].area
    BY <1>4, <2>1, DescTyped DEF Writers
  <2>3. QED
    BY <1>1, <2>1, <2>2 DEF Disjoint, Overlap
<1>5. Last(Writers(a, c)) \in Writers(a, c)
  BY <1>3, WritersLast
<1>6. QED
  BY <1>1, <1>3, <1>4, <1>5 DEF AfterCopyOut

LEMMA CopyOutDelivers ==
  ASSUME Disjoint, SyncOut, NEW v \in Located, CopiedOut(v),
         NEW k \in 0 .. Length(v) - 1
  PROVE  image'[AreaOf(v)][CellOf(v, k)] = cell[v].value[k]
BY OnlyWriter, DescTyped, CellBijection DEF SyncOut

\* The scan leaves "out" by copying out and "idle" by copying in.
LEMMA PhaseChanges ==
  ASSUME [Next]_vars
  PROVE  /\ phase = "out" /\ phase' = "idle" => SyncOut
         /\ phase = "idle" /\ phase' = "run" => SyncIn
BY DEF Next, Scan, Program, Debugger, Environment, SyncIn, EndProgram, SyncOut,
       Compute, Copy, ForceVar, UnforceVar, WriteVar, TakePointer, DriveInput,
       vars

\* With no two rows over a cell, the drivers get the forced value of every
\* forced output after every scan.
THEOREM ForcedOutputsReachDrivers ==
  ASSUME Disjoint PROVE Spec => ForcedOutputsDelivered
<1>1. ForcedRawHolds /\ [Next]_vars =>
        \A v \in Located : AreaOf(v) = "Output" => Delivers(v)
  <2> SUFFICES ASSUME ForcedRawHolds, [Next]_vars, NEW v \in Located,
                      AreaOf(v) = "Output",
                      phase = "out", phase' = "idle", cell[v].forced,
                      NEW k \in 0 .. Length(v) - 1
               PROVE  image'[AreaOf(v)][CellOf(v, k)]
                        = cell[v].forcedValue[k]
    BY DEF Delivers
  <2>1. CopiedOut(v) /\ ~CopiedIn(v)
    BY DEF CopiedOut, CopiedIn
  <2>2. cell[v].value = cell[v].forcedValue
    BY <2>1, LocatedVar DEF ForcedRawHolds
  <2>3. QED
    BY <2>1, <2>2, PhaseChanges, CopyOutDelivers
<1>2. QED
  BY <1>1, ForcedRawAlways, PTL DEF Spec, ForcedOutputsDelivered

\* Between scans the memory image holds what each marker was left with.
MarkersHeld ==
  \A v \in Markers : \A k \in 0 .. Length(v) - 1 :
    image["Memory"][CellOf(v, k)] = left[v][k]

\* With no two rows over a cell, a marker comes back from the image with the
\* value the program left in it.
THEOREM MarkersComeBack == ASSUME Disjoint PROVE Spec => MarkersSurvive
<1>0. \A v \in Markers :
        v \in Located /\ AreaOf(v) = "Memory" /\ CopiedIn(v) /\ CopiedOut(v)
  BY DEF Markers, AreaOf, CopiedIn, CopiedOut
<1>1. Init => MarkersHeld
  BY <1>0, CellBijection DEF Init, MarkersHeld, ZeroOf, Markers
<1>2. TypeOK /\ MarkersHeld /\ [Next]_vars => MarkersHeld'
  <2> SUFFICES ASSUME TypeOK, MarkersHeld, [Next]_vars,
                      NEW v \in Markers, NEW k \in 0 .. Length(v) - 1
               PROVE  image'["Memory"][CellOf(v, k)] = left'[v][k]
    BY DEF MarkersHeld
  <2>1. CASE SyncOut
    <3>1. left'[v] = cell[v].value
      BY <2>1 DEF SyncOut
    <3>2. QED
      BY <1>0, <2>1, <3>1, CopyOutDelivers
  <2>2. ASSUME NEW c \in InputCells, NEW b \in 0 .. 1, DriveInput(c, b)
        PROVE  image'["Memory"][CellOf(v, k)] = left'[v][k]
    BY <2>2 DEF DriveInput, MarkersHeld, TypeOK
  <2>3. CASE UNCHANGED <<image, left>>
    BY <2>3 DEF MarkersHeld
  <2>4. QED
    BY <2>1, <2>2, <2>3
       DEF Next, Scan, Program, Debugger, Environment, SyncIn, EndProgram,
           Compute, Copy, ForceVar, UnforceVar, WriteVar, TakePointer, vars
<1>3. TypeOK /\ MarkersHeld /\ [Next]_vars =>
        \A v \in Markers : BringsBack(v)
  <2> SUFFICES ASSUME TypeOK, MarkersHeld, [Next]_vars, NEW v \in Markers,
                      phase = "idle", phase' = "run"
               PROVE  cell'[v].value = left[v]
    BY DEF BringsBack
  <2>1. ImageOf(v) = left[v]
    <3>1. left[v] \in [0 .. Length(v) - 1 -> 0 .. 1]
      BY DEF TypeOK, Value
    <3>2. QED
      BY <1>0, <3>1 DEF ImageOf, MarkersHeld
  <2>2. cell'[v] = Poke(cell[v], ImageOf(v))
    BY <1>0, LocatedVar, PhaseChanges DEF SyncIn, AfterCopyIn
  <2>3. cell[v] \in CellType(Value(v))
    BY <1>0, LocatedVar DEF TypeOK
  <2>4. QED
    BY <2>1, <2>2, <2>3 DEF Poke, CellType
<1>4. QED
  BY <1>1, <1>2, <1>3, InitTyped, StepTyped, PTL DEF Spec, MarkersSurvive
=============================================================================
