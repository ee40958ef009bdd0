------------------------------- MODULE Retain -------------------------------
(***************************************************************************)
(* Retained variables across power cycles: pack and unpack                 *)
(* (src/runtime/include/iec_retain.hpp) over a store that may lose power   *)
(* in the middle of a write, and programs recompiled between two boots.    *)
(*                                                                         *)
(* The store is a row of cells: one per header field, one per payload      *)
(* byte.  A write goes in place, from the front; what it does not reach    *)
(* stays, and the cell it was cut in may hold garbage.  The crc is ideal:  *)
(* it is the very content it was computed over, so that two contents have  *)
(* the same crc only when they are equal.                                  *)
(***************************************************************************)
EXTENDS Naturals, Sequences

CONSTANTS
  Build, Layout, Width, ReadOnly, Declared, Unreadable,  \* see RetainContract
  Hash,        \* Hash[b], retain_layout_hash
  LenModulus,  \* payload_len is stored modulo this: 65536 in the code
  Garbage,     \* a cell cut in the middle
  MaxSaves     \* bound: attempts to save

Leaves(b) == {Layout[b][i] : i \in DOMAIN Layout[b]}

Byte == 0 .. 1

LeafValue(b, l) == [1 .. Width[b][l] -> Byte]

ASSUME RetainAssumption ==
  /\ Layout \in [Build -> Seq(UNION {Leaves(b) : b \in Build})]
  /\ \A b \in Build :
       /\ \A i, j \in DOMAIN Layout[b] : Layout[b][i] = Layout[b][j] => i = j
       /\ \A l \in Leaves(b) :
            Width[b][l] \in Nat /\ Declared[b][l] \in LeafValue(b, l)
  /\ LenModulus \in Nat \ {0}
  /\ MaxSaves \in Nat

\* The layout hash tells layouts apart (FNV-1a has accidental collisions; the
\* programs one target sees are assumed not to meet one).
ASSUME HashAssumption ==
  \A b, c \in Build : Hash[b] = Hash[c] <=> Layout[b] = Layout[c]

VARIABLES
  build,     \* the program in the target
  on,        \* whether it is running
  value,     \* value[l], the retained leaves in RAM
  store,     \* the retain region of the target
  result,    \* what the last unpack returned
  attempts,  \* history: the last complete save and interrupted ones since
  intact,    \* history: no save was interrupted since that complete one
  saves      \* how many saves were attempted

storeVars == <<build, on, value, store, result, attempts, intact, saves>>
-----------------------------------------------------------------------------
(* The blob. *)

Magic == "OR"
FormatVersion == "1"
HeaderCells == 5          \* magic, format, layout hash, payload_len, crc
CrcCell == 5

\* Where leaf i of a layout starts in the payload; the entry past the last
\* leaf is where the payload ends.
OffsetIn(layout, width) ==
  LET off[i \in 1 .. Len(layout) + 1] ==
        IF i = 1 THEN 0 ELSE off[i - 1] + width[layout[i - 1]]
  IN  off

Offset(b) == OffsetIn(Layout[b], Width[b])

PayloadSize(b) == Offset(b)[Len(Layout[b]) + 1]

Zero(b, l) == [k \in 1 .. Width[b][l] |-> 0]

\* read_leaf; a short read zeroes the leaf and goes on.
Seen(l) == IF l \in Unreadable[build] THEN Zero(build, l) ELSE value[l]

\* The leaf a payload byte belongs to, and a leaf's place in the walk.
LeafAt(b, p) ==
  CHOOSE i \in DOMAIN Layout[b] : p \in Offset(b)[i] + 1 .. Offset(b)[i + 1]

IndexOf(layout, l) == CHOOSE i \in DOMAIN layout : layout[i] = l

PackedPayload ==
  [p \in 1 .. PayloadSize(build) |->
     LET i == LeafAt(build, p)
     IN  Seen(Layout[build][i])[p - Offset(build)[i]]]

Header(b) == <<Magic, FormatVersion, Hash[b], PayloadSize(b) % LenModulus>>

HeaderChecksum(header, payload) == <<header, <<>>>>
Checksum(header, payload) == <<header, payload>>

PackedLen == HeaderCells + PayloadSize(build)

PackedCell(j) ==
  IF j < CrcCell THEN Header(build)[j]
  ELSE IF j = CrcCell THEN Checksum(Header(build), PackedPayload)
  ELSE PackedPayload[j - HeaderCells]

\* Facts about the recursive Offset: leaves share no byte and leave none out.
\* Checked by TLC on every set of programs and assumed by the proofs.
ASSUME OffsetAssumption ==
  \A b \in Build :
    /\ PayloadSize(b) \in Nat
    /\ \A p \in 1 .. PayloadSize(b) :
         /\ LeafAt(b, p) \in DOMAIN Layout[b]
         /\ p - Offset(b)[LeafAt(b, p)] \in 1 .. Width[b][Layout[b][LeafAt(b, p)]]
    /\ \A i \in DOMAIN Layout[b] : \A k \in 1 .. Width[b][Layout[b][i]] :
         /\ Offset(b)[i] \in Nat
         /\ Offset(b)[i] + k \in 1 .. PayloadSize(b)
         /\ LeafAt(b, Offset(b)[i] + k) = i

\* Widths follow the type of a leaf.  Two runtimes that move different widths
\* for the same leaves do not come to the same total.
ASSUME WidthAssumption ==
  \A b, c \in Build :
    Layout[b] = Layout[c] /\ PayloadSize(b) = PayloadSize(c)
      => Width[b] = Width[c]

\* A cut cell is neither a length nor a checksum.
ASSUME GarbageAssumption ==
  /\ Garbage \notin Nat
  /\ \A b \in Build : \A payload \in [1 .. PayloadSize(b) -> Byte] :
       Garbage # Checksum(Header(b), payload)

\* What a save is meant to preserve.
Snapshot ==
  [layout |-> Layout[build],
   width  |-> Width[build],
   value  |-> [l \in Leaves(build) |-> Seen(l)]]
-----------------------------------------------------------------------------
(* Loading. *)

StoredHeader == <<store[1], store[2], store[3], store[4]>>

\* get_u16 of a cut length is some number; the crc over it settles the rest.
StoredLen == IF store[4] = Garbage THEN 0 ELSE store[4]

StoredPayload == [j \in 1 .. StoredLen |-> store[HeaderCells + j]]

\* The crc over what is stored is the one that is stored; a cut one never is.
CrcMatches ==
  /\ store[CrcCell] # Garbage
  /\ store[CrcCell] = Checksum(StoredHeader, StoredPayload)

\* unpack's early returns, in their order.
LoadLayoutFirst(b) ==
  IF Layout[b] = <<>> THEN "Ok"
  ELSE IF store = <<>> THEN "Empty"
  ELSE IF Len(store) < HeaderCells THEN "Truncated"
  ELSE IF store[1] # Magic THEN "BadMagic"
  ELSE IF store[2] # FormatVersion THEN "BadFormat"
  ELSE IF store[3] # Hash[b] THEN "StaleLayout"
  ELSE IF Len(store) - HeaderCells < StoredLen THEN "Truncated"
  ELSE IF ~CrcMatches THEN "BadCrc"
  ELSE IF StoredLen # PayloadSize(b) THEN "Truncated"
  ELSE "Ok"
Load(b) ==
  IF Layout[b] = <<>> THEN "Ok"
  ELSE IF store = <<>> THEN "Empty"
  ELSE IF Len(store) < HeaderCells THEN "Truncated"
  ELSE IF store[1] # Magic THEN "BadMagic"
  ELSE IF store[2] # FormatVersion THEN "BadFormat"
  ELSE IF Len(store) - HeaderCells < StoredLen THEN "Truncated"
  ELSE IF ~CrcMatches THEN "BadCrc"
  ELSE IF store[3] # Hash[b] THEN "StaleLayout"
  ELSE IF StoredLen # PayloadSize(b) THEN "Truncated"
  ELSE "Ok"

Cold(b) == [l \in Leaves(b) |-> Declared[b][l]]

\* write_leaf on every leaf; the debug dispatch refuses a read-only one.
StoredLeaf(b, l) ==
  [k \in 1 .. Width[b][l] |->
     StoredPayload[Offset(b)[IndexOf(Layout[b], l)] + k]]

UnpackedIntoAll(b) == [l \in Leaves(b) |-> StoredLeaf(b, l)]
Unpacked(b) ==
  [l \in Leaves(b) |->
     IF l \in ReadOnly[b] THEN Declared[b][l] ELSE StoredLeaf(b, l)]
-----------------------------------------------------------------------------
RetainInit ==
  /\ build \in Build
  /\ on = TRUE
  /\ value = Cold(build)
  /\ store = <<>>
  /\ result = "Empty"
  /\ attempts = {}
  /\ intact = TRUE
  /\ saves = 0

\* The program moves a retained variable.
Write(l, v) ==
  /\ on
  /\ l \in Leaves(build) \ ReadOnly[build]
  /\ value' = [value EXCEPT ![l] = v]
  /\ UNCHANGED <<build, on, store, result, attempts, intact, saves>>

\* The store once the first n cells of the blob are in it and, when the power
\* went, perhaps a cut one.
Longer(m, n) == IF m < n THEN n ELSE m

Written(n, cut) ==
  [i \in 1 .. Longer(Len(store), IF cut THEN n + 1 ELSE n) |->
     IF i <= n THEN PackedCell(i)
     ELSE IF cut /\ i = n + 1 THEN Garbage
     ELSE store[i]]

\* pack has something to save.
MaySave ==
  /\ on
  /\ saves < MaxSaves
  /\ Layout[build] # <<>>

Save ==
  /\ MaySave
  /\ store' = Written(PackedLen, FALSE)
  /\ attempts' = {Snapshot}
  /\ intact' = TRUE
  /\ saves' = saves + 1
  /\ UNCHANGED <<build, on, value, result>>

\* The power fails after n cells.
TornSave(n, cut) ==
  /\ MaySave
  /\ n < PackedLen
  /\ store' = Written(n, cut)
  /\ attempts' = attempts \cup {Snapshot}
  /\ intact' = FALSE
  /\ saves' = saves + 1
  /\ on' = FALSE
  /\ UNCHANGED <<build, value, result>>

PowerOff ==
  /\ on
  /\ on' = FALSE
  /\ UNCHANGED <<build, value, store, result, attempts, intact, saves>>

\* The operator clears the region.
Clear ==
  /\ store' = <<>>
  /\ attempts' = {}
  /\ intact' = TRUE
  /\ UNCHANGED <<build, on, value, result, saves>>

\* Power returns, with the same program or another one: every variable is
\* constructed at its declared value, then unpack runs.
Boot(b) ==
  /\ ~on
  /\ on' = TRUE
  /\ build' = b
  /\ result' = Load(b)
  /\ value' = IF Load(b) = "Ok" THEN Unpacked(b) ELSE Cold(b)
  /\ UNCHANGED <<store, attempts, intact, saves>>
-----------------------------------------------------------------------------
RetainNext ==
  \/ \E l \in Leaves(build) : \E v \in LeafValue(build, l) : Write(l, v)
  \/ Save
  \/ \E n \in 0 .. PackedLen - 1, cut \in BOOLEAN : TornSave(n, cut)
  \/ PowerOff
  \/ Clear
  \/ \E b \in Build : Boot(b)

RetainSpec == RetainInit /\ [][RetainNext]_storeVars
-----------------------------------------------------------------------------
RetainTypeOK ==
  /\ build \in Build
  /\ on \in BOOLEAN
  /\ DOMAIN value = Leaves(build)
  /\ \A l \in Leaves(build) : value[l] \in LeafValue(build, l)
  /\ result \in {"Ok", "Empty", "Truncated", "BadMagic", "BadFormat",
                 "BadCrc", "StaleLayout"}
  /\ saves \in Nat

(* Every boot is a cold start or finds one save of the same variables whole, *)
(* whatever writes were cut and whatever programs ran in between; after an   *)
(* uninterrupted save it finds that save, provided the payload's length fits *)
(* its field (iec_retain.hpp, unpack: a corrupt or stale store degrades to a *)
(* cold start rather than to plausible-looking garbage).                     *)
Contract ==
  INSTANCE RetainContract
    WITH candidates <- attempts,
         Reliable <- {b \in Build : PayloadSize(b) < LenModulus}

ImplementsContract == Contract!Spec

(* StaleLayout is reported only for an intact save of a program whose        *)
(* retained variables differ, never for a torn write (iec_retain.hpp, the    *)
(* comment on checking the layout after the crc).                            *)
StaleIsAnotherLayout ==
  ~on /\ on' /\ result' = "StaleLayout" =>
    \E s \in attempts : s.layout # Layout[build']

StaleMeansRecompiled == [][StaleIsAnotherLayout]_storeVars

(* A leaf that is CONSTANT in the running program reads as declared, also    *)
(* when a blob written before it became one is restored over it.             *)
ConstantsKeepDeclaration ==
  \A l \in Leaves(build) \cap ReadOnly[build] : value[l] = Declared[build][l]
=============================================================================
