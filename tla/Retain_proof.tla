---------------------------- MODULE Retain_proof ----------------------------
(***************************************************************************)
(* Proofs about Retain, for every set of programs, every layout and every  *)
(* history of saves, cut saves, power cycles and downloads.                *)
(***************************************************************************)
EXTENDS Retain, SequenceTheorems, TLAPS
-----------------------------------------------------------------------------
(* Sequences given as functions. *)

LEMMA FunctionIsSeq ==
  ASSUME NEW n \in Nat, NEW f, f = [i \in 1 .. n |-> f[i]]
  PROVE  /\ \E S : f \in Seq(S)
         /\ Len(f) = n
<1> DEFINE S == {f[i] : i \in 1 .. n}
<1>1. f \in [1 .. n -> S]
  OBVIOUS
<1>2. f \in Seq(S)
  BY <1>1, SeqDef
<1>3. Len(f) = n
  BY <1>1, <1>2, LenProperties
<1>4. QED
  BY <1>2, <1>3
-----------------------------------------------------------------------------
(* Layouts. *)

LEMMA LayoutTyped ==
  ASSUME NEW b \in Build
  PROVE  /\ DOMAIN Layout[b] = 1 .. Len(Layout[b])
         /\ Len(Layout[b]) \in Nat
         /\ \A i \in DOMAIN Layout[b] : IndexOf(Layout[b], Layout[b][i]) = i
         /\ \A l \in Leaves(b) :
              /\ IndexOf(Layout[b], l) \in DOMAIN Layout[b]
              /\ Layout[b][IndexOf(Layout[b], l)] = l
              /\ Width[b][l] \in Nat
              /\ Declared[b][l] \in LeafValue(b, l)
         /\ PayloadSize(b) \in Nat
<1>1. \E S : Layout[b] \in Seq(S)
  BY RetainAssumption
<1>2. DOMAIN Layout[b] = 1 .. Len(Layout[b]) /\ Len(Layout[b]) \in Nat
  BY <1>1, LenProperties
<1>3. \A i \in DOMAIN Layout[b] : IndexOf(Layout[b], Layout[b][i]) = i
  BY RetainAssumption DEF IndexOf
<1>4. \A l \in Leaves(b) :
        /\ IndexOf(Layout[b], l) \in DOMAIN Layout[b]
        /\ Layout[b][IndexOf(Layout[b], l)] = l
  BY <1>3 DEF Leaves
<1>5. QED
  BY <1>2, <1>3, <1>4, RetainAssumption, OffsetAssumption
-----------------------------------------------------------------------------
(* Types. *)

LEMMA ColdTyped ==
  ASSUME NEW b \in Build
  PROVE  /\ DOMAIN Cold(b) = Leaves(b)
         /\ \A l \in Leaves(b) : Cold(b)[l] \in LeafValue(b, l)
BY LayoutTyped DEF Cold

LEMMA SeenTyped ==
  ASSUME RetainTypeOK, NEW l \in Leaves(build)
  PROVE  Seen(l) \in LeafValue(build, l)
BY DEF RetainTypeOK, Seen, Zero, LeafValue, Byte

\* The payload of a save keeps every leaf where Offset says.
LEMMA PayloadHolds ==
  ASSUME RetainTypeOK, NEW l \in Leaves(build), NEW k \in 1 .. Width[build][l]
  PROVE  /\ Offset(build)[IndexOf(Layout[build], l)] + k
              \in 1 .. PayloadSize(build)
         /\ PackedPayload[Offset(build)[IndexOf(Layout[build], l)] + k]
              = Seen(l)[k]
<1> DEFINE i == IndexOf(Layout[build], l)
           p == Offset(build)[i] + k
<1>1. i \in DOMAIN Layout[build] /\ Layout[build][i] = l
  BY LayoutTyped DEF RetainTypeOK
<1>2. /\ Offset(build)[i] \in Nat
      /\ p \in 1 .. PayloadSize(build)
      /\ LeafAt(build, p) = i
  BY <1>1, OffsetAssumption DEF RetainTypeOK
<1>3. p - Offset(build)[i] = k
  BY <1>2
<1>4. PackedPayload[p] = Seen(Layout[build][i])[p - Offset(build)[i]]
  BY <1>2 DEF PackedPayload
<1>5. QED
  BY <1>1, <1>2, <1>3, <1>4
-----------------------------------------------------------------------------
(* Saves. *)

\* p is the payload program c packs for snapshot s.
Packs(s, c, p) ==
  /\ s.layout = Layout[c]
  /\ s.width = Width[c]
  /\ Layout[c] # <<>>
  /\ \A l \in Leaves(c) :
       /\ s.value[l] \in LeafValue(c, l)
       /\ s.value[l] =
            [k \in 1 .. Width[c][l] |->
               p[Offset(c)[IndexOf(Layout[c], l)] + k]]
  /\ p \in [1 .. PayloadSize(c) -> Byte]

LEMMA SnapshotPacked ==
  ASSUME RetainTypeOK, Layout[build] # <<>>
  PROVE  Packs(Snapshot, build, PackedPayload)
<1>1. ASSUME NEW l \in Leaves(build)
      PROVE  Seen(l) =
               [k \in 1 .. Width[build][l] |->
                  PackedPayload[Offset(build)[IndexOf(Layout[build], l)] + k]]
  BY <1>1, SeenTyped, PayloadHolds DEF LeafValue
<1>2. PackedPayload \in [1 .. PayloadSize(build) -> Byte]
  <2>1. ASSUME NEW p \in 1 .. PayloadSize(build)
        PROVE  LET i == LeafAt(build, p)
               IN  Seen(Layout[build][i])[p - Offset(build)[i]] \in Byte
    <3> DEFINE i == LeafAt(build, p)
    <3>1. /\ Layout[build][i] \in Leaves(build)
          /\ p - Offset(build)[i] \in 1 .. Width[build][Layout[build][i]]
      BY OffsetAssumption DEF RetainTypeOK, Leaves
    <3>2. Seen(Layout[build][i]) \in [1 .. Width[build][Layout[build][i]] -> Byte]
      BY <3>1, SeenTyped DEF LeafValue
    <3>3. QED
      BY <3>1, <3>2
  <2>2. QED
    BY <2>1 DEF PackedPayload
<1>3. QED
  BY <1>1, <1>2, SeenTyped DEF Packs, Snapshot

\* The first n cells of the blob are in the store.
LEMMA WrittenCells ==
  ASSUME Len(store) \in Nat, NEW n \in Nat, NEW cut \in BOOLEAN
  PROVE  /\ Len(Written(n, cut)) \in Nat
         /\ Len(Written(n, cut)) >= n
         /\ \A i \in 1 .. n : Written(n, cut)[i] = PackedCell(i)
         /\ \A i \in n + 1 .. Len(Written(n, cut)) :
              \/ cut /\ Written(n, cut)[i] = Garbage
              \/ Written(n, cut)[i] = store[i] /\ i \in 1 .. Len(store)
<1> DEFINE m == Len(store)
           top == Longer(m, IF cut THEN n + 1 ELSE n)
           g(i) == IF i <= n THEN PackedCell(i)
                   ELSE IF cut /\ i = n + 1 THEN Garbage
                   ELSE store[i]
<1>1. top \in Nat
  BY DEF Longer
<1>2. Written(n, cut) = [i \in 1 .. top |-> g(i)]
  BY DEF Written
<1>3. Len(Written(n, cut)) = top
  <2> DEFINE f == Written(n, cut)
  <2>1. f = [i \in 1 .. top |-> f[i]]
    BY <1>2
  <2> HIDE DEF f, top
  <2>2. QED
    BY <1>1, <2>1, FunctionIsSeq DEF f
<1>4. \A i \in 1 .. top : Written(n, cut)[i] = g(i)
  BY <1>2
<1>5. /\ top >= n
      /\ \A i \in n + 1 .. top : ~ (cut /\ i = n + 1) => i \in 1 .. m
  BY DEF Longer
<1>6. ASSUME NEW i \in n + 1 .. top
      PROVE  \/ cut /\ Written(n, cut)[i] = Garbage
             \/ Written(n, cut)[i] = store[i] /\ i \in 1 .. m
  <2>1. i \in 1 .. top /\ ~ (i <= n)
    BY <1>1
  <2>2. QED
    BY <1>4, <1>5, <2>1
<1>7. \A i \in 1 .. n : Written(n, cut)[i] = PackedCell(i)
  BY <1>1, <1>4, <1>5
<1> HIDE DEF top, g
<1>8. QED
  BY <1>1, <1>3, <1>5, <1>6, <1>7
-----------------------------------------------------------------------------
(* The crc in the store is always that of a save the next boot may find.   *)

CrcInv ==
  /\ Len(store) \in Nat
  /\ \A s \in attempts : s.layout # <<>>
  /\ Len(store) >= CrcCell =>
       \/ store[CrcCell] = Garbage
       \/ \E s \in attempts, c \in Build : \E p :
            /\ Packs(s, c, p)
            /\ store[CrcCell] = Checksum(Header(c), p)

\* A matching crc means the header and the payload of one save, whole.
LEMMA CrcSound ==
  ASSUME CrcInv, Len(store) >= CrcCell, CrcMatches
  PROVE  \E s \in attempts, c \in Build : \E p :
           /\ Packs(s, c, p)
           /\ StoredHeader = Header(c)
           /\ StoredPayload = p
BY DEF CrcInv, CrcMatches, Checksum

LEMMA LoadOkChecks ==
  ASSUME NEW b \in Build, Layout[b] # <<>>, Load(b) = "Ok", CrcInv
  PROVE  /\ Len(store) >= CrcCell
         /\ CrcMatches
         /\ store[3] = Hash[b]
         /\ StoredLen = PayloadSize(b)
BY DEF Load, HeaderCells, CrcCell, CrcInv

\* unpack restores exactly one save of the same leaves, or nothing.
LEMMA LoadOkRestores ==
  ASSUME CrcInv, NEW b \in Build, Layout[b] # <<>>, Load(b) = "Ok"
  PROVE  \E s \in attempts :
           /\ Contract!Fits(s, b)
           /\ Unpacked(b) = Contract!Restored(s, b)
           /\ \A l \in Leaves(b) : s.value[l] \in LeafValue(b, l)
<1>1. PICK s \in attempts, c \in Build :
        \E p : Packs(s, c, p) /\ StoredHeader = Header(c) /\ StoredPayload = p
  BY LoadOkChecks, CrcSound
<1>2. Packs(s, c, StoredPayload) /\ StoredHeader = Header(c)
  BY <1>1
<1>3. Layout[c] = Layout[b]
  <2>1. StoredHeader[3] = Header(c)[3]
    BY <1>2
  <2>2. Hash[c] = Hash[b]
    BY <2>1, LoadOkChecks DEF StoredHeader, Header
  <2>3. QED
    BY <2>2, HashAssumption
<1>4. PayloadSize(c) = PayloadSize(b)
  <2>1. StoredPayload = [j \in 1 .. PayloadSize(b) |-> store[HeaderCells + j]]
    BY LoadOkChecks DEF StoredPayload
  <2>2. DOMAIN StoredPayload = 1 .. PayloadSize(c)
    BY <1>2 DEF Packs
  <2>3. PayloadSize(b) \in Nat /\ PayloadSize(c) \in Nat
    BY LayoutTyped
  <2>4. 1 .. PayloadSize(b) = 1 .. PayloadSize(c)
    BY <2>1, <2>2
  <2>5. QED
    BY <2>3, <2>4
<1>5. Width[c] = Width[b]
  BY <1>3, <1>4, WidthAssumption
<1>6. Leaves(c) = Leaves(b) /\ Offset(c) = Offset(b)
  BY <1>3, <1>5 DEF Leaves, Offset
<1>7. ASSUME NEW l \in Leaves(b)
      PROVE  /\ s.value[l] = StoredLeaf(b, l)
             /\ s.value[l] \in LeafValue(b, l)
  <2>1. /\ s.value[l] \in LeafValue(c, l)
        /\ s.value[l] =
             [k \in 1 .. Width[c][l] |->
                StoredPayload[Offset(c)[IndexOf(Layout[c], l)] + k]]
    BY <1>2, <1>6 DEF Packs
  <2>2. QED
    BY <1>3, <1>5, <1>6, <2>1 DEF StoredLeaf, LeafValue
<1>8. Unpacked(b) = Contract!Restored(s, b)
  BY <1>7 DEF Unpacked, Contract!Restored, Contract!Leaves, Leaves
<1>9. Contract!Fits(s, b)
  BY <1>2, <1>3, <1>5 DEF Packs, Contract!Fits
<1>10. QED
  BY <1>1, <1>7, <1>8, <1>9

\* What a boot leaves in RAM.
LEMMA BootTyped ==
  ASSUME CrcInv, NEW b \in Build
  PROVE  LET v == IF Load(b) = "Ok" THEN Unpacked(b) ELSE Cold(b)
         IN  DOMAIN v = Leaves(b) /\ \A l \in Leaves(b) : v[l] \in LeafValue(b, l)
<1>1. CASE Load(b) # "Ok"
  BY <1>1, ColdTyped
<1>2. CASE Layout[b] = <<>>
  <2>1. Leaves(b) = {}
    BY <1>2 DEF Leaves
  <2>2. QED
    BY <2>1 DEF Unpacked, Cold
<1>3. CASE Load(b) = "Ok" /\ Layout[b] # <<>>
  <2>1. PICK s \in attempts :
          /\ Unpacked(b) = Contract!Restored(s, b)
          /\ \A l \in Leaves(b) : s.value[l] \in LeafValue(b, l)
    BY <1>3, LoadOkRestores
  <2>2. \A l \in Leaves(b) : Declared[b][l] \in LeafValue(b, l)
    BY LayoutTyped
  <2>3. QED
    BY <1>3, <2>1, <2>2 DEF Contract!Restored, Contract!Leaves, Leaves
<1>4. QED
  BY <1>1, <1>2, <1>3
-----------------------------------------------------------------------------
(* Invariance. *)

LEMMA InitHolds == RetainInit => RetainTypeOK /\ CrcInv
<1> SUFFICES ASSUME RetainInit PROVE RetainTypeOK /\ CrcInv
  OBVIOUS
<1>1. RetainTypeOK
  BY ColdTyped DEF RetainInit, RetainTypeOK
<1>2. store = <<>> /\ attempts = {}
  BY DEF RetainInit
<1>3. Len(store) = 0
  BY <1>2
<1>4. CrcInv
  BY <1>2, <1>3 DEF CrcInv, CrcCell
<1>5. QED
  BY <1>1, <1>4

LEMMA StepTyped == RetainTypeOK /\ CrcInv /\ [RetainNext]_storeVars => RetainTypeOK'
<1> SUFFICES ASSUME RetainTypeOK, CrcInv, [RetainNext]_storeVars PROVE RetainTypeOK'
  OBVIOUS
<1>1. ASSUME NEW l \in Leaves(build), NEW v \in LeafValue(build, l), Write(l, v)
      PROVE  RetainTypeOK'
  BY <1>1 DEF Write, RetainTypeOK, Leaves, LeafValue
<1>2. CASE Save
  BY <1>2 DEF Save, MaySave, RetainTypeOK, Leaves, LeafValue
<1>3. ASSUME NEW n, NEW cut, TornSave(n, cut) PROVE RetainTypeOK'
  <2>1. saves' = saves + 1 /\ on' = FALSE /\ UNCHANGED <<build, value, result>>
    BY <1>3 DEF TornSave
  <2>2. saves' \in Nat
    BY <2>1 DEF RetainTypeOK
  <2>3. /\ (build \in Build)'
        /\ (DOMAIN value = Leaves(build))'
        /\ (\A l \in Leaves(build) : value[l] \in LeafValue(build, l))'
        /\ result' \in {"Ok", "Empty", "Truncated", "BadMagic", "BadFormat",
                        "BadCrc", "StaleLayout"}
    BY <2>1 DEF RetainTypeOK, Leaves, LeafValue
  <2>4. (on \in BOOLEAN)'
    BY <2>1, Zenon
  <2>5. QED
    BY <2>2, <2>3, <2>4, Zenon DEF RetainTypeOK
<1>4. CASE PowerOff
  BY <1>4 DEF PowerOff, RetainTypeOK, Leaves, LeafValue
<1>5. CASE Clear
  BY <1>5 DEF Clear, RetainTypeOK, Leaves, LeafValue
<1>6. ASSUME NEW b \in Build, Boot(b) PROVE RetainTypeOK'
  <2>1. DOMAIN value' = Leaves(b)
        /\ \A l \in Leaves(b) : value'[l] \in LeafValue(b, l)
    BY <1>6, BootTyped DEF Boot
  <2>2. DOMAIN value' = Leaves(build)'
        /\ \A l \in Leaves(build)' : value'[l] \in LeafValue(build, l)'
    BY <1>6, <2>1 DEF Boot, Leaves, LeafValue
  <2>3. result' \in {"Ok", "Empty", "Truncated", "BadMagic", "BadFormat",
                    "BadCrc", "StaleLayout"}
    BY <1>6 DEF Boot, Load
  <2>4. QED
    BY <1>6, <2>2, <2>3 DEF Boot, RetainTypeOK
<1>7. CASE UNCHANGED storeVars
  BY <1>7 DEF storeVars, RetainTypeOK, Leaves, LeafValue
<1>8. QED
  BY <1>1, <1>2, <1>3, <1>4, <1>5, <1>6, <1>7 DEF RetainNext

\* What a write leaves in the crc cell: the crc of the save, a cut cell, or
\* what was there.
LEMMA CrcWritten ==
  ASSUME RetainTypeOK, CrcInv, Layout[build] # <<>>, NEW n \in Nat, NEW cut \in BOOLEAN
  PROVE  LET w == Written(n, cut)
         IN  /\ Len(w) \in Nat
             /\ Len(w) >= CrcCell =>
                  \/ w[CrcCell] = Garbage
                  \/ w[CrcCell] = Checksum(Header(build), PackedPayload)
                  \/ n < CrcCell /\ Len(store) >= CrcCell
                     /\ w[CrcCell] = store[CrcCell]
<1> DEFINE w == Written(n, cut)
           m == Len(store)
<1>1. m \in Nat
  BY DEF CrcInv
<1>2. /\ Len(w) \in Nat
      /\ \A i \in 1 .. n : w[i] = PackedCell(i)
      /\ \A i \in n + 1 .. Len(w) :
           \/ w[i] = Garbage
           \/ w[i] = store[i] /\ i \in 1 .. m
  BY <1>1, WrittenCells
<1> HIDE DEF w, m
<1>3. ASSUME Len(w) >= CrcCell
      PROVE  \/ w[CrcCell] = Garbage
             \/ w[CrcCell] = Checksum(Header(build), PackedPayload)
             \/ n < CrcCell /\ m >= CrcCell /\ w[CrcCell] = store[CrcCell]
  <2>1. CASE n >= CrcCell
    <3>1. w[CrcCell] = PackedCell(CrcCell)
      BY <1>2, <2>1 DEF CrcCell
    <3>2. PackedCell(CrcCell) = Checksum(Header(build), PackedPayload)
      BY DEF PackedCell, CrcCell
    <3>3. QED
      BY <3>1, <3>2
  <2>2. CASE n < CrcCell
    BY <1>1, <1>2, <1>3, <2>2 DEF CrcCell
  <2>3. QED
    BY <2>1, <2>2 DEF CrcCell
<1>4. QED
  BY <1>2, <1>3 DEF w, m

LEMMA PackedLenTyped == ASSUME RetainTypeOK PROVE PackedLen \in Nat /\ PackedLen >= CrcCell
BY LayoutTyped DEF RetainTypeOK, PackedLen, HeaderCells, CrcCell

\* A save, complete or cut, keeps the crc in the store that of a candidate.
LEMMA StepCrc == RetainTypeOK /\ CrcInv /\ [RetainNext]_storeVars => CrcInv'
<1> SUFFICES ASSUME RetainTypeOK, CrcInv, [RetainNext]_storeVars PROVE CrcInv'
  OBVIOUS
<1> DEFINE From(s, c, crc) ==
             \E p : Packs(s, c, p) /\ crc = Checksum(Header(c), p)
<1>1. CrcInv <=>
        /\ Len(store) \in Nat
        /\ \A s \in attempts : s.layout # <<>>
        /\ Len(store) >= CrcCell =>
             \/ store[CrcCell] = Garbage
             \/ \E s \in attempts, c \in Build : From(s, c, store[CrcCell])
  BY DEF CrcInv
<1>2. CrcInv' <=>
        /\ Len(store') \in Nat
        /\ \A s \in attempts' : s.layout # <<>>
        /\ Len(store') >= CrcCell =>
             \/ store'[CrcCell] = Garbage
             \/ \E s \in attempts', c \in Build : From(s, c, store'[CrcCell])
  BY DEF CrcInv, Packs, Header, Checksum, Offset, PayloadSize, Leaves, LeafValue
<1>3. Layout[build] # <<>> =>
        /\ From(Snapshot, build, Checksum(Header(build), PackedPayload))
        /\ Snapshot.layout # <<>>
  BY SnapshotPacked DEF Snapshot
<1>4. build \in Build
  BY DEF RetainTypeOK
<1> HIDE DEF From
<1>5. CASE Save
  <2>1. Layout[build] # <<>> /\ attempts' = {Snapshot}
        /\ store' = Written(PackedLen, FALSE)
    BY <1>5 DEF Save, MaySave
  <2>2. /\ Len(store') \in Nat
        /\ Len(store') >= CrcCell =>
             \/ store'[CrcCell] = Garbage
             \/ store'[CrcCell] = Checksum(Header(build), PackedPayload)
    <3> DEFINE w == Written(PackedLen, FALSE)
    <3>1. /\ Len(w) \in Nat
          /\ Len(w) >= CrcCell =>
               \/ w[CrcCell] = Garbage
               \/ w[CrcCell] = Checksum(Header(build), PackedPayload)
               \/ PackedLen < CrcCell
      BY <2>1, CrcWritten, PackedLenTyped
    <3>2. ~ (PackedLen < CrcCell)
      BY PackedLenTyped DEF CrcCell
    <3>3. QED
      BY <2>1, <3>1, <3>2
  <2>3. QED
    BY <1>2, <1>3, <1>4, <2>1, <2>2
<1>6. ASSUME NEW n \in 0 .. PackedLen - 1, NEW cut \in BOOLEAN, TornSave(n, cut)
      PROVE  CrcInv'
  <2>1. Layout[build] # <<>> /\ attempts' = attempts \cup {Snapshot}
        /\ store' = Written(n, cut)
    BY <1>6 DEF TornSave, MaySave
  <2>2. n \in Nat
    BY PackedLenTyped
  <2>3. /\ Len(store') \in Nat
        /\ Len(store') >= CrcCell =>
             \/ store'[CrcCell] = Garbage
             \/ store'[CrcCell] = Checksum(Header(build), PackedPayload)
             \/ Len(store) >= CrcCell /\ store'[CrcCell] = store[CrcCell]
    BY <2>1, <2>2, CrcWritten
  <2>4. QED
    BY <1>1, <1>2, <1>3, <1>4, <2>1, <2>3
<1>7. CASE Clear
  <2>1. store' = <<>> /\ attempts' = {}
    BY <1>7 DEF Clear
  <2>2. Len(store') = 0
    BY <2>1
  <2>3. QED
    BY <1>2, <2>1, <2>2 DEF CrcCell
<1>8. CASE UNCHANGED <<store, attempts>>
  BY <1>1, <1>2, <1>8
<1>9. QED
  BY <1>5, <1>6, <1>7, <1>8 DEF RetainNext, storeVars, Write, PowerOff, Boot

\* Every variable of every reachable state has its type: in particular
\* unpack only ever restores whole values.
THEOREM TypeCorrect == RetainSpec => []RetainTypeOK
<1>1. RetainInit => RetainTypeOK /\ CrcInv
  BY InitHolds
<1>2. RetainTypeOK /\ CrcInv /\ [RetainNext]_storeVars => (RetainTypeOK /\ CrcInv)'
  BY StepTyped, StepCrc
<1>3. QED
  BY <1>1, <1>2, PTL DEF RetainSpec

\* The crc in the store is always that of a save the next boot may find.
THEOREM CrcAlways == RetainSpec => []CrcInv
<1>1. RetainInit => RetainTypeOK /\ CrcInv
  BY InitHolds
<1>2. RetainTypeOK /\ CrcInv /\ [RetainNext]_storeVars => (RetainTypeOK /\ CrcInv)'
  BY StepTyped, StepCrc
<1>3. QED
  BY <1>1, <1>2, PTL DEF RetainSpec
-----------------------------------------------------------------------------
(* After a save that was not cut, the store holds that save, whole.        *)

IntactInv ==
  intact =>
    \/ attempts = {}
    \/ \E s, p : \E c \in Build :
         /\ attempts = {s}
         /\ Packs(s, c, p)
         /\ Len(store) >= HeaderCells + PayloadSize(c)
         /\ \A j \in 1 .. 4 : store[j] = Header(c)[j]
         /\ store[CrcCell] = Checksum(Header(c), p)
         /\ \A j \in 1 .. PayloadSize(c) : store[HeaderCells + j] = p[j]

\* The blob a complete save leaves behind.
LEMMA SaveWhole ==
  ASSUME RetainTypeOK, CrcInv, Layout[build] # <<>>
  PROVE  LET w == Written(PackedLen, FALSE)
         IN  /\ Len(w) >= PackedLen
             /\ \A j \in 1 .. 4 : w[j] = Header(build)[j]
             /\ w[CrcCell] = Checksum(Header(build), PackedPayload)
             /\ \A j \in 1 .. PayloadSize(build) :
                  w[HeaderCells + j] = PackedPayload[j]
<1> DEFINE w == Written(PackedLen, FALSE)
<1>1. PackedLen = 5 + PayloadSize(build) /\ PayloadSize(build) \in Nat
  BY LayoutTyped DEF RetainTypeOK, PackedLen, HeaderCells
<1>2. /\ Len(w) >= PackedLen
      /\ \A i \in 1 .. PackedLen : w[i] = PackedCell(i)
  <2>1. PackedLen \in Nat /\ Len(store) \in Nat
    BY <1>1 DEF CrcInv
  <2>2. QED
    BY <2>1, WrittenCells
<1> HIDE DEF w
<1>3. \A j \in 1 .. 4 : w[j] = Header(build)[j]
  <2>1. \A j \in 1 .. 4 : w[j] = PackedCell(j)
    BY <1>1, <1>2
  <2>2. \A j \in 1 .. 4 : j < 5
    OBVIOUS
  <2>3. \A j : j < 5 => PackedCell(j) = Header(build)[j]
    BY DEF PackedCell, CrcCell
  <2>4. QED
    BY <2>1, <2>2, <2>3
<1>4. w[CrcCell] = Checksum(Header(build), PackedPayload)
  <2>1. PackedCell(CrcCell) = Checksum(Header(build), PackedPayload)
    BY DEF PackedCell, CrcCell
  <2>2. QED
    BY <1>1, <1>2, <2>1 DEF CrcCell
<1>5. ASSUME NEW j \in 1 .. PayloadSize(build)
      PROVE  w[HeaderCells + j] = PackedPayload[j]
  <2>1. w[5 + j] = PackedCell(5 + j)
    BY <1>1, <1>2
  <2>2. 5 + j > 5 /\ ~ (5 + j < 5) /\ 5 + j # 5 /\ (5 + j) - 5 = j
    BY <1>1
  <2>3. PackedCell(5 + j) = PackedPayload[(5 + j) - 5]
    BY <2>2 DEF PackedCell, CrcCell, HeaderCells
  <2>4. QED
    BY <2>1, <2>2, <2>3 DEF HeaderCells
<1>6. QED
  BY <1>2, <1>3, <1>4, <1>5 DEF w

LEMMA StepIntact == RetainTypeOK /\ CrcInv /\ IntactInv /\ [RetainNext]_storeVars => IntactInv'
<1> SUFFICES ASSUME RetainTypeOK, CrcInv, IntactInv, [RetainNext]_storeVars PROVE IntactInv'
  OBVIOUS
<1> DEFINE Whole(c, p, w) ==
             /\ Len(w) >= HeaderCells + PayloadSize(c)
             /\ \A j \in 1 .. 4 : w[j] = Header(c)[j]
             /\ w[CrcCell] = Checksum(Header(c), p)
             /\ \A j \in 1 .. PayloadSize(c) : w[HeaderCells + j] = p[j]
<1>1. IntactInv <=>
        (intact => \/ attempts = {}
                   \/ \E s, p : \E c \in Build :
                        attempts = {s} /\ Packs(s, c, p) /\ Whole(c, p, store))
  BY DEF IntactInv
<1>2. IntactInv' <=>
        (intact' => \/ attempts' = {}
                    \/ \E s, p : \E c \in Build :
                         attempts' = {s} /\ Packs(s, c, p) /\ Whole(c, p, store'))
  BY DEF IntactInv, Packs, Header, Checksum, Offset, PayloadSize, Leaves, LeafValue
<1>3. CASE Save
  <2>1. Layout[build] # <<>> /\ attempts' = {Snapshot}
        /\ store' = Written(PackedLen, FALSE)
    BY <1>3 DEF Save, MaySave
  <2>2. Whole(build, PackedPayload, store')
    BY <2>1, SaveWhole DEF PackedLen
  <2>3. Packs(Snapshot, build, PackedPayload) /\ build \in Build
    BY <2>1, SnapshotPacked DEF RetainTypeOK
  <2> HIDE DEF Whole
  <2>4. QED
    BY <1>2, <2>1, <2>2, <2>3
<1> HIDE DEF Whole
<1>4. ASSUME NEW n, NEW cut, TornSave(n, cut) PROVE IntactInv'
  BY <1>2, <1>4 DEF TornSave
<1>5. CASE Clear
  BY <1>2, <1>5 DEF Clear
<1>6. CASE UNCHANGED <<store, attempts, intact>>
  BY <1>1, <1>2, <1>6
<1>7. QED
  BY <1>3, <1>4, <1>5, <1>6 DEF RetainNext, storeVars, Write, PowerOff, Boot

\* A boot finds an uncut save of its own variables.
LEMMA IntactLoads ==
  ASSUME CrcInv, IntactInv, intact, NEW b \in Build, NEW s \in attempts,
         Contract!Fits(s, b), PayloadSize(b) < LenModulus
  PROVE  Load(b) = "Ok"
<1>1. PICK c \in Build : \E q :
        /\ Packs(s, c, q)
        /\ Len(store) >= HeaderCells + PayloadSize(c)
        /\ \A j \in 1 .. 4 : store[j] = Header(c)[j]
        /\ store[CrcCell] = Checksum(Header(c), q)
        /\ \A j \in 1 .. PayloadSize(c) : store[HeaderCells + j] = q[j]
  <2>1. PICK t, q : \E c \in Build :
          /\ attempts = {t}
          /\ Packs(t, c, q)
          /\ Len(store) >= HeaderCells + PayloadSize(c)
          /\ \A j \in 1 .. 4 : store[j] = Header(c)[j]
          /\ store[CrcCell] = Checksum(Header(c), q)
          /\ \A j \in 1 .. PayloadSize(c) : store[HeaderCells + j] = q[j]
    BY DEF IntactInv
  <2>2. t = s
    BY <2>1
  <2>3. QED
    BY <2>1, <2>2
<1>2. PICK p :
        /\ Packs(s, c, p)
        /\ Len(store) >= HeaderCells + PayloadSize(c)
        /\ \A j \in 1 .. 4 : store[j] = Header(c)[j]
        /\ store[CrcCell] = Checksum(Header(c), p)
        /\ \A j \in 1 .. PayloadSize(c) : store[HeaderCells + j] = p[j]
  BY <1>1
<1>3. Layout[c] = Layout[b] /\ Width[c] = Width[b]
  BY <1>2 DEF Packs, Contract!Fits
<1>4. PayloadSize(c) = PayloadSize(b) /\ Hash[c] = Hash[b]
  BY <1>3, HashAssumption DEF PayloadSize, Offset
<1>5. PayloadSize(b) \in Nat /\ PayloadSize(b) % LenModulus = PayloadSize(b)
  <2>1. PayloadSize(b) \in Nat /\ LenModulus \in Nat \ {0}
    BY LayoutTyped, RetainAssumption
  <2>2. QED
    BY <2>1
<1>6. /\ store[1] = Magic /\ store[2] = FormatVersion
      /\ store[3] = Hash[b] /\ store[4] = PayloadSize(b)
  <2>1. /\ Header(c)[1] = Magic /\ Header(c)[2] = FormatVersion
        /\ Header(c)[3] = Hash[b] /\ Header(c)[4] = PayloadSize(b)
    BY <1>4, <1>5 DEF Header
  <2>2. QED
    BY <1>2, <2>1
<1>7. StoredLen = PayloadSize(b)
  BY <1>5, <1>6, GarbageAssumption DEF StoredLen
<1>8. StoredHeader = Header(c)
  <2>1. StoredHeader = <<Magic, FormatVersion, Hash[b], PayloadSize(b)>>
    BY <1>6 DEF StoredHeader
  <2>2. Header(c) = <<Magic, FormatVersion, Hash[b], PayloadSize(b)>>
    BY <1>4, <1>5 DEF Header
  <2>3. QED
    BY <2>1, <2>2
<1>9. StoredPayload = p
  <2>1. p \in [1 .. PayloadSize(b) -> Byte]
    BY <1>2, <1>4 DEF Packs
  <2>2. \A j \in 1 .. PayloadSize(b) : store[HeaderCells + j] = p[j]
    BY <1>2, <1>4
  <2>3. StoredPayload = [j \in 1 .. PayloadSize(b) |-> p[j]]
    BY <1>7, <2>2 DEF StoredPayload
  <2>4. QED
    BY <2>1, <2>3
<1>10. CrcMatches
  <2>1. p \in [1 .. PayloadSize(c) -> Byte]
    BY <1>2 DEF Packs
  <2>2. Garbage # Checksum(Header(c), p)
    BY <2>1, GarbageAssumption
  <2>3. QED
    BY <1>2, <1>8, <1>9, <2>2 DEF CrcMatches
<1>11. Len(store) >= 5 /\ Len(store) - 5 >= PayloadSize(b) /\ Len(store) \in Nat
  BY <1>2, <1>4, <1>5 DEF HeaderCells, CrcInv
<1>12. store # <<>>
  <2>1. Len(<<>>) = 0
    OBVIOUS
  <2>2. QED
    BY <1>11, <2>1
<1>13. QED
  <2>1. ~ (Len(store) < HeaderCells) /\ ~ (Len(store) - HeaderCells < StoredLen)
    BY <1>5, <1>7, <1>11 DEF HeaderCells
  <2>2. QED
    BY <1>6, <1>7, <1>10, <1>12, <2>1 DEF Load
-----------------------------------------------------------------------------
(* Results. *)

Inv == RetainTypeOK /\ CrcInv /\ IntactInv

\* Together with its types and its crc, the store holds the last complete save
\* whole for as long as no later save was interrupted.
THEOREM Invariant == RetainSpec => []Inv
<1>1. RetainInit => Inv
  BY InitHolds DEF Inv, RetainInit, IntactInv
<1>2. Inv /\ [RetainNext]_storeVars => Inv'
  BY StepTyped, StepCrc, StepIntact DEF Inv
<1>3. QED
  BY <1>1, <1>2, PTL DEF RetainSpec

\* Constants read as declared after every boot.
THEOREM ConstantsAlways == RetainSpec => []ConstantsKeepDeclaration
<1>1. RetainInit => ConstantsKeepDeclaration
  BY DEF RetainInit, ConstantsKeepDeclaration, Cold
<1>2. RetainTypeOK /\ ConstantsKeepDeclaration /\ [RetainNext]_storeVars => ConstantsKeepDeclaration'
  <2> SUFFICES ASSUME RetainTypeOK, ConstantsKeepDeclaration, [RetainNext]_storeVars
               PROVE  ConstantsKeepDeclaration'
    OBVIOUS
  <2>1. ASSUME NEW l \in Leaves(build), NEW v, Write(l, v)
        PROVE  ConstantsKeepDeclaration'
    BY <2>1 DEF Write, RetainTypeOK, ConstantsKeepDeclaration, Leaves
  <2>2. ASSUME NEW b \in Build, Boot(b) PROVE ConstantsKeepDeclaration'
    BY <2>2 DEF Boot, ConstantsKeepDeclaration, Cold, Unpacked, Leaves
  <2>3. CASE UNCHANGED <<build, value>>
    BY <2>3 DEF ConstantsKeepDeclaration, Leaves
  <2>4. QED
    BY <2>1, <2>2, <2>3 DEF RetainNext, storeVars, Save, TornSave, PowerOff, Clear
<1>3. QED
  BY <1>1, <1>2, TypeCorrect, PTL DEF RetainSpec

\* StaleLayout is never the verdict on a torn write.
THEOREM StaleTold == RetainSpec => StaleMeansRecompiled
<1>1. CrcInv /\ [RetainNext]_storeVars => [StaleIsAnotherLayout]_storeVars
  <2> SUFFICES ASSUME CrcInv, RetainNext, ~on, on', result' = "StaleLayout"
               PROVE  \E s \in attempts : s.layout # Layout[build']
    BY DEF StaleIsAnotherLayout
  <2>1. PICK b \in Build : Boot(b)
    BY DEF RetainNext, Write, Save, TornSave, MaySave, PowerOff, Clear
  <2>2. Load(b) = "StaleLayout" /\ build' = b
    BY <2>1 DEF Boot
  <2>3. Len(store) >= CrcCell /\ CrcMatches /\ store[3] # Hash[b]
    BY <2>2 DEF Load, HeaderCells, CrcCell, CrcInv
  <2>4. PICK s \in attempts, c \in Build :
          \E p : Packs(s, c, p) /\ StoredHeader = Header(c)
    BY <2>3, CrcSound
  <2>5. store[3] = Hash[c]
    <3>1. StoredHeader[3] = Header(c)[3]
      BY <2>4
    <3>2. QED
      BY <3>1 DEF StoredHeader, Header
  <2>6. s.layout = Layout[c] /\ Layout[c] # Layout[b]
    BY <2>3, <2>4, <2>5, HashAssumption DEF Packs
  <2>7. QED
    BY <2>2, <2>6
<1>2. QED
  BY <1>1, CrcAlways, PTL DEF RetainSpec, StaleMeansRecompiled

\* pack and unpack keep the promise of RetainContract, through cut writes and
\* downloads, for every set of programs.
THEOREM RetainImplementsContract == RetainSpec => ImplementsContract
<1> USE DEF Contract!Leaves, Contract!Byte, Contract!LeafValue
<1>1. RetainInit => Contract!Init
  BY DEF RetainInit, Contract!Init, Cold, Contract!Cold, Leaves
<1>2. Inv /\ [RetainNext]_storeVars => [Contract!Next]_(Contract!vars)
  <2> SUFFICES ASSUME Inv, [RetainNext]_storeVars
               PROVE  Contract!Next \/ UNCHANGED Contract!vars
    OBVIOUS
  <2>1. ASSUME NEW l \in Leaves(build), NEW v \in LeafValue(build, l), Write(l, v)
        PROVE  Contract!Write
    BY <2>1 DEF Write, Contract!Write, Leaves, LeafValue, Byte
  <2>2. Contract!Snapshot = Snapshot
    BY DEF Snapshot, Contract!Snapshot, Seen, Contract!Seen, Zero,
           Contract!Zero, Leaves
  <2>3. ASSUME Save PROVE Contract!Save
    BY <2>2, <2>3 DEF Save, MaySave, Contract!Save
  <2>4. ASSUME NEW n, NEW cut, TornSave(n, cut) PROVE Contract!Interrupted
    BY <2>2, <2>4 DEF TornSave, MaySave, Contract!Interrupted
  <2>5. ASSUME PowerOff PROVE Contract!PowerOff
    BY <2>5 DEF PowerOff, Contract!PowerOff
  <2>6. ASSUME Clear PROVE Contract!Clear
    BY <2>6 DEF Clear, Contract!Clear
  <2>7. ASSUME NEW b \in Build, Boot(b) PROVE Contract!Boot(b)
    <3>1. /\ ~on /\ on' = TRUE /\ build' = b /\ UNCHANGED <<attempts, intact>>
          /\ value' = IF Load(b) = "Ok" THEN Unpacked(b) ELSE Cold(b)
      BY <2>7 DEF Boot
    <3>2. Cold(b) = Contract!Cold(b)
      BY DEF Cold, Contract!Cold, Leaves
    <3>3. CASE Load(b) = "Ok" /\ Layout[b] # <<>>
      <4>1. \E s \in attempts : Contract!Fits(s, b) /\ value' = Contract!Restored(s, b)
        BY <3>1, <3>3, LoadOkRestores DEF Inv
      <4>2. QED
        BY <3>1, <4>1 DEF Contract!Boot
    <3>4. CASE Layout[b] = <<>>
      <4>1. Leaves(b) = {}
        BY <3>4 DEF Leaves
      <4>2. value' = Contract!Cold(b)
        BY <3>1, <3>2, <4>1 DEF Unpacked, Cold
      <4>3. Contract!MayColdStart(b)
        BY <3>4 DEF Contract!MayColdStart, Contract!Fits, Inv, CrcInv
      <4>4. QED
        BY <3>1, <4>2, <4>3 DEF Contract!Boot
    <3>5. CASE Load(b) # "Ok"
      <4>1. Contract!MayColdStart(b)
        BY <3>5, IntactLoads DEF Contract!MayColdStart, Inv
      <4>2. QED
        BY <3>1, <3>2, <3>5, <4>1 DEF Contract!Boot
    <3>6. QED
      BY <3>3, <3>4, <3>5
  <2>8. CASE UNCHANGED storeVars
    BY <2>8 DEF storeVars, Contract!vars
  <2>9. QED
    BY <2>1, <2>3, <2>4, <2>5, <2>6, <2>7, <2>8 DEF RetainNext, Contract!Next
<1>3. QED
  BY <1>1, <1>2, Invariant, PTL DEF RetainSpec, ImplementsContract, Contract!Spec
=============================================================================
