--------------------------- MODULE LocatedAddress ---------------------------
(***************************************************************************)
(* Directly represented variables (AT %IX0.0, %QW10, %MD100): the address  *)
(* the compiler parses, the slot it reserves for it, and the cells of the  *)
(* run-time image the scan copies it to and from.                          *)
(*                                                                         *)
(* The two views differ.  The compiler keeps one array of slots per area   *)
(* and size class (src/semantic/analyzer.ts, bankKey and firstSlot); the   *)
(* interactive and cyclic runners keep one flat byte buffer per area       *)
(* (src/runtime/include/iec_located.hpp).  ByteBits is the number of bits  *)
(* in a byte, 8 in the code.                                               *)
(***************************************************************************)
EXTENDS Naturals

CONSTANT ByteBits

ASSUME ByteBitsAssumption == ByteBits \in Nat \ {0}

Area == {"Input", "Output", "Memory"}
Size == {"Bit", "Byte", "Word", "DWord", "LWord"}

\* One row of locatedVars[].
Descriptor ==
  [area : Area, size : Size, byteIndex : Nat, bitIndex : Nat]

ByteSize(size) ==
  CASE size = "Bit"   -> 0
    [] size = "Byte"  -> 1
    [] size = "Word"  -> 2
    [] size = "DWord" -> 4
    [] size = "LWord" -> 8

-----------------------------------------------------------------------------
(* The compiler's view. *)

Bank(d) == <<d.area, d.size>>

FirstSlot(d) ==
  IF d.size = "Bit" THEN d.byteIndex * ByteBits + d.bitIndex ELSE d.byteIndex

-----------------------------------------------------------------------------
(* The runners' view: the bits of the area's buffer a row stands for. *)

FirstCell(d) ==
  d.byteIndex * ByteBits + IF d.size = "Bit" THEN d.bitIndex ELSE 0

Width(d) == IF d.size = "Bit" THEN 1 ELSE ByteSize(d.size) * ByteBits

Cells(d) == {FirstCell(d) + k : k \in 0 .. Width(d) - 1}

\* Two rows whose copies touch a common bit of one buffer.
Overlap(d, e) == d.area = e.area /\ Cells(d) \cap Cells(e) # {}
=============================================================================
