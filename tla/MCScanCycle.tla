---------------------------- MODULE MCScanCycle ----------------------------
(***************************************************************************)
(* The programs and located tables ScanCycle is checked with.              *)
(***************************************************************************)
EXTENDS ScanCycle

Row(area, size, byte, bit) ==
  [area |-> area, size |-> size, byteIndex |-> byte, bitIndex |-> bit]

(* A start button, a flag and a lamp: the first program reads the button   *)
(* and drives the flag, the second turns the flag into the lamp.  Of the   *)
(* constants both read, "limit" has no address and "preset" is a marker.   *)
BitTable == <<"start", "flag", "lamp", "preset">>

BitDesc ==
  [start  |-> Row("Input", "Bit", 0, 0),
   flag   |-> Row("Memory", "Bit", 0, 0),
   lamp   |-> Row("Output", "Bit", 0, 0),
   preset |-> Row("Memory", "Bit", 0, 1)]

TwoPrograms ==
  <<{"start", "flag", "limit", "preset"}, {"flag", "lamp", "limit", "preset"}>>

BitDeclared ==
  [v \in Var |-> [k \in {0} |-> IF v \in Constants THEN 1 ELSE 0]]

(* Two marker words at %MW0 and %MW1, which the compiler accepts as          *)
(* different slots of one bank.                                             *)
WordTable == <<"speed", "count">>

NextSlotDesc ==
  [speed |-> Row("Memory", "Word", 0, 0), count |-> Row("Memory", "Word", 1, 0)]

WordProgram  == <<{"speed", "count"}>>
WordDeclared == [v \in Var |-> [k \in 0 .. 1 |-> 0]]

(* What the compiler checks of a table before it accepts it.               *)
ASSUME SlotsApart ==
  \A v, w \in Located :
    v # w => Bank(Desc[v]) # Bank(Desc[w])
             \/ FirstSlot(Desc[v]) # FirstSlot(Desc[w])
=============================================================================
