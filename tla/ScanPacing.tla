----------------------------- MODULE ScanPacing -----------------------------
(***************************************************************************)
(* What a cyclic runtime promises about time: scans start one after        *)
(* another, the clock the programs read advances by one tick per scan, and *)
(* however late or long a scan was, a run of scans never happens much      *)
(* faster than the ticks it consumes.  A timer measures clock time, so     *)
(* this is what bounds how early it can elapse on the wall.                *)
(***************************************************************************)
EXTENDS Integers, Sequences

CONSTANT Tick

VARIABLES
  wall,    \* real time since the runtime started
  starts,  \* starts[k], the wall time scan k began at
  clock    \* __CURRENT_TIME_NS, what TIME() returns

vars == <<wall, starts, clock>>

Init ==
  /\ wall = 0
  /\ starts = <<>>
  /\ clock = 0

Pass ==
  /\ wall' \in Nat
  /\ wall' > wall
  /\ UNCHANGED <<starts, clock>>

\* Scan k + 1 may begin when k ticks have passed since the start, and k - i
\* since scan i began: one tick of jitter, never an accumulated burst.
Paced ==
  /\ wall >= Len(starts) * Tick
  /\ \A i \in 1 .. Len(starts) : wall >= starts[i] + (Len(starts) - i) * Tick

Start ==
  /\ clock = Len(starts) * Tick
  /\ Paced
  /\ starts' = Append(starts, wall)
  /\ UNCHANGED <<wall, clock>>

End ==
  /\ clock < Len(starts) * Tick
  /\ clock' = clock + Tick
  /\ UNCHANGED <<wall, starts>>

Next == Pass \/ Start \/ End

Spec == Init /\ [][Next]_vars
=============================================================================
