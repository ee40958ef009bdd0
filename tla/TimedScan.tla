----------------------------- MODULE TimedScan -----------------------------
(***************************************************************************)
(* A timer inside the cyclic runner: program Owner calls a TON once in     *)
(* every scan it is due in, with the scan clock the runner advances, while *)
(* the world sees the wall clock.  Composes CyclicRunner with TonCall.     *)
(***************************************************************************)
EXTENDS CyclicRunner, StdBlocks

CONSTANTS
  Owner,  \* the program that holds the timer
  PT      \* its preset

ASSUME TimerAssumption ==
  /\ Owner \in Programs
  /\ PT \in Nat

VARIABLES
  ton,    \* the instance
  began   \* history: the wall time of the scan whose call began the wait

timedVars == <<vars, ton, began>>

TInit ==
  /\ Init
  /\ ton = NewTimer
  /\ began = 0

\* The wall time the scan in progress began at.
ThisScan == starts[Len(starts)]

\* The body of the owner, once per due scan.
CallTimer(in) ==
  /\ ton' = TonCall(ton, in, PT, plcTime)
  /\ began' = IF ton.state = 0 /\ in THEN ThisScan ELSE began

TimedProgram(in) ==
  /\ RunProgram
  /\ IF prog = Owner /\ Due(prog)
       THEN CallTimer(in)
       ELSE UNCHANGED <<ton, began>>

TNext ==
  \/ \E in \in BOOLEAN : TimedProgram(in)
  \/ /\ StartScan \/ Stop \/ EndScan \/ Wake \/ Signal \/ Pass
     /\ UNCHANGED <<ton, began>>

TSpec == TInit /\ [][TNext]_timedVars

\* The loop and the clock go on, as in CyclicRunner; a call of the timer is
\* part of the loop's step.
TFairSpec == TSpec /\ Fairness
-----------------------------------------------------------------------------
(* However the scans are delayed or overrun, a TON is never TRUE on the     *)
(* wall more than one common tick before PT has passed there: the scan      *)
(* clock cannot run ahead of the wall between any two scans.                *)
NeverEarly ==
  ~ton.q /\ ton'.q => ThisScan >= began + PT - CommonTick

ElapsesInWallTime == [][NeverEarly]_timedVars
=============================================================================
