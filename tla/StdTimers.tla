----------------------------- MODULE StdTimers -----------------------------
(***************************************************************************)
(* TON, TOF and TP called by a program whenever it pleases: several times  *)
(* in a scan, once, or not for many scans, with inputs and presets that    *)
(* change from call to call, while the scan clock advances and the power   *)
(* cycles.  Each timer is compared with what its whole history of calls    *)
(* says it should show.                                                    *)
(***************************************************************************)
EXTENDS Integers, Sequences, StdBlocks

CONSTANTS
  TimerPresets,    \* values PT takes
  Retained,  \* whether the instances are declared RETAIN
  MaxTime,   \* bound: the scan clock
  MaxCalls   \* bound: calls of the blocks

ASSUME TimerPresetAssumption ==
  /\ TimerPresets \subseteq Int
  /\ Retained \in BOOLEAN

VARIABLES
  now,    \* __CURRENT_TIME_NS
  ton, tof, tp,  \* an instance of each block, fed the same inputs
  calls   \* history: every call since power-up, its inputs and its time

timerVars == <<now, ton, tof, tp, calls>>

TimersInit ==
  /\ now = 0
  /\ ton = NewTimer
  /\ tof = NewTimer
  /\ tp = NewTimer
  /\ calls = <<>>

TimersCall(in, pt) ==
  /\ Len(calls) < MaxCalls
  /\ ton' = TonCall(ton, in, pt, now)
  /\ tof' = TofCall(tof, in, pt, now)
  /\ tp' = TpCall(tp, in, pt, now)
  /\ calls' = Append(calls, [in |-> in, pt |-> pt, at |-> now])
  /\ UNCHANGED now

ClockAdvances ==
  /\ now < MaxTime
  /\ now' = now + 1
  /\ UNCHANGED <<ton, tof, tp, calls>>

\* The clock counts from power-up.  A retained instance comes back whole, its
\* internal variables included; another one is constructed.
AfterRestart(t) == IF Retained THEN t ELSE NewTimer

PowerCycle ==
  /\ now' = 0
  /\ ton' = AfterRestart(ton)
  /\ tof' = AfterRestart(tof)
  /\ tp' = AfterRestart(tp)
  /\ calls' = <<>>

TimersNext ==
  \/ ClockAdvances \/ PowerCycle
  \/ \E in \in BOOLEAN, pt \in TimerPresets : TimersCall(in, pt)

TimersSpec == TimersInit /\ [][TimersNext]_timerVars
-----------------------------------------------------------------------------
(* What a history h of calls says. *)

\* IN has been at this level in every call from f on, and not before.
RunFrom(h, f, level) ==
  /\ f \in 1 .. Len(h)
  /\ \A j \in f .. Len(h) : h[j].in = level
  /\ f > 1 => h[f - 1].in # level

\* Calls after f that found the preset they were given elapsed since f.
Expiries(h, f) == {j \in f + 1 .. Len(h) : h[f].at + h[j].pt <= h[j].at}

FirstExpiry(h, f) ==
  CHOOSE j \in Expiries(h, f) : \A k \in Expiries(h, f) : j <= k

\* What a delay started by call f shows: its output, and ET.
Delayed(h, t, f, atFirst, atLast) ==
  IF Expiries(h, f) = {}
    THEN t.q = atFirst /\ t.et = h[Len(h)].at - h[f].at
    ELSE t.q = atLast /\ t.et = h[FirstExpiry(h, f)].pt

TimerType ==
  [state : 0 .. 2, prev : BOOLEAN, start : Int, q : BOOLEAN, et : Int]

CallType == [in : BOOLEAN, pt : TimerPresets, at : Nat]

TimersTypeOK ==
  /\ now \in Nat
  /\ ton \in TimerType /\ tof \in TimerType /\ tp \in TimerType
  /\ calls \in Seq(CallType)

(* TON is TRUE exactly when IN has been TRUE in every call since some call, *)
(* and a later one found its preset elapsed since then; ET is the time      *)
(* since then, or the preset that elapsed (timer.st, TON).  Calls that are  *)
(* skipped, repeated in one scan or given a changed PT make no difference.  *)
TonShows(h, t) ==
  /\ Len(h) = 0 \/ ~h[Len(h)].in => ~t.q /\ t.et = 0
  /\ \A f \in 1 .. Len(h) : RunFrom(h, f, TRUE) => Delayed(h, t, f, FALSE, TRUE)

TonFollowsHistory == ~Retained => TonShows(calls, ton)

(* TOF is TRUE while IN is, and after its falling edge until a call finds   *)
(* the preset elapsed; it is FALSE as long as IN was never TRUE.            *)
TofShows(h, t) ==
  /\ Len(h) > 0 /\ h[Len(h)].in => t.q /\ t.et = 0
  /\ \A f \in 1 .. Len(h) : RunFrom(h, f, FALSE) =>
       IF f = 1 THEN ~t.q /\ t.et = 0 ELSE Delayed(h, t, f, TRUE, FALSE)

TofFollowsHistory == ~Retained => TofShows(calls, tof)

\* A call starts a pulse when it sees a rising edge and an earlier call saw
\* the end of every pulse before it.
Rising(h, k) == h[k].in /\ (k = 1 \/ ~h[k - 1].in)

PulseStarts(h) ==
  LET starts[k \in 1 .. Len(h)] ==
        /\ Rising(h, k)
        /\ \A g \in 1 .. k - 1 :
             starts[g] => \E j \in Expiries(h, g) : j < k
  IN  {k \in 1 .. Len(h) : starts[k]}

(* TP is TRUE from a rising edge until a call finds the preset elapsed,     *)
(* whatever IN does meanwhile; an edge during the pulse, or in the very     *)
(* call that ends it, starts none.                                          *)
TpFollowsHistory ==
  ~Retained =>
    (tp.q <=> \E g \in PulseStarts(calls) : Expiries(calls, g) = {})

(* A timer that is timing began in the past, so that ET is a time that has  *)
(* passed and the wait ends after PT.  The tests of the retain table ask    *)
(* this of a restored timer: it must not come back in a state it could      *)
(* never have reached by running.                                           *)
BeganInThePast ==
  \A t \in {ton, tof, tp} : t.state = 1 => t.start <= now
=============================================================================
