----------------------------- MODULE StdBlocks -----------------------------
(***************************************************************************)
(* The standard function blocks (libs/sources/iec-standard-fb), each as    *)
(* the function one call computes from the instance's variables and its    *)
(* inputs.  Times are nanoseconds of the scan clock, now is what TIME()    *)
(* returns during the call.                                                *)
(***************************************************************************)
EXTENDS Integers

-----------------------------------------------------------------------------
(* Timers. *)

NewTimer == [state |-> 0, prev |-> FALSE, start |-> 0, q |-> FALSE, et |-> 0]

Elapsed(t, pt, now) == t.start + pt <= now

\* TON, after IN's history is noted.
TonRestartable(t, in, pt, now) ==
  LET s == [t EXCEPT !.prev = in]
  IN  IF ~t.prev /\ in THEN [s EXCEPT !.state = 1, !.q = FALSE, !.start = now]
      ELSE IF ~in THEN [s EXCEPT !.state = 0, !.q = FALSE]
      ELSE IF t.state = 1 /\ Elapsed(t, pt, now)
        THEN [s EXCEPT !.state = 2, !.q = TRUE, !.et = pt]
      ELSE IF t.state = 1 THEN [s EXCEPT !.et = now - t.start]
      ELSE s
TonCall(t, in, pt, now) ==
  LET s == [t EXCEPT !.prev = in]
  IN  IF t.state = 0 /\ ~t.prev /\ in
        THEN [s EXCEPT !.state = 1, !.q = FALSE, !.start = now]
      ELSE IF ~in THEN [s EXCEPT !.state = 0, !.q = FALSE, !.et = 0]
      ELSE IF t.state = 1 /\ Elapsed(t, pt, now)
        THEN [s EXCEPT !.state = 2, !.q = TRUE, !.et = pt]
      ELSE IF t.state = 1 THEN [s EXCEPT !.et = now - t.start]
      ELSE s

TofNotReset(t, in, pt, now) ==
  LET s == [t EXCEPT !.prev = in]
  IN  IF t.state = 0 /\ t.prev /\ ~in
        THEN [s EXCEPT !.state = 1, !.start = now]
      ELSE IF in THEN [s EXCEPT !.q = TRUE, !.et = 0]
      ELSE IF t.state = 1 /\ Elapsed(t, pt, now)
        THEN [s EXCEPT !.state = 2, !.q = FALSE, !.et = pt]
      ELSE IF t.state = 1
        THEN [s EXCEPT !.q = TRUE, !.et = now - t.start]
      ELSE s
TofCall(t, in, pt, now) ==
  LET s == [t EXCEPT !.prev = in]
  IN  IF t.state = 0 /\ t.prev /\ ~in
        THEN [s EXCEPT !.state = 1, !.start = now]
      ELSE IF in THEN [s EXCEPT !.state = 0, !.q = TRUE, !.et = 0]
      ELSE IF t.state = 1 /\ Elapsed(t, pt, now)
        THEN [s EXCEPT !.state = 2, !.q = FALSE, !.et = pt]
      ELSE IF t.state = 1
        THEN [s EXCEPT !.q = TRUE, !.et = now - t.start]
      ELSE s

\* The first IF of TP.
TpPulse(t, in, pt, now) ==
  IF t.state = 0 /\ ~t.prev /\ in
    THEN [t EXCEPT !.state = 1, !.q = TRUE, !.start = now]
  ELSE IF t.state = 1 /\ Elapsed(t, pt, now)
    THEN [t EXCEPT !.state = 2, !.q = FALSE, !.et = pt]
  ELSE IF t.state = 1 THEN [t EXCEPT !.et = now - t.start]
  ELSE t

TpReleasesEarly(t, in, pt, now) ==
  LET s == [TpPulse(t, in, pt, now) EXCEPT !.prev = in]
  IN  IF ~in /\ s.state # 0 THEN [s EXCEPT !.state = 0, !.et = 0] ELSE s
TpCall(t, in, pt, now) ==
  LET s == [TpPulse(t, in, pt, now) EXCEPT !.prev = in]
  IN  IF ~in /\ s.state = 2 THEN [s EXCEPT !.state = 0, !.et = 0] ELSE s
-----------------------------------------------------------------------------
(* Edges: Q from the old M, and the new M. *)

RTrigQ(m, clk) == clk /\ ~m
RTrigM(clk)    == clk

FTrigQ(m, clk) == ~clk /\ ~m
FTrigM(clk)    == ~clk
-----------------------------------------------------------------------------
(* Counters; up and down are the M of the triggers an instance holds. *)

NewCounter == [up |-> FALSE, down |-> TRUE, cv |-> 0]

CountUpPastPreset(edge, cv, pv) == IF edge THEN cv + 1 ELSE cv
CountUp(edge, cv, pv)           == IF edge /\ cv < pv THEN cv + 1 ELSE cv
CountDown(edge, cv)             == IF edge /\ cv > 0 THEN cv - 1 ELSE cv

CtuCall(c, cu, r, pv) ==
  [up   |-> RTrigM(cu),
   down |-> c.down,
   cv   |-> IF r THEN 0 ELSE CountUp(RTrigQ(c.up, cu), c.cv, pv)]

CtdCall(c, cd, ld, pv) ==
  [up   |-> c.up,
   down |-> FTrigM(cd),
   cv   |-> IF ld THEN pv ELSE CountDown(FTrigQ(c.down, cd), c.cv)]

\* The triggers run only when the counter may count.
CtudTriggersLast(c, cu, cd, r, ld, pv) ==
  IF r THEN [c EXCEPT !.cv = 0]
  ELSE IF ld THEN [c EXCEPT !.cv = pv]
  ELSE [up   |-> RTrigM(cu),
        down |-> FTrigM(cd),
        cv   |-> CountDown(FTrigQ(c.down, cd),
                           CountUp(RTrigQ(c.up, cu), c.cv, pv))]
CtudCall(c, cu, cd, r, ld, pv) ==
  [up   |-> RTrigM(cu),
   down |-> FTrigM(cd),
   cv   |-> IF r THEN 0
            ELSE IF ld THEN pv
            ELSE CountDown(FTrigQ(c.down, cd),
                           CountUp(RTrigQ(c.up, cu), c.cv, pv))]
=============================================================================
