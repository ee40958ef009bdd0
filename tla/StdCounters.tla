---------------------------- MODULE StdCounters ----------------------------
(***************************************************************************)
(* CTU, CTD and CTUD over a long run of calls, with presets that change    *)
(* between them, and across power cycles that bring the instances back     *)
(* (RETAIN, see Retain) or start them cold.                                *)
(***************************************************************************)
EXTENDS Integers, StdBlocks

CONSTANTS
  CounterPresets,          \* values PV takes
  MinInt, MaxInt   \* the range of INT, DINT or the other types CV may have

ASSUME RangeAssumption ==
  /\ MinInt \in Int /\ MaxInt \in Int
  /\ MinInt <= 0 /\ 0 <= MaxInt
  /\ CounterPresets \subseteq MinInt .. MaxInt

VARIABLES
  ctu, ctd, ctud,  \* an instance of each, fed the same inputs
  last             \* history: the inputs of the last call since a cold start

counterVars == <<ctu, ctd, ctud, last>>

CounterInputs == [cu : BOOLEAN, cd : BOOLEAN, r : BOOLEAN, ld : BOOLEAN,
                  pv : CounterPresets]

CountersInit ==
  /\ ctu = NewCounter
  /\ ctd = NewCounter
  /\ ctud = NewCounter
  /\ last = {}

CountersCall(x) ==
  /\ ctu' = CtuCall(ctu, x.cu, x.r, x.pv)
  /\ ctd' = CtdCall(ctd, x.cd, x.ld, x.pv)
  /\ ctud' = CtudCall(ctud, x.cu, x.cd, x.r, x.ld, x.pv)
  /\ last' = {x}

\* A restart that restores retained instances leaves them as they were; one
\* that does not constructs them anew.
ColdStart ==
  /\ ctu' = NewCounter
  /\ ctd' = NewCounter
  /\ ctud' = NewCounter
  /\ last' = {}

CountersNext == ColdStart \/ \E x \in CounterInputs : CountersCall(x)

CountersSpec == CountersInit /\ [][CountersNext]_counterVars
-----------------------------------------------------------------------------
CounterType == [up : BOOLEAN, down : BOOLEAN, cv : MinInt .. MaxInt]

(* No run of edges, loads and changed presets takes a counter out of the    *)
(* range of its type, so CV never wraps (counter.st: CV < PV and CV > 0     *)
(* guard every step, also when PV has just been moved below CV).            *)
CountersTypeOK ==
  /\ ctu \in CounterType /\ ctd \in CounterType /\ ctud \in CounterType
  /\ last \subseteq CounterInputs

\* An input was at this level in the call before, or there was none.
Before(level, input(_)) == \A x \in last : input(x) = level

CU(x) == x.cu
CD(x) == x.cd

(* A counter moves up by one only in a call that sees CU TRUE after one     *)
(* that saw it FALSE, and down by one only in a call that sees CD FALSE     *)
(* after one that saw it TRUE, also when both edges come in one call, when  *)
(* the calls between were loads and resets, or when the instance was        *)
(* restored; CTD counts nothing in its first call.                          *)
CountsEdges ==
  \A x \in last' : ~x.r /\ ~x.ld /\ last' # {} =>
    /\ ctu'.cv > ctu.cv => x.cu /\ Before(FALSE, CU)
    /\ ctd'.cv < ctd.cv => ~x.cd /\ Before(TRUE, CD) /\ last # {}
    /\ ctud'.cv > ctud.cv => x.cu /\ Before(FALSE, CU)
    /\ ctud'.cv < ctud.cv => ~x.cd /\ Before(TRUE, CD) /\ last # {}

OneCountPerEdge == [][CountsEdges]_counterVars
=============================================================================
