--------------------------- MODULE Library_proof ---------------------------
(***************************************************************************)
(* The blocks of the libraries: what the counters and timers show follows  *)
(* from the history of their calls, and the motion blocks change the mode  *)
(* of an axis only while it is not enabled.                                *)
(***************************************************************************)
EXTENDS StdCounters, StdTimers, MotionAxis, WellFoundedInduction, TLAPS
-----------------------------------------------------------------------------
(* The counters.                                                           *)

\* Counting stays within the range, whatever CV and PV are in it.
LEMMA CountTyped ==
  ASSUME NEW cv \in MinInt .. MaxInt, NEW pv \in CounterPresets, NEW e \in BOOLEAN
  PROVE  /\ CountUp(e, cv, pv) \in MinInt .. MaxInt
         /\ CountDown(e, cv) \in MinInt .. MaxInt
         /\ pv \in MinInt .. MaxInt
         /\ 0 \in MinInt .. MaxInt
BY RangeAssumption DEF CountUp, CountDown

LEMMA EdgesTyped ==
  ASSUME NEW m, NEW clk
  PROVE  RTrigQ(m, clk) \in BOOLEAN /\ FTrigQ(m, clk) \in BOOLEAN
BY DEF RTrigQ, FTrigQ

\* A call keeps a counter a counter.
LEMMA CallTyped ==
  ASSUME NEW c \in CounterType, NEW x \in CounterInputs
  PROVE  /\ CtuCall(c, x.cu, x.r, x.pv) \in CounterType
         /\ CtdCall(c, x.cd, x.ld, x.pv) \in CounterType
         /\ CtudCall(c, x.cu, x.cd, x.r, x.ld, x.pv) \in CounterType
<1>1. /\ x.cu \in BOOLEAN /\ x.cd \in BOOLEAN
      /\ x.r \in BOOLEAN /\ x.ld \in BOOLEAN /\ x.pv \in CounterPresets
  BY DEF CounterInputs
<1>2. /\ c.up \in BOOLEAN /\ c.down \in BOOLEAN /\ c.cv \in MinInt .. MaxInt
      /\ c = [up |-> c.up, down |-> c.down, cv |-> c.cv]
  BY DEF CounterType
<1>3. RTrigM(x.cu) \in BOOLEAN /\ FTrigM(x.cd) \in BOOLEAN
  BY <1>1 DEF RTrigM, FTrigM
<1> DEFINE up   == CountUp(RTrigQ(c.up, x.cu), c.cv, x.pv)
           down == CountDown(FTrigQ(c.down, x.cd), c.cv)
           both == CountDown(FTrigQ(c.down, x.cd), up)
<1>4. /\ up \in MinInt .. MaxInt /\ down \in MinInt .. MaxInt
      /\ 0 \in MinInt .. MaxInt /\ x.pv \in MinInt .. MaxInt
  BY <1>1, <1>2, CountTyped, EdgesTyped
<1>5. both \in MinInt .. MaxInt
  BY <1>1, <1>4, CountTyped, EdgesTyped
<1> HIDE DEF up, down, both
<1>6. CtuCall(c, x.cu, x.r, x.pv) \in CounterType
  <2>1. CtuCall(c, x.cu, x.r, x.pv) =
          [up |-> RTrigM(x.cu), down |-> c.down, cv |-> IF x.r THEN 0 ELSE up]
    BY DEF CtuCall, up
  <2>2. QED
    BY <1>2, <1>3, <1>4, <2>1 DEF CounterType
<1>7. CtdCall(c, x.cd, x.ld, x.pv) \in CounterType
  <2>1. CtdCall(c, x.cd, x.ld, x.pv) =
          [up |-> c.up, down |-> FTrigM(x.cd), cv |-> IF x.ld THEN x.pv ELSE down]
    BY DEF CtdCall, down
  <2>2. QED
    BY <1>2, <1>3, <1>4, <2>1 DEF CounterType
<1>8. CtudCall(c, x.cu, x.cd, x.r, x.ld, x.pv) \in CounterType
  BY <1>3, <1>4, <1>5 DEF CtudCall, CounterType, up, both
<1>9. QED
  BY <1>6, <1>7, <1>8

LEMMA NewTyped == NewCounter \in CounterType
BY RangeAssumption DEF NewCounter, CounterType

LEMMA CountersStepTyped == CountersTypeOK /\ [CountersNext]_counterVars => CountersTypeOK'
<1> SUFFICES ASSUME CountersTypeOK, [CountersNext]_counterVars PROVE CountersTypeOK'
  OBVIOUS
<1>1. CASE ColdStart
  BY <1>1, NewTyped DEF ColdStart, CountersTypeOK
<1>2. ASSUME NEW x \in CounterInputs, CountersCall(x) PROVE CountersTypeOK'
  BY <1>2, CallTyped DEF CountersCall, CountersTypeOK
<1>3. CASE UNCHANGED counterVars
  BY <1>3 DEF counterVars, CountersTypeOK
<1>4. QED
  BY <1>1, <1>2, <1>3 DEF CountersNext

\* CV never leaves the range of its type.
THEOREM CountersTypeCorrect == CountersSpec => []CountersTypeOK
<1>1. CountersInit => CountersTypeOK
  BY NewTyped DEF CountersInit, CountersTypeOK
<1>2. QED
  BY <1>1, CountersStepTyped, PTL DEF CountersSpec
-----------------------------------------------------------------------------
\* The triggers remember the last call, or stand as constructed.
Remembers ==
  /\ last = {} =>
       /\ ~ctu.up /\ ~ctud.up
       /\ ctd.down /\ ctud.down
  /\ \A x \in last :
       /\ last = {x}
       /\ (ctu.up <=> x.cu) /\ (ctud.up <=> x.cu)
       /\ (ctd.down <=> ~x.cd) /\ (ctud.down <=> ~x.cd)

LEMMA StepRemembers == CountersTypeOK /\ Remembers /\ [CountersNext]_counterVars => Remembers'
<1> SUFFICES ASSUME CountersTypeOK, Remembers, [CountersNext]_counterVars PROVE Remembers'
  OBVIOUS
<1>1. CASE ColdStart
  BY <1>1 DEF ColdStart, Remembers, NewCounter
<1>2. ASSUME NEW x \in CounterInputs, CountersCall(x) PROVE Remembers'
  <2>1. /\ ctu'.up = x.cu /\ ctud'.up = x.cu
        /\ ctd'.down = ~x.cd /\ ctud'.down = ~x.cd
    BY <1>2 DEF CountersCall, CtuCall, CtdCall, CtudCall, RTrigM, FTrigM, CountersTypeOK,
                CounterType
  <2>2. last' = {x}
    BY <1>2 DEF CountersCall
  <2>3. QED
    BY <2>1, <2>2, Zenon DEF Remembers
<1>3. CASE UNCHANGED counterVars
  BY <1>3 DEF counterVars, Remembers
<1>4. QED
  BY <1>1, <1>2, <1>3 DEF CountersNext

LEMMA MovesUp ==
  ASSUME NEW cv \in Int, NEW pv \in Int, NEW e
  PROVE  CountUp(e, cv, pv) > cv => e
BY DEF CountUp

LEMMA CountMoves ==
  ASSUME NEW cv \in Int, NEW pv \in Int, NEW e, NEW d
  PROVE  /\ CountDown(e, cv) < cv => e
         /\ CountDown(d, CountUp(e, cv, pv)) > cv => e
         /\ CountDown(d, CountUp(e, cv, pv)) < cv => d
BY DEF CountUp, CountDown

\* Every count is one edge of the input, last in two successive calls.
THEOREM EdgesCounted == CountersSpec => OneCountPerEdge
<1>1. CountersInit => CountersTypeOK /\ Remembers
  BY NewTyped DEF CountersInit, CountersTypeOK, Remembers, NewCounter
<1>2. CountersTypeOK /\ Remembers /\ [CountersNext]_counterVars => (CountersTypeOK /\ Remembers)'
  BY CountersStepTyped, StepRemembers
<1>3. CountersTypeOK /\ Remembers /\ [CountersNext]_counterVars => [CountsEdges]_counterVars
  <2> SUFFICES ASSUME CountersTypeOK, Remembers, CountersNext PROVE CountsEdges
    BY Zenon
  <2>1. CASE ColdStart
    BY <2>1 DEF ColdStart, CountsEdges
  <2>2. ASSUME NEW x \in CounterInputs, CountersCall(x) PROVE CountsEdges
    <3> SUFFICES ASSUME ~x.r, ~x.ld
                 PROVE  /\ ctu'.cv > ctu.cv => x.cu /\ Before(FALSE, CU)
                        /\ ctd'.cv < ctd.cv =>
                             ~x.cd /\ Before(TRUE, CD) /\ last # {}
                        /\ ctud'.cv > ctud.cv => x.cu /\ Before(FALSE, CU)
                        /\ ctud'.cv < ctud.cv =>
                             ~x.cd /\ Before(TRUE, CD) /\ last # {}
      BY <2>2 DEF CountersCall, CountsEdges
    <3>1. /\ ctu.cv \in Int /\ ctd.cv \in Int /\ ctud.cv \in Int /\ x.pv \in Int
      <4>1. /\ ctu.cv \in MinInt .. MaxInt /\ ctd.cv \in MinInt .. MaxInt
            /\ ctud.cv \in MinInt .. MaxInt
        BY DEF CountersTypeOK, CounterType
      <4>2. x.pv \in MinInt .. MaxInt
        BY RangeAssumption DEF CounterInputs
      <4>3. QED
        BY <4>1, <4>2, RangeAssumption
    <3>2. /\ ctu'.cv = CountUp(RTrigQ(ctu.up, x.cu), ctu.cv, x.pv)
          /\ ctd'.cv = CountDown(FTrigQ(ctd.down, x.cd), ctd.cv)
          /\ ctud'.cv = CountDown(FTrigQ(ctud.down, x.cd),
                                  CountUp(RTrigQ(ctud.up, x.cu), ctud.cv, x.pv))
      BY <2>2 DEF CountersCall, CtuCall, CtdCall, CtudCall, CountersTypeOK, CounterType
    <3>3. /\ ctu'.cv > ctu.cv => RTrigQ(ctu.up, x.cu)
          /\ ctd'.cv < ctd.cv => FTrigQ(ctd.down, x.cd)
          /\ ctud'.cv > ctud.cv => RTrigQ(ctud.up, x.cu)
          /\ ctud'.cv < ctud.cv => FTrigQ(ctud.down, x.cd)
      <4>1. ctu'.cv > ctu.cv => RTrigQ(ctu.up, x.cu)
        BY <3>1, <3>2, MovesUp
      <4>2. ctd'.cv < ctd.cv => FTrigQ(ctd.down, x.cd)
        BY <3>1, <3>2, CountMoves
      <4>3. ctud'.cv > ctud.cv => RTrigQ(ctud.up, x.cu)
        BY <3>1, <3>2, CountMoves
      <4>4. ctud'.cv < ctud.cv => FTrigQ(ctud.down, x.cd)
        BY <3>1, <3>2, CountMoves
      <4>5. QED
        BY <4>1, <4>2, <4>3, <4>4
    <3>4. \A y \in last : y.cu \in BOOLEAN /\ y.cd \in BOOLEAN
      BY DEF CountersTypeOK, CounterInputs
    <3>5. /\ RTrigQ(ctu.up, x.cu) => x.cu /\ Before(FALSE, CU)
          /\ RTrigQ(ctud.up, x.cu) => x.cu /\ Before(FALSE, CU)
      BY <3>4, Zenon DEF RTrigQ, Remembers, Before, CU
    <3>6. /\ FTrigQ(ctd.down, x.cd) => ~x.cd /\ Before(TRUE, CD) /\ last # {}
          /\ FTrigQ(ctud.down, x.cd) => ~x.cd /\ Before(TRUE, CD) /\ last # {}
      BY <3>4, Zenon DEF FTrigQ, Remembers, Before, CD
    <3>7. QED
      BY <3>3, <3>5, <3>6
  <2>3. QED
    BY <2>1, <2>2 DEF CountersNext
<1>4. QED
  BY <1>1, <1>2, <1>3, PTL DEF CountersSpec, OneCountPerEdge
-----------------------------------------------------------------------------
(* The timers: a history of calls with one more call.                      *)

NatLess == {p \in Nat \X Nat : p[1] < p[2]}

LEMMA LeastElement ==
  ASSUME NEW S \in SUBSET Nat, S # {}
  PROVE  \E x \in S : \A y \in S : x <= y
<1>1. IsWellFoundedOn(NatLess, Nat)
  BY NatLessThanWellFounded DEF OpToRel, NatLess
<1>2. PICK x \in S : \A y \in S : ~(<<y, x>> \in NatLess)
  BY <1>1, WFMin
<1>3. ASSUME NEW y \in S PROVE x <= y
  <2>1. x \in Nat /\ y \in Nat
    OBVIOUS
  <2>2. ~(y < x)
    BY <1>2, <2>1 DEF NatLess
  <2> QED BY <2>1, <2>2
<1> QED BY <1>3

LEMMA OneMoreCall ==
  ASSUME NEW h \in Seq(CallType), NEW c \in CallType
  PROVE  /\ Len(h) \in Nat /\ Len(Append(h, c)) = Len(h) + 1
         /\ \A i \in 1 .. Len(h) : Append(h, c)[i] = h[i] /\ h[i] \in CallType
         /\ Append(h, c)[Len(h) + 1] = c
         /\ Append(h, c) \in Seq(CallType)
OBVIOUS

LEMMA CallFields ==
  ASSUME NEW c \in CallType
  PROVE  c.in \in BOOLEAN /\ c.pt \in Int /\ c.at \in Nat
BY TimerPresetAssumption DEF CallType

\* A run of calls at one level either begins with the last call or goes on.
LEMMA RunsGrow ==
  ASSUME NEW h \in Seq(CallType), NEW c \in CallType, NEW level \in BOOLEAN,
         NEW f, RunFrom(Append(h, c), f, level)
  PROVE  /\ c.in = level
         /\ \/ /\ f = Len(h) + 1
               /\ Len(h) > 0 => h[Len(h)].in # level
            \/ /\ f \in 1 .. Len(h) /\ RunFrom(h, f, level)
               /\ h[Len(h)].in = level
<1> DEFINE n == Len(h)
           g == Append(h, c)
<1>1. /\ n \in Nat /\ Len(g) = n + 1 /\ g[n + 1] = c
      /\ \A i \in 1 .. n : g[i] = h[i]
  BY OneMoreCall
<1> HIDE DEF n, g
<1>2. /\ f \in 1 .. n + 1 /\ \A j \in f .. n + 1 : g[j].in = level
      /\ f > 1 => g[f - 1].in # level
  BY <1>1 DEF RunFrom, g
<1>3. c.in = level
  BY <1>1, <1>2
<1>4. CASE f = n + 1
  <2>1. n > 0 => g[n] = h[n] /\ f - 1 = n
    BY <1>1, <1>4
  <2> QED BY <1>1, <1>2, <1>3, <1>4, <2>1 DEF n
<1>5. CASE f \in 1 .. n
  <2>1. n \in f .. n + 1 /\ n \in 1 .. n
    BY <1>1, <1>5
  <2>2. h[n].in = level
    BY <1>1, <1>2, <2>1
  <2>3. \A j \in f .. n : h[j].in = level
    <3> SUFFICES ASSUME NEW j \in f .. n
                 PROVE  h[j].in = level
      OBVIOUS
    <3>1. j \in 1 .. n /\ j \in f .. n + 1
      BY <1>1, <1>5
    <3> QED BY <1>1, <1>2, <3>1
  <2>4. f > 1 => h[f - 1].in # level
    <3>1. f > 1 => f - 1 \in 1 .. n
      BY <1>1, <1>5
    <3> QED BY <1>1, <1>2, <3>1
  <2> QED BY <1>3, <1>5, <2>2, <2>3, <2>4 DEF RunFrom, n
<1> QED BY <1>1, <1>2, <1>4, <1>5

LEMMA RunsStart ==
  ASSUME NEW h \in Seq(CallType), NEW c \in CallType, NEW level \in BOOLEAN,
         NEW f, RunFrom(Append(h, c), f, level),
         Len(h) > 0 => h[Len(h)].in # level
  PROVE  f = Len(h) + 1
<1>1. \/ f = Len(h) + 1
      \/ f \in 1 .. Len(h) /\ h[Len(h)].in = level
  BY RunsGrow
<1>2. f \in 1 .. Len(h) => Len(h) > 0
  BY OneMoreCall
<1> QED BY <1>1, <1>2

LEMMA ExpiriesGrow ==
  ASSUME NEW h \in Seq(CallType), NEW c \in CallType
  PROVE  /\ \A f \in 1 .. Len(h) :
              /\ Expiries(h, f) \subseteq 1 .. Len(h)
              /\ Expiries(Append(h, c), f) =
                   Expiries(h, f) \union
                     IF h[f].at + c.pt <= c.at THEN {Len(h) + 1} ELSE {}
         /\ Expiries(Append(h, c), Len(h) + 1) = {}
<1> DEFINE n == Len(h)
           g == Append(h, c)
<1>1. /\ n \in Nat /\ Len(g) = n + 1 /\ g[n + 1] = c
      /\ \A i \in 1 .. n : g[i] = h[i]
  BY OneMoreCall
<1> HIDE DEF n, g
<1>2. Expiries(g, n + 1) = {}
  BY <1>1 DEF Expiries
<1>3. ASSUME NEW f \in 1 .. n
      PROVE  /\ Expiries(h, f) \subseteq 1 .. n
             /\ Expiries(g, f) =
                  Expiries(h, f) \union IF h[f].at + c.pt <= c.at THEN {n + 1} ELSE {}
  <2>1. f + 1 .. n + 1 = (f + 1 .. n) \union {n + 1}
    BY <1>1
  <2>2. \A j \in f + 1 .. n : j \in 1 .. n /\ g[j] = h[j]
    BY <1>1
  <2>3. g[f] = h[f]
    BY <1>1
  <2> QED BY <1>1, <2>1, <2>2, <2>3 DEF Expiries, n
<1> QED BY <1>2, <1>3 DEF n, g

LEMMA FirstExpiryGrows ==
  ASSUME NEW h \in Seq(CallType), NEW c \in CallType, NEW f \in 1 .. Len(h)
  PROVE  /\ Expiries(h, f) # {} =>
              /\ FirstExpiry(h, f) \in 1 .. Len(h)
              /\ FirstExpiry(Append(h, c), f) = FirstExpiry(h, f)
         /\ Expiries(h, f) = {} /\ Expiries(Append(h, c), f) # {} =>
              FirstExpiry(Append(h, c), f) = Len(h) + 1
<1> DEFINE n == Len(h)
           E == Expiries(h, f)
           G == Expiries(Append(h, c), f)
           First(S) == CHOOSE j \in S : \A k \in S : j <= k
<1>1. /\ n \in Nat /\ E \subseteq 1 .. n
      /\ G = E \/ G = E \union {n + 1}
  <2>1. n \in Nat
    BY OneMoreCall
  <2>2. /\ E \subseteq 1 .. n
        /\ G = E \union IF h[f].at + c.pt <= c.at THEN {n + 1} ELSE {}
    BY ExpiriesGrow
  <2> HIDE DEF n, E, G
  <2> QED BY <2>1, <2>2
<1>2. FirstExpiry(h, f) = First(E) /\ FirstExpiry(Append(h, c), f) = First(G)
  BY DEF FirstExpiry
<1> HIDE DEF n, E, G
<1>3. CASE E # {}
  <2>1. PICK j \in E : \A k \in E : j <= k
    <3>1. E \in SUBSET Nat
      BY <1>1
    <3> QED BY <1>3, <3>1, LeastElement
  <2>2. First(E) \in E /\ \A k \in E : First(E) <= k
    BY <2>1
  <2>3. First(G) \in G /\ \A k \in G : First(G) <= k
    <3>1. j \in G /\ \A k \in G : j <= k
      <4>1. j \in G /\ j \in 1 .. n
        BY <1>1, <2>1
      <4>2. \A k \in G : k \in E \/ k = n + 1
        BY <1>1
      <4> QED BY <1>1, <2>1, <4>1, <4>2
    <3> QED BY <3>1
  <2>4. First(G) = First(E)
    <3>1. First(E) \in G /\ First(E) \in 1 .. n
      BY <1>1, <2>2
    <3>2. First(G) <= First(E)
      BY <2>3, <3>1
    <3>3. First(G) \in E
      BY <1>1, <2>3, <3>1, <3>2
    <3>4. First(E) <= First(G) /\ First(G) \in 1 .. n
      BY <1>1, <2>2, <3>3
    <3> HIDE DEF First
    <3> QED BY <1>1, <3>1, <3>2, <3>4
  <2> QED BY <1>1, <1>2, <1>3, <2>2, <2>4 DEF n, E, G
<1>4. CASE E = {} /\ G # {}
  <2>1. G = {n + 1}
    BY <1>1, <1>4
  <2>2. First(G) = n + 1
    BY <1>1, <2>1
  <2> QED BY <1>2, <1>4, <2>2 DEF n, E, G
<1> QED BY <1>3, <1>4 DEF E, G
-----------------------------------------------------------------------------
(* A delay, the part TON and TOF have in common: started by call f, it is   *)
(* in state 1 until a call finds the preset elapsed.                        *)

Timing(h, t, f, atFirst, atLast) ==
  /\ t.start = h[f].at
  /\ t.state = IF Expiries(h, f) = {} THEN 1 ELSE 2
  /\ Delayed(h, t, f, atFirst, atLast)

LEMMA DelayBegins ==
  ASSUME NEW h \in Seq(CallType), NEW c \in CallType, NEW u,
         NEW first, NEW last_, u.start = c.at, u.state = 1, u.q = first, u.et = 0
  PROVE  Timing(Append(h, c), u, Len(h) + 1, first, last_)
<1>1. Expiries(Append(h, c), Len(h) + 1) = {}
  BY ExpiriesGrow
<1>2. /\ Append(h, c)[Len(h) + 1] = c /\ Len(Append(h, c)) = Len(h) + 1
      /\ c.at - c.at = 0
  BY OneMoreCall, CallFields
<1> QED BY <1>1, <1>2 DEF Timing, Delayed

LEMMA DelayGoesOn ==
  ASSUME NEW h \in Seq(CallType), NEW c \in CallType, NEW t, NEW u,
         NEW f \in 1 .. Len(h), NEW first, NEW last_,
         Timing(h, t, f, first, last_), u.start = t.start,
         IF t.state = 1 /\ Elapsed(t, c.pt, c.at)
           THEN u.state = 2 /\ u.q = last_ /\ u.et = c.pt
         ELSE IF t.state = 1
           THEN u.state = 1 /\ u.q = first /\ u.et = c.at - t.start
         ELSE u.state = t.state /\ u.q = t.q /\ u.et = t.et
  PROVE  Timing(Append(h, c), u, f, first, last_)
<1> DEFINE n == Len(h)
           g == Append(h, c)
<1>1. /\ n \in Nat /\ Len(g) = n + 1 /\ g[n + 1] = c
      /\ \A i \in 1 .. n : g[i] = h[i]
  BY OneMoreCall
<1>2. /\ Expiries(h, f) \subseteq 1 .. n
      /\ Expiries(g, f) = Expiries(h, f) \union
                            IF h[f].at + c.pt <= c.at THEN {n + 1} ELSE {}
  BY ExpiriesGrow
<1>3. /\ Expiries(h, f) # {} =>
           FirstExpiry(h, f) \in 1 .. n /\ FirstExpiry(g, f) = FirstExpiry(h, f)
      /\ Expiries(h, f) = {} /\ Expiries(g, f) # {} => FirstExpiry(g, f) = n + 1
  BY FirstExpiryGrows
<1>4. Elapsed(t, c.pt, c.at) <=> h[f].at + c.pt <= c.at
  BY DEF Timing, Elapsed
<1> HIDE DEF n, g
<1>5. u.start = g[f].at
  BY <1>1 DEF Timing, n
<1>6. CASE Expiries(h, f) # {}
  <2>1. t.state = 2 /\ t.q = last_ /\ t.et = h[FirstExpiry(h, f)].pt
    BY <1>6 DEF Timing, Delayed
  <2>2. u.state = 2 /\ u.q = last_ /\ u.et = g[FirstExpiry(g, f)].pt
    BY <1>1, <1>3, <1>6, <2>1
  <2>3. Expiries(g, f) # {}
    BY <1>2, <1>6
  <2> QED BY <1>5, <2>2, <2>3 DEF Timing, Delayed, g
<1>7. CASE Expiries(h, f) = {} /\ Elapsed(t, c.pt, c.at)
  <2>1. u.state = 2 /\ u.q = last_ /\ u.et = c.pt
    BY <1>7 DEF Timing
  <2>2. Expiries(g, f) # {} /\ g[FirstExpiry(g, f)] = c
    BY <1>1, <1>2, <1>3, <1>4, <1>7
  <2> QED BY <1>5, <2>1, <2>2 DEF Timing, Delayed, g
<1>8. CASE Expiries(h, f) = {} /\ ~Elapsed(t, c.pt, c.at)
  <2>1. u.state = 1 /\ u.q = first /\ u.et = c.at - h[f].at
    BY <1>8 DEF Timing
  <2>2. Expiries(g, f) = {} /\ g[Len(g)] = c /\ g[f] = h[f]
    BY <1>1, <1>2, <1>4, <1>8 DEF n
  <2> QED BY <1>5, <2>1, <2>2 DEF Timing, Delayed, g
<1> QED BY <1>6, <1>7, <1>8
-----------------------------------------------------------------------------
(* What one call makes of an instance, field by field.                     *)

Fields(u, state, prev, start, q, et) ==
  /\ u \in TimerType
  /\ u.state = state /\ u.prev = prev /\ u.start = start /\ u.q = q /\ u.et = et

LEMMA Update ==
  ASSUME NEW s \in TimerType, NEW i \in 0 .. 2, NEW q \in BOOLEAN, NEW z \in Int
  PROVE  /\ Fields([s EXCEPT !.prev = q], s.state, q, s.start, s.q, s.et)
         /\ Fields([s EXCEPT !.state = i, !.q = q, !.start = z], i, s.prev, z, q, s.et)
         /\ Fields([s EXCEPT !.state = i, !.q = q, !.et = z], i, s.prev, s.start, q, z)
         /\ Fields([s EXCEPT !.state = i, !.start = z], i, s.prev, z, s.q, s.et)
         /\ Fields([s EXCEPT !.state = i, !.et = z], i, s.prev, s.start, s.q, z)
         /\ Fields([s EXCEPT !.q = q, !.et = z], s.state, s.prev, s.start, q, z)
         /\ Fields([s EXCEPT !.et = z], s.state, s.prev, s.start, s.q, z)
<1>1. Fields([s EXCEPT !.prev = q], s.state, q, s.start, s.q, s.et)
  BY DEF TimerType, Fields
<1>2. Fields([s EXCEPT !.state = i, !.q = q, !.start = z], i, s.prev, z, q, s.et)
  BY DEF TimerType, Fields
<1>3. Fields([s EXCEPT !.state = i, !.q = q, !.et = z], i, s.prev, s.start, q, z)
  BY DEF TimerType, Fields
<1>4. Fields([s EXCEPT !.state = i, !.start = z], i, s.prev, z, s.q, s.et)
  BY DEF TimerType, Fields
<1>5. Fields([s EXCEPT !.state = i, !.et = z], i, s.prev, s.start, s.q, z)
  BY DEF TimerType, Fields
<1>6. Fields([s EXCEPT !.q = q, !.et = z], s.state, s.prev, s.start, q, z)
  BY DEF TimerType, Fields
<1>7. Fields([s EXCEPT !.et = z], s.state, s.prev, s.start, s.q, z)
  BY DEF TimerType, Fields
<1> QED BY <1>1, <1>2, <1>3, <1>4, <1>5, <1>6, <1>7

LEMMA Literals ==
  /\ 0 \in 0 .. 2 /\ 1 \in 0 .. 2 /\ 2 \in 0 .. 2 /\ 0 \in Int
  /\ TRUE \in BOOLEAN /\ FALSE \in BOOLEAN
OBVIOUS

TonRuns(t, in, pt, n, u) ==
  /\ t.state = 0 /\ ~t.prev /\ in => Fields(u, 1, in, n, FALSE, t.et)
  /\ ~in => Fields(u, 0, in, t.start, FALSE, 0)
  /\ in /\ ~(t.state = 0 /\ ~t.prev) =>
       IF t.state = 1 /\ Elapsed(t, pt, n) THEN Fields(u, 2, in, t.start, TRUE, pt)
       ELSE IF t.state = 1 THEN Fields(u, 1, in, t.start, t.q, n - t.start)
       ELSE Fields(u, t.state, in, t.start, t.q, t.et)

LEMMA TonCallRuns ==
  ASSUME NEW t \in TimerType, NEW in \in BOOLEAN, NEW pt \in Int, NEW n \in Int
  PROVE  TonRuns(t, in, pt, n, TonCall(t, in, pt, n))
<1> DEFINE s == [t EXCEPT !.prev = in]
           u == TonCall(t, in, pt, n)
<1>1. Fields(s, t.state, in, t.start, t.q, t.et)
  BY Update, Literals
<1>2. s \in TimerType /\ n - t.start \in Int
  BY <1>1 DEF Fields, TimerType
<1>3. CASE t.state = 0 /\ ~t.prev /\ in
  <2>1. u = [s EXCEPT !.state = 1, !.q = FALSE, !.start = n]
    BY <1>3 DEF TonCall
  <2> HIDE DEF s, u
  <2>2. Fields(u, 1, s.prev, n, FALSE, s.et)
    BY <1>2, <2>1, Update, Literals, Zenon
  <2> QED BY <1>1, <1>3, <2>2 DEF TonRuns, Fields, u
<1>4. CASE ~in
  <2>1. u = [s EXCEPT !.state = 0, !.q = FALSE, !.et = 0]
    BY <1>4 DEF TonCall
  <2> HIDE DEF s, u
  <2>2. Fields(u, 0, s.prev, s.start, FALSE, 0)
    BY <1>2, <2>1, Update, Literals, Zenon
  <2> QED BY <1>1, <1>4, <2>2 DEF TonRuns, Fields, u
<1>5. CASE in /\ ~(t.state = 0 /\ ~t.prev) /\ t.state = 1 /\ Elapsed(t, pt, n)
  <2>1. u = [s EXCEPT !.state = 2, !.q = TRUE, !.et = pt]
    BY <1>5 DEF TonCall
  <2> HIDE DEF s, u
  <2>2. Fields(u, 2, s.prev, s.start, TRUE, pt)
    BY <1>2, <2>1, Update, Literals, Zenon
  <2> QED BY <1>1, <1>5, <2>2 DEF TonRuns, Fields, u
<1>6. CASE in /\ ~(t.state = 0 /\ ~t.prev) /\ t.state = 1 /\ ~Elapsed(t, pt, n)
  <2>1. u = [s EXCEPT !.et = n - t.start]
    BY <1>6 DEF TonCall
  <2> HIDE DEF s, u
  <2>2. Fields(u, s.state, s.prev, s.start, s.q, n - t.start)
    BY <1>2, <2>1, Update, Literals, Zenon
  <2> QED BY <1>1, <1>6, <2>2 DEF TonRuns, Fields, u
<1>7. CASE in /\ ~(t.state = 0 /\ ~t.prev) /\ t.state # 1
  <2>1. u = s
    BY <1>7 DEF TonCall
  <2> HIDE DEF s, u
  <2> QED BY <1>1, <1>7, <2>1 DEF TonRuns, Fields, u
<1> QED BY <1>3, <1>4, <1>5, <1>6, <1>7

TofRuns(t, in, pt, n, u) ==
  /\ t.state = 0 /\ t.prev /\ ~in => Fields(u, 1, in, n, t.q, t.et)
  /\ in => Fields(u, 0, in, t.start, TRUE, 0)
  /\ ~in /\ ~(t.state = 0 /\ t.prev) =>
       IF t.state = 1 /\ Elapsed(t, pt, n) THEN Fields(u, 2, in, t.start, FALSE, pt)
       ELSE IF t.state = 1 THEN Fields(u, 1, in, t.start, TRUE, n - t.start)
       ELSE Fields(u, t.state, in, t.start, t.q, t.et)

LEMMA TofCallRuns ==
  ASSUME NEW t \in TimerType, NEW in \in BOOLEAN, NEW pt \in Int, NEW n \in Int
  PROVE  TofRuns(t, in, pt, n, TofCall(t, in, pt, n))
<1> DEFINE s == [t EXCEPT !.prev = in]
           u == TofCall(t, in, pt, n)
<1>1. Fields(s, t.state, in, t.start, t.q, t.et)
  BY Update, Literals
<1>2. s \in TimerType /\ n - t.start \in Int
  BY <1>1 DEF Fields, TimerType
<1>3. CASE t.state = 0 /\ t.prev /\ ~in
  <2>1. u = [s EXCEPT !.state = 1, !.start = n]
    BY <1>3 DEF TofCall
  <2> HIDE DEF s, u
  <2>2. Fields(u, 1, s.prev, n, s.q, s.et)
    BY <1>2, <2>1, Update, Literals, Zenon
  <2> QED BY <1>1, <1>3, <2>2 DEF TofRuns, Fields, u
<1>4. CASE in
  <2>1. u = [s EXCEPT !.state = 0, !.q = TRUE, !.et = 0]
    BY <1>4 DEF TofCall
  <2> HIDE DEF s, u
  <2>2. Fields(u, 0, s.prev, s.start, TRUE, 0)
    BY <1>2, <2>1, Update, Literals, Zenon
  <2> QED BY <1>1, <1>4, <2>2 DEF TofRuns, Fields, u
<1>5. CASE ~in /\ ~(t.state = 0 /\ t.prev) /\ t.state = 1 /\ Elapsed(t, pt, n)
  <2>1. u = [s EXCEPT !.state = 2, !.q = FALSE, !.et = pt]
    BY <1>5 DEF TofCall
  <2> HIDE DEF s, u
  <2>2. Fields(u, 2, s.prev, s.start, FALSE, pt)
    BY <1>2, <2>1, Update, Literals, Zenon
  <2> QED BY <1>1, <1>5, <2>2 DEF TofRuns, Fields, u
<1>6. CASE ~in /\ ~(t.state = 0 /\ t.prev) /\ t.state = 1 /\ ~Elapsed(t, pt, n)
  <2>1. u = [s EXCEPT !.q = TRUE, !.et = n - t.start]
    BY <1>6 DEF TofCall
  <2> HIDE DEF s, u
  <2>2. Fields(u, s.state, s.prev, s.start, TRUE, n - t.start)
    BY <1>2, <2>1, Update, Literals, Zenon
  <2> QED BY <1>1, <1>6, <2>2 DEF TofRuns, Fields, u
<1>7. CASE ~in /\ ~(t.state = 0 /\ t.prev) /\ t.state # 1
  <2>1. u = s
    BY <1>7 DEF TofCall
  <2> HIDE DEF s, u
  <2> QED BY <1>1, <1>7, <2>1 DEF TofRuns, Fields, u
<1> QED BY <1>3, <1>4, <1>5, <1>6, <1>7
-----------------------------------------------------------------------------
(* TON and TOF follow their histories.                                     *)

\* The last call of h saw IN TRUE.
Saw(h) == Len(h) > 0 /\ h[Len(h)].in = TRUE

LEMMA SawNext ==
  ASSUME NEW h \in Seq(CallType), NEW c \in CallType
  PROVE  Saw(Append(h, c)) <=> c.in = TRUE
BY OneMoreCall DEF Saw

LEMMA LastIn ==
  ASSUME NEW h \in Seq(CallType)
  PROVE  Len(h) \in Nat /\ (Len(h) > 0 => h[Len(h)].in \in BOOLEAN)
<1>1. Len(h) > 0 => h[Len(h)] \in CallType
  OBVIOUS
<1> QED BY <1>1, CallFields

TonFollows(h, t) ==
  /\ t.prev = TRUE <=> Saw(h)
  /\ ~Saw(h) => t.state = 0 /\ t.q = FALSE /\ t.et = 0
  /\ \A f \in 1 .. Len(h) : RunFrom(h, f, TRUE) => Timing(h, t, f, FALSE, TRUE)

LEMMA TonFollowsNext ==
  ASSUME NEW h \in Seq(CallType), NEW c \in CallType, NEW t \in TimerType,
         TonFollows(h, t)
  PROVE  /\ TonCall(t, c.in, c.pt, c.at) \in TimerType
         /\ TonFollows(Append(h, c), TonCall(t, c.in, c.pt, c.at))
<1> DEFINE g == Append(h, c)
           u == TonCall(t, c.in, c.pt, c.at)
<1>1. /\ Len(h) \in Nat /\ Len(g) = Len(h) + 1
      /\ c.in \in BOOLEAN /\ c.pt \in Int /\ c.at \in Int
  BY OneMoreCall, CallFields
<1>2. TonRuns(t, c.in, c.pt, c.at, u)
  BY <1>1, TonCallRuns
<1>3. t.prev \in BOOLEAN /\ (t.prev = TRUE <=> Saw(h))
  BY DEF TimerType, TonFollows
<1> HIDE DEF g, u
<1>4. CASE c.in = FALSE
  <2>1. Fields(u, 0, FALSE, t.start, FALSE, 0)
    BY <1>2, <1>4 DEF TonRuns
  <2>2. ~Saw(g)
    BY <1>4, SawNext DEF g
  <2>3. \A f : ~RunFrom(g, f, TRUE)
    BY <1>4, RunsGrow DEF g
  <2> QED BY <2>1, <2>2, <2>3 DEF TonFollows, Fields, g, u
<1>5. CASE c.in = TRUE /\ ~Saw(h)
  <2>1. t.state = 0 /\ ~t.prev /\ t.et = 0
    BY <1>3, <1>5 DEF TonFollows
  <2>2. Fields(u, 1, TRUE, c.at, FALSE, 0)
    BY <1>2, <1>5, <2>1 DEF TonRuns
  <2>3. Timing(g, u, Len(h) + 1, FALSE, TRUE)
    BY <2>2, DelayBegins DEF Fields, g
  <2>4. ASSUME NEW f \in 1 .. Len(g), RunFrom(g, f, TRUE)
        PROVE  f = Len(h) + 1
    <3>1. Len(h) > 0 => h[Len(h)].in # TRUE
      BY <1>5 DEF Saw
    <3> QED BY <2>4, <3>1, RunsStart DEF g
  <2>5. Saw(g)
    BY <1>5, SawNext DEF g
  <2>6. u \in TimerType /\ u.prev = TRUE
    BY <2>2 DEF Fields
  <2> QED BY <2>3, <2>4, <2>5, <2>6 DEF TonFollows, g, u
<1>6. CASE c.in = TRUE /\ Saw(h)
  <2>1. IF t.state = 1 /\ Elapsed(t, c.pt, c.at)
          THEN Fields(u, 2, TRUE, t.start, TRUE, c.pt)
        ELSE IF t.state = 1 THEN Fields(u, 1, TRUE, t.start, t.q, c.at - t.start)
        ELSE Fields(u, t.state, TRUE, t.start, t.q, t.et)
    BY <1>2, <1>3, <1>6 DEF TonRuns
  <2>2. ASSUME NEW f \in 1 .. Len(g), RunFrom(g, f, TRUE)
        PROVE  Timing(g, u, f, FALSE, TRUE)
    <3>1. f \in 1 .. Len(h) /\ RunFrom(h, f, TRUE)
      BY <1>6, <2>2, RunsGrow DEF g, Saw
    <3>2. Timing(h, t, f, FALSE, TRUE)
      BY <3>1 DEF TonFollows
    <3>3. t.state = 1 => t.q = FALSE
      BY <3>2 DEF Timing, Delayed
    <3>4. u.start = t.start
      BY <2>1 DEF Fields
    <3>5. IF t.state = 1 /\ Elapsed(t, c.pt, c.at)
            THEN u.state = 2 /\ u.q = TRUE /\ u.et = c.pt
          ELSE IF t.state = 1
            THEN u.state = 1 /\ u.q = FALSE /\ u.et = c.at - t.start
          ELSE u.state = t.state /\ u.q = t.q /\ u.et = t.et
      BY <2>1, <3>3 DEF Fields
    <3> QED BY <3>1, <3>2, <3>4, <3>5, DelayGoesOn DEF g
  <2>3. Saw(g)
    BY <1>6, SawNext DEF g
  <2>4. u \in TimerType /\ u.prev = TRUE
    BY <2>1 DEF Fields
  <2> QED BY <2>2, <2>3, <2>4 DEF TonFollows, g, u
<1> QED BY <1>1, <1>4, <1>5, <1>6

LEMMA TonFollowsShows ==
  ASSUME NEW h \in Seq(CallType), NEW t \in TimerType, TonFollows(h, t)
  PROVE  TonShows(h, t)
<1>1. Len(h) = 0 \/ ~h[Len(h)].in => ~Saw(h)
  BY LastIn DEF Saw
<1>2. Len(h) = 0 \/ ~h[Len(h)].in => ~t.q /\ t.et = 0
  BY <1>1 DEF TonFollows
<1>3. \A f \in 1 .. Len(h) : RunFrom(h, f, TRUE) => Delayed(h, t, f, FALSE, TRUE)
  BY DEF TonFollows, Timing
<1> QED BY <1>2, <1>3 DEF TonShows

TofFollows(h, t) ==
  /\ t.prev = TRUE <=> Saw(h)
  /\ Saw(h) => t.state = 0 /\ t.q = TRUE /\ t.et = 0
  /\ Len(h) = 0 => t.state = 0 /\ t.q = FALSE /\ t.et = 0
  /\ \A f \in 1 .. Len(h) : RunFrom(h, f, FALSE) =>
       IF f = 1 THEN t.state = 0 /\ t.q = FALSE /\ t.et = 0
                ELSE Timing(h, t, f, TRUE, FALSE)

LEMMA TofFollowsNext ==
  ASSUME NEW h \in Seq(CallType), NEW c \in CallType, NEW t \in TimerType,
         TofFollows(h, t)
  PROVE  /\ TofCall(t, c.in, c.pt, c.at) \in TimerType
         /\ TofFollows(Append(h, c), TofCall(t, c.in, c.pt, c.at))
<1> DEFINE g == Append(h, c)
           u == TofCall(t, c.in, c.pt, c.at)
<1>1. /\ Len(h) \in Nat /\ Len(g) = Len(h) + 1
      /\ c.in \in BOOLEAN /\ c.pt \in Int /\ c.at \in Int
  BY OneMoreCall, CallFields
<1>2. TofRuns(t, c.in, c.pt, c.at, u)
  BY <1>1, TofCallRuns
<1>3. t.prev \in BOOLEAN /\ (t.prev = TRUE <=> Saw(h))
  BY DEF TimerType, TofFollows
<1> HIDE DEF g, u
<1>4. CASE c.in = TRUE
  <2>1. Fields(u, 0, TRUE, t.start, TRUE, 0)
    BY <1>2, <1>4 DEF TofRuns
  <2>2. Saw(g)
    BY <1>4, SawNext DEF g
  <2>3. \A f : ~RunFrom(g, f, FALSE)
    BY <1>4, RunsGrow DEF g
  <2>4. /\ u \in TimerType /\ u.prev = TRUE /\ u.state = 0 /\ u.q = TRUE
        /\ u.et = 0
    BY <2>1 DEF Fields
  <2>5. Len(g) # 0
    BY <1>1
  <2>6. TofFollows(g, u)
    BY <2>2, <2>3, <2>4, <2>5 DEF TofFollows
  <2> QED BY <2>4, <2>6 DEF g, u
<1>5. CASE c.in = FALSE /\ Saw(h)
  <2>1. t.state = 0 /\ t.prev /\ t.q = TRUE /\ t.et = 0
    BY <1>3, <1>5 DEF TofFollows
  <2>2. Fields(u, 1, FALSE, c.at, TRUE, 0)
    BY <1>2, <1>5, <2>1 DEF TofRuns
  <2>3. Timing(g, u, Len(h) + 1, TRUE, FALSE)
    BY <2>2, DelayBegins DEF Fields, g
  <2>4. ASSUME NEW f \in 1 .. Len(g), RunFrom(g, f, FALSE)
        PROVE  f = Len(h) + 1
    <3>1. Len(h) > 0 => h[Len(h)].in # FALSE
      BY <1>5 DEF Saw
    <3> QED BY <2>4, <3>1, RunsStart DEF g
  <2>5. ~Saw(g)
    BY <1>5, SawNext DEF g
  <2>6. u \in TimerType /\ u.prev = FALSE
    BY <2>2 DEF Fields
  <2>7. Len(g) # 0 /\ Len(h) + 1 # 1
    BY <1>1, <1>5 DEF Saw
  <2> QED BY <2>3, <2>4, <2>5, <2>6, <2>7 DEF TofFollows, g, u
<1>6. CASE c.in = FALSE /\ ~Saw(h)
  <2>1. IF t.state = 1 /\ Elapsed(t, c.pt, c.at)
          THEN Fields(u, 2, FALSE, t.start, FALSE, c.pt)
        ELSE IF t.state = 1 THEN Fields(u, 1, FALSE, t.start, TRUE, c.at - t.start)
        ELSE Fields(u, t.state, FALSE, t.start, t.q, t.et)
    BY <1>2, <1>3, <1>6 DEF TofRuns
  <2>2. ASSUME NEW f \in 1 .. Len(g), RunFrom(g, f, FALSE)
        PROVE  IF f = 1 THEN u.state = 0 /\ u.q = FALSE /\ u.et = 0
                        ELSE Timing(g, u, f, TRUE, FALSE)
    <3>1. \/ f = Len(h) + 1 /\ (Len(h) > 0 => h[Len(h)].in # FALSE)
          \/ f \in 1 .. Len(h) /\ RunFrom(h, f, FALSE)
      BY <2>2, RunsGrow DEF g
    <3>2. CASE f = Len(h) + 1 /\ (Len(h) > 0 => h[Len(h)].in # FALSE)
      <4>1. Len(h) = 0
        <5>1. Len(h) > 0 => h[Len(h)].in = FALSE
          BY <1>6, LastIn DEF Saw
        <5>2. ~(Len(h) > 0)
          BY <3>2, <5>1
        <5> QED BY <1>1, <5>2
      <4>2. t.state = 0 /\ t.q = FALSE /\ t.et = 0
        BY <4>1 DEF TofFollows
      <4>3. u.state = 0 /\ u.q = FALSE /\ u.et = 0
        BY <2>1, <4>2 DEF Fields
      <4>4. f = 1
        BY <3>2, <4>1
      <4> QED BY <4>3, <4>4
    <3>3. CASE f \in 1 .. Len(h) /\ RunFrom(h, f, FALSE) /\ f = 1
      <4>1. t.state = 0 /\ t.q = FALSE /\ t.et = 0
        BY <3>3 DEF TofFollows
      <4>2. u.state = 0 /\ u.q = FALSE /\ u.et = 0
        BY <2>1, <4>1 DEF Fields
      <4> QED BY <3>3, <4>2
    <3>4. CASE f \in 1 .. Len(h) /\ RunFrom(h, f, FALSE) /\ f # 1
      <4>1. Timing(h, t, f, TRUE, FALSE)
        BY <3>4 DEF TofFollows
      <4>2. u.start = t.start
        BY <2>1 DEF Fields
      <4>3. IF t.state = 1 /\ Elapsed(t, c.pt, c.at)
              THEN u.state = 2 /\ u.q = FALSE /\ u.et = c.pt
            ELSE IF t.state = 1
              THEN u.state = 1 /\ u.q = TRUE /\ u.et = c.at - t.start
            ELSE u.state = t.state /\ u.q = t.q /\ u.et = t.et
        BY <2>1 DEF Fields
      <4>4. Timing(g, u, f, TRUE, FALSE)
        BY <3>4, <4>1, <4>2, <4>3, DelayGoesOn DEF g
      <4> QED BY <3>4, <4>4
    <3> QED BY <3>1, <3>2, <3>3, <3>4
  <2>3. ~Saw(g)
    BY <1>6, SawNext DEF g
  <2>4. u \in TimerType /\ u.prev = FALSE
    BY <2>1 DEF Fields
  <2>5. Len(g) # 0
    BY <1>1
  <2>6. TofFollows(g, u)
    BY <2>2, <2>3, <2>4, <2>5 DEF TofFollows
  <2> QED BY <2>4, <2>6 DEF g, u
<1> QED BY <1>1, <1>4, <1>5, <1>6

LEMMA TofFollowsShows ==
  ASSUME NEW h \in Seq(CallType), NEW t \in TimerType, TofFollows(h, t)
  PROVE  TofShows(h, t)
<1>1. Len(h) > 0 /\ h[Len(h)].in => Saw(h)
  BY LastIn DEF Saw
<1>2. Len(h) > 0 /\ h[Len(h)].in => t.q /\ t.et = 0
  BY <1>1 DEF TofFollows
<1>3. \A f \in 1 .. Len(h) : RunFrom(h, f, FALSE) =>
        IF f = 1 THEN ~t.q /\ t.et = 0 ELSE Delayed(h, t, f, TRUE, FALSE)
  BY DEF TofFollows, Timing
<1> QED BY <1>2, <1>3 DEF TofShows

-----------------------------------------------------------------------------
(* What one call makes of a TP.                                            *)

TpRuns(t, in, pt, n, u) ==
  /\ u \in TimerType /\ u.prev = in
  /\ IF t.state = 0 /\ ~t.prev /\ in
       THEN u.state = 1 /\ u.q = TRUE /\ u.start = n
     ELSE IF t.state = 1 /\ Elapsed(t, pt, n)
       THEN u.state = (IF in THEN 2 ELSE 0) /\ u.q = FALSE
     ELSE IF t.state = 1
       THEN u.state = 1 /\ u.q = t.q /\ u.start = t.start
     ELSE /\ u.state = IF ~in /\ t.state = 2 THEN 0 ELSE t.state
          /\ u.q = t.q

LEMMA TpReleases ==
  ASSUME NEW t \in TimerType, NEW in \in BOOLEAN, NEW pt \in Int, NEW n \in Int,
         TpPulse(t, in, pt, n) \in TimerType
  PROVE  Fields(TpCall(t, in, pt, n),
                IF ~in /\ TpPulse(t, in, pt, n).state = 2
                  THEN 0 ELSE TpPulse(t, in, pt, n).state,
                in, TpPulse(t, in, pt, n).start, TpPulse(t, in, pt, n).q,
                IF ~in /\ TpPulse(t, in, pt, n).state = 2
                  THEN 0 ELSE TpPulse(t, in, pt, n).et)
<1> DEFINE p == TpPulse(t, in, pt, n)
           s == [p EXCEPT !.prev = in]
           u == TpCall(t, in, pt, n)
<1> HIDE DEF p
<1>1. Fields(s, p.state, in, p.start, p.q, p.et)
  BY Update, Literals DEF p
<1>2. s \in TimerType /\ s.state = p.state
  BY <1>1 DEF Fields
<1>3. CASE ~in /\ p.state = 2
  <2>1. u = [s EXCEPT !.state = 0, !.et = 0]
    BY <1>2, <1>3 DEF TpCall, p
  <2> HIDE DEF s, u
  <2>2. Fields(u, 0, s.prev, s.start, s.q, 0)
    BY <1>2, <2>1, Update, Literals, Zenon
  <2>3. Fields(u, 0, in, p.start, p.q, 0)
    BY <1>1, <2>2 DEF Fields
  <2> QED BY <1>3, <2>3 DEF u, p
<1>4. CASE ~(~in /\ p.state = 2)
  <2>1. u = s
    BY <1>2, <1>4 DEF TpCall, p
  <2> HIDE DEF s
  <2>2. Fields(u, p.state, in, p.start, p.q, p.et)
    BY <1>1, <2>1
  <2> HIDE DEF u
  <2> QED BY <1>4, <2>2 DEF p, u
<1> QED BY <1>3, <1>4

LEMMA TpCallRuns ==
  ASSUME NEW t \in TimerType, NEW in \in BOOLEAN, NEW pt \in Int, NEW n \in Int
  PROVE  TpRuns(t, in, pt, n, TpCall(t, in, pt, n))
<1> DEFINE p == TpPulse(t, in, pt, n)
           u == TpCall(t, in, pt, n)
<1>1. ASSUME p \in TimerType
      PROVE  /\ u \in TimerType /\ u.prev = in /\ u.start = p.start /\ u.q = p.q
             /\ u.state = IF ~in /\ p.state = 2 THEN 0 ELSE p.state
  BY <1>1, TpReleases DEF Fields
<1>2. t.state \in 0 .. 2 /\ t.start \in Int /\ n - t.start \in Int
  BY DEF TimerType
<1>3. CASE t.state = 0 /\ ~t.prev /\ in
  <2>1. p = [t EXCEPT !.state = 1, !.q = TRUE, !.start = n]
    BY <1>3 DEF TpPulse
  <2> HIDE DEF p
  <2>2. Fields(p, 1, t.prev, n, TRUE, t.et)
    BY <2>1, Update, Literals, Zenon
  <2>3. p \in TimerType /\ p.state = 1 /\ p.q = TRUE /\ p.start = n
    BY <2>2 DEF Fields
  <2> HIDE DEF u
  <2> QED BY <1>1, <1>3, <2>3 DEF TpRuns, u
<1>4. CASE t.state = 1 /\ Elapsed(t, pt, n)
  <2>1. p = [t EXCEPT !.state = 2, !.q = FALSE, !.et = pt]
    BY <1>4 DEF TpPulse
  <2> HIDE DEF p
  <2>2. Fields(p, 2, t.prev, t.start, FALSE, pt)
    BY <2>1, Update, Literals, Zenon
  <2>3. p \in TimerType /\ p.state = 2 /\ p.q = FALSE
    BY <2>2 DEF Fields
  <2> HIDE DEF u
  <2> QED BY <1>1, <1>4, <2>3 DEF TpRuns, u
<1>5. CASE t.state = 1 /\ ~Elapsed(t, pt, n)
  <2>1. p = [t EXCEPT !.et = n - t.start]
    BY <1>5 DEF TpPulse
  <2> HIDE DEF p
  <2>2. Fields(p, t.state, t.prev, t.start, t.q, n - t.start)
    BY <1>2, <2>1, Update, Literals, Zenon
  <2>3. p \in TimerType /\ p.state = 1 /\ p.q = t.q /\ p.start = t.start
    BY <1>5, <2>2 DEF Fields
  <2> HIDE DEF u
  <2> QED BY <1>1, <1>5, <2>3 DEF TpRuns, u
<1>6. CASE t.state # 1 /\ ~(t.state = 0 /\ ~t.prev /\ in)
  <2>1. p = t
    BY <1>6 DEF TpPulse
  <2> HIDE DEF p, u
  <2>2. u \in TimerType /\ u.prev = in /\ u.q = t.q
    BY <1>1, <2>1
  <2>3. u.state = IF ~in /\ t.state = 2 THEN 0 ELSE t.state
    BY <1>1, <2>1
  <2> QED BY <1>6, <2>2, <2>3 DEF TpRuns, u
<1> QED BY <1>3, <1>4, <1>5, <1>6
-----------------------------------------------------------------------------
(* The pulses of TP.  PulseStarts chooses a function that obeys a           *)
(* recursion; StartsOf says the same of the set of calls it holds of.       *)

StartsOf(h, S) ==
  /\ S \subseteq 1 .. Len(h)
  /\ \A k \in 1 .. Len(h) :
       k \in S <=> /\ Rising(h, k)
                   /\ \A g \in 1 .. k - 1 :
                        g \in S => \E j \in Expiries(h, g) : j < k

\* The recursion of PulseStarts.
Obeys(h, s) ==
  s = [k \in 1 .. Len(h) |->
         /\ Rising(h, k)
         /\ \A g \in 1 .. k - 1 : s[g] => \E j \in Expiries(h, g) : j < k]

LEMMA PulseStartsChosen ==
  ASSUME NEW h
  PROVE  PulseStarts(h) = {k \in 1 .. Len(h) : (CHOOSE s : Obeys(h, s))[k]}
BY DEF PulseStarts, Obeys

LEMMA StartsUnique ==
  ASSUME NEW h, Len(h) \in Nat, NEW S, NEW T, StartsOf(h, S), StartsOf(h, T)
  PROVE  S = T
<1> DEFINE D == {k \in 1 .. Len(h) : ~(k \in S <=> k \in T)}
<1>1. CASE D # {}
  <2>1. D \in SUBSET Nat
    OBVIOUS
  <2> HIDE DEF D
  <2>2. PICK x \in D : \A y \in D : x <= y
    BY <1>1, <2>1, LeastElement
  <2>3. x \in 1 .. Len(h) /\ ~(x \in S <=> x \in T)
    BY <2>2 DEF D
  <2>4. ASSUME NEW g \in 1 .. x - 1 PROVE g \in S <=> g \in T
    <3>1. g \in 1 .. Len(h) /\ ~(x <= g)
      BY <2>3
    <3>2. g \notin D
      BY <2>2, <3>1
    <3> QED BY <3>1, <3>2 DEF D
  <2>5. x \in S <=> x \in T
    BY <2>3, <2>4, Zenon DEF StartsOf
  <2> QED BY <2>3, <2>5
<1>2. CASE D = {}
  BY <1>2 DEF StartsOf
<1> QED BY <1>1, <1>2

LEMMA SameBoolean ==
  ASSUME NEW a \in BOOLEAN, NEW b \in BOOLEAN, a <=> b
  PROVE  a = b
OBVIOUS

LEMMA StartsChosen ==
  ASSUME NEW h, Len(h) \in Nat, NEW S, StartsOf(h, S)
  PROVE  PulseStarts(h) = S
<1> DEFINE s == [k \in 1 .. Len(h) |-> k \in S]
           r == CHOOSE x : Obeys(h, x)
           R == {k \in 1 .. Len(h) : r[k]}
<1>1. \A k \in 1 .. Len(h) : \A g \in 1 .. k - 1 : g \in 1 .. Len(h)
  OBVIOUS
<1>2. Obeys(h, s)
  <2> DEFINE e(k) == /\ Rising(h, k)
                     /\ \A g \in 1 .. k - 1 :
                          s[g] => \E j \in Expiries(h, g) : j < k
  <2>1. ASSUME NEW k \in 1 .. Len(h)
        PROVE  e(k) = (k \in S)
    <3>1. \A g \in 1 .. k - 1 : s[g] = (g \in S)
      BY <1>1
    <3> HIDE DEF s
    <3>2. e(k) <=> k \in S
      BY <3>1, Zenon DEF StartsOf
    <3>3. e(k) \in BOOLEAN /\ (k \in S) \in BOOLEAN
      OBVIOUS
    <3> HIDE DEF e
    <3> QED BY <3>2, <3>3, SameBoolean, Zenon
  <2> HIDE DEF e
  <2>2. s = [k \in 1 .. Len(h) |-> e(k)]
    BY <2>1, Zenon
  <2> QED BY <2>2 DEF Obeys, e
<1> HIDE DEF s
<1>3. Obeys(h, r)
  BY <1>2, Zenon
<1> HIDE DEF r
<1>4. StartsOf(h, R)
  <2>1. ASSUME NEW k \in 1 .. Len(h)
        PROVE  r[k] <=> /\ Rising(h, k)
                        /\ \A g \in 1 .. k - 1 :
                             r[g] => \E j \in Expiries(h, g) : j < k
    BY <1>3, Zenon DEF Obeys
  <2>2. \A k \in 1 .. Len(h) : k \in R <=> r[k]
    BY Zenon
  <2> HIDE DEF R
  <2>3. R \subseteq 1 .. Len(h)
    BY DEF R
  <2> QED BY <1>1, <2>1, <2>2, <2>3, Zenon DEF StartsOf
<1>5. PulseStarts(h) = R
  BY PulseStartsChosen DEF r
<1> QED BY <1>4, <1>5, StartsUnique

\* No pulse that has started is still running.
Quiet(h, S) == \A g \in S : Expiries(h, g) # {}

\* A call starts a pulse when it sees an edge and no pulse is running.
LEMMA StartsGrow ==
  ASSUME NEW h \in Seq(CallType), NEW c \in CallType, NEW S, StartsOf(h, S)
  PROVE  StartsOf(Append(h, c),
                  S \union IF c.in = TRUE /\ ~Saw(h) /\ Quiet(h, S)
                             THEN {Len(h) + 1} ELSE {})
<1> DEFINE n == Len(h)
           g == Append(h, c)
           starts == c.in = TRUE /\ ~Saw(h) /\ Quiet(h, S)
           T == S \union IF starts THEN {n + 1} ELSE {}
<1>1. /\ n \in Nat /\ Len(g) = n + 1 /\ g[n + 1] = c
      /\ \A i \in 1 .. n : g[i] = h[i]
  BY OneMoreCall
<1>2. S \subseteq 1 .. n
  BY DEF StartsOf
<1>3. ASSUME NEW f \in 1 .. n
      PROVE  /\ Expiries(h, f) \subseteq 1 .. n
             /\ Expiries(g, f) = Expiries(h, f)
                  \/ Expiries(g, f) = Expiries(h, f) \union {n + 1}
  <2>1. /\ Expiries(h, f) \subseteq 1 .. n
        /\ Expiries(g, f) = Expiries(h, f) \union
             IF h[f].at + c.pt <= c.at THEN {n + 1} ELSE {}
    BY ExpiriesGrow
  <2> HIDE DEF n, g
  <2> QED BY <2>1
<1>4. c.in \in BOOLEAN /\ (Saw(h) <=> n > 0 /\ h[n].in = TRUE)
  BY CallFields DEF Saw
<1>5. n > 0 => h[n].in \in BOOLEAN
  BY LastIn
<1> HIDE DEF n, g
<1>6. T \subseteq 1 .. n + 1
  BY <1>1, <1>2
<1>7. ASSUME NEW k \in 1 .. n
      PROVE  k \in T <=> /\ Rising(g, k)
                         /\ \A f \in 1 .. k - 1 :
                              f \in T => \E j \in Expiries(g, f) : j < k
  <2>1. k \in T <=> k \in S
    BY <1>1
  <2>2. Rising(g, k) <=> Rising(h, k)
    <3>1. g[k] = h[k] /\ (k # 1 => g[k - 1] = h[k - 1])
      BY <1>1
    <3> QED BY <3>1 DEF Rising
  <2>3. ASSUME NEW f \in 1 .. k - 1
        PROVE  /\ f \in T <=> f \in S
               /\ (\E j \in Expiries(g, f) : j < k) <=>
                    \E j \in Expiries(h, f) : j < k
    <3>1. f \in 1 .. n /\ f # n + 1
      BY <1>1
    <3>2. f \in T <=> f \in S
      BY <3>1
    <3>3. ~(n + 1 < k)
      BY <1>1
    <3> HIDE DEF T
    <3>4. CASE Expiries(g, f) = Expiries(h, f)
      BY <3>2, <3>4
    <3>5. CASE Expiries(g, f) = Expiries(h, f) \union {n + 1}
      BY <3>2, <3>3, <3>5
    <3> QED BY <1>3, <3>1, <3>4, <3>5
  <2>4. k \in S <=> /\ Rising(h, k)
                    /\ \A f \in 1 .. k - 1 :
                         f \in S => \E j \in Expiries(h, f) : j < k
    BY Zenon DEF StartsOf, n
  <2> HIDE DEF T
  <2> QED BY <2>1, <2>2, <2>3, <2>4, Zenon
<1>8. n + 1 \in T <=> /\ Rising(g, n + 1)
                      /\ \A f \in 1 .. n :
                           f \in T => \E j \in Expiries(g, f) : j < n + 1
  <2>1. n + 1 \in T <=> starts
    BY <1>1, <1>2
  <2>2. Rising(g, n + 1) <=> c.in = TRUE /\ ~Saw(h)
    <3>1. n = 0 => (Rising(g, n + 1) <=> c.in = TRUE)
      BY <1>1, <1>4 DEF Rising
    <3>2. n > 0 => (n + 1) - 1 = n /\ n + 1 # 1 /\ g[n] = h[n]
      BY <1>1
    <3>3. n > 0 => (Rising(g, n + 1) <=> c.in = TRUE /\ h[n].in = FALSE)
      BY <1>1, <1>4, <1>5, <3>2 DEF Rising
    <3> QED BY <1>1, <1>4, <1>5, <3>1, <3>3
  <2>3. ASSUME NEW f \in 1 .. n
        PROVE  /\ f \in T <=> f \in S
               /\ (\E j \in Expiries(g, f) : j < n + 1) <=> Expiries(h, f) # {}
    <3>1. f \in T <=> f \in S
      BY <1>1
    <3>2. \A j \in Expiries(h, f) : j < n + 1
      BY <1>1, <1>3
    <3>3. ~(n + 1 < n + 1)
      BY <1>1
    <3> HIDE DEF T
    <3>4. CASE Expiries(g, f) = Expiries(h, f)
      BY <3>1, <3>2, <3>4
    <3>5. CASE Expiries(g, f) = Expiries(h, f) \union {n + 1}
      BY <3>1, <3>2, <3>3, <3>5
    <3> QED BY <1>3, <3>4, <3>5
  <2>4. Quiet(h, S) <=> \A f \in 1 .. n : f \in S => Expiries(h, f) # {}
    BY <1>2 DEF Quiet
  <2> HIDE DEF T
  <2> QED BY <2>1, <2>2, <2>3, <2>4, Zenon
<1>9. \A k \in 1 .. n + 1 : k \in 1 .. n \/ (k = n + 1 /\ 1 .. k - 1 = 1 .. n)
  BY <1>1
<1> HIDE DEF T
<1>10. \A k \in 1 .. n + 1 :
         k \in T <=> /\ Rising(g, k)
                     /\ \A f \in 1 .. k - 1 :
                          f \in T => \E j \in Expiries(g, f) : j < k
  BY <1>7, <1>8, <1>9, Zenon
<1>11. StartsOf(g, T)
  BY <1>1, <1>6, <1>10, Zenon DEF StartsOf
<1> QED BY <1>11 DEF T, g, n

\* TP is timing exactly while one of the pulses that started still runs.
TpFollows(h, t, S) ==
  /\ t.prev = TRUE <=> Saw(h)
  /\ t.q = TRUE <=> t.state = 1
  /\ t.state = 2 => Saw(h)
  /\ t.state = 1 <=> ~Quiet(h, S)
  /\ \A g \in S : Expiries(h, g) = {} => t.start = h[g].at

LEMMA TpFollowsNext ==
  ASSUME NEW h \in Seq(CallType), NEW c \in CallType, NEW t \in TimerType,
         NEW S, StartsOf(h, S), TpFollows(h, t, S)
  PROVE  /\ TpCall(t, c.in, c.pt, c.at) \in TimerType
         /\ TpFollows(Append(h, c), TpCall(t, c.in, c.pt, c.at),
                      S \union IF c.in = TRUE /\ ~Saw(h) /\ Quiet(h, S)
                                 THEN {Len(h) + 1} ELSE {})
<1> DEFINE g == Append(h, c)
           u == TpCall(t, c.in, c.pt, c.at)
           T == S \union IF c.in = TRUE /\ ~Saw(h) /\ Quiet(h, S)
                           THEN {Len(h) + 1} ELSE {}
<1>1. /\ Len(h) \in Nat /\ Len(g) = Len(h) + 1 /\ g[Len(h) + 1] = c
      /\ c.in \in BOOLEAN /\ c.pt \in Int /\ c.at \in Int
      /\ \A i \in 1 .. Len(h) : g[i] = h[i]
  BY OneMoreCall, CallFields
<1>2. TpRuns(t, c.in, c.pt, c.at, u)
  BY <1>1, TpCallRuns
<1>3. /\ t.prev \in BOOLEAN /\ t.state \in 0 .. 2 /\ t.q \in BOOLEAN
      /\ S \subseteq 1 .. Len(h)
  BY DEF TimerType, StartsOf
<1>4. /\ t.prev = TRUE <=> Saw(h)
      /\ t.q = TRUE <=> t.state = 1
      /\ t.state = 2 => Saw(h)
      /\ t.state = 1 <=> ~Quiet(h, S)
      /\ \A f \in S : Expiries(h, f) = {} => t.start = h[f].at
  BY DEF TpFollows
<1>5. Saw(g) <=> c.in = TRUE
  BY SawNext
<1>6. /\ Expiries(g, Len(h) + 1) = {}
      /\ \A f \in 1 .. Len(h) :
           Expiries(g, f) = Expiries(h, f) \union
             IF h[f].at + c.pt <= c.at THEN {Len(h) + 1} ELSE {}
  BY ExpiriesGrow
<1>7. u \in TimerType /\ u.prev = c.in
  BY <1>2 DEF TpRuns
<1> HIDE DEF g, u
<1>8. u.prev = TRUE <=> Saw(g)
  BY <1>1, <1>5, <1>7
<1>9. CASE t.state = 1 /\ Elapsed(t, c.pt, c.at)
  <2>1. u.state = (IF c.in THEN 2 ELSE 0) /\ u.q = FALSE
    BY <1>2, <1>9 DEF TpRuns
  <2>2. T = S
    BY <1>4, <1>9
  <2>3. \A f \in S : Expiries(g, f) # {}
    <3> SUFFICES ASSUME NEW f \in S PROVE Expiries(g, f) # {}
      OBVIOUS
    <3>1. f \in 1 .. Len(h)
      BY <1>3
    <3>2. Expiries(h, f) = {} => h[f].at + c.pt <= c.at
      BY <1>4, <1>9 DEF Elapsed
    <3> QED BY <1>6, <3>1, <3>2
  <2>4. Quiet(g, S)
    BY <2>3 DEF Quiet
  <2>5. u.state # 1 /\ (u.state = 2 => c.in = TRUE)
    BY <1>1, <2>1
  <2>6. TpFollows(g, u, S)
    BY <1>5, <1>8, <2>1, <2>3, <2>4, <2>5 DEF TpFollows
  <2> QED BY <1>7, <2>2, <2>6 DEF g, u
<1>10. CASE t.state = 1 /\ ~Elapsed(t, c.pt, c.at)
  <2>1. u.state = 1 /\ u.q = t.q /\ u.start = t.start
    BY <1>2, <1>10 DEF TpRuns
  <2>2. T = S
    BY <1>4, <1>10
  <2>3. \A f \in S : /\ f \in 1 .. Len(h) /\ g[f] = h[f]
                     /\ Expiries(h, f) = {} <=> Expiries(g, f) = {}
    <3> SUFFICES ASSUME NEW f \in S
                 PROVE  /\ f \in 1 .. Len(h) /\ g[f] = h[f]
                        /\ Expiries(h, f) = {} <=> Expiries(g, f) = {}
      OBVIOUS
    <3>1. f \in 1 .. Len(h) /\ g[f] = h[f]
      BY <1>1, <1>3
    <3>2. Expiries(h, f) = {} => ~(h[f].at + c.pt <= c.at)
      BY <1>4, <1>10 DEF Elapsed
    <3> QED BY <1>6, <3>1, <3>2
  <2>4. ~Quiet(g, S)
    BY <1>4, <1>10, <2>3 DEF Quiet
  <2>5. TpFollows(g, u, S)
    BY <1>4, <1>8, <1>10, <2>1, <2>3, <2>4 DEF TpFollows
  <2> QED BY <1>7, <2>2, <2>5 DEF g, u
<1>11. CASE t.state # 1
  <2>1. Quiet(h, S)
    BY <1>4, <1>11
  <2>2. \A f \in S : /\ f \in 1 .. Len(h) /\ Expiries(g, f) # {}
    BY <1>3, <1>6, <2>1 DEF Quiet
  <2>3. CASE c.in = TRUE /\ ~Saw(h)
    <3>1. t.state = 0 /\ ~t.prev
      BY <1>3, <1>4, <1>11, <2>3
    <3>2. u.state = 1 /\ u.q = TRUE /\ u.start = c.at
      BY <1>2, <2>3, <3>1 DEF TpRuns
    <3>3. T = S \union {Len(h) + 1}
      BY <2>1, <2>3
    <3> HIDE DEF T
    <3>4. ~Quiet(g, T)
      BY <1>6, <3>3 DEF Quiet
    <3>5. \A f \in T : Expiries(g, f) = {} => u.start = g[f].at
      BY <1>1, <2>2, <3>2, <3>3
    <3>6. TpFollows(g, u, T)
      BY <1>8, <3>2, <3>4, <3>5 DEF TpFollows
    <3> QED BY <1>7, <3>6 DEF g, u, T
  <2>4. CASE ~(c.in = TRUE /\ ~Saw(h))
    <3>1. ~(t.state = 0 /\ ~t.prev /\ c.in)
      BY <1>1, <1>4, <2>4
    <3>2. u.state = (IF ~c.in /\ t.state = 2 THEN 0 ELSE t.state) /\ u.q = t.q
      BY <1>2, <1>11, <3>1 DEF TpRuns
    <3>3. T = S
      BY <2>4
    <3> HIDE DEF T
    <3>4. Quiet(g, S) /\ \A f \in S : Expiries(g, f) # {}
      BY <2>2 DEF Quiet
    <3>5. u.state # 1 /\ u.q # TRUE
      BY <1>4, <1>11, <3>2
    <3>6. u.state = 2 => c.in = TRUE
      BY <1>1, <3>2
    <3>7. TpFollows(g, u, S)
      BY <1>5, <1>8, <3>4, <3>5, <3>6 DEF TpFollows
    <3> QED BY <1>7, <3>3, <3>7 DEF g, u, T
  <2> QED BY <2>3, <2>4
<1> QED BY <1>9, <1>10, <1>11

LEMMA TpFollowsShows ==
  ASSUME NEW h \in Seq(CallType), NEW t \in TimerType, NEW S,
         StartsOf(h, S), TpFollows(h, t, S)
  PROVE  t.q <=> \E g \in PulseStarts(h) : Expiries(h, g) = {}
<1>1. PulseStarts(h) = S
  BY OneMoreCall, StartsChosen
<1>2. t.q \in BOOLEAN /\ (t.q = TRUE <=> ~Quiet(h, S))
  BY DEF TpFollows, TimerType
<1>3. t.q <=> ~Quiet(h, S)
  BY <1>2
<1> QED BY <1>1, <1>3, Zenon DEF Quiet
-----------------------------------------------------------------------------
(* The state invariant: while the instances are not retained, each timer    *)
(* and the history of calls agree.  A retained instance outlives the        *)
(* history, so there only its type is an invariant.                         *)

AllFollow ==
  /\ TonFollows(calls, ton)
  /\ TofFollows(calls, tof)
  /\ \E S : StartsOf(calls, S) /\ TpFollows(calls, tp, S)

TimersInv == TimersTypeOK /\ (~Retained => AllFollow)

LEMMA NewFollows ==
  /\ NewTimer \in TimerType
  /\ TonFollows(<<>>, NewTimer) /\ TofFollows(<<>>, NewTimer)
  /\ StartsOf(<<>>, {}) /\ TpFollows(<<>>, NewTimer, {})
<1>1. NewTimer \in TimerType
  BY DEF NewTimer, TimerType
<1>2. /\ NewTimer.state = 0 /\ NewTimer.prev = FALSE /\ NewTimer.q = FALSE
      /\ NewTimer.et = 0
  BY DEF NewTimer
<1>3. ~Saw(<<>>) /\ 1 .. Len(<<>>) = {} /\ Quiet(<<>>, {})
  BY DEF Saw, Quiet
<1> QED BY <1>1, <1>2, <1>3 DEF TonFollows, TofFollows, StartsOf, TpFollows

LEMMA TimersInitInv == TimersInit => TimersInv
<1> SUFFICES ASSUME TimersInit PROVE TimersInv
  OBVIOUS
<1>1. now \in Nat /\ calls \in Seq(CallType) /\ calls = <<>>
  BY DEF TimersInit
<1>2. ton = NewTimer /\ tof = NewTimer /\ tp = NewTimer
  BY DEF TimersInit
<1> QED BY <1>1, <1>2, NewFollows DEF TimersInv, TimersTypeOK, AllFollow

LEMMA TimersNextInv == TimersInv /\ [TimersNext]_timerVars => TimersInv'
<1> SUFFICES ASSUME TimersInv, [TimersNext]_timerVars PROVE TimersInv'
  OBVIOUS
<1>1. /\ now \in Nat /\ calls \in Seq(CallType)
      /\ ton \in TimerType /\ tof \in TimerType /\ tp \in TimerType
      /\ ~Retained => AllFollow
  BY DEF TimersInv, TimersTypeOK
<1>2. CASE ClockAdvances
  <2>1. now' \in Nat /\ UNCHANGED <<ton, tof, tp, calls>>
    BY <1>1, <1>2 DEF ClockAdvances
  <2> QED BY <1>1, <2>1 DEF TimersInv, TimersTypeOK, AllFollow
<1>3. CASE PowerCycle
  <2>1. now' = 0 /\ calls' = <<>> /\ calls' \in Seq(CallType)
    BY <1>3 DEF PowerCycle
  <2>2. CASE Retained
    <3>1. ton' = ton /\ tof' = tof /\ tp' = tp
      BY <1>3, <2>2 DEF PowerCycle, AfterRestart
    <3> QED BY <1>1, <2>1, <2>2, <3>1 DEF TimersInv, TimersTypeOK
  <2>3. CASE ~Retained
    <3>1. ton' = NewTimer /\ tof' = NewTimer /\ tp' = NewTimer
      BY <1>3, <2>3 DEF PowerCycle, AfterRestart
    <3> QED BY <2>1, <3>1, NewFollows DEF TimersInv, TimersTypeOK, AllFollow
  <2> QED BY <2>2, <2>3
<1>4. ASSUME NEW in \in BOOLEAN, NEW pt \in TimerPresets, TimersCall(in, pt)
      PROVE  TimersInv'
  <2> DEFINE c == [in |-> in, pt |-> pt, at |-> now]
  <2>1. c \in CallType /\ c.in = in /\ c.pt = pt /\ c.at = now
    BY <1>1 DEF CallType
  <2>2. /\ ton' = TonCall(ton, c.in, c.pt, c.at)
        /\ tof' = TofCall(tof, c.in, c.pt, c.at)
        /\ tp' = TpCall(tp, c.in, c.pt, c.at)
        /\ calls' = Append(calls, c) /\ now' = now
    BY <1>4 DEF TimersCall
  <2> HIDE DEF c
  <2>3. ton' \in TimerType /\ tof' \in TimerType /\ tp' \in TimerType
    <3>1. c.in \in BOOLEAN /\ c.pt \in Int /\ c.at \in Int
      BY <2>1, CallFields
    <3>2. TonRuns(ton, c.in, c.pt, c.at, ton')
      BY <1>1, <2>2, <3>1, TonCallRuns
    <3>3. TofRuns(tof, c.in, c.pt, c.at, tof')
      BY <1>1, <2>2, <3>1, TofCallRuns
    <3>4. TpRuns(tp, c.in, c.pt, c.at, tp')
      BY <1>1, <2>2, <3>1, TpCallRuns
    <3>5. ton' \in TimerType
      <4>1. CASE ~c.in
        BY <3>2, <4>1 DEF TonRuns, Fields
      <4>2. CASE c.in /\ ~(ton.state = 0 /\ ~ton.prev)
        BY <3>2, <4>2 DEF TonRuns, Fields
      <4>3. CASE c.in /\ ton.state = 0 /\ ~ton.prev
        BY <3>2, <4>3 DEF TonRuns, Fields
      <4> QED BY <4>1, <4>2, <4>3
    <3>6. tof' \in TimerType
      <4>1. CASE c.in
        BY <3>3, <4>1 DEF TofRuns, Fields
      <4>2. CASE ~c.in /\ ~(tof.state = 0 /\ tof.prev)
        BY <3>3, <4>2 DEF TofRuns, Fields
      <4>3. CASE ~c.in /\ tof.state = 0 /\ tof.prev
        BY <3>3, <4>3 DEF TofRuns, Fields
      <4> QED BY <4>1, <4>2, <4>3
    <3> QED BY <3>4, <3>5, <3>6 DEF TpRuns
  <2>4. calls' \in Seq(CallType) /\ now' \in Nat
    BY <1>1, <2>1, <2>2, OneMoreCall
  <2>5. ASSUME ~Retained PROVE AllFollow'
    <3>1. TonFollows(calls, ton) /\ TofFollows(calls, tof)
      BY <1>1, <2>5 DEF AllFollow
    <3>2. PICK S : StartsOf(calls, S) /\ TpFollows(calls, tp, S)
      BY <1>1, <2>5 DEF AllFollow
    <3>3. TonFollows(calls', ton')
      BY <1>1, <2>1, <2>2, <3>1, TonFollowsNext
    <3>4. TofFollows(calls', tof')
      BY <1>1, <2>1, <2>2, <3>1, TofFollowsNext
    <3> DEFINE T == S \union IF c.in = TRUE /\ ~Saw(calls) /\ Quiet(calls, S)
                               THEN {Len(calls) + 1} ELSE {}
    <3>5. StartsOf(calls', T)
      BY <1>1, <2>1, <2>2, <3>2, StartsGrow
    <3>6. TpFollows(calls', tp', T)
      BY <1>1, <2>1, <2>2, <3>2, TpFollowsNext
    <3> HIDE DEF T
    <3> QED BY <3>3, <3>4, <3>5, <3>6 DEF AllFollow
  <2> QED BY <2>3, <2>4, <2>5 DEF TimersInv, TimersTypeOK
<1>5. CASE UNCHANGED timerVars
  BY <1>1, <1>5 DEF timerVars, TimersInv, TimersTypeOK, AllFollow
<1> QED BY <1>2, <1>3, <1>4, <1>5 DEF TimersNext

LEMMA TimersInvariant == TimersSpec => []TimersInv
<1>1. TimersInit => TimersInv
  BY TimersInitInv
<1>2. TimersInv /\ [TimersNext]_timerVars => TimersInv'
  BY TimersNextInv
<1> QED BY <1>1, <1>2, PTL DEF TimersSpec

\* Every call leaves each instance in one of its three states, and every call
\* of the history has its inputs and its time (timer.st).
THEOREM TimersTypeCorrect == TimersSpec => []TimersTypeOK
<1>1. TimersInv => TimersTypeOK
  BY DEF TimersInv
<1> QED BY <1>1, TimersInvariant, PTL

\* For every preset, every order of calls and clock readings and any number of
\* power cycles: TON shows what its calls since power-up say (timer.st, TON).
THEOREM TonFollowsItsHistory == TimersSpec => []TonFollowsHistory
<1>1. TimersInv => TonFollowsHistory
  <2> SUFFICES ASSUME TimersInv, ~Retained PROVE TonShows(calls, ton)
    BY DEF TonFollowsHistory
  <2>1. calls \in Seq(CallType) /\ ton \in TimerType /\ TonFollows(calls, ton)
    BY DEF TimersInv, TimersTypeOK, AllFollow
  <2> QED BY <2>1, TonFollowsShows
<1> QED BY <1>1, TimersInvariant, PTL

\* The same of TOF: TRUE while IN is and until a call after its falling edge
\* finds the preset elapsed, FALSE before IN was ever TRUE (timer.st, TOF).
THEOREM TofFollowsItsHistory == TimersSpec => []TofFollowsHistory
<1>1. TimersInv => TofFollowsHistory
  <2> SUFFICES ASSUME TimersInv, ~Retained PROVE TofShows(calls, tof)
    BY DEF TofFollowsHistory
  <2>1. calls \in Seq(CallType) /\ tof \in TimerType /\ TofFollows(calls, tof)
    BY DEF TimersInv, TimersTypeOK, AllFollow
  <2> QED BY <2>1, TofFollowsShows
<1> QED BY <1>1, TimersInvariant, PTL

\* The same of TP: TRUE while one of the pulses its calls started has not been
\* found elapsed, an edge during a pulse starting none (timer.st, TP).
THEOREM TpFollowsItsHistory == TimersSpec => []TpFollowsHistory
<1>1. TimersInv => TpFollowsHistory
  <2> SUFFICES ASSUME TimersInv, ~Retained
               PROVE  tp.q <=> \E g \in PulseStarts(calls) : Expiries(calls, g) = {}
    BY DEF TpFollowsHistory
  <2>1. /\ calls \in Seq(CallType) /\ tp \in TimerType
        /\ \E S : StartsOf(calls, S) /\ TpFollows(calls, tp, S)
    BY DEF TimersInv, TimersTypeOK, AllFollow
  <2> QED BY <2>1, TpFollowsShows
<1> QED BY <1>1, TimersInvariant, PTL

\* A call starts a timer now or leaves the time it began.
LEMMA StartsNowOrBefore ==
  ASSUME NEW t \in TimerType, NEW in \in BOOLEAN, NEW pt \in Int, NEW n \in Int,
         t.state = 1 => t.start <= n
  PROVE  /\ TonCall(t, in, pt, n).state = 1 => TonCall(t, in, pt, n).start <= n
         /\ TofCall(t, in, pt, n).state = 1 => TofCall(t, in, pt, n).start <= n
         /\ TpCall(t, in, pt, n).state = 1 => TpCall(t, in, pt, n).start <= n
<1> DEFINE a == TonCall(t, in, pt, n)
           b == TofCall(t, in, pt, n)
           c == TpCall(t, in, pt, n)
<1>1. TonRuns(t, in, pt, n, a) /\ TofRuns(t, in, pt, n, b) /\ TpRuns(t, in, pt, n, c)
  BY TonCallRuns, TofCallRuns, TpCallRuns
<1> HIDE DEF a, b, c
<1>2. a.state = 1 => a.start <= n
  BY <1>1 DEF TonRuns, Fields
<1>3. b.state = 1 => b.start <= n
  BY <1>1 DEF TofRuns, Fields
<1>4. c.state = 1 => c.start <= n
  BY <1>1 DEF TpRuns
<1> QED BY <1>2, <1>3, <1>4 DEF a, b, c

\* An instance that is not retained never times from a moment to come: what
\* the restored one does (the restart of the clock at zero) is due to the
\* retention alone.
THEOREM UnretainedBeganInThePast ==
  ASSUME ~Retained
  PROVE  TimersSpec => []BeganInThePast
<1>1. TimersInit => BeganInThePast
  <2> SUFFICES ASSUME TimersInit PROVE BeganInThePast
    OBVIOUS
  <2>1. NewTimer.state = 0
    BY DEF NewTimer
  <2> QED BY <2>1 DEF TimersInit, BeganInThePast
<1>2. TimersTypeOK /\ BeganInThePast /\ [TimersNext]_timerVars => BeganInThePast'
  <2> SUFFICES ASSUME TimersTypeOK, BeganInThePast, [TimersNext]_timerVars
               PROVE  BeganInThePast'
    OBVIOUS
  <2>1. /\ now \in Nat
        /\ ton \in TimerType /\ tof \in TimerType /\ tp \in TimerType
        /\ ton.start \in Int /\ tof.start \in Int /\ tp.start \in Int
        /\ ton.state = 1 => ton.start <= now
        /\ tof.state = 1 => tof.start <= now
        /\ tp.state = 1 => tp.start <= now
    BY DEF TimersTypeOK, BeganInThePast, TimerType
  <2>2. CASE ClockAdvances
    <3>1. now' = now + 1 /\ UNCHANGED <<ton, tof, tp>>
      BY <2>2 DEF ClockAdvances
    <3> QED BY <2>1, <3>1 DEF BeganInThePast
  <2>3. CASE PowerCycle
    <3>1. ton' = NewTimer /\ tof' = NewTimer /\ tp' = NewTimer
      BY <2>3 DEF PowerCycle, AfterRestart
    <3>2. NewTimer.state = 0
      BY DEF NewTimer
    <3> QED BY <3>1, <3>2 DEF BeganInThePast
  <2>4. ASSUME NEW in \in BOOLEAN, NEW pt \in TimerPresets, TimersCall(in, pt)
        PROVE  BeganInThePast'
    <3>1. /\ ton' = TonCall(ton, in, pt, now) /\ tof' = TofCall(tof, in, pt, now)
          /\ tp' = TpCall(tp, in, pt, now) /\ now' = now
      BY <2>4 DEF TimersCall
    <3>2. pt \in Int /\ now \in Int
      BY <2>1, TimerPresetAssumption
    <3>3. /\ ton'.state = 1 => ton'.start <= now
          /\ tof'.state = 1 => tof'.start <= now
          /\ tp'.state = 1 => tp'.start <= now
      BY <2>1, <3>1, <3>2, StartsNowOrBefore
    <3> QED BY <3>1, <3>3 DEF BeganInThePast
  <2>5. CASE UNCHANGED timerVars
    BY <2>5 DEF timerVars, BeganInThePast
  <2> QED BY <2>2, <2>3, <2>4, <2>5 DEF TimersNext
<1> QED BY <1>1, <1>2, TimersTypeCorrect, PTL DEF TimersSpec

-----------------------------------------------------------------------------
(***************************************************************************)
(* The axis.  The mode the blocks ask for (axis), the one the drive was    *)
(* last sent (word), the one it is in (drv) and the one it shows (seen)    *)
(* are one mode, except during the three scans a change takes: Changed     *)
(* from the block that asks to the end of the scan, InFlight while the     *)
(* drive has been sent the new mode and is in the old one, Taken until the *)
(* blocks see it.  All the while the block that asked is executed and has  *)
(* not answered, so no other one starts; and operation is not enabled in   *)
(* the word that carries the change, since MC_Power, which had shown       *)
(* Status when the block started, is not yet back in its state 40.         *)
(***************************************************************************)

State(b) == IF b = "home" THEN hm.i ELSE mv[b].i
Called(b) == \E k \in 1 .. Len(order) : k <= pc /\ order[k] = b
InCharge(b) == State(b) = 10 \/ (b = "home" /\ State(b) = 20)
Waits(b) == cmd[b] = TRUE /\ ~Answered(b)

Settled == axis.mode = word.mode /\ word.mode = drv.mode /\ drv.mode = seen.mode

\* MC_Power in the scan a motion starts, and in the one its mode changes.
PowerFresh ==
  /\ Called("power") => pwr.i # 40
  /\ ~Called("power") => pwr.i # 30 /\ pwr.i # 40
PowerLater == ~Called("power") => pwr.i # 40

Asked == Motions \cup {"no"}
AxisType ==
  [so : BOOLEAN, ev : BOOLEAN, eo : BOOLEAN, fr : BOOLEAN, strobe : Asked, mode : Int]
DriveType ==
  [level : Nat, fault : BOOLEAN, mode : Int, strobe : BOOLEAN, moves : Asked,
   homed : BOOLEAN, bit13 : BOOLEAN]
MoveType == [i : Nat, error : BOOLEAN]
TimedType == [i : Nat, t : Nat, done : BOOLEAN, error : BOOLEAN]

MotionShape ==
  /\ order \in Orders
  /\ pc \in 0 .. Len(order) + 1
  /\ cmd \in Commands
  /\ axis \in AxisType /\ word \in AxisType
  /\ drv \in DriveType /\ seen \in DriveType
  /\ pwr \in TimedType /\ mv \in [Moves -> MoveType] /\ hm \in TimedType

Exclusive == \A a, b \in Motions : cmd[a] = TRUE /\ cmd[b] = TRUE => a = b

Programmed ==
  \A b \in Motions : cmd[b] = TRUE => \E k \in 1 .. Len(order) : order[k] = b

Held == \A b \in Motions : InCharge(b) => Waits(b)

PowerUp == pwr.i \in {10, 20, 30, 40} => pwr.done = FALSE

Started ==
  \A b \in Motions : cmd[b] = TRUE /\ State(b) = 0 => ~Called(b) /\ Settled /\ PowerFresh

Pending ==
  \A b \in Motions : State(b) = 10 /\ axis.mode # Mode[b] =>
    /\ Settled
    /\ Called(b) => PowerFresh
    /\ ~Called(b) => PowerLater

Changed ==
  /\ axis.mode # word.mode /\ word.mode = drv.mode /\ drv.mode = seen.mode
  /\ axis.eo = FALSE /\ PowerLater
  /\ \E b \in Motions : Called(b) /\ Waits(b) /\ InCharge(b) /\ Mode[b] = axis.mode

InFlight ==
  /\ pc <= Len(order)
  /\ axis.mode = word.mode /\ word.mode # drv.mode /\ drv.mode = seen.mode
  /\ word.eo = FALSE
  /\ \E b \in Motions : Waits(b) /\ (Called(b) \/ InCharge(b)) /\ Mode[b] = axis.mode

Taken ==
  /\ pc = Len(order) + 1
  /\ axis.mode = word.mode /\ word.mode = drv.mode
  /\ \E b \in Motions : Waits(b) /\ Mode[b] = axis.mode

Phase == Settled \/ Changed \/ InFlight \/ Taken

MotionInv ==
  /\ MotionShape /\ Exclusive /\ Programmed /\ Held /\ PowerUp
  /\ Started /\ Pending /\ Phase

-----------------------------------------------------------------------------
LEMMA OrderIsProgram ==
  ASSUME MotionShape
  PROVE  /\ Len(order) \in Nat /\ pc \in Int
         /\ \A i, j \in 1 .. Len(order) : order[i] = order[j] => i = j
BY MotionAssumption DEF MotionShape

LEMMA ModesDiffer ==
  /\ Mode["position"] = 1 /\ Mode["velocity"] = 3 /\ Mode["home"] = 6
  /\ \A b \in Motions : Mode[b] \in Int
BY DEF Mode, Motions, Moves

\* A turn calls its block, which had not been called in this scan.
LEMMA TurnCalls ==
  ASSUME MotionShape, NEW b, Turn(b)
  PROVE  /\ ~Called(b) /\ Called(b)'
         /\ \A c : c # b => (Called(c)' <=> Called(c))
         /\ pc <= Len(order) /\ pc' \in 0 .. Len(order) + 1 /\ pc' <= Len(order)
<1>1. /\ Len(order) \in Nat /\ pc \in Int /\ pc \in 0 .. Len(order) + 1
      /\ \A i, j \in 1 .. Len(order) : order[i] = order[j] => i = j
  BY OrderIsProgram DEF MotionShape
<1>2. pc < Len(order) /\ order[pc + 1] = b /\ pc' = pc + 1 /\ order' = order
  BY DEF Turn
<1>3. pc + 1 \in 1 .. Len(order)
  BY <1>1, <1>2
<1>4. ~Called(b)
  <2>1. ASSUME NEW k \in 1 .. Len(order), k <= pc, order[k] = b PROVE FALSE
    <3>1. k = pc + 1
      BY <1>1, <1>2, <1>3, <2>1
    <3> QED BY <1>1, <2>1, <3>1
  <2> QED BY <2>1 DEF Called
<1>5. Called(b)'
  <2>1. pc + 1 <= pc'
    BY <1>1, <1>2
  <2> QED BY <1>2, <1>3, <2>1 DEF Called
<1>6. ASSUME NEW c, c # b PROVE Called(c)' <=> Called(c)
  <2>1. \A k \in 1 .. Len(order) : order[k] = c => (k <= pc' <=> k <= pc)
    <3>1. TAKE k \in 1 .. Len(order)
    <3>2. HAVE order[k] = c
    <3>3. k # pc + 1
      BY <1>2, <1>6, <3>2
    <3> QED BY <1>1, <1>2, <3>3
  <2> QED BY <1>2, <2>1 DEF Called
<1> QED
  BY <1>1, <1>2, <1>4, <1>5, <1>6

\* What the call of a motion block does to the axis, to its own state and to
\* the others.
MotionCall(b) ==
  /\ pwr' = pwr
  /\ \A c \in Motions : c # b => State(c)' = State(c) /\ (Answered(c)' <=> Answered(c))
  /\ State(b) = 10 => axis'.mode = Mode[b] /\ (seen.mode # Mode[b] => axis'.eo = FALSE)
  /\ State(b) # 10 => axis'.mode = axis.mode /\ (axis.eo = FALSE => axis'.eo = FALSE)
  /\ InCharge(b)' => (InCharge(b) \/ (State(b) = 0 /\ cmd[b] = TRUE)) /\ ~Answered(b)'
  /\ InCharge(b) /\ seen.mode # Mode[b] => ~Answered(b)' /\ (State(b) = 10 => InCharge(b)')
  /\ cmd[b] = TRUE => State(b)' # 0
  /\ State(b)' = 10 => State(b) = 0 \/ State(b) = 10

LEMMA StrobedTyped ==
  ASSUME NEW b \in Moves, NEW x, axis \in AxisType
  PROVE  Strobed(b, x) \in Asked
<1>1. b \in Asked /\ "no" \in Asked /\ axis.strobe \in Asked
  BY DEF AxisType, Asked, Motions
<1> QED BY <1>1 DEF Strobed

\* The steps a profile block may take, by the state it is in.
MoveStep(b) ==
  /\ axis' \in AxisType /\ mv'[b] \in MoveType
  /\ mv' = [mv EXCEPT ![b] = mv'[b]]
  /\ mv[b].i \in {0, 10, 20, 999}
  /\ mv[b].i = 0 =>
       /\ axis'.mode = axis.mode /\ (axis.eo = FALSE => axis'.eo = FALSE)
       /\ mv'[b].error = FALSE
       /\ cmd[b] = TRUE => mv'[b].i = 10 \/ mv'[b].i = 999
       /\ cmd[b] = FALSE => mv'[b].i = 0
  /\ mv[b].i = 10 =>
       /\ axis'.mode = Mode[b] /\ (seen.mode # Mode[b] => axis'.eo = FALSE)
       /\ mv'[b].error = mv[b].error
       /\ mv'[b].i = 10 \/ (mv'[b].i = 20 /\ seen.mode = Mode[b])
  /\ mv[b].i = 20 =>
       /\ axis'.mode = axis.mode /\ axis'.eo = axis.eo
       /\ mv'[b].i # 10 /\ (cmd[b] = TRUE => mv'[b].i # 0)
  /\ mv[b].i = 999 =>
       /\ axis'.mode = axis.mode /\ axis'.eo = axis.eo
       /\ mv'[b].i # 10 /\ (cmd[b] = TRUE => mv'[b].i # 0)

LEMMA MoveEffects ==
  ASSUME NEW b \in Moves, MotionShape, CallMove(b)
  PROVE  MoveStep(b)
<1>1. /\ axis \in AxisType /\ mv \in [Moves -> MoveType] /\ cmd[b] \in BOOLEAN
      /\ mv[b].i \in Nat /\ mv[b].error \in BOOLEAN
  BY DEF MotionShape, AxisType, MoveType, Commands, Moves
<1>2. Mode[b] \in Int /\ \A x : Strobed(b, x) \in Asked
  BY <1>1, StrobedTyped, ModesDiffer DEF Motions
<1>3. CASE MoveStart(b)
  <2>1. TakesOver(b) = "refused" \/ TakesOver(b) = "ready" \/ TakesOver(b) = "switch"
    BY DEF TakesOver
  <2>2. Entered(b) = 10 \/ Entered(b) = 999
    BY DEF Entered
  <2> DEFINE e == axis.eo /\ ~(cmd[b] /\ TakesOver(b) = "switch")
             n == [i |-> IF cmd[b] THEN Entered(b) ELSE 0, error |-> FALSE]
  <2>3. /\ mv[b].i = 0 /\ axis' = [axis EXCEPT !.strobe = Strobed(b, cmd[b]), !.eo = e]
        /\ mv' = [mv EXCEPT ![b] = n]
    BY <1>3 DEF MoveStart
  <2>4. e \in BOOLEAN /\ (axis.eo = FALSE => e = FALSE)
    OBVIOUS
  <2>5. /\ n \in MoveType /\ n.error = FALSE
        /\ cmd[b] = TRUE => n.i = 10 \/ n.i = 999
        /\ cmd[b] = FALSE => n.i = 0
    BY <1>1, <2>2 DEF MoveType
  <2> HIDE DEF e, n
  <2>6. axis' \in AxisType /\ axis'.mode = axis.mode /\ axis'.eo = e
    BY <1>1, <1>2, <2>3, <2>4 DEF AxisType
  <2>7. mv'[b] = n /\ mv' = [mv EXCEPT ![b] = mv'[b]]
    <3>1. mv'[b] = n
      BY <1>1, <2>3
    <3> QED BY <2>3, <3>1
  <2> QED BY <2>3, <2>4, <2>5, <2>6, <2>7 DEF MoveStep
<1>4. CASE MoveSetMode(b)
  <2> DEFINE n == IF seen.level = 3 /\ seen.mode = Mode[b] THEN 20 ELSE 10
             e == seen.mode = Mode[b]
  <2>1. /\ mv[b].i = 10
        /\ axis' = [axis EXCEPT !.strobe = Strobed(b, cmd[b]), !.mode = Mode[b], !.eo = e]
        /\ mv' = [mv EXCEPT ![b].i = n]
    BY <1>4 DEF MoveSetMode
  <2>2. n \in Nat /\ (n = 10 \/ (n = 20 /\ seen.mode = Mode[b]))
    OBVIOUS
  <2>3. e \in BOOLEAN /\ (seen.mode # Mode[b] => e = FALSE)
    OBVIOUS
  <2> HIDE DEF e, n
  <2>4. axis' \in AxisType /\ axis'.mode = Mode[b] /\ axis'.eo = e
    BY <1>1, <1>2, <2>1, <2>3 DEF AxisType
  <2>5. /\ mv'[b] \in MoveType /\ mv'[b].i = n /\ mv'[b].error = mv[b].error
        /\ mv' = [mv EXCEPT ![b] = mv'[b]]
    BY <1>1, <2>1, <2>2 DEF MoveType
  <2> QED BY <2>1, <2>2, <2>3, <2>4, <2>5 DEF MoveStep
<1>5. CASE MoveRun(b)
  <2> DEFINE n == IF MoveStops(b) THEN 999 ELSE IF cmd[b] THEN 20 ELSE 0
  <2>1. /\ mv[b].i = 20
        /\ axis' = [axis EXCEPT !.strobe = Strobed(b, cmd[b])]
        /\ mv' = [mv EXCEPT ![b].i = n]
    BY <1>5 DEF MoveRun
  <2>2. n \in Nat /\ n # 10 /\ (cmd[b] = TRUE => n # 0)
    OBVIOUS
  <2> HIDE DEF n
  <2>3. axis' \in AxisType /\ axis'.mode = axis.mode /\ axis'.eo = axis.eo
    BY <1>1, <1>2, <2>1 DEF AxisType
  <2>4. mv'[b] \in MoveType /\ mv'[b].i = n /\ mv' = [mv EXCEPT ![b] = mv'[b]]
    BY <1>1, <2>1, <2>2 DEF MoveType
  <2> QED BY <2>1, <2>2, <2>3, <2>4 DEF MoveStep
<1>6. CASE MoveFailed(b)
  <2> DEFINE n == [i |-> IF cmd[b] THEN 999 ELSE 0, error |-> TRUE]
  <2>1. /\ mv[b].i = 999
        /\ axis' = [axis EXCEPT !.strobe = Strobed(b, cmd[b])]
        /\ mv' = [mv EXCEPT ![b] = n]
    BY <1>6 DEF MoveFailed
  <2>2. n \in MoveType /\ n.i # 10 /\ (cmd[b] = TRUE => n.i # 0)
    BY DEF MoveType
  <2> HIDE DEF n
  <2>3. axis' \in AxisType /\ axis'.mode = axis.mode /\ axis'.eo = axis.eo
    BY <1>1, <1>2, <2>1 DEF AxisType
  <2>4. mv'[b] = n /\ mv' = [mv EXCEPT ![b] = mv'[b]]
    <3>1. mv'[b] = n
      BY <1>1, <2>1
    <3> QED BY <2>1, <3>1
  <2> QED BY <2>1, <2>2, <2>3, <2>4 DEF MoveStep
<1> QED
  BY <1>3, <1>4, <1>5, <1>6 DEF CallMove

LEMMA TicksTyped ==
  ASSUME NEW t \in Nat, NEW in, NEW limit \in Nat
  PROVE  Ticks(t, in, limit) \in Nat
BY DEF Ticks

\* The steps homing may take.
HomeStep ==
  /\ axis' \in AxisType /\ hm' \in TimedType
  /\ hm.i \in {0, 10, 20, 30, 999}
  /\ hm.i = 0 =>
       /\ axis'.mode = axis.mode /\ (axis.eo = FALSE => axis'.eo = FALSE)
       /\ hm'.error = FALSE /\ hm'.done = FALSE
       /\ cmd["home"] = TRUE => hm'.i = 10 \/ hm'.i = 999
       /\ cmd["home"] = FALSE => hm'.i = 0
  /\ hm.i = 10 =>
       /\ axis'.mode = Mode["home"] /\ (seen.mode # Mode["home"] => axis'.eo = FALSE)
       /\ hm'.error = hm.error /\ hm'.done = hm.done
       /\ hm'.i = 10 \/ hm'.i = 20
  /\ hm.i = 20 =>
       /\ axis'.mode = axis.mode /\ axis'.eo = axis.eo
       /\ hm'.error = hm.error /\ hm'.done = hm.done
       /\ hm'.i \in {20, 30, 999}
  /\ hm.i \in {30, 999} =>
       /\ axis'.mode = axis.mode /\ axis'.eo = axis.eo
       /\ hm'.i \in {0, hm.i} /\ (cmd["home"] = TRUE => hm'.i # 0)

LEMMA HomeEffects ==
  ASSUME MotionShape, CallHome
  PROVE  HomeStep
<1>1. /\ axis \in AxisType /\ hm \in TimedType /\ cmd.home \in BOOLEAN
      /\ hm.i \in Nat /\ hm.t \in Nat /\ hm.error \in BOOLEAN /\ hm.done \in BOOLEAN
      /\ cmd["home"] = cmd.home
  BY DEF MotionShape, TimedType, Commands
<1>2. Mode.home \in Int /\ Mode.home = Mode["home"] /\ "no" \in Asked /\ "home" \in Asked
  BY ModesDiffer DEF Motions, Asked
<1>3. CASE HomeStart
  <2>1. Entered("home") = 10 \/ Entered("home") = 999
    BY DEF Entered
  <2> DEFINE e == axis.eo /\ ~(cmd.home /\ TakesOver("home") = "switch")
             n == IF cmd.home THEN Entered("home") ELSE 0
  <2>2. /\ hm.i = 0 /\ axis' = [axis EXCEPT !.eo = e]
        /\ hm' = [hm EXCEPT !.done = FALSE, !.error = FALSE, !.i = n]
    BY <1>3 DEF HomeStart
  <2>3. /\ e \in BOOLEAN /\ (axis.eo = FALSE => e = FALSE)
        /\ n \in Nat
        /\ cmd.home = TRUE => n = 10 \/ n = 999
        /\ cmd.home = FALSE => n = 0
    BY <2>1
  <2> HIDE DEF e, n
  <2>4. axis' \in AxisType /\ axis'.mode = axis.mode /\ axis'.eo = e
    BY <1>1, <2>2, <2>3 DEF AxisType
  <2>5. hm' \in TimedType /\ hm'.done = FALSE /\ hm'.error = FALSE /\ hm'.i = n
    <3>1. hm' \in TimedType
      <4>1. n \in Nat /\ hm \in TimedType
        BY <1>1, <2>3
      <4>2. hm' = [hm EXCEPT !.done = FALSE, !.error = FALSE, !.i = n]
        BY <2>2
      <4> QED BY ONLY <4>1, <4>2 DEF TimedType
    <3>2. hm'.done = FALSE /\ hm'.error = FALSE
      BY <1>1, <2>2 DEF TimedType
    <3>3. hm'.i = n
      BY <1>1, <2>2 DEF TimedType
    <3> QED BY <3>1, <3>2, <3>3
  <2> QED BY <1>1, <2>2, <2>3, <2>4, <2>5 DEF HomeStep
<1>4. CASE HomeSetMode
  <2> DEFINE e == seen.mode = Mode.home
             n == IF seen.level = 3 THEN 20 ELSE 10
  <2>1. /\ hm.i = 10
        /\ axis' = [axis EXCEPT !.strobe = "no", !.mode = Mode.home, !.eo = e]
        /\ hm' = [hm EXCEPT !.i = n]
    BY <1>4 DEF HomeSetMode
  <2>2. /\ e \in BOOLEAN /\ (seen.mode # Mode.home => e = FALSE)
        /\ n \in Nat /\ (n = 10 \/ n = 20)
    OBVIOUS
  <2> HIDE DEF e, n
  <2>3. axis' \in AxisType /\ axis'.mode = Mode.home /\ axis'.eo = e
    BY <1>1, <1>2, <2>1, <2>2 DEF AxisType
  <2>4. hm' \in TimedType /\ hm'.done = hm.done /\ hm'.error = hm.error /\ hm'.i = n
    BY <1>1, <2>1, <2>2 DEF TimedType
  <2> QED BY <1>2, <2>1, <2>2, <2>3, <2>4 DEF HomeStep
<1>5. CASE HomeRun
  <2> DEFINE t == Ticks(hm.t, seen.moves = "no", HomeTimeout)
             s == IF seen.homed THEN "no" ELSE "home"
             n == IF \/ Expired(t, HomeTimeout) \/ ~cmd.home
                     \/ seen.fault \/ seen.bit13
                  THEN 999 ELSE 20
  <2>1. t \in Nat
    BY <1>1, TicksTyped, MotionAssumption
  <2>2. s \in Asked /\ n \in Nat /\ (n = 20 \/ n = 999)
    BY <1>2
  <2>3. /\ hm.i = 20 /\ axis' = [axis EXCEPT !.strobe = s]
        /\ hm' = IF seen.homed THEN [hm EXCEPT !.t = 0, !.i = 30]
                 ELSE [hm EXCEPT !.t = t, !.i = n]
    BY <1>5 DEF HomeRun
  <2> HIDE DEF t, s, n
  <2>4. axis' \in AxisType /\ axis'.mode = axis.mode /\ axis'.eo = axis.eo
    BY <1>1, <2>2, <2>3 DEF AxisType
  <2>5. /\ hm' \in TimedType /\ hm'.done = hm.done /\ hm'.error = hm.error
        /\ hm'.i \in {20, 30, 999}
    <3>1. CASE seen.homed
      <4>1. hm' = [hm EXCEPT !.t = 0, !.i = 30]
        BY <2>3, <3>1
      <4>2. hm' \in TimedType
        BY <1>1, <4>1 DEF TimedType
      <4>3. hm'.done = hm.done /\ hm'.error = hm.error
        BY <1>1, <4>1 DEF TimedType
      <4>4. hm'.i = 30
        BY <1>1, <4>1 DEF TimedType
      <4> QED BY <4>2, <4>3, <4>4
    <3>2. CASE ~seen.homed
      <4>1. hm' = [hm EXCEPT !.t = t, !.i = n]
        BY <2>3, <3>2
      <4>2. hm' \in TimedType
        BY <1>1, <2>1, <2>2, <4>1 DEF TimedType
      <4>3. hm'.done = hm.done /\ hm'.error = hm.error
        BY <1>1, <4>1 DEF TimedType
      <4>4. hm'.i = n
        BY <1>1, <4>1 DEF TimedType
      <4> QED BY <2>2, <4>2, <4>3, <4>4
    <3> QED BY <3>1, <3>2
  <2> QED BY <2>3, <2>4, <2>5 DEF HomeStep
<1>6. CASE HomeDone
  <2> DEFINE n == IF cmd.home THEN 30 ELSE 0
  <2>1. /\ hm.i = 30 /\ axis' = axis
        /\ hm' = [hm EXCEPT !.done = TRUE, !.i = n]
    BY <1>6 DEF HomeDone
  <2>2. n \in Nat /\ (n = 30 \/ n = 0) /\ (cmd.home = TRUE => n # 0)
    OBVIOUS
  <2> HIDE DEF n
  <2>3. hm' \in TimedType /\ hm'.i = n
    BY <1>1, <2>1, <2>2 DEF TimedType
  <2> QED BY <1>1, <2>1, <2>2, <2>3 DEF HomeStep
<1>7. CASE HomeFailed
  <2> DEFINE n == IF cmd.home THEN 999 ELSE 0
  <2>1. /\ hm.i = 999 /\ axis' = [axis EXCEPT !.strobe = "no"]
        /\ hm' = [hm EXCEPT !.t = 0, !.error = TRUE, !.i = n]
    BY <1>7 DEF HomeFailed
  <2>2. n \in Nat /\ (n = 999 \/ n = 0) /\ (cmd.home = TRUE => n # 0)
    OBVIOUS
  <2> HIDE DEF n
  <2>3. axis' \in AxisType /\ axis'.mode = axis.mode /\ axis'.eo = axis.eo
    BY <1>1, <1>2, <2>1 DEF AxisType
  <2>4. hm' \in TimedType /\ hm'.i = n
    BY <1>1, <2>1, <2>2 DEF TimedType
  <2> QED BY <1>1, <2>1, <2>2, <2>3, <2>4 DEF HomeStep
<1> QED
  BY <1>3, <1>4, <1>5, <1>6, <1>7 DEF CallHome


LEMMA TimedOut ==
  ASSUME NEW r \in TimedType, NEW t \in Nat, NEW i \in Nat
  PROVE  [r EXCEPT !.t = t, !.i = i] \in TimedType
BY DEF TimedType

LEMMA PowerEffects ==
  ASSUME MotionShape, CallPower
  PROVE  /\ axis' \in AxisType /\ pwr' \in TimedType /\ axis'.mode = axis.mode
         /\ pwr.i # 40 /\ axis.eo = FALSE => axis'.eo = FALSE
         /\ pwr.i # 30 /\ pwr.i # 40 => pwr'.i # 40
         /\ PowerUp => PowerUp'
<1> DEFINE t == Ticks(pwr.t, TRUE, PowerTimeout)
<1>1. /\ axis \in AxisType /\ pwr \in TimedType
      /\ pwr.i \in Nat /\ pwr.t \in Nat /\ pwr.error \in BOOLEAN /\ pwr.done \in BOOLEAN
      /\ t \in Nat
  BY TicksTyped, MotionAssumption DEF MotionShape, TimedType
<1> HIDE DEF t
<1>2. CASE PowerStart
  <2> DEFINE n == IF ~cmd.power THEN 0 ELSE IF seen.fault THEN 10 ELSE 20
  <2>1. /\ pwr.i = 0
        /\ axis' = [axis EXCEPT !.so = FALSE, !.ev = FALSE, !.eo = FALSE, !.fr = FALSE]
        /\ pwr' = [pwr EXCEPT !.done = FALSE, !.error = FALSE, !.i = n]
    BY <1>2 DEF PowerStart
  <2>2. n \in Nat /\ n # 40
    OBVIOUS
  <2> HIDE DEF n
  <2>3. axis' \in AxisType
    BY <1>1, <2>1 DEF AxisType
  <2>4. axis'.mode = axis.mode /\ axis'.eo = FALSE
    BY <1>1, <2>1 DEF AxisType
  <2>5. pwr' \in TimedType
    BY ONLY <1>1, <2>1, <2>2 DEF TimedType
  <2>6. pwr'.done = FALSE /\ pwr'.i = n
    BY ONLY <1>1, <2>1 DEF TimedType
  <2> QED BY <2>2, <2>3, <2>4, <2>5, <2>6 DEF PowerUp
<1>3. CASE PowerReset
  <2> DEFINE q == Expired(t, PowerTimeout)
             e == seen.fault \/ ~q
             n == IF q THEN 999 ELSE 10
  <2>1. /\ pwr.i = 10 /\ axis' = [axis EXCEPT !.fr = e]
        /\ pwr' = IF q /\ ~seen.fault THEN [pwr EXCEPT !.i = 20, !.t = 0]
                  ELSE [pwr EXCEPT !.t = t, !.i = n]
    BY <1>3 DEF PowerReset, t
  <2>2. n \in Nat /\ (n = 999 \/ n = 10) /\ e \in BOOLEAN
    OBVIOUS
  <2> HIDE DEF n, e, q
  <2>3. axis' \in AxisType /\ axis'.mode = axis.mode /\ axis'.eo = axis.eo
    BY <1>1, <2>1, <2>2 DEF AxisType
  <2>4. pwr' \in TimedType
    BY <1>1, <2>1, <2>2 DEF TimedType
  <2>5. pwr'.done = pwr.done
    BY <1>1, <2>1 DEF TimedType
  <2>6. pwr'.i = 20 \/ pwr'.i = 999 \/ pwr'.i = 10
    BY <1>1, <2>1, <2>2 DEF TimedType
  <2> QED BY <2>1, <2>3, <2>4, <2>5, <2>6 DEF PowerUp
<1>4. ASSUME NEW a, NEW n \in Nat, Await(a, n)
      PROVE  /\ pwr' \in TimedType /\ pwr'.done = pwr.done
             /\ pwr'.i = n \/ pwr'.i = 999 \/ pwr'.i = pwr.i
  <2>1. pwr' = IF a THEN [pwr EXCEPT !.i = n, !.t = 0]
               ELSE IF Expired(t, PowerTimeout) THEN [pwr EXCEPT !.t = t, !.i = 999]
               ELSE [pwr EXCEPT !.t = t]
    BY <1>4 DEF Await, t
  <2>2. pwr' \in TimedType
    <3>1. [pwr EXCEPT !.i = n, !.t = 0] \in TimedType
      BY <1>1 DEF TimedType
    <3>2. [pwr EXCEPT !.t = t, !.i = 999] \in TimedType
      <4> DEFINE k == 999
      <4>1. k \in Nat
        OBVIOUS
      <4> HIDE DEF k
      <4>2. [pwr EXCEPT !.t = t, !.i = k] \in TimedType
        BY <1>1, <4>1, TimedOut
      <4> QED BY <4>2 DEF k
    <3>3. [pwr EXCEPT !.t = t] \in TimedType
      BY <1>1 DEF TimedType
    <3> QED BY <2>1, <3>1, <3>2, <3>3
  <2>3. pwr'.done = pwr.done
    BY <1>1, <2>1 DEF TimedType
  <2>4. pwr'.i = n \/ pwr'.i = 999 \/ pwr'.i = pwr.i
    BY <1>1, <2>1 DEF TimedType
  <2> QED BY <2>2, <2>3, <2>4
<1>5. CASE PowerVoltage
  <2>1. pwr.i = 20 /\ axis' = [axis EXCEPT !.ev = TRUE] /\ Await(seen.level >= 1, 30)
    BY <1>5 DEF PowerVoltage
  <2>2. axis' \in AxisType /\ axis'.mode = axis.mode /\ axis'.eo = axis.eo
    BY <1>1, <2>1 DEF AxisType
  <2>3. /\ pwr' \in TimedType /\ pwr'.done = pwr.done
        /\ pwr'.i = 30 \/ pwr'.i = 999 \/ pwr'.i = 20
    BY <1>4, <2>1
  <2> QED BY <2>1, <2>2, <2>3 DEF PowerUp
<1>6. CASE PowerSwitchOn
  <2>1. pwr.i = 30 /\ axis' = [axis EXCEPT !.so = TRUE] /\ Await(seen.level >= 2, 40)
    BY <1>6 DEF PowerSwitchOn
  <2>2. axis' \in AxisType /\ axis'.mode = axis.mode /\ axis'.eo = axis.eo
    BY <1>1, <2>1 DEF AxisType
  <2>3. /\ pwr' \in TimedType /\ pwr'.done = pwr.done
        /\ pwr'.i = 40 \/ pwr'.i = 999 \/ pwr'.i = 30
    BY <1>4, <2>1
  <2> QED BY <2>1, <2>2, <2>3 DEF PowerUp
<1>7. CASE PowerOperation
  <2>1. pwr.i = 40 /\ axis' = [axis EXCEPT !.eo = TRUE] /\ Await(seen.level >= 3, 50)
    BY <1>7 DEF PowerOperation
  <2>2. axis' \in AxisType /\ axis'.mode = axis.mode
    BY <1>1, <2>1 DEF AxisType
  <2>3. /\ pwr' \in TimedType /\ pwr'.done = pwr.done
        /\ pwr'.i = 50 \/ pwr'.i = 999 \/ pwr'.i = 40
    BY <1>4, <2>1
  <2> QED BY <2>1, <2>2, <2>3 DEF PowerUp
<1>8. CASE PowerRun
  <2> DEFINE n == IF seen.fault THEN 999 ELSE IF cmd.power THEN 50 ELSE 0
             e == axis.eo /\ cmd.power
  <2>1. /\ pwr.i = 50 /\ axis' = [axis EXCEPT !.eo = e]
        /\ pwr' = [pwr EXCEPT !.done = TRUE, !.i = n]
    BY <1>8 DEF PowerRun
  <2>2. /\ n \in Nat /\ (n = 999 \/ n = 50 \/ n = 0)
        /\ e \in BOOLEAN /\ (axis.eo = FALSE => e = FALSE)
    OBVIOUS
  <2> HIDE DEF n, e
  <2>3. axis' \in AxisType /\ axis'.mode = axis.mode /\ axis'.eo = e
    BY <1>1, <2>1, <2>2 DEF AxisType
  <2>4. pwr' \in TimedType
    BY <1>1, <2>1, <2>2 DEF TimedType
  <2>5. pwr'.i = n
    BY <1>1, <2>1 DEF TimedType
  <2> QED BY <2>1, <2>2, <2>3, <2>4, <2>5 DEF PowerUp
<1>9. CASE PowerFailed
  <2> DEFINE n == IF cmd.power THEN 999 ELSE 0
  <2>1. /\ pwr.i = 999 /\ axis' = axis
        /\ pwr' = [pwr EXCEPT !.t = 0, !.error = TRUE, !.i = n]
    BY <1>9 DEF PowerFailed
  <2>2. n \in Nat /\ (n = 999 \/ n = 0)
    OBVIOUS
  <2> HIDE DEF n
  <2>3. pwr' \in TimedType
    BY <1>1, <2>1, <2>2 DEF TimedType
  <2>4. pwr'.i = n
    BY <1>1, <2>1 DEF TimedType
  <2> QED BY <1>1, <2>1, <2>2, <2>3, <2>4 DEF PowerUp
<1> QED
  BY <1>2, <1>3, <1>5, <1>6, <1>7, <1>8, <1>9 DEF CallPower

LEMMA MoveIsMotionCall ==
  ASSUME NEW b \in Moves, MotionShape, Held, CallMove(b)
  PROVE  MotionCall(b) /\ axis' \in AxisType /\ mv' \in [Moves -> MoveType] /\ hm' = hm
<1>0. MoveStep(b)
  BY MoveEffects
<1>1. pwr' = pwr /\ hm' = hm
  BY DEF CallMove
<1>2. /\ mv \in [Moves -> MoveType] /\ cmd[b] \in BOOLEAN /\ mv[b].error \in BOOLEAN
      /\ cmd' = cmd
  BY DEF MotionShape, MoveType, Commands, Moves, CallMove, Turn
<1>3. b # "home" /\ b \in Motions /\ State(b) = mv[b].i /\ State(b)' = mv'[b].i
  BY DEF Moves, Motions, State
<1>4. /\ Answered(b) <=> mv[b].error \/ mv[b].i = 20
      /\ Answered(b)' <=> mv'[b].error \/ mv'[b].i = 20
  BY <1>3 DEF Answered
<1>5. mv' \in [Moves -> MoveType] /\ \A c \in Moves : c # b => mv'[c] = mv[c]
  <2>1. mv' = [mv EXCEPT ![b] = mv'[b]] /\ mv'[b] \in MoveType
    BY <1>0 DEF MoveStep
  <2> DEFINE r == mv'[b]
  <2>2. mv' = [mv EXCEPT ![b] = r] /\ r \in MoveType
    BY <2>1
  <2> HIDE DEF r
  <2> QED BY <1>2, <2>2
<1>6. \A c \in Motions : c # b => State(c)' = State(c) /\ (Answered(c)' <=> Answered(c))
  BY <1>1, <1>5 DEF State, Answered, Motions
<1>7. InCharge(b) <=> mv[b].i = 10
  BY <1>3 DEF InCharge
<1>8. InCharge(b)' <=> mv'[b].i = 10
  BY <1>3 DEF InCharge
<1>9. mv[b].i = 10 => mv[b].error = FALSE
  BY <1>2, <1>3, <1>4, <1>7 DEF Held, Waits
<1>10. axis' \in AxisType /\ mv[b].i \in {0, 10, 20, 999}
  BY <1>0 DEF MoveStep
<1>11. mv[b].i = 0 =>
         /\ axis'.mode = axis.mode /\ (axis.eo = FALSE => axis'.eo = FALSE)
         /\ mv'[b].error = FALSE
         /\ cmd[b] = TRUE => mv'[b].i = 10 \/ mv'[b].i = 999
         /\ cmd[b] = FALSE => mv'[b].i = 0
  BY <1>0 DEF MoveStep
<1>12. mv[b].i = 10 =>
         /\ axis'.mode = Mode[b] /\ (seen.mode # Mode[b] => axis'.eo = FALSE)
         /\ mv'[b].error = mv[b].error
         /\ mv'[b].i = 10 \/ (mv'[b].i = 20 /\ seen.mode = Mode[b])
  BY <1>0 DEF MoveStep
<1>13. mv[b].i = 20 \/ mv[b].i = 999 =>
         /\ axis'.mode = axis.mode /\ axis'.eo = axis.eo
         /\ mv'[b].i # 10 /\ (cmd[b] = TRUE => mv'[b].i # 0)
  BY <1>0 DEF MoveStep
<1>14. /\ State(b) = 10 => axis'.mode = Mode[b] /\ (seen.mode # Mode[b] => axis'.eo = FALSE)
       /\ State(b) # 10 => axis'.mode = axis.mode /\ (axis.eo = FALSE => axis'.eo = FALSE)
  BY <1>3, <1>10, <1>11, <1>12, <1>13
<1>15. InCharge(b)' => InCharge(b) \/ (State(b) = 0 /\ cmd[b] = TRUE)
  BY <1>2, <1>3, <1>7, <1>8, <1>10, <1>11, <1>13
<1>16. InCharge(b)' => ~Answered(b)'
  BY <1>4, <1>8, <1>9, <1>10, <1>11, <1>12, <1>13
<1>17. InCharge(b) /\ seen.mode # Mode[b] =>
         ~Answered(b)' /\ (State(b) = 10 => InCharge(b)')
  BY <1>4, <1>7, <1>8, <1>9, <1>12
<1>18. cmd[b] = TRUE => State(b)' # 0
  BY <1>3, <1>10, <1>11, <1>12, <1>13
<1>19. State(b)' = 10 => State(b) = 0 \/ State(b) = 10
  BY <1>3, <1>10, <1>13
<1> QED
  BY <1>1, <1>5, <1>6, <1>10, <1>14, <1>15, <1>16, <1>17, <1>18, <1>19 DEF MotionCall

LEMMA HomeIsMotionCall ==
  ASSUME MotionShape, Held, CallHome
  PROVE  MotionCall("home") /\ axis' \in AxisType /\ hm' \in TimedType /\ mv' = mv
<1>0. HomeStep
  BY HomeEffects
<1>1. pwr' = pwr /\ mv' = mv /\ cmd' = cmd
  BY DEF CallHome, Turn
<1>2. /\ hm \in TimedType /\ cmd["home"] \in BOOLEAN /\ hm.error \in BOOLEAN
      /\ hm.done \in BOOLEAN
  BY DEF MotionShape, TimedType, Commands
<1>3. /\ "home" \in Motions /\ State("home") = hm.i /\ State("home")' = hm'.i
      /\ Answered("home") <=> hm.done \/ hm.error
      /\ Answered("home")' <=> hm'.done \/ hm'.error
  BY DEF Motions, State, Answered
<1>4. \A c \in Motions :
        c # "home" => State(c)' = State(c) /\ (Answered(c)' <=> Answered(c))
  BY <1>1 DEF State, Answered
<1>5. InCharge("home") <=> hm.i = 10 \/ hm.i = 20
  BY <1>3 DEF InCharge
<1>6. InCharge("home")' <=> hm'.i = 10 \/ hm'.i = 20
  BY <1>3 DEF InCharge
<1>7. hm.i = 10 \/ hm.i = 20 => hm.error = FALSE /\ hm.done = FALSE
  BY <1>2, <1>3, <1>5 DEF Held, Waits
<1>8. axis' \in AxisType /\ hm' \in TimedType /\ hm.i \in {0, 10, 20, 30, 999}
  BY <1>0 DEF HomeStep
<1>9. hm.i = 0 =>
        /\ axis'.mode = axis.mode /\ (axis.eo = FALSE => axis'.eo = FALSE)
        /\ hm'.error = FALSE /\ hm'.done = FALSE
        /\ cmd["home"] = TRUE => hm'.i = 10 \/ hm'.i = 999
        /\ cmd["home"] = FALSE => hm'.i = 0
  BY <1>0 DEF HomeStep
<1>10. hm.i = 10 =>
         /\ axis'.mode = Mode["home"] /\ (seen.mode # Mode["home"] => axis'.eo = FALSE)
         /\ hm'.error = hm.error /\ hm'.done = hm.done
         /\ hm'.i = 10 \/ hm'.i = 20
  BY <1>0 DEF HomeStep
<1>11. hm.i = 20 =>
         /\ axis'.mode = axis.mode /\ axis'.eo = axis.eo
         /\ hm'.error = hm.error /\ hm'.done = hm.done
         /\ hm'.i = 20 \/ hm'.i = 30 \/ hm'.i = 999
  BY <1>0 DEF HomeStep
<1>12. hm.i = 30 \/ hm.i = 999 =>
         /\ axis'.mode = axis.mode /\ axis'.eo = axis.eo
         /\ hm'.i = 0 \/ hm'.i = hm.i
         /\ cmd["home"] = TRUE => hm'.i # 0
  BY <1>0 DEF HomeStep
<1>13. /\ State("home") = 10 =>
            axis'.mode = Mode["home"] /\ (seen.mode # Mode["home"] => axis'.eo = FALSE)
       /\ State("home") # 10 =>
            axis'.mode = axis.mode /\ (axis.eo = FALSE => axis'.eo = FALSE)
  BY <1>3, <1>8, <1>9, <1>10, <1>11, <1>12
<1>14. InCharge("home")' => InCharge("home") \/ (State("home") = 0 /\ cmd["home"] = TRUE)
  BY <1>2, <1>3, <1>5, <1>6, <1>8, <1>9, <1>12
<1>15. InCharge("home")' => ~Answered("home")'
  BY <1>3, <1>6, <1>7, <1>8, <1>9, <1>10, <1>11, <1>12
<1>16. InCharge("home") /\ seen.mode # Mode["home"] =>
         ~Answered("home")' /\ (State("home") = 10 => InCharge("home")')
  BY <1>3, <1>5, <1>6, <1>7, <1>10, <1>11
<1>17. cmd["home"] = TRUE => State("home")' # 0
  BY <1>3, <1>8, <1>9, <1>10, <1>11, <1>12
<1>18. State("home")' = 10 => State("home") = 0 \/ State("home") = 10
  BY <1>3, <1>8, <1>11, <1>12
<1> QED
  BY <1>1, <1>4, <1>8, <1>13, <1>14, <1>15, <1>16, <1>17, <1>18 DEF MotionCall

-----------------------------------------------------------------------------
(* A turn of a motion block. *)

LEMMA MotionTurnPower ==
  ASSUME MotionShape, NEW b \in Motions, Turn(b), MotionCall(b)
  PROVE  /\ PowerFresh' <=> PowerFresh
         /\ PowerLater' <=> PowerLater
<1>1. b # "power"
  BY DEF Motions, Moves
<1>2. Called("power")' <=> Called("power")
  BY <1>1, TurnCalls
<1>3. pwr' = pwr
  BY DEF MotionCall
<1> QED
  BY <1>2, <1>3 DEF PowerFresh, PowerLater

LEMMA MotionTurnHeld ==
  ASSUME MotionShape, Held, Started, NEW b \in Motions, Turn(b), MotionCall(b)
  PROVE  Held'
<1>1. cmd' = cmd
  BY DEF Turn
<1>2. ASSUME NEW c \in Motions, InCharge(c)'
      PROVE  Waits(c)'
  <2>1. CASE c = b
    <3>1. /\ InCharge(b) \/ (State(b) = 0 /\ cmd[b] = TRUE)
          /\ ~Answered(b)'
      BY <1>2, <2>1 DEF MotionCall
    <3>2. cmd[b] = TRUE
      BY <3>1 DEF Held, Waits
    <3> QED BY <1>1, <2>1, <3>1, <3>2 DEF Waits
  <2>2. CASE c # b
    <3>1. State(c)' = State(c) /\ (Answered(c)' <=> Answered(c))
      BY <2>2 DEF MotionCall
    <3>2. InCharge(c)
      BY <1>2, <3>1 DEF InCharge
    <3> QED BY <1>1, <3>1, <3>2 DEF Held, Waits
  <2> QED BY <2>1, <2>2
<1> QED
  BY <1>2 DEF Held

\* Only the block in charge asks for a mode.
LEMMA OneInCharge ==
  ASSUME Exclusive, Held, NEW b \in Motions, NEW c \in Motions, cmd[c] = TRUE, b # c
  PROVE  State(b) # 10
BY DEF Exclusive, Held, InCharge, Waits

LEMMA MotionTurnStarted ==
  ASSUME MotionInv, NEW b \in Motions, Turn(b), MotionCall(b)
  PROVE  Started'
<1>1. cmd' = cmd /\ seen' = seen /\ word' = word /\ drv' = drv
  BY DEF Turn
<1>2. ASSUME NEW c \in Motions, cmd'[c] = TRUE, State(c)' = 0
      PROVE  ~Called(c)' /\ Settled' /\ PowerFresh'
  <2>1. cmd[c] = TRUE
    BY <1>1, <1>2
  <2>2. c # b
    BY <1>2, <2>1 DEF MotionCall
  <2>3. State(c) = 0
    BY <1>2, <2>2 DEF MotionCall
  <2>4. ~Called(c) /\ Settled /\ PowerFresh
    BY <2>1, <2>3 DEF MotionInv, Started
  <2>5. State(b) # 10
    BY <2>1, <2>2, OneInCharge DEF MotionInv
  <2>6. axis'.mode = axis.mode
    BY <2>5 DEF MotionCall
  <2>7. ~Called(c)'
    BY <2>2, <2>4, TurnCalls DEF MotionInv
  <2>8. PowerFresh'
    BY <2>4, MotionTurnPower DEF MotionInv
  <2> QED BY <1>1, <2>4, <2>6, <2>7, <2>8 DEF Settled
<1> QED
  BY <1>2 DEF Started

LEMMA MotionTurnPending ==
  ASSUME MotionInv, NEW b \in Motions, Turn(b), MotionCall(b)
  PROVE  Pending'
<1>1. cmd' = cmd /\ seen' = seen /\ word' = word /\ drv' = drv
  BY DEF Turn
<1>2. ASSUME NEW c \in Motions, State(c)' = 10, axis'.mode # Mode[c]
      PROVE  /\ Settled'
             /\ Called(c)' => PowerFresh'
             /\ ~Called(c)' => PowerLater'
  <2>1. CASE c = b
    <3>1. State(b) = 0
      BY <1>2, <2>1 DEF MotionCall
    <3>2. cmd[b] = TRUE
      <4>1. InCharge(b)'
        BY <1>2, <2>1 DEF InCharge
      <4>2. ~InCharge(b)
        BY <3>1 DEF InCharge
      <4> QED BY <4>1, <4>2 DEF MotionCall
    <3>3. Settled /\ PowerFresh
      BY <3>1, <3>2 DEF MotionInv, Started
    <3>4. axis'.mode = axis.mode
      BY <3>1 DEF MotionCall
    <3>5. Settled'
      BY <1>1, <3>3, <3>4 DEF Settled
    <3>6. PowerFresh' /\ Called(c)'
      BY <2>1, <3>3, MotionTurnPower, TurnCalls DEF MotionInv
    <3> QED BY <3>5, <3>6
  <2>2. CASE c # b
    <3>1. State(c) = 10
      BY <1>2, <2>2 DEF MotionCall
    <3>2. cmd[c] = TRUE
      BY <3>1 DEF MotionInv, Held, InCharge, Waits
    <3>3. State(b) # 10
      BY <2>2, <3>2, OneInCharge DEF MotionInv
    <3>4. axis'.mode = axis.mode
      BY <3>3 DEF MotionCall
    <3>5. Settled /\ (Called(c) => PowerFresh) /\ (~Called(c) => PowerLater)
      BY <1>2, <3>1, <3>4 DEF MotionInv, Pending
    <3>6. Settled'
      BY <1>1, <3>4, <3>5 DEF Settled
    <3>7. Called(c)' <=> Called(c)
      BY <2>2, TurnCalls DEF MotionInv
    <3> QED BY <3>5, <3>6, <3>7, MotionTurnPower DEF MotionInv
  <2> QED BY <2>1, <2>2
<1> QED
  BY <1>2 DEF Pending

LEMMA MotionTurnPhase ==
  ASSUME MotionInv, NEW b \in Motions, Turn(b), MotionCall(b)
  PROVE  Phase'
<1>1. cmd' = cmd /\ seen' = seen /\ word' = word /\ drv' = drv /\ order' = order
  BY DEF Turn
<1>2. /\ ~Called(b) /\ Called(b)'
      /\ \A c : c # b => (Called(c)' <=> Called(c))
      /\ pc <= Len(order) /\ pc' <= Len(order) /\ pc \in Int
  BY TurnCalls, OrderIsProgram DEF MotionInv
<1>3. Mode[b] \in Int
  BY ModesDiffer
<1>4. CASE Settled /\ State(b) = 10 /\ axis.mode # Mode[b]
  <2>1. PowerLater
    BY <1>2, <1>4 DEF MotionInv, Pending
  <2>2. PowerLater'
    BY <2>1, MotionTurnPower DEF MotionInv
  <2>3. axis'.mode = Mode[b] /\ axis'.eo = FALSE
    BY <1>4 DEF MotionCall, Settled
  <2>4. InCharge(b) /\ cmd[b] = TRUE
    BY <1>4 DEF MotionInv, Held, InCharge, Waits
  <2>5. InCharge(b)' /\ ~Answered(b)'
    BY <1>4, <2>4 DEF MotionCall, Settled
  <2>6. Waits(b)'
    BY <1>1, <2>4, <2>5 DEF Waits
  <2>7. Changed'
    BY <1>1, <1>2, <1>4, <2>2, <2>3, <2>5, <2>6 DEF Changed, Settled
  <2> QED BY <2>7 DEF Phase
<1>5. CASE Settled /\ ~(State(b) = 10 /\ axis.mode # Mode[b])
  <2>1. axis'.mode = axis.mode
    BY <1>5 DEF MotionCall
  <2> QED BY <1>1, <1>5, <2>1 DEF Phase, Settled
<1>6. CASE Changed
  <2>1. PICK c \in Motions : Called(c) /\ Waits(c) /\ InCharge(c) /\ Mode[c] = axis.mode
    BY <1>6 DEF Changed
  <2>2. c # b
    BY <1>2, <2>1
  <2>3. State(b) # 10
    BY <2>1, <2>2, OneInCharge DEF MotionInv, Waits
  <2>4. axis'.mode = axis.mode /\ axis'.eo = FALSE
    BY <1>6, <2>3 DEF MotionCall, Changed
  <2>5. State(c)' = State(c) /\ (Answered(c)' <=> Answered(c)) /\ Called(c)'
    BY <1>2, <2>1, <2>2 DEF MotionCall
  <2>6. Waits(c)' /\ InCharge(c)'
    BY <1>1, <2>1, <2>5 DEF Waits, InCharge
  <2>7. PowerLater'
    BY <1>6, MotionTurnPower DEF MotionInv, Changed
  <2>8. Changed'
    BY <1>1, <1>6, <2>1, <2>4, <2>5, <2>6, <2>7 DEF Changed
  <2> QED BY <2>8 DEF Phase
<1>7. CASE InFlight
  <2>1. PICK c \in Motions : Waits(c) /\ (Called(c) \/ InCharge(c)) /\ Mode[c] = axis.mode
    BY <1>7 DEF InFlight
  <2>2. CASE c = b
    <3>1. InCharge(b)
      BY <1>2, <2>1, <2>2
    <3>2. seen.mode # Mode[b]
      BY <1>7, <2>1, <2>2 DEF InFlight
    <3>3. ~Answered(b)' /\ axis'.mode = axis.mode
      BY <2>1, <2>2, <3>1, <3>2 DEF MotionCall
    <3>4. Waits(b)'
      BY <1>1, <2>1, <2>2, <3>3 DEF Waits
    <3>5. InFlight'
      BY <1>1, <1>2, <1>7, <2>1, <2>2, <3>3, <3>4 DEF InFlight
    <3> QED BY <3>5 DEF Phase
  <2>3. CASE c # b
    <3>1. State(b) # 10
      BY <2>1, <2>3, OneInCharge DEF MotionInv, Waits
    <3>2. axis'.mode = axis.mode
      BY <3>1 DEF MotionCall
    <3>3. State(c)' = State(c) /\ (Answered(c)' <=> Answered(c)) /\ (Called(c)' <=> Called(c))
      BY <1>2, <2>3 DEF MotionCall
    <3>4. Waits(c)' /\ (Called(c)' \/ InCharge(c)')
      BY <1>1, <2>1, <3>3 DEF Waits, InCharge
    <3>5. InFlight'
      BY <1>1, <1>2, <1>7, <2>1, <3>2, <3>4 DEF InFlight
    <3> QED BY <3>5 DEF Phase
  <2> QED BY <2>2, <2>3
<1>8. ~Taken
  <2>1. Len(order) \in Nat
    BY OrderIsProgram DEF MotionInv
  <2> QED BY <1>2, <2>1 DEF Taken
<1> QED
  BY <1>4, <1>5, <1>6, <1>7, <1>8 DEF MotionInv, Phase

LEMMA MotionTurnKeeps ==
  ASSUME MotionInv, NEW b \in Motions, Turn(b), MotionCall(b),
         axis' \in AxisType, mv' \in [Moves -> MoveType], hm' \in TimedType
  PROVE  MotionInv'
<1>1. /\ order' = order /\ cmd' = cmd /\ seen' = seen /\ word' = word /\ drv' = drv
      /\ pwr' = pwr /\ pc' \in 0 .. Len(order) + 1
  BY TurnCalls DEF MotionInv, Turn, MotionCall
<1>2. MotionShape'
  BY <1>1 DEF MotionInv, MotionShape
<1>3. Exclusive' /\ Programmed' /\ PowerUp'
  BY <1>1 DEF MotionInv, Exclusive, Programmed, PowerUp
<1>4. Held'
  BY MotionTurnHeld DEF MotionInv
<1> QED
  BY <1>2, <1>3, <1>4, MotionTurnStarted, MotionTurnPending, MotionTurnPhase DEF MotionInv

LEMMA MoveKeeps ==
  ASSUME MotionInv, NEW b \in Moves, CallMove(b)
  PROVE  MotionInv'
<1>1. MotionCall(b) /\ axis' \in AxisType /\ mv' \in [Moves -> MoveType] /\ hm' = hm
  BY MoveIsMotionCall DEF MotionInv
<1>2. Turn(b) /\ b \in Motions
  BY DEF CallMove, Motions
<1>3. hm' \in TimedType
  BY <1>1 DEF MotionInv, MotionShape
<1> QED
  BY <1>1, <1>2, <1>3, MotionTurnKeeps

LEMMA HomeKeeps ==
  ASSUME MotionInv, CallHome
  PROVE  MotionInv'
<1>1. MotionCall("home") /\ axis' \in AxisType /\ hm' \in TimedType /\ mv' = mv
  BY HomeIsMotionCall DEF MotionInv
<1>2. Turn("home") /\ "home" \in Motions
  BY DEF CallHome, Motions
<1>3. mv' \in [Moves -> MoveType]
  BY <1>1 DEF MotionInv, MotionShape
<1> QED
  BY <1>1, <1>2, <1>3, MotionTurnKeeps

\* The other calls leave the mode and the motion blocks alone.  MC_Power
\* enables operation in state 40 only.
LEMMA OtherTurnKeeps ==
  ASSUME MotionInv, NEW p \in {"power", "reset"}, Turn(p), mv' = mv, hm' = hm,
         axis' \in AxisType, axis'.mode = axis.mode,
         pwr' \in TimedType, PowerUp',
         p = "power" =>
           /\ pwr.i # 40 /\ axis.eo = FALSE => axis'.eo = FALSE
           /\ pwr.i # 30 /\ pwr.i # 40 => pwr'.i # 40,
         p = "reset" => pwr' = pwr /\ axis'.eo = axis.eo
  PROVE  MotionInv'
<1>1. /\ order' = order /\ cmd' = cmd /\ seen' = seen /\ word' = word /\ drv' = drv
      /\ pc' \in 0 .. Len(order) + 1 /\ pc' <= Len(order) /\ pc <= Len(order) /\ pc \in Int
  BY TurnCalls, OrderIsProgram DEF MotionInv, Turn
<1>2. ~Called(p) /\ Called(p)' /\ \A c : c # p => (Called(c)' <=> Called(c))
  BY TurnCalls DEF MotionInv
<1>3. \A c \in Motions : /\ Called(c)' <=> Called(c)
                         /\ State(c)' = State(c) /\ (Answered(c)' <=> Answered(c))
                         /\ (InCharge(c)' <=> InCharge(c)) /\ (Waits(c)' <=> Waits(c))
  <2>1. \A c \in Motions : c # p
    BY DEF Motions, Moves
  <2> QED BY <1>1, <1>2, <2>1 DEF State, Answered, InCharge, Waits
<1>4. /\ PowerFresh => PowerFresh'
      /\ PowerLater => PowerLater'
      /\ PowerLater /\ axis.eo = FALSE => axis'.eo = FALSE
  <2>1. CASE p = "power"
    BY <1>2, <2>1 DEF PowerFresh, PowerLater
  <2>2. CASE p = "reset"
    <3>1. Called("power")' <=> Called("power")
      BY <1>2, <2>2
    <3> QED BY <2>2, <3>1 DEF PowerFresh, PowerLater
  <2> QED BY <2>1, <2>2
<1>5. Settled' <=> Settled
  BY <1>1 DEF Settled
<1>6. MotionShape'
  BY <1>1 DEF MotionInv, MotionShape
<1>7. Exclusive' /\ Programmed' /\ Held'
  BY <1>1, <1>3 DEF MotionInv, Exclusive, Programmed, Held
<1>8. Started'
  BY <1>1, <1>3, <1>4, <1>5 DEF MotionInv, Started
<1>9. Pending'
  BY <1>1, <1>3, <1>4, <1>5 DEF MotionInv, Pending
<1>10. Phase'
  <2>1. Changed => Changed'
    BY <1>1, <1>3, <1>4 DEF Changed
  <2>2. InFlight => InFlight'
    BY <1>1, <1>3 DEF InFlight
  <2>3. ~Taken
    <3>1. Len(order) \in Nat
      BY OrderIsProgram DEF MotionInv
    <3> QED BY <1>1, <3>1 DEF Taken
  <2> QED BY <1>5, <2>1, <2>2, <2>3 DEF MotionInv, Phase
<1> QED
  BY <1>6, <1>7, <1>8, <1>9, <1>10 DEF MotionInv

LEMMA PowerKeeps ==
  ASSUME MotionInv, CallPower
  PROVE  MotionInv'
<1>1. /\ axis' \in AxisType /\ pwr' \in TimedType /\ axis'.mode = axis.mode
      /\ pwr.i # 40 /\ axis.eo = FALSE => axis'.eo = FALSE
      /\ pwr.i # 30 /\ pwr.i # 40 => pwr'.i # 40
      /\ PowerUp'
  BY PowerEffects DEF MotionInv
<1>2. Turn("power") /\ mv' = mv /\ hm' = hm
  BY DEF CallPower
<1> QED
  BY <1>1, <1>2, OtherTurnKeeps

LEMMA ResetKeeps ==
  ASSUME MotionInv, CallReset
  PROVE  MotionInv'
<1>1. Turn("reset") /\ mv' = mv /\ hm' = hm /\ pwr' = pwr
  BY DEF CallReset, blocks
<1>2. axis \in AxisType /\ cmd.reset \in BOOLEAN /\ pwr \in TimedType
  BY DEF MotionInv, MotionShape, Commands
<1>3. axis' \in AxisType /\ axis'.mode = axis.mode /\ axis'.eo = axis.eo
  BY <1>2 DEF CallReset, AxisType
<1>4. PowerUp'
  BY <1>1 DEF MotionInv, PowerUp
<1> QED
  BY <1>1, <1>2, <1>3, <1>4, OtherTurnKeeps

-----------------------------------------------------------------------------
(* Between the turns. *)

LEMMA BridgeKeeps ==
  ASSUME MotionInv, NEW c \in Commands, Disciplined(c), Bridge(c)
  PROVE  MotionInv'
<1>1. /\ pc = Len(order) + 1 /\ pc' = 0 /\ cmd' = c /\ seen' = drv /\ word' = axis
      /\ order' = order /\ axis' = axis /\ pwr' = pwr /\ mv' = mv /\ hm' = hm /\ drv' = drv
      /\ Len(order) \in Nat
  BY OrderIsProgram DEF MotionInv, Bridge
<1>2. /\ \A b \in Motions : c[b] \in BOOLEAN /\ b \in DOMAIN c
      /\ \A b \in Motions : cmd[b] \in BOOLEAN
  BY DEF MotionInv, MotionShape, Commands, Motions, Moves
<1>3. \A b \in Motions : c[b] = TRUE => \E k \in 1 .. Len(order) : order[k] = b
  BY <1>2 DEF Disciplined
<1>4. \A a, b \in Motions : (cmd[a] = TRUE \/ c[a] = TRUE) /\ c[b] = TRUE => a = b
  BY <1>2 DEF Disciplined
<1>5. \A a \in Motions : Waits(a) => c[a] = TRUE
  BY <1>2 DEF Disciplined, Waits
<1>6. \A a \in Motions : c[a] = TRUE /\ cmd[a] # TRUE => pwr.done = TRUE
  <2>1. pwr.done \in BOOLEAN
    BY DEF MotionInv, MotionShape, TimedType
  <2> QED BY <1>2, <2>1 DEF Disciplined
<1>7. \A b \in Motions : State(b)' = State(b) /\ (Answered(b)' <=> Answered(b))
                         /\ (InCharge(b)' <=> InCharge(b))
  BY <1>1 DEF State, Answered, InCharge
<1>8. \A b : ~Called(b)'
  BY <1>1 DEF Called
<1>9. \A b \in Motions : cmd[b] = TRUE => Called(b)
  BY <1>1 DEF MotionInv, Programmed, Called
<1>10. \A b \in Motions : Waits(b) => Waits(b)'
  BY <1>1, <1>5, <1>7 DEF Waits
<1>11. ~InFlight
  BY <1>1 DEF InFlight
<1>12. MotionShape'
  <2>1. pc' \in 0 .. Len(order') + 1
    BY <1>1
  <2> QED BY <1>1, <2>1 DEF MotionInv, MotionShape
<1>13. Exclusive' /\ Programmed' /\ PowerUp'
  <2>1. Exclusive'
    BY <1>1, <1>4 DEF Exclusive
  <2>2. Programmed'
    BY <1>1, <1>3 DEF Programmed
  <2>3. PowerUp'
    BY <1>1 DEF MotionInv, PowerUp
  <2> QED BY <2>1, <2>2, <2>3
<1>14. Held'
  BY <1>7, <1>10 DEF MotionInv, Held
<1>15. Settled \/ Taken => Settled'
  BY <1>1 DEF Settled, Taken
<1>16. Started'
  <2>1. ASSUME NEW b \in Motions, cmd'[b] = TRUE, State(b)' = 0
        PROVE  ~Called(b)' /\ Settled' /\ PowerFresh'
    <3>1. cmd[b] # TRUE
      BY <1>7, <1>9, <2>1 DEF MotionInv, Started
    <3>2. pwr.done = TRUE
      BY <1>1, <1>6, <2>1, <3>1
    <3>3. pwr.i # 30 /\ pwr.i # 40
      BY <3>2 DEF MotionInv, PowerUp
    <3>4. ~Changed
      BY <1>1, <1>4, <2>1, <3>1 DEF Changed, Waits
    <3>5. Settled'
      BY <1>11, <1>15, <3>4 DEF MotionInv, Phase
    <3>6. PowerFresh'
      BY <1>1, <1>8, <3>3 DEF PowerFresh
    <3> QED BY <1>8, <3>5, <3>6
  <2> QED BY <2>1 DEF Started
<1>17. Pending'
  <2>1. ASSUME NEW b \in Motions, State(b)' = 10, axis'.mode # Mode[b]
        PROVE  Settled' /\ ~Called(b)' /\ PowerLater'
    <3>1. State(b) = 10 /\ axis.mode # Mode[b]
      BY <1>1, <1>7, <2>1
    <3>2. Called(b)
      BY <1>9, <3>1 DEF MotionInv, Held, InCharge, Waits
    <3>3. Settled /\ PowerFresh
      BY <3>1, <3>2 DEF MotionInv, Pending
    <3>4. pwr.i # 40
      BY <3>3 DEF PowerFresh
    <3> QED BY <1>1, <1>8, <1>15, <3>3, <3>4 DEF PowerLater
  <2> QED BY <2>1 DEF Pending
<1>18. Phase'
  <2>1. CASE Changed
    <3>1. PICK b \in Motions : Waits(b) /\ InCharge(b) /\ Mode[b] = axis.mode
      BY <2>1 DEF Changed
    <3>2. Waits(b)' /\ InCharge(b)'
      BY <1>7, <1>10, <3>1
    <3>3. InFlight'
      BY <1>1, <2>1, <3>1, <3>2 DEF Changed, InFlight
    <3> QED BY <3>3 DEF Phase
  <2> QED BY <1>11, <1>15, <2>1 DEF MotionInv, Phase
<1> QED
  BY <1>12, <1>13, <1>14, <1>16, <1>17, <1>18 DEF MotionInv

\* A step of the drive that leaves its mode alone.
LEMMA DriveStepKeeps ==
  ASSUME MotionInv, drv' \in DriveType,
         order' = order, cmd' = cmd, axis' = axis, seen' = seen, pwr' = pwr,
         mv' = mv, hm' = hm, word' = word,
         \/ pc' = pc /\ drv'.mode = drv.mode
         \/ pc = Len(order) /\ pc' = Len(order) + 1 /\ drv'.mode = word.mode
  PROVE  MotionInv'
<1>1. Len(order) \in Nat /\ pc \in Int /\ pc \in 0 .. Len(order) + 1
  BY OrderIsProgram DEF MotionInv, MotionShape
<1>2. pc' \in 0 .. Len(order) + 1
  BY <1>1
<1>3. \A b : Called(b)' <=> Called(b)
  <2>1. CASE pc' = pc
    BY <2>1 DEF Called
  <2>2. CASE pc = Len(order) /\ pc' = Len(order) + 1
    <3>1. \A k \in 1 .. Len(order) : k <= pc' /\ k <= pc
      BY <1>1, <2>2
    <3> QED BY <3>1 DEF Called
  <2> QED BY <2>1, <2>2
<1>4. \A b \in Motions : State(b)' = State(b) /\ (Answered(b)' <=> Answered(b))
                         /\ (InCharge(b)' <=> InCharge(b)) /\ (Waits(b)' <=> Waits(b))
  BY DEF State, Answered, InCharge, Waits
<1>5. (PowerFresh' <=> PowerFresh) /\ (PowerLater' <=> PowerLater)
  BY <1>3 DEF PowerFresh, PowerLater
<1>6. Settled => Settled'
  BY DEF Settled
<1>7. MotionShape'
  BY <1>2 DEF MotionInv, MotionShape
<1>8. Exclusive' /\ Programmed' /\ PowerUp' /\ Held'
  BY <1>4 DEF MotionInv, Exclusive, Programmed, PowerUp, Held
<1>9. Started' /\ Pending'
  BY <1>3, <1>4, <1>5, <1>6 DEF MotionInv, Started, Pending
<1>10. Phase'
  <2>1. Changed => Changed'
    BY <1>3, <1>4, <1>5 DEF Changed
  <2>2. ASSUME InFlight PROVE InFlight' \/ Taken'
    <3>1. CASE pc' = pc /\ drv'.mode = drv.mode
      BY <1>3, <1>4, <2>2, <3>1 DEF InFlight
    <3>2. CASE pc = Len(order) /\ pc' = Len(order) + 1 /\ drv'.mode = word.mode
      BY <1>4, <2>2, <3>2 DEF InFlight, Taken
    <3> QED BY <3>1, <3>2
  <2>3. ASSUME Taken PROVE Taken'
    <3>1. pc' = pc /\ drv'.mode = drv.mode
      BY <1>1, <2>3 DEF Taken
    <3> QED BY <1>4, <2>3, <3>1 DEF Taken
  <2> QED BY <1>6, <2>1, <2>2, <2>3 DEF MotionInv, Phase
<1> QED
  BY <1>7, <1>8, <1>9, <1>10 DEF MotionInv

\* The drive takes a word: where that changes its mode, the word does not
\* enable operation.
LEMMA TakesKeeps ==
  ASSUME MotionInv, NEW level \in Nat, NEW recovers \in BOOLEAN, Takes(level, recovers),
         level <= Commanded
  PROVE  MotionInv' /\ (drv'.mode # drv.mode => drv'.level < 3)
<1>1. drv \in DriveType /\ word \in AxisType
  BY DEF MotionInv, MotionShape
<1> DEFINE rises == ~drv.strobe /\ word.strobe # "no" /\ level = 3
           same == drv.mode = word.mode
           s == word.strobe # "no"
           h == drv.homed /\ ~rises /\ same
           x == drv.bit13 /\ ~rises /\ same
           m == IF level < 3 THEN "no"
                ELSE IF rises /\ word.mode = Mode.position THEN "position"
                ELSE IF rises /\ word.mode = Mode.home THEN "home"
                ELSE IF same THEN drv.moves ELSE "no"
           f == drv.fault /\ ~(word.fr /\ recovers)
<1>2. /\ pc = Len(order) /\ pc' = pc + 1
      /\ drv' = [drv EXCEPT !.level = level, !.mode = word.mode, !.strobe = s,
                            !.homed = h, !.bit13 = x, !.moves = m, !.fault = f]
      /\ order' = order /\ cmd' = cmd /\ axis' = axis /\ seen' = seen /\ pwr' = pwr
      /\ mv' = mv /\ hm' = hm /\ word' = word
  BY DEF Takes
<1>3. m \in Asked
  <2>1. {"no", "position", "home"} \subseteq Asked /\ drv.moves \in Asked
    BY <1>1 DEF Asked, Motions, Moves, DriveType
  <2> QED BY <2>1
<1>4. s \in BOOLEAN /\ h \in BOOLEAN /\ x \in BOOLEAN /\ f \in BOOLEAN /\ word.mode \in Int
  BY <1>1 DEF AxisType
<1> HIDE DEF rises, same, s, h, x, m, f
<1>5. drv' \in DriveType
  BY <1>1, <1>2, <1>3, <1>4 DEF DriveType
<1>6. drv'.mode = word.mode /\ drv'.level = level
  BY <1>1, <1>2 DEF DriveType
<1>7. MotionInv'
  BY <1>2, <1>5, <1>6, DriveStepKeeps
<1>8. ASSUME drv'.mode # drv.mode PROVE drv'.level < 3
  <2>1. word.mode # drv.mode
    BY <1>6, <1>8
  <2>2. InFlight
    BY <2>1 DEF MotionInv, Phase, Settled, Changed, Taken
  <2>3. Commanded \in {0, 1, 2}
    BY <2>2 DEF InFlight, Commanded
  <2> QED BY <1>6, <2>3
<1> QED
  BY <1>7, <1>8

LEMMA DriveKeeps ==
  ASSUME MotionInv, DriveTakes \/ DriveClimbs
  PROVE  MotionInv' /\ (drv'.mode # drv.mode => drv'.level < 3)
<1>1. drv.level \in Nat /\ Commanded \in 0 .. 3
  BY DEF MotionInv, MotionShape, DriveType, Commanded
<1>2. CASE DriveClimbs
  <2>1. /\ drv.level + 1 \in Nat /\ drv.level + 1 <= Commanded
        /\ Takes(drv.level + 1, FALSE)
    <3>1. drv.level < Commanded /\ Takes(drv.level + 1, FALSE)
      BY <1>2 DEF DriveClimbs
    <3>2. drv.level + 1 \in Nat /\ drv.level + 1 <= Commanded
      BY <1>1, <3>1
    <3> QED BY <3>1, <3>2
  <2> QED BY <2>1, TakesKeeps
<1>3. CASE DriveTakes
  <2> DEFINE n == IF drv.fault THEN 0
                  ELSE IF drv.level < Commanded THEN drv.level ELSE Commanded
  <2>1. PICK recovers \in BOOLEAN : Takes(n, recovers)
    BY <1>3 DEF DriveTakes
  <2>2. n \in Nat /\ n <= Commanded
    BY <1>1
  <2> HIDE DEF n
  <2> QED BY <2>1, <2>2, TakesKeeps
<1> QED
  BY <1>2, <1>3

LEMMA DriveAloneKeeps ==
  ASSUME MotionInv, DriveArrives \/ DriveFaults
  PROVE  MotionInv' /\ drv'.mode = drv.mode
<1>1. drv \in DriveType
  BY DEF MotionInv, MotionShape
<1>2. /\ order' = order /\ pc' = pc /\ cmd' = cmd /\ axis' = axis /\ seen' = seen
      /\ pwr' = pwr /\ mv' = mv /\ hm' = hm /\ word' = word
  BY DEF DriveArrives, DriveFaults, BetweenScans
<1>3. "no" \in Asked
  BY DEF Asked
<1>4. CASE DriveArrives
  <2>1. PICK lost \in BOOLEAN :
          drv' = [drv EXCEPT !.moves = "no", !.bit13 = lost,
                             !.homed = drv.moves = "home" /\ ~lost]
    BY <1>4 DEF DriveArrives
  <2> DEFINE h == drv.moves = "home" /\ ~lost
  <2>2. h \in BOOLEAN /\ drv' = [drv EXCEPT !.moves = "no", !.bit13 = lost, !.homed = h]
    BY <2>1
  <2> HIDE DEF h
  <2>3. drv' \in DriveType
    BY <1>1, <1>3, <2>1, <2>2 DEF DriveType
  <2>4. drv'.mode = drv.mode
    BY <1>1, <2>2 DEF DriveType
  <2> QED BY <1>2, <2>3, <2>4, DriveStepKeeps
<1>5. CASE DriveFaults
  <2>1. drv' = [drv EXCEPT !.fault = TRUE, !.level = 0, !.moves = "no"]
    BY <1>5 DEF DriveFaults
  <2>2. drv' \in DriveType
    BY <1>1, <1>3, <2>1 DEF DriveType
  <2>3. drv'.mode = drv.mode
    BY <1>1, <2>1 DEF DriveType
  <2> QED BY <1>2, <2>2, <2>3, DriveStepKeeps
<1> QED
  BY <1>4, <1>5

LEMMA MotionStart ==
  ASSUME MotionInit
  PROVE  MotionInv
<1>1. /\ order \in Orders /\ pc = Len(order) + 1 /\ axis = Idle /\ word = Idle /\ seen = drv
      /\ drv = [level |-> 0, fault |-> FALSE, mode |-> 0, strobe |-> FALSE,
                moves |-> "no", homed |-> FALSE, bit13 |-> FALSE]
      /\ pwr = [i |-> 0, t |-> 0, done |-> FALSE, error |-> FALSE]
      /\ mv = [b \in Moves |-> [i |-> 0, error |-> FALSE]]
      /\ hm = [i |-> 0, t |-> 0, done |-> FALSE, error |-> FALSE]
      /\ cmd = [b \in {"power", "position", "velocity", "home", "reset"} |-> FALSE]
  BY DEF MotionInit
<1>2. Len(order) \in Nat
  BY <1>1, MotionAssumption
<1>3. pc \in 0 .. Len(order) + 1
  BY <1>1, <1>2
<1>4. cmd \in Commands /\ \A b \in Motions : cmd[b] = FALSE
  BY <1>1 DEF Commands, Motions, Moves
<1>5. "no" \in Asked
  BY DEF Asked
<1>6. /\ axis \in AxisType /\ axis.mode = 0 /\ word \in AxisType /\ word.mode = 0
      /\ drv \in DriveType /\ drv.mode = 0 /\ seen \in DriveType /\ seen.mode = 0
  BY <1>1, <1>5 DEF Idle, AxisType, DriveType
<1>7. pwr \in TimedType /\ mv \in [Moves -> MoveType] /\ hm \in TimedType
  BY <1>1 DEF TimedType, MoveType
<1>8. \A b \in Motions : State(b) = 0
  BY <1>1 DEF State, Motions
<1>9. MotionShape
  BY <1>1, <1>3, <1>4, <1>6, <1>7 DEF MotionShape
<1>10. Exclusive /\ Programmed /\ Started
  BY <1>4 DEF Exclusive, Programmed, Started
<1>11. Held /\ Pending
  BY <1>8 DEF Held, InCharge, Pending
<1>12. PowerUp /\ Settled
  BY <1>1, <1>6 DEF PowerUp, Settled
<1> QED
  BY <1>9, <1>10, <1>11, <1>12 DEF MotionInv, Phase

LEMMA MotionKeeps ==
  ASSUME MotionInv, [MotionNext]_motionVars
  PROVE  MotionInv' /\ (drv'.mode # drv.mode => drv'.level < 3)
<1>1. CASE StartScan
  <2>1. PICK c \in Commands : Disciplined(c) /\ Bridge(c)
    BY <1>1 DEF StartScan
  <2> QED BY <2>1, BridgeKeeps DEF Bridge
<1>2. CASE CallPower
  BY <1>2, PowerKeeps DEF CallPower, Turn
<1>3. CASE CallHome
  BY <1>3, HomeKeeps DEF CallHome, Turn
<1>4. CASE CallReset
  BY <1>4, ResetKeeps DEF CallReset, Turn
<1>5. CASE \E b \in Moves : CallMove(b)
  BY <1>5, MoveKeeps DEF CallMove, Turn
<1>6. CASE DriveTakes \/ DriveClimbs
  BY <1>6, DriveKeeps
<1>7. CASE DriveArrives \/ DriveFaults
  BY <1>7, DriveAloneKeeps
<1>8. CASE UNCHANGED motionVars
  <2>1. /\ order' = order /\ pc' = pc /\ cmd' = cmd /\ axis' = axis /\ seen' = seen
        /\ pwr' = pwr /\ mv' = mv /\ hm' = hm /\ word' = word /\ drv' = drv
    BY <1>8 DEF motionVars
  <2>2. drv' \in DriveType
    BY <2>1 DEF MotionInv, MotionShape
  <2> QED BY <2>1, <2>2, DriveStepKeeps
<1> QED
  BY <1>1, <1>2, <1>3, <1>4, <1>5, <1>6, <1>7, <1>8 DEF MotionNext, Calls, Drive

\* For every call order without a block twice, whatever the timeouts, the
\* drive's delays and its faults: a drive changes its mode only while operation
\* is not enabled (opensml_profile_position.st and its kin, states 0 and 10).
THEOREM ModesChangeDisabled == MotionSpec => ModeChangesDisabled
<1>1. MotionInit => MotionInv
  BY MotionStart
<1>2. MotionInv /\ [MotionNext]_motionVars => MotionInv'
  BY MotionKeeps
<1>3. MotionInv /\ [MotionNext]_motionVars => [drv'.mode # drv.mode => drv'.level < 3]_motionVars
  BY MotionKeeps
<1> QED
  BY <1>1, <1>2, <1>3, PTL DEF MotionSpec, ModeChangesDisabled
=============================================================================
