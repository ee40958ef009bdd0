-------------------------- MODULE Toolchain_proof --------------------------
(***************************************************************************)
(* What the compiler makes of FOR, of MAX and MIN, and what the language   *)
(* server shows of a text: the theorems of ForLoop, Selection and          *)
(* Workspace.                                                              *)
(***************************************************************************)
EXTENDS ForLoop, Selection, Workspace, TLAPS
-----------------------------------------------------------------------------
(***************************************************************************)
(* FOR statements.  A control variable that can pass its bound is never    *)
(* advanced beyond the range of its type, so that the width in which it is *)
(* advanced does not show.                                                 *)
(***************************************************************************)

LEMMA OneTimeMore ==
  ASSUME NEW a \in Int, NEW s \in Int
  PROVE  /\ (a + 1) * s = a * s + s
         /\ (a - 1) * s = a * s - s
OBVIOUS

LEMMA InRangeNotWrapped ==
  ASSUME NEW x \in Controls
  PROVE  Wrapped(x) = x
<1> DEFINE a == x - MinControl
           b == MaxControl - MinControl + 1
<1>1. a \in Nat /\ b \in Nat \ {0} /\ a < b
  BY LoopAssumption DEF Controls
<1>2. x = MinControl + a
  BY LoopAssumption DEF Controls
<1> HIDE DEF a, b
<1>3. a % b = a
  BY <1>1
<1> QED
  BY <1>2, <1>3 DEF Wrapped, a, b

LEMMA WrappedIsInt ==
  ASSUME NEW x \in Int
  PROVE  Wrapped(x) \in Int
<1> DEFINE a == x - MinControl
           b == MaxControl - MinControl + 1
<1>1. a \in Int /\ b \in Nat \ {0} /\ MinControl \in Int
  BY LoopAssumption
<1>2. Wrapped(x) = MinControl + (a % b)
  BY DEF Wrapped
<1> HIDE DEF a, b
<1>3. a % b \in Int
  BY <1>1
<1> QED
  BY <1>1, <1>2, <1>3

LEMMA SetUnforced ==
  ASSUME NEW c \in C!CellType(Int), NEW v \in Int
  PROVE  /\ C!Set(c, v) \in C!CellType(Int)
         /\ C!Set(c, v).forced = c.forced
         /\ ~c.forced => C!Get(C!Set(c, v)) = v
BY DEF C!CellType, C!Set, C!Get

LoopTyped ==
  /\ control \in C!CellType(Int) /\ limit \in Int /\ by \in Int
  /\ endRef \in Int /\ stepRef \in Int /\ passes \in Nat
  /\ asked \in [start : Bounds \cap Controls, end : Bounds, step : Steps]
  /\ loopAt \in {"enter", "test", "body", "advance", "left"}

Captured ==
  /\ loopAt = "enter" => limit = asked.end /\ by = asked.step /\ passes = 0
  /\ loopAt # "enter" => endRef = asked.end /\ stepRef = asked.step

OnCourse ==
  CanPassBound =>
    /\ loopAt = "test" =>
         /\ C!Get(control) = asked.start + passes * asked.step
         /\ C!Get(control) \in Controls
    /\ loopAt \in {"body", "advance"} =>
         /\ C!Get(control) = asked.start + (passes - 1) * asked.step
         /\ C!Get(control) \in Controls
         /\ ~Beyond(C!Get(control))
    /\ loopAt = "left" => Beyond(asked.start + passes * asked.step)

LoopInv == LoopTyped /\ Captured /\ OnCourse

LEMMA LoopInts ==
  ASSUME LoopTyped
  PROVE  /\ asked.start \in Int /\ asked.end \in Int /\ asked.step \in Int
         /\ asked.start \in Controls /\ MinControl \in Int /\ MaxControl \in Int
         /\ C!Get(control) \in Int
<1>1. asked.start \in Bounds \cap Controls /\ asked.end \in Bounds /\ asked.step \in Steps
  BY DEF LoopTyped
<1>2. C!Get(control) \in Int
  BY DEF LoopTyped, C!CellType, C!Get
<1> QED
  BY <1>1, <1>2, LoopAssumption

LEMMA LoopInitInv == LoopInit => LoopInv
<1> SUFFICES ASSUME LoopInit PROVE LoopInv
  OBVIOUS
<1>1. control \in C!CellType(Int)
  <2>1. \A v \in Controls : v \in Int
    BY DEF Controls
  <2>2. C!Fresh(0, 0) \in C!CellType(Int)
    BY DEF C!CellType, C!Fresh
  <2>3. \A v \in Int : C!ForceTo(C!Fresh(0, 0), v) \in C!CellType(Int)
    BY DEF C!CellType, C!ForceTo
  <2> QED
    BY <2>1, <2>2, <2>3 DEF LoopInit
<1>2. /\ asked \in [start : Bounds \cap Controls, end : Bounds, step : Steps]
      /\ limit = asked.end /\ by = asked.step /\ endRef = 0 /\ stepRef = 0
      /\ passes = 0 /\ loopAt = "enter"
  BY DEF LoopInit
<1>3. limit \in Int /\ by \in Int
  BY <1>2, LoopAssumption
<1> QED
  BY <1>1, <1>2, <1>3 DEF LoopInv, LoopTyped, Captured, OnCourse

LEMMA EnterKeeps == ASSUME LoopInv, EnterLoop PROVE LoopInv'
<1>1. LoopTyped /\ Captured
  BY DEF LoopInv
<1>2. /\ loopAt = "enter" /\ control' = C!Set(control, asked.start)
      /\ endRef' = limit /\ stepRef' = by /\ loopAt' = "test"
      /\ UNCHANGED <<limit, by, constants, passes, asked>>
  BY DEF EnterLoop
<1>3. passes = 0 /\ endRef' = asked.end /\ stepRef' = asked.step
  BY <1>1, <1>2 DEF Captured
<1>4. /\ asked.start \in Controls /\ asked.start \in Int /\ asked.end \in Int
      /\ asked.step \in Int
  BY <1>1, LoopInts
<1>5. /\ control' \in C!CellType(Int) /\ control'.forced = control.forced
      /\ ~control.forced => C!Get(control') = asked.start
  BY <1>1, <1>2, <1>4, SetUnforced DEF LoopTyped
<1>6. LoopTyped'
  BY <1>1, <1>2, <1>3, <1>4, <1>5 DEF LoopTyped
<1>7. Captured'
  BY <1>2, <1>3 DEF Captured
<1>8. ASSUME CanPassBound'
      PROVE  C!Get(control') = asked.start + passes * asked.step
  <2>1. ~control.forced
    BY <1>5, <1>8 DEF CanPassBound
  <2>2. asked.start + passes * asked.step = asked.start
    BY <1>3, <1>4
  <2> QED
    BY <1>5, <2>1, <2>2
<1>9. OnCourse'
  <2> SUFFICES ASSUME CanPassBound'
               PROVE  /\ C!Get(control)' = asked.start + passes * asked.step
                      /\ C!Get(control)' \in Controls
    BY <1>2 DEF OnCourse
  <2>1. C!Get(control)' = C!Get(control')
    BY DEF C!Get
  <2>2. ~control.forced
    BY <1>5 DEF CanPassBound
  <2> QED
    BY <1>4, <1>5, <1>8, <2>1, <2>2
<1> QED
  BY <1>6, <1>7, <1>9 DEF LoopInv

LEMMA TestKeeps == ASSUME LoopInv, TestBound PROVE LoopInv'
<1>1. LoopTyped /\ Captured /\ OnCourse
  BY DEF LoopInv
<1>2. /\ loopAt = "test" /\ loopAt' = (IF GoesOn THEN "body" ELSE "left")
      /\ passes' = (IF GoesOn THEN passes + 1 ELSE passes)
      /\ UNCHANGED <<control, limit, by, constants, endRef, stepRef, asked>>
  BY DEF TestBound, TestWith
<1>3. endRef = asked.end /\ stepRef = asked.step
  BY <1>1, <1>2 DEF Captured
<1>4. LoopTyped' /\ Captured'
  BY <1>1, <1>2, <1>3 DEF LoopTyped, Captured
<1>5. /\ asked.start \in Int /\ asked.end \in Int /\ asked.step \in Int
      /\ C!Get(control) \in Int /\ passes \in Nat
  BY <1>1, LoopInts DEF LoopTyped
<1>6. ASSUME CanPassBound
      PROVE  /\ C!Get(control) = asked.start + passes * asked.step
             /\ C!Get(control) \in Controls
             /\ GoesOn <=> ~Beyond(C!Get(control))
  <2>1. asked.step # 0
    BY <1>6 DEF CanPassBound
  <2>2. GoesOn <=> ~Beyond(C!Get(control))
    BY <1>3, <1>5, <2>1 DEF GoesOn, Beyond
  <2> QED
    BY <1>1, <1>2, <1>6, <2>2 DEF OnCourse
<1>7. OnCourse'
  <2> SUFFICES ASSUME CanPassBound PROVE OnCourse'
    BY <1>2 DEF OnCourse, CanPassBound
  <2>1. C!Get(control)' = C!Get(control) /\ \A v : Beyond(v)' = Beyond(v)
    BY <1>2 DEF C!Get, Beyond
  <2>2. CASE GoesOn
    <3>1. (passes' - 1) = passes /\ loopAt' = "body"
      BY <1>2, <1>5, <2>2
    <3>2. /\ C!Get(control) = asked.start + (passes' - 1) * asked.step
          /\ C!Get(control) \in Controls /\ ~Beyond(C!Get(control))
      BY <1>6, <2>2, <3>1
    <3>3. ~Beyond(C!Get(control))'
      BY <1>2, <3>2 DEF C!Get, Beyond
    <3> QED
      BY <1>2, <2>1, <3>1, <3>2, <3>3 DEF OnCourse
  <2>3. CASE ~GoesOn
    <3>1. passes' = passes /\ loopAt' = "left"
      BY <1>2, <2>3
    <3>2. Beyond(asked.start + passes * asked.step)
      BY <1>6, <2>3
    <3>3. Beyond(asked.start + passes * asked.step)'
      BY <1>2, <3>1, <3>2 DEF Beyond
    <3> QED
      BY <3>1, <3>3 DEF OnCourse
  <2> QED
    BY <2>2, <2>3
<1> QED
  BY <1>4, <1>7 DEF LoopInv

LEMMA BodyKeeps == ASSUME LoopInv, RunBody PROVE LoopInv'
<1>1. LoopTyped /\ Captured /\ OnCourse
  BY DEF LoopInv
<1>2. /\ loopAt = "body" /\ loopAt' = "advance"
      /\ UNCHANGED <<control, constants, endRef, stepRef, passes, asked>>
  BY DEF RunBody
<1>3. limit' \in Int /\ by' \in Int
  BY <1>1, LoopAssumption DEF RunBody, LoopTyped
<1>4. LoopTyped' /\ Captured'
  BY <1>1, <1>2, <1>3 DEF LoopTyped, Captured
<1>5. OnCourse'
  BY <1>1, <1>2 DEF OnCourse, CanPassBound, Beyond, C!Get
<1> QED
  BY <1>4, <1>5 DEF LoopInv

LEMMA AdvanceKeeps == ASSUME LoopInv, AdvanceControl PROVE LoopInv'
<1>1. LoopTyped /\ Captured /\ OnCourse
  BY DEF LoopInv
<1> DEFINE v == C!Get(control)
           w == Wrapped(v + stepRef)
<1>2. /\ loopAt = "advance" /\ loopAt' = "test" /\ control' = C!Set(control, w)
      /\ UNCHANGED <<limit, by, constants, endRef, stepRef, passes, asked>>
  BY DEF AdvanceControl
<1>3. endRef = asked.end /\ stepRef = asked.step
  BY <1>1, <1>2 DEF Captured
<1>4. /\ asked.start \in Int /\ asked.end \in Int /\ asked.step \in Int
      /\ v \in Int /\ passes \in Nat /\ MinControl \in Int /\ MaxControl \in Int
  BY <1>1, LoopInts DEF LoopTyped
<1>5. w \in Int
  <2>1. v + stepRef \in Int
    BY <1>3, <1>4
  <2> QED
    BY <2>1, WrappedIsInt
<1> HIDE DEF v, w
<1>6. /\ control' \in C!CellType(Int) /\ control'.forced = control.forced
      /\ ~control.forced => C!Get(control') = w
  BY <1>1, <1>2, <1>5, SetUnforced DEF LoopTyped
<1>7. LoopTyped' /\ Captured'
  BY <1>1, <1>2, <1>3, <1>6 DEF LoopTyped, Captured
<1>8. ASSUME CanPassBound
      PROVE  /\ w = asked.start + passes * asked.step /\ w \in Controls
             /\ C!Get(control') = w
  <2>1. /\ ~control.forced /\ asked.step # 0 /\ asked.end + asked.step \in Controls
        /\ v = asked.start + (passes - 1) * asked.step
        /\ v \in Controls /\ ~Beyond(v)
    BY <1>1, <1>2, <1>8 DEF OnCourse, CanPassBound, v
  <2>2. v + asked.step \in Controls
    BY <1>4, <2>1 DEF Beyond, Controls
  <2>3. w = v + asked.step
    BY <1>3, <2>2, InRangeNotWrapped DEF w
  <2>4. (passes - 1) * asked.step = passes * asked.step - asked.step
    BY <1>4, OneTimeMore
  <2>5. passes * asked.step \in Int
    BY <1>4
  <2>6. w = asked.start + passes * asked.step
    <3> DEFINE m == passes * asked.step
    <3> HIDE DEF m
    <3>1. m \in Int /\ v = asked.start + (m - asked.step)
      BY <2>1, <2>4, <2>5 DEF m
    <3>2. w = asked.start + m
      BY <1>4, <2>3, <3>1
    <3> QED
      BY <3>2 DEF m
  <2> QED
    BY <1>6, <2>1, <2>2, <2>3, <2>6
<1>9. OnCourse'
  <2> SUFFICES ASSUME CanPassBound'
               PROVE  /\ C!Get(control)' = asked.start + passes * asked.step
                      /\ C!Get(control)' \in Controls
    BY <1>2 DEF OnCourse
  <2>1. C!Get(control)' = C!Get(control')
    BY DEF C!Get
  <2>2. CanPassBound
    BY <1>2, <1>6 DEF CanPassBound
  <2> QED
    BY <1>8, <2>1, <2>2
<1> QED
  BY <1>7, <1>9 DEF LoopInv

\* Whatever the range of the control variable and the values the body assigns
\* to the variables TO and BY were read from: pass k of a loop that can pass
\* its bound has the control variable at start + (k - 1) * step and inside the
\* bound, and the loop is left at the first value beyond it
\* (generateForStatement).
THEOREM LoopsPassAsAsked == LoopSpec => []PassesAsAsked
<1>1. LoopInv /\ [LoopNext]_loopVars => LoopInv'
  <2> SUFFICES ASSUME LoopInv, [LoopNext]_loopVars PROVE LoopInv'
    OBVIOUS
  <2>1. CASE UNCHANGED loopVars
    BY <2>1 DEF loopVars, LoopInv, LoopTyped, Captured, OnCourse, CanPassBound,
                Beyond, C!Get
  <2> QED
    BY <2>1, EnterKeeps, TestKeeps, BodyKeeps, AdvanceKeeps DEF LoopNext
<1>2. LoopInv => PassesAsAsked
  BY DEF LoopInv, OnCourse, PassesAsAsked
<1> QED
  BY <1>1, <1>2, LoopInitInv, PTL DEF LoopSpec

-----------------------------------------------------------------------------
(***************************************************************************)
(* MIN and MAX.  A type of more levels, signed, holds every value of one   *)
(* of fewer (Holds); both the type of a step and the type of the call hold *)
(* those of the arguments unless one is a ULINT.                           *)
(***************************************************************************)

Ulint == [signed |-> FALSE, level |-> 4]

Within(v, t) == v \in Int /\ Lo(t) <= v /\ v <= Hi(t)

Holds(r, t) ==
  \/ r.signed = FALSE /\ t.signed = FALSE /\ r.level >= t.level
  \/ r.signed = TRUE /\ t.signed = TRUE /\ r.level >= t.level
  \/ r.signed = TRUE /\ t.signed = FALSE /\ r.level > t.level

LEMMA HalfGrows ==
  /\ \A l \in 1..4 : Half[l] \in Nat \ {0}
  /\ \A k, l \in 1..4 : k <= l => Half[k] <= Half[l]
  /\ \A k, l \in 1..4 : k < l => 2 * Half[k] <= Half[l]
<1>1. /\ Half[1] \in Nat \ {0} /\ Half[2] \in Nat \ {0} /\ Half[3] \in Nat \ {0}
      /\ Half[4] \in Nat \ {0}
  BY SelectionAssumption
<1>2. 2 * Half[1] <= Half[2] /\ 2 * Half[2] <= Half[3] /\ 2 * Half[3] <= Half[4]
  BY SelectionAssumption
<1> QED
  BY <1>1, <1>2

LEMMA TypeParts ==
  ASSUME NEW t \in IntTypes
  PROVE  t.signed \in BOOLEAN /\ t.level \in 1..4
BY DEF IntTypes

LEMMA RangeTyped ==
  ASSUME NEW t \in IntTypes
  PROVE  /\ Lo(t) \in Int /\ Hi(t) \in Int /\ Half[t.level] \in Nat \ {0}
         /\ t.signed = TRUE => Lo(t) = -Half[t.level] /\ Hi(t) = Half[t.level] - 1
         /\ t.signed = FALSE => Lo(t) = 0 /\ Hi(t) = 2 * Half[t.level] - 1
<1>1. t.level \in 1..4 /\ t.signed \in BOOLEAN
  BY TypeParts
<1>2. Half[t.level] \in Nat \ {0}
  BY <1>1, HalfGrows
<1> QED
  BY <1>1, <1>2 DEF Lo, Hi

LEMMA HoldsWithin ==
  ASSUME NEW r \in IntTypes, NEW t \in IntTypes, Holds(r, t), NEW v, Within(v, t)
  PROVE  Within(v, r)
<1>1. t.level \in 1..4 /\ r.level \in 1..4 /\ t.signed \in BOOLEAN /\ r.signed \in BOOLEAN
  BY TypeParts
<1>2. /\ Half[t.level] \in Nat \ {0} /\ Half[r.level] \in Nat \ {0}
      /\ t.level <= r.level => Half[t.level] <= Half[r.level]
      /\ t.level < r.level => 2 * Half[t.level] <= Half[r.level]
  BY <1>1, HalfGrows
<1>3. /\ t.signed = TRUE => Lo(t) = -Half[t.level] /\ Hi(t) = Half[t.level] - 1
      /\ t.signed = FALSE => Lo(t) = 0 /\ Hi(t) = 2 * Half[t.level] - 1
      /\ r.signed = TRUE => Lo(r) = -Half[r.level] /\ Hi(r) = Half[r.level] - 1
      /\ r.signed = FALSE => Lo(r) = 0 /\ Hi(r) = 2 * Half[r.level] - 1
  BY RangeTyped
<1> QED
  BY <1>1, <1>2, <1>3 DEF Within, Holds

\* A value the type has is not changed by a cast to it.
LEMMA CastWithin ==
  ASSUME NEW t \in IntTypes, NEW v, Within(v, t)
  PROVE  Cast(v, t) = v
<1> DEFINE a == v - Lo(t)
           b == 2 * Half[t.level]
<1>1. Lo(t) \in Int /\ Half[t.level] \in Nat \ {0}
  BY RangeTyped
<1>2. v \in Int /\ Lo(t) <= v /\ v <= Lo(t) + b - 1 /\ b \in Nat \ {0}
  BY <1>1 DEF Within, Hi
<1>3. a \in Nat /\ a < b /\ v = Lo(t) + a
  BY <1>1, <1>2
<1>4. Cast(v, t) = Lo(t) + (a % b)
  BY DEF Cast
<1> HIDE DEF a, b
<1>5. a % b = a
  BY <1>2, <1>3
<1> QED
  BY <1>3, <1>4, <1>5

LEMMA PromotedIs ==
  ASSUME native \in {3, 4}, NEW t \in IntTypes
  PROVE  /\ Promoted(t) \in IntTypes
         /\ Promoted(t).level = (IF t.level > native THEN t.level ELSE native)
         /\ Promoted(t).signed = TRUE <=> t.signed = TRUE \/ native > t.level
<1>1. t.level \in 1..4 /\ t.signed \in BOOLEAN
  BY TypeParts
<1> DEFINE l == Wider(t.level, native)
<1>2. l = (IF t.level > native THEN t.level ELSE native) /\ l \in 1..4
  BY <1>1 DEF Wider
<1>3. l > t.level <=> native > t.level
  BY <1>1, <1>2
<1> HIDE DEF l
<1>4. Promoted(t) = [signed |-> t.signed \/ l > t.level, level |-> l]
  BY DEF Promoted, l
<1>5. (t.signed \/ l > t.level) \in BOOLEAN
  BY <1>1
<1>6. Promoted(t) \in IntTypes
  BY <1>2, <1>4, <1>5 DEF IntTypes
<1>7. \A b \in BOOLEAN : \A x : x = [signed |-> b, level |-> l] =>
        x.level = l /\ x.signed = b
  OBVIOUS
<1>8. Promoted(t).level = l /\ Promoted(t).signed = (t.signed \/ l > t.level)
  BY <1>4, <1>5, <1>7, Zenon
<1>9. Promoted(t).signed = TRUE <=> t.signed = TRUE \/ native > t.level
  BY <1>1, <1>3, <1>8
<1> QED
  BY <1>2, <1>6, <1>8, <1>9

\* Neither operand is a ULINT, nor is the type they select in; it holds both.
LEMMA ArithHolds ==
  ASSUME native \in {3, 4}, NEW t \in IntTypes, NEW u \in IntTypes,
         t.signed = u.signed, t # Ulint, u # Ulint
  PROVE  /\ ArithResult(t, u) \in IntTypes /\ ArithResult(t, u) # Ulint
         /\ Holds(ArithResult(t, u), t) /\ Holds(ArithResult(t, u), u)
<1> DEFINE p == Promoted(t)
           q == Promoted(u)
           r == ArithResult(t, u)
<1>1. /\ t.level \in 1..4 /\ t.signed \in BOOLEAN /\ u.level \in 1..4
      /\ u.signed \in BOOLEAN
  BY TypeParts
<1>2. /\ p \in IntTypes /\ q \in IntTypes
      /\ p.level = (IF t.level > native THEN t.level ELSE native)
      /\ p.signed = TRUE <=> t.signed = TRUE \/ native > t.level
      /\ q.level = (IF u.level > native THEN u.level ELSE native)
      /\ q.signed = TRUE <=> u.signed = TRUE \/ native > u.level
      /\ p.level \in 1..4 /\ p.signed \in BOOLEAN /\ q.level \in 1..4
      /\ q.signed \in BOOLEAN
  BY PromotedIs, TypeParts
<1>3. \A x \in IntTypes : x.signed = FALSE /\ x.level = 4 => x = Ulint
  BY DEF IntTypes, Ulint
<1>4. Ulint.signed = FALSE /\ Ulint.level = 4
  BY DEF Ulint
<1>5. ~(t.signed = FALSE /\ t.level = 4) /\ ~(u.signed = FALSE /\ u.level = 4)
  BY <1>3
<1> HIDE DEF p, q
<1>6. CASE p.level > q.level
  <2>1. r = p
    BY <1>2, <1>6 DEF ArithResult, p, q
  <2>2. ~(p.signed = FALSE /\ p.level = 4)
    BY <1>1, <1>2, <1>5
  <2>3. Holds(p, t)
    BY <1>1, <1>2 DEF Holds
  <2>4. Holds(p, u)
    BY <1>1, <1>2, <1>6 DEF Holds
  <2> HIDE DEF r
  <2> QED
    BY <1>2, <1>4, <2>1, <2>2, <2>3, <2>4 DEF r
<1>7. CASE p.level < q.level
  <2>1. r = q
    BY <1>2, <1>7 DEF ArithResult, p, q
  <2>2. ~(q.signed = FALSE /\ q.level = 4)
    BY <1>1, <1>2, <1>5
  <2>3. Holds(q, u)
    BY <1>1, <1>2 DEF Holds
  <2>4. Holds(q, t)
    BY <1>1, <1>2, <1>7 DEF Holds
  <2> HIDE DEF r
  <2> QED
    BY <1>2, <1>4, <2>1, <2>2, <2>3, <2>4 DEF r
<1>8. CASE p.level = q.level
  <2>1. r = [signed |-> p.signed /\ q.signed, level |-> p.level]
    BY <1>2, <1>8 DEF ArithResult, p, q
  <2>2. (p.signed /\ q.signed) \in BOOLEAN
    BY <1>2
  <2>3. /\ r \in IntTypes /\ r.level = p.level
        /\ r.signed = TRUE <=> p.signed = TRUE /\ q.signed = TRUE
        /\ r.signed \in BOOLEAN
    BY <1>2, <2>1, <2>2 DEF IntTypes
  <2> HIDE DEF r
  <2>4. ~(r.signed = FALSE /\ r.level = 4)
    BY <1>1, <1>2, <1>5, <1>8, <2>2, <2>3
  <2>5. Holds(r, t)
    BY <1>1, <1>2, <1>8, <2>2, <2>3 DEF Holds
  <2>6. Holds(r, u)
    BY <1>1, <1>2, <1>8, <2>2, <2>3 DEF Holds
  <2> QED
    BY <1>4, <2>3, <2>4, <2>5, <2>6 DEF r
<1> QED
  BY <1>2, <1>6, <1>7, <1>8

LEMMA SelectedHolds ==
  ASSUME native \in {3, 4}, NEW t \in IntTypes, NEW u \in IntTypes,
         t # Ulint, u # Ulint
  PROVE  /\ Selected(t, u) \in IntTypes /\ Selected(t, u) # Ulint
         /\ Holds(Selected(t, u), t) /\ Holds(Selected(t, u), u)
<1> DEFINE r == Selected(t, u)
<1>1. /\ t.level \in 1..4 /\ t.signed \in BOOLEAN /\ u.level \in 1..4
      /\ u.signed \in BOOLEAN
  BY TypeParts
<1>2. \A x \in IntTypes : x.signed = FALSE /\ x.level = 4 => x = Ulint
  BY DEF IntTypes, Ulint
<1>3. CASE t = u
  <2>1. r = t
    BY <1>3 DEF Selected
  <2>2. Holds(t, t)
    BY <1>1 DEF Holds
  <2> HIDE DEF r
  <2> QED
    BY <1>3, <2>1, <2>2 DEF r
<1>4. CASE t # u /\ t.signed # u.signed
  <2> DEFINE l == Wider(t.level, u.level)
             k == IF l < 4 THEN l + 1 ELSE l
  <2>1. r = [signed |-> TRUE, level |-> k]
    BY <1>4 DEF Selected
  <2>2. l \in 1..4 /\ l >= t.level /\ l >= u.level
    BY <1>1 DEF Wider
  <2>3. k \in 1..4 /\ k >= l /\ (l < 4 => k > l)
    BY <2>2
  <2> HIDE DEF k, l
  <2>4. r \in IntTypes /\ r.signed = TRUE /\ r.level = k /\ r # Ulint
    BY <2>1, <2>3 DEF IntTypes, Ulint
  <2> HIDE DEF r
  <2>5. ~(t.signed = FALSE /\ t.level = 4) /\ ~(u.signed = FALSE /\ u.level = 4)
    BY <1>2
  <2>6. t.signed = TRUE => Holds(r, t)
    BY <1>1, <2>2, <2>3, <2>4 DEF Holds
  <2>7. t.signed = FALSE => Holds(r, t)
    BY <1>1, <2>2, <2>3, <2>4, <2>5 DEF Holds
  <2>8. u.signed = TRUE => Holds(r, u)
    BY <1>1, <2>2, <2>3, <2>4 DEF Holds
  <2>9. u.signed = FALSE => Holds(r, u)
    BY <1>1, <2>2, <2>3, <2>4, <2>5 DEF Holds
  <2> QED
    BY <1>1, <2>4, <2>6, <2>7, <2>8, <2>9 DEF r
<1>5. CASE t # u /\ t.signed = u.signed
  <2>1. r = ArithResult(t, u)
    BY <1>5 DEF Selected
  <2> HIDE DEF r
  <2> QED
    BY <1>5, <2>1, ArithHolds DEF r
<1> QED
  BY <1>3, <1>4, <1>5

WidestOf(S, signed) ==
  CHOOSE l \in 0..4 :
    /\ l = 0 \/ [signed |-> signed, level |-> l] \in S
    /\ \A t \in S : t.signed = signed => t.level <= l

LEMMA WidestIs ==
  ASSUME NEW S \in SUBSET IntTypes, NEW sign \in BOOLEAN
  PROVE  /\ WidestOf(S, sign) \in 0..4
         /\ WidestOf(S, sign) = 0 \/ [signed |-> sign, level |-> WidestOf(S, sign)] \in S
         /\ \A t \in S : t.signed = sign => t.level <= WidestOf(S, sign)
<1> DEFINE Of(l) == [signed |-> sign, level |-> l]
           Ok(l) == /\ l = 0 \/ Of(l) \in S
                    /\ \A t \in S : t.signed = sign => t.level <= l
<1>1. \A t \in S : /\ t.level \in 1..4
                   /\ t.signed = sign => t = Of(t.level)
  BY DEF IntTypes
<1> HIDE DEF Of
<1>2. \E l \in 0..4 : Ok(l)
  <2>1. CASE Of(4) \in S
    <3>1. Ok(4)
      BY <1>1, <2>1
    <3> QED
      BY <3>1
  <2>2. CASE Of(4) \notin S /\ Of(3) \in S
    <3>1. Ok(3)
      BY <1>1, <2>2
    <3> QED
      BY <3>1
  <2>3. CASE Of(4) \notin S /\ Of(3) \notin S /\ Of(2) \in S
    <3>1. Ok(2)
      BY <1>1, <2>3
    <3> QED
      BY <3>1
  <2>4. CASE Of(4) \notin S /\ Of(3) \notin S /\ Of(2) \notin S /\ Of(1) \in S
    <3>1. Ok(1)
      BY <1>1, <2>4
    <3> QED
      BY <3>1
  <2>5. CASE Of(4) \notin S /\ Of(3) \notin S /\ Of(2) \notin S /\ Of(1) \notin S
    <3>1. \A t \in S : t.signed # sign
      <4> SUFFICES ASSUME NEW t \in S, t.signed = sign PROVE FALSE
        OBVIOUS
      <4>1. t = Of(t.level) /\ t.level \in 1..4
        BY <1>1
      <4>2. t.level = 1 \/ t.level = 2 \/ t.level = 3 \/ t.level = 4
        BY <4>1
      <4> QED
        BY <2>5, <4>1, <4>2
    <3>2. Ok(0)
      BY <3>1
    <3> QED
      BY <3>2
  <2> QED
    BY <2>1, <2>2, <2>3, <2>4, <2>5
<1>3. WidestOf(S, sign) = CHOOSE l \in 0..4 : Ok(l)
  BY DEF WidestOf, Of
<1> HIDE DEF Ok
<1>4. WidestOf(S, sign) \in 0..4 /\ Ok(WidestOf(S, sign))
  BY <1>2, <1>3
<1> QED
  BY <1>4 DEF Ok, Of

LEMMA CommonHolds ==
  ASSUME NEW S \in SUBSET IntTypes, Ulint \notin S, NEW t \in S
  PROVE  CommonType(S) \in IntTypes /\ Holds(CommonType(S), t)
<1> DEFINE s == WidestOf(S, TRUE)
           u == WidestOf(S, FALSE)
           c == CommonType(S)
<1>1. /\ s \in 0..4 /\ u \in 0..4
      /\ \A x \in S : x.signed = TRUE => x.level <= s
      /\ \A x \in S : x.signed = FALSE => x.level <= u
  BY WidestIs
<1>2. u # 4
  <2>1. u = 0 \/ [signed |-> FALSE, level |-> u] \in S
    BY WidestIs
  <2> HIDE DEF u
  <2> SUFFICES ASSUME u = 4 PROVE FALSE
    OBVIOUS
  <2>2. [signed |-> FALSE, level |-> u] = Ulint
    BY Zenon DEF Ulint
  <2>3. u # 0
    OBVIOUS
  <2> QED
    BY <2>1, <2>2, <2>3
<1>3. t.level \in 1..4 /\ t.signed \in BOOLEAN
  BY TypeParts
<1>4. /\ t.signed = TRUE => t.level <= s
      /\ t.signed = FALSE => t.level <= u
  BY <1>1
<1>5. c = CASE u = 0 -> [signed |-> TRUE, level |-> s]
            [] s = 0 \/ u = 4 -> [signed |-> FALSE, level |-> u]
            [] OTHER -> [signed |-> TRUE, level |-> Wider(s, u + 1)]
  BY DEF CommonType, WidestOf
<1> HIDE DEF s, u, c
<1>6. CASE u = 0
  <2>1. t.signed = TRUE /\ t.level <= s
    BY <1>3, <1>4, <1>6
  <2>2. s \in 1..4
    BY <1>1, <1>3, <2>1
  <2>3. c = [signed |-> TRUE, level |-> s]
    BY <1>5, <1>6, <2>2
  <2>4. c \in IntTypes /\ c.signed = TRUE /\ c.level = s
    BY <2>2, <2>3 DEF IntTypes
  <2> QED
    BY <1>3, <2>1, <2>2, <2>4 DEF Holds, c
<1>7. CASE u # 0 /\ s = 0
  <2>1. c = [signed |-> FALSE, level |-> u]
    BY <1>5, <1>7
  <2>2. t.signed = FALSE /\ t.level <= u
    BY <1>3, <1>4, <1>7
  <2>3. c \in IntTypes /\ c.signed = FALSE /\ c.level = u
    BY <1>1, <1>7, <2>1 DEF IntTypes
  <2> QED
    BY <1>1, <1>3, <2>2, <2>3 DEF Holds, c
<1>8. CASE u # 0 /\ s # 0
  <2> DEFINE l == Wider(s, u + 1)
  <2>1. c = [signed |-> TRUE, level |-> l]
    BY <1>2, <1>5, <1>8
  <2>2. l \in 1..4 /\ s <= l /\ u < l
    BY <1>1, <1>2, <1>8 DEF Wider
  <2> HIDE DEF l
  <2>3. c \in IntTypes /\ c.signed = TRUE /\ c.level = l
    BY <2>1, <2>2 DEF IntTypes
  <2>4. t.signed = TRUE => t.level <= l
    BY <1>1, <1>3, <1>4, <2>2
  <2>5. t.signed = FALSE => t.level < l
    BY <1>1, <1>3, <1>4, <2>2
  <2> QED
    BY <1>3, <2>2, <2>3, <2>4, <2>5 DEF Holds, c
<1> QED
  BY <1>6, <1>7, <1>8

(***************************************************************************)
(* The invariant: the type of the fold has the value it selected, and so   *)
(* does the type of one of the arguments.                                  *)
(***************************************************************************)

SelectionInv ==
  /\ native \in {3, 4}
  /\ args.types \in SUBSET IntTypes
  /\ Ulint \notin args.types =>
       /\ acc.type \in IntTypes /\ acc.type # Ulint
       /\ acc.value = args.best /\ Within(acc.value, acc.type)
       /\ \E t \in args.types : Within(args.best, t)

LEMMA EdgesWithin ==
  ASSUME NEW t \in IntTypes, NEW v \in Edges(t)
  PROVE  Within(v, t)
<1>1. Lo(t) \in Int /\ Hi(t) \in Int
  BY RangeTyped
<1>2. v \in Lo(t)..Hi(t)
  BY DEF Edges
<1> QED
  BY <1>1, <1>2 DEF Within

LEMMA SelectionInitInv == SelectionInit => SelectionInv
<1> SUFFICES ASSUME SelectionInit PROVE SelectionInv
  OBVIOUS
<1>1. PICK t \in IntTypes : \E v \in Edges(t) :
        /\ acc = [type |-> t, value |-> v]
        /\ args = [types |-> {t}, count |-> 1, best |-> v]
  BY DEF SelectionInit
<1>2. PICK v \in Edges(t) :
        /\ acc = [type |-> t, value |-> v]
        /\ args = [types |-> {t}, count |-> 1, best |-> v]
  BY <1>1
<1>3. /\ acc.type = t /\ acc.value = v /\ args.types = {t} /\ args.best = v
  BY <1>2
<1>4. native \in {3, 4}
  BY SelectionAssumption DEF SelectionInit
<1>5. Within(v, t)
  BY EdgesWithin
<1> QED
  BY <1>3, <1>4, <1>5 DEF SelectionInv

LEMMA ArgumentKeeps ==
  ASSUME SelectionInv, NEW t \in IntTypes, NEW v \in Edges(t), NextArgument(t, v)
  PROVE  SelectionInv'
<1> DEFINE r == Selected(acc.type, t)
           w == Chosen(acc.value, v)
<1>1. /\ acc' = [type |-> r, value |-> Cast(w, r)] /\ native' = native
      /\ args' = [types |-> args.types \union {t}, count |-> args.count + 1,
                  best |-> Chosen(args.best, v)]
  BY DEF NextArgument
<1>2. /\ acc'.type = r /\ acc'.value = Cast(w, r)
      /\ args'.types = args.types \union {t} /\ args'.best = Chosen(args.best, v)
  BY <1>1
<1>3. native \in {3, 4} /\ args.types \in SUBSET IntTypes
  BY DEF SelectionInv
<1>4. ASSUME Ulint \notin args'.types
      PROVE  /\ acc'.type \in IntTypes /\ acc'.type # Ulint
             /\ acc'.value = args'.best /\ Within(acc'.value, acc'.type)
             /\ \E x \in args'.types : Within(args'.best, x)
  <2>1. /\ acc.type \in IntTypes /\ acc.type # Ulint /\ t # Ulint
        /\ acc.value = args.best /\ Within(acc.value, acc.type)
        /\ \E x \in args.types : Within(args.best, x)
    BY <1>2, <1>4 DEF SelectionInv
  <2>2. Within(v, t)
    BY EdgesWithin
  <2>3. /\ r \in IntTypes /\ r # Ulint /\ Holds(r, acc.type) /\ Holds(r, t)
    BY <1>3, <2>1, SelectedHolds
  <2>4. w = acc.value \/ w = v
    BY DEF Chosen
  <2> HIDE DEF r, w
  <2>5. Within(acc.value, r) /\ Within(v, r)
    BY <2>1, <2>2, <2>3, HoldsWithin
  <2>6. Within(w, r)
    BY <2>4, <2>5
  <2>7. Cast(w, r) = w
    BY <2>3, <2>6, CastWithin
  <2>8. args'.best = w
    BY <1>2, <2>1 DEF w
  <2>9. \E x \in args'.types : Within(w, x)
    BY <1>2, <2>1, <2>2, <2>4
  <2> QED
    BY <1>2, <2>3, <2>6, <2>7, <2>8, <2>9
<1>5. args'.types \in SUBSET IntTypes
  BY <1>2, <1>3
<1>6. \A x, y : Within(x, y)' = Within(x, y)
  BY DEF Within, Lo, Hi
<1> QED
  BY <1>1, <1>3, <1>4, <1>5 DEF SelectionInv, Ulint, Within, Lo, Hi

\* For every number of arguments, every mix of integer types without a ULINT
\* and both native widths: the selection is the largest or smallest argument,
\* and neither the types of the fold nor that of the call lose it
\* (iec_minmax_result_t, computeSelectionCommonType).
THEOREM SelectionsAreExact == SelectionSpec => []SelectionIsExact
<1>1. SelectionInv /\ [SelectionNext]_selectionVars => SelectionInv'
  <2> SUFFICES ASSUME SelectionInv, [SelectionNext]_selectionVars
               PROVE  SelectionInv'
    OBVIOUS
  <2>1. CASE UNCHANGED selectionVars
    BY <2>1 DEF selectionVars, SelectionInv, Within, Lo, Hi
  <2> QED
    BY <2>1, ArgumentKeeps DEF SelectionNext
<1>2. SelectionInv => SelectionIsExact
  <2> SUFFICES ASSUME SelectionInv, Ulint \notin args.types
               PROVE  acc.value = args.best /\ Answer = args.best
    BY DEF SelectionIsExact, Ulint
  <2>1. args.types \in SUBSET IntTypes /\ acc.value = args.best
    BY DEF SelectionInv
  <2>2. PICK t \in args.types : Within(args.best, t)
    BY DEF SelectionInv
  <2>3. CommonType(args.types) \in IntTypes /\ Holds(CommonType(args.types), t)
    BY <2>1, CommonHolds
  <2>4. Within(args.best, CommonType(args.types))
    BY <2>1, <2>2, <2>3, HoldsWithin
  <2>5. Cast(args.best, CommonType(args.types)) = args.best
    BY <2>3, <2>4, CastWithin
  <2> QED
    BY <2>1, <2>5 DEF Answer
<1> QED
  BY <1>1, <1>2, SelectionInitInv, PTL DEF SelectionSpec

-----------------------------------------------------------------------------
(***************************************************************************)
(* The language server, for every number of documents and texts: what is   *)
(* on screen is of the text in the editor, or the timer runs.              *)
(***************************************************************************)

WorkspaceTypeOK ==
  /\ live \in [Docs -> Texts \cup {None}]
  /\ source \in [Docs -> Texts \cup {None}]
  /\ debounce \in SUBSET Docs
  /\ disk \in [Docs -> Texts]
  /\ shown \in [Docs -> [Docs -> Texts \cup {None}]]

\* StaleIsPending is not inductive: reanalyzeAll publishes what the last
\* analysis saw, so a text that was analysed and is not the one in the editor
\* must have its timer running, too, and the server's idea of which documents
\* are open must be the editor's.
OneIdeaOfOpen == \A d \in Docs : live[d] = None <=> source[d] = None

UnseenIsPending ==
  \A d \in Docs : live[d] # None /\ source[d] # live[d] => d \in debounce

WorkspaceInv ==
  WorkspaceTypeOK /\ OneIdeaOfOpen /\ UnseenIsPending /\ StaleIsPending

LEMMA NothingTyped ==
  /\ Nothing \in [Docs -> Texts \cup {None}]
  /\ \A d \in Docs : Nothing[d] = None
BY DEF Nothing

LEMMA AnalysedTyped ==
  ASSUME NEW src \in [Docs -> Texts \cup {None}], disk \in [Docs -> Texts]
  PROVE  /\ Analysed(src) \in [Docs -> Texts \cup {None}]
         /\ \A d \in Docs : src[d] # None => Analysed(src)[d] = src[d]
BY DEF Analysed

LEMMA WorkspaceInitInv == WorkspaceInit => WorkspaceInv
BY NothingTyped
   DEF WorkspaceInit, WorkspaceInv, WorkspaceTypeOK, OneIdeaOfOpen,
       UnseenIsPending, StaleIsPending

\* An analysis that publishes leaves the document with nothing outstanding.
LEMMA PublishedIsCurrent ==
  ASSUME WorkspaceTypeOK, NEW d \in Docs, NEW text \in Texts,
         AnalyseAndPublish(d, text)
  PROVE  /\ source' \in [Docs -> Texts \cup {None}]
         /\ shown' \in [Docs -> [Docs -> Texts \cup {None}]]
         /\ source'[d] = text /\ shown'[d][d] = text
         /\ \A e \in Docs \ {d} : source'[e] = source[e] /\ shown'[e] = shown[e]
<1>1. source' \in [Docs -> Texts \cup {None}] /\ source'[d] = text /\ text # None
  BY WorkspaceAssumption DEF WorkspaceTypeOK, AnalyseAndPublish, None
<1>2. /\ Analysed(source') \in [Docs -> Texts \cup {None}]
      /\ Analysed(source')[d] = text
  BY <1>1, AnalysedTyped DEF WorkspaceTypeOK
<1> QED
  BY <1>1, <1>2 DEF WorkspaceTypeOK, AnalyseAndPublish

LEMMA WorkspaceStepInv == WorkspaceInv /\ [WorkspaceNext]_workspaceVars => WorkspaceInv'
<1> SUFFICES ASSUME WorkspaceInv, [WorkspaceNext]_workspaceVars
             PROVE  WorkspaceInv'
  OBVIOUS
<1> USE DEF WorkspaceInv
<1>1. ASSUME NEW d \in Docs, NEW text \in Texts, Open(d, text) PROVE WorkspaceInv'
  <2>1. text # None
    BY WorkspaceAssumption DEF None
  <2> QED
    BY <1>1, <2>1, PublishedIsCurrent, NothingTyped
       DEF Open, WorkspaceTypeOK, OneIdeaOfOpen, UnseenIsPending, StaleIsPending,
           Nothing
<1>2. ASSUME NEW d \in Docs, NEW text \in Texts, Edit(d, text) PROVE WorkspaceInv'
  <2>1. text # None
    BY WorkspaceAssumption DEF None
  <2> QED
    BY <1>2, <2>1
       DEF Edit, WorkspaceTypeOK, OneIdeaOfOpen, UnseenIsPending, StaleIsPending,
           Nothing
<1>3. ASSUME NEW d \in Docs, Close(d) PROVE WorkspaceInv'
  BY <1>3, NothingTyped
     DEF Close, WorkspaceTypeOK, OneIdeaOfOpen, UnseenIsPending, StaleIsPending,
         Nothing
<1>4. ASSUME NEW d \in Docs, Debounced(d) PROVE WorkspaceInv'
  <2>1. live[d] \in Texts /\ live[d] # None
    BY <1>4 DEF Debounced, WorkspaceTypeOK, StaleIsPending
  <2> QED
    BY <1>4, <2>1, PublishedIsCurrent
       DEF Debounced, WorkspaceTypeOK, OneIdeaOfOpen, UnseenIsPending,
           StaleIsPending, Nothing
<1>5. ASSUME NEW d \in Docs, Tokens(d) PROVE WorkspaceInv'
  BY <1>5
     DEF Tokens, WorkspaceTypeOK, OneIdeaOfOpen, UnseenIsPending, StaleIsPending,
         Nothing
<1>6. ASSUME NEW d \in Docs, Save(d) PROVE WorkspaceInv'
  BY <1>6
     DEF Save, WorkspaceTypeOK, OneIdeaOfOpen, UnseenIsPending, StaleIsPending,
         Nothing
<1>7. ASSUME NEW d \in Docs, NEW text \in Texts, ChangedOutside(d, text)
      PROVE WorkspaceInv'
  BY <1>7
     DEF ChangedOutside, WorkspaceTypeOK, OneIdeaOfOpen, UnseenIsPending,
         StaleIsPending, Nothing
<1>8. ASSUME ReanalyzeAll PROVE WorkspaceInv'
  <2>1. /\ shown' \in [Docs -> [Docs -> Texts \cup {None}]]
        /\ \A d \in Docs : /\ source[d] # None => shown'[d][d] = source[d]
                           /\ source[d] = None => shown'[d] = shown[d]
    BY <1>8, AnalysedTyped DEF ReanalyzeAll, OpenDocs, WorkspaceTypeOK
  <2> QED
    BY <1>8, <2>1
       DEF ReanalyzeAll, WorkspaceTypeOK, OneIdeaOfOpen, UnseenIsPending,
           StaleIsPending, Nothing
<1>9. CASE UNCHANGED workspaceVars
  BY <1>9
     DEF workspaceVars, WorkspaceTypeOK, OneIdeaOfOpen, UnseenIsPending,
         StaleIsPending, Nothing
<1> QED
  BY <1>1, <1>2, <1>3, <1>4, <1>5, <1>6, <1>7, <1>8, <1>9
     DEF WorkspaceNext, Watched, Reconfigured

\* The diagnostics on screen are those of the text in the editor, or a timer
\* that will publish them is running, whatever order edits, saves, semantic
\* tokens, settings and changed files come in; a closed document shows none.
THEOREM StaleAlwaysPending == WorkspaceSpec => []StaleIsPending
<1>1. WorkspaceInv => StaleIsPending
  BY DEF WorkspaceInv
<1> QED
  BY <1>1, WorkspaceInitInv, WorkspaceStepInv, PTL DEF WorkspaceSpec
=============================================================================
