------------------------------ MODULE Selection ------------------------------
(***************************************************************************)
(* MAX and MIN over integers of several types.  The runtime folds the      *)
(* arguments from the left, each step in the type of the two it compares   *)
(* (iec_minmax_result_t); the compiler gives the whole call the common     *)
(* type of all arguments (computeSelectionCommonType).  Widths are counted *)
(* in levels: 8, 16, 32 and 64 bits are the levels 1 to 4; Half is half    *)
(* the number of values a type of that width has, 2^7 to 2^63 in the code. *)
(*                                                                         *)
(* Every argument has a type of its own.  Literals without one, which give *)
(* way to the type of the others when those agree (resolveCommonTypeWith), *)
(* are left out.                                                           *)
(***************************************************************************)
EXTENDS Integers, FiniteSets

CONSTANTS
  Half,            \* level -> the values a signed type has from zero up
  NativeLevels,    \* the levels STRUCPP_TARGET_WIDTH may have: 3 or 4
  MaxArguments     \* bound: arguments of a call

ASSUME SelectionAssumption ==
  /\ Half \in [1..4 -> Nat \ {0}] /\ \A l \in 1..3 : 2 * Half[l] <= Half[l + 1]
  /\ NativeLevels \subseteq {3, 4} /\ MaxArguments \in Nat

VARIABLES
  pick,      \* "max" or "min"
  native,    \* STRUCPP_TARGET_WIDTH
  acc,       \* the selection so far, with the type it has in C++
  args       \* the types of the arguments so far, and the right selection

selectionVars == <<pick, native, acc, args>>

IntTypes == [signed : BOOLEAN, level : 1..4]

Lo(t) == IF t.signed THEN -Half[t.level] ELSE 0
Hi(t) == Lo(t) + 2 * Half[t.level] - 1
Cast(v, t) == Lo(t) + ((v - Lo(t)) % (2 * Half[t.level]))

\* The values at which signs and widths matter.
Edges(t) == {Lo(t), -1, 0, 1, Hi(t)} \cap Lo(t)..Hi(t)

Wider(k, l) == IF k > l THEN k ELSE l

\* iec_promote: at least the native width, and signed if that is wider.
Promoted(t) ==
  LET l == Wider(t.level, native) IN [signed |-> t.signed \/ l > t.level, level |-> l]

\* iec_arith_result_t: std::common_type of what the two are promoted to.
ArithResult(t, u) ==
  LET p == Promoted(t)
      q == Promoted(u)
  IN CASE p.level > q.level -> p
       [] p.level < q.level -> q
       [] OTHER -> [signed |-> p.signed /\ q.signed, level |-> p.level]

\* iec_minmax_result_t; two arguments of one type select in that type.
SelectedInArith(t, u) == IF t = u THEN t ELSE ArithResult(t, u)
Selected(t, u) ==
  CASE t = u -> t
    [] t.signed # u.signed ->
         LET l == Wider(t.level, u.level)
         IN [signed |-> TRUE, level |-> IF l < 4 THEN l + 1 ELSE l]
    [] OTHER -> ArithResult(t, u)

\* computeSelectionCommonType, of typed arguments: a signed type that holds
\* every value, or the widest unsigned one if there is none.
CommonType(S) ==
  LET Widest(signed) == CHOOSE l \in 0..4 :
        /\ l = 0 \/ [signed |-> signed, level |-> l] \in S
        /\ \A t \in S : t.signed = signed => t.level <= l
      s == Widest(TRUE)
      u == Widest(FALSE)
  IN CASE u = 0 -> [signed |-> TRUE, level |-> s]
       [] s = 0 \/ u = 4 -> [signed |-> FALSE, level |-> u]
       [] OTHER -> [signed |-> TRUE, level |-> Wider(s, u + 1)]

SelectionInit ==
  /\ pick \in {"max", "min"} /\ native \in NativeLevels
  /\ \E t \in IntTypes : \E v \in Edges(t) :
       /\ acc = [type |-> t, value |-> v]
       /\ args = [types |-> {t}, count |-> 1, best |-> v]

\* iec_cmp_greater and iec_cmp_less compare the values, whatever the signs.
Chosen(a, b) == IF (pick = "max" /\ a > b) \/ (pick = "min" /\ a < b) THEN a ELSE b

NextArgument(t, v) ==
  /\ args.count < MaxArguments
  /\ LET r == Selected(acc.type, t)
     IN acc' = [type |-> r, value |-> Cast(Chosen(acc.value, v), r)]
  /\ args' = [types |-> args.types \union {t}, count |-> args.count + 1,
              best |-> Chosen(args.best, v)]
  /\ UNCHANGED <<pick, native>>

SelectionNext == \E t \in IntTypes : \E v \in Edges(t) : NextArgument(t, v)

SelectionSpec == SelectionInit /\ [][SelectionNext]_selectionVars

(***************************************************************************)
(* Properties.                                                             *)
(***************************************************************************)

\* What the program sees: the selection in the type the compiler gave it.
Answer == Cast(acc.value, CommonType(args.types))

\* The selection is the largest or smallest argument, with any mix of signs
\* and widths and in any order, as long as all are typed and none is a ULINT:
\* neither a step of the fold nor the compiler's type loses a value
\* (iec_minmax_result, _computeCommonType).
SelectionIsExact ==
  [signed |-> FALSE, level |-> 4] \notin args.types =>
    acc.value = args.best /\ Answer = args.best

\* MAX "Returns the maximum of two or more values" (iec_std_lib.hpp:1399),
\* ULINT ones too.
MaxIsLargest == pick = "max" => Answer = args.best
=============================================================================
