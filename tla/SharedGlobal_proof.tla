------------------------- MODULE SharedGlobal_proof -------------------------
(***************************************************************************)
(* Theorems about SharedGlobal: its types; that tasks never deadlock when  *)
(* their subscripts nest shared globals in one order; that writes of       *)
(* different tasks to different parts of a global all survive; and that a  *)
(* copy of a whole global is never a mixture of two values.                *)
(***************************************************************************)
EXTENDS SharedGlobal, WellFoundedInduction, TLAPS

(* The steps code generation emits. *)
OpType ==
  [do : {"lock", "unlock", "at", "put", "fill"}, on : Global, part : Nat]
  \cup [do : {"load", "store", "modify"}, on : Global, part : Part]
  \cup [do : {"index", "hoist"}, on : {NoGlobal}, part : Nat]

Locks(op, g)   == op.do = "lock" /\ op.on = g
Unlocks(op, g) == op.do = "unlock" /\ op.on = g

(* The lock of g is held before step k of ops. *)
Inside(ops, k, g) ==
  \E i \in 1 .. k - 1 :
    /\ Locks(ops[i], g)
    /\ \A j \in i + 1 .. k - 1 : ~Unlocks(ops[j], g)

(* While g is held only such h are locked that <<g, h>> is in below, the   *)
(* locks given back are held, and none is left at the end.                 *)
Nested(below, ops) ==
  /\ \A k \in DOMAIN ops, g \in Global :
       ops[k].do = "lock" /\ Inside(ops, k, g) => <<g, ops[k].on>> \in below
  /\ \A k \in DOMAIN ops : ops[k].do = "unlock" => Inside(ops, k, ops[k].on)
  /\ \A g \in Global : ~Inside(ops, Len(ops) + 1, g)

Plain(ops) == \A k \in DOMAIN ops : ops[k].do \notin {"lock", "unlock"}

(* Subscripts nest as below says: of two globals in one access, the inner  *)
(* one is locked while the outer one is held.                              *)
Upward(below, path) ==
  \A i, j \in DOMAIN path : i < j => <<path[i], path[j]>> \in below

Permits(below) ==
  /\ \A g \in Global : <<g, g>> \notin below
  /\ \A t \in Task : \A n \in DOMAIN Body[t] :
       Upward(below, Body[t][n].to) /\ Upward(below, Body[t][n].from)

(* No access subscripts a global by itself, which would lock its mutex     *)
(* twice: for std::mutex undefined behaviour.                              *)
Distinct(path) == \A i, j \in DOMAIN path : i # j => path[i] # path[j]

NoSelfSubscript ==
  \A t \in Task : \A n \in DOMAIN Body[t] :
    Distinct(Body[t][n].to) /\ Distinct(Body[t][n].from)

(* The globals ranked so that an inner subscript is above an outer one.    *)
Lower(rank) == {p \in Global \X Global : rank[p[1]] < rank[p[2]]}

Ranking(rank, bound) ==
  /\ bound \in Nat
  /\ rank \in [Global -> 0 .. bound]
  /\ \A t \in Task : \A n \in DOMAIN Body[t] :
       Upward(Lower(rank), Body[t][n].to) /\ Upward(Lower(rank), Body[t][n].from)
-----------------------------------------------------------------------------
(* What is emitted, typed. *)

Kinds ==
  {"fetch", "assign", "setbit", "scalarbit", "inout", "getall", "putall"}

LEMMA AccessType ==
  ASSUME NEW path \in Seq(Global)
  PROVE  Access(path) \in Seq(OpType)
<1> DEFINE n == Len(path)
<1>1. n \in Nat
  OBVIOUS
<1>2. ASSUME NEW k \in 1 .. 3 * n
      PROVE  Access(path)[k] \in OpType
  <2>1. CASE k <= n
    BY <1>1, <1>2, <2>1 DEF Access, Op, OpType
  <2>2. CASE ~(k <= n)
    <3>1. n - (k - n - 1) \div 2 \in 1 .. n
      BY <1>1, <1>2, <2>2
    <3>2. path[n - (k - n - 1) \div 2] \in Global
      BY <3>1
    <3> QED BY <1>1, <1>2, <2>2, <3>2 DEF Access, Op, OpType
  <2> QED BY <2>1, <2>2
<1>3. Access(path) = [k \in 1 .. 3 * n |-> Access(path)[k]]
  BY <1>1 DEF Access
<1> HIDE DEF n
<1> QED BY <1>1, <1>2, <1>3

LEMMA EachPartType ==
  ASSUME NEW g \in Global, NEW do \in {"load", "store"}
  PROVE  /\ EachPart(do, g) \in Seq(OpType)
         /\ Len(EachPart(do, g)) = LastPart + 1
         /\ Plain(EachPart(do, g))
<1>1. LastPart \in Nat
  BY BodyAssumption
<1>2. \A k \in 1 .. LastPart + 1 : Op(do, g, k - 1) \in OpType
  BY <1>1 DEF Op, OpType, Part
<1> QED BY <1>1, <1>2 DEF EachPart, Plain, Op

LEMMA LockedType ==
  ASSUME NEW g \in Global, NEW ops \in Seq(OpType)
  PROVE  Locked(g, ops) \in Seq(OpType) /\ Locked(g, ops) # <<>>
<1>1. Op("lock", g, 0) \in OpType /\ Op("unlock", g, 0) \in OpType
  BY DEF Op, OpType
<1> QED BY <1>1 DEF Locked

LEMMA ConcatType ==
  ASSUME NEW a \in Seq(OpType), NEW b \in Seq(OpType)
  PROVE  /\ a \o b \in Seq(OpType)
         /\ a # <<>> \/ b # <<>> => a \o b # <<>>
<1>1. Len(a \o b) = Len(a) + Len(b)
  OBVIOUS
<1>2. a # <<>> \/ b # <<>> => Len(a \o b) # 0
  BY <1>1
<1> QED BY <1>2

LEMMA SingleType ==
  ASSUME NEW op \in OpType
  PROVE  <<op>> \in Seq(OpType) /\ <<op>> # <<>>
OBVIOUS

LEMMA EmitType ==
  ASSUME NEW t \in Task, NEW n \in DOMAIN Body[t]
  PROVE  Emit(Body[t][n]) \in Seq(OpType) /\ Emit(Body[t][n]) # <<>>
<1> DEFINE s == Body[t][n]
<1> DEFINE g == s.to[1]
<1> DEFINE Good(o) == o \in Seq(OpType) /\ o # <<>>
<1> SUFFICES Good(Emit(s))
  OBVIOUS
<1>1. /\ s \in Statement
      /\ s.kind # "fetch" => s.to # <<>>
      /\ s.kind \in {"setbit", "scalarbit", "inout"} => s.at \in Part
  BY BodyAssumption DEF BitWrites
<1> HIDE DEF s
<1>2. /\ s.to \in Seq(Global) /\ s.from \in Seq(Global)
      /\ s.at \in Nat /\ s.ix \in Nat
      /\ s.kind \in Kinds
  BY <1>1 DEF Statement, BitWrites, Kinds
<1>3. s.kind # "fetch" => g \in Global /\ Tail(s.to) \in Seq(Global)
  BY <1>1, <1>2
<1> HIDE DEF g
<1>4. /\ Op("index", NoGlobal, s.ix) \in OpType
      /\ Op("hoist", NoGlobal, s.at) \in OpType
  BY <1>2 DEF Op, OpType
<1>5. Access(s.from) \in Seq(OpType)
  BY <1>2, AccessType
<1>6. CASE s.kind = "fetch"
  <2>1. Good(EmitFetch(s))
    BY <1>4, <1>5, SingleType, ConcatType DEF EmitFetch
  <2> QED BY <1>6, <2>1 DEF Emit
<1>7. CASE s.kind = "assign"
  <2>1. Op("put", g, 0) \in OpType
    BY <1>3, <1>7 DEF Op, OpType
  <2>2. Access(Tail(s.to)) \in Seq(OpType)
    BY <1>3, <1>7, AccessType
  <2>3. Access(Tail(s.to)) \o <<Op("put", g, 0)>> \in Seq(OpType)
    BY <2>1, <2>2, SingleType, ConcatType
  <2>4. Good(Locked(g, Access(Tail(s.to)) \o <<Op("put", g, 0)>>))
    BY <1>3, <1>7, <2>3, LockedType
  <2>5. Good(<<Op("index", NoGlobal, s.ix)>> \o Access(s.from)
             \o <<Op("hoist", NoGlobal, s.at)>>)
    BY <1>4, <1>5, SingleType, ConcatType
  <2>6. Good(EmitAssign(s))
    BY <2>4, <2>5, ConcatType DEF EmitAssign, g
  <2> QED BY <1>7, <2>6 DEF Emit
<1>8. CASE s.kind = "setbit"
  <2>1. Op("modify", g, s.at) \in OpType
    BY <1>1, <1>3, <1>8 DEF Op, OpType
  <2>2. /\ EachPart("load", g) \in Seq(OpType)
        /\ EachPart("store", g) \in Seq(OpType)
    BY <1>3, <1>8, EachPartType
  <2>3. EachPart("load", g) \o <<Op("modify", g, s.at)>> \o EachPart("store", g)
          \in Seq(OpType)
    BY <2>1, <2>2, SingleType, ConcatType
  <2>4. Good(EmitSetBit(s))
    BY <1>3, <1>8, <2>3, LockedType DEF EmitSetBit, g
  <2> QED BY <1>8, <2>4 DEF Emit
<1>9. CASE s.kind = "inout"
  <2>1. Op("modify", g, s.at) \in OpType
    BY <1>1, <1>3, <1>9 DEF Op, OpType
  <2>2. /\ Good(Locked(g, EachPart("load", g)))
        /\ Good(Locked(g, EachPart("store", g)))
    BY <1>3, <1>9, EachPartType, LockedType
  <2>3. Good(EmitInOut(s))
    BY <2>1, <2>2, SingleType, ConcatType DEF EmitInOut, g
  <2> QED BY <1>9, <2>3 DEF Emit
<1>10. CASE s.kind = "getall"
  <2>1. Good(EmitGetAll(s))
    BY <1>3, <1>10, EachPartType, LockedType DEF EmitGetAll, g
  <2> QED BY <1>10, <2>1 DEF Emit
<1>11. CASE s.kind = "putall"
  <2>1. Op("fill", g, 0) \in OpType
    BY <1>3, <1>11 DEF Op, OpType
  <2>2. Good(Locked(g, EachPart("store", g)))
    BY <1>3, <1>11, EachPartType, LockedType
  <2>3. Good(EmitPutAll(s))
    BY <2>1, <2>2, SingleType, ConcatType DEF EmitPutAll, g
  <2> QED BY <1>11, <2>3 DEF Emit
<1>12. CASE s.kind = "scalarbit"
  <2>1. Op("modify", g, s.at) \in OpType
    BY <1>1, <1>3, <1>12 DEF Op, OpType
  <2>2. Good(Locked(g, EachPart("load", g)))
    BY <1>3, <1>12, EachPartType, LockedType
  <2>3. Good(EmitScalarBit(s))
    BY <2>1, <2>2, SingleType, ConcatType DEF EmitScalarBit, g
  <2> QED BY <1>12, <2>3 DEF Emit
<1> QED BY <1>2, <1>6, <1>7, <1>8, <1>9, <1>10, <1>11, <1>12 DEF Kinds

LEMMA CodeType ==
  ASSUME NEW t \in Task, NEW n \in DOMAIN Body[t]
  PROVE  /\ Code[t][n] \in Seq(OpType)
         /\ Len(Code[t][n]) \in Nat \ {0}
         /\ DOMAIN Code[t] = 1 .. Len(Body[t])
<1>1. DOMAIN Body[t] = 1 .. Len(Body[t])
  BY BodyAssumption
<1> QED BY <1>1, EmitType DEF Code

LEMMA OpsType ==
  ASSUME TypeOK, NEW t \in Task
  PROVE  /\ Ops(t) \in Seq(OpType)
         /\ at[t].op \in 1 .. Len(Ops(t))
         /\ at[t].stmt \in 1 .. Len(Body[t])
         /\ Coming(t) \in OpType
         /\ Coming(t) = Ops(t)[at[t].op]
<1>1. at[t].stmt \in DOMAIN Body[t] /\ at[t].op \in DOMAIN Ops(t)
  BY DEF TypeOK
<1>2. Ops(t) \in Seq(OpType) /\ DOMAIN Code[t] = 1 .. Len(Body[t])
  BY <1>1, CodeType DEF Ops
<1>3. DOMAIN Body[t] = 1 .. Len(Body[t])
  BY BodyAssumption
<1> QED BY <1>1, <1>2, <1>3 DEF Coming
-----------------------------------------------------------------------------
(* Types. *)

\* A step in range, and the body begun again wherever it has ended.
TInv ==
  /\ TypeOK
  /\ at \in [Task -> [stmt : Nat, op : Nat]]
  /\ \A t \in Task : status[t] = "resting" => at[t] = Start

PlaceOK == \A t \in Task : /\ at[t].stmt \in DOMAIN Body[t]
                           /\ at[t].op \in DOMAIN Ops(t)

LEMMA StartPlace ==
  ASSUME NEW t \in Task
  PROVE  1 \in DOMAIN Body[t] /\ 1 \in DOMAIN Code[t][1]
<1>1. Body[t] \in Seq(Statement) /\ Body[t] # <<>>
  BY BodyAssumption
<1>2. 1 \in DOMAIN Body[t]
  BY <1>1
<1> QED BY <1>2, CodeType

LEMMA AdvanceType ==
  ASSUME TInv, NEW t \in Task, Advance(t), status[t] = "running"
  PROVE  /\ at' \in [Task -> [stmt : Nat, op : Nat]]
         /\ status' \in [Task -> {"resting", "running", "faulted"}]
         /\ PlaceOK'
         /\ \A u \in Task : status'[u] = "resting" => at'[u] = Start
<1> DEFINE stmtDone == at[t].op = Len(Ops(t))
           bodyDone == stmtDone /\ at[t].stmt = Len(Body[t])
<1>1. /\ at \in [Task -> [stmt : Nat, op : Nat]]
      /\ status \in [Task -> {"resting", "running", "faulted"}]
      /\ PlaceOK
      /\ \A u \in Task : status[u] = "resting" => at[u] = Start
  BY DEF TInv, TypeOK, PlaceOK
<1>2. /\ at[t].op \in 1 .. Len(Ops(t)) /\ Len(Ops(t)) \in Nat
      /\ at[t].stmt \in 1 .. Len(Body[t]) /\ Len(Body[t]) \in Nat
      /\ DOMAIN Body[t] = 1 .. Len(Body[t])
  BY OpsType, BodyAssumption DEF TInv
<1>3. \A u \in Task \ {t} : at'[u] = at[u] /\ status'[u] = status[u]
  BY <1>1 DEF Advance
<1>4. CASE bodyDone
  <2>1. at' = [at EXCEPT ![t] = Start] /\ status' = [status EXCEPT ![t] = "resting"]
    BY <1>4 DEF Advance
  <2>2. at'[t] = Start /\ Start \in [stmt : Nat, op : Nat]
    BY <1>1, <2>1 DEF Start
  <2>3. PlaceOK'
    BY <1>1, <1>3, <2>2, StartPlace DEF PlaceOK, Ops, Start
  <2> QED BY <1>1, <1>3, <2>1, <2>2, <2>3
<1>5. CASE stmtDone /\ ~bodyDone
  <2>1. at' = [at EXCEPT ![t] = [stmt |-> @.stmt + 1, op |-> 1]] /\ status' = status
    BY <1>1, <1>5 DEF Advance
  <2>2. at'[t] = [stmt |-> at[t].stmt + 1, op |-> 1]
    BY <1>1, <2>1
  <2>3. at[t].stmt + 1 \in DOMAIN Body[t]
    BY <1>2, <1>5
  <2>4. 1 \in DOMAIN Code[t][at[t].stmt + 1]
    BY <2>3, CodeType
  <2>5. PlaceOK'
    BY <1>1, <1>3, <2>2, <2>3, <2>4 DEF PlaceOK, Ops
  <2> QED BY <1>1, <1>2, <1>3, <2>1, <2>2, <2>5
<1>6. CASE ~stmtDone
  <2>1. /\ at' = [at EXCEPT ![t] = [stmt |-> @.stmt, op |-> @.op + 1]]
        /\ status' = status
    BY <1>1, <1>6 DEF Advance
  <2>2. at'[t] = [stmt |-> at[t].stmt, op |-> at[t].op + 1]
    BY <1>1, <2>1
  <2>3. at[t].op + 1 \in DOMAIN Ops(t)
    BY <1>2, <1>6, OpsType DEF TInv
  <2>4. PlaceOK'
    BY <1>1, <1>3, <2>2, <2>3 DEF PlaceOK, Ops
  <2> QED BY <1>1, <1>2, <1>3, <2>1, <2>2, <2>4
<1> QED BY <1>4, <1>5, <1>6

LEMMA TypeInvariant ==
  /\ Init => TInv
  /\ TInv /\ [Next]_vars => TInv'
<1>1. Init => TInv
  <2> SUFFICES ASSUME Init PROVE TInv
    OBVIOUS
  <2>1. at = [t \in Task |-> Start] /\ Start \in [stmt : Nat, op : Nat]
    BY DEF Init, Start
  <2>2. PlaceOK
    BY <2>1, StartPlace DEF PlaceOK, Ops, Start
  <2>3. MaxActivations \in Nat
    BY BodyAssumption
  <2>4. /\ value \in [Global -> [Part -> Nat]]
        /\ meant \in [Global -> [Part -> Nat]]
        /\ copy \in [Task -> [Part -> Nat]]
    BY DEF Init
  <2> QED BY <2>1, <2>2, <2>3, <2>4 DEF Init, TInv, TypeOK, PlaceOK
<1>2. TInv /\ [Next]_vars => TInv'
  <2> SUFFICES ASSUME TInv, [Next]_vars PROVE TInv'
    OBVIOUS
  <2>1. CASE UNCHANGED vars
    BY <2>1 DEF vars, local, TInv, TypeOK, Ops
  <2>2. CASE Next
    <3> DEFINE Places == /\ at' \in [Task -> [stmt : Nat, op : Nat]]
                         /\ status' \in [Task -> {"resting", "running", "faulted"}]
                         /\ PlaceOK'
                         /\ \A u \in Task : status'[u] = "resting" => at'[u] = Start
               Owners == owner' \in [Global -> Task \cup {"nobody"}]
               Values == /\ value' \in [Global -> [Part -> Nat]]
                         /\ meant' \in [Global -> [Part -> Nat]]
               Locals == /\ sub' \in [Task -> Nat]
                         /\ tmp' \in [Task -> Nat]
                         /\ copy' \in [Task -> [Part -> Nat]]
               Lefts  == left' \in [Task -> Nat]
    <3> SUFFICES Places /\ Owners /\ Values /\ Locals /\ Lefts
      BY DEF TInv, TypeOK, PlaceOK
    <3>1. PICK t \in Task : Activate(t) \/ Step(t)
      BY <2>2 DEF Next
    <3>2. /\ at \in [Task -> [stmt : Nat, op : Nat]]
          /\ status \in [Task -> {"resting", "running", "faulted"}]
          /\ PlaceOK
          /\ \A u \in Task : status[u] = "resting" => at[u] = Start
          /\ owner \in [Global -> Task \cup {"nobody"}]
          /\ value \in [Global -> [Part -> Nat]]
          /\ meant \in [Global -> [Part -> Nat]]
          /\ sub \in [Task -> Nat] /\ tmp \in [Task -> Nat]
          /\ copy \in [Task -> [Part -> Nat]]
          /\ left \in [Task -> Nat]
      BY DEF TInv, TypeOK, PlaceOK
    <3>3. /\ Coming(t) \in OpType
          /\ Coming(t).part \in Nat
          /\ Coming(t).do \in {"lock", "unlock", "at", "put", "fill", "load",
                              "store", "modify"} => Coming(t).on \in Global
          /\ Coming(t).do \in {"load", "store", "modify"} => Coming(t).part \in Part
      BY OpsType, BodyAssumption DEF TInv, OpType, Part
    <3>4. Advance(t) /\ status[t] = "running" => Places
      BY AdvanceType
    <3> HIDE DEF Places
    <3>5. CASE Activate(t)
      <4>1. Places
        BY <3>2, <3>5 DEF Activate, Places, PlaceOK, Ops, local
      <4> QED BY <3>2, <3>5, <4>1 DEF Activate, local
    <3>6. CASE TakeLock(t)
      BY <3>2, <3>3, <3>4, <3>6 DEF TakeLock, Doing
    <3>7. CASE FreeLock(t)
      BY <3>2, <3>3, <3>4, <3>7 DEF FreeLock, Doing
    <3>8. CASE Index(t)
      BY <3>2, <3>3, <3>4, <3>8 DEF Index, Doing
    <3>9. CASE Hoist(t)
      BY <3>2, <3>3, <3>4, <3>9 DEF Hoist, Doing
    <3>10. CASE ReadAt(t)
      <4>1. value[Coming(t).on][sub[t]] \in Nat
        BY <3>2, <3>3, <3>10 DEF ReadAt, Doing
      <4> QED BY <3>2, <3>4, <3>10, <4>1 DEF ReadAt, Doing
    <3>11. CASE PutAt(t)
      BY <3>2, <3>3, <3>4, <3>11 DEF PutAt, Doing
    <3>12. CASE Fault(t)
      <4>1. Places
        BY <3>2, <3>12 DEF Fault, Throws, Places, PlaceOK, Ops, local
      <4> QED BY <3>2, <3>12, <4>1 DEF Fault, Released, local
    <3>13. CASE Load(t)
      <4>1. value[Coming(t).on][Coming(t).part] \in Nat
        BY <3>2, <3>3, <3>13 DEF Load, Doing
      <4> QED BY <3>2, <3>3, <3>4, <3>13, <4>1 DEF Load, Doing
    <3>14. CASE Store(t)
      <4>1. copy[t][Coming(t).part] \in Nat
        BY <3>2, <3>3, <3>14 DEF Store, Doing
      <4> QED BY <3>2, <3>3, <3>4, <3>14, <4>1 DEF Store, Doing
    <3>15. ASSUME NEW v \in Val, Modify(t, v)
           PROVE  Places /\ Owners /\ Values /\ Locals /\ Lefts
      <4>1. v \in Nat
        BY BodyAssumption
      <4> QED BY <3>2, <3>3, <3>4, <3>15, <4>1 DEF Modify, Doing
    <3>16. ASSUME NEW v \in Val, Fill(t, v)
           PROVE  Places /\ Owners /\ Values /\ Locals /\ Lefts
      <4>1. v \in Nat
        BY BodyAssumption
      <4> QED BY <3>2, <3>3, <3>4, <3>16, <4>1 DEF Fill, Doing
    <3> QED BY <3>1, <3>5, <3>6, <3>7, <3>8, <3>9, <3>10, <3>11, <3>12, <3>13,
               <3>14, <3>15, <3>16 DEF Step
  <2> QED BY <2>1, <2>2
<1> QED BY <1>1, <1>2

(* Every variable stays in its type: a thread is always at a step of a     *)
(* statement of its body, and a body that has returned is back at its      *)
(* first one.                                                              *)
THEOREM TypeCorrect == Spec => []TypeOK
<1>1. TInv => TypeOK
  BY DEF TInv
<1> QED BY <1>1, TypeInvariant, PTL DEF Spec
-----------------------------------------------------------------------------
(* What is emitted nests as its subscripts do. *)

LEMMA InsideNext ==
  ASSUME NEW ops \in Seq(OpType), NEW k \in 1 .. Len(ops), NEW g \in Global
  PROVE  Inside(ops, k + 1, g) <=>
           Locks(ops[k], g) \/ (Inside(ops, k, g) /\ ~Unlocks(ops[k], g))
<1>1. ASSUME Inside(ops, k + 1, g), ~Locks(ops[k], g)
      PROVE  Inside(ops, k, g) /\ ~Unlocks(ops[k], g)
  <2>1. PICK i \in 1 .. k :
          Locks(ops[i], g) /\ \A j \in i + 1 .. k : ~Unlocks(ops[j], g)
    BY <1>1 DEF Inside
  <2>2. i \in 1 .. k - 1 /\ k \in i + 1 .. k
    BY <1>1, <2>1
  <2> QED BY <2>1, <2>2 DEF Inside
<1>2. ASSUME Locks(ops[k], g)
      PROVE  Inside(ops, k + 1, g)
  BY <1>2 DEF Inside
<1>3. ASSUME Inside(ops, k, g), ~Unlocks(ops[k], g)
      PROVE  Inside(ops, k + 1, g)
  <2>1. PICK i \in 1 .. k - 1 :
          Locks(ops[i], g) /\ \A j \in i + 1 .. k - 1 : ~Unlocks(ops[j], g)
    BY <1>3 DEF Inside
  <2>2. i \in 1 .. k /\ \A j \in i + 1 .. k : j = k \/ j \in i + 1 .. k - 1
    OBVIOUS
  <2> QED BY <1>3, <2>1, <2>2 DEF Inside
<1> QED BY <1>1, <1>2, <1>3

LEMMA PlainNested ==
  ASSUME NEW below, NEW ops \in Seq(OpType), Plain(ops)
  PROVE  Nested(below, ops)
<1>1. \A k \in 1 .. Len(ops) : ops[k].do \notin {"lock", "unlock"}
  BY DEF Plain
<1>2. \A g \in Global : ~Inside(ops, Len(ops) + 1, g)
  BY <1>1 DEF Inside, Locks
<1> QED BY <1>1, <1>2 DEF Nested

LEMMA ConcatNested ==
  ASSUME NEW below, NEW a \in Seq(OpType), NEW b \in Seq(OpType),
         Nested(below, a), Nested(below, b)
  PROVE  Nested(below, a \o b)
<1> DEFINE ops == a \o b
           m == Len(a)
<1>1. /\ m \in Nat /\ Len(b) \in Nat /\ Len(ops) = m + Len(b)
      /\ \A k \in 1 .. m : ops[k] = a[k]
      /\ \A k \in 1 .. Len(b) : ops[k + m] = b[k]
      /\ DOMAIN ops = 1 .. m + Len(b) /\ DOMAIN a = 1 .. m /\ DOMAIN b = 1 .. Len(b)
      /\ \A k \in 1 .. Len(b) : b[k] \in OpType
      /\ \A k \in 1 .. m : a[k] \in OpType
  OBVIOUS
<1> HIDE DEF ops, m
<1>2. ASSUME NEW k \in 1 .. m, NEW g
      PROVE  Inside(ops, k, g) <=> Inside(a, k, g)
  BY <1>1, <1>2 DEF Inside
<1>3. ASSUME NEW k \in 1 .. Len(b) + 1, NEW g \in Global
      PROVE  Inside(ops, k + m, g) <=> Inside(b, k, g)
  <2>1. ASSUME Inside(b, k, g) PROVE Inside(ops, k + m, g)
    <3>1. PICK i \in 1 .. k - 1 :
            Locks(b[i], g) /\ \A j \in i + 1 .. k - 1 : ~Unlocks(b[j], g)
      BY <2>1 DEF Inside
    <3>2. i + m \in 1 .. (k + m) - 1 /\ Locks(ops[i + m], g)
      BY <1>1, <1>3, <3>1
    <3>3. ASSUME NEW j \in i + m + 1 .. (k + m) - 1 PROVE ~Unlocks(ops[j], g)
      <4>1. j - m \in i + 1 .. k - 1 /\ j - m \in 1 .. Len(b) /\ (j - m) + m = j
        BY <1>1, <1>3, <3>1, <3>3
      <4> QED BY <1>1, <3>1, <4>1
    <3> QED BY <3>2, <3>3, Zenon DEF Inside
  <2>2. ASSUME Inside(ops, k + m, g) PROVE Inside(b, k, g)
    <3>1. PICK i \in 1 .. (k + m) - 1 :
            Locks(ops[i], g) /\ \A j \in i + 1 .. (k + m) - 1 : ~Unlocks(ops[j], g)
      BY <2>2, Zenon DEF Inside
    <3>2. ~ (i <= m)
      <4> SUFFICES ASSUME i <= m PROVE Inside(a, m + 1, g)
        BY <1>1, Zenon DEF Nested, m
      <4>1. \A j \in i + 1 .. m : j \in i + 1 .. (k + m) - 1 /\ j \in 1 .. m
        BY <1>1, <1>3, <3>1
      <4>2. Locks(a[i], g) /\ \A j \in i + 1 .. m : ~Unlocks(a[j], g)
        BY <1>1, <3>1, <4>1
      <4>3. i \in 1 .. (m + 1) - 1 /\ (m + 1) - 1 = m
        BY <1>1, <3>1
      <4> QED BY <4>2, <4>3, Zenon DEF Inside
    <3>3. i - m \in 1 .. k - 1 /\ i - m \in 1 .. Len(b) /\ (i - m) + m = i
      BY <1>1, <1>3, <3>1, <3>2
    <3>4. Locks(b[i - m], g)
      BY <1>1, <3>1, <3>3
    <3>5. ASSUME NEW j \in (i - m) + 1 .. k - 1 PROVE ~Unlocks(b[j], g)
      <4>1. j + m \in i + 1 .. (k + m) - 1 /\ j \in 1 .. Len(b)
        BY <1>1, <1>3, <3>1, <3>3, <3>5
      <4> QED BY <1>1, <3>1, <4>1
    <3> QED BY <3>3, <3>4, <3>5 DEF Inside
  <2> QED BY <2>1, <2>2
<1>4. ASSUME NEW k \in DOMAIN ops, ~ (k \in 1 .. m)
      PROVE  k - m \in 1 .. Len(b) /\ (k - m) + m = k /\ ops[k] = b[k - m]
  BY <1>1, <1>4
<1>5. ASSUME NEW k \in DOMAIN ops, NEW g \in Global, ops[k].do = "lock", Inside(ops, k, g)
      PROVE  <<g, ops[k].on>> \in below
  <2>1. CASE k \in 1 .. m
    BY <1>1, <1>2, <1>5, <2>1 DEF Nested
  <2>2. CASE ~ (k \in 1 .. m)
    <3>1. Inside(b, k - m, g)
      BY <1>1, <1>3, <1>4, <1>5, <2>2
    <3> QED BY <1>1, <1>4, <1>5, <2>2, <3>1 DEF Nested
  <2> QED BY <2>1, <2>2
<1>6. ASSUME NEW k \in DOMAIN ops, ops[k].do = "unlock"
      PROVE  Inside(ops, k, ops[k].on)
  <2>1. CASE k \in 1 .. m
    BY <1>1, <1>2, <1>6, <2>1 DEF Nested
  <2>2. CASE ~ (k \in 1 .. m)
    <3>1. Inside(b, k - m, ops[k].on)
      BY <1>1, <1>4, <1>6, <2>2 DEF Nested
    <3>2. ops[k].on \in Global
      BY <1>1, <1>4, <1>6, <2>2 DEF OpType
    <3> QED BY <1>1, <1>3, <1>4, <2>2, <3>1, <3>2
  <2> QED BY <2>1, <2>2
<1>7. ASSUME NEW g \in Global PROVE ~Inside(ops, Len(ops) + 1, g)
  <2>1. Len(ops) + 1 = (Len(b) + 1) + m /\ Len(b) + 1 \in 1 .. Len(b) + 1
    BY <1>1
  <2>2. ~Inside(b, Len(b) + 1, g)
    BY DEF Nested
  <2> QED BY <1>3, <2>1, <2>2
<1>8. Nested(below, ops)
  BY <1>5, <1>6, <1>7 DEF Nested
<1> QED BY <1>8 DEF ops

\* Every lock in ops is ranked above g.
Above(below, g, ops) ==
  \A k \in DOMAIN ops :
    ops[k].do \in {"lock", "unlock"} => <<g, ops[k].on>> \in below

LEMMA LockedNested ==
  ASSUME NEW below, NEW g \in Global, NEW o \in Seq(OpType),
         Nested(below, o), Above(below, g, o), <<g, g>> \notin below
  PROVE  Nested(below, Locked(g, o))
<1> DEFINE ops == Locked(g, o)
           m == Len(o)
<1>1. /\ m \in Nat /\ ops \in Seq(OpType) /\ Len(ops) = m + 2
      /\ DOMAIN ops = 1 .. m + 2 /\ DOMAIN o = 1 .. m
      /\ ops[1] = Op("lock", g, 0) /\ ops[m + 2] = Op("unlock", g, 0)
      /\ \A k \in 1 .. m : ops[k + 1] = o[k]
      /\ \A k \in 1 .. m : o[k] \in OpType
  <2>1. /\ Len(<<Op("lock", g, 0)>> \o o) = m + 1 /\ m \in Nat
        /\ (<<Op("lock", g, 0)>> \o o)[1] = Op("lock", g, 0)
        /\ \A k \in 1 .. m : (<<Op("lock", g, 0)>> \o o)[k + 1] = o[k]
    OBVIOUS
  <2>2. ops \in Seq(OpType)
    BY LockedType
  <2> QED BY <2>1, <2>2 DEF Locked
<1> HIDE DEF ops, m
<1>2. ASSUME NEW k \in 2 .. m + 2, NEW h \in Global
      PROVE  Inside(ops, k, h) <=> h = g \/ Inside(o, k - 1, h)
  <2>1. ASSUME Inside(ops, k, h), h # g PROVE Inside(o, k - 1, h)
    <3>1. PICK i \in 1 .. k - 1 :
            Locks(ops[i], h) /\ \A j \in i + 1 .. k - 1 : ~Unlocks(ops[j], h)
      BY <2>1 DEF Inside
    <3>2. i # 1
      BY <1>1, <2>1, <3>1 DEF Locks, Op
    <3>3. i - 1 \in 1 .. (k - 1) - 1 /\ i - 1 \in 1 .. m /\ (i - 1) + 1 = i
      BY <1>1, <1>2, <3>1, <3>2
    <3>4. Locks(o[i - 1], h)
      BY <1>1, <3>1, <3>3
    <3>5. ASSUME NEW j \in (i - 1) + 1 .. (k - 1) - 1 PROVE ~Unlocks(o[j], h)
      <4>1. j + 1 \in i + 1 .. k - 1 /\ j \in 1 .. m
        BY <1>1, <1>2, <3>3, <3>5
      <4> QED BY <1>1, <3>1, <4>1
    <3> QED BY <3>3, <3>4, <3>5 DEF Inside
  <2>2. ASSUME h = g PROVE Inside(ops, k, h)
    <3>1. 1 \in 1 .. k - 1 /\ Locks(ops[1], h)
      BY <1>1, <1>2, <2>2 DEF Locks, Op
    <3>2. ASSUME NEW j \in 1 + 1 .. k - 1, Unlocks(ops[j], h) PROVE FALSE
      <4>1. j - 1 \in 1 .. m /\ (j - 1) + 1 = j
        BY <1>1, <1>2, <3>2
      <4>2. o[j - 1].do = "unlock" /\ o[j - 1].on = g
        BY <1>1, <2>2, <3>2, <4>1 DEF Unlocks
      <4>3. <<g, g>> \in below
        BY <1>1, <4>1, <4>2 DEF Above
      <4> QED BY <4>3
    <3> QED BY <3>1, <3>2 DEF Inside
  <2>3. ASSUME Inside(o, k - 1, h) PROVE Inside(ops, k, h)
    <3>1. PICK i \in 1 .. (k - 1) - 1 :
            Locks(o[i], h) /\ \A j \in i + 1 .. (k - 1) - 1 : ~Unlocks(o[j], h)
      BY <2>3 DEF Inside
    <3>2. i + 1 \in 1 .. k - 1 /\ Locks(ops[i + 1], h)
      BY <1>1, <1>2, <3>1
    <3>3. ASSUME NEW j \in (i + 1) + 1 .. k - 1 PROVE ~Unlocks(ops[j], h)
      <4>1. j - 1 \in i + 1 .. (k - 1) - 1 /\ j - 1 \in 1 .. m /\ (j - 1) + 1 = j
        BY <1>1, <1>2, <3>1, <3>3
      <4> QED BY <1>1, <3>1, <4>1
    <3> QED BY <3>2, <3>3 DEF Inside
  <2> QED BY <2>1, <2>2, <2>3
<1>3. ASSUME NEW k \in 2 .. m + 1
      PROVE  /\ k - 1 \in 1 .. m /\ ops[k] = o[k - 1]
             /\ ops[k].do \in {"lock", "unlock"} =>
                  ops[k].on \in Global /\ <<g, ops[k].on>> \in below
  <2>1. k - 1 \in 1 .. m /\ (k - 1) + 1 = k
    BY <1>1, <1>3
  <2> QED BY <1>1, <2>1 DEF Above, OpType
<1>4. ASSUME NEW k \in DOMAIN ops, NEW h \in Global, ops[k].do = "lock", Inside(ops, k, h)
      PROVE  <<h, ops[k].on>> \in below
  <2>1. k # m + 2
    BY <1>1, <1>4 DEF Op
  <2>2. k # 1
    BY <1>4 DEF Inside
  <2>3. k \in 2 .. m + 1 /\ k \in 2 .. m + 2
    BY <1>1, <2>1, <2>2
  <2> QED BY <1>1, <1>2, <1>3, <1>4, <2>3 DEF Nested
<1>5. ASSUME NEW k \in DOMAIN ops, ops[k].do = "unlock"
      PROVE  Inside(ops, k, ops[k].on)
  <2>1. k # 1
    BY <1>1, <1>5 DEF Op
  <2>2. CASE k = m + 2
    BY <1>1, <1>2, <2>2 DEF Op
  <2>3. CASE k # m + 2
    <3>1. k \in 2 .. m + 1 /\ k \in 2 .. m + 2
      BY <1>1, <2>1, <2>3
    <3>2. k - 1 \in 1 .. m /\ ops[k] = o[k - 1] /\ ops[k].on \in Global
      BY <1>3, <1>5, <3>1
    <3>3. Inside(o, k - 1, ops[k].on)
      BY <1>1, <1>5, <3>2 DEF Nested
    <3> QED BY <1>2, <3>1, <3>2, <3>3
  <2> QED BY <2>2, <2>3
<1>6. ASSUME NEW h \in Global PROVE ~Inside(ops, Len(ops) + 1, h)
  <2>1. m + 2 \in 1 .. Len(ops) /\ m + 2 \in 2 .. m + 2
    BY <1>1
  <2>2. ~Locks(ops[m + 2], h) /\ (h = g => Unlocks(ops[m + 2], h))
    BY <1>1 DEF Locks, Unlocks, Op
  <2>3. ~Inside(o, (m + 2) - 1, h)
    BY <1>1 DEF Nested, m
  <2>4. ~Inside(ops, (m + 2) + 1, h)
    BY <1>1, <1>2, <2>1, <2>2, <2>3, InsideNext
  <2> QED BY <1>1, <2>4
<1>7. Nested(below, ops)
  BY <1>4, <1>5, <1>6 DEF Nested
<1> QED BY <1>7 DEF ops

\* The step that gives back the i-th lock of an access.
GivenBack(n, i) == n + 2 * (n - i) + 2

LEMMA AccessSteps ==
  ASSUME NEW path \in Seq(Global), NEW k \in 1 .. 3 * Len(path)
  PROVE  /\ Access(path)[k].do = "lock" => k <= Len(path)
         /\ k <= Len(path) => Access(path)[k] = Op("lock", path[k], 0)
         /\ Access(path)[k].do = "unlock" =>
              \E i \in 1 .. Len(path) :
                k = GivenBack(Len(path), i) /\ Access(path)[k].on = path[i]
<1> DEFINE n == Len(path)
           i == n - (k - n - 1) \div 2
<1>1. n \in Nat /\ k \in Nat
  OBVIOUS
<1>2. CASE k <= n
  <2>1. Access(path)[k] = Op("lock", path[k], 0)
    BY <1>1, <1>2 DEF Access
  <2> QED BY <1>2, <2>1 DEF Op
<1>3. CASE ~(k <= n)
  <2>1. i \in 1 .. n
    BY <1>1, <1>3
  <2>2. Access(path)[k] = IF (k - n) % 2 = 1 THEN Op("at", path[i], 0)
                                             ELSE Op("unlock", path[i], 0)
    BY <1>1, <1>3 DEF Access
  <2>3. (k - n) % 2 # 1 => k = GivenBack(n, i)
    BY <1>1, <1>3 DEF GivenBack
  <2> HIDE DEF i
  <2> QED BY <1>3, <2>1, <2>2, <2>3 DEF Op
<1> QED BY <1>2, <1>3

LEMMA GivesBack ==
  ASSUME NEW path \in Seq(Global), NEW i \in 1 .. Len(path)
  PROVE  /\ GivenBack(Len(path), i) \in Len(path) + 1 .. 3 * Len(path)
         /\ Access(path)[GivenBack(Len(path), i)] = Op("unlock", path[i], 0)
<1> DEFINE n == Len(path)
           k == GivenBack(n, i)
<1>1. n \in Nat /\ i \in 1 .. n
  OBVIOUS
<1> HIDE DEF n
<1>2. /\ k \in n + 1 .. 3 * n /\ k \in 1 .. 3 * n /\ ~(k <= n)
      /\ (k - n) % 2 # 1
      /\ n - (k - n - 1) \div 2 = i
  BY <1>1 DEF GivenBack
<1> HIDE DEF k
<1>3. Access(path)[k] = Op("unlock", path[i], 0)
  BY <1>2 DEF Access, n
<1> QED BY <1>2, <1>3 DEF n, k

LEMMA AccessNested ==
  ASSUME NEW below, NEW path \in Seq(Global), Upward(below, path),
         \A g \in Global : <<g, g>> \notin below
  PROVE  Nested(below, Access(path))
<1> DEFINE n == Len(path)
           ops == Access(path)
           back(i) == GivenBack(n, i)
<1>1. /\ n \in Nat /\ DOMAIN path = 1 .. n
      /\ DOMAIN ops = 1 .. 3 * n /\ Len(ops) = 3 * n
      /\ \A i \in 1 .. n : path[i] \in Global
  <2>1. n \in Nat
    OBVIOUS
  <2> QED BY <2>1 DEF Access
<1>2. \A i, j \in 1 .. n : i < j => <<path[i], path[j]>> \in below
  BY <1>1 DEF Upward
<1>3. \A i, j \in 1 .. n : path[i] = path[j] => i = j
  <2> SUFFICES ASSUME NEW i \in 1 .. n, NEW j \in 1 .. n, path[i] = path[j], i < j
               PROVE  FALSE
    BY <1>1
  <2> QED BY <1>1, <1>2
<1>4. \A i \in 1 .. n : /\ back(i) \in n + 1 .. 3 * n
                        /\ ops[back(i)] = Op("unlock", path[i], 0)
  BY GivesBack
<1>5. \A k \in 1 .. 3 * n :
        /\ ops[k].do = "lock" => k <= n
        /\ k <= n => ops[k] = Op("lock", path[k], 0)
        /\ ops[k].do = "unlock" =>
             \E i \in 1 .. n : k = back(i) /\ ops[k].on = path[i]
  BY AccessSteps
<1>6. \A i \in 1 .. n : back(i) = n + 2 * (n - i) + 2
  BY DEF GivenBack
<1> HIDE DEF n, ops, back
<1>7. ASSUME NEW k \in 1 .. 3 * n + 1, NEW g, Inside(ops, k, g)
      PROVE  \E i \in 1 .. n : i < k /\ k <= back(i) /\ path[i] = g
  <2>1. PICK i \in 1 .. k - 1 :
          Locks(ops[i], g) /\ \A j \in i + 1 .. k - 1 : ~Unlocks(ops[j], g)
    BY <1>7 DEF Inside
  <2>2. i \in 1 .. 3 * n /\ i < k
    BY <1>1, <1>7, <2>1
  <2>3. i \in 1 .. n
    BY <1>1, <1>5, <2>1, <2>2 DEF Locks
  <2>4. path[i] = g
    <3>1. ops[i] = Op("lock", path[i], 0)
      BY <1>1, <1>5, <2>2, <2>3
    <3> QED BY <2>1, <3>1 DEF Locks, Op
  <2>5. Unlocks(ops[back(i)], g)
    <3>1. ops[back(i)] = Op("unlock", g, 0)
      BY <1>4, <2>3, <2>4
    <3> QED BY <3>1 DEF Unlocks, Op
  <2>6. ~(back(i) \in i + 1 .. k - 1)
    BY <2>1, <2>5
  <2>7. k <= back(i)
    BY <1>1, <1>4, <1>7, <2>3, <2>6
  <2> QED BY <2>2, <2>3, <2>4, <2>7
<1>8. ASSUME NEW i \in 1 .. n
      PROVE  Inside(ops, back(i), path[i])
  <2>1. i \in 1 .. back(i) - 1 /\ i \in 1 .. 3 * n
    BY <1>1, <1>4
  <2>2. Locks(ops[i], path[i])
    <3>1. ops[i] = Op("lock", path[i], 0)
      BY <1>1, <1>5, <2>1
    <3> QED BY <3>1 DEF Locks, Op
  <2>3. ASSUME NEW j \in i + 1 .. back(i) - 1, Unlocks(ops[j], path[i])
        PROVE  FALSE
    <3>1. j \in 1 .. 3 * n
      BY <1>1, <1>4, <2>3
    <3>2. PICK l \in 1 .. n : j = back(l) /\ ops[j].on = path[l]
      BY <1>5, <2>3, <3>1 DEF Unlocks
    <3>3. l = i
      BY <1>3, <2>3, <3>2 DEF Unlocks
    <3> QED BY <1>1, <1>4, <2>3, <3>2, <3>3
  <2> QED BY <2>1, <2>2, <2>3 DEF Inside
<1>9. ASSUME NEW k \in DOMAIN ops, NEW g \in Global, ops[k].do = "lock", Inside(ops, k, g)
      PROVE  <<g, ops[k].on>> \in below
  <2>1. k \in 1 .. 3 * n /\ k \in 1 .. 3 * n + 1
    BY <1>1, <1>9
  <2>2. PICK i \in 1 .. n : i < k /\ path[i] = g
    BY <1>7, <1>9, <2>1
  <2>3. k \in 1 .. n /\ ops[k].on = path[k]
    BY <1>1, <1>5, <1>9, <2>1 DEF Op
  <2> QED BY <1>2, <2>2, <2>3
<1>10. ASSUME NEW k \in DOMAIN ops, ops[k].do = "unlock"
       PROVE  Inside(ops, k, ops[k].on)
  <2>1. PICK i \in 1 .. n : k = back(i) /\ ops[k].on = path[i]
    BY <1>1, <1>5, <1>10
  <2> QED BY <1>8, <2>1
<1>11. ASSUME NEW g \in Global, Inside(ops, Len(ops) + 1, g)
       PROVE  FALSE
  <2>1. 3 * n + 1 \in 1 .. 3 * n + 1
    BY <1>1
  <2>2. PICK i \in 1 .. n : 3 * n + 1 <= back(i)
    BY <1>1, <1>7, <1>11, <2>1
  <2> QED BY <1>1, <1>4, <2>2
<1>12. Nested(below, ops)
  BY <1>9, <1>10, <1>11 DEF Nested
<1> QED BY <1>12 DEF ops

LEMMA AccessAbove ==
  ASSUME NEW below, NEW path \in Seq(Global), path # <<>>,
         Upward(below, path)
  PROVE  Above(below, path[1], Access(Tail(path)))
<1> DEFINE rest == Tail(path)
<1>1. /\ rest \in Seq(Global) /\ Len(path) \in Nat /\ Len(rest) = Len(path) - 1
      /\ \A i \in 1 .. Len(rest) : rest[i] = path[i + 1]
      /\ DOMAIN path = 1 .. Len(path)
  OBVIOUS
<1>2. \A i \in 1 .. Len(rest) : <<path[1], rest[i]>> \in below
  <2> SUFFICES ASSUME NEW i \in 1 .. Len(rest)
               PROVE  <<path[1], path[i + 1]>> \in below
    BY <1>1
  <2>1. 1 \in DOMAIN path /\ i + 1 \in DOMAIN path /\ 1 < i + 1
    BY <1>1
  <2> QED BY <2>1 DEF Upward
<1>3. DOMAIN Access(rest) = 1 .. 3 * Len(rest)
  BY <1>1 DEF Access
<1> HIDE DEF rest
<1>4. ASSUME NEW k \in DOMAIN Access(rest), Access(rest)[k].do \in {"lock", "unlock"}
      PROVE  \E i \in 1 .. Len(rest) : Access(rest)[k].on = rest[i]
  <2>1. k \in 1 .. 3 * Len(rest) /\ Len(rest) \in Nat
    BY <1>1, <1>3, <1>4
  <2>2. CASE Access(rest)[k].do = "lock"
    <3>1. k <= Len(rest) /\ Access(rest)[k] = Op("lock", rest[k], 0)
      BY <1>1, <2>1, <2>2, AccessSteps
    <3> QED BY <2>1, <3>1 DEF Op
  <2>3. CASE Access(rest)[k].do = "unlock"
    BY <1>1, <2>1, <2>3, AccessSteps
  <2> QED BY <1>4, <2>2, <2>3
<1>5. Above(below, path[1], Access(rest))
  BY <1>2, <1>4 DEF Above
<1> QED BY <1>5 DEF rest

LEMMA PlainAbove ==
  ASSUME NEW below, NEW g, NEW ops \in Seq(OpType), Plain(ops)
  PROVE  Above(below, g, ops)
BY DEF Plain, Above

LEMMA ConcatPlain ==
  ASSUME NEW a \in Seq(OpType), NEW b \in Seq(OpType), Plain(a), Plain(b)
  PROVE  Plain(a \o b)
<1>1. ASSUME NEW k \in DOMAIN (a \o b) PROVE (a \o b)[k].do \notin {"lock", "unlock"}
  <2>1. CASE k \in 1 .. Len(a)
    BY <2>1 DEF Plain
  <2>2. CASE k \notin 1 .. Len(a)
    <3>1. k - Len(a) \in 1 .. Len(b) /\ (a \o b)[k] = b[k - Len(a)]
      BY <2>2
    <3> QED BY <3>1 DEF Plain
  <2> QED BY <2>1, <2>2
<1> QED BY <1>1 DEF Plain

LEMMA ConcatAbove ==
  ASSUME NEW below, NEW g, NEW a \in Seq(OpType), NEW b \in Seq(OpType),
         Above(below, g, a), Plain(b)
  PROVE  Above(below, g, a \o b)
<1>1. ASSUME NEW k \in DOMAIN (a \o b), (a \o b)[k].do \in {"lock", "unlock"}
      PROVE  <<g, (a \o b)[k].on>> \in below
  <2>1. CASE k \in 1 .. Len(a)
    <3>1. (a \o b)[k] = a[k] /\ k \in DOMAIN a
      BY <2>1
    <3> QED BY <1>1, <3>1 DEF Above
  <2>2. CASE k \notin 1 .. Len(a)
    <3>1. k - Len(a) \in 1 .. Len(b) /\ (a \o b)[k] = b[k - Len(a)]
      BY <2>2
    <3> QED BY <1>1, <3>1 DEF Plain
  <2> QED BY <2>1, <2>2
<1> QED BY <1>1 DEF Above

LEMMA SinglePlain ==
  ASSUME NEW op \in OpType, op.do \notin {"lock", "unlock"}
  PROVE  Plain(<<op>>)
BY DEF Plain

LEMMA EmitNested ==
  ASSUME NEW below, Permits(below),
         NEW t \in Task, NEW n \in DOMAIN Body[t]
  PROVE  Nested(below, Code[t][n])
<1> DEFINE s == Body[t][n]
           g == s.to[1]
<1>1. /\ s \in Statement
      /\ s.kind # "fetch" => s.to # <<>>
      /\ s.kind \in {"setbit", "scalarbit", "inout"} => s.at \in Part
      /\ \A h \in Global : <<h, h>> \notin below
      /\ Upward(below, s.to) /\ Upward(below, s.from)
  BY BodyAssumption DEF Permits, BitWrites
<1>2. Code[t][n] = Emit(s)
  BY DEF Code
<1> HIDE DEF s
<1>3. /\ s.to \in Seq(Global) /\ s.from \in Seq(Global)
      /\ s.at \in Nat /\ s.ix \in Nat
      /\ s.kind \in Kinds
  BY <1>1 DEF Statement, BitWrites, Kinds
<1>4. s.kind # "fetch" => g \in Global /\ Tail(s.to) \in Seq(Global)
  BY <1>1, <1>3
<1> DEFINE Calm(o) == o \in Seq(OpType) /\ Plain(o)
           Fine(o) == o \in Seq(OpType) /\ Nested(below, o)
           index == <<Op("index", NoGlobal, s.ix)>>
           hoist == <<Op("hoist", NoGlobal, s.at)>>
           put == <<Op("put", g, 0)>>
           fill == <<Op("fill", g, 0)>>
           modify == <<Op("modify", g, s.at)>>
           loads == EachPart("load", g)
           stores == EachPart("store", g)
<1>5. \A o : Calm(o) => Fine(o)
  BY PlainNested
<1>6. \A a, b : Calm(a) /\ Calm(b) => Calm(a \o b)
  BY ConcatPlain, ConcatType
<1>7. \A a, b : Fine(a) /\ Fine(b) => Fine(a \o b)
  BY ConcatNested, ConcatType
<1>8. \A o : s.kind # "fetch" /\ Calm(o) => Fine(Locked(g, o))
  BY <1>1, <1>4, PlainNested, PlainAbove, LockedNested, LockedType
<1>9. Calm(index) /\ Calm(hoist)
  <2>1. /\ Op("index", NoGlobal, s.ix) \in OpType
        /\ Op("hoist", NoGlobal, s.at) \in OpType
    BY <1>3 DEF Op, OpType
  <2> QED BY <2>1, SingleType, SinglePlain DEF Op
<1>10. s.kind # "fetch" => Calm(put) /\ Calm(fill) /\ Calm(loads) /\ Calm(stores)
  <2>1. s.kind # "fetch" => Op("put", g, 0) \in OpType /\ Op("fill", g, 0) \in OpType
    BY <1>4 DEF Op, OpType
  <2> QED BY <1>4, <2>1, SingleType, SinglePlain, EachPartType DEF Op
<1>11. s.kind \in {"setbit", "scalarbit", "inout"} => Calm(modify)
  <2>1. s.kind \in {"setbit", "scalarbit", "inout"} => Op("modify", g, s.at) \in OpType
    BY <1>1, <1>4 DEF Op, OpType
  <2> QED BY <2>1, SingleType, SinglePlain DEF Op
<1>12. Fine(Access(s.from))
  BY <1>1, <1>3, AccessType, AccessNested
<1>13. s.kind # "fetch" => Fine(Locked(g, Access(Tail(s.to)) \o put))
  <2> SUFFICES ASSUME s.kind # "fetch"
               PROVE  Fine(Locked(g, Access(Tail(s.to)) \o put))
    OBVIOUS
  <2>1. Upward(below, Tail(s.to))
    <3>1. /\ Len(Tail(s.to)) = Len(s.to) - 1 /\ Len(s.to) \in Nat
          /\ \A i \in 1 .. Len(Tail(s.to)) : Tail(s.to)[i] = s.to[i + 1]
          /\ DOMAIN Tail(s.to) = 1 .. Len(Tail(s.to)) /\ DOMAIN s.to = 1 .. Len(s.to)
      BY <1>1, <1>3
    <3> SUFFICES ASSUME NEW i \in 1 .. Len(Tail(s.to)), NEW j \in 1 .. Len(Tail(s.to)), i < j
                 PROVE  <<s.to[i + 1], s.to[j + 1]>> \in below
      BY <3>1 DEF Upward
    <3>2. i + 1 \in DOMAIN s.to /\ j + 1 \in DOMAIN s.to /\ i + 1 < j + 1
      BY <3>1
    <3> QED BY <1>1, <3>2 DEF Upward
  <2>2. Fine(Access(Tail(s.to)))
    BY <1>1, <1>4, <2>1, AccessType, AccessNested
  <2>3. Above(below, g, Access(Tail(s.to)))
    BY <1>1, <1>3, AccessAbove
  <2>4. Fine(Access(Tail(s.to)) \o put)
    BY <1>5, <1>7, <1>10, <2>2
  <2>5. Above(below, g, Access(Tail(s.to)) \o put)
    BY <1>10, <2>2, <2>3, ConcatAbove
  <2> HIDE DEF g, put
  <2> QED BY <1>1, <1>4, <2>4, <2>5, LockedNested, LockedType
<1> HIDE DEF Calm, Fine, index, hoist, put, fill, modify, loads, stores, g
<1>14. Fine(Emit(s))
  <2>1. CASE s.kind = "fetch"
    <3>1. Emit(s) = index \o Access(s.from)
      BY <2>1 DEF Emit, EmitFetch, index
    <3> QED BY <1>5, <1>7, <1>9, <1>12, <3>1
  <2>2. CASE s.kind = "assign"
    <3>1. Emit(s) = index \o Access(s.from) \o hoist \o Locked(g, Access(Tail(s.to)) \o put)
      BY <2>2 DEF Emit, EmitAssign, index, hoist, put, g
    <3> QED BY <1>5, <1>7, <1>9, <1>12, <1>13, <2>2, <3>1
  <2>3. CASE s.kind = "setbit"
    <3>1. Emit(s) = Locked(g, loads \o modify \o stores)
      BY <2>3 DEF Emit, EmitSetBit, loads, modify, stores, g
    <3>2. Calm(loads \o modify \o stores)
      BY <1>6, <1>10, <1>11, <2>3
    <3> QED BY <1>8, <2>3, <3>1, <3>2
  <2>4. CASE s.kind = "inout"
    <3>1. Emit(s) = Locked(g, loads) \o modify \o Locked(g, stores)
      BY <2>4 DEF Emit, EmitInOut, loads, modify, stores, g
    <3>2. Fine(Locked(g, loads)) /\ Fine(modify) /\ Fine(Locked(g, stores))
      BY <1>5, <1>8, <1>10, <1>11, <2>4
    <3> QED BY <1>7, <3>1, <3>2
  <2>5. CASE s.kind = "getall"
    <3>1. Emit(s) = Locked(g, loads)
      BY <2>5 DEF Emit, EmitGetAll, loads, g
    <3> QED BY <1>8, <1>10, <2>5, <3>1
  <2>6. CASE s.kind = "putall"
    <3>1. Emit(s) = fill \o Locked(g, stores)
      BY <2>6 DEF Emit, EmitPutAll, fill, stores, g
    <3> QED BY <1>5, <1>7, <1>8, <1>10, <2>6, <3>1
  <2>7. CASE s.kind = "scalarbit"
    <3>1. Emit(s) = Locked(g, loads) \o Locked(g, loads) \o modify
      BY <2>7 DEF Emit, EmitScalarBit, loads, modify, g
    <3>2. Fine(Locked(g, loads)) /\ Fine(modify)
      BY <1>5, <1>8, <1>10, <1>11, <2>7
    <3> QED BY <1>7, <3>1, <3>2
  <2> QED BY <1>3, <2>1, <2>2, <2>3, <2>4, <2>5, <2>6, <2>7 DEF Kinds
<1> QED BY <1>2, <1>14 DEF Fine
-----------------------------------------------------------------------------
(* Who holds what. *)

Holds(t, g) == status[t] = "running" /\ Inside(Ops(t), at[t].op, g)

\* A mutex is held by the task that is inside its scope.
HoldInv == \A t \in Task, g \in Global : owner[g] = t <=> Holds(t, g)

LEMMA StartHoldsNothing ==
  ASSUME NEW ops, NEW g PROVE ~Inside(ops, 1, g)
BY DEF Inside

\* After a step that is not a fault, t holds what the steps up to it say.
LEMMA AdvanceHolds ==
  ASSUME NEW below, Permits(below),
         TInv, TInv', NEW t \in Task, Advance(t), status[t] = "running", NEW g \in Global
  PROVE  Holds(t, g)' <=>
           Locks(Coming(t), g) \/ (Holds(t, g) /\ ~Unlocks(Coming(t), g))
<1>1. /\ Ops(t) \in Seq(OpType) /\ at[t].op \in 1 .. Len(Ops(t))
      /\ Coming(t) = Ops(t)[at[t].op] /\ at[t].stmt \in DOMAIN Body[t]
  BY OpsType DEF TInv, TypeOK
<1>2. /\ at \in [Task -> [stmt : Nat, op : Nat]]
      /\ status \in [Task -> {"resting", "running", "faulted"}]
  BY DEF TInv, TypeOK
<1>3. Inside(Ops(t), at[t].op + 1, g) <=>
        Locks(Coming(t), g) \/ (Inside(Ops(t), at[t].op, g) /\ ~Unlocks(Coming(t), g))
  BY <1>1, InsideNext
<1>4. Holds(t, g)' <=> Inside(Ops(t), at[t].op + 1, g)
  <2>1. CASE at[t].op # Len(Ops(t))
    <3>1. /\ at' = [at EXCEPT ![t] = [stmt |-> @.stmt, op |-> @.op + 1]]
          /\ status' = status
      BY <1>2, <2>1 DEF Advance
    <3>2. at'[t] = [stmt |-> at[t].stmt, op |-> at[t].op + 1]
      BY <1>2, <3>1
    <3>3. Ops(t)' = Ops(t) /\ at'[t].op = at[t].op + 1 /\ status'[t] = "running"
      BY <3>1, <3>2 DEF Ops
    <3> QED BY <3>3 DEF Holds
  <2>2. CASE at[t].op = Len(Ops(t))
    <3>1. ~Inside(Ops(t), at[t].op + 1, g)
      BY <1>1, <2>2, EmitNested DEF Nested, Ops
    <3>2. at'[t].op = 1
      <4>1. CASE at[t].stmt = Len(Body[t])
        <5>1. at' = [at EXCEPT ![t] = Start]
          BY <2>2, <4>1 DEF Advance
        <5> QED BY <1>2, <5>1 DEF Start
      <4>2. CASE at[t].stmt # Len(Body[t])
        <5>1. at' = [at EXCEPT ![t] = [stmt |-> @.stmt + 1, op |-> 1]]
          BY <1>2, <2>2, <4>2 DEF Advance
        <5>2. at'[t] = [stmt |-> at[t].stmt + 1, op |-> 1]
          BY <1>2, <5>1
        <5> QED BY <5>2
      <4> QED BY <4>1, <4>2
    <3> QED BY <3>1, <3>2, StartHoldsNothing DEF Holds
  <2> QED BY <2>1, <2>2
<1> QED BY <1>3, <1>4 DEF Holds

LEMMA OthersHold ==
  ASSUME TInv, NEW t \in Task, Advance(t), NEW u \in Task \ {t}, NEW g
  PROVE  Holds(u, g)' <=> Holds(u, g)
<1>1. at'[u] = at[u] /\ status'[u] = status[u]
  BY DEF Advance, TInv, TypeOK
<1> QED BY <1>1 DEF Holds, Ops

LEMMA HoldInvariant ==
  ASSUME NEW below, Permits(below)
  PROVE  /\ Init => HoldInv
         /\ TInv /\ TInv' /\ HoldInv /\ [Next]_vars => HoldInv'
<1>1. Init => HoldInv
  BY NobodyAssumption DEF Init, HoldInv, Holds
<1>2. ASSUME TInv, TInv', HoldInv, [Next]_vars
      PROVE  HoldInv'
  <2>1. CASE UNCHANGED vars
    BY <1>2, <2>1 DEF vars, local, HoldInv, Holds, Ops
  <2>2. ASSUME NEW t \in Task, Activate(t)
        PROVE  HoldInv'
    <3>1. \A g \in Global : ~Holds(t, g) /\ ~Holds(t, g)'
      <4>1. at'[t] = Start /\ status[t] # "running"
        BY <1>2, <2>2 DEF Activate, local, TInv
      <4> QED BY <4>1, StartHoldsNothing DEF Holds, Start
    <3>2. \A u \in Task \ {t}, g \in Global : Holds(u, g)' <=> Holds(u, g)
      BY <1>2, <2>2 DEF Activate, local, Holds, Ops, TInv, TypeOK
    <3> QED BY <1>2, <2>2, <3>1, <3>2 DEF Activate, HoldInv
  <2>3. ASSUME NEW t \in Task, Advance(t), status[t] = "running"
        PROVE  \A u \in Task, g \in Global :
                 Holds(u, g)' <=>
                   \/ u = t /\ Locks(Coming(t), g)
                   \/ Holds(u, g) /\ ~(u = t /\ Unlocks(Coming(t), g))
    BY <1>2, <2>3, AdvanceHolds, OthersHold
  <2>4. ASSUME NEW t \in Task, TakeLock(t)
        PROVE  HoldInv'
    <3>1. /\ Coming(t).do = "lock" /\ Coming(t).on \in Global
          /\ owner[Coming(t).on] = "nobody"
          /\ owner' = [owner EXCEPT ![Coming(t).on] = t]
          /\ owner \in [Global -> Task \cup {"nobody"}]
      BY <1>2, <2>4, OpsType DEF TakeLock, Doing, OpType, TInv, TypeOK
    <3>2. \A u \in Task : ~Holds(u, Coming(t).on)
      BY <1>2, <3>1, NobodyAssumption DEF HoldInv
    <3>3. \A u \in Task, g \in Global :
            Holds(u, g)' <=> (u = t /\ g = Coming(t).on) \/ Holds(u, g)
      BY <2>3, <2>4, <3>1 DEF TakeLock, Doing, Locks, Unlocks
    <3>4. \A g \in Global : owner'[g] = IF g = Coming(t).on THEN t ELSE owner[g]
      BY <3>1
    <3> QED BY <1>2, <3>1, <3>2, <3>3, <3>4 DEF HoldInv
  <2>5. ASSUME NEW t \in Task, FreeLock(t)
        PROVE  HoldInv'
    <3>1. /\ Coming(t).do = "unlock" /\ Coming(t).on \in Global
          /\ owner' = [owner EXCEPT ![Coming(t).on] = "nobody"]
          /\ owner \in [Global -> Task \cup {"nobody"}]
      BY <1>2, <2>5, OpsType DEF FreeLock, Doing, OpType, TInv, TypeOK
    <3>2. Holds(t, Coming(t).on)
      <4>1. /\ Coming(t) = Ops(t)[at[t].op] /\ at[t].op \in DOMAIN Ops(t)
            /\ at[t].stmt \in DOMAIN Body[t]
        BY <1>2, OpsType DEF TInv, TypeOK
      <4>2. Nested(below, Ops(t))
        BY <4>1, EmitNested DEF Ops
      <4> QED BY <2>5, <3>1, <4>1, <4>2 DEF FreeLock, Doing, Holds, Nested
    <3>3. \A u \in Task : Holds(u, Coming(t).on) => u = t
      BY <1>2, <3>1, <3>2 DEF HoldInv
    <3>4. \A u \in Task, g \in Global :
            Holds(u, g)' <=> Holds(u, g) /\ ~(u = t /\ g = Coming(t).on)
      BY <2>3, <2>5, <3>1 DEF FreeLock, Doing, Locks, Unlocks
    <3>5. \A g \in Global : owner'[g] = IF g = Coming(t).on THEN "nobody" ELSE owner[g]
      BY <3>1
    <3> QED BY <1>2, <3>1, <3>3, <3>4, <3>5, NobodyAssumption DEF HoldInv
  <2>6. ASSUME NEW t \in Task, Fault(t)
        PROVE  HoldInv'
    <3>1. /\ status' = [status EXCEPT ![t] = "faulted"] /\ at' = at
          /\ \A g \in Global : owner'[g] = IF owner[g] = t THEN "nobody" ELSE owner[g]
      BY <2>6 DEF Fault, Released, local
    <3>2. \A u \in Task, g \in Global : Holds(u, g)' <=> Holds(u, g) /\ u # t
      BY <1>2, <3>1 DEF Holds, Ops, TInv, TypeOK
    <3> QED BY <1>2, <3>1, <3>2, NobodyAssumption DEF HoldInv
  <2>7. ASSUME NEW t \in Task, Advance(t), status[t] = "running", owner' = owner,
               Coming(t).do \notin {"lock", "unlock"}
        PROVE  HoldInv'
    BY <1>2, <2>3, <2>7 DEF HoldInv, Locks, Unlocks
  <2>8. ASSUME NEW t \in Task, Step(t)
        PROVE  HoldInv'
    <3>1. CASE Index(t)
      BY <2>7, <3>1 DEF Index, Doing
    <3>2. CASE Hoist(t)
      BY <2>7, <3>2 DEF Hoist, Doing
    <3>3. CASE ReadAt(t)
      BY <2>7, <3>3 DEF ReadAt, Doing
    <3>4. CASE PutAt(t)
      BY <2>7, <3>4 DEF PutAt, Doing
    <3>5. CASE Load(t)
      BY <2>7, <3>5 DEF Load, Doing
    <3>6. CASE Store(t)
      BY <2>7, <3>6 DEF Store, Doing
    <3>7. CASE \E v \in Val : Modify(t, v) \/ Fill(t, v)
      BY <2>7, <3>7 DEF Modify, Fill, Doing
    <3> QED BY <2>4, <2>5, <2>6, <2>8, <3>1, <3>2, <3>3, <3>4, <3>5, <3>6, <3>7 DEF Step
  <2> QED BY <1>2, <2>1, <2>2, <2>8 DEF Next
<1> QED BY <1>1, <1>2
-----------------------------------------------------------------------------
(* No circle of waiting tasks. *)

NatLess == {p \in Nat \X Nat : p[1] < p[2]}

LEMMA LeastElement ==
  ASSUME NEW S \in SUBSET Nat, S # {}
  PROVE  \E x \in S : \A y \in S : x <= y
<1>1. IsWellFoundedOn(NatLess, Nat)
  BY NatLessThanWellFounded DEF OpToRel, NatLess
<1>2. PICK x \in S : \A y \in S : ~(<<y, x>> \in NatLess)
  BY <1>1, WFMin
<1>3. ASSUME NEW y \in S PROVE x <= y
  <2>1. x \in Nat /\ y \in Nat
    OBVIOUS
  <2>2. ~(y < x)
    BY <1>2, <2>1 DEF NatLess
  <2> QED BY <2>1, <2>2
<1> QED BY <1>3

LEMMA RankingPermits ==
  ASSUME NEW rank, NEW bound, Ranking(rank, bound)
  PROVE  Permits(Lower(rank))
<1>1. \A g \in Global : rank[g] \in Nat
  BY DEF Ranking
<1> QED BY <1>1 DEF Ranking, Permits, Lower

LEMMA HoldersMove ==
  ASSUME NEW rank, NEW bound, Ranking(rank, bound), TInv, HoldInv
  PROVE  DeadlockFree
<1> SUFFICES ASSUME NEW T \in SUBSET Task, Stuck(T), T # {}
             PROVE  FALSE
  BY DEF DeadlockFree
<1> DEFINE on(t) == Coming(t).on
           depth(t) == bound - rank[on(t)]
<1>1. bound \in Nat /\ rank \in [Global -> 0 .. bound]
  BY DEF Ranking
<1>2. ASSUME NEW t \in T
      PROVE  /\ Coming(t).do = "lock" /\ on(t) \in Global
             /\ status[t] = "running"
             /\ owner[on(t)] \in T \cup Faulted
             /\ depth(t) \in Nat
  <2>1. Coming(t).do = "lock" /\ status[t] = "running" /\ owner[on(t)] \in T \cup Faulted
    BY <1>2 DEF Stuck, Waiting, Doing
  <2>2. on(t) \in Global
    BY <2>1, OpsType DEF OpType, TInv
  <2>3. rank[on(t)] \in 0 .. bound
    BY <1>1, <2>2
  <2> QED BY <1>1, <2>1, <2>2, <2>3
<1> HIDE DEF depth
<1>3. PICK t \in T : \A u \in T : depth(t) <= depth(u)
  <2> DEFINE S == {depth(u) : u \in T}
  <2>1. S \in SUBSET Nat /\ S # {}
    BY <1>2
  <2>2. PICK x \in S : \A y \in S : x <= y
    BY <2>1, LeastElement
  <2> QED BY <2>2
<1>4. PICK u \in Task : u = owner[on(t)] /\ u \in T \cup Faulted
  BY <1>2 DEF Faulted
<1>5. status[u] = "running" /\ Inside(Ops(u), at[u].op, on(t))
  BY <1>2, <1>4 DEF HoldInv, Holds
<1>6. u \in T
  BY <1>4, <1>5 DEF Faulted
<1>7. /\ Coming(u) = Ops(u)[at[u].op] /\ at[u].op \in DOMAIN Ops(u)
      /\ at[u].stmt \in DOMAIN Body[u]
  BY OpsType DEF TInv, TypeOK
<1>8. Nested(Lower(rank), Ops(u))
  BY <1>7, RankingPermits, EmitNested DEF Ops
<1>9. rank[on(t)] < rank[on(u)]
  BY <1>2, <1>5, <1>6, <1>7, <1>8 DEF Nested, Lower
<1>10. rank[on(t)] \in Nat /\ rank[on(u)] \in Nat
  BY <1>1, <1>2, <1>6
<1> QED BY <1>1, <1>3, <1>6, <1>9, <1>10 DEF depth

(* If the globals can be ranked so that in every access an inner subscript  *)
(* is ranked above the global it subscripts, then no set of tasks waits for *)
(* one another or for a faulted one.  Statements without nested global      *)
(* subscripts, which is what iec_global.hpp has in mind, are the case of    *)
(* one rank for all.                                                        *)
THEOREM OrderedNeverDeadlock ==
  ASSUME NEW CONSTANT rank, NEW CONSTANT bound, Ranking(rank, bound)
  PROVE  Spec => []DeadlockFree
<1> DEFINE Inv == TInv /\ HoldInv
<1>1. Init => Inv
  BY TypeInvariant, HoldInvariant, RankingPermits
<1>2. Inv /\ [Next]_vars => Inv'
  BY TypeInvariant, HoldInvariant, RankingPermits
<1>3. Inv => DeadlockFree
  BY HoldersMove
<1> QED BY <1>1, <1>2, <1>3, PTL DEF Spec

(* No statement uses a shared global as a subscript of another. *)
Flat ==
  \A t \in Task : \A n \in DOMAIN Body[t] :
    Len(Body[t][n].from) <= 1 /\ Len(Body[t][n].to) <= 1

(* "A lock is held for exactly one access and never nested with another     *)
(* global's lock (deadlock-free)": so it is where no subscript is shared.   *)
THEOREM FlatNeverDeadlock == ASSUME Flat PROVE Spec => []DeadlockFree
<1> DEFINE rank == [g \in Global |-> 0]
<1>1. \A t \in Task : \A n \in DOMAIN Body[t] :
        Upward(Lower(rank), Body[t][n].to) /\ Upward(Lower(rank), Body[t][n].from)
  <2> SUFFICES ASSUME NEW t \in Task, NEW n \in DOMAIN Body[t]
               PROVE  /\ Upward(Lower(rank), Body[t][n].to)
                     /\ Upward(Lower(rank), Body[t][n].from)
    OBVIOUS
  <2>1. Body[t][n] \in Statement
    BY BodyAssumption
  <2>2. /\ Body[t][n].to \in Seq(Global) /\ Body[t][n].from \in Seq(Global)
        /\ Len(Body[t][n].from) <= 1 /\ Len(Body[t][n].to) <= 1
    BY <2>1 DEF Statement, Flat
  <2>3. ASSUME NEW path \in Seq(Global), Len(path) <= 1 PROVE Upward(Lower(rank), path)
    BY <2>3 DEF Upward
  <2> HIDE DEF rank
  <2> QED BY <2>2, <2>3
<1>2. Ranking(rank, 0)
  BY <1>1 DEF Ranking
<1> QED BY <1>2, OrderedNeverDeadlock
-----------------------------------------------------------------------------
(* What the statements do to whole globals, step by step.                  *)

NoSelf == {p \in Global \X Global : p[1] # p[2]}

LEMMA DistinctPermits == NoSelfSubscript => Permits(NoSelf)
<1> SUFFICES ASSUME NoSelfSubscript, NEW t \in Task, NEW n \in DOMAIN Body[t]
             PROVE  Upward(NoSelf, Body[t][n].to) /\ Upward(NoSelf, Body[t][n].from)
  BY DEF Permits, NoSelf
<1>1. Body[t][n].to \in Seq(Global) /\ Body[t][n].from \in Seq(Global)
  <2>1. Body[t][n] \in Statement
    BY BodyAssumption
  <2> QED BY <2>1 DEF Statement, BitWrites, Kinds
<1>2. ASSUME NEW path \in Seq(Global), Distinct(path) PROVE Upward(NoSelf, path)
  BY <1>2 DEF Distinct, Upward, NoSelf
<1> QED BY <1>1, <1>2 DEF NoSelfSubscript

Copies(s)     == s.kind \in {"setbit", "inout", "getall"}
Changes(s)    == s.kind \in {"setbit", "scalarbit", "inout"}
WritesBack(s) == s.kind \in {"setbit", "inout", "putall"}

\* The step that changes the copy, and the one that stores its part 0.
ChangeStep(s) ==
  CASE s.kind = "setbit" -> LastPart + 3
    [] s.kind = "inout"  -> LastPart + 4
    [] s.kind = "scalarbit" -> 2 * LastPart + 7
    [] s.kind = "putall" -> 1

FirstStore(s) ==
  CASE s.kind = "setbit" -> LastPart + 4
    [] s.kind = "inout"  -> LastPart + 6
    [] s.kind = "putall" -> 3

\* What step k of ops, the code of s, has to do with a copy or with a part.
Shape(s, ops, k) ==
  /\ Copies(s) => (ops[k].do = "load" <=> k \in 2 .. LastPart + 2)
  /\ ops[k].do = "load" =>
       /\ ops[k].on = s.to[1]
       /\ s.kind # "scalarbit" => Copies(s) /\ ops[k].part = k - 2
  /\ ops[k].do = "modify" <=> Changes(s) /\ k = ChangeStep(s)
  /\ ops[k].do = "modify" => ops[k].on = s.to[1] /\ ops[k].part = s.at
  /\ ops[k].do = "fill" <=> s.kind = "putall" /\ k = 1
  /\ ops[k].do = "fill" => ops[k].on = s.to[1]
  /\ ops[k].do = "store" <=>
       WritesBack(s) /\ k \in FirstStore(s) .. FirstStore(s) + LastPart
  /\ ops[k].do = "store" =>
       ops[k].on = s.to[1] /\ ops[k].part = k - FirstStore(s)
  /\ ops[k].do = "put" =>
       s.kind = "assign" /\ ops[k].on = s.to[1] /\ k = Len(ops) - 1 /\ k > 1
  /\ ops[k].do = "at" => s.kind \in {"fetch", "assign"} /\ k > 1
  /\ WritesBack(s) => Len(ops) = FirstStore(s) + LastPart + 1
  /\ s.kind = "getall" => Len(ops) = LastPart + 3

LEMMA ConcatAt ==
  ASSUME NEW a \in Seq(OpType), NEW b \in Seq(OpType)
  PROVE  /\ Len(a \o b) = Len(a) + Len(b)
         /\ DOMAIN (a \o b) = 1 .. Len(a) + Len(b)
         /\ \A k \in 1 .. Len(a) + Len(b) :
              (a \o b)[k] = IF k <= Len(a) THEN a[k] ELSE b[k - Len(a)]
OBVIOUS

LEMMA LockedAt ==
  ASSUME NEW g \in Global, NEW o \in Seq(OpType)
  PROVE  /\ Len(Locked(g, o)) = Len(o) + 2
         /\ \A k \in 1 .. Len(o) + 2 :
              Locked(g, o)[k] = IF k = 1 THEN Op("lock", g, 0)
                                ELSE IF k = Len(o) + 2 THEN Op("unlock", g, 0)
                                ELSE o[k - 1]
<1>1. Len(o) \in Nat
  OBVIOUS
<1>2. /\ Len(<<Op("lock", g, 0)>> \o o) = Len(o) + 1
      /\ (<<Op("lock", g, 0)>> \o o)[1] = Op("lock", g, 0)
      /\ \A k \in 2 .. Len(o) + 1 : (<<Op("lock", g, 0)>> \o o)[k] = o[k - 1]
  OBVIOUS
<1> QED BY <1>1, <1>2 DEF Locked

LEMMA EachPartAt ==
  ASSUME NEW g, NEW do
  PROVE  \A k \in 1 .. LastPart + 1 : EachPart(do, g)[k] = Op(do, g, k - 1)
BY DEF EachPart

LEMMA AccessDoes ==
  ASSUME NEW path \in Seq(Global), NEW k \in DOMAIN Access(path)
  PROVE  Access(path)[k].do \in {"lock", "at", "unlock"}
<1>1. Len(path) \in Nat /\ k \in 1 .. 3 * Len(path)
  BY DEF Access
<1> QED BY <1>1 DEF Access, Op

\* A statement of a body, typed.
LEMMA StatementType ==
  ASSUME NEW t \in Task, NEW n \in DOMAIN Body[t]
  PROVE  LET s == Body[t][n]
         IN  /\ Code[t][n] = Emit(s)
             /\ s.to \in Seq(Global) /\ s.from \in Seq(Global)
             /\ s.at \in Nat /\ s.ix \in Nat
             /\ s.kind \in Kinds
             /\ s.kind # "fetch" =>
                  s.to # <<>> /\ s.to[1] \in Global /\ Tail(s.to) \in Seq(Global)
             /\ Changes(s) => s.at \in Part
<1> DEFINE s == Body[t][n]
<1>1. /\ s \in Statement /\ Code[t][n] = Emit(s)
      /\ s.kind # "fetch" => s.to # <<>>
      /\ s.kind \in {"setbit", "scalarbit", "inout"} => s.at \in Part
  BY BodyAssumption DEF Code, BitWrites
<1> HIDE DEF s
<1>2. /\ s.to \in Seq(Global) /\ s.from \in Seq(Global)
      /\ s.at \in Nat /\ s.ix \in Nat
      /\ s.kind \in Kinds
  BY <1>1 DEF Statement, BitWrites, Kinds
<1>3. s.kind # "fetch" => s.to[1] \in Global /\ Tail(s.to) \in Seq(Global)
  BY <1>1, <1>2
<1>4. Changes(s) => s.at \in Part
  BY <1>1 DEF Changes
<1> QED BY <1>1, <1>2, <1>3, <1>4 DEF s

LEMMA FetchShape ==
  ASSUME NEW s, s.kind = "fetch", s.ix \in Nat, s.from \in Seq(Global),
         NEW k \in DOMAIN EmitFetch(s)
  PROVE  Shape(s, EmitFetch(s), k)
<1> DEFINE index == <<Op("index", NoGlobal, s.ix)>>
           get == Access(s.from)
           ops == EmitFetch(s)
<1>1. index \in Seq(OpType) /\ Len(index) = 1 /\ get \in Seq(OpType) /\ Len(get) \in Nat
  <2>1. Op("index", NoGlobal, s.ix) \in OpType
    BY DEF Op, OpType
  <2> QED BY <2>1, AccessType
<1>2. ops = index \o get
  BY DEF EmitFetch
<1>3. index[1].do = "index" /\ \A j \in 1 .. Len(get) : get[j].do \in {"lock", "at", "unlock"}
  BY <1>1, AccessDoes DEF Op
<1>4. k \in DOMAIN (index \o get)
  BY <1>2
<1> HIDE DEF index, get, ops
<1>5. /\ k \in 1 .. 1 + Len(get)
      /\ ops[k] = IF k <= 1 THEN index[k] ELSE get[k - 1]
  BY <1>1, <1>2, <1>4, ConcatAt
<1>6. ops[k].do \in {"index", "lock", "at", "unlock"} /\ (ops[k].do = "at" => k > 1)
  BY <1>1, <1>3, <1>5
<1>7. Shape(s, ops, k)
  BY <1>6 DEF Shape, Copies, Changes, WritesBack
<1> QED BY <1>7 DEF ops

LEMMA HeldPutAt ==
  ASSUME NEW g \in Global, NEW to \in Seq(OpType), NEW put \in OpType
  PROVE  /\ Len(Locked(g, to \o <<put>>)) = Len(to) + 3
         /\ \A j \in 1 .. Len(to) + 3 :
              Locked(g, to \o <<put>>)[j] =
                IF j = 1 THEN Op("lock", g, 0)
                ELSE IF j = Len(to) + 3 THEN Op("unlock", g, 0)
                ELSE IF j = Len(to) + 2 THEN put ELSE to[j - 1]
<1> DEFINE inner == to \o <<put>>
<1>1. /\ inner \in Seq(OpType) /\ Len(inner) = Len(to) + 1 /\ Len(to) \in Nat
      /\ inner[Len(to) + 1] = put /\ \A j \in 1 .. Len(to) : inner[j] = to[j]
  OBVIOUS
<1> HIDE DEF inner
<1>2. /\ Len(Locked(g, inner)) = Len(to) + 3
      /\ \A j \in 1 .. Len(to) + 3 :
           Locked(g, inner)[j] = IF j = 1 THEN Op("lock", g, 0)
                                 ELSE IF j = Len(to) + 3 THEN Op("unlock", g, 0)
                                 ELSE inner[j - 1]
  BY <1>1, LockedAt
<1>3. \A j \in 1 .. Len(to) + 3 : j # 1 /\ j # Len(to) + 3 =>
        inner[j - 1] = IF j = Len(to) + 2 THEN put ELSE to[j - 1]
  BY <1>1
<1>4. /\ Len(Locked(g, inner)) = Len(to) + 3
      /\ \A j \in 1 .. Len(to) + 3 :
           Locked(g, inner)[j] =
             IF j = 1 THEN Op("lock", g, 0)
             ELSE IF j = Len(to) + 3 THEN Op("unlock", g, 0)
             ELSE IF j = Len(to) + 2 THEN put ELSE to[j - 1]
  BY <1>2, <1>3
<1> QED BY <1>4 DEF inner

\* Steps that touch no copy and store nothing.
Quiet(ops) ==
  \A k \in DOMAIN ops :
    ops[k].do \in {"index", "hoist", "lock", "at", "unlock"}

LEMMA ConcatQuiet ==
  ASSUME NEW a \in Seq(OpType), NEW b \in Seq(OpType), Quiet(a), Quiet(b)
  PROVE  Quiet(a \o b)
<1>1. ASSUME NEW k \in DOMAIN (a \o b)
      PROVE (a \o b)[k].do \in {"index", "hoist", "lock", "at", "unlock"}
  <2>1. CASE k \in 1 .. Len(a)
    BY <2>1 DEF Quiet
  <2>2. CASE k \notin 1 .. Len(a)
    <3>1. k - Len(a) \in 1 .. Len(b) /\ (a \o b)[k] = b[k - Len(a)]
      BY <2>2
    <3> QED BY <3>1 DEF Quiet
  <2> QED BY <2>1, <2>2
<1> QED BY <1>1 DEF Quiet

\* The right side of an assignment, up to its temporary.
LEMMA EvalQuiet ==
  ASSUME NEW index \in OpType, index.do = "index", NEW hoist \in OpType, hoist.do = "hoist",
         NEW from \in Seq(OpType), Quiet(from)
  PROVE  LET first == <<index>> \o from \o <<hoist>>
         IN  /\ first \in Seq(OpType) /\ Quiet(first)
             /\ Len(first) \in Nat \ {0} /\ first[1] = index
<1> DEFINE start == <<index>> \o from
<1>1. Quiet(<<index>>) /\ Quiet(<<hoist>>)
  BY DEF Quiet
<1>2. start \in Seq(OpType) /\ Len(start) \in Nat \ {0} /\ start[1] = index
  OBVIOUS
<1>3. Quiet(start)
  BY <1>1, ConcatQuiet
<1> HIDE DEF start
<1>4. /\ start \o <<hoist>> \in Seq(OpType)
      /\ Len(start \o <<hoist>>) \in Nat \ {0}
      /\ (start \o <<hoist>>)[1] = index
  BY <1>2
<1>5. Quiet(start \o <<hoist>>)
  <2>1. <<hoist>> \in Seq(OpType)
    BY SingleType
  <2> QED BY <1>1, <1>2, <1>3, <2>1, ConcatQuiet
<1> QED BY <1>4, <1>5 DEF start

AssignOps(first, g, to) == first \o Locked(g, to \o <<Op("put", g, 0)>>)

LEMMA AssignSteps ==
  ASSUME NEW first \in Seq(OpType), Quiet(first), Len(first) \in Nat \ {0},
         first[1].do = "index",
         NEW g \in Global, NEW to \in Seq(OpType), Quiet(to),
         NEW k \in DOMAIN AssignOps(first, g, to)
  PROVE  LET ops == AssignOps(first, g, to)
         IN  \/ /\ ops[k].do \in {"index", "hoist", "lock", "at", "unlock"}
                /\ ops[k].do = "at" => k > 1
             \/ ops[k].do = "put" /\ ops[k].on = g /\ k = Len(ops) - 1 /\ k > 1
<1> DEFINE put == Op("put", g, 0)
           held == Locked(g, to \o <<put>>)
           ops == first \o held
<1>0. AssignOps(first, g, to) = ops
  BY DEF AssignOps
<1>1. put \in OpType /\ put.do = "put" /\ put.on = g
  BY DEF Op, OpType
<1> HIDE DEF put
<1>2. to \o <<put>> \in Seq(OpType)
  BY <1>1
<1>3. held \in Seq(OpType)
  BY <1>2, LockedType
<1>4. /\ Len(held) = Len(to) + 3 /\ Len(to) \in Nat
      /\ \A j \in 1 .. Len(to) + 3 :
           held[j] = IF j = 1 THEN Op("lock", g, 0)
                     ELSE IF j = Len(to) + 3 THEN Op("unlock", g, 0)
                     ELSE IF j = Len(to) + 2 THEN put ELSE to[j - 1]
  BY <1>1, HeldPutAt
<1>5. k \in DOMAIN ops
  BY <1>0
<1> HIDE DEF held
<1>6. Op("lock", g, 0).do = "lock" /\ Op("unlock", g, 0).do = "unlock"
  BY DEF Op
<1>7. \A j \in 1 .. Len(to) : to[j].do \in {"index", "hoist", "lock", "at", "unlock"}
  BY DEF Quiet
<1>8. ASSUME NEW j \in 1 .. Len(held)
      PROVE  \/ held[j].do \in {"index", "hoist", "lock", "at", "unlock"}
             \/ held[j].do = "put" /\ held[j].on = g /\ j = Len(held) - 1
  <2>1. CASE j = 1 \/ j = Len(to) + 3
    BY <1>4, <1>6, <1>8, <2>1
  <2>2. CASE j = Len(to) + 2
    BY <1>1, <1>4, <1>8, <2>2
  <2>3. CASE j # 1 /\ j # Len(to) + 3 /\ j # Len(to) + 2
    <3>1. held[j] = to[j - 1] /\ j - 1 \in 1 .. Len(to)
      BY <1>4, <1>8, <2>3
    <3> QED BY <1>7, <3>1
  <2> QED BY <2>1, <2>2, <2>3
<1>9. /\ Len(ops) = Len(first) + Len(held) /\ Len(held) \in Nat
      /\ k \in 1 .. Len(first) + Len(held)
      /\ ops[k] = IF k <= Len(first) THEN first[k] ELSE held[k - Len(first)]
  BY <1>3, <1>5, ConcatAt
<1> HIDE DEF ops
<1>10. CASE k <= Len(first)
  <2>1. first[k].do \in {"index", "hoist", "lock", "at", "unlock"} /\ k \in Nat
    BY <1>9, <1>10 DEF Quiet
  <2> QED BY <1>0, <1>9, <1>10, <2>1
<1>11. CASE ~(k <= Len(first))
  <2>1. k - Len(first) \in 1 .. Len(held) /\ k > 1
    BY <1>9, <1>11
  <2>2. k - Len(first) = Len(held) - 1 => k = Len(ops) - 1
    BY <1>9
  <2> QED BY <1>0, <1>8, <1>9, <1>11, <2>1, <2>2
<1> QED BY <1>10, <1>11

LEMMA AssignShape ==
  ASSUME NEW s, s.kind = "assign", s.ix \in Nat, s.at \in Nat, s.from \in Seq(Global),
         s.to[1] \in Global, Tail(s.to) \in Seq(Global),
         NEW k \in DOMAIN EmitAssign(s)
  PROVE  Shape(s, EmitAssign(s), k)
<1> DEFINE g == s.to[1]
           index == Op("index", NoGlobal, s.ix)
           hoist == Op("hoist", NoGlobal, s.at)
           from == Access(s.from)
           to == Access(Tail(s.to))
           first == <<index>> \o from \o <<hoist>>
           ops == AssignOps(first, g, to)
<1>1. /\ index \in OpType /\ index.do = "index"
      /\ hoist \in OpType /\ hoist.do = "hoist"
  BY DEF Op, OpType
<1>2. /\ from \in Seq(OpType) /\ Quiet(from)
      /\ to \in Seq(OpType) /\ Quiet(to)
  BY AccessType, AccessDoes DEF Quiet
<1>3. EmitAssign(s) = ops /\ g \in Global
  BY DEF EmitAssign, AssignOps
<1> HIDE DEF g, index, hoist, from, to
<1>4. /\ first \in Seq(OpType) /\ Quiet(first)
      /\ Len(first) \in Nat \ {0} /\ first[1] = index
  BY <1>1, <1>2, EvalQuiet
<1> HIDE DEF first
<1>5. k \in DOMAIN ops
  BY <1>3
<1>6. first[1].do = "index"
  BY <1>1, <1>4
<1>8. \/ /\ ops[k].do \in {"index", "hoist", "lock", "at", "unlock"}
         /\ ops[k].do = "at" => k > 1
      \/ ops[k].do = "put" /\ ops[k].on = g /\ k = Len(ops) - 1 /\ k > 1
  BY <1>2, <1>3, <1>4, <1>5, <1>6, AssignSteps
<1> HIDE DEF ops
<1>9. Shape(s, ops, k)
  BY <1>8 DEF Shape, Copies, Changes, WritesBack, g
<1> QED BY <1>3, <1>9

LEMMA Joined ==
  ASSUME NEW a \in Seq(OpType), NEW b \in Seq(OpType), NEW m, NEW n,
         Len(a) = m, Len(b) = n
  PROVE  /\ a \o b \in Seq(OpType) /\ Len(a \o b) = m + n
         /\ \A j \in 1 .. m + n : (a \o b)[j] = IF j <= m THEN a[j] ELSE b[j - m]
BY ConcatAt, ConcatType

LEMMA Held ==
  ASSUME NEW g \in Global, NEW o \in Seq(OpType), NEW n, Len(o) = n
  PROVE  /\ Locked(g, o) \in Seq(OpType) /\ Len(Locked(g, o)) = n + 2
         /\ \A j \in 1 .. n + 2 :
              Locked(g, o)[j] = IF j = 1 THEN Op("lock", g, 0)
                                ELSE IF j = n + 2 THEN Op("unlock", g, 0)
                                ELSE o[j - 1]
BY LockedAt, LockedType

LEMMA SetBitShape ==
  ASSUME NEW s, s.kind = "setbit", NEW g \in Global, s.to[1] = g, s.at \in Part,
         NEW k \in DOMAIN EmitSetBit(s)
  PROVE  Shape(s, EmitSetBit(s), k)
<1> DEFINE load == EachPart("load", g)
           store == EachPart("store", g)
           modify == Op("modify", g, s.at)
           change == load \o <<modify>>
           inner == change \o store
           ops == Locked(g, inner)
           N == LastPart + 1
<1>0. LastPart \in Nat /\ N \in Nat \ {0} /\ N = LastPart + 1
  BY BodyAssumption
<1> HIDE DEF N
<1>1. /\ load \in Seq(OpType) /\ Len(load) = N
      /\ store \in Seq(OpType) /\ Len(store) = N
      /\ modify \in OpType
      /\ modify.do = "modify" /\ modify.on = g /\ modify.part = s.at
      /\ \A j \in 1 .. N : load[j] = Op("load", g, j - 1)
      /\ \A j \in 1 .. N : store[j] = Op("store", g, j - 1)
  BY <1>0, EachPartType, EachPartAt DEF Op, OpType
<1>2. EmitSetBit(s) = ops
  BY DEF EmitSetBit
<1> HIDE DEF load, store, modify
<1>3. /\ change \in Seq(OpType) /\ Len(change) = N + 1
      /\ \A j \in 1 .. N : change[j] = load[j]
      /\ change[N + 1] = modify
  BY <1>0, <1>1
<1> HIDE DEF change
<1>4. /\ inner \in Seq(OpType) /\ Len(inner) = (N + 1) + N
      /\ \A j \in 1 .. (N + 1) + N :
           inner[j] = IF j <= N + 1 THEN change[j] ELSE store[j - (N + 1)]
  BY <1>1, <1>3, Joined
<1> HIDE DEF inner
<1>5. /\ ops \in Seq(OpType) /\ Len(ops) = ((N + 1) + N) + 2
      /\ \A j \in 1 .. ((N + 1) + N) + 2 :
           ops[j] = IF j = 1 THEN Op("lock", g, 0)
                    ELSE IF j = ((N + 1) + N) + 2 THEN Op("unlock", g, 0) ELSE inner[j - 1]
  BY <1>4, Held
<1>6. /\ k \in 1 .. 2 * N + 3 /\ ((N + 1) + N) + 2 = 2 * N + 3
      /\ Len(ops) = (LastPart + 4) + LastPart + 1
  BY <1>0, <1>2, <1>5
<1> HIDE DEF ops
<1>7. CASE k = 1 \/ k = 2 * N + 3
  <2>1. ops[k].do \in {"lock", "unlock"}
    BY <1>1, <1>5, <1>6, <1>7 DEF Op
  <2>2. ~(k \in 2 .. LastPart + 2) /\ k # LastPart + 3
        /\ ~(k \in LastPart + 4 .. LastPart + 4 + LastPart)
    BY <1>0, <1>6, <1>7
  <2> QED BY <1>2, <1>6, <2>1, <2>2
            DEF Shape, Copies, Changes, WritesBack, ChangeStep, FirstStore
<1>8. CASE k \in 2 .. N + 1
  <2>1. ops[k] = Op("load", g, k - 2)
    <3>1. ops[k] = inner[k - 1] /\ inner[k - 1] = change[k - 1]
          /\ change[k - 1] = load[k - 1]
      BY <1>0, <1>3, <1>4, <1>5, <1>8
    <3> QED BY <1>0, <1>1, <1>8, <3>1
  <2>2. k \in 2 .. LastPart + 2 /\ k # LastPart + 3
        /\ ~(k \in LastPart + 4 .. LastPart + 4 + LastPart)
    BY <1>0, <1>8
  <2> QED BY <1>2, <1>6, <2>1, <2>2
            DEF Shape, Copies, Changes, WritesBack, ChangeStep, FirstStore, Op
<1>9. CASE k = N + 2
  <2>1. ops[k] = modify
    <3>1. ops[k] = inner[N + 1] /\ inner[N + 1] = change[N + 1]
      BY <1>0, <1>4, <1>5, <1>9
    <3> QED BY <1>3, <3>1
  <2>2. ~(k \in 2 .. LastPart + 2) /\ k = LastPart + 3
        /\ ~(k \in LastPart + 4 .. LastPart + 4 + LastPart)
    BY <1>0, <1>9
  <2> QED BY <1>1, <1>2, <1>6, <2>1, <2>2
            DEF Shape, Copies, Changes, WritesBack, ChangeStep, FirstStore
<1>10. CASE k \in N + 3 .. 2 * N + 2
  <2>1. ops[k] = Op("store", g, k - (N + 3))
    <3>1. ops[k] = inner[k - 1] /\ inner[k - 1] = store[k - 1 - (N + 1)]
      BY <1>0, <1>4, <1>5, <1>10
    <3>2. k - 1 - (N + 1) \in 1 .. N /\ (k - 1 - (N + 1)) - 1 = k - (N + 3)
      BY <1>0, <1>10
    <3> QED BY <1>1, <3>1, <3>2
  <2>2. ~(k \in 2 .. LastPart + 2) /\ k # LastPart + 3
        /\ k \in LastPart + 4 .. LastPart + 4 + LastPart
        /\ N + 3 = LastPart + 4
    BY <1>0, <1>10
  <2> QED BY <1>1, <1>2, <1>6, <2>1, <2>2
            DEF Shape, Copies, Changes, WritesBack, ChangeStep, FirstStore, Op
<1>11. k = 1 \/ k = 2 * N + 3 \/ k \in 2 .. N + 1 \/ k = N + 2 \/ k \in N + 3 .. 2 * N + 2
  BY <1>0, <1>6
<1> QED BY <1>7, <1>8, <1>9, <1>10, <1>11

LEMMA InOutShape ==
  ASSUME NEW s, s.kind = "inout", NEW g \in Global, s.to[1] = g, s.at \in Part,
         NEW k \in DOMAIN EmitInOut(s)
  PROVE  Shape(s, EmitInOut(s), k)
<1> DEFINE load == EachPart("load", g)
           store == EachPart("store", g)
           modify == Op("modify", g, s.at)
           in == Locked(g, load)
           back == Locked(g, store)
           start == in \o <<modify>>
           ops == start \o back
           N == LastPart + 1
<1>0. LastPart \in Nat /\ N \in Nat \ {0} /\ N = LastPart + 1
  BY BodyAssumption
<1> HIDE DEF N
<1>1. /\ load \in Seq(OpType) /\ Len(load) = N
      /\ store \in Seq(OpType) /\ Len(store) = N
      /\ modify \in OpType
      /\ modify.do = "modify" /\ modify.on = g /\ modify.part = s.at
      /\ \A j \in 1 .. N : load[j] = Op("load", g, j - 1)
      /\ \A j \in 1 .. N : store[j] = Op("store", g, j - 1)
      /\ Op("lock", g, 0).do = "lock" /\ Op("unlock", g, 0).do = "unlock"
  BY <1>0, EachPartType, EachPartAt DEF Op, OpType
<1>2. EmitInOut(s) = ops
  BY DEF EmitInOut
<1> HIDE DEF load, store, modify
<1>3. /\ in \in Seq(OpType) /\ Len(in) = N + 2
      /\ \A j \in 1 .. N + 2 :
           in[j] = IF j = 1 THEN Op("lock", g, 0)
                   ELSE IF j = N + 2 THEN Op("unlock", g, 0) ELSE load[j - 1]
  BY <1>1, Held
<1>4. /\ back \in Seq(OpType) /\ Len(back) = N + 2
      /\ \A j \in 1 .. N + 2 :
           back[j] = IF j = 1 THEN Op("lock", g, 0)
                     ELSE IF j = N + 2 THEN Op("unlock", g, 0) ELSE store[j - 1]
  BY <1>1, Held
<1> HIDE DEF in, back
<1>5. /\ start \in Seq(OpType) /\ Len(start) = N + 3
      /\ \A j \in 1 .. N + 2 : start[j] = in[j]
      /\ start[N + 3] = modify
  BY <1>0, <1>1, <1>3
<1> HIDE DEF start
<1>6. /\ ops \in Seq(OpType) /\ Len(ops) = (N + 3) + (N + 2)
      /\ \A j \in 1 .. (N + 3) + (N + 2) :
           ops[j] = IF j <= N + 3 THEN start[j] ELSE back[j - (N + 3)]
  BY <1>4, <1>5, Joined
<1>7. /\ k \in 1 .. (N + 3) + (N + 2)
      /\ Len(ops) = (LastPart + 6) + LastPart + 1
  BY <1>0, <1>2, <1>6
<1> HIDE DEF ops
<1>8. CASE k \in {1, N + 2, N + 4, 2 * N + 5}
  <2>1. ops[k].do \in {"lock", "unlock"}
    <3>1. CASE k \in {1, N + 2}
      <4>1. ops[k] = in[k]
        BY <1>0, <1>5, <1>6, <1>7, <3>1
      <4> QED BY <1>0, <1>1, <1>3, <3>1, <4>1
    <3>2. CASE k \in {N + 4, 2 * N + 5}
      <4>1. ops[k] = back[k - (N + 3)] /\ k - (N + 3) \in {1, N + 2}
        BY <1>0, <1>6, <1>7, <3>2
      <4> QED BY <1>0, <1>1, <1>4, <4>1
    <3> QED BY <1>8, <3>1, <3>2
  <2>2. ~(k \in 2 .. LastPart + 2) /\ k # LastPart + 4
        /\ ~(k \in LastPart + 6 .. LastPart + 6 + LastPart)
    BY <1>0, <1>7, <1>8
  <2> QED BY <1>2, <1>7, <2>1, <2>2
            DEF Shape, Copies, Changes, WritesBack, ChangeStep, FirstStore
<1>9. CASE k \in 2 .. N + 1
  <2>1. ops[k] = Op("load", g, k - 2)
    <3>1. ops[k] = start[k] /\ start[k] = in[k] /\ in[k] = load[k - 1]
      BY <1>0, <1>3, <1>5, <1>6, <1>7, <1>9
    <3> QED BY <1>0, <1>1, <1>9, <3>1
  <2>2. k \in 2 .. LastPart + 2 /\ k # LastPart + 4
        /\ ~(k \in LastPart + 6 .. LastPart + 6 + LastPart)
    BY <1>0, <1>9
  <2> QED BY <1>2, <1>7, <2>1, <2>2
            DEF Shape, Copies, Changes, WritesBack, ChangeStep, FirstStore, Op
<1>10. CASE k = N + 3
  <2>1. ops[k] = modify
    BY <1>0, <1>5, <1>6, <1>7, <1>10
  <2>2. ~(k \in 2 .. LastPart + 2) /\ k = LastPart + 4
        /\ ~(k \in LastPart + 6 .. LastPart + 6 + LastPart)
    BY <1>0, <1>10
  <2> QED BY <1>1, <1>2, <1>7, <2>1, <2>2
            DEF Shape, Copies, Changes, WritesBack, ChangeStep, FirstStore
<1>11. CASE k \in N + 5 .. 2 * N + 4
  <2>1. ops[k] = Op("store", g, k - (N + 5))
    <3>1. ops[k] = back[k - (N + 3)]
      BY <1>0, <1>6, <1>7, <1>11
    <3>2. back[k - (N + 3)] = store[(k - (N + 3)) - 1]
      BY <1>0, <1>4, <1>11
    <3>3. (k - (N + 3)) - 1 \in 1 .. N /\ ((k - (N + 3)) - 1) - 1 = k - (N + 5)
      BY <1>0, <1>11
    <3> QED BY <1>1, <3>1, <3>2, <3>3
  <2>2. ~(k \in 2 .. LastPart + 2) /\ k # LastPart + 4
        /\ k \in LastPart + 6 .. LastPart + 6 + LastPart
        /\ N + 5 = LastPart + 6
    BY <1>0, <1>11
  <2> QED BY <1>2, <1>7, <2>1, <2>2
            DEF Shape, Copies, Changes, WritesBack, ChangeStep, FirstStore, Op
<1>12. \/ k \in {1, N + 2, N + 4, 2 * N + 5} \/ k \in 2 .. N + 1
       \/ k = N + 3 \/ k \in N + 5 .. 2 * N + 4
  BY <1>0, <1>7
<1> QED BY <1>8, <1>9, <1>10, <1>11, <1>12

LEMMA GetAllShape ==
  ASSUME NEW s, s.kind = "getall", NEW g \in Global, s.to[1] = g,
         NEW k \in DOMAIN EmitGetAll(s)
  PROVE  Shape(s, EmitGetAll(s), k)
<1> DEFINE load == EachPart("load", g)
           ops == Locked(g, load)
           N == LastPart + 1
<1>0. LastPart \in Nat /\ N \in Nat \ {0} /\ N = LastPart + 1
  BY BodyAssumption
<1> HIDE DEF N
<1>1. /\ load \in Seq(OpType) /\ Len(load) = N
      /\ \A j \in 1 .. N : load[j] = Op("load", g, j - 1)
      /\ Op("lock", g, 0).do = "lock" /\ Op("unlock", g, 0).do = "unlock"
  BY <1>0, EachPartType, EachPartAt DEF Op
<1>2. EmitGetAll(s) = ops
  BY DEF EmitGetAll
<1> HIDE DEF load
<1>3. /\ ops \in Seq(OpType) /\ Len(ops) = N + 2
      /\ \A j \in 1 .. N + 2 :
           ops[j] = IF j = 1 THEN Op("lock", g, 0)
                    ELSE IF j = N + 2 THEN Op("unlock", g, 0) ELSE load[j - 1]
  BY <1>1, Held
<1>4. k \in 1 .. N + 2 /\ Len(ops) = LastPart + 3
  BY <1>0, <1>2, <1>3
<1> HIDE DEF ops
<1>5. CASE k \in 2 .. N + 1
  <2>1. ops[k] = Op("load", g, k - 2)
    <3>1. ops[k] = load[k - 1]
      BY <1>0, <1>3, <1>4, <1>5
    <3> QED BY <1>0, <1>1, <1>5, <3>1
  <2>2. k \in 2 .. LastPart + 2
    BY <1>0, <1>5
  <2> QED BY <1>2, <1>4, <2>1, <2>2 DEF Shape, Copies, Changes, WritesBack, Op
<1>6. CASE k \in {1, N + 2}
  <2>1. ops[k].do \in {"lock", "unlock"} /\ ~(k \in 2 .. LastPart + 2)
    BY <1>0, <1>1, <1>3, <1>4, <1>6
  <2> QED BY <1>2, <1>4, <2>1 DEF Shape, Copies, Changes, WritesBack
<1>7. k \in 2 .. N + 1 \/ k \in {1, N + 2}
  BY <1>0, <1>4
<1> QED BY <1>5, <1>6, <1>7

LEMMA PutAllShape ==
  ASSUME NEW s, s.kind = "putall", NEW g \in Global, s.to[1] = g,
         NEW k \in DOMAIN EmitPutAll(s)
  PROVE  Shape(s, EmitPutAll(s), k)
<1> DEFINE store == EachPart("store", g)
           fill == <<Op("fill", g, 0)>>
           held == Locked(g, store)
           ops == fill \o held
           N == LastPart + 1
<1>0. LastPart \in Nat /\ N \in Nat \ {0} /\ N = LastPart + 1
  BY BodyAssumption
<1> HIDE DEF N
<1>1. /\ store \in Seq(OpType) /\ Len(store) = N
      /\ fill \in Seq(OpType) /\ Len(fill) = 1
      /\ fill[1].do = "fill" /\ fill[1].on = g
      /\ \A j \in 1 .. N : store[j] = Op("store", g, j - 1)
      /\ Op("lock", g, 0).do = "lock" /\ Op("unlock", g, 0).do = "unlock"
  <2>1. Op("fill", g, 0) \in OpType
    BY DEF Op, OpType
  <2> QED BY <1>0, <2>1, EachPartType, EachPartAt, SingleType DEF Op
<1>2. EmitPutAll(s) = ops
  BY DEF EmitPutAll
<1> HIDE DEF store, fill
<1>3. /\ held \in Seq(OpType) /\ Len(held) = N + 2
      /\ \A j \in 1 .. N + 2 :
           held[j] = IF j = 1 THEN Op("lock", g, 0)
                     ELSE IF j = N + 2 THEN Op("unlock", g, 0) ELSE store[j - 1]
  BY <1>1, Held
<1> HIDE DEF held
<1>4. /\ Len(ops) = N + 3 /\ DOMAIN ops = 1 .. N + 3
      /\ ops[1] = fill[1]
      /\ \A j \in 2 .. N + 3 : ops[j] = held[j - 1]
  <2>1. /\ Len(ops) = Len(fill) + Len(held)
        /\ DOMAIN ops = 1 .. Len(fill) + Len(held)
        /\ \A j \in 1 .. Len(fill) + Len(held) :
             ops[j] = IF j <= Len(fill) THEN fill[j] ELSE held[j - Len(fill)]
    BY <1>1, <1>3, ConcatAt
  <2>2. Len(fill) + Len(held) = N + 3 /\ Len(fill) = 1
    BY <1>0, <1>1, <1>3
  <2> HIDE DEF ops
  <2>3. ops[1] = fill[1]
    BY <1>0, <2>1, <2>2
  <2>4. ASSUME NEW j \in 2 .. N + 3 PROVE ops[j] = held[j - 1]
    BY <1>0, <2>1, <2>2
  <2> QED BY <2>1, <2>2, <2>3, <2>4
<1>5. k \in 1 .. N + 3 /\ Len(ops) = 3 + LastPart + 1
  BY <1>0, <1>2, <1>4
<1> HIDE DEF ops
<1>6. CASE k = 1
  <2>1. ops[k] = fill[1] /\ ~(k \in 3 .. 3 + LastPart)
    BY <1>0, <1>4, <1>5, <1>6
  <2> QED BY <1>1, <1>2, <1>5, <1>6, <2>1
            DEF Shape, Copies, Changes, WritesBack, ChangeStep, FirstStore
<1>7. CASE k \in {2, N + 3}
  <2>1. ops[k] = held[k - 1] /\ k - 1 \in {1, N + 2}
    BY <1>0, <1>4, <1>5, <1>7
  <2>2. ops[k].do \in {"lock", "unlock"}
    BY <1>0, <1>1, <1>3, <2>1
  <2>3. ~(k \in 3 .. 3 + LastPart) /\ k # 1
    BY <1>0, <1>7
  <2> QED BY <1>2, <1>5, <2>2, <2>3
            DEF Shape, Copies, Changes, WritesBack, ChangeStep, FirstStore
<1>8. CASE k \in 3 .. N + 2
  <2>1. ops[k] = Op("store", g, k - 3)
    <3>1. ops[k] = held[k - 1] /\ held[k - 1] = store[(k - 1) - 1]
      BY <1>0, <1>3, <1>4, <1>5, <1>8
    <3>2. (k - 1) - 1 \in 1 .. N /\ ((k - 1) - 1) - 1 = k - 3
      BY <1>0, <1>8
    <3> QED BY <1>1, <3>1, <3>2
  <2>2. k \in 3 .. 3 + LastPart /\ k # 1
    BY <1>0, <1>8
  <2> QED BY <1>2, <1>5, <2>1, <2>2
            DEF Shape, Copies, Changes, WritesBack, ChangeStep, FirstStore, Op
<1>9. k = 1 \/ k \in {2, N + 3} \/ k \in 3 .. N + 2
  BY <1>0, <1>5
<1> QED BY <1>6, <1>7, <1>8, <1>9

\* Every step of every statement has its shape.
LEMMA ScalarBitShape ==
  ASSUME NEW s, s.kind = "scalarbit", NEW g \in Global, s.to[1] = g,
         s.at \in Part, NEW k \in DOMAIN EmitScalarBit(s)
  PROVE  Shape(s, EmitScalarBit(s), k)
<1> DEFINE load == EachPart("load", g)
           modify == Op("modify", g, s.at)
           in == Locked(g, load)
           reads == in \o in
           ops == reads \o <<modify>>
           N == LastPart + 1
<1>0. LastPart \in Nat /\ N \in Nat \ {0} /\ N = LastPart + 1
  BY BodyAssumption
<1> HIDE DEF N
<1>1. /\ load \in Seq(OpType) /\ Len(load) = N
      /\ modify \in OpType
      /\ modify.do = "modify" /\ modify.on = g /\ modify.part = s.at
      /\ \A j \in 1 .. N : load[j] = Op("load", g, j - 1)
      /\ Op("lock", g, 0).do = "lock" /\ Op("unlock", g, 0).do = "unlock"
  BY <1>0, EachPartType, EachPartAt DEF Op, OpType
<1>2. EmitScalarBit(s) = ops
  BY DEF EmitScalarBit
<1> HIDE DEF load, modify
<1>3. /\ in \in Seq(OpType) /\ Len(in) = N + 2
      /\ \A j \in 1 .. N + 2 :
           in[j] = IF j = 1 THEN Op("lock", g, 0)
                   ELSE IF j = N + 2 THEN Op("unlock", g, 0) ELSE load[j - 1]
  BY <1>1, Held
<1> DEFINE Reads(op) == op.do \in {"lock", "unlock", "load"} /\ (op.do = "load" => op.on = g)
<1>4. \A j \in 1 .. N + 2 : Reads(in[j])
  <2> SUFFICES ASSUME NEW j \in 1 .. N + 2
               PROVE  Reads(in[j])
    OBVIOUS
  <2>1. j = 1 \/ j = N + 2 \/ j - 1 \in 1 .. N
    BY <1>0
  <2>2. \A i \in 1 .. N : load[i].do = "load" /\ load[i].on = g
    BY <1>1 DEF Op
  <2> QED BY <1>0, <1>1, <1>3, <2>1, <2>2
<1> HIDE DEF in, Reads
<1>5. /\ reads \in Seq(OpType) /\ Len(reads) = (N + 2) + (N + 2)
      /\ \A j \in 1 .. (N + 2) + (N + 2) :
           reads[j] = IF j <= N + 2 THEN in[j] ELSE in[j - (N + 2)]
  BY <1>3, Joined
<1>6. \A j \in 1 .. 2 * N + 4 : Reads(reads[j])
  <2> SUFFICES ASSUME NEW j \in 1 .. 2 * N + 4
               PROVE  Reads(reads[j])
    OBVIOUS
  <2>1. j \in 1 .. (N + 2) + (N + 2)
    BY <1>0
  <2>2. j <= N + 2 => j \in 1 .. N + 2
    BY <1>0
  <2>3. ~(j <= N + 2) => j - (N + 2) \in 1 .. N + 2
    BY <1>0, <2>1
  <2> QED BY <1>4, <1>5, <2>1, <2>2, <2>3
<1>7. Len(reads) = 2 * N + 4
  BY <1>0, <1>5
<1> HIDE DEF reads
<1>8. /\ DOMAIN ops = 1 .. 2 * N + 5
      /\ \A j \in 1 .. 2 * N + 4 : ops[j] = reads[j]
      /\ ops[2 * N + 5] = modify
  <2> DEFINE last == <<modify>>
             M == 2 * N + 4
  <2>1. last \in Seq(OpType) /\ Len(last) = 1 /\ last[1] = modify
    BY <1>1
  <2>2. M \in Nat /\ M = 2 * N + 4
    BY <1>0
  <2> HIDE DEF last, M
  <2>3. /\ reads \o last \in Seq(OpType) /\ Len(reads \o last) = M + 1
        /\ \A j \in 1 .. M + 1 :
             (reads \o last)[j] = IF j <= M THEN reads[j] ELSE last[j - M]
    <3>1. reads \in Seq(OpType) /\ Len(reads) = M
      BY <1>5, <1>7, <2>2
    <3> HIDE DEF ops
    <3>2. /\ Len(reads \o last) = Len(reads) + Len(last)
          /\ \A j \in 1 .. Len(reads) + Len(last) :
               (reads \o last)[j] = IF j <= Len(reads) THEN reads[j]
                                   ELSE last[j - Len(reads)]
      BY <2>1, <3>1, ConcatAt
    <3>3. reads \o last \in Seq(OpType)
      BY <2>1, <3>1, ConcatType
    <3> QED BY <2>1, <3>1, <3>2, <3>3
  <2>4. /\ DOMAIN (reads \o last) = 1 .. M + 1
        /\ \A j \in 1 .. M : (reads \o last)[j] = reads[j]
        /\ (reads \o last)[M + 1] = modify
    BY <2>1, <2>2, <2>3
  <2>5. M + 1 = 2 * N + 5
    BY <1>0, <2>2
  <2> QED BY <2>2, <2>4, <2>5 DEF last
<1> HIDE DEF ops
<1>9. 2 * N + 5 = 2 * LastPart + 7 /\ k \in 1 .. 2 * N + 5
  BY <1>0, <1>2, <1>8
<1>10. CASE k = 2 * N + 5
  <2>1. ops[k] = modify /\ k = 2 * LastPart + 7
    BY <1>8, <1>9, <1>10
  <2> QED BY <1>1, <1>2, <2>1 DEF Shape, Copies, Changes, WritesBack, ChangeStep
<1>11. CASE k # 2 * N + 5
  <2>1. k \in 1 .. 2 * N + 4 /\ k # 2 * LastPart + 7
    BY <1>0, <1>9, <1>11
  <2>2. Reads(ops[k])
    BY <1>6, <1>8, <2>1
  <2> QED BY <1>2, <2>1, <2>2
            DEF Shape, Copies, Changes, WritesBack, ChangeStep, Reads
<1> QED BY <1>10, <1>11

LEMMA CodeShape ==
  ASSUME NEW t \in Task, NEW n \in DOMAIN Body[t], NEW k \in DOMAIN Code[t][n]
  PROVE  Shape(Body[t][n], Code[t][n], k)
<1> DEFINE s == Body[t][n]
           ops == Code[t][n]
<1>1. /\ ops = Emit(s)
      /\ s.to \in Seq(Global) /\ s.from \in Seq(Global)
      /\ s.at \in Nat /\ s.ix \in Nat
      /\ s.kind \in Kinds
      /\ s.kind # "fetch" => s.to[1] \in Global /\ Tail(s.to) \in Seq(Global)
      /\ Changes(s) => s.at \in Part
  BY StatementType
<1>2. k \in DOMAIN ops
  OBVIOUS
<1> SUFFICES Shape(s, ops, k)
  OBVIOUS
<1> HIDE DEF s, ops
<1>3. CASE s.kind = "fetch"
  <2>1. ops = EmitFetch(s)
    BY <1>1, <1>3 DEF Emit
  <2> QED BY <1>1, <1>2, <1>3, <2>1, FetchShape
<1>4. CASE s.kind = "assign"
  <2>1. ops = EmitAssign(s)
    BY <1>1, <1>4 DEF Emit
  <2> QED BY <1>1, <1>2, <1>4, <2>1, AssignShape
<1>5. CASE s.kind = "setbit"
  <2>1. ops = EmitSetBit(s) /\ s.at \in Part
    BY <1>1, <1>5 DEF Emit, Changes
  <2> QED BY <1>1, <1>2, <1>5, <2>1, SetBitShape
<1>6. CASE s.kind = "inout"
  <2>1. ops = EmitInOut(s) /\ s.at \in Part
    BY <1>1, <1>6 DEF Emit, Changes
  <2> QED BY <1>1, <1>2, <1>6, <2>1, InOutShape
<1>7. CASE s.kind = "getall"
  <2>1. ops = EmitGetAll(s)
    BY <1>1, <1>7 DEF Emit
  <2> QED BY <1>1, <1>2, <1>7, <2>1, GetAllShape
<1>8. CASE s.kind = "putall"
  <2>1. ops = EmitPutAll(s)
    BY <1>1, <1>8 DEF Emit
  <2> QED BY <1>1, <1>2, <1>8, <2>1, PutAllShape
<1>9. CASE s.kind = "scalarbit"
  <2>1. ops = EmitScalarBit(s) /\ s.at \in Part
    BY <1>1, <1>9 DEF Emit, Changes
  <2> QED BY <1>1, <1>2, <1>9, <2>1, ScalarBitShape
<1> QED BY <1>1, <1>3, <1>4, <1>5, <1>6, <1>7, <1>8, <1>9 DEF Kinds

LEMMA HeldEnds ==
  ASSUME NEW g \in Global, NEW o \in Seq(OpType)
  PROVE  LET ops == Locked(g, o) IN Unlocks(ops[Len(ops)], g)
<1>1. Len(o) + 2 \in 1 .. Len(o) + 2 /\ Len(o) + 2 # 1
  OBVIOUS
<1>2. Len(Locked(g, o)) = Len(o) + 2 /\ Locked(g, o)[Len(o) + 2] = Op("unlock", g, 0)
  BY <1>1, LockedAt
<1> QED BY <1>2 DEF Unlocks, Op

LEMMA JoinedEnds ==
  ASSUME NEW g \in Global, NEW a \in Seq(OpType), NEW o \in Seq(OpType)
  PROVE  LET ops == a \o Locked(g, o) IN Unlocks(ops[Len(ops)], g)
<1> DEFINE b == Locked(g, o)
<1>1. b \in Seq(OpType) /\ b # <<>> /\ Unlocks(b[Len(b)], g)
  BY HeldEnds, LockedType
<1> HIDE DEF b
<1>2. (a \o b)[Len(a \o b)] = b[Len(b)]
  BY <1>1
<1> QED BY <1>1, <1>2 DEF b

\* A statement that writes a target ends with giving its mutex back.
LEMMA LastUnlocks ==
  ASSUME NEW t \in Task, NEW n \in DOMAIN Body[t],
         Body[t][n].kind \notin {"fetch", "scalarbit"}
  PROVE  LET ops == Code[t][n]
         IN  Unlocks(ops[Len(ops)], Body[t][n].to[1])
<1> DEFINE s == Body[t][n]
           g == s.to[1]
           load == EachPart("load", g)
           store == EachPart("store", g)
           to == Access(Tail(s.to))
<1>1. /\ Code[t][n] = Emit(s)
      /\ s.from \in Seq(Global) /\ s.at \in Nat /\ s.ix \in Nat
      /\ s.kind \in Kinds
      /\ g \in Global /\ Tail(s.to) \in Seq(Global)
      /\ Changes(s) => s.at \in Part
  BY StatementType
<1>2. /\ load \in Seq(OpType) /\ store \in Seq(OpType)
      /\ to \in Seq(OpType) /\ Access(s.from) \in Seq(OpType)
      /\ Op("put", g, 0) \in OpType /\ Op("fill", g, 0) \in OpType
      /\ Op("index", NoGlobal, s.ix) \in OpType /\ Op("hoist", NoGlobal, s.at) \in OpType
      /\ s.at \in Part => Op("modify", g, s.at) \in OpType
  BY <1>1, EachPartType, AccessType DEF Op, OpType
<1> DEFINE Ends(o) == Unlocks(o[Len(o)], g)
<1>3. ASSUME NEW o \in Seq(OpType)
      PROVE  Ends(Locked(g, o)) /\ Locked(g, o) \in Seq(OpType)
  BY <1>1, HeldEnds, LockedType
<1>4. ASSUME NEW a \in Seq(OpType), NEW o \in Seq(OpType)
      PROVE  Ends(a \o Locked(g, o))
  BY <1>1, JoinedEnds
<1> HIDE DEF s, g, load, store, to, Ends
<1> SUFFICES Ends(Emit(s))
  BY <1>1 DEF Ends, s, g
<1>5. CASE s.kind = "assign"
  <2> DEFINE first == <<Op("index", NoGlobal, s.ix)>> \o Access(s.from)
                      \o <<Op("hoist", NoGlobal, s.at)>>
  <2>1. first \in Seq(OpType) /\ to \o <<Op("put", g, 0)>> \in Seq(OpType)
    BY <1>2, SingleType, ConcatType
  <2>2. Emit(s) = first \o Locked(g, to \o <<Op("put", g, 0)>>)
    BY <1>5 DEF Emit, EmitAssign, g, to
  <2> HIDE DEF first
  <2> QED BY <1>4, <2>1, <2>2
<1>6. CASE s.kind = "setbit"
  <2> DEFINE inner == load \o <<Op("modify", g, s.at)>> \o store
  <2>1. s.at \in Part
    BY <1>1, <1>6 DEF Changes
  <2>2. inner \in Seq(OpType)
    BY <1>2, <2>1, SingleType, ConcatType
  <2>3. Emit(s) = Locked(g, inner)
    BY <1>6 DEF Emit, EmitSetBit, g, load, store
  <2> QED BY <1>3, <2>2, <2>3
<1>7. CASE s.kind = "inout"
  <2> DEFINE start == Locked(g, load) \o <<Op("modify", g, s.at)>>
  <2>1. s.at \in Part
    BY <1>1, <1>7 DEF Changes
  <2>2. start \in Seq(OpType)
    BY <1>2, <1>3, <2>1, SingleType, ConcatType
  <2>3. Emit(s) = start \o Locked(g, store)
    BY <1>7 DEF Emit, EmitInOut, g, load, store
  <2> HIDE DEF start
  <2> QED BY <1>2, <1>4, <2>2, <2>3
<1>8. CASE s.kind = "getall"
  <2>1. Emit(s) = Locked(g, load)
    BY <1>8 DEF Emit, EmitGetAll, g, load
  <2> QED BY <1>2, <1>3, <2>1
<1>9. CASE s.kind = "putall"
  <2>1. Emit(s) = <<Op("fill", g, 0)>> \o Locked(g, store)
    BY <1>9 DEF Emit, EmitPutAll, g, store
  <2>2. <<Op("fill", g, 0)>> \in Seq(OpType)
    BY <1>2, SingleType
  <2> QED BY <1>2, <1>4, <2>1, <2>2
<1> QED BY <1>1, <1>5, <1>6, <1>7, <1>8, <1>9 DEF s, Kinds

LEMMA HeldPutLast ==
  ASSUME NEW g \in Global, NEW to \in Seq(OpType), NEW put \in OpType
  PROVE  Locked(g, to \o <<put>>)[Len(to) + 2] = put
<1>1. /\ Len(to) \in Nat /\ Len(to) + 2 \in 1 .. Len(to) + 3
      /\ Len(to) + 2 # 1 /\ Len(to) + 2 # Len(to) + 3
  OBVIOUS
<1> QED BY <1>1, HeldPutAt

LEMMA AssignPuts ==
  ASSUME NEW t \in Task, NEW n \in DOMAIN Body[t], Body[t][n].kind = "assign"
  PROVE  LET ops == Code[t][n]
         IN  Len(ops) > 1 /\ ops[Len(ops) - 1].do = "put"
<1> DEFINE s == Body[t][n]
           g == s.to[1]
           put == Op("put", g, 0)
           from == Access(s.from)
           to == Access(Tail(s.to))
           first == <<Op("index", NoGlobal, s.ix)>> \o from
                    \o <<Op("hoist", NoGlobal, s.at)>>
           held == Locked(g, to \o <<put>>)
<1>1. /\ Code[t][n] = Emit(s) /\ s.kind = "assign"
      /\ s.from \in Seq(Global) /\ s.at \in Nat /\ s.ix \in Nat
      /\ g \in Global /\ Tail(s.to) \in Seq(Global)
  BY StatementType
<1>2. /\ to \in Seq(OpType) /\ from \in Seq(OpType)
      /\ put \in OpType /\ put.do = "put"
      /\ Op("index", NoGlobal, s.ix) \in OpType /\ Op("hoist", NoGlobal, s.at) \in OpType
  BY <1>1, AccessType DEF Op, OpType
<1>3. Code[t][n] = first \o held
  BY <1>1 DEF Emit, EmitAssign
<1> HIDE DEF s, g, put, from, to
<1>4. first \in Seq(OpType) /\ to \o <<put>> \in Seq(OpType)
  BY <1>2, SingleType, ConcatType
<1>5. /\ held \in Seq(OpType) /\ Len(held) = Len(to) + 3 /\ Len(to) \in Nat
      /\ held[Len(to) + 2] = put
  <2>1. Len(to) \in Nat
    BY <1>2
  <2>2. held \in Seq(OpType)
    BY <1>1, <1>4, LockedType
  <2>3. Len(held) = Len(to) + 3
    BY <1>1, <1>2, HeldPutAt
  <2>4. held[Len(to) + 2] = put
    BY <1>1, <1>2, HeldPutLast
  <2> QED BY <2>1, <2>2, <2>3, <2>4
<1> HIDE DEF first, held
<1>6. Len(first \o held) > 1 /\ (first \o held)[Len(first \o held) - 1] = put
  BY <1>4, <1>5
<1> QED BY <1>2, <1>3, <1>6

\* The last stretch of a statement, in which its target's mutex is held.
HeldFrom(s, ops) ==
  CASE s.kind \in {"setbit", "getall"} -> 2
    [] s.kind = "putall" -> 3
    [] s.kind = "inout"  -> LastPart + 6
    [] s.kind = "assign" -> Len(ops) - 1

LEMMA InsideBack ==
  ASSUME NEW ops, NEW g, NEW k \in Nat, NEW e \in Nat, k <= e, Inside(ops, e, g),
         \A j \in k .. e - 1 : ~Locks(ops[j], g)
  PROVE  Inside(ops, k, g)
<1>1. PICK i \in 1 .. e - 1 :
        Locks(ops[i], g) /\ \A j \in i + 1 .. e - 1 : ~Unlocks(ops[j], g)
  BY DEF Inside
<1>2. i \in 1 .. k - 1 /\ \A j \in i + 1 .. k - 1 : j \in i + 1 .. e - 1
  BY <1>1
<1> QED BY <1>1, <1>2 DEF Inside

LEMMA TargetHeld ==
  ASSUME NEW below, Permits(below), NEW t \in Task, NEW n \in DOMAIN Body[t],
         Body[t][n].kind \notin {"fetch", "scalarbit"},
         NEW k \in 1 .. Len(Code[t][n]), HeldFrom(Body[t][n], Code[t][n]) <= k
  PROVE  Inside(Code[t][n], k, Body[t][n].to[1])
<1> DEFINE s == Body[t][n]
           ops == Code[t][n]
           g == s.to[1]
           e == Len(ops)
<1>1. /\ ops \in Seq(OpType) /\ e \in Nat \ {0} /\ DOMAIN ops = 1 .. e
      /\ LastPart \in Nat
      /\ s.kind \in Kinds
      /\ s.kind \notin {"fetch", "scalarbit"} /\ HeldFrom(s, ops) <= k
  BY CodeType, StatementType, BodyAssumption
<1>2. Unlocks(ops[e], g)
  BY LastUnlocks
<1>3. Inside(ops, e, g)
  BY <1>1, <1>2, EmitNested DEF Nested, Unlocks
<1>4. ASSUME NEW j \in k .. e - 1
      PROVE  ~Locks(ops[j], g)
  <2>1. j \in DOMAIN ops /\ HeldFrom(s, ops) <= j /\ j <= e - 1 /\ j \in Nat
    <3>1. HeldFrom(s, ops) \in Int
      BY <1>1 DEF HeldFrom, Kinds
    <3> QED BY <1>1, <3>1
  <2>2. Shape(s, ops, j)
    BY <2>1, CodeShape
  <2> HIDE DEF s, ops, e, g
  <2>3. ops[j].do \in {"load", "modify", "store", "put"}
    <3>1. CASE s.kind = "setbit"
      <4>1. e = LastPart + 4 + LastPart + 1
        BY <2>2, <3>1 DEF Shape, WritesBack, FirstStore, e
      <4>2. \/ j \in 2 .. LastPart + 2 \/ j = LastPart + 3
            \/ j \in LastPart + 4 .. LastPart + 4 + LastPart
        BY <1>1, <2>1, <3>1, <4>1 DEF HeldFrom
      <4> QED BY <2>2, <3>1, <4>2
              DEF Shape, Copies, Changes, WritesBack, ChangeStep, FirstStore
    <3>2. CASE s.kind = "getall"
      <4>1. e = LastPart + 3
        BY <2>2, <3>2 DEF Shape, e
      <4>2. j \in 2 .. LastPart + 2
        BY <1>1, <2>1, <3>2, <4>1 DEF HeldFrom
      <4> QED BY <2>2, <3>2, <4>2 DEF Shape, Copies
    <3>3. CASE s.kind = "putall"
      <4>1. e = 3 + LastPart + 1
        BY <2>2, <3>3 DEF Shape, WritesBack, FirstStore, e
      <4>2. j \in 3 .. 3 + LastPart
        BY <1>1, <2>1, <3>3, <4>1 DEF HeldFrom
      <4> QED BY <2>2, <3>3, <4>2 DEF Shape, WritesBack, FirstStore
    <3>4. CASE s.kind = "inout"
      <4>1. e = LastPart + 6 + LastPart + 1
        BY <2>2, <3>4 DEF Shape, WritesBack, FirstStore, e
      <4>2. j \in LastPart + 6 .. LastPart + 6 + LastPart
        BY <1>1, <2>1, <3>4, <4>1 DEF HeldFrom
      <4> QED BY <2>2, <3>4, <4>2 DEF Shape, WritesBack, FirstStore
    <3>5. CASE s.kind = "assign"
      BY <1>1, <2>1, <3>5, AssignPuts DEF HeldFrom, e, s, ops
    <3> QED BY <1>1, <3>1, <3>2, <3>3, <3>4, <3>5 DEF Kinds
  <2> QED BY <2>3 DEF Locks
<1>5. k \in Nat /\ k <= e
  BY <1>1
<1> QED BY <1>1, <1>3, <1>4, <1>5, InsideBack
-----------------------------------------------------------------------------
(* Where a task is, and who may be at a write.                             *)

Stmt(t)   == Body[t][at[t].stmt]
Target(t) == Stmt(t).to[1]

LEMMA PlaceShape ==
  ASSUME TInv, NEW t \in Task
  PROVE  /\ at[t].stmt \in DOMAIN Body[t]
         /\ Ops(t) = Code[t][at[t].stmt]
         /\ Len(Ops(t)) \in Nat \ {0} /\ at[t].op \in 1 .. Len(Ops(t))
         /\ Coming(t) = Ops(t)[at[t].op]
         /\ Shape(Stmt(t), Ops(t), at[t].op)
         /\ LastPart \in Nat /\ Part = 0 .. LastPart
         /\ Stmt(t).kind \in Kinds
         /\ Stmt(t).kind # "fetch" => Target(t) \in Global
         /\ Changes(Stmt(t)) => Stmt(t).at \in Part
<1>1. /\ at[t].stmt \in DOMAIN Body[t] /\ Ops(t) = Code[t][at[t].stmt]
      /\ Ops(t) \in Seq(OpType) /\ at[t].op \in 1 .. Len(Ops(t))
      /\ Coming(t) = Ops(t)[at[t].op]
  BY OpsType DEF TInv, TypeOK, Ops
<1>2. DOMAIN Ops(t) = 1 .. Len(Ops(t)) /\ Len(Ops(t)) \in Nat \ {0}
  BY <1>1, CodeType
<1>3. Shape(Stmt(t), Ops(t), at[t].op)
  BY <1>1, <1>2, CodeShape DEF Stmt
<1> QED BY <1>1, <1>2, <1>3, StatementType, BodyAssumption DEF Stmt, Target, Part

\* A step either ends its statement, or goes on within it.
LEMMA AdvanceCases ==
  ASSUME TInv, NEW t \in Task, Advance(t)
  PROVE  /\ \A u \in Task \ {t} : at'[u] = at[u] /\ status'[u] = status[u]
         /\ status'[t] \in {"resting", status[t]}
         /\ \/ at[t].op = Len(Ops(t)) /\ at'[t].op = 1
            \/ /\ at[t].op < Len(Ops(t))
               /\ at'[t].stmt = at[t].stmt /\ at'[t].op = at[t].op + 1
<1>1. /\ at \in [Task -> [stmt : Nat, op : Nat]]
      /\ status \in [Task -> {"resting", "running", "faulted"}]
      /\ at[t].op \in 1 .. Len(Ops(t)) /\ Len(Ops(t)) \in Nat
  BY PlaceShape DEF TInv, TypeOK
<1>2. CASE at[t].op = Len(Ops(t)) /\ at[t].stmt = Len(Body[t])
  <2>1. at' = [at EXCEPT ![t] = Start] /\ status' = [status EXCEPT ![t] = "resting"]
    BY <1>2 DEF Advance
  <2> QED BY <1>1, <1>2, <2>1 DEF Start
<1>3. CASE at[t].op = Len(Ops(t)) /\ at[t].stmt # Len(Body[t])
  <2>1. at' = [at EXCEPT ![t] = [stmt |-> @.stmt + 1, op |-> 1]] /\ status' = status
    BY <1>1, <1>3 DEF Advance
  <2>2. at'[t] = [stmt |-> at[t].stmt + 1, op |-> 1]
    BY <1>1, <2>1
  <2> QED BY <1>1, <1>3, <2>1, <2>2
<1>4. CASE at[t].op # Len(Ops(t))
  <2>1. /\ at' = [at EXCEPT ![t] = [stmt |-> @.stmt, op |-> @.op + 1]]
        /\ status' = status
    BY <1>1, <1>4 DEF Advance
  <2>2. at'[t] = [stmt |-> at[t].stmt, op |-> at[t].op + 1]
    BY <1>1, <2>1
  <2> QED BY <1>1, <1>4, <2>1, <2>2
<1> QED BY <1>2, <1>3, <1>4

\* Only an access out of range stops a task.
FaultInv == \A t \in Task : status[t] = "faulted" => Coming(t).do \in {"at", "put"}

LEMMA FaultInvariant ==
  /\ Init => FaultInv
  /\ TInv /\ FaultInv /\ [Next]_vars => FaultInv'
<1>1. Init => FaultInv
  BY DEF Init, FaultInv
<1>2. ASSUME TInv, FaultInv, [Next]_vars
      PROVE  FaultInv'
  <2>0. status \in [Task -> {"resting", "running", "faulted"}]
    BY <1>2 DEF TInv, TypeOK
  <2>1. CASE UNCHANGED vars
    BY <1>2, <2>1 DEF vars, local, FaultInv, Coming, Ops
  <2>2. ASSUME NEW t \in Task, Activate(t)
        PROVE  FaultInv'
    BY <1>2, <2>0, <2>2 DEF Activate, local, FaultInv, Coming, Ops
  <2>3. ASSUME NEW t \in Task, Fault(t)
        PROVE  FaultInv'
    BY <1>2, <2>0, <2>3 DEF Fault, Throws, Doing, local, FaultInv, Coming, Ops
  <2>4. ASSUME NEW t \in Task, Advance(t), status[t] = "running"
        PROVE  FaultInv'
    <3>1. \A u \in Task \ {t} : at'[u] = at[u] /\ status'[u] = status[u]
      BY <1>2, <2>4, AdvanceCases
    <3>2. status'[t] # "faulted"
      BY <1>2, <2>4, AdvanceCases
    <3> QED BY <1>2, <3>1, <3>2 DEF FaultInv, Coming, Ops
  <2>5. ASSUME NEW t \in Task, Step(t)
        PROVE  FaultInv'
    <3>1. Fault(t) \/ (Advance(t) /\ status[t] = "running")
      BY <2>5 DEF Step, TakeLock, FreeLock, Index, Hoist, ReadAt, PutAt, Load,
                  Store, Modify, Fill, Doing
    <3> QED BY <2>3, <2>4, <3>1
  <2> QED BY <1>2, <2>1, <2>2, <2>5 DEF Next
<1> QED BY <1>1, <1>2

LEMMA BeyondFirstRuns ==
  ASSUME TInv, FaultInv, NEW t \in Task, at[t].op # 1,
         Stmt(t).kind \notin {"fetch", "assign"}
  PROVE  status[t] = "running"
<1>1. status[t] # "resting"
  BY DEF TInv, Start
<1>2. status[t] # "faulted"
  BY PlaceShape DEF FaultInv, Shape
<1> QED BY <1>1, <1>2 DEF TInv, TypeOK

LEMMA TargetIsHeld ==
  ASSUME NEW below, Permits(below), TInv, NEW t \in Task,
         status[t] = "running", Stmt(t).kind \notin {"fetch", "scalarbit"},
         HeldFrom(Stmt(t), Ops(t)) <= at[t].op
  PROVE  Holds(t, Target(t))
BY PlaceShape, TargetHeld DEF Holds, Stmt, Target

\* Who stores into a global holds its mutex.
LEMMA WriterHolds ==
  ASSUME NEW below, Permits(below), TInv, NEW t \in Task,
         status[t] = "running", Coming(t).do \in {"store", "put"}
  PROVE  Holds(t, Target(t)) /\ Coming(t).on = Target(t) /\ Target(t) \in Global
<1> DEFINE k == at[t].op
           s == Stmt(t)
           ops == Ops(t)
<1>1. /\ Shape(s, ops, k) /\ k \in 1 .. Len(ops) /\ Coming(t) = ops[k]
      /\ Len(ops) \in Nat /\ LastPart \in Nat
      /\ s.kind \in Kinds
      /\ s.kind # "fetch" => Target(t) \in Global
  BY PlaceShape
<1> HIDE DEF k, s, ops
<1>2. Coming(t).do = "store" =>
        /\ Coming(t).on = s.to[1] /\ s.kind \in {"setbit", "inout", "putall"}
        /\ FirstStore(s) <= k
  <2>1. ops[k].do = "store" => WritesBack(s) /\ k \in FirstStore(s) .. FirstStore(s) + LastPart
    BY <1>1 DEF Shape
  <2>2. WritesBack(s) => FirstStore(s) \in Nat
    BY <1>1 DEF WritesBack, FirstStore
  <2>3. ops[k].do = "store" => ops[k].on = s.to[1]
    BY <1>1 DEF Shape
  <2> QED BY <1>1, <2>1, <2>2, <2>3 DEF WritesBack
<1>3. Coming(t).do = "put" =>
        Coming(t).on = s.to[1] /\ s.kind = "assign" /\ k = Len(ops) - 1
  BY <1>1 DEF Shape
<1>4. Coming(t).on = s.to[1] /\ s.kind \notin {"fetch", "scalarbit"}
  BY <1>2, <1>3
<1>5. HeldFrom(s, ops) <= k
  BY <1>1, <1>2, <1>3 DEF HeldFrom, FirstStore
<1> QED BY <1>1, <1>4, <1>5, TargetIsHeld DEF k, s, ops, Target

\* Who is past the lock of a bit's write or of a copy holds the mutex.
LEMMA CopierHolds ==
  ASSUME NEW below, Permits(below), TInv, FaultInv, NEW t \in Task,
         Stmt(t).kind \in {"setbit", "getall"}, at[t].op > 1
  PROVE  Holds(t, Target(t)) /\ Target(t) \in Global
<1>1. status[t] = "running"
  BY BeyondFirstRuns
<1>2. HeldFrom(Stmt(t), Ops(t)) <= at[t].op
  BY PlaceShape DEF HeldFrom
<1> QED BY <1>1, <1>2, TargetIsHeld, PlaceShape

LEMMA HolderIsOne ==
  ASSUME HoldInv, NEW t \in Task, NEW u \in Task, NEW g \in Global,
         Holds(t, g), Holds(u, g)
  PROVE  t = u
BY DEF HoldInv
-----------------------------------------------------------------------------
(* What a step does to the globals, the copies and the history.            *)

Moves(t) ==
  \/ at[t].op = Len(Ops(t)) /\ at'[t].op = 1
  \/ /\ at[t].op < Len(Ops(t))
     /\ at'[t].stmt = at[t].stmt /\ at'[t].op = at[t].op + 1

\* A step that moves no data.
Silent(t) ==
  /\ UNCHANGED <<value, copy, meant>>
  /\ Coming(t).do \notin {"load", "store", "modify", "fill", "put"}

LEMMA StepCases ==
  ASSUME TInv, NEW t \in Task, Activate(t) \/ Step(t)
  PROVE  /\ \A u \in Task \ {t} : at'[u] = at[u]
         /\ \/ at' = at /\ UNCHANGED <<value, copy, meant>>
            \/ /\ Moves(t)
               /\ \/ Silent(t) \/ Load(t) \/ Store(t) \/ PutAt(t)
                  \/ \E v \in Val : Modify(t, v) \/ Fill(t, v)
<1>1. CASE Activate(t)
  BY <1>1 DEF Activate, local
<1>2. CASE Fault(t)
  BY <1>2 DEF Fault, local
<1>3. ASSUME Advance(t)
      PROVE  Moves(t) /\ \A u \in Task \ {t} : at'[u] = at[u]
  BY <1>3, AdvanceCases DEF Moves
<1>4. CASE TakeLock(t) \/ FreeLock(t) \/ Index(t) \/ Hoist(t) \/ ReadAt(t)
  <2>1. Silent(t) /\ Advance(t)
    BY <1>4 DEF TakeLock, FreeLock, Index, Hoist, ReadAt, Silent, Doing
  <2> QED BY <1>3, <2>1
<1>5. CASE Load(t) \/ Store(t) \/ PutAt(t) \/ \E v \in Val : Modify(t, v) \/ Fill(t, v)
  <2>1. Advance(t)
    BY <1>5 DEF Load, Store, PutAt, Modify, Fill
  <2> QED BY <1>3, <1>5, <2>1
<1> QED BY <1>1, <1>2, <1>4, <1>5 DEF Step

LEMMA LoadMoves ==
  ASSUME TInv, NEW t \in Task, Load(t)
  PROVE  /\ Stmt(t).kind # "scalarbit" =>
              /\ Copies(Stmt(t)) /\ at[t].op \in 2 .. LastPart + 2
              /\ copy' = [copy EXCEPT ![t][at[t].op - 2] =
                             value[Target(t)][at[t].op - 2]]
         /\ Stmt(t).kind = "scalarbit" \/ Copies(Stmt(t))
         /\ \A u \in Task \ {t} : copy'[u] = copy[u]
         /\ value' = value /\ meant' = meant
<1>1. copy' = [copy EXCEPT ![t][Coming(t).part] = value[Coming(t).on][Coming(t).part]]
      /\ value' = value /\ meant' = meant /\ Coming(t).do = "load"
  BY DEF Load, Doing
<1>2. copy \in [Task -> [Part -> Nat]]
  BY DEF TInv, TypeOK
<1>3. \A u \in Task \ {t} : copy'[u] = copy[u]
  BY <1>1, <1>2
<1>4. Stmt(t).kind # "scalarbit" =>
        /\ Copies(Stmt(t)) /\ at[t].op \in 2 .. LastPart + 2
        /\ Coming(t).on = Target(t) /\ Coming(t).part = at[t].op - 2
  BY <1>1, PlaceShape DEF Shape, Target
<1> QED BY <1>1, <1>3, <1>4

LEMMA StoreMoves ==
  ASSUME TInv, NEW t \in Task, Store(t)
  PROVE  /\ WritesBack(Stmt(t)) /\ Target(t) \in Global
         /\ at[t].op \in FirstStore(Stmt(t)) .. FirstStore(Stmt(t)) + LastPart
         /\ at[t].op - FirstStore(Stmt(t)) \in Part
         /\ at[t].op < Len(Ops(t))
         /\ value' = [value EXCEPT ![Target(t)][at[t].op - FirstStore(Stmt(t))] =
                         copy[t][at[t].op - FirstStore(Stmt(t))]]
         /\ copy' = copy /\ meant' = meant
<1> DEFINE k == at[t].op
           s == Stmt(t)
           ops == Ops(t)
<1>1. /\ Shape(s, ops, k) /\ k \in 1 .. Len(ops) /\ Coming(t) = ops[k]
      /\ Len(ops) \in Nat /\ LastPart \in Nat /\ Part = 0 .. LastPart
      /\ s.kind # "fetch" => Target(t) \in Global
  BY PlaceShape
<1>2. Target(t) = s.to[1] /\ ops[k].do = "store"
  BY <1>1 DEF Target, Store, Doing
<1>3. /\ value' = [value EXCEPT ![ops[k].on][ops[k].part] = copy[t][ops[k].part]]
      /\ copy' = copy /\ meant' = meant
  BY <1>1 DEF Store
<1> HIDE DEF k, s, ops
<1>4. /\ WritesBack(s) /\ k \in FirstStore(s) .. FirstStore(s) + LastPart
      /\ ops[k].on = s.to[1] /\ ops[k].part = k - FirstStore(s)
      /\ Len(ops) = FirstStore(s) + LastPart + 1
  BY <1>1, <1>2 DEF Shape
<1>5. FirstStore(s) \in Nat
  BY <1>1, <1>4 DEF FirstStore, WritesBack
<1>6. k - FirstStore(s) \in Part /\ k < Len(ops)
  BY <1>1, <1>4, <1>5
<1>7. Target(t) \in Global
  BY <1>1, <1>4 DEF WritesBack
<1> QED BY <1>2, <1>3, <1>4, <1>6, <1>7 DEF k, s, ops

LEMMA ModifyMoves ==
  ASSUME TInv, NEW t \in Task, NEW v \in Val, Modify(t, v)
  PROVE  /\ Changes(Stmt(t)) /\ at[t].op = ChangeStep(Stmt(t))
         /\ Target(t) \in Global /\ Stmt(t).at \in Part
         /\ copy' = [copy EXCEPT ![t][Stmt(t).at] = v]
         /\ meant' = [meant EXCEPT ![Target(t)][Stmt(t).at] = v]
         /\ value' = value
BY PlaceShape DEF Modify, Doing, Shape, Target, Changes

LEMMA FillMoves ==
  ASSUME TInv, NEW t \in Task, NEW v \in Val, Fill(t, v)
  PROVE  /\ Stmt(t).kind = "putall" /\ at[t].op = 1 /\ Target(t) \in Global
         /\ copy' = [copy EXCEPT ![t] = [p \in Part |-> v]]
         /\ meant' = [meant EXCEPT ![Target(t)] = [p \in Part |-> v]]
         /\ value' = value
BY PlaceShape DEF Fill, Doing, Shape, Target

LEMMA PutMoves ==
  ASSUME TInv, NEW t \in Task, PutAt(t)
  PROVE  /\ Stmt(t).kind = "assign" /\ Target(t) \in Global /\ sub[t] \in Part
         /\ value' = [value EXCEPT ![Target(t)][sub[t]] = tmp[t]]
         /\ meant' = [meant EXCEPT ![Target(t)][sub[t]] = tmp[t]]
         /\ copy' = copy
BY PlaceShape DEF PutAt, Doing, Shape, Target

\* A silent step leaves the copy as far as it was.
LEMMA SilentStays ==
  ASSUME TInv, NEW t \in Task, Silent(t)
  PROVE  /\ value' = value /\ copy' = copy /\ meant' = meant
         /\ Copies(Stmt(t)) => at[t].op \notin 2 .. LastPart + 2
         /\ Changes(Stmt(t)) => at[t].op # ChangeStep(Stmt(t))
         /\ Stmt(t).kind = "putall" => at[t].op # 1
         /\ WritesBack(Stmt(t)) =>
              at[t].op \notin FirstStore(Stmt(t)) .. FirstStore(Stmt(t)) + LastPart
BY PlaceShape DEF Silent, Shape

LEMMA OthersCopy ==
  ASSUME TInv, NEW t \in Task, Activate(t) \/ Step(t), NEW u \in Task \ {t}
  PROVE  copy'[u] = copy[u]
<1>1. copy \in [Task -> [Part -> Nat]]
  BY DEF TInv, TypeOK
<1>2. CASE copy' = copy
  BY <1>2
<1>3. CASE Load(t)
  BY <1>1, <1>3, LoadMoves
<1>4. ASSUME NEW v \in Val, Modify(t, v) \/ Fill(t, v)
      PROVE  copy'[u] = copy[u]
  BY <1>1, <1>4, ModifyMoves, FillMoves
<1> QED BY <1>2, <1>3, <1>4, StepCases, StoreMoves, PutMoves, SilentStays
-----------------------------------------------------------------------------
(* Writes of different tasks to different parts survive.                    *)

\* Only t assigns to g, so nobody writes g while t's block runs on its copy.
OnlyWriter(t, g) == \A u \in Task \ {t}, q \in Part : ~WritesPart(u, g, q)

InOutUnshared ==
  \A t \in Task : \A n \in DOMAIN Body[t] :
    Body[t][n].kind = "inout" => OnlyWriter(t, Body[t][n].to[1])

\* t's copy of part q is no longer what it loaded.
Changed(t, q) ==
  Changes(Stmt(t)) /\ q = Stmt(t).at /\ at[t].op > ChangeStep(Stmt(t))

\* t's copy cannot go stale: it is made and written back under one lock, or
\* nobody else writes the global.
Alone(t) ==
  Copies(Stmt(t)) /\ (Stmt(t).kind = "inout" => OnlyWriter(t, Target(t)))

\* What has been loaded is still there: a write of the whole copy changes
\* the one part that was changed in it.
CopyOK(t) ==
  Alone(t) =>
    \A q \in Part : at[t].op > q + 2 /\ ~Changed(t, q)
                      => copy[t][q] = value[Target(t)][q]

CopyInv == \A t \in Task : CopyOK(t)

LEMMA WritesOwn ==
  ASSUME TInv, NEW t \in Task
  PROVE  /\ Changes(Stmt(t)) => WritesPart(t, Target(t), Stmt(t).at)
         /\ Stmt(t).kind \in {"putall", "assign"} =>
              \A p \in Part : WritesPart(t, Target(t), p)
<1>1. Stmt(t) = Body[t][at[t].stmt] /\ at[t].stmt \in DOMAIN Body[t]
  BY PlaceShape DEF Stmt
<1> QED BY <1>1 DEF WritesPart, Target, Changes, BitWrites

LEMMA UnsharedAlone ==
  ASSUME InOutUnshared, TInv, NEW t \in Task, Changes(Stmt(t)), WritesBack(Stmt(t))
  PROVE  Alone(t)
BY PlaceShape DEF InOutUnshared, Alone, Copies, Changes, WritesBack, Stmt, Target

\* Nobody else writes the global that a task is copying.
LEMMA CopyKept ==
  ASSUME NEW below, Permits(below), TInv, HoldInv, FaultInv,
         NEW u \in Task, Alone(u), at[u].op > 1,
         NEW t \in Task \ {u}, Store(t) \/ PutAt(t)
  PROVE  Target(t) # Target(u)
<1> SUFFICES ASSUME Target(t) = Target(u)
             PROVE  FALSE
  OBVIOUS
<1>1. Holds(t, Target(t)) /\ Target(t) \in Global
  BY WriterHolds DEF Store, PutAt, Doing
<1>2. Copies(Stmt(u)) /\ Stmt(u).kind \notin {"setbit", "getall"}
  BY <1>1, CopierHolds, HolderIsOne DEF Alone
<1>3. OnlyWriter(u, Target(t))
  BY <1>2 DEF Copies, Alone
<1>4. Changes(Stmt(t)) \/ Stmt(t).kind \in {"putall", "assign"}
  BY StoreMoves, PutMoves DEF WritesBack, Changes
<1>5. 0 \in Part /\ (Changes(Stmt(t)) => Stmt(t).at \in Part)
  BY PlaceShape
<1>6. \E p \in Part : WritesPart(t, Target(t), p)
  BY <1>4, <1>5, WritesOwn
<1> QED BY <1>3, <1>6 DEF OnlyWriter

LEMMA CopyInvariant ==
  ASSUME NEW below, Permits(below)
  PROVE  /\ Init => CopyInv
         /\ TInv /\ HoldInv /\ FaultInv /\ CopyInv /\ [Next]_vars => CopyInv'
<1>0. LastPart \in Nat /\ Part = 0 .. LastPart
  BY BodyAssumption DEF Part
<1>1. Init => CopyInv
  <2> SUFFICES ASSUME Init, NEW t \in Task, NEW q \in Part
               PROVE  ~(at[t].op > q + 2)
    BY DEF CopyInv, CopyOK
  <2>1. at[t].op = 1
    BY DEF Init, Start
  <2> QED BY <1>0, <2>1
<1>2. ASSUME TInv, HoldInv, FaultInv, CopyInv, [Next]_vars, NEW u \in Task
      PROVE  CopyOK(u)'
  <2>0. /\ copy \in [Task -> [Part -> Nat]] /\ value \in [Global -> [Part -> Nat]]
        /\ at[u].op \in Nat /\ CopyOK(u)
    BY <1>2 DEF TInv, TypeOK, CopyInv
  <2>1. ASSUME at'[u] = at[u], copy'[u] = copy[u],
               Alone(u) /\ at[u].op > 1 => value'[Target(u)] = value[Target(u)]
        PROVE  CopyOK(u)'
    <3>1. Stmt(u)' = Stmt(u) /\ Target(u)' = Target(u)
      BY <2>1 DEF Stmt, Target
    <3> SUFFICES ASSUME Alone(u), NEW q \in Part, at[u].op > q + 2, ~Changed(u, q)
                 PROVE  copy'[u][q] = value'[Target(u)][q]
      BY <2>1, <3>1 DEF CopyOK, Alone, Changed
    <3>2. at[u].op > 1
      BY <1>0, <2>0
    <3> QED BY <2>0, <2>1, <3>2 DEF CopyOK
  <2>2. CASE UNCHANGED vars
    BY <2>1, <2>2 DEF vars, local
  <2>3. ASSUME NEW t \in Task \ {u}, Activate(t) \/ Step(t)
        PROVE  CopyOK(u)'
    <3>1. at'[u] = at[u]
      BY <1>2, <2>3, StepCases
    <3>2. copy'[u] = copy[u]
      BY <1>2, <2>3, OthersCopy
    <3>3. ASSUME Alone(u), at[u].op > 1
          PROVE  value'[Target(u)] = value[Target(u)]
      <4>1. CASE value' = value
        BY <4>1
      <4>2. CASE Store(t) \/ PutAt(t)
        <5>1. Target(t) # Target(u)
          BY <1>2, <2>3, <3>3, <4>2, CopyKept
        <5>2. Target(u) \in Global
          BY <1>2, <3>3, PlaceShape DEF Alone, Copies
        <5>3. \A g \in Global \ {Target(t)} : value'[g] = value[g]
          BY <1>2, <2>0, <2>3, <4>2, StoreMoves, PutMoves
        <5> QED BY <5>1, <5>2, <5>3
      <4> QED BY <1>2, <2>3, <4>1, <4>2, StepCases, LoadMoves, ModifyMoves, FillMoves,
                 SilentStays
    <3> QED BY <2>1, <3>1, <3>2, <3>3
  <2>4. ASSUME Activate(u) \/ Step(u)
        PROVE  CopyOK(u)'
    <3>1. CASE at' = at /\ UNCHANGED <<value, copy, meant>>
      BY <2>1, <3>1
    <3>2. CASE at'[u].op = 1
      <4>1. \A q \in Part : ~(at'[u].op > q + 2)
        BY <1>0, <3>2
      <4> QED BY <4>1 DEF CopyOK
    <3>3. ASSUME at'[u].stmt = at[u].stmt, at'[u].op = at[u].op + 1,
                 \/ Silent(u) \/ Load(u) \/ Store(u) \/ PutAt(u)
                 \/ \E v \in Val : Modify(u, v) \/ Fill(u, v)
          PROVE  CopyOK(u)'
      <4>1. Stmt(u)' = Stmt(u) /\ Target(u)' = Target(u)
        BY <3>3 DEF Stmt, Target
      <4> SUFFICES ASSUME Alone(u), NEW q \in Part, at[u].op + 1 > q + 2,
                          ~(Changes(Stmt(u)) /\ q = Stmt(u).at
                              /\ at[u].op + 1 > ChangeStep(Stmt(u)))
                   PROVE  copy'[u][q] = value'[Target(u)][q]
        BY <3>3, <4>1 DEF CopyOK, Alone, Changed
      <4>2. Changes(Stmt(u)) =>
              ChangeStep(Stmt(u)) \in Nat /\ ChangeStep(Stmt(u)) > LastPart + 2
        BY <1>0 DEF Changes, ChangeStep
      <4>3. ~Changed(u, q)
        BY <2>0, <4>2 DEF Changed
      <4>4. at[u].op # q + 2 => copy[u][q] = value[Target(u)][q]
        <5>1. at[u].op # q + 2 => at[u].op > q + 2
          BY <1>0, <2>0
        <5> QED BY <2>0, <4>3, <5>1 DEF CopyOK
      <4>5. Target(u) \in Global
        BY <1>2, PlaceShape DEF Alone, Copies
      <4>6. CASE Silent(u)
        <5>1. at[u].op # q + 2
          BY <1>0, <1>2, <4>6, SilentStays DEF Alone
        <5> QED BY <1>2, <4>4, <4>6, <5>1, SilentStays
      <4>7. CASE Load(u)
        <5>1. copy' = [copy EXCEPT ![u][at[u].op - 2] = value[Target(u)][at[u].op - 2]]
              /\ value' = value /\ at[u].op - 2 \in Part
          BY <1>0, <1>2, <4>7, LoadMoves DEF Alone, Copies
        <5>2. CASE at[u].op = q + 2
          <6>1. at[u].op - 2 = q
            BY <1>0, <5>2
          <6> QED BY <2>0, <5>1, <6>1
        <5>3. CASE at[u].op # q + 2
          <6>1. at[u].op - 2 # q
            BY <1>0, <2>0, <5>3
          <6> QED BY <2>0, <4>4, <5>1, <5>3, <6>1
        <5> QED BY <5>2, <5>3
      <4>8. CASE Store(u)
        <5>1. /\ copy' = copy
              /\ value' = [value EXCEPT ![Target(u)][at[u].op - FirstStore(Stmt(u))] =
                              copy[u][at[u].op - FirstStore(Stmt(u))]]
          BY <1>2, <4>8, StoreMoves
        <5>2. at[u].op # q + 2
          <6>1. at[u].op >= FirstStore(Stmt(u)) /\ WritesBack(Stmt(u))
            BY <1>0, <1>2, <4>8, StoreMoves DEF FirstStore, WritesBack
          <6>2. FirstStore(Stmt(u)) \in Nat /\ FirstStore(Stmt(u)) > LastPart + 2
            BY <1>0, <6>1 DEF FirstStore, WritesBack, Alone, Copies
          <6> QED BY <1>0, <2>0, <6>1, <6>2
        <5> QED BY <2>0, <4>4, <4>5, <5>1, <5>2
      <4>9. ASSUME NEW v \in Val, Modify(u, v)
            PROVE  copy'[u][q] = value'[Target(u)][q]
        <5>1. /\ copy' = [copy EXCEPT ![u][Stmt(u).at] = v] /\ value' = value
              /\ Changes(Stmt(u)) /\ at[u].op = ChangeStep(Stmt(u))
          BY <1>2, <4>9, ModifyMoves
        <5>2. q # Stmt(u).at
          BY <4>2, <5>1
        <5>3. at[u].op # q + 2
          BY <1>0, <4>2, <5>1
        <5> QED BY <2>0, <4>4, <5>1, <5>2, <5>3
      <4>10. ~PutAt(u) /\ \A v \in Val : ~Fill(u, v)
        BY <1>2, PutMoves, FillMoves DEF Alone, Copies
      <4> QED BY <3>3, <4>6, <4>7, <4>8, <4>9, <4>10
    <3> QED BY <1>2, <2>4, <3>1, <3>2, <3>3, StepCases DEF Moves
  <2> QED BY <1>2, <2>2, <2>3, <2>4 DEF Next
<1>3. CopyInv' <=> \A u \in Task : CopyOK(u)'
  BY DEF CopyInv
<1> QED BY <1>1, <1>2, <1>3

LEMMA NextTo ==
  ASSUME NEW k \in Nat, NEW c \in Nat, k # c
  PROVE  (k > c <=> k >= c) /\ (k <= c <=> k < c)
OBVIOUS

\* t has said what part p of g is to be, and has still to store it.
Pending(t, g, p) ==
  /\ WritesBack(Stmt(t)) /\ Target(t) = g
  /\ Stmt(t).kind = "putall" \/ p = Stmt(t).at
  /\ at[t].op > ChangeStep(Stmt(t)) /\ at[t].op <= FirstStore(Stmt(t)) + p

\* What was meant for a part is there, or in the copy of its one writer.
FieldOK(t, g, p) ==
  meant[g][p] = IF Pending(t, g, p) THEN copy[t][p] ELSE value[g][p]

FieldInv == \A w \in SoleWriter : FieldOK(w[1], w[2], w[3])

SoleWrites(t, g, p) ==
  /\ WritesPart(t, g, p) /\ ~LosesBit(t, g, p)
  /\ \A u \in Task \ {t} : ~WritesPart(u, g, p)

LEMMA SoleWriterIs ==
  /\ \A w \in SoleWriter :
       /\ w[1] \in Task /\ w[2] \in Global /\ w[3] \in Part
       /\ SoleWrites(w[1], w[2], w[3])
  /\ \A t \in Task, g \in Global, p \in Part :
       SoleWrites(t, g, p) => <<t, g, p>> \in SoleWriter
BY Zenon DEF SoleWriter, SoleWrites

LEMMA BitLost ==
  ASSUME TInv, NEW t \in Task, Stmt(t).kind = "scalarbit"
  PROVE  LosesBit(t, Target(t), Stmt(t).at)
BY PlaceShape DEF LosesBit, Stmt, Target

\* A step of another task leaves a part and its history alone.
LEMMA OthersSpare ==
  ASSUME InOutUnshared, TInv, CopyInv, NEW u \in Task, NEW g \in Global,
         NEW p \in Part, SoleWrites(u, g, p),
         NEW t \in Task \ {u}, Activate(t) \/ Step(t)
  PROVE  value'[g][p] = value[g][p] /\ meant'[g][p] = meant[g][p]
<1>0. /\ value \in [Global -> [Part -> Nat]] /\ meant \in [Global -> [Part -> Nat]]
      /\ ~WritesPart(t, g, p) /\ at[t].op \in Nat
      /\ LastPart \in Nat /\ p \in Nat /\ p <= LastPart
  <2>1. value \in [Global -> [Part -> Nat]] /\ meant \in [Global -> [Part -> Nat]]
    BY DEF TInv, TypeOK
  <2>2. at[t].op \in Nat
    BY PlaceShape
  <2>3. LastPart \in Nat /\ p \in Nat /\ p <= LastPart
    BY BodyAssumption DEF Part
  <2> QED BY <2>1, <2>2, <2>3 DEF SoleWrites
<1>1. CASE Store(t)
  <2> DEFINE q == at[t].op - FirstStore(Stmt(t))
  <2>1. /\ value' = [value EXCEPT ![Target(t)][q] = copy[t][q]] /\ meant' = meant
        /\ WritesBack(Stmt(t)) /\ q \in Part /\ Target(t) \in Global
        /\ at[t].op \in FirstStore(Stmt(t)) .. FirstStore(Stmt(t)) + LastPart
    BY <1>1, StoreMoves
  <2>2. CASE Target(t) # g \/ q # p
    BY <1>0, <2>1, <2>2
  <2>3. CASE Target(t) = g /\ q = p
    <3>1. Changes(Stmt(t)) /\ p # Stmt(t).at
      BY <1>0, <2>1, <2>3, WritesOwn DEF WritesBack, Changes
    <3>2. Alone(t) /\ ~Changed(t, p)
      BY <2>1, <3>1, UnsharedAlone DEF Changed
    <3>3. at[t].op > p + 2
      <4>1. FirstStore(Stmt(t)) \in Nat /\ FirstStore(Stmt(t)) > LastPart + 2
        BY <1>0, <2>1, <3>1 DEF FirstStore, Changes, WritesBack
      <4>2. at[t].op >= FirstStore(Stmt(t))
        BY <1>0, <2>1, <4>1
      <4> HIDE DEF q
      <4> QED BY <1>0, <4>1, <4>2
    <3>4. copy[t][p] = value[g][p]
      BY <1>0, <2>3, <3>2, <3>3 DEF CopyInv, CopyOK
    <3> QED BY <1>0, <2>1, <2>3, <3>4
  <2> QED BY <2>2, <2>3
<1>2. CASE PutAt(t)
  <2>1. Target(t) # g
    BY <1>0, <1>2, PutMoves, WritesOwn
  <2>2. /\ value' = [value EXCEPT ![Target(t)][sub[t]] = tmp[t]]
        /\ meant' = [meant EXCEPT ![Target(t)][sub[t]] = tmp[t]]
    BY <1>2, PutMoves
  <2> QED BY <1>0, <2>1, <2>2
<1>3. ASSUME NEW v \in Val, Modify(t, v)
      PROVE  value'[g][p] = value[g][p] /\ meant'[g][p] = meant[g][p]
  <2>1. Target(t) # g \/ Stmt(t).at # p
    BY <1>0, <1>3, ModifyMoves, WritesOwn
  <2>2. meant' = [meant EXCEPT ![Target(t)][Stmt(t).at] = v] /\ value' = value
    BY <1>3, ModifyMoves
  <2> QED BY <1>0, <2>1, <2>2
<1>4. ASSUME NEW v \in Val, Fill(t, v)
      PROVE  value'[g][p] = value[g][p] /\ meant'[g][p] = meant[g][p]
  <2>1. Target(t) # g
    BY <1>0, <1>4, FillMoves, WritesOwn
  <2>2. meant' = [meant EXCEPT ![Target(t)] = [q \in Part |-> v]] /\ value' = value
    BY <1>4, FillMoves
  <2> QED BY <1>0, <2>1, <2>2
<1> QED BY <1>1, <1>2, <1>3, <1>4, StepCases, LoadMoves, SilentStays

LEMMA FieldInvariant ==
  ASSUME InOutUnshared
  PROVE  /\ Init => FieldInv
         /\ TInv /\ CopyInv /\ FieldInv /\ [Next]_vars => FieldInv'
<1>0. LastPart \in Nat /\ Part = 0 .. LastPart
  BY BodyAssumption DEF Part
<1>1. FieldInv <=> \A t \in Task, g \in Global, p \in Part :
                     SoleWrites(t, g, p) => FieldOK(t, g, p)
  <2>1. ASSUME FieldInv, NEW t \in Task, NEW g \in Global, NEW p \in Part,
               SoleWrites(t, g, p)
        PROVE  FieldOK(t, g, p)
    <3>1. <<t, g, p>> \in SoleWriter
      BY <2>1, SoleWriterIs
    <3>2. FieldOK(<<t, g, p>>[1], <<t, g, p>>[2], <<t, g, p>>[3])
      BY <2>1, <3>1 DEF FieldInv
    <3> QED BY <3>2
  <2> QED BY <2>1, SoleWriterIs DEF FieldInv
<1>2. ASSUME \A t \in Task, g \in Global, p \in Part :
               SoleWrites(t, g, p) => FieldOK(t, g, p)'
      PROVE  FieldInv'
  BY <1>2, SoleWriterIs DEF FieldInv
<1>3. Init => FieldInv
  <2> SUFFICES ASSUME Init, NEW t \in Task, NEW g \in Global, NEW p \in Part
               PROVE  FieldOK(t, g, p)
    BY <1>1
  <2>1. meant = value /\ at[t].op = 1
    BY DEF Init, Start
  <2>2. ~Pending(t, g, p)
    BY <1>0, <2>1 DEF Pending, WritesBack, ChangeStep
  <2> QED BY <2>1, <2>2 DEF FieldOK
<1>4. ASSUME TInv, CopyInv, FieldInv, [Next]_vars,
             NEW u \in Task, NEW g \in Global, NEW p \in Part, SoleWrites(u, g, p)
      PROVE  FieldOK(u, g, p)'
  <2>0. /\ copy \in [Task -> [Part -> Nat]] /\ value \in [Global -> [Part -> Nat]]
        /\ meant \in [Global -> [Part -> Nat]] /\ at[u].op \in Nat \ {0}
        /\ p \in Nat /\ p <= LastPart /\ FieldOK(u, g, p)
    <3>1. FieldOK(u, g, p)
      BY <1>1, <1>4
    <3>2. at[u].op \in Nat \ {0}
      BY <1>4, PlaceShape
    <3>3. /\ copy \in [Task -> [Part -> Nat]] /\ value \in [Global -> [Part -> Nat]]
          /\ meant \in [Global -> [Part -> Nat]]
      BY <1>4 DEF TInv, TypeOK
    <3>4. p \in Nat /\ p <= LastPart
      BY <1>0
    <3> QED BY <3>1, <3>2, <3>3, <3>4
  <2>1. ASSUME at'[u] = at[u], copy'[u] = copy[u],
               value'[g][p] = value[g][p], meant'[g][p] = meant[g][p]
        PROVE  FieldOK(u, g, p)'
    <3>1. Pending(u, g, p)' = Pending(u, g, p)
      BY <2>1 DEF Pending, Stmt, Target
    <3> QED BY <2>0, <2>1, <3>1 DEF FieldOK
  <2>2. CASE UNCHANGED vars
    BY <2>1, <2>2 DEF vars, local
  <2>3. ASSUME NEW t \in Task \ {u}, Activate(t) \/ Step(t)
        PROVE  FieldOK(u, g, p)'
    <3>1. at'[u] = at[u]
      BY <1>4, <2>0, <2>3, StepCases
    <3>2. copy'[u] = copy[u]
      BY <1>4, <2>3, OthersCopy
    <3>3. value'[g][p] = value[g][p] /\ meant'[g][p] = meant[g][p]
      BY <1>4, <2>3, OthersSpare
    <3> QED BY <2>1, <3>1, <3>2, <3>3
  <2>4. ASSUME Activate(u) \/ Step(u)
        PROVE  FieldOK(u, g, p)'
    <3>1. CASE at' = at /\ UNCHANGED <<value, copy, meant>>
      BY <2>1, <3>1
    <3>2. ASSUME Moves(u)
          PROVE  Pending(u, g, p)' <=>
                   /\ WritesBack(Stmt(u)) /\ Target(u) = g
                   /\ Stmt(u).kind = "putall" \/ p = Stmt(u).at
                   /\ at[u].op >= ChangeStep(Stmt(u))
                   /\ at[u].op < FirstStore(Stmt(u)) + p
      <4>1. CASE at[u].op = Len(Ops(u)) /\ at'[u].op = 1
        <5>1. ~Pending(u, g, p)'
          BY <1>0, <4>1 DEF Pending, WritesBack, ChangeStep
        <5>2. WritesBack(Stmt(u)) => ~(at[u].op < FirstStore(Stmt(u)) + p)
          <6>1. WritesBack(Stmt(u)) => Len(Ops(u)) = FirstStore(Stmt(u)) + LastPart + 1
            BY <1>4, <2>0, PlaceShape DEF Shape
          <6>2. WritesBack(Stmt(u)) => FirstStore(Stmt(u)) \in Nat
            BY <1>0 DEF WritesBack, FirstStore
          <6> QED BY <1>0, <2>0, <4>1, <6>1, <6>2
        <5> QED BY <3>2, <5>1, <5>2
      <4>2. CASE at'[u].stmt = at[u].stmt /\ at'[u].op = at[u].op + 1
        <5>1. Stmt(u)' = Stmt(u) /\ Target(u)' = Target(u)
          BY <4>2 DEF Stmt, Target
        <5>2. WritesBack(Stmt(u)) =>
                ChangeStep(Stmt(u)) \in Nat /\ FirstStore(Stmt(u)) \in Nat
          BY <1>0 DEF WritesBack, FirstStore, ChangeStep
        <5>3. WritesBack(Stmt(u)) =>
                /\ at[u].op + 1 > ChangeStep(Stmt(u)) <=> at[u].op >= ChangeStep(Stmt(u))
                /\ at[u].op + 1 <= FirstStore(Stmt(u)) + p
                      <=> at[u].op < FirstStore(Stmt(u)) + p
          BY <2>0, <5>2
        <5> QED BY <3>2, <4>2, <5>1, <5>3 DEF Pending
      <4> QED BY <3>2, <4>1, <4>2 DEF Moves
    <3>3. ASSUME Moves(u), Silent(u)
          PROVE  FieldOK(u, g, p)'
      <4>1. value' = value /\ copy' = copy /\ meant' = meant
        BY <1>4, <3>3, SilentStays
      <4>2. WritesBack(Stmt(u)) =>
              /\ at[u].op # ChangeStep(Stmt(u)) /\ at[u].op # FirstStore(Stmt(u)) + p
              /\ ChangeStep(Stmt(u)) \in Nat /\ FirstStore(Stmt(u)) \in Nat
        <5>1. WritesBack(Stmt(u)) =>
                ChangeStep(Stmt(u)) \in Nat /\ FirstStore(Stmt(u)) \in Nat
          BY <1>0 DEF WritesBack, FirstStore, ChangeStep
        <5>2. WritesBack(Stmt(u)) => at[u].op # ChangeStep(Stmt(u))
          BY <1>4, <3>3, SilentStays DEF WritesBack, Changes, ChangeStep
        <5>3. WritesBack(Stmt(u)) =>
                at[u].op \notin FirstStore(Stmt(u)) .. FirstStore(Stmt(u)) + LastPart
          BY <1>4, <3>3, SilentStays
        <5> QED BY <1>0, <2>0, <5>1, <5>2, <5>3
      <4>3. ASSUME WritesBack(Stmt(u))
            PROVE  /\ (at[u].op > ChangeStep(Stmt(u)) <=> at[u].op >= ChangeStep(Stmt(u)))
                   /\ (at[u].op <= FirstStore(Stmt(u)) + p
                        <=> at[u].op < FirstStore(Stmt(u)) + p)
        <5>1. /\ at[u].op # ChangeStep(Stmt(u)) /\ at[u].op # FirstStore(Stmt(u)) + p
              /\ ChangeStep(Stmt(u)) \in Nat /\ FirstStore(Stmt(u)) \in Nat
          BY <4>2, <4>3
        <5>2. at[u].op \in Nat /\ FirstStore(Stmt(u)) + p \in Nat
          BY <2>0, <5>1
        <5> QED BY <5>1, <5>2, NextTo
      <4>4. Pending(u, g, p)' <=> Pending(u, g, p)
        BY <3>2, <3>3, <4>3 DEF Pending
      <4> QED BY <2>0, <4>1, <4>4 DEF FieldOK
    <3>4. ASSUME Moves(u), Load(u)
          PROVE  FieldOK(u, g, p)'
      <4>1. WritesBack(Stmt(u)) =>
              ChangeStep(Stmt(u)) \in Nat /\ at[u].op < ChangeStep(Stmt(u))
        BY <1>0, <1>4, <3>4, LoadMoves DEF Copies, WritesBack, ChangeStep
      <4>2. ~Pending(u, g, p) /\ ~Pending(u, g, p)'
        BY <2>0, <3>2, <3>4, <4>1 DEF Pending
      <4>3. value' = value /\ meant' = meant
        BY <1>4, <3>4, LoadMoves
      <4> QED BY <2>0, <4>2, <4>3 DEF FieldOK
    <3>5. ASSUME Moves(u), Store(u)
          PROVE  FieldOK(u, g, p)'
      <4> DEFINE q == at[u].op - FirstStore(Stmt(u))
      <4>1. /\ value' = [value EXCEPT ![Target(u)][q] = copy[u][q]]
            /\ copy' = copy /\ meant' = meant
            /\ WritesBack(Stmt(u)) /\ Target(u) \in Global /\ q \in Part
            /\ at[u].op \in FirstStore(Stmt(u)) .. FirstStore(Stmt(u)) + LastPart
        BY <1>4, <3>5, StoreMoves
      <4>2. /\ FirstStore(Stmt(u)) \in Nat /\ ChangeStep(Stmt(u)) \in Nat
            /\ FirstStore(Stmt(u)) > ChangeStep(Stmt(u))
            /\ Changes(Stmt(u)) => FirstStore(Stmt(u)) > LastPart + 2
        BY <1>0, <4>1 DEF FirstStore, ChangeStep, WritesBack, Changes
      <4>3. at[u].op > ChangeStep(Stmt(u)) /\ (Changes(Stmt(u)) => at[u].op > p + 2)
        <5>1. at[u].op >= FirstStore(Stmt(u))
          BY <1>0, <4>1, <4>2
        <5> HIDE DEF q
        <5>2. at[u].op \in Nat /\ p \in Nat /\ p <= LastPart /\ LastPart \in Nat
          BY <1>0, <2>0
        <5> QED BY <4>2, <5>1, <5>2
      <4>4. CASE Target(u) # g
        <5>1. ~Pending(u, g, p) /\ ~Pending(u, g, p)'
          BY <3>2, <3>5, <4>4 DEF Pending
        <5> QED BY <2>0, <4>1, <4>4, <5>1 DEF FieldOK
      <4>5. CASE Target(u) = g /\ q # p
        <5>0. at[u].op \in Nat /\ FirstStore(Stmt(u)) + p \in Nat
              /\ at[u].op # FirstStore(Stmt(u)) + p
          BY <2>0, <4>2, <4>5
        <5>1. at[u].op <= FirstStore(Stmt(u)) + p <=> at[u].op < FirstStore(Stmt(u)) + p
          BY <5>0, NextTo
        <5>2. at[u].op >= ChangeStep(Stmt(u))
          BY <2>0, <4>2, <4>3
        <5>3. Pending(u, g, p)' <=> Pending(u, g, p)
          BY <3>2, <3>5, <4>3, <5>1, <5>2 DEF Pending
        <5>4. value'[g][p] = value[g][p]
          BY <2>0, <4>1, <4>5
        <5> QED BY <2>0, <4>1, <5>3, <5>4 DEF FieldOK
      <4>6. CASE Target(u) = g /\ q = p
        <5>1. at[u].op = FirstStore(Stmt(u)) + p
          BY <2>0, <4>2, <4>6
        <5>2. ~Pending(u, g, p)'
          BY <2>0, <3>2, <3>5, <4>2, <5>1
        <5>3. value'[g][p] = copy[u][p]
          BY <2>0, <4>1, <4>6
        <5>4. meant[g][p] = copy[u][p]
          <6>1. CASE Pending(u, g, p)
            BY <2>0, <6>1 DEF FieldOK
          <6>2. CASE ~Pending(u, g, p)
            <7>1. Changes(Stmt(u)) /\ p # Stmt(u).at
              BY <2>0, <4>1, <4>2, <4>3, <4>6, <5>1, <6>2 DEF Pending, WritesBack, Changes
            <7>2. Alone(u) /\ ~Changed(u, p) /\ at[u].op > p + 2
              BY <1>4, <4>1, <4>3, <7>1, UnsharedAlone DEF Changed
            <7>3. copy[u][p] = value[g][p]
              BY <1>4, <4>6, <7>2 DEF CopyInv, CopyOK
            <7> QED BY <2>0, <6>2, <7>3 DEF FieldOK
          <6> QED BY <6>1, <6>2
        <5> QED BY <4>1, <5>2, <5>3, <5>4 DEF FieldOK
      <4> QED BY <4>4, <4>5, <4>6
    <3>6. ASSUME Moves(u), NEW v \in Val, Modify(u, v)
          PROVE  FieldOK(u, g, p)'
      <4>1. /\ copy' = [copy EXCEPT ![u][Stmt(u).at] = v]
            /\ meant' = [meant EXCEPT ![Target(u)][Stmt(u).at] = v]
            /\ value' = value /\ Target(u) \in Global /\ Stmt(u).at \in Part
            /\ Changes(Stmt(u)) /\ at[u].op = ChangeStep(Stmt(u))
        BY <1>4, <3>6, ModifyMoves
      <4>2. CASE Stmt(u).kind # "scalarbit"
        <5>1. /\ WritesBack(Stmt(u)) /\ at[u].op >= ChangeStep(Stmt(u))
              /\ at[u].op < FirstStore(Stmt(u)) + p /\ ~(at[u].op > ChangeStep(Stmt(u)))
              /\ Stmt(u).kind # "putall"
          <6>1. /\ WritesBack(Stmt(u)) /\ Stmt(u).kind # "putall"
                /\ ChangeStep(Stmt(u)) \in Nat /\ FirstStore(Stmt(u)) \in Nat
                /\ ChangeStep(Stmt(u)) < FirstStore(Stmt(u))
            BY <1>0, <4>1, <4>2 DEF Changes, WritesBack, FirstStore, ChangeStep
          <6>2. at[u].op \in Nat /\ p \in Nat
            BY <2>0
          <6> QED BY <4>1, <6>1, <6>2
        <5>2. ~Pending(u, g, p)
          BY <5>1 DEF Pending
        <5>3. Pending(u, g, p)' <=> Target(u) = g /\ p = Stmt(u).at
          BY <3>2, <3>6, <5>1
        <5>4. CASE Target(u) = g /\ p = Stmt(u).at
          <6>1. meant'[g][p] = v /\ copy'[u][p] = v
            BY <2>0, <4>1, <5>4
          <6> QED BY <5>3, <5>4, <6>1 DEF FieldOK
        <5>5. CASE ~(Target(u) = g /\ p = Stmt(u).at)
          <6>1. meant'[g][p] = meant[g][p]
            BY <2>0, <4>1, <5>5
          <6> QED BY <2>0, <4>1, <5>2, <5>3, <5>5, <6>1 DEF FieldOK
        <5> QED BY <5>4, <5>5
      <4>3. CASE Stmt(u).kind = "scalarbit"
        <5>1. ~(Target(u) = g /\ p = Stmt(u).at)
          BY <1>4, <4>3, BitLost DEF SoleWrites
        <5>2. ~Pending(u, g, p) /\ ~Pending(u, g, p)'
          BY <3>2, <3>6, <4>3 DEF Pending, WritesBack
        <5>3. meant'[g][p] = meant[g][p]
          BY <2>0, <4>1, <5>1
        <5> QED BY <2>0, <4>1, <5>2, <5>3 DEF FieldOK
      <4> QED BY <4>2, <4>3
    <3>7. ASSUME Moves(u), NEW v \in Val, Fill(u, v)
          PROVE  FieldOK(u, g, p)'
      <4>1. /\ copy' = [copy EXCEPT ![u] = [q \in Part |-> v]]
            /\ meant' = [meant EXCEPT ![Target(u)] = [q \in Part |-> v]]
            /\ value' = value /\ Target(u) \in Global
            /\ Stmt(u).kind = "putall" /\ at[u].op = 1
        BY <1>4, <3>7, FillMoves
      <4>2. /\ WritesBack(Stmt(u)) /\ at[u].op >= ChangeStep(Stmt(u))
            /\ at[u].op < FirstStore(Stmt(u)) + p /\ ~(at[u].op > ChangeStep(Stmt(u)))
        BY <1>0, <2>0, <4>1 DEF WritesBack, FirstStore, ChangeStep
      <4>3. ~Pending(u, g, p)
        BY <4>2 DEF Pending
      <4>4. Pending(u, g, p)' <=> Target(u) = g
        BY <3>2, <3>7, <4>1, <4>2
      <4>5. CASE Target(u) = g
        <5>1. meant'[g][p] = v /\ copy'[u][p] = v
          BY <2>0, <4>1, <4>5
        <5> QED BY <4>4, <4>5, <5>1 DEF FieldOK
      <4>6. CASE Target(u) # g
        <5>1. meant'[g][p] = meant[g][p]
          BY <2>0, <4>1, <4>6
        <5> QED BY <2>0, <4>1, <4>3, <4>4, <4>6, <5>1 DEF FieldOK
      <4> QED BY <4>5, <4>6
    <3>8. ASSUME Moves(u), PutAt(u)
          PROVE  FieldOK(u, g, p)'
      <4>1. /\ value' = [value EXCEPT ![Target(u)][sub[u]] = tmp[u]]
            /\ meant' = [meant EXCEPT ![Target(u)][sub[u]] = tmp[u]]
            /\ Stmt(u).kind = "assign"
        BY <1>4, <3>8, PutMoves
      <4>2. ~Pending(u, g, p) /\ ~Pending(u, g, p)'
        BY <3>2, <3>8, <4>1 DEF Pending, WritesBack
      <4>3. meant[g][p] = value[g][p]
        BY <2>0, <4>2 DEF FieldOK
      <4>4. meant'[g][p] = value'[g][p]
        BY <2>0, <4>1, <4>3
      <4> QED BY <4>2, <4>4 DEF FieldOK
    <3> QED BY <1>4, <2>4, <3>1, <3>3, <3>4, <3>5, <3>6, <3>7, <3>8, StepCases
  <2> QED BY <1>4, <2>2, <2>3, <2>4 DEF Next
<1> QED BY <1>1, <1>2, <1>3, <1>4

(* What the proofs above rest on, together. *)
Base == TInv /\ HoldInv /\ FaultInv

LEMMA BaseInvariant ==
  ASSUME NEW below, Permits(below)
  PROVE  (Init => Base) /\ (Base /\ [Next]_vars => Base')
BY TypeInvariant, HoldInvariant, FaultInvariant DEF Base

(* A part only one task writes holds, between that task's statements, what *)
(* the task last assigned to it: "different-field writes from different    *)
(* tasks all survive" (iec_global.hpp), for any number of tasks and parts, *)
(* as long as no other task writes a global that is passed as VAR_IN_OUT.  *)
(* The bits of a global that is itself a word are not among those parts    *)
(* (LosesBit); their writes may stand anywhere in the bodies.              *)
THEOREM FieldWritesSurvive ==
  ASSUME NoSelfSubscript, InOutUnshared
  PROVE  Spec => []FieldsSurvive
<1> DEFINE Inv == Base /\ CopyInv /\ FieldInv
<1>0. Permits(NoSelf)
  BY DistinctPermits
<1>1. Init => Inv
  BY <1>0, BaseInvariant, CopyInvariant, FieldInvariant
<1>2. Inv /\ [Next]_vars => Inv'
  BY <1>0, BaseInvariant, CopyInvariant, FieldInvariant DEF Base
<1>3. Inv => FieldsSurvive
  <2> SUFFICES ASSUME FieldInv, NEW w \in SoleWriter, at[w[1]].op = 1
               PROVE  value[w[2]][w[3]] = meant[w[2]][w[3]]
    BY DEF FieldsSurvive
  <2>1. ~Pending(w[1], w[2], w[3])
    BY BodyAssumption DEF Pending, WritesBack, ChangeStep
  <2> QED BY <2>1 DEF FieldInv, FieldOK
<1> QED BY <1>1, <1>2, <1>3, PTL DEF Spec
-----------------------------------------------------------------------------
(* A copy of a whole global is one of the values it was given.             *)

Even(f) == \A p, q \in Part : f[p] = f[q]

\* t is storing its copy into g, field after field.
Filling(t, g) == Stmt(t).kind = "putall" /\ Target(t) = g /\ at[t].op >= 3

FilledEven ==
  \A t \in Task : Stmt(t).kind = "putall" /\ at[t].op >= 2 => Even(copy[t])

\* The fields up to the one stored next are the copy's, the rest the old.
FillingEven ==
  \A t \in Task, g \in InStep : Filling(t, g) =>
    \A p, q \in Part :
      /\ p + 3 < at[t].op => value[g][p] = copy[t][p]
      /\ p + 3 >= at[t].op /\ q + 3 >= at[t].op => value[g][p] = value[g][q]

RestingEven ==
  \A g \in InStep : (\A t \in Task : ~Filling(t, g)) => Even(value[g])

LEMMA FillingHolds ==
  ASSUME NEW below, Permits(below), Base, NEW t \in Task, NEW g, Filling(t, g)
  PROVE  Holds(t, g) /\ g \in Global
<1>1. status[t] = "running"
  BY PlaceShape, BeyondFirstRuns DEF Base, Filling
<1>2. HeldFrom(Stmt(t), Ops(t)) <= at[t].op
  BY DEF HeldFrom, Filling
<1> QED BY <1>1, <1>2, TargetIsHeld, PlaceShape DEF Base, Filling

FillingIsOne ==
  \A t, u \in Task, g \in InStep : Filling(t, g) /\ Filling(u, g) => t = u

LEMMA OneFills ==
  ASSUME NEW CONSTANT below, Permits(below)
  PROVE  (Base => FillingIsOne) /\ (Base' => FillingIsOne')
<1>1. Base => FillingIsOne
  BY FillingHolds, HolderIsOne DEF Base, FillingIsOne
<1>2. Base' => FillingIsOne'
  BY <1>1, PTL
<1> QED BY <1>1, <1>2

\* Only a task that is filling it stores into a global whose fields are in
\* step.
LEMMA InStepStores ==
  ASSUME TInv, NEW t \in Task, NEW g \in InStep
  PROVE  /\ Stmt(t).kind \notin {"fetch", "getall"} /\ Target(t) = g =>
              Stmt(t).kind = "putall"
         /\ g \in Global
BY PlaceShape DEF InStep, Stmt, Target

LEMMA FilledInvariant ==
  /\ Init => FilledEven
  /\ TInv /\ FilledEven /\ [Next]_vars => FilledEven'
<1>1. Init => FilledEven
  BY DEF Init, FilledEven, Start
<1>2. ASSUME TInv, FilledEven, [Next]_vars, NEW u \in Task,
             Stmt(u)'.kind = "putall", at'[u].op >= 2
      PROVE  Even(copy'[u])
  <2>0. at[u].op \in Nat \ {0} /\ Len(Ops(u)) \in Nat
    BY <1>2, PlaceShape
  <2>1. CASE at'[u] = at[u] /\ copy'[u] = copy[u]
    BY <1>2, <2>1 DEF FilledEven, Stmt
  <2>2. ASSUME NEW t \in Task \ {u}, Activate(t) \/ Step(t)
        PROVE  at'[u] = at[u] /\ copy'[u] = copy[u]
    BY <1>2, <2>2, StepCases, OthersCopy
  <2>3. ASSUME Moves(u), NEW v \in Val, Fill(u, v)
        PROVE  Even(copy'[u])
    <3>1. copy \in [Task -> [Part -> Nat]]
      BY <1>2 DEF TInv, TypeOK
    <3>2. copy' = [copy EXCEPT ![u] = [p \in Part |-> v]]
      BY <1>2, <2>3, FillMoves
    <3>3. copy'[u] = [p \in Part |-> v]
      BY <3>1, <3>2
    <3> QED BY <3>3 DEF Even
  <2>4. ASSUME Moves(u), copy' = copy, Stmt(u).kind = "putall" => at[u].op # 1
        PROVE  Even(copy'[u])
    <3>1. Stmt(u)' = Stmt(u) /\ at'[u].op = at[u].op + 1
      BY <1>2, <2>4 DEF Moves, Stmt
    <3>2. at[u].op >= 2
      BY <1>2, <2>0, <2>4, <3>1
    <3> QED BY <1>2, <2>4, <3>1, <3>2 DEF FilledEven
  <2>5. ASSUME Moves(u), Load(u) \/ \E v \in Val : Modify(u, v)
        PROVE  FALSE
    <3>1. Stmt(u)' = Stmt(u)
      BY <1>2, <2>5 DEF Moves, Stmt
    <3> QED BY <1>2, <2>5, <3>1, LoadMoves, ModifyMoves DEF Copies, Changes
  <2>6. ASSUME Store(u) \/ PutAt(u) \/ Silent(u)
        PROVE  copy' = copy /\ (Stmt(u).kind = "putall" => at[u].op # 1)
    <3>1. CASE Store(u)
      <4>1. Stmt(u).kind = "putall" => at[u].op \in 3 .. 3 + LastPart
        BY <1>2, <3>1, StoreMoves DEF FirstStore
      <4> QED BY <1>2, <3>1, <4>1, StoreMoves, BodyAssumption
    <3> QED BY <1>2, <2>6, <3>1, PutMoves, SilentStays
  <2>7. ASSUME Activate(u) \/ Step(u)
        PROVE  Even(copy'[u])
    BY <1>2, <2>1, <2>3, <2>4, <2>5, <2>6, <2>7, StepCases
  <2> QED BY <1>2, <2>1, <2>2, <2>7 DEF Next, vars, local
<1>3. FilledEven' <=> \A u \in Task : Stmt(u)'.kind = "putall" /\ at'[u].op >= 2
                                        => Even(copy'[u])
  BY DEF FilledEven, Even
<1> QED BY <1>1, <1>2, <1>3

\* A global whose fields are in step changes only under a filling task.
LEMMA InStepChanges ==
  ASSUME TInv, NEW g \in InStep, NEW t \in Task, Activate(t) \/ Step(t),
         value'[g] # value[g]
  PROVE  Store(t) /\ Filling(t, g)
<1>1. value \in [Global -> [Part -> Nat]] /\ g \in Global
  BY InStepStores DEF TInv, TypeOK
<1>2. Store(t) \/ PutAt(t)
  BY StepCases, LoadMoves, ModifyMoves, FillMoves, SilentStays
<1>3. Target(t) = g
  <2>1. CASE Store(t)
    BY <1>1, <2>1, StoreMoves
  <2>2. CASE PutAt(t)
    BY <1>1, <2>2, PutMoves
  <2> QED BY <1>2, <2>1, <2>2
<1>4. Stmt(t).kind = "putall"
  BY <1>2, <1>3, InStepStores, StoreMoves, PutMoves DEF WritesBack
<1>5. Store(t)
  BY <1>2, <1>4, PutMoves
<1>6. at[t].op \in 3 .. 3 + LastPart
  BY <1>4, <1>5, StoreMoves DEF FirstStore
<1> QED BY <1>3, <1>4, <1>5, <1>6, BodyAssumption DEF Filling

\* A task that begins to fill finds the fields in step.
LEMMA FillingKept ==
  ASSUME NEW CONSTANT below, Permits(below), Base, Base', FilledEven, FillingEven, RestingEven,
         [Next]_vars, NEW u \in Task, NEW g \in InStep, Filling(u, g)',
         NEW p \in Part, NEW q \in Part
  PROVE  /\ p + 3 < at'[u].op => value'[g][p] = copy'[u][p]
         /\ p + 3 >= at'[u].op /\ q + 3 >= at'[u].op => value'[g][p] = value'[g][q]
<1>0. /\ value \in [Global -> [Part -> Nat]] /\ copy \in [Task -> [Part -> Nat]]
      /\ g \in Global
  BY InStepStores DEF Base, TInv, TypeOK
<1>1. /\ at[u].op \in Nat \ {0} /\ Len(Ops(u)) \in Nat
      /\ p \in Nat /\ q \in Nat /\ p <= LastPart /\ q <= LastPart /\ LastPart \in Nat
  <2>1. LastPart \in Nat /\ p \in 0 .. LastPart /\ q \in 0 .. LastPart
    BY BodyAssumption DEF Part
  <2>2. at[u].op \in Nat \ {0} /\ Len(Ops(u)) \in Nat
    BY PlaceShape DEF Base
  <2> QED BY <2>1, <2>2
<1>2. ASSUME at'[u] = at[u], copy'[u] = copy[u], value'[g] = value[g]
      PROVE  /\ p + 3 < at'[u].op => value'[g][p] = copy'[u][p]
             /\ p + 3 >= at'[u].op /\ q + 3 >= at'[u].op => value'[g][p] = value'[g][q]
  <2>1. Filling(u, g)
    BY <1>2 DEF Filling, Stmt, Target
  <2> QED BY <1>2, <2>1 DEF FillingEven
<1>3. ASSUME NEW t \in Task \ {u}, Activate(t) \/ Step(t)
      PROVE  at'[u] = at[u] /\ copy'[u] = copy[u] /\ value'[g] = value[g]
  <2>1. at'[u] = at[u] /\ copy'[u] = copy[u]
    BY <1>3, StepCases, OthersCopy DEF Base
  <2>2. Filling(u, g)
    BY <2>1 DEF Filling, Stmt, Target
  <2>3. ~Filling(t, g)
    BY <1>3, <2>2, OneFills DEF FillingIsOne
  <2> QED BY <1>3, <2>1, <2>3, InStepChanges DEF Base
<1>4. ASSUME Activate(u) \/ Step(u)
      PROVE  \/ at' = at /\ UNCHANGED <<value, copy>>
             \/ /\ Moves(u) /\ at'[u].stmt = at[u].stmt /\ at'[u].op = at[u].op + 1
                /\ Stmt(u).kind = "putall" /\ Target(u) = g /\ at[u].op >= 2
  <2>1. CASE at' = at /\ UNCHANGED <<value, copy, meant>>
    BY <2>1
  <2>2. CASE Moves(u)
    <3>1. at'[u].stmt = at[u].stmt /\ at'[u].op = at[u].op + 1
      BY <2>2 DEF Moves, Filling
    <3>2. Stmt(u)' = Stmt(u) /\ Target(u)' = Target(u)
      BY <3>1 DEF Stmt, Target
    <3> QED BY <1>1, <2>2, <3>1, <3>2 DEF Filling
  <2> QED BY <1>4, <2>1, <2>2, StepCases DEF Base
<1>5. ASSUME Moves(u), Activate(u) \/ Step(u), at'[u].stmt = at[u].stmt,
             at'[u].op = at[u].op + 1, Stmt(u).kind = "putall", Target(u) = g,
             at[u].op >= 3
      PROVE  /\ p + 3 < at'[u].op => value'[g][p] = copy'[u][p]
             /\ p + 3 >= at'[u].op /\ q + 3 >= at'[u].op => value'[g][p] = value'[g][q]
  <2>1. /\ p + 3 < at[u].op => value[g][p] = copy[u][p]
        /\ p + 3 >= at[u].op /\ q + 3 >= at[u].op => value[g][p] = value[g][q]
    BY <1>5 DEF FillingEven, Filling
  <2>2. Store(u)
    <3>1. at[u].op < Len(Ops(u)) /\ Len(Ops(u)) = LastPart + 4
      BY <1>1, <1>5, PlaceShape DEF Moves, Base, Shape, WritesBack, FirstStore
    <3>2. at[u].op \in 3 .. 3 + LastPart
      BY <1>1, <1>5, <3>1
    <3>3. Coming(u).do = "store"
      BY <1>5, <3>2, PlaceShape DEF Base, Shape, WritesBack, FirstStore
    <3>4. status[u] = "running"
      BY <1>5, PlaceShape, BeyondFirstRuns DEF Base
    <3> QED BY <1>5, <3>3, <3>4
            DEF Step, Activate, TakeLock, FreeLock, Index, Hoist, ReadAt, PutAt, Fault,
                Throws, Load, Modify, Fill, Doing
  <2> DEFINE r == at[u].op - 3
  <2>3. /\ value' = [value EXCEPT ![g][r] = copy[u][r]] /\ copy' = copy
        /\ r \in Part
    BY <1>5, <2>2, StoreMoves DEF Base, FirstStore
  <2>4. (p + 3 < at'[u].op <=> (p + 3 < at[u].op \/ p = r))
        /\ (p + 3 >= at'[u].op <=> (p + 3 >= at[u].op /\ p # r))
        /\ (q + 3 >= at'[u].op <=> (q + 3 >= at[u].op /\ q # r))
    <3> DEFINE k == at[u].op
    <3>1. at'[u].op = k + 1 /\ k \in Nat /\ p \in Nat /\ q \in Nat /\ r = k - 3
      BY <1>1, <1>5
    <3> HIDE DEF k, r
    <3>2. /\ (p + 3 < k + 1 <=> (p + 3 < k \/ p = r))
          /\ (p + 3 >= k + 1 <=> (p + 3 >= k /\ p # r))
          /\ (q + 3 >= k + 1 <=> (q + 3 >= k /\ q # r))
      BY <3>1
    <3> QED BY <3>1, <3>2 DEF k
  <2>5. /\ value'[g][p] = IF p = r THEN copy[u][r] ELSE value[g][p]
        /\ value'[g][q] = IF q = r THEN copy[u][r] ELSE value[g][q]
    BY <1>0, <2>3
  <2> HIDE DEF r
  <2> QED BY <2>1, <2>3, <2>4, <2>5
<1>6. ASSUME Moves(u), Activate(u) \/ Step(u), at'[u].stmt = at[u].stmt,
             at'[u].op = at[u].op + 1, Stmt(u).kind = "putall", Target(u) = g,
             at[u].op = 2
      PROVE  /\ p + 3 < at'[u].op => value'[g][p] = copy'[u][p]
             /\ p + 3 >= at'[u].op /\ q + 3 >= at'[u].op => value'[g][p] = value'[g][q]
  <2>1. ~Filling(u, g)
    BY <1>6 DEF Filling
  <2>2. value'[g] = value[g]
    BY <1>6, <2>1, InStepChanges DEF Base
  <2>3. \A t \in Task \ {u} : ~Filling(t, g)
    <3> SUFFICES ASSUME NEW t \in Task \ {u}, Filling(t, g)
                 PROVE  FALSE
      OBVIOUS
    <3>1. at'[t] = at[t]
      BY <1>6, StepCases DEF Base
    <3>2. Filling(t, g)'
      BY <3>1 DEF Filling, Stmt, Target
    <3>3. t = u
      BY <3>2, OneFills DEF FillingIsOne
    <3> QED BY <3>3
  <2>4. Even(value[g])
    BY <2>1, <2>3 DEF RestingEven
  <2>5. ~(p + 3 < at'[u].op)
    BY <1>1, <1>6
  <2> QED BY <2>2, <2>4, <2>5 DEF Even
<1>7. ASSUME Activate(u) \/ Step(u)
      PROVE  /\ p + 3 < at'[u].op => value'[g][p] = copy'[u][p]
             /\ p + 3 >= at'[u].op /\ q + 3 >= at'[u].op => value'[g][p] = value'[g][q]
  <2>1. at[u].op >= 2 => at[u].op = 2 \/ at[u].op >= 3
    BY <1>1
  <2> QED BY <1>2, <1>4, <1>5, <1>6, <1>7, <2>1
<1>8. CASE UNCHANGED vars
  BY <1>2, <1>8 DEF vars, local
<1> QED BY <1>2, <1>3, <1>7, <1>8 DEF Next

\* A task that ends a filling leaves the whole of its copy.
LEMMA RestingKept ==
  ASSUME Base, FilledEven, FillingEven, RestingEven, [Next]_vars,
         NEW g \in InStep, \A t \in Task : ~Filling(t, g)'
  PROVE  Even(value'[g])
<1>1. value'[g] = value[g]
  <2>1. ASSUME NEW t \in Task, Activate(t) \/ Step(t), value'[g] # value[g]
        PROVE  FALSE
    <3>1. Store(t) /\ Filling(t, g)
      BY <2>1, InStepChanges DEF Base
    <3>2. Moves(t) /\ at[t].op < Len(Ops(t))
      <4>1. at[t].op < Len(Ops(t))
        BY <3>1, StoreMoves DEF Base
      <4>2. Moves(t)
        <5>1. Advance(t)
          BY <3>1 DEF Store
        <5> QED BY <5>1, AdvanceCases DEF Base, Moves
      <4> QED BY <4>1, <4>2
    <3>3. at[t].op \in Nat
      BY PlaceShape DEF Base
    <3>4. at'[t].stmt = at[t].stmt /\ at'[t].op = at[t].op + 1
      BY <3>2, <3>3, PlaceShape DEF Moves, Base
    <3>5. Filling(t, g)'
      BY <3>1, <3>3, <3>4 DEF Filling, Stmt, Target
    <3> QED BY <3>5
  <2> QED BY <2>1 DEF Next, vars
<1>2. CASE \A t \in Task : ~Filling(t, g)
  BY <1>1, <1>2 DEF RestingEven, Even
<1>3. ASSUME NEW t \in Task, Filling(t, g)
      PROVE  Even(value'[g])
  <2>1. at'[t] # at[t]
    BY <1>3 DEF Filling, Stmt, Target
  <2>2. Moves(t)
    <3>1. ASSUME NEW u \in Task, Activate(u) \/ Step(u)
          PROVE  Moves(t)
      BY <2>1, <3>1, StepCases DEF Base
    <3> QED BY <2>1, <3>1 DEF Next, vars, local
  <2>3. at[t].op = LastPart + 4 /\ LastPart \in Nat /\ Part = 0 .. LastPart
    <3>1. /\ at[t].op \in Nat /\ Len(Ops(t)) = LastPart + 4
          /\ LastPart \in Nat /\ Part = 0 .. LastPart
      BY <1>3, PlaceShape DEF Base, Shape, Filling, WritesBack, FirstStore
    <3>2. ~(at'[t].stmt = at[t].stmt /\ at'[t].op = at[t].op + 1)
      BY <1>3, <3>1 DEF Filling, Stmt, Target
    <3> QED BY <2>2, <3>1, <3>2 DEF Moves
  <2>4. \A p \in Part : value[g][p] = copy[t][p]
    <3> SUFFICES ASSUME NEW p \in Part
                 PROVE  value[g][p] = copy[t][p]
      OBVIOUS
    <3>1. p + 3 < at[t].op
      BY <2>3
    <3> QED BY <1>3, <3>1 DEF FillingEven
  <2>5. Even(copy[t])
    BY <1>3, <2>3 DEF FilledEven, Filling
  <2> QED BY <1>1, <2>4, <2>5 DEF Even
<1> QED BY <1>2, <1>3

LEMMA EvenInvariant ==
  ASSUME NEW CONSTANT below, Permits(below)
  PROVE  /\ Init => FilledEven /\ FillingEven /\ RestingEven
         /\ Base /\ Base' /\ FilledEven /\ FillingEven /\ RestingEven /\ [Next]_vars
              => FilledEven' /\ FillingEven' /\ RestingEven'
<1>1. Init => FilledEven /\ FillingEven /\ RestingEven
  <2> SUFFICES ASSUME Init
               PROVE  FillingEven /\ RestingEven
    BY FilledInvariant
  <2>1. \A t \in Task : \A g : ~Filling(t, g)
    BY DEF Init, Start, Filling
  <2>2. \A g \in Global : Even(value[g])
    BY DEF Init, Even
  <2> QED BY <2>1, <2>2 DEF FillingEven, RestingEven, InStep
<1>2. ASSUME Base, Base', FilledEven, FillingEven, RestingEven, [Next]_vars
      PROVE  FillingEven' /\ RestingEven'
  <2>1. FillingEven'
    BY <1>2, FillingKept DEF FillingEven
  <2>2. ASSUME NEW g \in InStep, \A t \in Task : ~Filling(t, g)'
        PROVE  Even(value[g])'
    BY <1>2, <2>2, RestingKept DEF Even
  <2>3. RestingEven'
    BY <2>2 DEF RestingEven
  <2> QED BY <2>1, <2>3
<1> QED BY <1>1, <1>2, FilledInvariant DEF Base

(* A copy of a whole global whose fields are only ever assigned together   *)
(* is one of the values it was given, never a mixture of two: "no torn     *)
(* read/write" (iec_global.hpp), for any number of tasks and fields.       *)
THEOREM CopiesNeverTorn ==
  ASSUME NoSelfSubscript
  PROVE  Spec => []CopiesAreWhole
<1> DEFINE Evens == FilledEven /\ FillingEven /\ RestingEven
<1> DEFINE Inv == Base /\ CopyInv /\ Evens
<1>0. Permits(NoSelf)
  BY DistinctPermits
<1>1. Init => Inv
  BY <1>0, BaseInvariant, CopyInvariant, EvenInvariant
<1>2. Inv /\ [Next]_vars => Inv'
  BY <1>0, BaseInvariant, CopyInvariant, EvenInvariant DEF Base
<1>3. Inv => CopiesAreWhole
  <2> SUFFICES ASSUME Inv, NEW t \in Task, NEW g \in InStep, Copied(t, g),
                      NEW p \in Part, NEW q \in Part
               PROVE  copy[t][p] = copy[t][q]
    BY DEF CopiesAreWhole
  <2>1. Stmt(t).kind = "getall" /\ Target(t) = g /\ at[t].op = Len(Ops(t))
    BY DEF Copied, Stmt, Target
  <2>2. at[t].op = LastPart + 3 /\ LastPart \in Nat /\ Part = 0 .. LastPart
    BY <2>1, PlaceShape DEF Base, Shape
  <2>3. \A r \in Part : copy[t][r] = value[g][r]
    <3> SUFFICES ASSUME NEW r \in Part
                 PROVE  copy[t][r] = value[g][r]
      OBVIOUS
    <3>1. at[t].op > r + 2
      BY <2>2
    <3> QED BY <2>1, <3>1 DEF CopyInv, CopyOK, Alone, Copies, Changed, Changes
  <2>4. Holds(t, g) /\ g \in Global
    BY <1>0, <2>1, <2>2, CopierHolds DEF Base
  <2>5. \A u \in Task : ~Filling(u, g)
    <3> SUFFICES ASSUME NEW u \in Task, Filling(u, g)
                 PROVE  FALSE
      OBVIOUS
    <3>1. u = t
      BY <1>0, <2>4, FillingHolds, HolderIsOne DEF Base
    <3> QED BY <2>1, <3>1 DEF Filling
  <2>6. Even(value[g])
    BY <2>5 DEF RestingEven
  <2> QED BY <2>3, <2>6 DEF Even
<1> QED BY <1>1, <1>2, <1>3, PTL DEF Spec
=============================================================================
