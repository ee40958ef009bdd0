---------------------------- MODULE SharedGlobal ----------------------------
(***************************************************************************)
(* Tasks on threads of their own that share CONFIGURATION globals, each    *)
(* with a mutex (src/runtime/include/iec_global.hpp), under the accesses   *)
(* code generation emits for the statements of their bodies                *)
(* (src/backend/codegen.ts).                                               *)
(*                                                                         *)
(* A global has parts: the elements of an array, the fields of a           *)
(* structure, the bits of a word.  A plain scalar is a global of which     *)
(* only part 0 is used.  An access is a path of globals <<g1, ..., gn>>,   *)
(* read as g1[g2[... gn[i]]] with a local subscript i.                     *)
(***************************************************************************)
EXTENDS Integers, Sequences

CONSTANTS
  Task,
  Global,
  LastPart,       \* the parts of a global are 0 .. LastPart
  Val,            \* what a part may hold
  Body,           \* Body[t], the statements of task t in order
  MaxActivations  \* bound: how often a task is activated

Part == 0 .. LastPart

\* kind: "fetch"  local := from[at]        "assign" to[at] := from[ix]
\*       "setbit" to.f.at := bit, in a word that to has as a field or element
\*       "scalarbit" to.at := bit, where to itself is a word
\*       "inout"  fb(a := to), changing to.at
\*       "getall" local := to              "putall" to := local
BitWrites == {"setbit", "scalarbit"}

Statement ==
  [kind : {"fetch", "assign", "inout", "getall", "putall"} \union BitWrites,
   to   : Seq(Global),
   from : Seq(Global),
   at   : Nat,
   ix   : Nat]

ASSUME BodyAssumption ==
  /\ LastPart \in Nat
  /\ Val \subseteq Nat /\ 0 \in Val
  /\ Body \in [Task -> Seq(Statement) \ {<<>>}]
  /\ \A t \in Task : \A n \in DOMAIN Body[t] :
       LET s == Body[t][n]
       IN  /\ s.kind # "fetch" => s.to # <<>>
           /\ s.kind \in BitWrites \union {"inout"} => s.at \in Part
  /\ MaxActivations \in Nat

ASSUME NobodyAssumption == "nobody" \notin Task
-----------------------------------------------------------------------------
(* What a statement is compiled to: a row of steps, each of which another   *)
(* thread may come between.                                                 *)

Op(do, g, p) == [do |-> do, on |-> g, part |-> p]

NoGlobal == "local"

\* read(), or with_lock around the rest of the access: the subscript is
\* rendered inside the lambda, so its own access runs under the outer lock.
Access(path) ==
  LET n == Len(path)
  IN  [k \in 1 .. 3 * n |->
         IF k <= n
           THEN Op("lock", path[k], 0)
           ELSE LET g == path[n - (k - n - 1) \div 2]
                IN  IF (k - n) % 2 = 1 THEN Op("at", g, 0)
                                       ELSE Op("unlock", g, 0)]

EachPart(do, g) == [k \in 1 .. LastPart + 1 |-> Op(do, g, k - 1)]

Locked(g, ops) == <<Op("lock", g, 0)>> \o ops \o <<Op("unlock", g, 0)>>

EmitFetch(s) == <<Op("index", NoGlobal, s.ix)>> \o Access(s.from)

\* emitCompositeGlobalWrite and write(): the right side goes to a temporary
\* before the target's lock is taken.
EmitAssignInline(s) ==
  <<Op("index", NoGlobal, s.ix)>>
  \o Locked(s.to[1],
            Access(s.from) \o <<Op("hoist", NoGlobal, s.at)>>
            \o Access(Tail(s.to)) \o <<Op("put", s.to[1], 0)>>)
EmitAssign(s) ==
  <<Op("index", NoGlobal, s.ix)>> \o Access(s.from)
  \o <<Op("hoist", NoGlobal, s.at)>>
  \o Locked(s.to[1], Access(Tail(s.to)) \o <<Op("put", s.to[1], 0)>>)

\* A bit of a word inside a structure or an array: emitCompositeGlobalWrite
\* puts the whole read-modify-write inside one lock.
EmitSetBitTwoLocks(s) ==
  LET g == s.to[1]
  IN  Locked(g, EachPart("load", g) \o <<Op("modify", g, s.at)>>)
      \o Locked(g, EachPart("store", g))
EmitSetBit(s) ==
  LET g == s.to[1]
  IN  Locked(g, EachPart("load", g) \o <<Op("modify", g, s.at)>>
                \o EachPart("store", g))

\* A bit of a global that is itself a word is no composite's:
\*   word->read() = (word->read() & ~mask) | bit
\* Two reads, each under a lock of its own, and a value that is assigned to
\* the temporary of the second: nothing is written to the global.
EmitScalarBit(s) ==
  LET g == s.to[1]
  IN  Locked(g, EachPart("load", g)) \o Locked(g, EachPart("load", g))
      \o <<Op("modify", g, s.at)>>

\* A structure passed as VAR_IN_OUT: copied in, the block's body, copied back.
EmitInOut(s) ==
  LET g == s.to[1]
  IN  Locked(g, EachPart("load", g)) \o <<Op("modify", g, s.at)>>
      \o Locked(g, EachPart("store", g))

EmitGetAll(s) == Locked(s.to[1], EachPart("load", s.to[1]))

EmitPutAllFieldwise(s) ==
  LET g == s.to[1]
      each == EachPart("store", g)
  IN  <<Op("fill", g, 0)>> \o Locked(g, <<each[1]>>) \o Locked(g, Tail(each))
EmitPutAll(s) ==
  <<Op("fill", s.to[1], 0)>> \o Locked(s.to[1], EachPart("store", s.to[1]))

Emit(s) ==
  CASE s.kind = "fetch"  -> EmitFetch(s)
    [] s.kind = "assign" -> EmitAssign(s)
    [] s.kind = "setbit" -> EmitSetBit(s)
    [] s.kind = "scalarbit" -> EmitScalarBit(s)
    [] s.kind = "inout"  -> EmitInOut(s)
    [] s.kind = "getall" -> EmitGetAll(s)
    [] s.kind = "putall" -> EmitPutAll(s)

\* The compiled bodies.
Code == [t \in Task |-> [n \in DOMAIN Body[t] |-> Emit(Body[t][n])]]
-----------------------------------------------------------------------------
VARIABLES
  value,    \* value[g], the canonical storage of g, part by part
  owner,    \* owner[g], the task that holds g's mutex
  status,   \* status[t]: "resting", "running" or "faulted"
  at,       \* at[t], the statement and step t executes next
  sub,      \* sub[t], the last value a subscript or a read came to
  tmp,      \* tmp[t], the hoisted right side
  copy,     \* copy[t], t's copy of a whole global or word
  meant,    \* history: meant[g][p], what was last assigned to part p
  left      \* left[t], activations that t has left

local == <<at, sub, tmp, copy>>
vars  == <<value, owner, status, local, meant, left>>

Start == [stmt |-> 1, op |-> 1]

Init ==
  /\ value = [g \in Global |-> [p \in Part |-> 0]]
  /\ owner = [g \in Global |-> "nobody"]
  /\ status = [t \in Task |-> "resting"]
  /\ at = [t \in Task |-> Start]
  /\ sub = [t \in Task |-> 0]
  /\ tmp = [t \in Task |-> 0]
  /\ copy = [t \in Task |-> [p \in Part |-> 0]]
  /\ meant = value
  /\ left = [t \in Task |-> MaxActivations]

Ops(t)    == Code[t][at[t].stmt]
Coming(t) == Ops(t)[at[t].op]

Doing(t, do) == status[t] = "running" /\ Coming(t).do = do

\* The step after this one; after the last statement the body returns.
AdvanceOnePast(t) ==
  LET stmtDone == at[t].op > Len(Ops(t))
      bodyDone == stmtDone /\ at[t].stmt = Len(Body[t])
  IN  /\ at' = [at EXCEPT ![t] =
                  IF bodyDone THEN Start
                  ELSE IF stmtDone THEN [stmt |-> @.stmt + 1, op |-> 1]
                  ELSE [stmt |-> @.stmt, op |-> @.op + 1]]
      /\ status' = [status EXCEPT ![t] = IF bodyDone THEN "resting" ELSE @]
Advance(t) ==
  LET stmtDone == at[t].op = Len(Ops(t))
      bodyDone == stmtDone /\ at[t].stmt = Len(Body[t])
  IN  /\ at' = [at EXCEPT ![t] =
                  IF bodyDone THEN Start
                  ELSE IF stmtDone THEN [stmt |-> @.stmt + 1, op |-> 1]
                  ELSE [stmt |-> @.stmt, op |-> @.op + 1]]
      /\ status' = [status EXCEPT ![t] = IF bodyDone THEN "resting" ELSE @]

\* The runtime releases the task for one run of its body.
Activate(t) ==
  /\ status[t] = "resting"
  /\ left[t] > 0
  /\ left' = [left EXCEPT ![t] = @ - 1]
  /\ status' = [status EXCEPT ![t] = "running"]
  /\ UNCHANGED <<value, owner, local, meant>>

\* lock_guard: taken, and given back at the end of its scope.  std::mutex is
\* not recursive: a thread that locks it twice waits for itself.
TakeLock(t) ==
  /\ Doing(t, "lock")
  /\ owner[Coming(t).on] = "nobody"
  /\ owner' = [owner EXCEPT ![Coming(t).on] = t]
  /\ Advance(t)
  /\ UNCHANGED <<value, sub, tmp, copy, meant, left>>

FreeLock(t) ==
  /\ Doing(t, "unlock")
  /\ owner' = [owner EXCEPT ![Coming(t).on] = "nobody"]
  /\ Advance(t)
  /\ UNCHANGED <<value, sub, tmp, copy, meant, left>>

\* A local subscript is evaluated.
Index(t) ==
  /\ Doing(t, "index")
  /\ sub' = [sub EXCEPT ![t] = Coming(t).part]
  /\ Advance(t)
  /\ UNCHANGED <<value, owner, tmp, copy, meant, left>>

\* auto __gwv = right side; the target's own subscript is next.
Hoist(t) ==
  /\ Doing(t, "hoist")
  /\ tmp' = [tmp EXCEPT ![t] = sub[t]]
  /\ sub' = [sub EXCEPT ![t] = Coming(t).part]
  /\ Advance(t)
  /\ UNCHANGED <<value, owner, copy, meant, left>>

\* .at(sub), read.
ReadAt(t) ==
  /\ Doing(t, "at")
  /\ sub[t] \in Part
  /\ sub' = [sub EXCEPT ![t] = value[Coming(t).on][sub[t]]]
  /\ Advance(t)
  /\ UNCHANGED <<value, owner, tmp, copy, meant, left>>

\* .at(sub) = __gwv.
PutAt(t) ==
  LET g == Coming(t).on
  IN  /\ Doing(t, "put")
      /\ sub[t] \in Part
      /\ value' = [value EXCEPT ![g][sub[t]] = tmp[t]]
      /\ meant' = [meant EXCEPT ![g][sub[t]] = tmp[t]]
      /\ Advance(t)
      /\ UNCHANGED <<owner, sub, tmp, copy, left>>

\* .at(sub) out of range throws: the guards on the way release every mutex,
\* and the runtime stops the task.
Throws(t) == Doing(t, "at") \/ Doing(t, "put")

ReleasedNone(t) == owner
Released(t) == [g \in Global |-> IF owner[g] = t THEN "nobody" ELSE owner[g]]

Fault(t) ==
  /\ Throws(t)
  /\ sub[t] \notin Part
  /\ owner' = Released(t)
  /\ status' = [status EXCEPT ![t] = "faulted"]
  /\ UNCHANGED <<value, local, meant, left>>

\* One part of a copy between the global and the task.
Load(t) ==
  LET g == Coming(t).on
      p == Coming(t).part
  IN  /\ Doing(t, "load")
      /\ copy' = [copy EXCEPT ![t][p] = value[g][p]]
      /\ Advance(t)
      /\ UNCHANGED <<value, owner, sub, tmp, meant, left>>

Store(t) ==
  LET g == Coming(t).on
      p == Coming(t).part
  IN  /\ Doing(t, "store")
      /\ value' = [value EXCEPT ![g][p] = copy[t][p]]
      /\ Advance(t)
      /\ UNCHANGED <<owner, sub, tmp, copy, meant, left>>

\* The bit set, or what the block's body does to its copy.
Modify(t, v) ==
  LET g == Coming(t).on
      p == Coming(t).part
  IN  /\ Doing(t, "modify")
      /\ copy' = [copy EXCEPT ![t][p] = v]
      /\ meant' = [meant EXCEPT ![g][p] = v]
      /\ Advance(t)
      /\ UNCHANGED <<value, owner, sub, tmp, left>>

\* A local structure, its fields in step with one another.
Fill(t, v) ==
  /\ Doing(t, "fill")
  /\ copy' = [copy EXCEPT ![t] = [p \in Part |-> v]]
  /\ meant' = [meant EXCEPT ![Coming(t).on] = [p \in Part |-> v]]
  /\ Advance(t)
  /\ UNCHANGED <<value, owner, sub, tmp, left>>

Step(t) ==
  \/ TakeLock(t) \/ FreeLock(t)
  \/ Index(t) \/ Hoist(t) \/ ReadAt(t) \/ PutAt(t) \/ Fault(t)
  \/ Load(t) \/ Store(t)
  \/ \E v \in Val : Modify(t, v) \/ Fill(t, v)

Next == \E t \in Task : Activate(t) \/ Step(t)

Spec == Init /\ [][Next]_vars

\* Every thread is scheduled.  Nothing is assumed of who gets a free mutex.
FairSpec == Spec /\ \A t \in Task : WF_vars(Step(t))
-----------------------------------------------------------------------------
TypeOK ==
  /\ value \in [Global -> [Part -> Nat]]
  /\ owner \in [Global -> Task \cup {"nobody"}]
  /\ status \in [Task -> {"resting", "running", "faulted"}]
  /\ \A t \in Task : /\ at[t].stmt \in DOMAIN Body[t]
                      /\ at[t].op \in DOMAIN Ops(t)
  /\ sub \in [Task -> Nat]
  /\ tmp \in [Task -> Nat]
  /\ copy \in [Task -> [Part -> Nat]]
  /\ meant \in [Global -> [Part -> Nat]]
  /\ left \in [Task -> Nat]

(* No set of tasks waits for locks that only its own members hold, and      *)
(* nobody waits for a lock of a task that has faulted: "a lock is held for  *)
(* exactly one access and never nested with another global's lock           *)
(* (deadlock-free)" (iec_global.hpp).                                       *)
Waiting(t) == Doing(t, "lock") /\ owner[Coming(t).on] # "nobody"

Faulted == {t \in Task : status[t] = "faulted"}

Stuck(T) ==
  \A t \in T : Waiting(t) /\ owner[Coming(t).on] \in T \cup Faulted

DeadlockFree == \A T \in SUBSET Task : Stuck(T) => T = {}

(* Writes of different tasks to different parts of one global all survive:  *)
(* a part only one task writes holds, between that task's statements, what  *)
(* the task last assigned to it (iec_global.hpp, "different-field writes    *)
(* from different tasks all survive").  Not so the bit of a global that is  *)
(* itself a word, whose write is lost with the temporary it goes to         *)
(* (LosesBit): of those the property says only that they disturb no other.  *)
WritesPart(t, g, p) ==
  \E n \in DOMAIN Body[t] :
    LET s == Body[t][n]
    IN  /\ s.kind \notin {"fetch", "getall"}
        /\ s.to[1] = g
        /\ s.kind \in BitWrites \union {"inout"} => s.at = p

\* t sets the bit in a temporary: no value of the global comes of it.
LosesBit(t, g, p) ==
  \E n \in DOMAIN Body[t] :
    LET s == Body[t][n]
    IN  s.kind = "scalarbit" /\ s.to[1] = g /\ s.at = p

SoleWriter ==
  {w \in Task \X Global \X Part :
     /\ WritesPart(w[1], w[2], w[3]) /\ ~LosesBit(w[1], w[2], w[3])
     /\ \A u \in Task \ {w[1]} : ~WritesPart(u, w[2], w[3])}

FieldsSurvive ==
  \A w \in SoleWriter :
    at[w[1]].op = 1 => value[w[2]][w[3]] = meant[w[2]][w[3]]

(* A copy of a whole global is one of the values it was given, never a      *)
(* mixture of two: a global whose fields are only ever assigned together    *)
(* and in step is copied with its fields in step ("no torn read/write").    *)
InStep ==
  {g \in Global :
     \A t \in Task : \A n \in DOMAIN Body[t] :
       LET s == Body[t][n]
       IN  s.kind \notin {"fetch", "getall"} /\ s.to[1] = g
             => s.kind = "putall"}

Copied(t, g) ==
  \E n \in DOMAIN Body[t] :
    /\ Body[t][n].kind = "getall" /\ Body[t][n].to[1] = g
    /\ at[t] = [stmt |-> n, op |-> Len(Ops(t))]

CopiesAreWhole ==
  \A t \in Task, g \in InStep :
    Copied(t, g) => \A p, q \in Part : copy[t][p] = copy[t][q]

(* Every activation ends, in a return or a fault, however the threads are   *)
(* scheduled and whoever else faults while holding what.                    *)
ActivationsEnd == \A t \in Task : status[t] = "running" ~> status[t] # "running"
=============================================================================
