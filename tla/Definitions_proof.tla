------------------------- MODULE Definitions_proof -------------------------
(***************************************************************************)
(* The two sorts keep to the order DefinitionOrder promises, and a program *)
(* gets exactly the library chunks it needs, for every program and every   *)
(* set of libraries.                                                       *)
(***************************************************************************)
EXTENDS BlockOrder, TypeOrder, ChunkReach, FiniteSetTheorems, TLAPS
-----------------------------------------------------------------------------
(***************************************************************************)
(* Function blocks.  While the sort runs a block waits for exactly those   *)
(* blocks it needs that are not sorted yet (Waiting), and the queue holds  *)
(* the blocks that wait for nothing and are not sorted (Ready).  So a      *)
(* block is taken after all it needs; and of the blocks that are left when *)
(* the queue runs empty each needs another one of them.                    *)
(***************************************************************************)

Distinct(s) == \A i, j \in 1..Len(s) : s[i] = s[j] => i = j
Elements(s) == {s[i] : i \in 1..Len(s)}

Typed ==
  /\ members \in [Blocks -> SUBSET Blocks] /\ parent \in [Blocks -> SUBSET Blocks]
  /\ deps \in [Blocks -> SUBSET Blocks]
  /\ queue \in Seq(Blocks) /\ sorted \in Seq(Blocks)

Counted == inDegree = [b \in Blocks |-> Cardinality(deps[b])]

\* Until the rest of a cycle has been appended.
Sorting == ~(queue = <<>> /\ Sorted = Blocks)

Waiting == Sorting => \A b \in Blocks : deps[b] = NamesOrExtends[b] \ Sorted

Ready ==
  Sorting => /\ Distinct(queue) /\ Elements(queue) \cap Sorted = {}
             /\ Elements(queue) \union Sorted = {b \in Blocks : deps[b] = {}}

BlocksInv == Typed /\ Counted /\ Waiting /\ Ready

(***************************************************************************)
(* Sequences without repetitions.                                          *)
(***************************************************************************)

\* A listing of a set of blocks has each of them once.
LEMMA ListingIsOnto ==
  ASSUME NEW S \in SUBSET Blocks, NEW s \in InDeclarationOrder(S)
  PROVE  s \in Seq(Blocks) /\ Distinct(s) /\ Elements(s) = S
<1>1. Cardinality(S) \in Nat
  BY FS_Subset, FS_CardinalityType, BlockAssumption
<1> DEFINE n == Cardinality(S)
<1>2. s \in [1..n -> S] /\ \A b \in S : \E i \in 1..n : s[i] = b
  BY DEF InDeclarationOrder
<1>3. \A i, j \in 1..n : i < j => Position[s[i]] < Position[s[j]]
  BY DEF InDeclarationOrder
<1> HIDE DEF n
<1>4. n \in Nat
  BY <1>1 DEF n
<1>5. s \in Seq(S) /\ Len(s) = n
  BY <1>2, <1>4
<1>6. s \in Seq(Blocks)
  BY <1>5
<1>7. Distinct(s)
  <2> SUFFICES ASSUME NEW i \in 1..n, NEW j \in 1..n, s[i] = s[j]
               PROVE  i = j
    BY <1>5 DEF Distinct
  <2>1. Position[s[i]] \in Nat
    BY <1>2, BlockAssumption
  <2>2. ~(i < j) /\ ~(j < i)
    BY <1>3, <2>1
  <2> QED
    BY <2>2, <1>4
<1>8. Elements(s) = S
  BY <1>2, <1>5 DEF Elements
<1> QED
  BY <1>6, <1>7, <1>8

\* Two sequences that share no element.
LEMMA JoinIsDistinct ==
  ASSUME NEW s \in Seq(Blocks), NEW t \in Seq(Blocks)
  PROVE  /\ Elements(s \o t) = Elements(s) \union Elements(t)
         /\ Distinct(s) /\ Distinct(t) /\ Elements(s) \cap Elements(t) = {}
              => Distinct(s \o t)
<1>1. /\ s \o t \in Seq(Blocks) /\ Len(s \o t) = Len(s) + Len(t)
      /\ \A i \in 1..Len(s) : (s \o t)[i] = s[i]
      /\ \A i \in 1..Len(t) : (s \o t)[Len(s) + i] = t[i]
  OBVIOUS
<1> DEFINE st == s \o t
<1>2. Len(s) \in Nat /\ Len(t) \in Nat
  OBVIOUS
<1>3. ASSUME NEW i \in 1..Len(st)
      PROVE  \/ i \in 1..Len(s) /\ st[i] = s[i] /\ st[i] \in Elements(s)
             \/ /\ i - Len(s) \in 1..Len(t) /\ st[i] = t[i - Len(s)]
                /\ st[i] \in Elements(t)
  <2>1. CASE i <= Len(s)
    BY <2>1, <1>1, <1>2 DEF Elements
  <2>2. CASE ~(i <= Len(s))
    <3>1. i - Len(s) \in 1..Len(t) /\ i = Len(s) + (i - Len(s))
      BY <2>2, <1>1, <1>2
    <3> QED
      BY <3>1, <1>1 DEF Elements
  <2> QED
    BY <2>1, <2>2
<1>4. Elements(st) = Elements(s) \union Elements(t)
  <2>1. Elements(st) \subseteq Elements(s) \union Elements(t)
    BY <1>3 DEF Elements
  <2>2. Elements(s) \subseteq Elements(st)
    <3> SUFFICES ASSUME NEW i \in 1..Len(s)
                 PROVE  s[i] \in Elements(st)
      BY DEF Elements
    <3>1. i \in 1..Len(st) /\ st[i] = s[i]
      BY <1>1, <1>2
    <3> QED
      BY <3>1 DEF Elements
  <2>3. Elements(t) \subseteq Elements(st)
    <3> SUFFICES ASSUME NEW i \in 1..Len(t)
                 PROVE  t[i] \in Elements(st)
      BY DEF Elements
    <3>1. Len(s) + i \in 1..Len(st) /\ st[Len(s) + i] = t[i]
      BY <1>1, <1>2
    <3> QED
      BY <3>1 DEF Elements
  <2> QED
    BY <2>1, <2>2, <2>3
<1>5. ASSUME Distinct(s), Distinct(t), Elements(s) \cap Elements(t) = {}
      PROVE  Distinct(st)
  <2> SUFFICES ASSUME NEW i \in 1..Len(st), NEW j \in 1..Len(st), st[i] = st[j]
               PROVE  i = j
    BY DEF Distinct
  <2> HIDE DEF st
  <2>1. CASE i \in 1..Len(s) /\ st[i] = s[i] /\ st[i] \in Elements(s)
    <3>1. j \in 1..Len(s) /\ st[j] = s[j]
      BY <1>3, <1>5, <2>1
    <3> QED
      BY <3>1, <2>1, <1>5 DEF Distinct
  <2>2. CASE /\ i - Len(s) \in 1..Len(t) /\ st[i] = t[i - Len(s)]
             /\ st[i] \in Elements(t)
    <3>1. j - Len(s) \in 1..Len(t) /\ st[j] = t[j - Len(s)]
      BY <1>3, <1>5, <2>2
    <3>2. i - Len(s) = j - Len(s)
      BY <3>1, <2>2, <1>5 DEF Distinct
    <3> QED
      BY <3>2, <1>2
  <2> QED
    BY <1>3, <2>1, <2>2
<1> QED
  BY <1>4, <1>5

\* The queue without the block taken from it.
LEMMA TailIsDistinct ==
  ASSUME NEW s \in Seq(Blocks), s # <<>>, Distinct(s)
  PROVE  /\ Head(s) \in Blocks /\ Tail(s) \in Seq(Blocks) /\ Distinct(Tail(s))
         /\ Head(s) \in Elements(s)
         /\ Elements(Tail(s)) = Elements(s) \ {Head(s)}
<1>1. /\ Len(s) \in Nat /\ Len(s) > 0
      /\ Tail(s) \in Seq(Blocks) /\ Len(Tail(s)) = Len(s) - 1
      /\ \A i \in 1..Len(Tail(s)) : Tail(s)[i] = s[i + 1]
  OBVIOUS
<1>2. Head(s) = s[1] /\ 1 \in 1..Len(s) /\ Head(s) \in Blocks
  BY <1>1
<1>3. Distinct(Tail(s))
  <2> SUFFICES ASSUME NEW i \in 1..Len(Tail(s)), NEW j \in 1..Len(Tail(s)),
                      Tail(s)[i] = Tail(s)[j]
               PROVE  i = j
    BY DEF Distinct
  <2>1. s[i + 1] = s[j + 1] /\ i + 1 \in 1..Len(s) /\ j + 1 \in 1..Len(s)
    BY <1>1
  <2>2. i + 1 = j + 1
    BY <2>1 DEF Distinct
  <2> QED
    BY <2>2, <1>1
<1>4. ASSUME NEW x
      PROVE  x \in Elements(Tail(s)) <=> x \in Elements(s) \ {Head(s)}
  <2>1. ASSUME NEW i \in 1..Len(Tail(s)), x = Tail(s)[i]
        PROVE  x \in Elements(s) \ {Head(s)}
    <3>1. x = s[i + 1] /\ i + 1 \in 1..Len(s) /\ i + 1 # 1
      BY <2>1, <1>1
    <3>2. s[i + 1] # s[1]
      BY <3>1, <1>2 DEF Distinct
    <3> QED
      BY <3>1, <3>2, <1>2 DEF Elements
  <2>2. ASSUME NEW i \in 1..Len(s), x = s[i], x # s[1]
        PROVE  x \in Elements(Tail(s))
    <3>1. i # 1 /\ i - 1 \in 1..Len(Tail(s)) /\ (i - 1) + 1 = i
      BY <2>2, <1>1
    <3>2. Tail(s)[i - 1] = x
      BY <3>1, <2>2, <1>1
    <3> QED
      BY <3>1, <3>2 DEF Elements
  <2> QED
    BY <2>1, <2>2, <1>2 DEF Elements
<1> QED
  BY <1>1, <1>2, <1>3, <1>4 DEF Elements

\* A count is zero when nothing is waited for.
LEMMA CountOfDeps ==
  ASSUME NEW S \in SUBSET Blocks
  PROVE  Cardinality(S) = 0 <=> S = {}
BY FS_Subset, FS_EmptySet, BlockAssumption

\* What the sort waits for is what a block names or extends.
LEMMA DependsOnNeeds ==
  ASSUME Typed
  PROVE  DependsOn = NamesOrExtends /\ NamesOrExtends \in [Blocks -> SUBSET Blocks]
BY DEF Typed, DependsOn, NamesOrExtends

(***************************************************************************)
(* The invariant holds at first and in every step.                         *)
(***************************************************************************)

LEMMA BlocksInitInv == BlocksInit => BlocksInv
<1> SUFFICES ASSUME BlocksInit
             PROVE  BlocksInv
  OBVIOUS
<1> USE DEF BlocksInit
<1>1. deps \in [Blocks -> SUBSET Blocks]
  BY DEF DependsOn
<1> DEFINE R == {b \in Blocks : inDegree[b] = 0}
<1>2. R = {b \in Blocks : deps[b] = {}}
  BY <1>1, CountOfDeps
<1>3. queue \in Seq(Blocks) /\ Distinct(queue) /\ Elements(queue) = R
  <2>1. R \in SUBSET Blocks /\ queue \in InDeclarationOrder(R)
    OBVIOUS
  <2> QED
    BY <2>1, ListingIsOnto
<1>4. Sorted = {}
  BY DEF Sorted
<1>5. Typed
  BY <1>1, <1>3 DEF Typed
<1>6. Counted
  BY DEF Counted
<1>7. Waiting
  BY <1>4, <1>5, DependsOnNeeds DEF Waiting
<1>8. Ready
  BY <1>2, <1>3, <1>4 DEF Ready
<1> QED
  BY <1>5, <1>6, <1>7, <1>8 DEF BlocksInv

\* The elements of the order are those of Sorted.
LEMMA AppendSorted ==
  ASSUME sorted \in Seq(Blocks), NEW b \in Blocks, sorted' = Append(sorted, b)
  PROVE  sorted' \in Seq(Blocks) /\ Sorted' = Sorted \union {b}
<1>1. /\ sorted' \in Seq(Blocks) /\ Len(sorted') = Len(sorted) + 1 /\ Len(sorted) \in Nat
      /\ sorted'[Len(sorted) + 1] = b
      /\ \A i \in 1..Len(sorted) : sorted'[i] = sorted[i]
  OBVIOUS
<1>2. 1..Len(sorted') = 1..Len(sorted) \union {Len(sorted) + 1}
  BY <1>1
<1>3. Sorted' = {sorted'[i] : i \in 1..Len(sorted')}
  BY DEF Sorted
<1> QED
  BY <1>1, <1>2, <1>3 DEF Sorted

\* The block taken waits for nothing, and the queue stays the blocks that do.
LEMMA TakeKeepsInv ==
  ASSUME BlocksInv, TakeBlock
  PROVE  BlocksInv' /\ Head(queue) \in Blocks \ Sorted /\ deps[Head(queue)] = {}
           /\ NamesOrExtends[Head(queue)] \subseteq Sorted
<1> DEFINE taken == Head(queue)
           waiting == {b \in Blocks : taken \in deps[b]}
           freed == {b \in waiting : inDegree'[b] = 0}
<1> USE DEF BlocksInv
<1>1. /\ queue # <<>> /\ sorted' = Append(sorted, taken)
      /\ deps' = [b \in Blocks |-> deps[b] \ {taken}]
      /\ inDegree' = [b \in Blocks |->
                        IF b \in waiting THEN inDegree[b] - 1 ELSE inDegree[b]]
      /\ \E ready \in InDeclarationOrder(freed) : queue' = Tail(queue) \o ready
      /\ UNCHANGED blockGraph
  BY DEF TakeBlock
<1>2. PICK ready \in InDeclarationOrder(freed) : queue' = Tail(queue) \o ready
  BY <1>1
<1>3. ready \in Seq(Blocks) /\ Distinct(ready) /\ Elements(ready) = freed
  <2>1. freed \in SUBSET Blocks
    OBVIOUS
  <2> QED
    BY <2>1, <1>2, ListingIsOnto
<1>4. /\ Sorting /\ Distinct(queue) /\ Elements(queue) \cap Sorted = {}
      /\ Elements(queue) \union Sorted = {b \in Blocks : deps[b] = {}}
  BY <1>1 DEF Sorting, Ready
<1>5. /\ taken \in Blocks /\ Tail(queue) \in Seq(Blocks) /\ Distinct(Tail(queue))
      /\ taken \in Elements(queue) /\ Elements(Tail(queue)) = Elements(queue) \ {taken}
  BY <1>1, <1>4, TailIsDistinct DEF Typed
<1>6. taken \in Blocks \ Sorted /\ deps[taken] = {}
  BY <1>4, <1>5
<1>7. \A b \in Blocks : deps[b] = NamesOrExtends[b] \ Sorted
  BY <1>4 DEF Waiting
<1>8. sorted' \in Seq(Blocks) /\ Sorted' = Sorted \union {taken}
  BY <1>1, <1>5, AppendSorted DEF Typed
<1>9. deps' \in [Blocks -> SUBSET Blocks] /\ \A b \in Blocks : deps'[b] = deps[b] \ {taken}
  BY <1>1 DEF Typed
<1>10. NamesOrExtends' = NamesOrExtends
  BY <1>1 DEF blockGraph, NamesOrExtends
<1>11. Counted'
  <2>1. ASSUME NEW b \in Blocks
        PROVE  Cardinality(deps'[b]) =
                 IF b \in waiting THEN Cardinality(deps[b]) - 1 ELSE Cardinality(deps[b])
    <3>1. IsFiniteSet(deps[b])
      BY FS_Subset, BlockAssumption DEF Typed
    <3> QED
      BY <3>1, <1>9, FS_RemoveElement
  <2>2. \A b \in Blocks : inDegree[b] = Cardinality(deps[b])
    BY DEF Counted
  <2> HIDE DEF taken, waiting
  <2>3. inDegree' = [b \in Blocks |-> Cardinality(deps'[b])]
    BY <2>1, <2>2, <1>1
  <2> QED
    BY <2>3 DEF Counted
<1>12. \A b \in Blocks : inDegree'[b] = 0 <=> deps'[b] = {}
  BY <1>9, <1>11, CountOfDeps DEF Counted
<1>13. freed = {b \in Blocks : deps'[b] = {} /\ taken \in deps[b]}
  BY <1>12
<1>14. /\ queue' \in Seq(Blocks)
       /\ Elements(queue') = (Elements(queue) \ {taken}) \union freed
       /\ Elements(Tail(queue)) \cap Elements(ready) = {} => Distinct(queue')
  <2> HIDE DEF taken, freed
  <2> DEFINE rest == Tail(queue)
  <2>1. rest \in Seq(Blocks) /\ Distinct(rest) /\ Elements(rest) = Elements(queue) \ {taken}
    BY <1>5
  <2> HIDE DEF rest
  <2>2. /\ Elements(rest \o ready) = Elements(rest) \union Elements(ready)
        /\ Elements(rest) \cap Elements(ready) = {} => Distinct(rest \o ready)
    BY <1>3, <2>1, JoinIsDistinct
  <2>3. queue' = rest \o ready /\ queue' \in Seq(Blocks)
    BY <1>2, <1>3, <2>1 DEF rest
  <2> QED
    BY <1>3, <2>1, <2>2, <2>3 DEF rest
<1>15. Elements(Tail(queue)) \cap Elements(ready) = {}
  BY <1>3, <1>4, <1>5, <1>13
<1>16. Typed'
  BY <1>1, <1>8, <1>9, <1>14 DEF Typed, blockGraph
<1>17. Waiting'
  BY <1>7, <1>8, <1>9, <1>10 DEF Waiting
<1>18. Ready'
  <2>1. Elements(queue') \cap Sorted' = {}
    BY <1>4, <1>6, <1>8, <1>13, <1>14
  <2>2. \A b \in Blocks : b \in Elements(queue') \union Sorted' <=> deps'[b] = {}
    <3> SUFFICES ASSUME NEW b \in Blocks
                 PROVE  b \in Elements(queue') \union Sorted' <=> deps'[b] = {}
      OBVIOUS
    <3>1. b \in Elements(queue') \union Sorted' <=>
            b \in Elements(queue) \union Sorted \/ b \in freed
      BY <1>5, <1>8, <1>14
    <3>2. b \in Elements(queue) \union Sorted <=> deps[b] = {}
      BY <1>4
    <3> QED
      BY <3>1, <3>2, <1>9, <1>13
  <2>3. Elements(queue') \subseteq Blocks /\ Sorted' \subseteq Blocks
    BY <1>8, <1>14 DEF Elements, Sorted
  <2>4. Distinct(queue')
    BY <1>14, <1>15
  <2>5. Elements(queue') \union Sorted' = {b \in Blocks : deps'[b] = {}}
    BY <2>2, <2>3
  <2>6. Ready' = (Sorting' => /\ Distinct(queue') /\ Elements(queue') \cap Sorted' = {}
                   /\ Elements(queue') \union Sorted' = {b \in Blocks : deps'[b] = {}})
    BY DEF Ready, Distinct, Elements
  <2> QED
    BY <2>1, <2>4, <2>5, <2>6
<1> QED
  BY <1>6, <1>7, <1>11, <1>16, <1>17, <1>18

\* Of the blocks left when the queue is empty each needs another of them.
LEMMA RestIsStuck ==
  ASSUME BlocksInv, AppendRest
  PROVE  /\ BlocksInv'
         /\ \A d \in Blocks \ Sorted : BlockDefinitions!Stuck(d)
         /\ \E rest \in Seq(Blocks) :
              /\ sorted' = sorted \o rest
              /\ Distinct(rest) /\ Elements(rest) = Blocks \ Sorted
<1> USE DEF BlocksInv
<1>1. /\ queue = <<>> /\ Sorted # Blocks
      /\ UNCHANGED <<members, parent, deps, inDegree, queue>>
  BY DEF AppendRest, blockGraph
<1>2. PICK rest \in InDeclarationOrder(Blocks \ Sorted) : sorted' = sorted \o rest
  BY DEF AppendRest
<1>3. rest \in Seq(Blocks) /\ Distinct(rest) /\ Elements(rest) = Blocks \ Sorted
  BY <1>2, ListingIsOnto
<1>4. sorted \in Seq(Blocks) /\ Sorted \subseteq Blocks /\ Sorted = Elements(sorted)
  BY DEF Typed, Sorted, Elements
<1>5. sorted' \in Seq(Blocks) /\ Sorted' = Blocks
  <2>1. Elements(sorted') = Sorted \union (Blocks \ Sorted) /\ sorted' \in Seq(Blocks)
    BY <1>2, <1>3, <1>4, JoinIsDistinct
  <2>2. Sorted' = Elements(sorted')
    BY DEF Sorted, Elements
  <2> QED
    BY <2>1, <2>2, <1>4
<1>6. BlocksInv'
  <2>1. ~Sorting'
    BY <1>1, <1>5 DEF Sorting
  <2> QED
    BY <2>1, <1>1, <1>5 DEF Typed, Counted, Waiting, Ready
<1>7. ASSUME NEW d \in Blocks \ Sorted
      PROVE  BlockDefinitions!Stuck(d)
  <2>1. Elements(queue) = {}
    BY <1>1 DEF Elements
  <2>2. ASSUME NEW c \in Blocks \ Sorted
        PROVE  NamesOrExtends[c] \cap (Blocks \ Sorted) # {}
    <3>1. Sorting /\ deps[c] # {}
      BY <1>1, <2>1 DEF Sorting, Ready
    <3>2. deps[c] = NamesOrExtends[c] \ Sorted /\ deps[c] \subseteq Blocks
      BY <3>1 DEF Waiting, Typed
    <3> QED
      BY <3>1, <3>2
  <2>3. Blocks \ Sorted \in SUBSET Blocks
    OBVIOUS
  <2> QED
    BY <2>2, <2>3 DEF BlockDefinitions!Stuck
<1> QED
  BY <1>2, <1>3, <1>6, <1>7

(***************************************************************************)
(* The theorems.                                                           *)
(***************************************************************************)

\* The sort never confuses what waits, what is ready and what is sorted: while
\* it runs, the queue and the order are disjoint and are together the blocks
\* that wait for nothing (topologicalSortFBs).
THEOREM BlocksInvariant == BlocksSpec => []BlocksInv
<1>1. BlocksInv /\ [BlocksNext]_blockVars => BlocksInv'
  <2> SUFFICES ASSUME BlocksInv, [BlocksNext]_blockVars
               PROVE  BlocksInv'
    OBVIOUS
  <2>1. CASE TakeBlock
    BY <2>1, TakeKeepsInv
  <2>2. CASE AppendRest
    BY <2>2, RestIsStuck
  <2>3. CASE UNCHANGED blockVars
    <3>1. UNCHANGED <<members, parent, deps, inDegree, queue, sorted>>
      BY <2>3 DEF blockVars, blockGraph
    <3>2. Sorted' = Sorted /\ NamesOrExtends' = NamesOrExtends
      BY <3>1 DEF Sorted, NamesOrExtends
    <3>3. Typed' /\ Counted'
      BY <3>1 DEF BlocksInv, Typed, Counted
    <3>4. Sorting' = Sorting /\ Elements(queue)' = Elements(queue)
      BY <3>1, <3>2 DEF Sorting, Elements
    <3>5. Waiting' /\ Ready'
      BY <3>1, <3>2, <3>4 DEF BlocksInv, Waiting, Ready, Distinct
    <3> QED
      BY <3>3, <3>5 DEF BlocksInv
  <2> QED
    BY <2>1, <2>2, <2>3 DEF BlocksNext
<1> QED
  BY <1>1, BlocksInitInv, PTL DEF BlocksSpec

\* One block more, after the blocks it needs.
LEMMA TakeWrites ==
  ASSUME BlocksInv, TakeBlock
  PROVE  BlockDefinitions!Write
<1> DEFINE taken == Head(queue)
<1>1. /\ sorted \in Seq(Blocks) /\ sorted' = Append(sorted, taken)
      /\ NamesOrExtends' = NamesOrExtends
  BY DEF BlocksInv, Typed, TakeBlock, blockGraph, NamesOrExtends
<1>2. taken \in Blocks \ Sorted /\ NamesOrExtends[taken] \subseteq Sorted
  BY TakeKeepsInv
<1> HIDE DEF taken
<1>3. /\ Len(sorted) \in Nat /\ Len(sorted') = Len(sorted) + 1
      /\ \A i \in 1..Len(sorted) : sorted'[i] = sorted[i]
      /\ sorted'[Len(sorted) + 1] = taken
  BY <1>1, <1>2
<1>4. ASSUME NEW i \in (Len(sorted) + 1)..Len(sorted')
      PROVE  /\ sorted'[i] \in Blocks \ {sorted'[k] : k \in 1..(i - 1)}
             /\ NamesOrExtends[sorted'[i]] \subseteq {sorted'[k] : k \in 1..(i - 1)}
  <2>1. i = Len(sorted) + 1 /\ i - 1 = Len(sorted)
    BY <1>3
  <2>2. {sorted'[k] : k \in 1..(i - 1)} = Sorted
    BY <2>1, <1>3 DEF Sorted
  <2> QED
    BY <1>2, <1>3, <2>1, <2>2
<1> QED
  BY <1>1, <1>3, <1>4 DEF BlockDefinitions!Write, BlockDefinitions!WrittenBefore

\* The rest of a cycle, each block once.
LEMMA AppendWrites ==
  ASSUME BlocksInv, AppendRest
  PROVE  BlockDefinitions!Write
<1>1. sorted \in Seq(Blocks) /\ NamesOrExtends' = NamesOrExtends
  BY DEF BlocksInv, Typed, AppendRest, blockGraph, NamesOrExtends
<1>2. PICK rest \in Seq(Blocks) :
        sorted' = sorted \o rest /\ Distinct(rest) /\ Elements(rest) = Blocks \ Sorted
  BY RestIsStuck
<1>3. \A d \in Blocks \ Sorted : BlockDefinitions!Stuck(d)
  BY RestIsStuck
<1>4. /\ Len(sorted) \in Nat /\ Len(rest) \in Nat /\ Len(sorted') = Len(sorted) + Len(rest)
      /\ \A i \in 1..Len(sorted) : sorted'[i] = sorted[i]
      /\ \A i \in 1..Len(rest) : sorted'[Len(sorted) + i] = rest[i]
  BY <1>1, <1>2
<1>5. ASSUME NEW i \in (Len(sorted) + 1)..Len(sorted')
      PROVE  /\ sorted'[i] \in Blocks \ Sorted
             /\ sorted'[i] \notin {sorted'[k] : k \in 1..(i - 1)}
  <2>1. /\ i - Len(sorted) \in 1..Len(rest)
        /\ i = Len(sorted) + (i - Len(sorted))
    BY <1>4
  <2>2. sorted'[i] = rest[i - Len(sorted)]
    BY <1>4, <2>1
  <2>3. sorted'[i] \in Blocks \ Sorted
    BY <1>2, <2>1, <2>2 DEF Elements
  <2>4. ASSUME NEW k \in 1..(i - 1)
        PROVE  sorted'[k] # sorted'[i]
    <3>1. CASE k <= Len(sorted)
      <4>1. sorted'[k] \in Sorted
        BY <1>4, <3>1 DEF Sorted
      <4> QED
        BY <4>1, <2>3
    <3>2. CASE ~(k <= Len(sorted))
      <4>1. /\ k - Len(sorted) \in 1..Len(rest) /\ k - Len(sorted) # i - Len(sorted)
            /\ k = Len(sorted) + (k - Len(sorted))
        BY <1>4, <2>1, <3>2
      <4>2. sorted'[k] = rest[k - Len(sorted)]
        BY <1>4, <4>1
      <4> QED
        BY <1>2, <2>1, <2>2, <4>1, <4>2 DEF Distinct
    <3> QED
      BY <3>1, <3>2
  <2> QED
    BY <2>3, <2>4
<1> QED
  BY <1>1, <1>3, <1>4, <1>5 DEF BlockDefinitions!Write, BlockDefinitions!WrittenBefore

\* Whatever blocks a program declares and however they hold and extend each
\* other, each is defined once and after those it names or extends, or is on a
\* cycle or behind one (topologicalSortFBs).
THEOREM SortedInOrder == BlocksSpec => BlocksInOrder
<1>1. BlocksInit => BlockDefinitions!Init
  BY DEF BlocksInit, BlockDefinitions!Init
<1>2. BlocksInv /\ [BlocksNext]_blockVars =>
        [BlockDefinitions!Write]_<<NamesOrExtends, sorted>>
  <2> SUFFICES ASSUME BlocksInv, [BlocksNext]_blockVars
               PROVE  BlockDefinitions!Write \/ UNCHANGED <<NamesOrExtends, sorted>>
    OBVIOUS
  <2>1. CASE TakeBlock
    BY <2>1, TakeWrites
  <2>2. CASE AppendRest
    BY <2>2, AppendWrites
  <2>3. CASE UNCHANGED blockVars
    BY <2>3 DEF blockVars, blockGraph, NamesOrExtends
  <2> QED
    BY <2>1, <2>2, <2>3 DEF BlocksNext
<1> QED
  BY <1>1, <1>2, BlocksInvariant, PTL
    DEF BlocksSpec, BlocksInOrder, BlockDefinitions!Ordered
-----------------------------------------------------------------------------
(***************************************************************************)
(* Types.  What a type on the path mentions has been written, is on the    *)
(* path, or is still to be looked at (Explored), and each type on the path *)
(* mentions the next one (Linked), so that the part of the path between a  *)
(* type and one that mentions it again is a cycle.  What a type mentions   *)
(* (Follows) is what it refers to when no inline array has a user-defined  *)
(* element type.                                                           *)
(***************************************************************************)

Mentioned == Types \union Others \union {InlineArray}
Visit == [type : Types, left : Seq(Mentioned)]

\* The types the search follows from each.
Follows == [t \in Types |-> {uses[t][i] : i \in DOMAIN uses[t]} \cap Types]

OnCycle(t) ==
  \E C \in SUBSET Types : t \in C /\ \A c \in C : Follows[c] \cap C # {}

SearchTyped ==
  /\ fields \in [Types -> Seq(Reference)] /\ uses \in [Types -> Seq(Mentioned)]
  /\ roots \in Seq(Types)
  /\ path \in Seq(Visit) /\ visited \in SUBSET Types /\ result \in Seq(Types)

OnPath(p) == {p[i].type : i \in 1..Len(p)}

Apart(p) ==
  \A i \in 1..Len(p) :
    /\ p[i].type \notin visited
    /\ \A j \in 1..Len(p) : p[i].type = p[j].type => i = j

\* But for the names in X.
Explored(p, X) ==
  \A i \in 1..Len(p) :
    /\ Elements(p[i].left) \cap Types \subseteq Follows[p[i].type]
    /\ Follows[p[i].type] \subseteq visited \union OnPath(p) \union Elements(p[i].left) \union X

Linked(p) ==
  \A i \in 1..Len(p) : i + 1 \in 1..Len(p) => p[i + 1].type \in Follows[p[i].type]

TypesInv ==
  /\ SearchTyped /\ visited = Elements(result)
  /\ Apart(path) /\ Explored(path, {}) /\ Linked(path)

LEMMA UsesStay ==
  ASSUME fields' = fields
  PROVE  uses' = uses /\ Follows' = Follows
BY DEF uses, Follows

LEMMA UsesType ==
  ASSUME fields \in [Types -> Seq(Reference)]
  PROVE  /\ uses \in [Types -> Seq(Mentioned)]
         /\ \A t \in Types : /\ DOMAIN uses[t] = DOMAIN fields[t]
                             /\ \A i \in DOMAIN fields[t] : fields[t][i] \in Reference
<1>1. ASSUME NEW x \in Reference
      PROVE  NameOf(x) \in Mentioned
  BY <1>1 DEF Reference, NameOf, Mentioned
<1>2. ASSUME NEW s \in Seq(Reference)
      PROVE  /\ [i \in DOMAIN s |-> NameOf(s[i])] \in Seq(Mentioned)
             /\ \A i \in DOMAIN s : s[i] \in Reference
  <2>1. DOMAIN s = 1..Len(s) /\ Len(s) \in Nat /\ \A i \in DOMAIN s : s[i] \in Reference
    BY <1>2
  <2> QED
    BY <1>1, <2>1
<1>3. \A t \in Types : fields[t] \in Seq(Reference)
  OBVIOUS
<1> QED
  BY <1>2, <1>3 DEF uses

LEMMA Mentions ==
  ASSUME uses \in [Types -> Seq(Mentioned)], NEW t \in Types
  PROVE  Follows[t] = Elements(uses[t]) \cap Types
<1>1. DOMAIN uses[t] = 1..Len(uses[t])
  OBVIOUS
<1> QED
  BY <1>1 DEF Follows, Elements

LEMMA VisitingIs ==
  ASSUME path \in Seq(Visit)
  PROVE  Visiting = OnPath(path)
<1>1. DOMAIN path = 1..Len(path)
  OBVIOUS
<1> QED
  BY <1>1 DEF Visiting, OnPath

LEMMA OneMoreVisit ==
  ASSUME NEW p \in Seq(Visit), NEW x \in Visit
  PROVE  /\ Append(p, x) \in Seq(Visit) /\ Len(p) \in Nat /\ Len(Append(p, x)) = Len(p) + 1
         /\ \A i \in 1..Len(p) : Append(p, x)[i] = p[i] /\ p[i] \in Visit
         /\ Append(p, x)[Len(p) + 1] = x
OBVIOUS

LEMMA BelowTop ==
  ASSUME path \in Seq(Visit), path # <<>>
  PROVE  /\ Len(path) \in Nat /\ Len(path) > 0 /\ Top = path[Len(path)] /\ Top \in Visit
         /\ Below \in Seq(Visit) /\ Len(Below) = Len(path) - 1
         /\ \A i \in 1..Len(Below) : Below[i] = path[i]
<1>1. Len(path) \in Nat /\ Len(path) > 0
  OBVIOUS
<1>2. Top = path[Len(path)] /\ Top \in Visit
  BY <1>1 DEF Top
<1>3. /\ 1 \in Nat /\ Len(path) - 1 \in Nat /\ Len(path) - 1 <= Len(path)
      /\ Below = SubSeq(path, 1, Len(path) - 1)
  BY <1>1 DEF Below
<1> DEFINE m == Len(path) - 1
<1>4. m \in Nat /\ m <= Len(path) /\ Below = SubSeq(path, 1, m)
  BY <1>3
<1> HIDE DEF m
<1>5. Below \in Seq(Visit) /\ Len(Below) = m /\ \A i \in 1..m : Below[i] = path[i]
  BY <1>1, <1>4
<1> QED
  BY <1>1, <1>2, <1>5 DEF m

LEMMA HeadAndTail ==
  ASSUME NEW s \in Seq(Mentioned), s # <<>>
  PROVE  /\ Head(s) \in Mentioned /\ Tail(s) \in Seq(Mentioned)
         /\ Elements(s) = {Head(s)} \union Elements(Tail(s))
<1>1. /\ Len(s) \in Nat /\ Len(s) > 0 /\ Head(s) = s[1] /\ Head(s) \in Mentioned
      /\ Tail(s) \in Seq(Mentioned) /\ Len(Tail(s)) = Len(s) - 1
      /\ \A i \in 1..(Len(s) - 1) : Tail(s)[i] = s[i + 1]
  OBVIOUS
<1>2. ASSUME NEW x \in Elements(s)
      PROVE  x \in {Head(s)} \union Elements(Tail(s))
  <2>1. PICK i \in 1..Len(s) : x = s[i]
    BY DEF Elements
  <2>2. CASE i = 1
    BY <1>1, <2>1, <2>2
  <2>3. CASE i # 1
    <3>1. i - 1 \in 1..(Len(s) - 1) /\ (i - 1) + 1 = i
      BY <1>1, <2>3
    <3>2. x = Tail(s)[i - 1]
      BY <1>1, <2>1, <3>1
    <3> QED
      BY <1>1, <3>1, <3>2 DEF Elements
  <2> QED
    BY <2>2, <2>3
<1>3. ASSUME NEW x \in {Head(s)} \union Elements(Tail(s))
      PROVE  x \in Elements(s)
  <2>1. CASE x = Head(s)
    <3>1. 1 \in 1..Len(s)
      BY <1>1
    <3> QED
      BY <1>1, <2>1, <3>1 DEF Elements
  <2>2. CASE x \in Elements(Tail(s))
    <3>1. PICK i \in 1..(Len(s) - 1) : x = Tail(s)[i]
      BY <1>1, <2>2 DEF Elements
    <3>2. i + 1 \in 1..Len(s) /\ x = s[i + 1]
      BY <1>1, <3>1
    <3> QED
      BY <3>2 DEF Elements
  <2> QED
    BY <2>1, <2>2
<1> QED
  BY <1>1, <1>2, <1>3

LEMMA TypesInitInv == TypesInit => TypesInv
<1> SUFFICES ASSUME TypesInit PROVE TypesInv
  OBVIOUS
<1>1. fields \in [Types -> Seq(Reference)] /\ uses \in [Types -> Seq(Mentioned)]
  <2>1. References \subseteq Seq(Reference)
    <3> SUFFICES ASSUME NEW s \in References PROVE s \in Seq(Reference)
      OBVIOUS
    <3>1. PICK n \in 0..MaxUses : s \in [1..n -> Reference]
      BY DEF References
    <3>2. n \in Nat
      BY TypesAssumption
    <3> QED
      BY <3>1, <3>2
  <2>2. fields \in [Types -> Seq(Reference)]
    BY <2>1 DEF TypesInit
  <2> QED
    BY <2>2, UsesType
<1>2. roots \in Seq(Types)
  <2>1. Cardinality(Types) \in Nat
    BY FS_CardinalityType, TypesAssumption
  <2> QED
    BY <2>1 DEF TypesInit, Listings
<1>3. /\ path = <<>> /\ visited = {} /\ result = <<>>
      /\ path \in Seq(Visit) /\ result \in Seq(Types) /\ 1..Len(path) = {} /\ 1..Len(result) = {}
  BY DEF TypesInit
<1> QED
  BY <1>1, <1>2, <1>3 DEF TypesInv, SearchTyped, Apart, Explored, Linked, Elements

\* visit(name): the name is no type, has been visited, is being visited, or is
\* now on the path.
LEMMA EnterKeeps ==
  ASSUME uses \in [Types -> Seq(Mentioned)], visited \in SUBSET Types,
         NEW p \in Seq(Visit), NEW name \in Mentioned, Visiting = OnPath(p),
         Apart(p), Explored(p, {name}), Linked(p),
         p # <<>> => name \notin Types \/ name \in Follows[p[Len(p)].type]
  PROVE  /\ Entered(p, name) \in Seq(Visit)
         /\ Apart(Entered(p, name)) /\ Explored(Entered(p, name), {})
         /\ Linked(Entered(p, name))
<1> DEFINE q == Entered(p, name)
           n == Len(p)
<1>1. \A i \in 1..n : p[i] \in Visit /\ p[i].type \in Types
  <2>1. \A i \in 1..n : p[i] \in Visit
    OBVIOUS
  <2>2. \A x \in Visit : x.type \in Types
    BY DEF Visit
  <2> QED
    BY <2>1, <2>2
<1>2. \A t \in Types : Follows[t] \subseteq Types
  BY DEF Follows
<1>3. CASE name \in Types \ (visited \union Visiting)
  <2> DEFINE x == [type |-> name, left |-> uses[name]]
  <2>1. q = Append(p, x)
    BY <1>3 DEF Entered
  <2>2. x \in Visit /\ x.type = name /\ x.left = uses[name]
    BY <1>3 DEF Visit
  <2> HIDE DEF x
  <2>3. /\ q \in Seq(Visit) /\ n \in Nat /\ Len(q) = n + 1 /\ q[n + 1] = x
        /\ \A i \in 1..n : q[i] = p[i]
    BY <2>1, <2>2, OneMoreVisit
  <2> HIDE DEF q, n
  <2>4. OnPath(q) = OnPath(p) \union {name}
    <3>1. 1..(n + 1) = (1..n) \union {n + 1}
      BY <2>3
    <3>2. OnPath(q) = {q[i].type : i \in (1..n) \union {n + 1}}
      BY <2>3, <3>1 DEF OnPath
    <3>3. OnPath(p) = {p[i].type : i \in 1..n}
      BY DEF OnPath, n
    <3> QED
      BY <2>2, <2>3, <3>2, <3>3
  <2>5. \A i \in 1..n : p[i].type # name
    BY <1>3 DEF OnPath, n
  <2>6. Apart(q)
    <3> SUFFICES ASSUME NEW i \in 1..(n + 1)
                 PROVE  /\ q[i].type \notin visited
                        /\ \A j \in 1..(n + 1) : q[i].type = q[j].type => i = j
      BY <2>3 DEF Apart
    <3>1. CASE i = n + 1
      <4>1. \A j \in 1..n : q[j].type # name
        BY <2>3, <2>5
      <4> QED
        BY <1>3, <2>2, <2>3, <3>1, <4>1
    <3>2. CASE i \in 1..n
      <4>1. q[i].type \notin visited /\ q[i].type # name
        BY <2>3, <2>5, <3>2 DEF Apart, n
      <4>2. \A j \in 1..n : q[i].type = q[j].type => i = j
        BY <2>3, <3>2 DEF Apart, n
      <4> QED
        BY <2>2, <2>3, <4>1, <4>2
    <3> QED
      BY <2>3, <3>1, <3>2
  <2>7. Explored(q, {})
    <3> SUFFICES ASSUME NEW i \in 1..(n + 1)
                 PROVE  /\ Elements(q[i].left) \cap Types \subseteq Follows[q[i].type]
                        /\ Follows[q[i].type] \subseteq
                             visited \union OnPath(q) \union Elements(q[i].left)
      BY <2>3 DEF Explored
    <3>1. CASE i = n + 1
      <4>1. Follows[name] = Elements(uses[name]) \cap Types
        BY <1>3, Mentions
      <4> QED
        BY <2>2, <2>3, <3>1, <4>1
    <3>2. CASE i \in 1..n
      BY <2>3, <2>4, <3>2 DEF Explored, n
    <3> QED
      BY <2>3, <3>1, <3>2
  <2>8. Linked(q)
    <3> SUFFICES ASSUME NEW i \in 1..n
                 PROVE  q[i + 1].type \in Follows[q[i].type]
      BY <2>3 DEF Linked
    <3>1. CASE i = n
      <4>1. n > 0 /\ p # <<>>
        BY <2>3, <3>1 DEF n
      <4>2. name \in Follows[p[n].type]
        BY <1>3, <4>1 DEF n
      <4> QED
        BY <2>2, <2>3, <3>1, <4>2
    <3>2. CASE i # n
      <4>1. i + 1 \in 1..n
        BY <2>3, <3>2
      <4> QED
        BY <2>3, <4>1 DEF Linked, n
    <3> QED
      BY <3>1, <3>2
  <2> QED
    BY <2>3, <2>6, <2>7, <2>8 DEF q
<1>4. CASE name \notin Types \ (visited \union Visiting)
  <2>1. q = p
    BY <1>4 DEF Entered
  <2>2. ASSUME NEW i \in 1..n
        PROVE  Follows[p[i].type] \subseteq visited \union OnPath(p) \union Elements(p[i].left)
    <3>1. Follows[p[i].type] \subseteq Types
      BY <1>1, <1>2
    <3>2. Follows[p[i].type] \subseteq
            visited \union OnPath(p) \union Elements(p[i].left) \union {name}
      BY DEF Explored
    <3> QED
      BY <1>4, <3>1, <3>2
  <2>3. Explored(p, {})
    BY <2>2 DEF Explored
  <2> HIDE DEF q
  <2> QED
    BY <2>1, <2>3 DEF q
<1> QED
  BY <1>3, <1>4

\* A step of the search leaves the types' references alone.
LEMMA ReferencesStay ==
  ASSUME UNCHANGED <<fields, visited>>, NEW p, NEW X
  PROVE  /\ Follows' = Follows
         /\ Apart(p) => Apart(path)' \/ p # path'
         /\ Explored(p, X) => Explored(path, X)' \/ p # path'
         /\ Linked(p) => Linked(path)' \/ p # path'
<1>1. Follows' = Follows
  BY UsesStay
<1> QED
  BY <1>1 DEF Apart, Explored, Linked, OnPath, Elements

LEMMA LookAtKeeps ==
  ASSUME TypesInv, LookAt
  PROVE  TypesInv'
<1> DEFINE x == [Top EXCEPT !.left = Tail(@)]
           q == Append(Below, x)
           name == Head(Top.left)
           n == Len(path)
<1>1. /\ uses \in [Types -> Seq(Mentioned)] /\ path \in Seq(Visit)
      /\ visited \in SUBSET Types /\ roots \in Seq(Types) /\ result \in Seq(Types)
      /\ visited = Elements(result)
      /\ Apart(path) /\ Explored(path, {}) /\ Linked(path)
  BY DEF TypesInv, SearchTyped
<1>2. /\ path # <<>> /\ Top.left # <<>> /\ path' = Entered(q, name)
      /\ UNCHANGED <<fields, roots, visited, result>>
  BY DEF LookAt
<1>3. /\ n \in Nat /\ n > 0 /\ Top = path[n] /\ Top \in Visit
      /\ Below \in Seq(Visit) /\ Len(Below) = n - 1
      /\ \A i \in 1..(n - 1) : Below[i] = path[i]
  BY <1>1, <1>2, BelowTop
<1>4. Top.left \in Seq(Mentioned) /\ Top.type \in Types
  BY <1>3 DEF Visit
<1>5. /\ name \in Mentioned /\ Tail(Top.left) \in Seq(Mentioned)
      /\ Elements(Top.left) = {name} \union Elements(Tail(Top.left))
  BY <1>2, <1>4, HeadAndTail
<1>6. x \in Visit /\ x.type = Top.type /\ x.left = Tail(Top.left)
  BY <1>3, <1>4, <1>5 DEF Visit
<1> HIDE DEF x
<1>7. /\ q \in Seq(Visit) /\ Len(q) = (n - 1) + 1 /\ q[(n - 1) + 1] = x
      /\ \A i \in 1..(n - 1) : q[i] = Below[i]
  BY <1>3, <1>6, OneMoreVisit
<1> HIDE DEF q, n, name
<1>8. /\ Len(q) = n /\ q[n] = x /\ \A i \in 1..n : i # n => q[i] = path[i]
  BY <1>3, <1>7
<1>9. \A i \in 1..n : q[i].type = path[i].type
  BY <1>3, <1>6, <1>8
<1>10. OnPath(q) = OnPath(path)
  BY <1>8, <1>9 DEF OnPath, n
<1>11. Visiting = OnPath(q)
  BY <1>1, <1>10, VisitingIs
<1>12. Apart(q)
  BY <1>1, <1>8, <1>9 DEF Apart, n
<1>13. Explored(q, {name})
  <2> SUFFICES ASSUME NEW i \in 1..n
               PROVE  /\ Elements(q[i].left) \cap Types \subseteq Follows[q[i].type]
                      /\ Follows[q[i].type] \subseteq
                           visited \union OnPath(q) \union Elements(q[i].left) \union {name}
    BY <1>8 DEF Explored
  <2>1. /\ Elements(path[i].left) \cap Types \subseteq Follows[path[i].type]
        /\ Follows[path[i].type] \subseteq
             visited \union OnPath(path) \union Elements(path[i].left)
    BY <1>1 DEF Explored, n
  <2>2. CASE i = n
    <3>1. q[i].left = Tail(Top.left) /\ q[i].type = Top.type /\ path[i] = Top
      BY <1>3, <1>6, <1>8, <2>2
    <3> QED
      BY <1>5, <1>10, <2>1, <3>1
  <2>3. CASE i # n
    BY <1>8, <1>10, <2>1, <2>3
  <2> QED
    BY <2>2, <2>3
<1>14. Linked(q)
  BY <1>1, <1>8, <1>9 DEF Linked, n
<1>15. name \notin Types \/ name \in Follows[q[Len(q)].type]
  <2>1. name \in Elements(path[n].left)
    BY <1>3, <1>5
  <2>2. Elements(path[n].left) \cap Types \subseteq Follows[path[n].type]
    BY <1>1, <1>3 DEF Explored, n
  <2>3. q[Len(q)].type = path[n].type
    BY <1>3, <1>8, <1>9
  <2> QED
    BY <1>5, <2>1, <2>2, <2>3 DEF Mentioned
<1>16. /\ path' \in Seq(Visit) /\ Apart(path') /\ Explored(path', {})
       /\ Linked(path')
  BY <1>1, <1>2, <1>5, <1>7, <1>11, <1>12, <1>13, <1>14, <1>15, EnterKeeps
<1>17. Apart(path)' /\ Explored(path, {})' /\ Linked(path)'
  BY <1>2, <1>16, ReferencesStay
<1>18. fields' \in [Types -> Seq(Reference)] /\ uses' = uses
  BY <1>2, UsesStay DEF TypesInv, SearchTyped
<1> QED
  BY <1>1, <1>2, <1>16, <1>17, <1>18 DEF TypesInv, SearchTyped, Elements

LEMMA FromRootKeeps ==
  ASSUME TypesInv, FromRoot
  PROVE  TypesInv'
<1>1. /\ uses \in [Types -> Seq(Mentioned)] /\ path \in Seq(Visit)
      /\ visited \in SUBSET Types /\ roots \in Seq(Types) /\ result \in Seq(Types)
      /\ visited = Elements(result)
      /\ Apart(path) /\ Explored(path, {}) /\ Linked(path)
  BY DEF TypesInv, SearchTyped
<1>2. /\ path = <<>> /\ roots # <<>> /\ path' = Entered(path, Head(roots))
      /\ roots' = Tail(roots) /\ UNCHANGED <<fields, visited, result>>
  BY DEF FromRoot
<1>3. Head(roots) \in Mentioned /\ Tail(roots) \in Seq(Types)
  BY <1>1, <1>2 DEF Mentioned
<1>4. Visiting = OnPath(path) /\ Explored(path, {Head(roots)})
  BY <1>1, <1>2, VisitingIs DEF Explored
<1>5. /\ path' \in Seq(Visit) /\ Apart(path') /\ Explored(path', {}) /\ Linked(path')
  BY <1>1, <1>2, <1>3, <1>4, EnterKeeps
<1>6. Apart(path)' /\ Explored(path, {})' /\ Linked(path)'
  BY <1>2, <1>5, ReferencesStay
<1>7. fields' \in [Types -> Seq(Reference)] /\ uses' = uses
  BY <1>2, UsesStay DEF TypesInv, SearchTyped
<1> QED
  BY <1>1, <1>2, <1>3, <1>5, <1>6, <1>7 DEF TypesInv, SearchTyped, Elements

\* A type is written when what it refers to is, or lies between it and itself
\* on the path.
LEMMA LeaveKeeps ==
  ASSUME TypesInv, Leave
  PROVE  /\ TypesInv'
         /\ Top.type \in Types \ visited /\ fields' = fields
         /\ Follows[Top.type] \subseteq visited \/ OnCycle(Top.type)
<1> DEFINE n == Len(path)
<1>1. /\ uses \in [Types -> Seq(Mentioned)] /\ path \in Seq(Visit)
      /\ visited \in SUBSET Types /\ roots \in Seq(Types) /\ result \in Seq(Types)
      /\ visited = Elements(result)
      /\ Apart(path) /\ Explored(path, {}) /\ Linked(path)
  BY DEF TypesInv, SearchTyped
<1>2. /\ path # <<>> /\ Top.left = <<>> /\ path' = Below
      /\ visited' = visited \union {Top.type} /\ result' = Append(result, Top.type)
      /\ UNCHANGED <<fields, roots>>
  BY DEF Leave
<1>3. /\ n \in Nat /\ n > 0 /\ Top = path[n] /\ Top \in Visit
      /\ Below \in Seq(Visit) /\ Len(Below) = n - 1
      /\ \A i \in 1..(n - 1) : Below[i] = path[i]
  BY <1>1, <1>2, BelowTop
<1>4. Top.type \in Types
  BY <1>3 DEF Visit
<1>5. Follows' = Follows
  BY <1>2, UsesStay
<1>6. Top.type \notin visited
  BY <1>1, <1>3 DEF Apart
<1>7. Elements(result)' = Elements(result) \union {Top.type}
  <2>1. /\ Len(result) \in Nat /\ Len(result') = Len(result) + 1
        /\ \A i \in 1..Len(result) : result'[i] = result[i]
        /\ result'[Len(result) + 1] = Top.type
    BY <1>1, <1>2, <1>4
  <2>2. 1..(Len(result) + 1) = (1..Len(result)) \union {Len(result) + 1}
    BY <2>1
  <2>3. Elements(result') = {result'[i] : i \in (1..Len(result)) \union {Len(result) + 1}}
    BY <2>1, <2>2 DEF Elements
  <2>4. Elements(result') = Elements(result) \union {Top.type}
    BY <2>1, <2>3 DEF Elements
  <2> QED
    BY <2>4 DEF Elements
<1>8. Len(<<>>) = 0 /\ Elements(<<>>) = {}
  BY DEF Elements
<1>9. Follows[Top.type] \subseteq visited \union OnPath(path)
  BY <1>1, <1>2, <1>3, <1>8 DEF Explored
<1> HIDE DEF n
<1>10. \A i \in 1..(n - 1) : i \in 1..n /\ path'[i] = path[i] /\ i # n
  BY <1>2, <1>3
<1>11. OnPath(path) = OnPath(path') \union {Top.type}
  <2>1. 1..n = (1..(n - 1)) \union {n}
    BY <1>3
  <2>2. OnPath(path) = {path[i].type : i \in (1..(n - 1)) \union {n}}
    BY <2>1 DEF OnPath, n
  <2>3. OnPath(path') = {path'[i].type : i \in 1..(n - 1)}
    BY <1>2, <1>3 DEF OnPath
  <2> QED
    BY <1>3, <1>10, <2>2, <2>3
<1>12. Apart(path)'
  <2> SUFFICES ASSUME NEW i \in 1..(n - 1)
               PROVE  /\ path'[i].type \notin visited'
                      /\ \A j \in 1..(n - 1) : path'[i].type = path'[j].type => i = j
    BY <1>2, <1>3 DEF Apart
  <2>1. path[i].type \notin visited /\ path[i].type # path[n].type
    BY <1>1, <1>3, <1>10 DEF Apart, n
  <2> QED
    BY <1>1, <1>2, <1>3, <1>10, <2>1 DEF Apart, n
<1>13. Explored(path, {})'
  <2> SUFFICES ASSUME NEW i \in 1..(n - 1)
               PROVE  /\ Elements(path'[i].left) \cap Types \subseteq Follows[path'[i].type]
                      /\ Follows[path'[i].type] \subseteq
                           visited' \union OnPath(path') \union Elements(path'[i].left)
    <3>1. Len(path') = n - 1 /\ OnPath(path)' = OnPath(path')
      BY <1>2, <1>3 DEF OnPath
    <3>2. \A i \in 1..(n - 1) : Elements(path[i].left)' = Elements(path'[i].left)
      BY DEF Elements
    <3> QED
      BY <1>5, <3>1, <3>2 DEF Explored
  <2>1. /\ Elements(path[i].left) \cap Types \subseteq Follows[path[i].type]
        /\ Follows[path[i].type] \subseteq
             visited \union OnPath(path) \union Elements(path[i].left)
    BY <1>1, <1>10 DEF Explored, n
  <2> QED
    BY <1>2, <1>10, <1>11, <2>1
<1>14. Linked(path)'
  <2> SUFFICES ASSUME NEW i \in 1..(n - 1), i + 1 \in 1..(n - 1)
               PROVE  path'[i + 1].type \in Follows[path'[i].type]
    BY <1>2, <1>3, <1>5 DEF Linked
  <2> QED
    BY <1>1, <1>10 DEF Linked, n
<1>15. TypesInv'
  <2>1. fields' \in [Types -> Seq(Reference)] /\ uses' = uses
    BY <1>2, UsesStay DEF TypesInv, SearchTyped
  <2> QED
    BY <1>1, <1>2, <1>3, <1>4, <1>7, <1>12, <1>13, <1>14, <2>1
    DEF TypesInv, SearchTyped
<1>16. ASSUME ~(Follows[Top.type] \subseteq visited)
       PROVE  OnCycle(Top.type)
  <2>1. PICK k \in 1..n : path[k].type \in Follows[Top.type]
    BY <1>9, <1>16 DEF OnPath, n
  <2> DEFINE C == {path[i].type : i \in k..n}
  <2>2. /\ k \in Nat /\ n \in k..n /\ k \in k..n /\ \A i \in k..n : i \in 1..n
        /\ \A i \in k..n : i # n => i + 1 \in k..n
    BY <1>3, <2>1
  <2>3. \A i \in 1..n : path[i].type \in Types
    <3>1. \A i \in 1..n : path[i] \in Visit
      BY <1>1 DEF n
    <3>2. \A x \in Visit : x.type \in Types
      BY DEF Visit
    <3> QED
      BY <3>1, <3>2
  <2>4. C \in SUBSET Types /\ Top.type \in C
    BY <1>3, <2>2, <2>3
  <2>5. ASSUME NEW i \in k..n
        PROVE  Follows[path[i].type] \cap C # {}
    <3>1. CASE i = n
      BY <1>3, <2>1, <2>2, <3>1
    <3>2. CASE i # n
      <4>1. i \in 1..n /\ i + 1 \in 1..n /\ i + 1 \in k..n
        BY <2>2, <3>2
      <4>2. path[i + 1].type \in Follows[path[i].type]
        BY <1>1, <4>1 DEF Linked, n
      <4> QED
        BY <4>1, <4>2
    <3> QED
      BY <3>1, <3>2
  <2>6. \A c \in C : Follows[c] \cap C # {}
    BY <2>5
  <2> HIDE DEF C
  <2> QED
    BY <2>4, <2>6 DEF OnCycle
<1> QED
  BY <1>2, <1>4, <1>6, <1>15, <1>16

\* The search never writes a type twice or leaves one out that it has seen:
\* what a type on the path refers to has been written, is on the path, or is
\* still to be looked at (getTypesInDependencyOrder).
THEOREM TypesInvariant == TypesSpec => []TypesInv
<1>1. TypesInv /\ [TypesNext]_typeVars => TypesInv'
  <2> SUFFICES ASSUME TypesInv, [TypesNext]_typeVars
               PROVE  TypesInv'
    OBVIOUS
  <2>1. CASE FromRoot
    BY <2>1, FromRootKeeps
  <2>2. CASE LookAt
    BY <2>2, LookAtKeeps
  <2>3. CASE Leave
    BY <2>3, LeaveKeeps
  <2>4. CASE UNCHANGED typeVars
    <3>1. UNCHANGED <<fields, roots, path, visited, result>>
      BY <2>4 DEF typeVars
    <3>2. Apart(path)' /\ Explored(path, {})' /\ Linked(path)'
      BY <3>1, ReferencesStay DEF TypesInv
    <3>3. uses' = uses
      BY <3>1, UsesStay
    <3> QED
      BY <3>1, <3>2, <3>3 DEF TypesInv, SearchTyped, Elements
  <2> QED
    BY <2>1, <2>2, <2>3, <2>4 DEF TypesNext
<1> QED
  BY <1>1, TypesInitInv, PTL DEF TypesSpec

\* The names the search goes by miss none of the types referred to.
LEMMA SearchSeesAll ==
  ASSUME ElementTypes \cap Types = {}, fields \in [Types -> Seq(Reference)]
  PROVE  RefersTo = Follows
<1>1. ASSUME NEW x \in Reference, NEW u \in Types
      PROVE  x.to = u <=> NameOf(x) = u
  BY <1>1, TypesAssumption DEF Reference, NameOf
<1>2. ASSUME NEW t \in Types, NEW u \in Types
      PROVE  u \in {fields[t][i].to : i \in DOMAIN fields[t]} <=>
               u \in {uses[t][i] : i \in DOMAIN uses[t]}
  <2>1. DOMAIN uses[t] = DOMAIN fields[t]
    BY UsesType
  <2>2. \A i \in DOMAIN fields[t] : fields[t][i].to = u <=> uses[t][i] = u
    <3> SUFFICES ASSUME NEW i \in DOMAIN fields[t]
                 PROVE  fields[t][i].to = u <=> uses[t][i] = u
      OBVIOUS
    <3>1. fields[t][i] \in Reference /\ uses[t][i] = NameOf(fields[t][i])
      BY UsesType DEF uses
    <3> QED
      BY <1>1, <3>1
  <2> QED
    BY <2>1, <2>2
<1>3. \A t \in Types : RefersTo[t] = Follows[t]
  BY <1>2 DEF RefersTo, Follows
<1> QED
  BY <1>3 DEF RefersTo, Follows

\* One type more, after the types it refers to.
LEMMA LeaveWrites ==
  ASSUME ElementTypes \cap Types = {}, TypesInv, Leave
  PROVE  TypeDefinitions!Write
<1> DEFINE n == Len(result)
           t == Top.type
<1>1. /\ result \in Seq(Types) /\ result' = Append(result, t)
      /\ visited = Elements(result)
  BY DEF TypesInv, SearchTyped, Leave
<1>2. /\ t \in Types \ visited /\ RefersTo' = RefersTo
      /\ RefersTo[t] \subseteq visited \/ TypeDefinitions!Stuck(t)
  <2>1. /\ t \in Types \ visited /\ fields' = fields
        /\ Follows[t] \subseteq visited \/ OnCycle(t)
    BY LeaveKeeps
  <2>2. RefersTo = Follows /\ RefersTo' = RefersTo
    <3>1. RefersTo = Follows
      BY SearchSeesAll DEF TypesInv, SearchTyped
    <3> QED
      BY <2>1, <3>1 DEF RefersTo
  <2> HIDE DEF t
  <2> QED
    BY <2>1, <2>2 DEF OnCycle, TypeDefinitions!Stuck
<1> HIDE DEF t
<1>3. /\ n \in Nat /\ Len(result') = n + 1 /\ result'[n + 1] = t
      /\ \A i \in 1..n : result'[i] = result[i]
  BY <1>1, <1>2
<1>4. ASSUME NEW i \in (n + 1)..Len(result')
      PROVE  /\ result'[i] \in Types \ {result'[k] : k \in 1..(i - 1)}
             /\ \/ RefersTo[result'[i]] \subseteq {result'[k] : k \in 1..(i - 1)}
                \/ TypeDefinitions!Stuck(result'[i])
  <2>1. i = n + 1 /\ i - 1 = n
    BY <1>3
  <2>2. {result'[k] : k \in 1..(i - 1)} = visited
    BY <2>1, <1>1, <1>3 DEF Elements
  <2> QED
    BY <1>2, <1>3, <2>1, <2>2
<1> QED
  BY <1>2, <1>3, <1>4 DEF TypeDefinitions!Write, TypeDefinitions!WrittenBefore

\* Whatever types a program declares and in whatever order they were
\* registered, each is written once and after those it refers to, or is on a
\* cycle of references or behind one (getTypesInDependencyOrder), as long as
\* no field is an inline array of a user-defined type.
THEOREM TypesKeepOrder ==
  ASSUME ElementTypes \cap Types = {}
  PROVE  TypesSpec => TypeDefinitions!Ordered
<1>1. TypesInit => TypeDefinitions!Init
  BY DEF TypesInit, TypeDefinitions!Init
<1>2. TypesInv /\ [TypesNext]_typeVars =>
        [TypeDefinitions!Write]_<<RefersTo, result>>
  <2> SUFFICES ASSUME TypesInv, [TypesNext]_typeVars
               PROVE  TypeDefinitions!Write \/ UNCHANGED <<RefersTo, result>>
    OBVIOUS
  <2>1. CASE Leave
    BY <2>1, LeaveWrites
  <2>2. CASE FromRoot \/ LookAt
    BY <2>2 DEF FromRoot, LookAt, RefersTo
  <2>3. CASE UNCHANGED typeVars
    BY <2>3 DEF typeVars, RefersTo
  <2> QED
    BY <2>1, <2>2, <2>3 DEF TypesNext
<1> QED
  BY <1>1, <1>2, TypesInvariant, PTL DEF TypesSpec, TypeDefinitions!Ordered
-----------------------------------------------------------------------------
(***************************************************************************)
(* Chunks.  The search keeps two facts (ReachInv): a chunk that is reached *)
(* and not pending has its dependencies reached, and what is reached is in *)
(* every selection that can be compiled.  That no two libraries own a name *)
(* makes the owner that computeChunkDeps recorded the one that is loaded.  *)
(***************************************************************************)

\* The inputs: libraries that share no name.
Inputs ==
  /\ chunks \in [Archives -> SUBSET Names] /\ refers \in [Names -> SUBSET Names]
  /\ \A a, b \in Archives : a # b => chunks[a] \cap chunks[b] = {}
  /\ loaded \in SUBSET Archives

Seeds == Available \cap referenced

Reached ==
  /\ pending \subseteq reachable /\ reachable \subseteq Available
  /\ Seeds \subseteq reachable
  /\ everything => reachable = Available

Followed == \A n \in reachable \ pending : Deps(n) \cap Available \subseteq reachable

Least ==
  ~everything =>
    \A S \in SUBSET Available :
      SelfContained(S) /\ Seeds \subseteq S => reachable \subseteq S

ReachInv == Inputs /\ Reached /\ Followed /\ Least

\* A selection that can be compiled has the dependencies of its chunks.
LEMMA DepsAreNeeded ==
  ASSUME Inputs, NEW S \in SUBSET Available, SelfContained(S), NEW n \in S
  PROVE  Deps(n) \cap Available \subseteq S
<1> SUFFICES ASSUME NEW x \in Deps(n), x \in Available
             PROVE  x \in S
  OBVIOUS
<1>1. PICK a \in Archives : n \in chunks[a] /\ x \in refers[n] /\ x \in Owned(a)
  BY DEF Deps
<1>2. PICK b \in {a} \union Compiled[a] : x \in chunks[b]
  BY <1>1 DEF Owned
<1>3. PICK c \in loaded : x \in chunks[c]
  BY DEF Available
<1>4. b \in Archives /\ c \in Archives
  BY <1>1, <1>2, <1>3, ChunkAssumption DEF Inputs
<1>5. b = c
  BY <1>2, <1>3, <1>4 DEF Inputs
<1> QED
  BY <1>1, <1>2, <1>3, <1>5 DEF SelfContained

\* What has all its dependencies can be compiled.
LEMMA ClosedIsSelfContained ==
  ASSUME Inputs, NEW S \in SUBSET Available,
         \A n \in S : Deps(n) \cap Available \subseteq S
  PROVE  SelfContained(S)
<1> SUFFICES ASSUME NEW a \in Archives, NEW b \in ({a} \union Compiled[a]) \cap loaded,
                    NEW n \in chunks[a] \cap S, NEW x \in refers[n] \cap chunks[b]
             PROVE  x \in S
  BY DEF SelfContained
<1>1. CASE x = n
  BY <1>1
<1>2. CASE x # n
  <2>1. x \in Available
    BY DEF Available
  <2>2. x \in Owned(a)
    BY DEF Owned
  <2>3. x \in Deps(n)
    BY <1>2, <2>2 DEF Deps
  <2> QED
    BY <2>1, <2>3
<1> QED
  BY <1>1, <1>2

LEMMA ReachInitInv == ReachInit => ReachInv
<1> SUFFICES ASSUME ReachInit
             PROVE  ReachInv
  OBVIOUS
<1>1. Inputs
  BY DEF ReachInit, Inputs
<1>2. Reached
  BY DEF ReachInit, Reached, Seeds
<1>3. Followed
  BY DEF ReachInit, Followed
<1>4. Least
  BY DEF ReachInit, Least, Seeds
<1> QED
  BY <1>1, <1>2, <1>3, <1>4 DEF ReachInv

LEMMA ReachStepInv == ReachInv /\ [Follow]_reachVars => ReachInv'
<1> SUFFICES ASSUME ReachInv, [Follow]_reachVars
             PROVE  ReachInv'
  OBVIOUS
<1>1. UNCHANGED <<chunks, refers, loaded, referenced, everything>>
  BY DEF Follow, reachVars, reachInputs
<1>2. /\ Available' = Available /\ Seeds' = Seeds /\ Inputs'
      /\ \A n : Deps(n)' = Deps(n)
      /\ \A S : SelfContained(S)' = SelfContained(S)
  BY <1>1 DEF ReachInv, Inputs, Available, Seeds, Deps, Owned, SelfContained
<1>3. CASE Follow
  <2>1. PICK n \in pending :
          /\ reachable' = reachable \union ((Deps(n) \cap Available) \ reachable)
          /\ pending' = (pending \ {n}) \union ((Deps(n) \cap Available) \ reachable)
    BY <1>3 DEF Follow
  <2>2. Reached'
    BY <1>1, <1>2, <2>1 DEF ReachInv, Reached
  <2>3. Followed'
    <3> SUFFICES ASSUME NEW m \in reachable' \ pending'
                 PROVE  Deps(m) \cap Available \subseteq reachable'
      BY <1>2 DEF Followed
    <3>1. CASE m = n
      BY <3>1, <2>1
    <3>2. CASE m # n
      <4>1. m \in reachable \ pending
        BY <3>2, <2>1
      <4> QED
        BY <4>1, <2>1 DEF ReachInv, Followed
    <3> QED
      BY <3>1, <3>2
  <2>4. Least'
    <3> SUFFICES ASSUME ~everything, NEW S \in SUBSET Available,
                        SelfContained(S), Seeds \subseteq S
                 PROVE  reachable' \subseteq S
      BY <1>1, <1>2 DEF Least
    <3>1. reachable \subseteq S /\ n \in S
      BY <2>1 DEF ReachInv, Least, Reached
    <3>2. Deps(n) \cap Available \subseteq S
      BY <3>1, DepsAreNeeded DEF ReachInv
    <3> QED
      BY <3>1, <3>2, <2>1
  <2> QED
    BY <1>2, <2>2, <2>3, <2>4 DEF ReachInv
<1>4. CASE UNCHANGED reachVars
  <2>1. UNCHANGED <<reachable, pending, everything>>
    BY <1>4 DEF reachVars, reachInputs
  <2>2. Reached' /\ Followed'
    BY <1>2, <2>1 DEF ReachInv, Reached, Followed
  <2>3. Least'
    BY <1>2, <2>1 DEF ReachInv, Least
  <2> QED
    BY <1>2, <2>2, <2>3 DEF ReachInv
<1> QED
  BY <1>3, <1>4

\* The search is over when nothing is pending; until then it has reached
\* nothing superfluous.
LEMMA ReachInvIsExact == ReachInv => ReachIsExact
<1> SUFFICES ASSUME ReachInv
             PROVE  ReachIsExact
  OBVIOUS
<1>1. ASSUME pending = {}
      PROVE  SelfContained(reachable)
  BY <1>1, ClosedIsSelfContained DEF ReachInv, Reached, Followed
<1> QED
  BY <1>1 DEF ReachInv, Reached, Least, Seeds, ReachIsExact

\* For all libraries, however their chunks refer to each other and whichever
\* of them are loaded, a program gets the chunks it needs and no others
\* (collectUsedSymbols).
THEOREM ReachCorrect == ReachSpec => []ReachIsExact
<1>1. ReachSpec => []ReachInv
  BY ReachInitInv, ReachStepInv, PTL DEF ReachSpec
<1> QED
  BY <1>1, ReachInvIsExact, PTL
=============================================================================
