---------------------------- MODULE Tables_proof ----------------------------
(***************************************************************************)
(* What the compiler lists: the rows of the located variables and the      *)
(* table of the variables a program retains.  The theorems of Locations    *)
(* and RetainTable.                                                        *)
(***************************************************************************)
EXTENDS Locations, RetainTable, FiniteSetTheorems, NaturalsInduction,
        WellFoundedInduction, TLAPS
-----------------------------------------------------------------------------
(***************************************************************************)
(* Lists of lists.  An induction over the naturals is a least              *)
(* counterexample that a smaller one contradicts.                          *)
(***************************************************************************)

NatLess == {p \in Nat \X Nat : p[1] < p[2]}

LEMMA LeastElement ==
  ASSUME NEW S \in SUBSET Nat, S # {}
  PROVE  \E x \in S : \A y \in S : x <= y
<1>1. IsWellFoundedOn(NatLess, Nat)
  BY NatLessThanWellFounded DEF OpToRel, NatLess
<1>2. PICK x \in S : \A y \in S : ~(<<y, x>> \in NatLess)
  BY <1>1, WFMin
<1>3. ASSUME NEW y \in S PROVE x <= y
  <2>1. x \in Nat /\ y \in Nat
    OBVIOUS
  <2>2. ~(y < x)
    BY <1>2, <2>1 DEF NatLess
  <2> QED BY <2>1, <2>2
<1> QED BY <1>3

\* FlattenSeq chooses a function.  There is one, since a shortest list of pieces
\* without one would be the extension of a list with one.

BuildsTo(seqs, m, f) ==
  f = [i \in 1 .. m |-> IF i = 1 THEN seqs[i] ELSE f[i - 1] \o seqs[i]]

Builds(seqs, f) == BuildsTo(seqs, Len(seqs), f)

LEMMA BuildsExists ==
  ASSUME NEW seqs, NEW n \in Nat
  PROVE  \E f : BuildsTo(seqs, n, f)
<1> DEFINE Bad == {m \in Nat : ~\E f : BuildsTo(seqs, m, f)}
<1>1. SUFFICES ASSUME Bad # {} PROVE FALSE
  OBVIOUS
<1>2. PICK m \in Bad : \A k \in Bad : m <= k
  <2>1. Bad \in SUBSET Nat
    OBVIOUS
  <2> QED BY <1>1, <2>1, LeastElement
<1>3. m \in Nat /\ ~\E f : BuildsTo(seqs, m, f)
  BY <1>2
<1>4. m # 0
  <2>1. ASSUME m = 0 PROVE FALSE
    <3> DEFINE e == [i \in 1 .. 0 |-> i]
    <3>1. BuildsTo(seqs, m, e)
      BY <2>1 DEF BuildsTo
    <3> QED BY <1>3, <3>1
  <2> QED BY <2>1
<1>5. m - 1 \in Nat /\ m - 1 \notin Bad
  BY <1>2, <1>3, <1>4
<1>6. PICK g : BuildsTo(seqs, m - 1, g)
  BY <1>5
<1> DEFINE Turn(h, i) == IF i = 1 THEN seqs[i] ELSE h[i - 1] \o seqs[i]
           f == [i \in 1 .. m |-> Turn(g, i)]
<1>7. \A i \in 1 .. m - 1 : f[i] = g[i]
  <2>1. TAKE i \in 1 .. m - 1
  <2>2. i \in 1 .. m
    BY <1>5
  <2>3. g[i] = Turn(g, i)
    BY <1>6 DEF BuildsTo
  <2> QED BY <2>2, <2>3
<1>8. \A i \in 1 .. m : Turn(f, i) = Turn(g, i)
  <2>1. TAKE i \in 1 .. m
  <2>2. CASE i = 1
    BY <2>2
  <2>3. CASE i # 1
    <3>1. i - 1 \in 1 .. m - 1
      BY <1>3, <2>3
    <3>2. f[i - 1] = g[i - 1]
      BY <1>7, <3>1
    <3> HIDE DEF f
    <3> QED BY <2>3, <3>2
  <2> QED BY <2>2, <2>3
<1>9. f = [i \in 1 .. m |-> Turn(f, i)]
  <2> HIDE DEF Turn
  <2> QED BY <1>8
<1>10. BuildsTo(seqs, m, f)
  <2> HIDE DEF f
  <2> QED BY <1>9 DEF BuildsTo
<1> QED
  BY <1>3, <1>10

\* The whole is the last of the pieces put together one after the other.
LEMMA FlattenBuilds ==
  ASSUME NEW seqs, Len(seqs) \in Nat, Len(seqs) # 0
  PROVE  \E f : /\ FlattenSeq(seqs) = f[Len(seqs)]
                /\ f[1] = seqs[1]
                /\ \A i \in 2 .. Len(seqs) : f[i] = f[i - 1] \o seqs[i]
<1>1. PICK g : Builds(seqs, g)
  BY BuildsExists DEF Builds, BuildsTo
<1> DEFINE f == CHOOSE x : Builds(seqs, x)
<1>2. Builds(seqs, f)
  BY <1>1
<1>3. FlattenSeq(seqs) = f[Len(seqs)]
  BY DEF FlattenSeq, Builds, BuildsTo
<1> HIDE DEF f
<1>4. \A i \in 1 .. Len(seqs) : f[i] = IF i = 1 THEN seqs[i] ELSE f[i - 1] \o seqs[i]
  BY <1>2 DEF Builds, BuildsTo
<1>5. f[1] = seqs[1]
  BY <1>4
<1>6. \A i \in 2 .. Len(seqs) : f[i] = f[i - 1] \o seqs[i]
  <2>1. TAKE i \in 2 .. Len(seqs)
  <2>2. i \in 1 .. Len(seqs) /\ i # 1
    OBVIOUS
  <2> QED BY <1>4, <2>2
<1> QED
  BY <1>3, <1>5, <1>6

\* Where the elements of flat are from: element k is ss[r[k]][e[k]], each of the
\* first m rows of ss is there once and in its order.
Runs(ss, m, flat, r, e) ==
  /\ \A k \in 1 .. Len(flat) :
       r[k] \in 1 .. m /\ e[k] \in 1 .. Len(ss[r[k]]) /\ flat[k] = ss[r[k]][e[k]]
  /\ \A i \in 1 .. m : \A j \in 1 .. Len(ss[i]) :
       \E k \in 1 .. Len(flat) : r[k] = i /\ e[k] = j
  /\ \A k, l \in 1 .. Len(flat) : r[k] = r[l] /\ e[k] = e[l] => k = l
  /\ \A k \in 2 .. Len(flat) : (r[k] = r[k - 1] /\ e[k] = e[k - 1] + 1) \/ e[k] = 1
  /\ Len(flat) # 0 => e[1] = 1

LEMMA RunsOn ==
  ASSUME NEW T, NEW ss \in Seq(Seq(T)), NEW m \in 1 .. Len(ss),
         NEW flat \in Seq(T), NEW r, NEW e, Runs(ss, m - 1, flat, r, e)
  PROVE  \E r1, e1 : Runs(ss, m, flat \o ss[m], r1, e1)
<1> DEFINE a == Len(flat)
           b == Len(ss[m])
           all == flat \o ss[m]
           r1 == [k \in 1 .. a + b |-> IF k <= a THEN r[k] ELSE m]
           e1 == [k \in 1 .. a + b |-> IF k <= a THEN e[k] ELSE k - a]
<1>1. /\ a \in Nat /\ b \in Nat /\ Len(all) = a + b /\ m \in Nat /\ m >= 1
      /\ \A k \in 1 .. a : all[k] = flat[k]
      /\ \A k \in 1 .. b : all[a + k] = ss[m][k]
  OBVIOUS
<1>2. /\ \A k \in 1 .. a :
           r[k] \in 1 .. m - 1 /\ e[k] \in 1 .. Len(ss[r[k]]) /\ flat[k] = ss[r[k]][e[k]]
      /\ \A i \in 1 .. m - 1 : \A j \in 1 .. Len(ss[i]) :
           \E k \in 1 .. a : r[k] = i /\ e[k] = j
      /\ \A k, l \in 1 .. a : r[k] = r[l] /\ e[k] = e[l] => k = l
      /\ \A k \in 2 .. a : (r[k] = r[k - 1] /\ e[k] = e[k - 1] + 1) \/ e[k] = 1
      /\ a # 0 => e[1] = 1
  BY DEF Runs
<1>3. /\ \A k \in 1 .. a : r1[k] = r[k] /\ e1[k] = e[k]
      /\ \A k \in 1 .. a + b : k > a => r1[k] = m /\ e1[k] = k - a
  BY <1>1
<1>4. b = Len(ss[m])
  OBVIOUS
<1> HIDE DEF a, b, all, r1, e1
<1>5. \A k \in 1 .. a + b :
        r1[k] \in 1 .. m /\ e1[k] \in 1 .. Len(ss[r1[k]]) /\ all[k] = ss[r1[k]][e1[k]]
  <2>1. TAKE k \in 1 .. a + b
  <2>2. CASE k <= a
    <3>1. k \in 1 .. a
      BY <1>1, <2>2
    <3>2. /\ r[k] \in 1 .. m - 1 /\ e[k] \in 1 .. Len(ss[r[k]]) /\ flat[k] = ss[r[k]][e[k]]
          /\ r1[k] = r[k] /\ e1[k] = e[k] /\ all[k] = flat[k]
      BY <1>1, <1>2, <1>3, <3>1
    <3>3. r[k] \in 1 .. m
      BY <1>1, <3>2
    <3> QED BY <3>2, <3>3
  <2>3. CASE k > a
    <3>1. k - a \in 1 .. b /\ k = a + (k - a)
      BY <1>1, <2>3
    <3>2. all[a + (k - a)] = ss[m][k - a]
      BY <1>1, <3>1
    <3>3. r1[k] = m /\ e1[k] = k - a
      BY <1>3, <2>3
    <3>4. m \in 1 .. m
      BY <1>1
    <3> QED BY <1>4, <3>1, <3>2, <3>3, <3>4
  <2> QED BY <1>1, <2>2, <2>3
<1>6. \A i \in 1 .. m : \A j \in 1 .. Len(ss[i]) :
        \E k \in 1 .. a + b : r1[k] = i /\ e1[k] = j
  <2>1. TAKE i \in 1 .. m
  <2>2. TAKE j \in 1 .. Len(ss[i])
  <2>3. CASE i = m
    <3>1. j \in 1 .. b /\ a + j \in 1 .. a + b /\ a + j > a /\ (a + j) - a = j
      BY <1>1, <1>4, <2>3
    <3> QED BY <1>3, <2>3, <3>1
  <2>4. CASE i # m
    <3>1. i \in 1 .. m - 1
      BY <1>1, <2>4
    <3>2. PICK k \in 1 .. a : r[k] = i /\ e[k] = j
      BY <1>2, <3>1
    <3>3. k \in 1 .. a + b
      BY <1>1
    <3> QED BY <1>3, <3>2, <3>3
  <2> QED BY <2>3, <2>4
<1>7. \A k, l \in 1 .. a + b : r1[k] = r1[l] /\ e1[k] = e1[l] => k = l
  <2>1. TAKE k, l \in 1 .. a + b
  <2>2. CASE k <= a /\ l <= a
    <3>1. k \in 1 .. a /\ l \in 1 .. a
      BY <1>1, <2>2
    <3> QED BY <1>2, <1>3, <3>1
  <2>3. CASE k > a /\ l > a
    <3>1. e1[k] = k - a /\ e1[l] = l - a
      BY <1>3, <2>3
    <3> QED BY <1>1, <3>1
  <2>4. CASE k <= a /\ l > a
    <3>1. k \in 1 .. a
      BY <1>1, <2>4
    <3>2. r1[k] \in 1 .. m - 1 /\ r1[l] = m
      BY <1>2, <1>3, <2>4, <3>1
    <3> QED BY <1>1, <3>2
  <2>5. CASE l <= a /\ k > a
    <3>1. l \in 1 .. a
      BY <1>1, <2>5
    <3>2. r1[l] \in 1 .. m - 1 /\ r1[k] = m
      BY <1>2, <1>3, <2>5, <3>1
    <3> QED BY <1>1, <3>2
  <2> QED BY <1>1, <2>2, <2>3, <2>4, <2>5
<1>8. \A k \in 2 .. a + b : (r1[k] = r1[k - 1] /\ e1[k] = e1[k - 1] + 1) \/ e1[k] = 1
  <2>1. TAKE k \in 2 .. a + b
  <2>2. CASE k <= a
    <3>1. k \in 2 .. a /\ k \in 1 .. a /\ k - 1 \in 1 .. a
      BY <1>1, <2>2
    <3> QED BY <1>2, <1>3, <3>1
  <2>3. CASE k = a + 1
    <3>1. e1[k] = k - a /\ k - a = 1
      BY <1>1, <1>3, <2>3
    <3> QED BY <3>1
  <2>4. CASE k > a + 1
    <3>1. k - 1 \in 1 .. a + b /\ k - 1 > a /\ k > a /\ k \in 1 .. a + b
      BY <1>1, <2>4
    <3>2. r1[k] = m /\ e1[k] = k - a /\ r1[k - 1] = m /\ e1[k - 1] = (k - 1) - a
      BY <1>3, <3>1
    <3>3. k - a = ((k - 1) - a) + 1
      BY <1>1
    <3> QED BY <3>2, <3>3
  <2> QED BY <1>1, <2>2, <2>3, <2>4
<1>10. a + b # 0 => e1[1] = 1
  <2>1. CASE a = 0
    <3>1. a + b # 0 => 1 \in 1 .. a + b /\ 1 > a /\ 1 - a = 1
      BY <1>1, <2>1
    <3> QED BY <1>3, <3>1
  <2>2. CASE a # 0
    <3>1. 1 \in 1 .. a
      BY <1>1, <2>2
    <3> QED BY <1>2, <1>3, <2>2, <3>1
  <2> QED BY <2>1, <2>2
<1>9. Runs(ss, m, all, r1, e1)
  BY <1>1, <1>5, <1>6, <1>7, <1>8, <1>10 DEF Runs
<1> QED
  BY <1>9 DEF all

LEMMA FlattenRuns ==
  ASSUME NEW T, NEW ss \in Seq(Seq(T))
  PROVE  /\ FlattenSeq(ss) \in Seq(T)
         /\ \E r, e : Runs(ss, Len(ss), FlattenSeq(ss), r, e)
<1> DEFINE n == Len(ss)
<1>1. n \in Nat
  OBVIOUS
<1>2. CASE n = 0
  <2>1. ss = <<>>
    BY <1>2
  <2>2. FlattenSeq(ss) = <<>>
    BY <2>1 DEF FlattenSeq
  <2>3. Runs(ss, 0, <<>>, <<>>, <<>>)
    BY DEF Runs
  <2> QED BY <1>2, <2>2, <2>3
<1>3. CASE n # 0
  <2>1. PICK f : /\ FlattenSeq(ss) = f[n] /\ f[1] = ss[1]
                 /\ \A i \in 2 .. n : f[i] = f[i - 1] \o ss[i]
    BY <1>1, <1>3, FlattenBuilds
  <2> DEFINE Good(m) == f[m] \in Seq(T) /\ \E r, e : Runs(ss, m, f[m], r, e)
             Bad == {m \in Nat : m \in 1 .. n /\ ~Good(m)}
  <2>2. SUFFICES ASSUME Bad # {} PROVE FALSE
    <3>1. n \in 1 .. n
      BY <1>1, <1>3
    <3> QED BY <2>1, <3>1, <1>1
  <2>3. PICK m \in Bad : \A k \in Bad : m <= k
    <3>1. Bad \in SUBSET Nat
      OBVIOUS
    <3> HIDE DEF Bad
    <3> QED BY <2>2, <3>1, LeastElement
  <2>4. m \in 1 .. n /\ ~Good(m) /\ ss[m] \in Seq(T)
    BY <2>3
  <2> HIDE DEF Good
  <2>5. CASE m = 1
    <3>1. Runs(ss, 0, <<>>, <<>>, <<>>) /\ <<>> \in Seq(T)
      BY DEF Runs
    <3>2. m - 1 = 0
      BY <2>5
    <3>3. \E r, e : Runs(ss, m, <<>> \o ss[m], r, e)
      BY <2>4, <3>1, <3>2, RunsOn
    <3>4. <<>> \o ss[m] = ss[m] /\ f[m] = ss[m]
      BY <2>1, <2>4, <2>5
    <3> QED BY <2>4, <3>3, <3>4 DEF Good
  <2>6. CASE m # 1
    <3>1. m \in 2 .. n /\ m - 1 \in 1 .. n /\ m - 1 < m
      BY <1>1, <2>4, <2>6
    <3>2. Good(m - 1)
      <4>1. ~Good(m - 1) => m - 1 \in Bad
        BY <3>1
      <4>2. m - 1 \in Bad => m <= m - 1
        BY <2>3
      <4> QED BY <3>1, <4>1, <4>2
    <3>3. PICK r, e : Runs(ss, m - 1, f[m - 1], r, e)
      BY <3>2 DEF Good
    <3>4. f[m - 1] \in Seq(T) /\ f[m] = f[m - 1] \o ss[m]
      BY <2>1, <3>1, <3>2 DEF Good
    <3>5. \E r1, e1 : Runs(ss, m, f[m - 1] \o ss[m], r1, e1)
      BY <2>4, <3>3, <3>4, RunsOn
    <3>6. f[m] \in Seq(T)
      BY <2>4, <3>4
    <3> QED BY <2>4, <3>4, <3>5, <3>6 DEF Good
  <2> QED BY <2>5, <2>6
<1> QED
  BY <1>2, <1>3

\* Element j of what is kept is s[p[j]], and every element kept is there once.
Keeps(s, ks, kept, p) ==
  /\ \A j \in 1 .. Len(kept) : p[j] \in 1 .. Len(s) /\ p[j] \in ks /\ kept[j] = s[p[j]]
  /\ \A k \in 1 .. Len(s) : k \in ks => \E j \in 1 .. Len(kept) : p[j] = k
  /\ \A j, l \in 1 .. Len(kept) : p[j] = p[l] => j = l

LEMMA KeptKeeps ==
  ASSUME NEW T, NEW s \in Seq(T), NEW ks
  PROVE  Kept(s, ks) \in Seq(T) /\ \E p : Keeps(s, ks, Kept(s, ks), p)
<1> DEFINE ss == [k \in DOMAIN s |-> IF k \in ks THEN <<s[k]>> ELSE <<>>]
           kept == FlattenSeq(ss)
<1>1. /\ ss \in Seq(Seq(T)) /\ Len(ss) = Len(s) /\ Len(s) \in Nat
      /\ \A k \in 1 .. Len(s) : ss[k] = IF k \in ks THEN <<s[k]>> ELSE <<>>
  <2>1. DOMAIN s = 1 .. Len(s) /\ Len(s) \in Nat /\ \A k \in 1 .. Len(s) : s[k] \in T
    OBVIOUS
  <2>2. ss = [k \in 1 .. Len(s) |-> IF k \in ks THEN <<s[k]>> ELSE <<>>]
    BY <2>1
  <2>3. \A k \in 1 .. Len(s) : (IF k \in ks THEN <<s[k]>> ELSE <<>>) \in Seq(T)
    <3>1. TAKE k \in 1 .. Len(s)
    <3>2. <<s[k]>> \in Seq(T)
      BY <2>1
    <3>3. <<>> \in Seq(T)
      OBVIOUS
    <3> QED BY <3>2, <3>3
  <2>4. ss \in [1 .. Len(s) -> Seq(T)]
    <3> DEFINE G(k) == IF k \in ks THEN <<s[k]>> ELSE <<>>
    <3>1. ss = [k \in 1 .. Len(s) |-> G(k)] /\ \A k \in 1 .. Len(s) : G(k) \in Seq(T)
      BY <2>2, <2>3
    <3> HIDE DEF G, ss
    <3> QED BY <3>1
  <2>5. ss \in Seq(Seq(T)) /\ Len(ss) = Len(s)
    <3> HIDE DEF ss
    <3> QED BY <2>1, <2>4
  <2> QED BY <2>1, <2>2, <2>5
<1>2. Kept(s, ks) = kept
  BY DEF Kept
<1> HIDE DEF ss
<1>3. kept \in Seq(T) /\ \E r, e : Runs(ss, Len(ss), kept, r, e)
  BY <1>1, FlattenRuns
<1>4. PICK r, e : Runs(ss, Len(s), kept, r, e)
  BY <1>1, <1>3
<1> HIDE DEF kept
<1>5. /\ \A k \in 1 .. Len(kept) :
           r[k] \in 1 .. Len(s) /\ e[k] \in 1 .. Len(ss[r[k]]) /\ kept[k] = ss[r[k]][e[k]]
      /\ \A i \in 1 .. Len(s) : \A j \in 1 .. Len(ss[i]) :
           \E k \in 1 .. Len(kept) : r[k] = i /\ e[k] = j
      /\ \A k, l \in 1 .. Len(kept) : r[k] = r[l] /\ e[k] = e[l] => k = l
  BY <1>4 DEF Runs
<1>6. \A j \in 1 .. Len(kept) : r[j] \in ks /\ e[j] = 1 /\ kept[j] = s[r[j]]
  <2>1. TAKE j \in 1 .. Len(kept)
  <2>2. r[j] \in 1 .. Len(s) /\ e[j] \in 1 .. Len(ss[r[j]]) /\ kept[j] = ss[r[j]][e[j]]
    BY <1>5
  <2>3. CASE r[j] \notin ks
    <3>1. ss[r[j]] = <<>>
      BY <1>1, <2>2, <2>3
    <3>2. Len(ss[r[j]]) = 0
      BY <3>1
    <3> QED BY <2>2, <3>2
  <2>4. CASE r[j] \in ks
    <3>1. ss[r[j]] = <<s[r[j]]>>
      BY <1>1, <2>2, <2>4
    <3>2. Len(ss[r[j]]) = 1 /\ ss[r[j]][1] = s[r[j]]
      BY <3>1
    <3>3. e[j] = 1
      BY <2>2, <3>2
    <3> QED BY <2>2, <2>4, <3>2, <3>3
  <2> QED BY <2>3, <2>4
<1>7. \A k \in 1 .. Len(s) : k \in ks => \E j \in 1 .. Len(kept) : r[j] = k
  <2>1. TAKE k \in 1 .. Len(s)
  <2>2. HAVE k \in ks
  <2>3. ss[k] = <<s[k]>>
    BY <1>1, <2>2
  <2>4. 1 \in 1 .. Len(ss[k])
    BY <2>3
  <2> QED BY <1>5, <2>4
<1>8. \A j \in 1 .. Len(kept) : r[j] \in 1 .. Len(s) /\ r[j] \in ks /\ kept[j] = s[r[j]]
  BY <1>5, <1>6
<1>9. \A j, l \in 1 .. Len(kept) : r[j] = r[l] => j = l
  BY <1>5, <1>6
<1>10. Keeps(s, ks, kept, r)
  BY <1>7, <1>8, <1>9 DEF Keeps
<1> QED
  BY <1>2, <1>3, <1>10

-----------------------------------------------------------------------------
(***************************************************************************)
(* Located declarations.  As long as nothing is reported, the claims are   *)
(* those of the declarations seen (Checked); the rows are the runs of the  *)
(* declarations, each at the slot it claims (Rows).                        *)
(***************************************************************************)

\* What the check and the rows read of a declaration.
Locatable(d) ==
  /\ d.at \in Descriptor /\ d.slots \in Nat /\ d.fits \in BOOLEAN
  /\ Bank(d.at) = <<d.at.area, d.at.size>>
  /\ FirstSlot(d.at) \in Nat

LEMMA DeclarationParts ==
  ASSUME NEW d \in Declarations
  PROVE  Locatable(d)
<1>1. d.at \in Descriptor /\ d.slots \in Nat /\ d.fits \in BOOLEAN
  BY LocationAssumption
<1>2. d.at.byteIndex \in Nat /\ d.at.bitIndex \in Nat /\ ByteBits \in Nat
  BY <1>1, ByteBitsAssumption DEF Descriptor
<1>3. d.at.byteIndex * ByteBits \in Nat
  BY <1>2
<1> QED
  BY <1>1, <1>2, <1>3 DEF Locatable, Bank, FirstSlot

SlotsOf(d) == {<<Bank(d.at), FirstSlot(d.at) + k>> : k \in 0 .. d.slots - 1}

LEMMA SlotsAre ==
  ASSUME NEW i
  PROVE  Slots(i) = SlotsOf(project[i])
BY DEF Slots, SlotsOf

\* The ranges of m slots from a and of n slots from b have one in common.
Meet(a, m, b, n) == \E k \in 0 .. m - 1, l \in 0 .. n - 1 : a + k = b + l

LEMMA RangesMeet ==
  ASSUME NEW a \in Nat, NEW m \in Nat, NEW b \in Nat, NEW n \in Nat, m # 0, n # 0
  PROVE  (a <= b + (n - 1) /\ b <= a + (m - 1)) <=> Meet(a, m, b, n)
<1>1. ASSUME a <= b + (n - 1), b <= a + (m - 1)
      PROVE  Meet(a, m, b, n)
  <2>1. CASE a <= b
    <3>1. b - a \in 0 .. m - 1 /\ 0 \in 0 .. n - 1 /\ a + (b - a) = b + 0
      BY <1>1, <2>1
    <3> QED BY <3>1 DEF Meet
  <2>2. CASE b < a
    <3>1. a - b \in 0 .. n - 1 /\ 0 \in 0 .. m - 1 /\ a + 0 = b + (a - b)
      BY <1>1, <2>2
    <3> QED BY <3>1 DEF Meet
  <2> QED BY <2>1, <2>2
<1>2. ASSUME Meet(a, m, b, n)
      PROVE  a <= b + (n - 1) /\ b <= a + (m - 1)
  BY <1>2 DEF Meet
<1> QED
  BY <1>1, <1>2

\* Two claims overlap exactly when the declarations name a common slot.
LEMMA ClaimsMeet ==
  ASSUME NEW d, NEW e, Locatable(d), Locatable(e), d.slots # 0, e.slots # 0
  PROVE  (/\ Claim(e).bank = Claim(d).bank
          /\ Claim(d).start <= Claim(e).end /\ Claim(e).start <= Claim(d).end)
         <=> SlotsOf(d) \cap SlotsOf(e) # {}
<1> DEFINE a == FirstSlot(d.at)
           b == FirstSlot(e.at)
           p == Bank(d.at)
           q == Bank(e.at)
           m == d.slots
           n == e.slots
<1>1. a \in Nat /\ b \in Nat /\ m \in Nat /\ n \in Nat /\ m # 0 /\ n # 0
  BY DEF Locatable
<1>2. /\ Claim(d).bank = p /\ Claim(d).start = a /\ Claim(d).end = a + (m - 1)
      /\ Claim(e).bank = q /\ Claim(e).start = b /\ Claim(e).end = b + (n - 1)
  BY DEF Claim
<1>3. /\ SlotsOf(d) = {<<p, a + k>> : k \in 0 .. m - 1}
      /\ SlotsOf(e) = {<<q, b + k>> : k \in 0 .. n - 1}
  BY DEF SlotsOf
<1> HIDE DEF a, b, p, q, m, n
<1>4. SlotsOf(d) \cap SlotsOf(e) # {} <=>
        p = q /\ Meet(a, m, b, n)
  <2>1. ASSUME SlotsOf(d) \cap SlotsOf(e) # {}
        PROVE  p = q /\ Meet(a, m, b, n)
    <3>1. PICK x : x \in SlotsOf(d) /\ x \in SlotsOf(e)
      BY <2>1
    <3>2. PICK k \in 0 .. m - 1 : x = <<p, a + k>>
      BY <3>1, <1>3
    <3>3. PICK l \in 0 .. n - 1 : x = <<q, b + l>>
      BY <3>1, <1>3
    <3>4. p = q /\ a + k = b + l
      BY <3>2, <3>3
    <3> QED BY <3>4 DEF Meet
  <2>2. ASSUME p = q, NEW k \in 0 .. m - 1, NEW l \in 0 .. n - 1, a + k = b + l
        PROVE  SlotsOf(d) \cap SlotsOf(e) # {}
    <3>1. <<p, a + k>> \in SlotsOf(d)
      BY <1>3
    <3>2. <<q, b + l>> \in SlotsOf(e)
      BY <1>3
    <3> QED BY <2>2, <3>1, <3>2
  <2> QED BY <2>1, <2>2 DEF Meet
<1>5. (a <= b + (n - 1) /\ b <= a + (m - 1)) <=> Meet(a, m, b, n)
  BY <1>1, RangesMeet
<1> QED
  BY <1>2, <1>4, <1>5

\* Declaration i is where it is alone.
Fine(i) ==
  Collected(i) =>
    /\ ~Misplaced(project[i]) /\ ~IllTyped(project[i])
    /\ \A j \in 1 .. i - 1 : Collected(j) => Slots(i) \cap Slots(j) = {}

Seen == {j \in 1 .. checked : Collected(j)}

Checked ==
  /\ errors = {} <=> \A i \in 1 .. checked : Fine(i)
  /\ errors = {} => claims = {Claim(project[j]) : j \in Seen}

ProjectTyped ==
  /\ project \in Seq(Declarations)
  /\ checked \in Nat /\ checked <= Len(project)
  /\ instances \in [Programs -> Int]

LEMMA InProject ==
  ASSUME project \in Seq(Declarations), NEW i \in 1 .. Len(project)
  PROVE  project[i] \in Declarations /\ Locatable(project[i])
<1>1. project[i] \in Declarations
  OBVIOUS
<1> QED BY <1>1, DeclarationParts

\* Where nothing is reported so far, a clash of ranges is a common slot.
LEMMA ClashIsCommonSlot ==
  ASSUME ProjectTyped, Checked, errors = {}, NEW i \in 1 .. Len(project), i = checked + 1,
         ~Misplaced(project[i])
  PROVE  Clashes(Claim(project[i])) <=>
           \E j \in 1 .. i - 1 : Collected(j) /\ Slots(i) \cap Slots(j) # {}
<1>1. /\ checked \in Nat /\ i - 1 = checked /\ checked <= Len(project)
      /\ project \in Seq(Declarations) /\ Len(project) \in Nat
  BY DEF ProjectTyped
<1>2. project[i].slots # 0 /\ Locatable(project[i])
  BY <1>1, InProject DEF Misplaced
<1>3. ASSUME NEW j \in 1 .. checked, Collected(j)
      PROVE  Locatable(project[j]) /\ project[j].slots # 0
  <2>1. Fine(j)
    BY <1>3 DEF Checked
  <2>2. j \in 1 .. Len(project)
    BY <1>1
  <2> QED BY <1>1, <1>3, <2>1, <2>2, InProject DEF Fine, Misplaced
<1>4. ASSUME NEW j \in 1 .. checked, Collected(j)
      PROVE  (/\ Claim(project[j]).bank = Claim(project[i]).bank
              /\ Claim(project[i]).start <= Claim(project[j]).end
              /\ Claim(project[j]).start <= Claim(project[i]).end)
             <=> Slots(i) \cap Slots(j) # {}
  BY <1>2, <1>3, <1>4, ClaimsMeet, SlotsAre
<1>5. claims = {Claim(project[j]) : j \in Seen}
  BY DEF Checked
<1>6. Clashes(Claim(project[i])) <=>
        \E j \in Seen : /\ Claim(project[j]).bank = Claim(project[i]).bank
                        /\ Claim(project[i]).start <= Claim(project[j]).end
                        /\ Claim(project[j]).start <= Claim(project[i]).end
  BY <1>5 DEF Clashes
<1> QED
  BY <1>1, <1>4, <1>6 DEF Seen

LEMMA CheckKeeps ==
  ASSUME ProjectTyped, Checked, CheckDeclaration
  PROVE  ProjectTyped' /\ Checked'
<1> DEFINE i == checked + 1
           d == project[i]
<1>1. /\ checked \in Nat /\ i \in 1 .. Len(project) /\ i - 1 = checked
      /\ project \in Seq(Declarations) /\ Len(project) \in Nat
      /\ checked' = i /\ project' = project
  BY DEF ProjectTyped, CheckDeclaration
<1>2. ProjectTyped'
  BY <1>1 DEF ProjectTyped, CheckDeclaration
<1>3. \A j : Collected(j)' = Collected(j) /\ Fine(j)' = Fine(j)
  BY <1>1 DEF Collected, Again, Global, Recorded, Fine, Slots, Misplaced, InProgram,
     IllTyped, CheckDeclaration
<1>4. (\A j \in 1 .. checked' : Fine(j)') <=> (\A j \in 1 .. checked : Fine(j)) /\ Fine(i)
  BY <1>1, <1>3
<1>5. errors # {} => errors' # {}
  BY DEF CheckDeclaration
<1>6. Seen' = IF Collected(i) THEN Seen \union {i} ELSE Seen
  BY <1>1, <1>3 DEF Seen
<1>7. CASE errors # {}
  BY <1>2, <1>4, <1>5, <1>7 DEF Checked
<1>8. CASE errors = {} /\ ~Collected(i)
  <2>1. errors' = {} /\ claims' = claims /\ Seen' = Seen
    BY <1>1, <1>6, <1>8 DEF CheckDeclaration
  <2>2. Fine(i)
    BY <1>8 DEF Fine
  <2>3. claims' = {Claim(project[j]) : j \in Seen'}
    BY <1>8, <2>1 DEF Checked
  <2> QED BY <1>1, <1>2, <1>4, <1>8, <2>1, <2>2, <2>3 DEF Checked, Claim
<1>9. CASE errors = {} /\ Collected(i) /\ Misplaced(d)
  <2>1. errors' # {}
    BY <1>1, <1>9 DEF CheckDeclaration
  <2>2. ~Fine(i)
    BY <1>9 DEF Fine
  <2> QED BY <1>2, <1>4, <2>1, <2>2 DEF Checked
<1>10. CASE errors = {} /\ Collected(i) /\ ~Misplaced(d)
  <2>1. /\ claims' = IF Clashes(Claim(d)) THEN claims ELSE claims \union {Claim(d)}
        /\ errors' = IF IllTyped(d) \/ Clashes(Claim(d)) THEN errors \union {i} ELSE errors
    BY <1>1, <1>10 DEF CheckDeclaration
  <2>2. Clashes(Claim(d)) <=>
          \E j \in 1 .. i - 1 : Collected(j) /\ Slots(i) \cap Slots(j) # {}
    BY <1>1, <1>10, ClashIsCommonSlot
  <2>3. Fine(i) <=> ~IllTyped(d) /\ ~Clashes(Claim(d))
    BY <1>10, <2>2 DEF Fine
  <2>4. errors' = {} <=> Fine(i)
    BY <1>10, <2>1, <2>3
  <2>5. errors' = {} => claims' = {Claim(project[j]) : j \in Seen'}
    <3>1. HAVE errors' = {}
    <3>2. claims' = claims \union {Claim(d)} /\ Seen' = Seen \union {i}
      BY <1>6, <1>10, <2>1, <2>3, <2>4, <3>1
    <3>3. claims = {Claim(project[j]) : j \in Seen}
      BY <1>10 DEF Checked
    <3> HIDE DEF i
    <3> QED BY <3>2, <3>3
  <2>6. errors = {} <=> \A j \in 1 .. checked : Fine(j)
    BY DEF Checked
  <2> QED BY <1>1, <1>2, <1>4, <1>10, <2>4, <2>5, <2>6 DEF Checked, Claim
<1> QED
  BY <1>7, <1>8, <1>9, <1>10

Has(d, x, slot) == Bank(x) = Bank(d.at) /\ FirstSlot(x) = slot

LEMMA DivMod ==
  ASSUME NEW n \in Nat, NEW b \in Nat \ {0}
  PROVE  (n \div b) * b + (n % b) = n /\ n \div b \in Nat /\ n % b \in Nat
OBVIOUS

LEMMA RowHasSlot ==
  ASSUME NEW d, Locatable(d), NEW slot \in Nat
  PROVE  Has(d, Row(d, slot), slot)
<1>1. d.at \in Descriptor
  BY DEF Locatable
<1>2. d.at = [area |-> d.at.area, size |-> d.at.size,
              byteIndex |-> d.at.byteIndex, bitIndex |-> d.at.bitIndex]
  BY <1>1 DEF Descriptor
<1>3. CASE d.at.size = "Bit"
  <2>1. /\ Row(d, slot).area = d.at.area /\ Row(d, slot).size = d.at.size
        /\ Row(d, slot).byteIndex = slot \div ByteBits
        /\ Row(d, slot).bitIndex = slot % ByteBits
    BY <1>2, <1>3 DEF Row
  <2>2. (slot \div ByteBits) * ByteBits + (slot % ByteBits) = slot
    BY ByteBitsAssumption, DivMod
  <2> QED BY <1>3, <2>1, <2>2 DEF Has, Bank, FirstSlot
<1>4. CASE d.at.size # "Bit"
  <2>1. /\ Row(d, slot).area = d.at.area /\ Row(d, slot).size = d.at.size
        /\ Row(d, slot).byteIndex = slot
    BY <1>2, <1>4 DEF Row
  <2> QED BY <1>4, <2>1 DEF Has, Bank, FirstSlot
<1> QED
  BY <1>3, <1>4

\* A row of declaration i: it names a slot of the declaration.
IsRow(x, p, i) ==
  /\ x.owner = i
  /\ <<Bank(x.at), FirstSlot(x.at)>> \in SlotsOf(p[i])

Apart(x, y) == x.owner = y.owner => FirstSlot(x.at) # FirstSlot(y.at)

\* Rows of the declarations up to m, those of one declaration at different slots.
Laid(rows, p, m) ==
  /\ \E T : rows \in Seq(T)
  /\ \A r \in 1 .. Len(rows) : \E i \in 1 .. m : IsRow(rows[r], p, i)
  /\ \A r, s \in 1 .. Len(rows) : r # s => Apart(rows[r], rows[s])

LEMMA RunOfRows ==
  ASSUME project \in Seq(Declarations), NEW i \in 1 .. Len(project)
  PROVE  /\ RowsOf(i) \in Seq({RowsOf(i)[k] : k \in DOMAIN RowsOf(i)})
         /\ \A r \in 1 .. Len(RowsOf(i)) : IsRow(RowsOf(i)[r], project, i)
         /\ \A r, s \in 1 .. Len(RowsOf(i)) : r # s => Apart(RowsOf(i)[r], RowsOf(i)[s])
<1> DEFINE d == project[i]
           F(k) == [owner |-> i, at |-> Row(d, FirstSlot(d.at) + (k - 1))]
<1>1. Locatable(d) /\ d.slots \in Nat /\ FirstSlot(d.at) \in Nat
  BY InProject DEF Locatable
<1>2. CASE RowsOf(i) = <<>>
  BY <1>2
<1>3. CASE RowsOf(i) = [k \in 1 .. d.slots |-> F(k)]
  <2>1. \A k \in 1 .. d.slots :
          /\ F(k).owner = i /\ Bank(F(k).at) = Bank(d.at)
          /\ FirstSlot(F(k).at) = FirstSlot(d.at) + (k - 1)
    <3>1. TAKE k \in 1 .. d.slots
    <3>2. FirstSlot(d.at) + (k - 1) \in Nat
      BY <1>1
    <3>3. Has(d, Row(d, FirstSlot(d.at) + (k - 1)), FirstSlot(d.at) + (k - 1))
      BY <1>1, <3>2, RowHasSlot
    <3> QED BY <3>3 DEF Has
  <2>2. \A k \in 1 .. d.slots : IsRow(F(k), project, i)
    <3>1. TAKE k \in 1 .. d.slots
    <3>2. k - 1 \in 0 .. d.slots - 1
      BY <1>1
    <3>3. <<Bank(F(k).at), FirstSlot(F(k).at)>> \in SlotsOf(d)
      <4> HIDE DEF F, d
      <4> QED BY <2>1, <3>2 DEF SlotsOf
    <3> HIDE DEF F
    <3> QED BY <2>1, <3>3 DEF IsRow, d
  <2>3. \A k, l \in 1 .. d.slots : k # l => Apart(F(k), F(l))
    <3>1. TAKE k, l \in 1 .. d.slots
    <3>2. k # l => FirstSlot(d.at) + (k - 1) # FirstSlot(d.at) + (l - 1)
      BY <1>1
    <3> HIDE DEF F, d
    <3> QED BY <2>1, <3>2 DEF Apart
  <2>4. Len(RowsOf(i)) = d.slots /\ \A k \in 1 .. d.slots : RowsOf(i)[k] = F(k)
    <3> HIDE DEF F, d
    <3> QED BY <1>1, <1>3
  <2>5. RowsOf(i) \in Seq({RowsOf(i)[k] : k \in DOMAIN RowsOf(i)})
    <3> HIDE DEF F, d
    <3> QED BY <1>1, <1>3
  <2> HIDE DEF F, d
  <2> QED BY <2>2, <2>3, <2>4, <2>5
<1> QED
  BY <1>2, <1>3 DEF RowsOf

LEMMA Joined ==
  ASSUME NEW A, NEW B, NEW p \in Seq(A), NEW q \in Seq(B)
  PROVE  /\ p \o q \in Seq(A \union B)
         /\ Len(p) \in Nat /\ Len(q) \in Nat /\ Len(p \o q) = Len(p) + Len(q)
         /\ \A r \in 1 .. Len(p) : (p \o q)[r] = p[r]
         /\ \A r \in 1 .. Len(q) : (p \o q)[Len(p) + r] = q[r]
<1>1. p \in Seq(A \union B) /\ q \in Seq(A \union B)
  OBVIOUS
<1> QED BY <1>1

LEMMA Split ==
  ASSUME NEW m \in Nat, NEW n \in Nat, NEW r \in 1 .. m + n
  PROVE  \/ r \in 1 .. m
         \/ r \notin 1 .. m /\ r - m \in 1 .. n /\ r = m + (r - m)
OBVIOUS

LEMMA LayOn ==
  ASSUME project \in Seq(Declarations), NEW m \in 2 .. Len(project), NEW rows, Laid(rows, project, m - 1)
  PROVE  Laid(rows \o RowsOf(m), project, m)
<1> DEFINE run == RowsOf(m)
           all == rows \o run
           a == Len(rows)
           b == Len(run)
<1>1. m \in 1 .. Len(project) /\ Len(project) \in Nat
  OBVIOUS
<1>2. PICK T : rows \in Seq(T)
  BY DEF Laid
<1>3. /\ \E U : run \in Seq(U)
      /\ \A r \in 1 .. b : IsRow(run[r], project, m)
      /\ \A r, s \in 1 .. b : r # s => Apart(run[r], run[s])
  BY <1>1, RunOfRows
<1>4. PICK U : run \in Seq(U)
  BY <1>3
<1>5. /\ all \in Seq(T \union U)
      /\ a \in Nat /\ b \in Nat /\ Len(all) = a + b
      /\ \A r \in 1 .. a : all[r] = rows[r]
      /\ \A r \in 1 .. b : all[a + r] = run[r]
  BY <1>2, <1>4, Joined
<1>6. /\ \A r \in 1 .. a : \E i \in 1 .. m - 1 : IsRow(rows[r], project, i)
      /\ \A r, s \in 1 .. a : r # s => Apart(rows[r], rows[s])
  BY DEF Laid
<1> HIDE DEF all, run, a, b
<1>7. ASSUME NEW r \in 1 .. a
      PROVE  /\ \E i \in 1 .. m - 1 : IsRow(all[r], project, i)
             /\ all[r].owner # m
  <2>1. PICK i \in 1 .. m - 1 : IsRow(rows[r], project, i)
    BY <1>6
  <2>2. all[r] = rows[r]
    BY <1>5
  <2>3. i # m
    BY <1>1
  <2> QED BY <2>1, <2>2, <2>3 DEF IsRow
<1>8. ASSUME NEW r \in 1 .. Len(all), r \notin 1 .. a
      PROVE  /\ r - a \in 1 .. b /\ all[r] = run[r - a]
             /\ IsRow(all[r], project, m) /\ all[r].owner = m
  <2>1. r - a \in 1 .. b /\ r = a + (r - a)
    BY <1>5, <1>8, Split
  <2>2. all[r] = run[r - a]
    <3>1. all[a + (r - a)] = run[r - a]
      BY <1>5, <2>1
    <3> QED BY <2>1, <3>1
  <2>3. IsRow(all[r], project, m)
    BY <1>3, <2>1, <2>2
  <2> QED BY <2>1, <2>2, <2>3 DEF IsRow
<1>9. \A r \in 1 .. Len(all) : \E i \in 1 .. m : IsRow(all[r], project, i)
  <2>1. TAKE r \in 1 .. Len(all)
  <2>2. CASE r \in 1 .. a
    <3>1. PICK i \in 1 .. m - 1 : IsRow(all[r], project, i)
      BY <1>7, <2>2
    <3>2. i \in 1 .. m
      OBVIOUS
    <3> QED BY <3>1, <3>2
  <2>3. CASE r \notin 1 .. a
    <3>1. IsRow(all[r], project, m) /\ m \in 1 .. m
      BY <1>8, <2>3
    <3> QED BY <3>1
  <2> QED BY <2>2, <2>3
<1>10. \A r, s \in 1 .. Len(all) : r # s => Apart(all[r], all[s])
  <2>1. TAKE r, s \in 1 .. Len(all)
  <2>2. CASE r \in 1 .. a /\ s \in 1 .. a
    BY <1>5, <1>6, <2>2
  <2>3. CASE r \in 1 .. a /\ s \notin 1 .. a
    BY <1>7, <1>8, <2>3 DEF Apart
  <2>4. CASE r \notin 1 .. a /\ s \in 1 .. a
    BY <1>7, <1>8, <2>4 DEF Apart
  <2>5. CASE r \notin 1 .. a /\ s \notin 1 .. a
    <3>1. /\ r - a \in 1 .. b /\ s - a \in 1 .. b
          /\ all[r] = run[r - a] /\ all[s] = run[s - a]
      BY <1>8, <2>5
    <3>2. r # s => r - a # s - a
      BY <1>5
    <3> QED BY <1>3, <3>1, <3>2
  <2> QED BY <2>2, <2>3, <2>4, <2>5
<1> QED
  BY <1>5, <1>9, <1>10 DEF Laid, all, run

LEMMA TableIsLaid ==
  ASSUME project \in Seq(Declarations), Len(project) # 0
  PROVE  Laid(FlattenSeq([i \in 1 .. Len(project) |-> RowsOf(i)]), project, Len(project))
<1> DEFINE runs == [i \in 1 .. Len(project) |-> RowsOf(i)]
           n == Len(project)
<1>1. n \in Nat /\ n # 0 /\ Len(runs) = n
  OBVIOUS
<1>2. PICK f : /\ FlattenSeq(runs) = f[n] /\ f[1] = runs[1]
               /\ \A i \in 2 .. n : f[i] = f[i - 1] \o runs[i]
  <2> HIDE DEF runs, n
  <2> QED BY <1>1, FlattenBuilds
<1> DEFINE Bad == {m \in Nat : m \in 1 .. n /\ ~Laid(f[m], project, m)}
<1>3. SUFFICES ASSUME Bad # {} PROVE FALSE
  BY <1>1, <1>2
<1>4. PICK m \in Bad : \A k \in Bad : m <= k
  <2>1. Bad \in SUBSET Nat
    OBVIOUS
  <2> QED BY <1>3, <2>1, LeastElement
<1>5. m \in 1 .. n /\ ~Laid(f[m], project, m)
  BY <1>4
<1>6. CASE m = 1
  <2>1. f[1] = RowsOf(1) /\ 1 \in 1 .. n
    BY <1>1, <1>2
  <2>2. /\ \E U : RowsOf(1) \in Seq(U)
        /\ \A r \in 1 .. Len(RowsOf(1)) : IsRow(RowsOf(1)[r], project, 1)
        /\ \A r, s \in 1 .. Len(RowsOf(1)) : r # s => Apart(RowsOf(1)[r], RowsOf(1)[s])
    BY <2>1, RunOfRows
  <2>3. 1 \in 1 .. 1
    OBVIOUS
  <2>4. Laid(RowsOf(1), project, 1)
    BY <2>2, <2>3 DEF Laid
  <2> QED BY <1>5, <1>6, <2>1, <2>4
<1>7. CASE m # 1
  <2>1. m \in 2 .. n /\ m - 1 \in 1 .. n /\ m - 1 < m
    BY <1>1, <1>5, <1>7
  <2>2. Laid(f[m - 1], project, m - 1)
    <3>1. ASSUME ~Laid(f[m - 1], project, m - 1) PROVE FALSE
      <4>1. m - 1 \in Bad
        BY <2>1, <3>1
      <4>2. m <= m - 1
        BY <1>4, <4>1
      <4> QED BY <2>1, <4>2
    <3> QED BY <3>1
  <2>3. f[m] = f[m - 1] \o RowsOf(m)
    <3>1. f[m] = f[m - 1] \o runs[m] /\ runs[m] = RowsOf(m)
      BY <1>2, <1>5, <2>1
    <3> QED BY <3>1
  <2>4. Laid(f[m - 1] \o RowsOf(m), project, m)
    <3> HIDE DEF runs
    <3> QED BY <2>1, <2>2, LayOn
  <2> QED BY <1>5, <2>3, <2>4
<1> QED
  BY <1>6, <1>7

Rows ==
  table # <<>> =>
    checked = Len(project) /\ errors = {} /\ Laid(table, project, Len(project))

LocationsInv == ProjectTyped /\ Checked /\ Rows

LEMMA LocationsStart ==
  ASSUME LocationsInit
  PROVE  LocationsInv
<1>1. project \in Seq(Declarations)
  BY DEF LocationsInit, BoundedSeq, SeqOf
<1>2. checked = 0 /\ errors = {} /\ claims = {} /\ table = <<>>
  BY DEF LocationsInit
<1>3. ProjectTyped
  <2>1. instances \in [Programs -> Int]
    BY DEF LocationsInit
  <2> QED BY <1>1, <1>2, <2>1 DEF ProjectTyped
<1>4. Seen = {} /\ 1 .. checked = {}
  BY <1>2 DEF Seen
<1>5. Checked
  BY <1>2, <1>4 DEF Checked
<1> QED
  BY <1>2, <1>3, <1>5 DEF LocationsInv, Rows

LEMMA EmitKeeps ==
  ASSUME LocationsInv, EmitRows
  PROVE  LocationsInv'
<1>1. /\ project' = project /\ checked' = checked /\ claims' = claims /\ errors' = errors
      /\ checked = Len(project) /\ errors = {}
      /\ table' = FlattenSeq([i \in 1 .. Len(project) |-> RowsOf(i)])
  BY DEF EmitRows
<1>2. \A i : Collected(i)' = Collected(i) /\ Fine(i)' = Fine(i)
  BY <1>1 DEF Collected, Again, Global, Recorded, Fine, Slots, Misplaced, InProgram,
     IllTyped, EmitRows
<1>3. ProjectTyped'
  BY <1>1 DEF LocationsInv, ProjectTyped, EmitRows
<1>4. Checked'
  <2>1. Seen' = Seen
    BY <1>1, <1>2 DEF Seen
  <2> QED BY <1>1, <1>2, <2>1 DEF LocationsInv, Checked, Claim
<1>5. CASE Len(project) = 0
  <2>1. table' = <<>>
    <3>1. [i \in 1 .. Len(project) |-> RowsOf(i)] = <<>>
      BY <1>5
    <3>2. FlattenSeq(<<>>) = <<>>
      BY DEF FlattenSeq
    <3> QED BY <1>1, <3>1, <3>2
  <2> QED BY <1>3, <1>4, <2>1 DEF LocationsInv, Rows
<1>6. CASE Len(project) # 0
  <2>1. Laid(table', project, Len(project))
    BY <1>1, <1>6, TableIsLaid DEF LocationsInv, ProjectTyped
  <2>2. Laid(table, project, Len(project))'
    BY <1>1, <2>1
  <2> QED BY <1>1, <1>3, <1>4, <2>2 DEF LocationsInv, Rows
<1> QED
  BY <1>5, <1>6

LEMMA CheckKeepsAll ==
  ASSUME LocationsInv, CheckDeclaration
  PROVE  LocationsInv'
<1>1. ProjectTyped' /\ Checked'
  BY CheckKeeps DEF LocationsInv
<1>2. table' = table /\ checked # Len(project)
  <2>1. checked < Len(project) /\ checked \in Nat
    BY DEF CheckDeclaration, LocationsInv, ProjectTyped
  <2> QED BY <2>1 DEF CheckDeclaration
<1>3. table = <<>>
  BY <1>2 DEF LocationsInv, Rows
<1> QED
  BY <1>1, <1>2, <1>3 DEF LocationsInv, Rows

LEMMA OwnersApart ==
  ASSUME LocationsInv
  PROVE  SlotsHaveOneOwner
<1> SUFFICES ASSUME checked = Len(project)
             PROVE  SlotsHaveOneOwner
  BY DEF SlotsHaveOneOwner
<1>1. errors = {} <=> \A i \in 1 .. Len(project) : Fine(i)
  BY DEF LocationsInv, Checked
<1>2. ASSUME NEW r \in 1 .. Len(table), NEW s \in 1 .. Len(table),
             Collected(table[r].owner), Collected(table[s].owner)
      PROVE  /\ r # s => \/ Bank(table[r].at) # Bank(table[s].at)
                         \/ FirstSlot(table[r].at) # FirstSlot(table[s].at)
             /\ InProgram(project[table[r].owner]) =>
                  instances[project[table[r].owner].of] <= 1
  <2>1. table # <<>>
    BY <1>2
  <2>2. errors = {} /\ Laid(table, project, Len(project))
    BY <2>1 DEF LocationsInv, Rows
  <2>3. PICK i \in 1 .. Len(project) : IsRow(table[r], project, i)
    BY <2>2 DEF Laid
  <2>4. PICK j \in 1 .. Len(project) : IsRow(table[s], project, j)
    BY <2>2 DEF Laid
  <2>5. Collected(i) /\ Collected(j) /\ Fine(i) /\ Fine(j)
    BY <1>1, <1>2, <2>2, <2>3, <2>4 DEF IsRow
  <2> DEFINE Different ==
        r # s => \/ Bank(table[r].at) # Bank(table[s].at)
                 \/ FirstSlot(table[r].at) # FirstSlot(table[s].at)
  <2>6. ASSUME i = j PROVE Different
    <3>1. r # s => Apart(table[r], table[s])
      BY <2>2 DEF Laid
    <3>2. table[r].owner = table[s].owner
      BY <2>3, <2>4, <2>6 DEF IsRow
    <3> QED BY <3>1, <3>2 DEF Apart
  <2>7. ASSUME i # j PROVE Different
    <3>1. i < j \/ j < i
      BY <2>7
    <3>2. Slots(i) \cap Slots(j) = {}
      <4>1. CASE j < i
        <5>1. j \in 1 .. i - 1
          BY <4>1
        <5> QED BY <2>5, <5>1 DEF Fine
      <4>2. CASE i < j
        <5>1. i \in 1 .. j - 1
          BY <4>2
        <5>2. Slots(j) \cap Slots(i) = {}
          BY <2>5, <5>1 DEF Fine
        <5> QED BY <5>2
      <4> QED BY <3>1, <4>1, <4>2
    <3>3. /\ <<Bank(table[r].at), FirstSlot(table[r].at)>> \in Slots(i)
          /\ <<Bank(table[s].at), FirstSlot(table[s].at)>> \in Slots(j)
      BY <2>3, <2>4, SlotsAre DEF IsRow
    <3>4. <<Bank(table[r].at), FirstSlot(table[r].at)>> #
            <<Bank(table[s].at), FirstSlot(table[s].at)>>
      BY <3>2, <3>3
    <3> QED BY <3>4
  <2>8. InProgram(project[i]) => instances[project[i].of] <= 1
    <3>1. project[i] \in Declarations /\ instances \in [Programs -> Int]
      BY InProject DEF LocationsInv, ProjectTyped
    <3>2. instances[project[i].of] \in Int
      BY <3>1, LocationAssumption
    <3>3. InProgram(project[i]) => ~(instances[project[i].of] > 1)
      BY <2>5 DEF Fine, Misplaced
    <3> QED BY <3>2, <3>3
  <2> QED BY <2>3, <2>6, <2>7, <2>8 DEF IsRow
<1> QED
  BY <1>1, <1>2 DEF SlotsHaveOneOwner, Fine

\* However many declarations, instances and slots a project has: it is refused
\* exactly when a declaration has no place or two name a common slot, and the
\* rows of what is accepted name different slots, none of them bound by two
\* instances (validateLocatedVariables, pushLocatedDescriptors).
THEOREM SlotsAlwaysOwned == LocationsSpec => []SlotsHaveOneOwner
<1>1. LocationsInit => LocationsInv
  BY LocationsStart
<1>2. LocationsInv /\ [LocationsNext]_locationVars => LocationsInv'
  <2> SUFFICES ASSUME LocationsInv, [LocationsNext]_locationVars
               PROVE  LocationsInv'
    OBVIOUS
  <2>1. CASE CheckDeclaration
    BY <2>1, CheckKeepsAll
  <2>2. CASE EmitRows
    BY <2>2, EmitKeeps
  <2>3. CASE UNCHANGED locationVars
    BY <2>3 DEF locationVars, LocationsInv, ProjectTyped, Checked, Rows, Seen, Fine,
       Collected, Again, Global, Recorded, Slots, Misplaced, InProgram, IllTyped, Laid, IsRow
  <2> QED BY <2>1, <2>2, <2>3 DEF LocationsNext
<1>3. LocationsInv => SlotsHaveOneOwner
  BY OwnersApart
<1> QED
  BY <1>1, <1>2, <1>3, PTL DEF LocationsSpec

-----------------------------------------------------------------------------
(***************************************************************************)
(* The retain table: chains.  A chain of members leads from a variable of  *)
(* the project to a leaf.  The walk reaches a chain member by member, the  *)
(* reference collects the chains by their length; nesting bounds it.       *)
(***************************************************************************)

Name   == STRING
StepT  == [home : BlockTypes \union {Program}, m : Members]
ChainT == [at : Seq(Name), steps : Seq(StepT)]

\* The first n steps of a chain, and a chain with one more.
Cut(c, n) == [at |-> c.at, steps |-> SubSeq(c.steps, 1, n)]
OneMore(c, s) == [c EXCEPT !.steps = Append(@, s)]

LEMMA SameChain ==
  ASSUME NEW c \in ChainT, NEW x \in ChainT, c.at = x.at, Len(c.steps) = Len(x.steps),
         \A i \in 1 .. Len(c.steps) : c.steps[i] = x.steps[i]
  PROVE  c = x
<1>1. c.steps \in Seq(StepT) /\ x.steps \in Seq(StepT)
  BY DEF ChainT
<1>2. c.steps = x.steps
  BY <1>1
<1>3. c = [at |-> c.at, steps |-> c.steps] /\ x = [at |-> x.at, steps |-> x.steps]
  BY DEF ChainT
<1> QED BY <1>2, <1>3

LEMMA CutIs ==
  ASSUME NEW c \in ChainT, NEW n \in Nat, n <= Len(c.steps)
  PROVE  /\ Cut(c, n) \in ChainT /\ Cut(c, n).at = c.at
         /\ Len(Cut(c, n).steps) = n
         /\ \A i \in 1 .. n : Cut(c, n).steps[i] = c.steps[i]
<1>1. c.steps \in Seq(StepT) /\ c.at \in Seq(Name)
  BY DEF ChainT
<1>2. /\ SubSeq(c.steps, 1, n) \in Seq(StepT)
      /\ Len(SubSeq(c.steps, 1, n)) = n
      /\ \A i \in 1 .. n : SubSeq(c.steps, 1, n)[i] = c.steps[i]
  BY <1>1
<1> QED BY <1>1, <1>2 DEF Cut, ChainT

LEMMA OneMoreIs ==
  ASSUME NEW c \in ChainT, NEW s \in StepT
  PROVE  /\ OneMore(c, s) \in ChainT /\ OneMore(c, s).at = c.at
         /\ Len(c.steps) \in Nat
         /\ Len(OneMore(c, s).steps) = Len(c.steps) + 1
         /\ \A i \in 1 .. Len(c.steps) : OneMore(c, s).steps[i] = c.steps[i]
         /\ OneMore(c, s).steps[Len(c.steps) + 1] = s
<1>1. c.steps \in Seq(StepT) /\ c.at \in Seq(Name)
  BY DEF ChainT
<1>2. c = [at |-> c.at, steps |-> c.steps]
  BY DEF ChainT
<1>3. OneMore(c, s) = [at |-> c.at, steps |-> Append(c.steps, s)]
  BY <1>2 DEF OneMore
<1>4. /\ Append(c.steps, s) \in Seq(StepT) /\ Len(c.steps) \in Nat
      /\ Len(Append(c.steps, s)) = Len(c.steps) + 1
      /\ \A i \in 1 .. Len(c.steps) : Append(c.steps, s)[i] = c.steps[i]
      /\ Append(c.steps, s)[Len(c.steps) + 1] = s
  BY <1>1
<1> QED BY <1>1, <1>3, <1>4 DEF ChainT

\* The variable a chain begins at.
RootOf(c) == [at |-> c.at, steps |-> <<c.steps[1]>>]

\* A chain begins at a variable, each step is a member of the one before.
IsChain(u, c) ==
  /\ c \in ChainT /\ c.steps # <<>> /\ RootOf(c) \in Roots(u)
  /\ \A i \in 2 .. Len(c.steps) :
       /\ c.steps[i - 1].m.type \in BlockTypes
       /\ c.steps[i] \in MembersOf(u, c.steps[i - 1].m.type)

\* No block extends another.  What a block inherits is not walked, so that with
\* this left out the table is not what is declared (RetainedInstancesAreWhole).
NoParents == \A p \in Sources : \A b \in BlockTypes : p.blocks[b].parent = {}

\* What the proofs use of a project, from the assumption and the hypothesis that
\* no block extends another.
Flat(u) ==
  /\ u.globals \in Seq(Members) /\ u.vars \in Seq(Members) /\ u.instances \in Seq(Name)
  /\ \A g \in Range(u.globals) : g.in = "var"
  /\ \A i, j \in DOMAIN u.instances : u.instances[i] = u.instances[j] => i = j
  /\ DifferentNames(u.vars)
  /\ Nests(u.blocks)
  /\ \A b \in BlockTypes :
       /\ u.blocks[b].from \in {"project", "library", "older"}
       /\ u.blocks[b].members \in Seq(Members)
       /\ DifferentNames(u.blocks[b].members)
       /\ MembersOf(u, b) = {Step(b, m) : m \in Range(u.blocks[b].members)}

LEMMA SourcesFlat ==
  ASSUME NoParents, NEW u \in Sources
  PROVE  Flat(u)
<1>1. \A b \in BlockTypes :
        MembersOf(u, b) = {Step(b, m) : m \in Range(u.blocks[b].members)}
  <2>1. TAKE b \in BlockTypes
  <2>2. u.blocks[b].parent = {}
    BY DEF NoParents
  <2>3. {b} \union u.blocks[b].parent = {b}
    BY <2>2
  <2> QED BY <2>3 DEF MembersOf
<1> QED
  BY <1>1, TableAssumption DEF Flat, Name

LEMMA RangeOf ==
  ASSUME NEW T, NEW s \in Seq(T), NEW x
  PROVE  x \in Range(s) <=> \E k \in 1 .. Len(s) : x = s[k]
BY DEF Range

LEMMA RangeTyped ==
  ASSUME NEW T, NEW s \in Seq(T), NEW x \in Range(s)
  PROVE  x \in T
BY RangeOf

\* One variable of each name is left of the globals.
Firsts(globals) == {k \in DOMAIN globals : FirstOfName(globals, k)}

LEMMA GlobalsDistinct ==
  ASSUME NEW u, Flat(u)
  PROVE  /\ Distinct(u.globals) \in Seq(Members) /\ DifferentNames(Distinct(u.globals))
         /\ \A g \in Range(Distinct(u.globals)) : g.in = "var" /\ g \in Range(u.globals)
<1> DEFINE g == u.globals
           d == Distinct(u.globals)
<1>1. g \in Seq(Members) /\ Len(g) \in Nat /\ DOMAIN g = 1 .. Len(g)
  BY DEF Flat
<1>2. d = Kept(g, Firsts(g))
  BY DEF Distinct, Firsts
<1>3. d \in Seq(Members) /\ \E p : Keeps(g, Firsts(g), d, p)
  BY <1>1, <1>2, KeptKeeps
<1>4. PICK p : Keeps(g, Firsts(g), d, p)
  BY <1>3
<1> HIDE DEF d, g
<1>5. /\ \A j \in 1 .. Len(d) : p[j] \in 1 .. Len(g) /\ p[j] \in Firsts(g) /\ d[j] = g[p[j]]
      /\ \A j, l \in 1 .. Len(d) : p[j] = p[l] => j = l
  BY <1>4 DEF Keeps
<1>6. ASSUME NEW j \in 1 .. Len(d), NEW l \in 1 .. Len(d), d[j].name = d[l].name
      PROVE  j = l
  <2>1. /\ p[j] \in 1 .. Len(g) /\ p[l] \in 1 .. Len(g)
        /\ FirstOfName(g, p[j]) /\ FirstOfName(g, p[l])
        /\ g[p[j]].name = g[p[l]].name
    BY <1>5, <1>6 DEF Firsts
  <2>2. ~(p[j] < p[l])
    <3>1. p[j] < p[l] => p[j] \in 1 .. p[l] - 1
      BY <1>1, <2>1
    <3> QED BY <2>1, <3>1 DEF FirstOfName
  <2>3. ~(p[l] < p[j])
    <3>1. p[l] < p[j] => p[l] \in 1 .. p[j] - 1
      BY <1>1, <2>1
    <3> QED BY <2>1, <3>1 DEF FirstOfName
  <2>4. p[j] = p[l]
    BY <1>1, <2>1, <2>2, <2>3
  <2> QED BY <1>5, <2>4
<1>7. DOMAIN d = 1 .. Len(d)
  BY <1>3
<1>8. DifferentNames(d)
  BY <1>6, <1>7 DEF DifferentNames
<1>9. \A x \in Range(d) : x.in = "var" /\ x \in Range(g)
  <2>1. TAKE x \in Range(d)
  <2>2. PICK j \in 1 .. Len(d) : x = d[j]
    BY <1>3, RangeOf
  <2>3. p[j] \in 1 .. Len(g) /\ d[j] = g[p[j]]
    BY <1>5
  <2>4. x \in Range(g)
    BY <1>1, <2>2, <2>3, RangeOf
  <2> QED BY <2>4 DEF Flat, g
<1> QED
  BY <1>3, <1>8, <1>9 DEF d, g

\* A root: a variable of the globals, or of the program in one of its instances.
IsRoot(u, c) ==
  \/ \E m \in Range(Distinct(u.globals)) : c = [at |-> <<>>, steps |-> <<Step(Program, m)>>]
  \/ \E m \in Range(u.vars) : \E i \in Range(u.instances) :
       c = [at |-> <<i>>, steps |-> <<Step(Program, m)>>]

LEMMA RootsAre ==
  ASSUME NEW u, Flat(u), NEW c
  PROVE  /\ c \in Roots(u) <=> IsRoot(u, c)
         /\ c \in Roots(u) => c \in ChainT /\ Len(c.steps) = 1 /\ RootOf(c) = c
<1>1. c \in Roots(u) <=> IsRoot(u, c)
  BY DEF Roots, IsRoot
<1>2. ASSUME NEW m \in Members, NEW at \in Seq(Name),
             c = [at |-> at, steps |-> <<Step(Program, m)>>]
      PROVE  c \in ChainT /\ Len(c.steps) = 1 /\ RootOf(c) = c
  <2>1. Step(Program, m) \in StepT
    BY DEF Step, StepT
  <2>2. <<Step(Program, m)>> \in Seq(StepT)
    BY <2>1
  <2>3. c \in ChainT
    BY <1>2, <2>2 DEF ChainT
  <2>4. c.steps[1] = Step(Program, m) /\ Len(c.steps) = 1
    BY <1>2
  <2> QED BY <1>2, <2>3, <2>4 DEF RootOf
<1>3. Distinct(u.globals) \in Seq(Members) /\ u.vars \in Seq(Members)
      /\ u.instances \in Seq(Name)
  BY GlobalsDistinct DEF Flat
<1>4. ASSUME IsRoot(u, c)
      PROVE  c \in ChainT /\ Len(c.steps) = 1 /\ RootOf(c) = c
  <2>1. CASE \E m \in Range(Distinct(u.globals)) : c = [at |-> <<>>, steps |-> <<Step(Program, m)>>]
    <3>1. PICK m \in Range(Distinct(u.globals)) : c = [at |-> <<>>, steps |-> <<Step(Program, m)>>]
      BY <2>1
    <3>2. m \in Members
      BY <1>3, RangeTyped
    <3>3. <<>> \in Seq(Name)
      OBVIOUS
    <3> QED BY <1>2, <3>1, <3>2, <3>3
  <2>2. CASE \E m \in Range(u.vars) : \E i \in Range(u.instances) :
               c = [at |-> <<i>>, steps |-> <<Step(Program, m)>>]
    <3>1. PICK m \in Range(u.vars), i \in Range(u.instances) :
                 c = [at |-> <<i>>, steps |-> <<Step(Program, m)>>]
      BY <2>2
    <3>2. m \in Members /\ i \in Name
      BY <1>3, RangeTyped
    <3>3. <<i>> \in Seq(Name)
      BY <3>2
    <3> QED BY <1>2, <3>1, <3>2, <3>3
  <2> QED BY <1>4, <2>1, <2>2 DEF IsRoot
<1> QED
  BY <1>1, <1>4

LEMMA LastIs ==
  ASSUME NEW T, NEW s \in Seq(T), s # <<>>
  PROVE  Len(s) \in Nat \ {0} /\ Last(s) = s[Len(s)] /\ Last(s) \in T
BY DEF Last

LEMMA MembersTyped ==
  ASSUME NEW u, Flat(u), NEW b \in BlockTypes, NEW s \in MembersOf(u, b)
  PROVE  /\ s \in StepT /\ s.home = b /\ s.m \in Range(u.blocks[b].members)
         /\ s = Step(b, s.m) /\ s.m \in Members
<1>1. PICK m \in Range(u.blocks[b].members) : s = Step(b, m)
  BY DEF Flat
<1>2. m \in Members
  BY RangeTyped DEF Flat
<1> QED BY <1>1, <1>2 DEF Step, StepT

LEMMA ChainParts ==
  ASSUME NEW u, Flat(u), NEW c, IsChain(u, c)
  PROVE  /\ c \in ChainT /\ c.steps \in Seq(StepT) /\ Len(c.steps) \in Nat \ {0}
         /\ Last(c.steps) = c.steps[Len(c.steps)] /\ Last(c.steps) \in StepT
         /\ IsRoot(u, RootOf(c))
         /\ \A i \in 1 .. Len(c.steps) : c.steps[i] \in StepT
<1>1. c \in ChainT /\ c.steps \in Seq(StepT) /\ c.steps # <<>> /\ RootOf(c) \in Roots(u)
  BY DEF IsChain, ChainT
<1>2. IsRoot(u, RootOf(c))
  BY <1>1, RootsAre
<1>3. \A i \in 1 .. Len(c.steps) : c.steps[i] \in StepT
  BY <1>1
<1>4. Len(c.steps) \in Nat \ {0} /\ Last(c.steps) = c.steps[Len(c.steps)] /\ Last(c.steps) \in StepT
  BY <1>1, LastIs
<1> QED BY <1>1, <1>2, <1>3, <1>4

LEMMA CutChain ==
  ASSUME NEW u, Flat(u), NEW c, IsChain(u, c), NEW n \in 1 .. Len(c.steps)
  PROVE  IsChain(u, Cut(c, n))
<1> DEFINE x == Cut(c, n)
<1>1. /\ c \in ChainT /\ Len(c.steps) \in Nat /\ n \in Nat /\ n >= 1 /\ n <= Len(c.steps)
  BY ChainParts
<1>2. /\ x \in ChainT /\ x.at = c.at /\ Len(x.steps) = n
      /\ \A i \in 1 .. n : x.steps[i] = c.steps[i]
  BY <1>1, CutIs
<1> HIDE DEF x
<1>3. x.steps # <<>> /\ RootOf(x) = RootOf(c)
  BY <1>1, <1>2 DEF RootOf
<1>4. \A i \in 2 .. n : /\ x.steps[i - 1].m.type \in BlockTypes
                        /\ x.steps[i] \in MembersOf(u, x.steps[i - 1].m.type)
  <2>1. TAKE i \in 2 .. n
  <2>2. i \in 2 .. Len(c.steps) /\ i \in 1 .. n /\ i - 1 \in 1 .. n
    BY <1>1
  <2> QED BY <1>2, <2>2 DEF IsChain
<1>5. IsChain(u, x)
  BY <1>2, <1>3, <1>4 DEF IsChain
<1> QED BY <1>5 DEF x

LEMMA OneMoreChain ==
  ASSUME NEW u, Flat(u), NEW c, IsChain(u, c), Last(c.steps).m.type \in BlockTypes,
         NEW s \in MembersOf(u, Last(c.steps).m.type)
  PROVE  IsChain(u, OneMore(c, s)) /\ s \in StepT
<1> DEFINE x == OneMore(c, s)
           n == Len(c.steps)
<1>1. c \in ChainT /\ n \in Nat \ {0} /\ Last(c.steps) = c.steps[n] /\ s \in StepT
  BY ChainParts, MembersTyped
<1>2. /\ x \in ChainT /\ x.at = c.at /\ Len(x.steps) = n + 1
      /\ \A i \in 1 .. n : x.steps[i] = c.steps[i]
      /\ x.steps[n + 1] = s
  BY <1>1, OneMoreIs
<1> HIDE DEF x, n
<1>3. x.steps # <<>> /\ RootOf(x) = RootOf(c)
  BY <1>1, <1>2 DEF RootOf
<1>4. \A i \in 2 .. n + 1 : /\ x.steps[i - 1].m.type \in BlockTypes
                            /\ x.steps[i] \in MembersOf(u, x.steps[i - 1].m.type)
  <2>1. TAKE i \in 2 .. n + 1
  <2>2. CASE i = n + 1
    <3>1. i - 1 = n /\ n \in 1 .. n
      BY <1>1, <2>2
    <3> QED BY <1>1, <1>2, <2>2, <3>1
  <2>3. CASE i # n + 1
    <3>1. i \in 2 .. n /\ i \in 1 .. n /\ i - 1 \in 1 .. n
      BY <1>1, <2>3
    <3> QED BY <1>2, <3>1 DEF IsChain, n
  <2> QED BY <2>2, <2>3
<1>5. IsChain(u, x)
  BY <1>2, <1>3, <1>4 DEF IsChain
<1> QED BY <1>1, <1>5 DEF x

\* A chain of more than one step is a shorter one and a member of its last type.
LEMMA ChainEnds ==
  ASSUME NEW u, Flat(u), NEW x, IsChain(u, x), NEW n \in Nat \ {0}, Len(x.steps) = n + 1
  PROVE  /\ IsChain(u, Cut(x, n)) /\ Len(Cut(x, n).steps) = n
         /\ Last(Cut(x, n).steps).m.type \in BlockTypes
         /\ Last(x.steps) \in MembersOf(u, Last(Cut(x, n).steps).m.type)
         /\ x = OneMore(Cut(x, n), Last(x.steps))
<1> DEFINE c == Cut(x, n)
           s == Last(x.steps)
<1>1. x \in ChainT /\ s = x.steps[n + 1] /\ s \in StepT /\ n <= Len(x.steps)
  BY ChainParts
<1>2. IsChain(u, c)
  BY CutChain
<1>3. /\ c \in ChainT /\ c.at = x.at /\ Len(c.steps) = n
      /\ \A i \in 1 .. n : c.steps[i] = x.steps[i]
  BY <1>1, CutIs
<1>4. Last(c.steps) = c.steps[n]
  BY <1>2, <1>3, ChainParts
<1> HIDE DEF c, s
<1>5. n + 1 \in 2 .. Len(x.steps) /\ (n + 1) - 1 = n /\ n \in 1 .. n
  OBVIOUS
<1>6. x.steps[n].m.type \in BlockTypes /\ x.steps[n + 1] \in MembersOf(u, x.steps[n].m.type)
  BY <1>5 DEF IsChain
<1>7. Last(c.steps).m.type \in BlockTypes /\ s \in MembersOf(u, Last(c.steps).m.type)
  BY <1>1, <1>3, <1>4, <1>5, <1>6
<1>8. /\ OneMore(c, s) \in ChainT /\ OneMore(c, s).at = c.at
      /\ Len(OneMore(c, s).steps) = n + 1
      /\ \A i \in 1 .. n : OneMore(c, s).steps[i] = c.steps[i]
      /\ OneMore(c, s).steps[n + 1] = s
  BY <1>1, <1>3, OneMoreIs
<1>9. \A i \in 1 .. n + 1 : OneMore(c, s).steps[i] = x.steps[i]
  <2>1. TAKE i \in 1 .. n + 1
  <2>2. i = n + 1 \/ i \in 1 .. n
    OBVIOUS
  <2> QED BY <1>1, <1>3, <1>8, <2>2
<1>10. x = OneMore(c, s)
  BY <1>1, <1>3, <1>8, <1>9, SameChain
<1> QED BY <1>2, <1>3, <1>7, <1>10 DEF c, s

\* The chains of n + 1 steps.
Level(u, n) == {c \in ChainT : IsChain(u, c) /\ Len(c.steps) = n + 1}

LEMMA LevelZero ==
  ASSUME NEW u, Flat(u)
  PROVE  Level(u, 0) = Roots(u)
<1>1. ASSUME NEW c \in Roots(u) PROVE c \in Level(u, 0)
  <2>1. c \in ChainT /\ Len(c.steps) = 1 /\ RootOf(c) = c
    BY RootsAre
  <2>2. c.steps # <<>> /\ RootOf(c) \in Roots(u) /\ 2 .. Len(c.steps) = {}
    BY <2>1
  <2>3. IsChain(u, c)
    BY <2>1, <2>2 DEF IsChain
  <2> QED BY <2>1, <2>3 DEF Level
<1>2. ASSUME NEW c \in Level(u, 0) PROVE c \in Roots(u)
  <2>1. c \in ChainT /\ Len(c.steps) = 1 /\ RootOf(c) \in Roots(u)
    BY DEF Level, IsChain
  <2>2. /\ RootOf(c) \in ChainT /\ Len(RootOf(c).steps) = 1
        /\ RootOf(c).at = c.at /\ RootOf(c).steps[1] = c.steps[1]
    BY <2>1, RootsAre DEF RootOf
  <2>3. RootOf(c) = c
    BY <2>1, <2>2, SameChain
  <2> QED BY <2>1, <2>3
<1> QED BY <1>1, <1>2

LEMMA LongerIs ==
  ASSUME NEW u, NEW cs, NEW x
  PROVE  x \in Longer(u, cs) <=>
           \E c \in cs : /\ Last(c.steps).m.type \in BlockTypes
                        /\ \E s \in MembersOf(u, Last(c.steps).m.type) : x = OneMore(c, s)
<1> DEFINE F(c) == {OneMore(c, s) : s \in MembersOf(u, Last(c.steps).m.type)}
           B == {c \in cs : Last(c.steps).m.type \in BlockTypes}
<1>1. Longer(u, cs) = UNION {F(c) : c \in B}
  BY Zenon DEF Longer, OneMore
<1>2. \A c : x \in F(c) <=> \E s \in MembersOf(u, Last(c.steps).m.type) : x = OneMore(c, s)
  OBVIOUS
<1>3. \A c : c \in B <=> c \in cs /\ Last(c.steps).m.type \in BlockTypes
  OBVIOUS
<1> HIDE DEF F, B
<1> QED BY <1>1, <1>2, <1>3

LEMMA LevelNext ==
  ASSUME NEW u, Flat(u), NEW n \in Nat
  PROVE  Level(u, n + 1) = Longer(u, Level(u, n))
<1>1. ASSUME NEW x \in Longer(u, Level(u, n)) PROVE x \in Level(u, n + 1)
  <2>1. PICK c \in Level(u, n) : \E s \in MembersOf(u, Last(c.steps).m.type) :
               Last(c.steps).m.type \in BlockTypes /\ x = OneMore(c, s)
    BY LongerIs
  <2>2. PICK s \in MembersOf(u, Last(c.steps).m.type) :
               Last(c.steps).m.type \in BlockTypes /\ x = OneMore(c, s)
    BY <2>1
  <2>3. IsChain(u, c) /\ c \in ChainT /\ Len(c.steps) = n + 1
    BY DEF Level
  <2>4. IsChain(u, x) /\ s \in StepT
    BY <2>2, <2>3, OneMoreChain
  <2>5. x \in ChainT /\ Len(x.steps) = (n + 1) + 1
    BY <2>2, <2>3, <2>4, OneMoreIs
  <2> QED BY <2>4, <2>5 DEF Level
<1>2. ASSUME NEW x \in Level(u, n + 1) PROVE x \in Longer(u, Level(u, n))
  <2> DEFINE c == Cut(x, n + 1)
             s == Last(x.steps)
  <2>1. IsChain(u, x) /\ Len(x.steps) = (n + 1) + 1 /\ n + 1 \in Nat \ {0}
    BY DEF Level
  <2>2. /\ IsChain(u, c) /\ Len(c.steps) = n + 1
        /\ Last(c.steps).m.type \in BlockTypes
        /\ s \in MembersOf(u, Last(c.steps).m.type)
        /\ x = OneMore(c, s)
    BY <2>1, ChainEnds
  <2> HIDE DEF c, s
  <2>3. c \in Level(u, n)
    BY <2>2 DEF Level, IsChain
  <2> QED BY <2>2, <2>3, LongerIs
<1> QED BY <1>1, <1>2

\* Nesting bounds the length of a chain.
LEMMA ChainIsShort ==
  ASSUME NEW u, Flat(u), NEW c, IsChain(u, c)
  PROVE  Len(c.steps) - 1 <= Cardinality(BlockTypes)
<1> DEFINE N == Cardinality(BlockTypes)
           n == Len(c.steps)
           T(i) == c.steps[i].m.type
<1>1. N \in Nat
  BY TableAssumption, FS_CardinalityType
<1>2. n \in Nat \ {0}
  BY ChainParts
<1>3. PICK rank \in [BlockTypes -> 1 .. N] :
         \A b \in BlockTypes : \A m \in Range(u.blocks[b].members) :
           m.type \in BlockTypes => rank[m.type] < rank[b]
  BY DEF Flat, Nests
<1>4. \A i \in 2 .. n : T(i - 1) \in BlockTypes /\ c.steps[i] \in MembersOf(u, T(i - 1))
  BY DEF IsChain
<1>5. \A i \in 2 .. n : T(i) \in BlockTypes => rank[T(i)] < rank[T(i - 1)]
  <2>1. TAKE i \in 2 .. n
  <2>2. c.steps[i].m \in Range(u.blocks[T(i - 1)].members)
    BY <1>4, MembersTyped
  <2> QED BY <1>3, <1>4, <2>2
<1> DEFINE Bad == {i \in Nat : i \in 1 .. n - 1 /\ ~(rank[T(i)] + i <= N + 1)}
<1> HIDE DEF T, N, n
<1>6. \A i \in 1 .. n - 1 : T(i) \in BlockTypes /\ rank[T(i)] \in 1 .. N
  <2>1. TAKE i \in 1 .. n - 1
  <2>2. i + 1 \in 2 .. n /\ (i + 1) - 1 = i
    BY <1>2
  <2>3. T((i + 1) - 1) \in BlockTypes
    BY <1>4, <2>2
  <2>4. T(i) \in BlockTypes
    BY <2>2, <2>3
  <2> QED BY <1>3, <2>4
<1>7. Bad = {}
  <2>1. SUFFICES ASSUME Bad # {} PROVE FALSE
    OBVIOUS
  <2>2. PICK i \in Bad : \A k \in Bad : i <= k
    <3>1. Bad \in SUBSET Nat
      OBVIOUS
    <3> HIDE DEF Bad
    <3> QED BY <2>1, <3>1, LeastElement
  <2>3. i \in 1 .. n - 1 /\ ~(rank[T(i)] + i <= N + 1) /\ rank[T(i)] \in 1 .. N
    BY <1>6, <2>2
  <2>4. CASE i = 1
    BY <1>1, <2>3, <2>4
  <2>5. CASE i # 1
    <3>1. i - 1 \in 1 .. n - 1 /\ i - 1 \in Nat /\ i - 1 < i /\ i \in 2 .. n
      BY <1>2, <2>3, <2>5
    <3>2. rank[T(i - 1)] + (i - 1) <= N + 1
      <4>1. i - 1 \in Bad => i <= i - 1
        BY <2>2
      <4> QED BY <3>1, <4>1
    <3>3. rank[T(i)] < rank[T(i - 1)] /\ rank[T(i - 1)] \in 1 .. N
      BY <1>5, <1>6, <2>3, <3>1
    <3> QED BY <1>1, <2>3, <3>1, <3>2, <3>3
  <2> QED BY <2>4, <2>5
<1>8. CASE n = 1
  BY <1>1, <1>8 DEF n, N
<1>9. CASE n # 1
  <2>1. n - 1 \in 1 .. n - 1 /\ n - 1 \in Nat /\ n - 1 \notin Bad
    BY <1>2, <1>7, <1>9
  <2>2. rank[T(n - 1)] + (n - 1) <= N + 1 /\ rank[T(n - 1)] \in 1 .. N
    BY <1>6, <2>1
  <2> QED BY <1>1, <1>2, <2>2 DEF n, N
<1> QED BY <1>8, <1>9

\* The recursion that collects the chains by their length; Chains chooses a
\* function that deepens.
Deepens(u, f) == f = [n \in Nat |-> IF n = 0 THEN Roots(u) ELSE Longer(u, f[n - 1])]

LEMMA DeepIsLevel ==
  ASSUME NEW u, Flat(u), NEW f, Deepens(u, f)
  PROVE  \A n \in Nat : f[n] = Level(u, n)
<1> DEFINE Bad == {n \in Nat : f[n] # Level(u, n)}
<1>1. SUFFICES ASSUME Bad # {} PROVE FALSE
  OBVIOUS
<1>2. PICK n \in Bad : \A k \in Bad : n <= k
  <2>1. Bad \in SUBSET Nat
    OBVIOUS
  <2> HIDE DEF Bad
  <2> QED BY <1>1, <2>1, LeastElement
<1>3. n \in Nat /\ f[n] # Level(u, n)
  BY <1>2
<1>4. f[n] = IF n = 0 THEN Roots(u) ELSE Longer(u, f[n - 1])
  BY <1>3 DEF Deepens
<1>5. CASE n = 0
  BY <1>3, <1>4, <1>5, LevelZero
<1>6. CASE n # 0
  <2>1. n - 1 \in Nat /\ n - 1 < n /\ (n - 1) + 1 = n
    BY <1>3, <1>6
  <2>2. f[n - 1] = Level(u, n - 1)
    <3>1. n - 1 \in Bad => n <= n - 1
      BY <1>2
    <3> QED BY <2>1, <3>1, <1>3
  <2>3. Level(u, (n - 1) + 1) = Longer(u, Level(u, n - 1))
    BY <2>1, LevelNext
  <2> QED BY <1>3, <1>4, <1>6, <2>1, <2>2, <2>3
<1> QED BY <1>5, <1>6

LEMMA LevelDeepens ==
  ASSUME NEW u, Flat(u)
  PROVE  Deepens(u, [n \in Nat |-> Level(u, n)])
<1> DEFINE f == [n \in Nat |-> Level(u, n)]
           g == [n \in Nat |-> IF n = 0 THEN Roots(u) ELSE Longer(u, f[n - 1])]
<1>1. \A n \in Nat : f[n] = g[n]
  <2>1. TAKE n \in Nat
  <2>2. CASE n = 0
    BY <2>2, LevelZero
  <2>3. CASE n # 0
    <3>1. n - 1 \in Nat /\ (n - 1) + 1 = n
      BY <2>3
    <3>2. Level(u, (n - 1) + 1) = Longer(u, Level(u, n - 1))
      BY <3>1, LevelNext
    <3>3. f[n] = Level(u, n) /\ f[n - 1] = Level(u, n - 1)
      BY <3>1
    <3>4. g[n] = Longer(u, f[n - 1])
      <4> HIDE DEF f
      <4> QED BY <2>3
    <3> HIDE DEF f, g
    <3> QED BY <3>1, <3>2, <3>3, <3>4
  <2> QED BY <2>2, <2>3
<1>2. f = g
  <2>1. /\ f = [n \in Nat |-> f[n]] /\ g = [n \in Nat |-> g[n]]
    OBVIOUS
  <2> HIDE DEF f, g
  <2> QED BY <1>1, <2>1
<1> QED BY <1>2 DEF Deepens

LEMMA ChainsAre ==
  ASSUME NEW u, Flat(u), NEW c
  PROVE  c \in Chains(u) <=> IsChain(u, c)
<1> DEFINE deep == CHOOSE f : Deepens(u, f)
           N == Cardinality(BlockTypes)
<1>1. Chains(u) = UNION {deep[n] : n \in 0 .. N}
  BY DEF Chains, Deepens
<1>2. Deepens(u, deep)
  <2>1. \E f : Deepens(u, f)
    BY LevelDeepens
  <2> QED BY <2>1
<1> HIDE DEF deep
<1>3. \A n \in Nat : deep[n] = Level(u, n)
  BY <1>2, DeepIsLevel
<1>4. N \in Nat
  BY TableAssumption, FS_CardinalityType
<1>5. ASSUME c \in Chains(u) PROVE IsChain(u, c)
  <2>1. PICK n \in 0 .. N : c \in deep[n]
    BY <1>1, <1>5
  <2>2. n \in Nat
    BY <1>4
  <2> QED BY <1>3, <2>1, <2>2 DEF Level
<1>6. ASSUME IsChain(u, c) PROVE c \in Chains(u)
  <2> DEFINE n == Len(c.steps) - 1
  <2>1. n \in Nat /\ Len(c.steps) = n + 1 /\ n <= N /\ c \in ChainT
    BY <1>6, ChainParts, ChainIsShort
  <2> HIDE DEF n, N
  <2>2. c \in Level(u, n)
    BY <1>6, <2>1 DEF Level
  <2>3. n \in 0 .. N
    BY <1>4, <2>1
  <2> QED BY <1>1, <1>3, <2>1, <2>2, <2>3
<1> QED BY <1>5, <1>6

-----------------------------------------------------------------------------
(***************************************************************************)
(* What a chain shows, and the item that stands for it.  The flags of the  *)
(* item are those of the one before with the qualifier of the last member: *)
(* what the walk carries down is what the reference reads off the chain.   *)
(***************************************************************************)

\* What is kept of a list, and the names in it.
LEMMA KeptRange ==
  ASSUME NEW T, NEW s \in Seq(T), NEW ks
  PROVE  /\ Kept(s, ks) \in Seq(T)
         /\ \A x : x \in Range(Kept(s, ks)) <=> \E k \in 1 .. Len(s) : k \in ks /\ x = s[k]
<1> DEFINE kept == Kept(s, ks)
<1>1. kept \in Seq(T) /\ \E p : Keeps(s, ks, kept, p)
  BY KeptKeeps
<1>2. PICK p : Keeps(s, ks, kept, p)
  BY <1>1
<1> HIDE DEF kept
<1>3. ASSUME NEW x
      PROVE  x \in Range(kept) <=> \E k \in 1 .. Len(s) : k \in ks /\ x = s[k]
  <2>1. x \in Range(kept) <=> \E j \in 1 .. Len(kept) : x = kept[j]
    BY <1>1, RangeOf
  <2> QED BY <1>2, <2>1 DEF Keeps
<1> QED BY <1>1, <1>3 DEF kept

LEMMA KeptNames ==
  ASSUME NEW s \in Seq(Members), DifferentNames(s), NEW ks
  PROVE  DifferentNames(Kept(s, ks))
<1> DEFINE kept == Kept(s, ks)
<1>1. kept \in Seq(Members) /\ \E p : Keeps(s, ks, kept, p)
  BY KeptKeeps
<1>2. PICK p : Keeps(s, ks, kept, p)
  BY <1>1
<1> HIDE DEF kept
<1>3. DOMAIN kept = 1 .. Len(kept) /\ DOMAIN s = 1 .. Len(s)
  BY <1>1
<1>4. ASSUME NEW j \in 1 .. Len(kept), NEW l \in 1 .. Len(kept), kept[j].name = kept[l].name
      PROVE  j = l
  <2>1. p[j] \in 1 .. Len(s) /\ p[l] \in 1 .. Len(s) /\ s[p[j]].name = s[p[l]].name
    BY <1>2, <1>4 DEF Keeps
  <2>2. p[j] = p[l]
    BY <1>3, <2>1 DEF DifferentNames
  <2> QED BY <1>2, <2>2 DEF Keeps
<1> QED BY <1>3, <1>4 DEF DifferentNames, kept

LEMMA SectionIs ==
  ASSUME NEW members \in Seq(Members), DifferentNames(members), NEW in
  PROVE  /\ Section(members, in) \in Seq(Members) /\ DifferentNames(Section(members, in))
         /\ \A m : m \in Range(Section(members, in)) <=> m \in Range(members) /\ m.in \in in
<1> DEFINE ks == {k \in DOMAIN members : members[k].in \in in}
<1>1. Section(members, in) = Kept(members, ks)
  BY DEF Section
<1>2. DOMAIN members = 1 .. Len(members)
  OBVIOUS
<1>3. \A k \in 1 .. Len(members) : k \in ks <=> members[k].in \in in
  BY <1>2
<1> HIDE DEF ks
<1>4. Kept(members, ks) \in Seq(Members) /\ DifferentNames(Kept(members, ks))
  BY KeptRange, KeptNames
<1>5. \A m : m \in Range(Kept(members, ks)) <=> m \in Range(members) /\ m.in \in in
  <2>1. TAKE m
  <2>2. m \in Range(Kept(members, ks)) <=> \E k \in 1 .. Len(members) : k \in ks /\ m = members[k]
    BY KeptRange
  <2>3. m \in Range(members) <=> \E k \in 1 .. Len(members) : m = members[k]
    BY RangeOf
  <2> QED BY <1>3, <2>2, <2>3
<1> QED BY <1>1, <1>4, <1>5

\* Whether step i of a chain is one the table shows.
ShownAt(u, c, i) ==
  /\ c.steps[i].m.in # "temp"
  /\ c.steps[i].home = Program => c.steps[i].m.in # "inout"
  /\ InLibrary(u, c.steps[i]) =>
       /\ Interface(u.blocks[c.steps[i].home]) # <<>>
       /\ c.steps[i].m.in = "var" => /\ u.blocks[c.steps[i].home].from # "older"
                                     /\ RetainedAt(u, c, i)

LEMMA ShownIs ==
  ASSUME NEW u, NEW c \in ChainT
  PROVE  Shown(u, c) <=> \A i \in 1 .. Len(c.steps) : ShownAt(u, c, i)
<1>1. DOMAIN c.steps = 1 .. Len(c.steps)
  BY DEF ChainT
<1> QED BY <1>1 DEF Shown, ShownAt

\* What a leaf retains or shows depends on the steps that lead to it.
LEMMA SameSteps ==
  ASSUME NEW u, NEW c, NEW x, NEW n \in Nat,
         \A i \in 1 .. n : c.steps[i] = x.steps[i]
  PROVE  \A i \in 1 .. n : /\ RetainedAt(u, c, i) <=> RetainedAt(u, x, i)
                           /\ ShownAt(u, c, i) <=> ShownAt(u, x, i)
<1>1. TAKE i \in 1 .. n
<1>2. \A k \in 1 .. i : c.steps[k] = x.steps[k]
  OBVIOUS
<1>3. RetainedAt(u, c, i) <=> RetainedAt(u, x, i)
  <2>1. \A k \in 1 .. i : \A j \in k + 1 .. i : j \in 1 .. i
    OBVIOUS
  <2> QED BY <1>2, <2>1 DEF RetainedAt
<1>4. i \in 1 .. i
  OBVIOUS
<1> QED BY <1>2, <1>3, <1>4 DEF ShownAt

\* What is declared and shown, as the chains are rather than as they are built.
Visible(u) == {c \in ChainT : IsChain(u, c) /\ Shown(u, c)}

LEMMA VisibleIs ==
  ASSUME NEW u, Flat(u), NEW c
  PROVE  c \in Visible(u) <=> IsChain(u, c) /\ \A i \in 1 .. Len(c.steps) : ShownAt(u, c, i)
BY ChainParts, ShownIs DEF Visible

LEMMA CutVisible ==
  ASSUME NEW u, Flat(u), NEW c \in Visible(u), NEW n \in 1 .. Len(c.steps)
  PROVE  Cut(c, n) \in Visible(u)
<1>1. IsChain(u, c) /\ \A i \in 1 .. Len(c.steps) : ShownAt(u, c, i)
  BY VisibleIs
<1>2. IsChain(u, Cut(c, n)) /\ c \in ChainT /\ Len(c.steps) \in Nat
  BY <1>1, CutChain, ChainParts
<1>3. n \in Nat /\ n <= Len(c.steps)
  BY <1>2
<1>4. Len(Cut(c, n).steps) = n /\ \A i \in 1 .. n : Cut(c, n).steps[i] = c.steps[i]
  BY <1>2, <1>3, CutIs
<1>5. \A i \in 1 .. n : i \in 1 .. Len(c.steps) /\ ShownAt(u, Cut(c, n), i)
  <2>1. \A i \in 1 .. n : ShownAt(u, Cut(c, n), i) <=> ShownAt(u, c, i)
    BY <1>3, <1>4, SameSteps
  <2> QED BY <1>1, <1>3, <2>1
<1> QED BY <1>2, <1>4, <1>5, VisibleIs

\* Whether the walk shows a member of a block that has the flags.
ShownMember(u, flags, s) ==
  /\ s.m.in # "temp"
  /\ OfLibrary(u.blocks[s.home]) =>
       /\ Interface(u.blocks[s.home]) # <<>>
       /\ s.m.in = "var" => /\ u.blocks[s.home].from # "older"
                            /\ ApplyBlockFlags(flags, Told(u, s)).retain

\* Of a chain with one more step, the qualifier of that step decides, if it has
\* one; the walk does the same with the flags so far.
LEMMA RetainedNext ==
  ASSUME NEW u, NEW c, NEW n \in Nat
  PROVE  RetainedAt(u, c, n + 1) <=>
           /\ RetainedAt(u, c, n) \/ Told(u, c.steps[n + 1]) = "retain"
           /\ Told(u, c.steps[n + 1]) # "nonRetain"
<1> DEFINE t(k) == Told(u, c.steps[k])
<1>1. \A i : RetainedAt(u, c, i) <=>
        \E k \in 1 .. i : t(k) = "retain" /\ \A j \in k + 1 .. i : t(j) # "nonRetain"
  BY DEF RetainedAt
<1> HIDE DEF t
<1>2. ASSUME RetainedAt(u, c, n + 1)
      PROVE  (RetainedAt(u, c, n) \/ t(n + 1) = "retain") /\ t(n + 1) # "nonRetain"
  <2>1. PICK k \in 1 .. n + 1 : t(k) = "retain" /\ \A j \in k + 1 .. n + 1 : t(j) # "nonRetain"
    BY <1>1, <1>2
  <2>2. CASE k = n + 1
    BY <2>1, <2>2
  <2>3. CASE k # n + 1
    <3>1. k \in 1 .. n /\ n + 1 \in k + 1 .. n + 1 /\ \A j \in k + 1 .. n : j \in k + 1 .. n + 1
      BY <2>3
    <3> QED BY <1>1, <2>1, <3>1
  <2> QED BY <2>2, <2>3
<1>3. ASSUME t(n + 1) = "retain" PROVE RetainedAt(u, c, n + 1)
  <2>1. n + 1 \in 1 .. n + 1 /\ (n + 1) + 1 .. n + 1 = {}
    OBVIOUS
  <2> QED BY <1>1, <1>3, <2>1
<1>4. ASSUME RetainedAt(u, c, n), t(n + 1) # "nonRetain" PROVE RetainedAt(u, c, n + 1)
  <2>1. PICK k \in 1 .. n : t(k) = "retain" /\ \A j \in k + 1 .. n : t(j) # "nonRetain"
    BY <1>1, <1>4
  <2>2. k \in 1 .. n + 1 /\ \A j \in k + 1 .. n + 1 : j \in k + 1 .. n \/ j = n + 1
    OBVIOUS
  <2> QED BY <1>1, <1>4, <2>1, <2>2
<1> QED BY <1>2, <1>3, <1>4 DEF t

LEMMA FlagsNext ==
  ASSUME NEW u, NEW c \in ChainT, NEW s \in StepT
  PROVE  FlagsOf(u, OneMore(c, s)) = ApplyBlockFlags(FlagsOf(u, c), Told(u, s))
<1> DEFINE x == OneMore(c, s)
           n == Len(c.steps)
<1>1. /\ x \in ChainT /\ n \in Nat /\ Len(x.steps) = n + 1
      /\ \A i \in 1 .. n : x.steps[i] = c.steps[i]
      /\ x.steps[n + 1] = s
  BY OneMoreIs
<1>2. DOMAIN x.steps = 1 .. n + 1 /\ DOMAIN c.steps = 1 .. n
  BY <1>1 DEF ChainT
<1>3. n = Len(c.steps)
  OBVIOUS
<1> HIDE DEF x, n
<1>4. RetainedAt(u, x, n) <=> RetainedAt(u, c, n)
  <2>1. CASE n = 0
    <3>1. 1 .. n = {}
      BY <2>1
    <3> QED BY <3>1 DEF RetainedAt
  <2>2. CASE n # 0
    <3>1. n \in 1 .. n
      BY <1>1, <2>2
    <3> QED BY <1>1, <3>1, SameSteps
  <2> QED BY <2>1, <2>2
<1>5. RetainedAt(u, x, n + 1) <=>
        (RetainedAt(u, c, n) \/ Told(u, s) = "retain") /\ Told(u, s) # "nonRetain"
  BY <1>1, <1>4, RetainedNext
<1>6. (\E i \in 1 .. n + 1 : Told(u, x.steps[i]) = "constant") <=>
        (\E i \in 1 .. n : Told(u, c.steps[i]) = "constant") \/ Told(u, s) = "constant"
  <2>1. n + 1 \in 1 .. n + 1 /\ \A i \in 1 .. n + 1 : i \in 1 .. n \/ i = n + 1
    BY <1>1
  <2>2. \A i \in 1 .. n : i \in 1 .. n + 1
    BY <1>1
  <2> QED BY <1>1, <2>1, <2>2
<1>7. FlagsOf(u, x) = [retain |-> RetainedAt(u, x, n + 1),
                       readOnly |-> \E i \in 1 .. n + 1 : Told(u, x.steps[i]) = "constant"]
  BY <1>1, <1>2 DEF FlagsOf
<1>8. FlagsOf(u, c) = [retain |-> RetainedAt(u, c, n),
                       readOnly |-> \E i \in 1 .. n : Told(u, c.steps[i]) = "constant"]
  BY <1>2, <1>3 DEF FlagsOf
<1>9. FlagsOf(u, c).retain = RetainedAt(u, c, n) /\
      FlagsOf(u, c).readOnly = (\E i \in 1 .. n : Told(u, c.steps[i]) = "constant")
  BY <1>8
<1>10. ApplyBlockFlags(FlagsOf(u, c), Told(u, s)) =
         [retain |-> (RetainedAt(u, c, n) \/ Told(u, s) = "retain") /\ Told(u, s) # "nonRetain",
          readOnly |-> (\E i \in 1 .. n : Told(u, c.steps[i]) = "constant")
                         \/ Told(u, s) = "constant"]
  BY <1>9 DEF ApplyBlockFlags
<1>11. FlagsOf(u, x) = ApplyBlockFlags(FlagsOf(u, c), Told(u, s))
  <2> DEFINE r == RetainedAt(u, x, n + 1)
             r1 == (RetainedAt(u, c, n) \/ Told(u, s) = "retain") /\ Told(u, s) # "nonRetain"
             o == \E i \in 1 .. n + 1 : Told(u, x.steps[i]) = "constant"
             o1 == (\E i \in 1 .. n : Told(u, c.steps[i]) = "constant") \/ Told(u, s) = "constant"
  <2>1. r \in BOOLEAN /\ r1 \in BOOLEAN /\ o \in BOOLEAN /\ o1 \in BOOLEAN
    BY DEF RetainedAt
  <2>2. (r <=> r1) /\ (o <=> o1)
    BY <1>5, <1>6
  <2>3. FlagsOf(u, x) = [retain |-> r, readOnly |-> o]
    BY <1>7
  <2>4. ApplyBlockFlags(FlagsOf(u, c), Told(u, s)) = [retain |-> r1, readOnly |-> o1]
    BY <1>10
  <2> HIDE DEF r, r1, o, o1
  <2>5. r = r1 /\ o = o1
    BY <2>1, <2>2
  <2> QED BY <2>3, <2>4, <2>5
<1> QED BY <1>11 DEF x

LEMMA AppendLast ==
  ASSUME NEW T, NEW p \in Seq(T), NEW q \in Seq(T), NEW e \in T
  PROVE  p \o Append(q, e) = Append(p \o q, e)
<1> DEFINE m == Len(p)
           n == Len(q)
           x == p \o Append(q, e)
           y == Append(p \o q, e)
<1>1. m \in Nat /\ n \in Nat
  OBVIOUS
<1>2. /\ x \in Seq(T) /\ Len(x) = m + n + 1
      /\ \A i \in 1 .. m : x[i] = p[i]
      /\ \A i \in m + 1 .. m + n : x[i] = q[i - m]
      /\ x[m + n + 1] = e
  OBVIOUS
<1>3. /\ y \in Seq(T) /\ Len(y) = m + n + 1
      /\ \A i \in 1 .. m : y[i] = p[i]
      /\ \A i \in m + 1 .. m + n : y[i] = q[i - m]
      /\ y[m + n + 1] = e
  OBVIOUS
<1> HIDE DEF x, y, m, n
<1>4. \A i \in 1 .. m + n + 1 : x[i] = y[i]
  <2>1. TAKE i \in 1 .. m + n + 1
  <2>2. i \in 1 .. m \/ i \in m + 1 .. m + n \/ i = m + n + 1
    BY <1>1
  <2> QED BY <1>2, <1>3, <2>2
<1>5. x = y
  BY <1>2, <1>3, <1>4
<1> QED BY <1>5 DEF x, y

LEMMA PathNext ==
  ASSUME NEW c \in ChainT, NEW s \in StepT
  PROVE  Path(OneMore(c, s)) = Append(Path(c), s.m.name)
<1> DEFINE x == OneMore(c, s)
           n == Len(c.steps)
           names(y) == [i \in DOMAIN y.steps |-> y.steps[i].m.name]
<1>1. /\ x \in ChainT /\ x.at = c.at /\ n \in Nat /\ Len(x.steps) = n + 1
      /\ \A i \in 1 .. n : x.steps[i] = c.steps[i]
      /\ x.steps[n + 1] = s
  BY OneMoreIs
<1>2. DOMAIN x.steps = 1 .. n + 1 /\ DOMAIN c.steps = 1 .. n
  BY <1>1 DEF ChainT
<1>3. \A i \in 1 .. n : c.steps[i].m.name \in Name
  <2>1. TAKE i \in 1 .. n
  <2>2. c.steps \in Seq(StepT)
    BY DEF ChainT
  <2>3. c.steps[i] \in StepT
    BY <2>2
  <2>4. c.steps[i].m \in Members
    BY <2>3 DEF StepT
  <2> QED BY <2>4 DEF Members, Name
<1>4. s.m.name \in Name
  BY DEF StepT, Members, Name
<1>5. names(c) = [i \in 1 .. n |-> c.steps[i].m.name]
  BY <1>2
<1>6. names(x) = [i \in 1 .. n + 1 |-> x.steps[i].m.name]
  BY <1>2
<1>7. c.at \in Seq(Name)
  BY DEF ChainT
<1>8. Path(x) = c.at \o names(x) /\ Path(c) = c.at \o names(c)
  BY <1>1 DEF Path
<1> HIDE DEF x, n, names
<1>9. names(c) \in Seq(Name) /\ Len(names(c)) = n
  BY <1>1, <1>3, <1>5
<1>10. names(x) \in Seq(Name) /\ Len(names(x)) = n + 1
  <2>1. \A i \in 1 .. n + 1 : x.steps[i].m.name \in Name
    <3>1. TAKE i \in 1 .. n + 1
    <3>2. i \in 1 .. n \/ i = n + 1
      BY <1>1
    <3> QED BY <1>1, <1>3, <1>4, <3>2
  <2> QED BY <1>1, <1>6, <2>1
<1>11. names(x) = Append(names(c), s.m.name)
  <2> DEFINE longer == Append(names(c), s.m.name)
  <2>0. /\ \A i \in 1 .. n : longer[i] = names(c)[i]
        /\ longer[n + 1] = s.m.name
    BY <1>1, <1>4, <1>9
  <2> HIDE DEF longer
  <2>1. \A i \in 1 .. n + 1 : names(x)[i] = longer[i]
    <3>1. TAKE i \in 1 .. n + 1
    <3>2. CASE i \in 1 .. n
      <4>1. names(x)[i] = x.steps[i].m.name /\ names(c)[i] = c.steps[i].m.name
        BY <1>5, <1>6, <3>2
      <4> QED BY <1>1, <2>0, <3>2, <4>1
    <3>3. CASE i = n + 1
      <4>1. names(x)[i] = s.m.name
        BY <1>1, <1>6, <3>3
      <4> QED BY <2>0, <3>3, <4>1
    <3> QED BY <1>1, <3>2, <3>3
  <2>2. longer \in Seq(Name) /\ Len(longer) = n + 1
    BY <1>4, <1>9 DEF longer
  <2>3. names(x) = longer
    BY <1>10, <2>1, <2>2
  <2> QED BY <2>3 DEF longer
<1>12. c.at \o Append(names(c), s.m.name) = Append(c.at \o names(c), s.m.name)
  <2> DEFINE a == c.at
             q == names(c)
             e == s.m.name
  <2>1. a \in Seq(Name) /\ q \in Seq(Name) /\ e \in Name
    BY <1>4, <1>7, <1>9
  <2> HIDE DEF a, q, e
  <2>2. a \o Append(q, e) = Append(a \o q, e)
    BY <2>1, AppendLast
  <2> QED BY <2>2 DEF a, q, e
<1> QED BY <1>8, <1>11, <1>12 DEF x

\* The item of the walk that stands for a chain.
ItemOf(u, c) == [path |-> Path(c), type |-> Last(c.steps).m.type, flags |-> FlagsOf(u, c)]

LEMMA ItemNext ==
  ASSUME NEW u, NEW c \in ChainT, NEW s \in StepT
  PROVE  ItemOf(u, OneMore(c, s)) =
           Item(Path(c), s.m, ApplyBlockFlags(FlagsOf(u, c), Told(u, s)))
<1>1. Last(OneMore(c, s).steps) = s
  <2> DEFINE x == OneMore(c, s)
             n == Len(c.steps)
  <2>1. x \in ChainT /\ n \in Nat /\ Len(x.steps) = n + 1 /\ x.steps[n + 1] = s
    BY OneMoreIs
  <2> HIDE DEF x, n
  <2>2. x.steps \in Seq(StepT) /\ x.steps # <<>>
    BY <2>1 DEF ChainT
  <2>3. Last(x.steps) = x.steps[Len(x.steps)]
    BY <2>2, LastIs
  <2> QED BY <2>1, <2>3 DEF x
<1> QED BY <1>1, PathNext, FlagsNext DEF ItemOf, Item

\* A member of a visible chain is visible if the walk shows it.
LEMMA MemberVisible ==
  ASSUME NEW u, Flat(u), NEW c \in Visible(u), Last(c.steps).m.type \in BlockTypes,
         NEW s \in MembersOf(u, Last(c.steps).m.type)
  PROVE  /\ s \in StepT
         /\ OneMore(c, s) \in Visible(u) <=> ShownMember(u, FlagsOf(u, c), s)
<1> DEFINE x == OneMore(c, s)
           n == Len(c.steps)
<1>1. IsChain(u, c) /\ \A i \in 1 .. n : ShownAt(u, c, i)
  BY VisibleIs
<1>2. IsChain(u, x) /\ s \in StepT /\ s.home \in BlockTypes
  BY <1>1, OneMoreChain, MembersTyped
<1>3. /\ x \in ChainT /\ c \in ChainT /\ n \in Nat /\ Len(x.steps) = n + 1
      /\ \A i \in 1 .. n : x.steps[i] = c.steps[i]
      /\ x.steps[n + 1] = s
  BY <1>1, <1>2, ChainParts, OneMoreIs
<1>4. s.home # Program
  BY <1>2, TableAssumption
<1>5. FlagsOf(u, x) = ApplyBlockFlags(FlagsOf(u, c), Told(u, s))
  BY <1>2, <1>3, FlagsNext
<1> HIDE DEF x, n
<1>6. FlagsOf(u, x).retain = RetainedAt(u, x, n + 1)
  BY <1>3 DEF FlagsOf
<1>7. ShownAt(u, x, n + 1) <=> ShownMember(u, FlagsOf(u, c), s)
  BY <1>3, <1>4, <1>5, <1>6 DEF ShownAt, ShownMember, InLibrary
<1>8. \A i \in 1 .. n : ShownAt(u, x, i)
  BY <1>1, <1>3, SameSteps
<1>9. n + 1 \in 1 .. n + 1 /\ \A i \in 1 .. n + 1 : i \in 1 .. n \/ i = n + 1
  BY <1>3
<1>10. x \in Visible(u) <=> \A i \in 1 .. n + 1 : ShownAt(u, x, i)
  BY <1>2, <1>3, VisibleIs
<1>11. x \in Visible(u) <=> ShownMember(u, FlagsOf(u, c), s)
  BY <1>7, <1>8, <1>9, <1>10
<1> QED BY <1>2, <1>11 DEF x

\* Stands for the place where a program instance begins.
Gate == [at |-> <<>>, steps |-> <<>>]

ItemFor(u, c) == IF c = Gate THEN Boundary ELSE ItemOf(u, c)
ItemsFor(u, cs) == [k \in 1 .. Len(cs) |-> ItemFor(u, cs[k])]

\* The chains one step longer than c that the walk shows, each once.
IsKids(u, c, kids) ==
  /\ kids \in Seq(Visible(u))
  /\ \A k \in 1 .. Len(kids) :
       Len(kids[k].steps) = Len(c.steps) + 1 /\ Cut(kids[k], Len(c.steps)) = c
  /\ \A x \in Visible(u) :
       Len(x.steps) = Len(c.steps) + 1 /\ Cut(x, Len(c.steps)) = c
         => \E k \in 1 .. Len(kids) : kids[k] = x
  /\ \A k, l \in 1 .. Len(kids) : kids[k] = kids[l] => k = l

LEMMA CutOneMore ==
  ASSUME NEW c \in ChainT, NEW s \in StepT
  PROVE  Cut(OneMore(c, s), Len(c.steps)) = c
<1> DEFINE x == OneMore(c, s)
           n == Len(c.steps)
<1>1. /\ x \in ChainT /\ x.at = c.at /\ n \in Nat /\ Len(x.steps) = n + 1
      /\ \A i \in 1 .. n : x.steps[i] = c.steps[i]
  BY OneMoreIs
<1>2. n = Len(c.steps)
  OBVIOUS
<1> HIDE DEF x, n
<1>3. n <= Len(x.steps)
  BY <1>1
<1>4. /\ Cut(x, n) \in ChainT /\ Cut(x, n).at = x.at /\ Len(Cut(x, n).steps) = n
      /\ \A i \in 1 .. n : Cut(x, n).steps[i] = x.steps[i]
  BY <1>1, <1>3, CutIs
<1>5. Cut(x, n) = c
  BY <1>1, <1>2, <1>4, SameChain
<1> QED BY <1>5 DEF x, n

Injective(s) == \A k, l \in 1 .. Len(s) : s[k] = s[l] => k = l

\* The chains that members ms of block b make of a chain that ends in b.
KidsFrom(c, b, ms) == [k \in 1 .. Len(ms) |-> OneMore(c, Step(b, ms[k]))]

LEMMA KidsAre ==
  ASSUME NEW u, Flat(u), NEW c \in Visible(u), NEW b \in BlockTypes,
         Last(c.steps).m.type = b, NEW ms \in Seq(Members),
         \A m : m \in Range(ms) <=> /\ m \in Range(u.blocks[b].members)
                                    /\ ShownMember(u, FlagsOf(u, c), Step(b, m)),
         Injective(ms)
  PROVE  IsKids(u, c, KidsFrom(c, b, ms))
<1> DEFINE n == Len(c.steps)
           kids == KidsFrom(c, b, ms)
           N == Len(ms)
<1>1. IsChain(u, c) /\ c \in ChainT /\ n \in Nat \ {0} /\ N \in Nat
  BY VisibleIs, ChainParts
<1>2. N = Len(kids) /\ \A k \in 1 .. N : kids[k] = OneMore(c, Step(b, ms[k]))
  BY <1>1 DEF KidsFrom
<1>3. MembersOf(u, b) = {Step(b, m) : m \in Range(u.blocks[b].members)}
  BY DEF Flat
<1> HIDE DEF N, kids
<1>4. ASSUME NEW k \in 1 .. N
      PROVE  /\ Step(b, ms[k]) \in StepT
             /\ kids[k] \in Visible(u) /\ kids[k] \in ChainT
             /\ Len(kids[k].steps) = n + 1 /\ Cut(kids[k], n) = c
             /\ kids[k].steps[n + 1] = Step(b, ms[k])
  <2>1. ms[k] \in Range(ms)
    BY RangeOf DEF N
  <2>2. /\ ms[k] \in Range(u.blocks[b].members)
        /\ ShownMember(u, FlagsOf(u, c), Step(b, ms[k]))
    BY <2>1
  <2>3. Step(b, ms[k]) \in MembersOf(u, b)
    BY <1>3, <2>2
  <2>4. Step(b, ms[k]) \in StepT /\ OneMore(c, Step(b, ms[k])) \in Visible(u)
    BY <2>2, <2>3, MemberVisible
  <2> QED BY <1>1, <1>2, <2>4, OneMoreIs, CutOneMore
<1>5. \A k \in 1 .. N : kids[k] \in Visible(u)
  BY <1>4
<1>6. kids \in Seq(Visible(u))
  <2>1. kids = [k \in 1 .. N |-> kids[k]]
    <3>1. kids = [k \in 1 .. N |-> OneMore(c, Step(b, ms[k]))]
      BY DEF kids, KidsFrom, N
    <3> QED BY <3>1
  <2> QED BY <1>1, <1>5, <2>1
<1>7. ASSUME NEW x \in Visible(u), Len(x.steps) = n + 1, Cut(x, n) = c
      PROVE  \E k \in 1 .. N : kids[k] = x
  <2>1. IsChain(u, x)
    BY VisibleIs
  <2>2. /\ Last(x.steps) \in MembersOf(u, b) /\ x = OneMore(c, Last(x.steps))
    BY <1>1, <1>7, <2>1, ChainEnds
  <2> DEFINE s == Last(x.steps)
  <2>3. s = Step(b, s.m) /\ s.m \in Range(u.blocks[b].members)
    BY <2>2, MembersTyped
  <2>4. ShownMember(u, FlagsOf(u, c), s)
    BY <2>2, MemberVisible
  <2> HIDE DEF s
  <2>5. s.m \in Range(ms)
    BY <2>3, <2>4
  <2>6. PICK k \in 1 .. N : s.m = ms[k]
    BY <2>5, RangeOf DEF N
  <2> QED BY <1>2, <2>2, <2>3, <2>6 DEF s
<1>8. ASSUME NEW k \in 1 .. N, NEW l \in 1 .. N, kids[k] = kids[l]
      PROVE  k = l
  <2>1. Step(b, ms[k]) = Step(b, ms[l])
    BY <1>4, <1>8
  <2>2. ms[k] = ms[l]
    BY <2>1 DEF Step
  <2> QED BY <2>2 DEF N, Injective
<1>9. IsKids(u, c, kids)
  BY <1>2, <1>4, <1>6, <1>7, <1>8 DEF IsKids, n
<1> QED BY <1>9 DEF kids

LEMMA NotGate ==
  ASSUME NEW u, Flat(u), NEW c \in Visible(u)
  PROVE  c # Gate /\ ItemFor(u, c) = ItemOf(u, c)
<1>1. Len(c.steps) # 0
  BY VisibleIs, ChainParts
<1>2. Len(Gate.steps) = 0
  BY DEF Gate
<1> QED BY <1>1, <1>2 DEF ItemFor

LEMMA NamesDiffer ==
  ASSUME NEW ms \in Seq(Members), DifferentNames(ms)
  PROVE  Injective(ms)
BY DEF DifferentNames, Injective

FlagT == [retain : BOOLEAN, readOnly : BOOLEAN]

LEMMA FlagsTyped ==
  ASSUME NEW u, NEW c
  PROVE  FlagsOf(u, c) \in FlagT
<1>1. RetainedAt(u, c, Len(c.steps)) \in BOOLEAN
  BY DEF RetainedAt
<1>2. (\E i \in DOMAIN c.steps : Told(u, c.steps[i]) = "constant") \in BOOLEAN
  OBVIOUS
<1> QED BY <1>1, <1>2 DEF FlagsOf, FlagT

LEMMA PlainFlags ==
  ASSUME NEW f \in FlagT
  PROVE  /\ ApplyBlockFlags(f, "plain") = f
         /\ ApplyBlockFlags(f, "retain") = [f EXCEPT !.retain = TRUE]
<1>1. f = [retain |-> f.retain, readOnly |-> f.readOnly] /\ f.retain \in BOOLEAN /\ f.readOnly \in BOOLEAN
  BY DEF FlagT
<1>2. ApplyBlockFlags(f, "plain") = [retain |-> f.retain, readOnly |-> f.readOnly]
  <2>1. ApplyBlockFlags(f, "plain").retain = f.retain /\ ApplyBlockFlags(f, "plain").readOnly = f.readOnly
    BY <1>1 DEF ApplyBlockFlags
  <2> QED BY <2>1 DEF ApplyBlockFlags
<1>3. ApplyBlockFlags(f, "retain") = [retain |-> TRUE, readOnly |-> f.readOnly]
  <2>1. ApplyBlockFlags(f, "retain").retain = TRUE /\ ApplyBlockFlags(f, "retain").readOnly = f.readOnly
    BY <1>1 DEF ApplyBlockFlags
  <2> QED BY <2>1 DEF ApplyBlockFlags
<1>4. [f EXCEPT !.retain = TRUE] = [retain |-> TRUE, readOnly |-> f.readOnly]
  <2> DEFINE g == [f EXCEPT !.retain = TRUE]
  <2>1. g \in FlagT /\ g.retain = TRUE /\ g.readOnly = f.readOnly
    BY DEF FlagT
  <2> HIDE DEF g
  <2>2. g = [retain |-> g.retain, readOnly |-> g.readOnly]
    BY <2>1 DEF FlagT
  <2> QED BY <2>1, <2>2 DEF g
<1> QED BY <1>1, <1>2, <1>3, <1>4

LEMMA SameSeq ==
  ASSUME NEW T, NEW p \in Seq(T), NEW q \in Seq(T), Len(p) = Len(q),
         \A k \in 1 .. Len(p) : p[k] = q[k]
  PROVE  p = q
OBVIOUS

\* z is p and then q.
Joins(T, p, q, z) ==
  /\ z \in Seq(T) /\ Len(p) \in Nat /\ Len(q) \in Nat
  /\ Len(z) = Len(p) + Len(q)
  /\ \A k \in 1 .. Len(p) : z[k] = p[k]
  /\ \A k \in 1 .. Len(q) : z[Len(p) + k] = q[k]
  /\ \A k \in 1 .. Len(p) + Len(q) :
       \/ k \in 1 .. Len(p)
       \/ k - Len(p) \in 1 .. Len(q) /\ k = Len(p) + (k - Len(p))

LEMMA JoinIs ==
  ASSUME NEW T, NEW p \in Seq(T), NEW q \in Seq(T)
  PROVE  Joins(T, p, q, p \o q)
BY DEF Joins

LEMMA HalvesTyped ==
  ASSUME NEW S, NEW T, NEW p \in Seq(S), NEW q \in Seq(S), p \o q \in Seq(T)
  PROVE  p \in Seq(T) /\ q \in Seq(T)
<1> DEFINE x == p \o q
           a == Len(p)
           b == Len(q)
<1>1. /\ a \in Nat /\ b \in Nat /\ x \in Seq(T) /\ Len(x) = a + b
      /\ \A k \in 1 .. a : x[k] = p[k]
      /\ \A k \in 1 .. b : x[a + k] = q[k]
  BY JoinIs DEF Joins
<1>2. p = [k \in 1 .. a |-> p[k]] /\ q = [k \in 1 .. b |-> q[k]]
  OBVIOUS
<1> HIDE DEF x, a, b
<1>3. \A k \in 1 .. a : p[k] \in T
  <2>1. \A k \in 1 .. a : k \in 1 .. Len(x)
    BY <1>1
  <2> QED BY <1>1, <2>1
<1>4. \A k \in 1 .. b : q[k] \in T
  <2>1. \A k \in 1 .. b : a + k \in 1 .. Len(x)
    BY <1>1
  <2> QED BY <1>1, <2>1
<1> QED BY <1>1, <1>2, <1>3, <1>4

LEMMA JoinRange ==
  ASSUME NEW T, NEW p \in Seq(T), NEW q \in Seq(T)
  PROVE  \A x : x \in Range(p \o q) <=> x \in Range(p) \/ x \in Range(q)
<1> DEFINE a == Len(p)
           b == Len(q)
           z == p \o q
<1>1. /\ z \in Seq(T) /\ a \in Nat /\ b \in Nat /\ Len(z) = a + b
      /\ \A k \in 1 .. a : z[k] = p[k]
      /\ \A k \in 1 .. b : z[a + k] = q[k]
      /\ \A k \in 1 .. a + b : k \in 1 .. a \/ (k - a \in 1 .. b /\ k = a + (k - a))
  BY JoinIs DEF Joins
<1>2. /\ \A x : x \in Range(p) <=> \E k \in 1 .. a : x = p[k]
      /\ \A x : x \in Range(q) <=> \E k \in 1 .. b : x = q[k]
  BY RangeOf
<1> HIDE DEF a, b, z
<1>3. \A x : x \in Range(z) <=> \E k \in 1 .. a + b : x = z[k]
  BY <1>1, RangeOf
<1>4. \A k \in 1 .. b : a + k \in 1 .. a + b
  BY <1>1
<1>5. \A k \in 1 .. a : k \in 1 .. a + b
  BY <1>1
<1>6. ASSUME NEW x \in Range(z)
      PROVE  x \in Range(p) \/ x \in Range(q)
  <2>1. PICK k \in 1 .. a + b : x = z[k]
    BY <1>3
  <2>2. CASE k \in 1 .. a
    BY <1>1, <1>2, <2>1, <2>2
  <2>3. CASE k - a \in 1 .. b /\ k = a + (k - a)
    <3>1. z[a + (k - a)] = q[k - a]
      BY <1>1, <2>3
    <3>2. x = q[k - a]
      BY <2>1, <2>3, <3>1
    <3> QED BY <1>2, <2>3, <3>2
  <2> QED BY <1>1, <2>2, <2>3
<1>7. \A x : x \in Range(p) => x \in Range(z)
  BY <1>1, <1>2, <1>3, <1>5
<1>8. \A x : x \in Range(q) => x \in Range(z)
  BY <1>1, <1>2, <1>3, <1>4
<1> QED BY <1>6, <1>7, <1>8 DEF z

LEMMA JoinInjective ==
  ASSUME NEW T, NEW p \in Seq(T), NEW q \in Seq(T), Injective(p), Injective(q),
         \A x \in Range(p) : x \notin Range(q)
  PROVE  Injective(p \o q)
<1> DEFINE a == Len(p)
           b == Len(q)
           z == p \o q
<1>1. /\ z \in Seq(T) /\ a \in Nat /\ b \in Nat /\ Len(z) = a + b
      /\ \A k \in 1 .. a : z[k] = p[k]
      /\ \A k \in 1 .. b : z[a + k] = q[k]
      /\ \A k \in 1 .. a + b : k \in 1 .. a \/ (k - a \in 1 .. b /\ k = a + (k - a))
  BY JoinIs DEF Joins
<1>2. /\ \A i \in 1 .. a : p[i] \in Range(p)
      /\ \A i \in 1 .. b : q[i] \in Range(q)
  BY RangeOf
<1>3. /\ \A i, j \in 1 .. a : p[i] = p[j] => i = j
      /\ \A i, j \in 1 .. b : q[i] = q[j] => i = j
  BY DEF Injective
<1> HIDE DEF a, b, z
<1>4. \A k \in 1 .. a + b : k - a \in 1 .. b /\ k = a + (k - a) => z[k] = q[k - a]
  <2>1. TAKE k \in 1 .. a + b
  <2>2. HAVE k - a \in 1 .. b /\ k = a + (k - a)
  <2>3. z[a + (k - a)] = q[k - a]
    BY <1>1, <2>2
  <2> QED BY <2>2, <2>3
<1>5. ASSUME NEW k \in 1 .. a + b, NEW l \in 1 .. a + b, z[k] = z[l]
      PROVE  k = l
  <2>1. CASE k \in 1 .. a /\ l \in 1 .. a
    BY <1>1, <1>3, <1>5, <2>1
  <2>2. CASE k \in 1 .. a /\ l - a \in 1 .. b /\ l = a + (l - a)
    <3>1. z[k] = p[k] /\ z[l] = q[l - a]
      BY <1>1, <1>4, <2>2
    <3> QED BY <1>2, <1>5, <2>2, <3>1
  <2>3. CASE l \in 1 .. a /\ k - a \in 1 .. b /\ k = a + (k - a)
    <3>1. z[l] = p[l] /\ z[k] = q[k - a]
      BY <1>1, <1>4, <2>3
    <3> QED BY <1>2, <1>5, <2>3, <3>1
  <2>4. CASE k - a \in 1 .. b /\ k = a + (k - a) /\ l - a \in 1 .. b /\ l = a + (l - a)
    <3>1. z[l] = q[l - a] /\ z[k] = q[k - a]
      BY <1>4, <2>4
    <3>2. k - a = l - a
      BY <1>3, <1>5, <2>4, <3>1
    <3> QED BY <2>4, <3>2
  <2> QED BY <1>1, <2>1, <2>2, <2>3, <2>4
<1>6. Injective(z)
  BY <1>1, <1>5 DEF Injective
<1> QED BY <1>6 DEF z

\* The chains of two lists of members are those of the one and the other.
KidsJoined(c, b, p, q, z) ==
  /\ KidsFrom(c, b, z) = KidsFrom(c, b, p) \o KidsFrom(c, b, q)
  /\ \E S : KidsFrom(c, b, p) \in Seq(S) /\ KidsFrom(c, b, q) \in Seq(S)

LEMMA KidsJoin ==
  ASSUME NEW c, NEW b, NEW T, NEW p \in Seq(T), NEW q \in Seq(T)
  PROVE  KidsJoined(c, b, p, q, p \o q)
<1> DEFINE F(m) == OneMore(c, Step(b, m))
           S == {F(m) : m \in T}
           x == KidsFrom(c, b, p)
           y == KidsFrom(c, b, q)
           z == KidsFrom(c, b, p \o q)
           m == Len(p)
           n == Len(q)
<1>1. /\ p \o q \in Seq(T) /\ m \in Nat /\ n \in Nat /\ Len(p \o q) = m + n
      /\ \A k \in 1 .. m : (p \o q)[k] = p[k] /\ p[k] \in T
      /\ \A k \in 1 .. n : (p \o q)[m + k] = q[k] /\ q[k] \in T
  BY JoinIs DEF Joins
<1>2. /\ x = [k \in 1 .. m |-> F(p[k])] /\ y = [k \in 1 .. n |-> F(q[k])]
      /\ z = [k \in 1 .. m + n |-> F((p \o q)[k])]
  BY <1>1 DEF KidsFrom
<1> HIDE DEF m, n
<1>3. \A e \in T : F(e) \in S
  OBVIOUS
<1> HIDE DEF S, F, x, y, z
<1>4. x \in Seq(S) /\ Len(x) = m
  BY <1>1, <1>2, <1>3
<1>5. y \in Seq(S) /\ Len(y) = n
  BY <1>1, <1>2, <1>3
<1>6. z \in Seq(S) /\ Len(z) = m + n
  <2>1. \A k \in 1 .. m + n : (p \o q)[k] \in T
    BY <1>1
  <2> QED BY <1>1, <1>2, <1>3, <2>1
<1>7. /\ x \o y \in Seq(S) /\ Len(x \o y) = m + n
      /\ \A k \in 1 .. m : (x \o y)[k] = x[k]
      /\ \A k \in 1 .. n : (x \o y)[m + k] = y[k]
      /\ \A k \in 1 .. m + n : k \in 1 .. m \/ (k - m \in 1 .. n /\ k = m + (k - m))
  <2>1. Joins(S, x, y, x \o y)
    BY <1>4, <1>5, JoinIs
  <2> QED BY <1>4, <1>5, <2>1 DEF Joins
<1>8. \A k \in 1 .. m + n : z[k] = (x \o y)[k]
  <2>1. TAKE k \in 1 .. m + n
  <2>2. z[k] = F((p \o q)[k])
    BY <1>2
  <2>3. CASE k \in 1 .. m
    <3>1. (x \o y)[k] = F(p[k]) /\ (p \o q)[k] = p[k]
      BY <1>1, <1>2, <1>7, <2>3
    <3> QED BY <2>2, <3>1
  <2>4. CASE k - m \in 1 .. n /\ k = m + (k - m)
    <3>1. (x \o y)[m + (k - m)] = y[k - m] /\ y[k - m] = F(q[k - m])
      BY <1>2, <1>7, <2>4
    <3>2. (p \o q)[m + (k - m)] = q[k - m]
      BY <1>1, <2>4
    <3> QED BY <2>2, <2>4, <3>1, <3>2
  <2> QED BY <1>7, <2>3, <2>4
<1>9. z = x \o y
  BY <1>6, <1>7, <1>8, SameSeq
<1> QED BY <1>4, <1>5, <1>9 DEF x, y, z, KidsJoined

Sections == {"interface", "inout", "var", "temp"}

LEMMA MemberSection ==
  ASSUME NEW members \in Seq(Members), NEW m \in Range(members)
  PROVE  m.in \in Sections
<1>1. m \in Members
  BY RangeTyped
<1> QED BY <1>1 DEF Members, Sections

\* A block of the project.
LEMMA ProjectKids ==
  ASSUME NEW u, Flat(u), NEW c \in Visible(u), NEW b \in BlockTypes,
         Last(c.steps).m.type = b, ~OfLibrary(u.blocks[b])
  PROVE  \E kids : /\ IsKids(u, c, kids)
                   /\ Walked(Path(c), Section(u.blocks[b].members, {"interface", "inout", "var"}),
                             FlagsOf(u, c)) = ItemsFor(u, kids)
<1> DEFINE ms == Section(u.blocks[b].members, {"interface", "inout", "var"})
           kids == KidsFrom(c, b, ms)
<1>1. u.blocks[b].members \in Seq(Members) /\ DifferentNames(u.blocks[b].members)
  BY DEF Flat
<1>2. /\ ms \in Seq(Members) /\ DifferentNames(ms)
      /\ \A m : m \in Range(ms) <=> m \in Range(u.blocks[b].members)
                                      /\ m.in \in {"interface", "inout", "var"}
  BY <1>1, SectionIs
<1> HIDE DEF ms
<1>3. \A m : m \in Range(ms) <=> /\ m \in Range(u.blocks[b].members)
                                 /\ ShownMember(u, FlagsOf(u, c), Step(b, m))
  <2>1. TAKE m
  <2>2. Step(b, m).home = b /\ Step(b, m).m = m
    BY DEF Step
  <2>3. m \in Range(u.blocks[b].members) => m.in \in Sections
    BY <1>1, MemberSection
  <2> QED BY <1>2, <2>2, <2>3 DEF ShownMember, Sections
<1>4. Injective(ms)
  BY <1>2, NamesDiffer
<1>5. IsKids(u, c, kids)
  BY <1>2, <1>3, <1>4, KidsAre
<1>6. Len(ms) \in Nat /\ DOMAIN ms = 1 .. Len(ms) /\ Len(kids) = Len(ms)
  BY <1>2 DEF KidsFrom
<1>7. ASSUME NEW k \in 1 .. Len(ms)
      PROVE  ItemFor(u, kids[k]) = Item(Path(c), ms[k], ApplyBlockFlags(FlagsOf(u, c), ms[k].is))
  <2> DEFINE s == Step(b, ms[k])
  <2>1. kids[k] \in Visible(u) /\ kids[k] = OneMore(c, s)
    BY <1>5, <1>6 DEF IsKids, KidsFrom
  <2>2. s.m = ms[k] /\ s.home = b
    BY DEF Step
  <2>3. Told(u, s) = ms[k].is
    BY <2>2 DEF Told, InLibrary
  <2>4. c \in ChainT /\ s \in StepT
    BY <1>2, <1>6, VisibleIs, ChainParts DEF Step, StepT
  <2> HIDE DEF s, kids
  <2>5. ItemOf(u, OneMore(c, s)) = Item(Path(c), s.m, ApplyBlockFlags(FlagsOf(u, c), Told(u, s)))
    BY <2>4, ItemNext
  <2> QED BY <2>1, <2>2, <2>3, <2>5, NotGate
<1> HIDE DEF kids
<1>8. ItemsFor(u, kids) = [k \in 1 .. Len(ms) |-> ItemFor(u, kids[k])]
  BY <1>6 DEF ItemsFor
<1>9. Walked(Path(c), ms, FlagsOf(u, c)) =
        [k \in 1 .. Len(ms) |-> Item(Path(c), ms[k], ApplyBlockFlags(FlagsOf(u, c), ms[k].is))]
  BY <1>6 DEF Walked
<1>10. Walked(Path(c), ms, FlagsOf(u, c)) = ItemsFor(u, kids)
  BY <1>7, <1>8, <1>9
<1> QED BY <1>5, <1>10 DEF ms

\* What the walk visits of a library block, as VisitLibraryBlock writes it.
InterfaceItems(path, shown, f) == [k \in DOMAIN shown |-> Item(path, shown[k], f)]

LocalItems(path, walked, f) ==
  [k \in DOMAIN walked |->
     Item(path, walked[k], [f EXCEPT !.retain = @ \/ walked[k].is = "retain"])]

LocalsFor(locals, f) == Kept(locals, {k \in DOMAIN locals : f.retain \/ locals[k].is = "retain"})

\* A block of a library that has an interface.
LEMMA LibraryKids ==
  ASSUME NEW u, Flat(u), NEW c \in Visible(u), NEW b \in BlockTypes,
         Last(c.steps).m.type = b, OfLibrary(u.blocks[b]),
         NEW shown, shown = Interface(u.blocks[b]), shown # <<>>,
         NEW locals, locals = Locals(u.blocks[b]),
         NEW f, f = FlagsOf(u, c),
         NEW walked, walked = LocalsFor(locals, f)
  PROVE  \E kids, more :
           /\ kids \in Seq(Visible(u)) /\ more \in Seq(Visible(u))
           /\ IsKids(u, c, kids \o more)
           /\ InterfaceItems(Path(c), shown, f) = ItemsFor(u, kids)
           /\ LocalItems(Path(c), walked, f) = ItemsFor(u, more)
<1> DEFINE members == u.blocks[b].members
           ms == shown \o walked
           kids == KidsFrom(c, b, shown)
           more == KidsFrom(c, b, walked)
<1>1. members \in Seq(Members) /\ DifferentNames(members)
  BY DEF Flat
<1>2. /\ shown \in Seq(Members) /\ DifferentNames(shown)
      /\ \A m : m \in Range(shown) <=> m \in Range(members) /\ m.in \in {"interface", "inout"}
  BY <1>1, SectionIs DEF Interface
<1>3. /\ locals \in Seq(Members) /\ DifferentNames(locals)
      /\ \A m : m \in Range(locals) <=>
                  u.blocks[b].from # "older" /\ m \in Range(members) /\ m.in = "var"
  <2>1. CASE u.blocks[b].from = "older"
    <3>1. locals = <<>>
      BY <2>1 DEF Locals
    <3>2. \A m : m \notin Range(<<>>)
      BY DEF Range
    <3>3. DifferentNames(<<>>) /\ <<>> \in Seq(Members)
      BY DEF DifferentNames
    <3> QED BY <2>1, <3>1, <3>2, <3>3
  <2>2. CASE u.blocks[b].from # "older"
    <3>1. locals = Section(members, {"var"})
      BY <2>2 DEF Locals
    <3>2. /\ locals \in Seq(Members) /\ DifferentNames(locals)
          /\ \A m : m \in Range(locals) <=> m \in Range(members) /\ m.in \in {"var"}
      BY <1>1, <3>1, SectionIs
    <3> QED BY <2>2, <3>2
  <2> QED BY <2>1, <2>2
<1>4. /\ walked \in Seq(Members) /\ DifferentNames(walked)
      /\ \A m : m \in Range(walked) <=> m \in Range(locals) /\ (f.retain \/ m.is = "retain")
  <2> DEFINE ks == {k \in DOMAIN locals : f.retain \/ locals[k].is = "retain"}
  <2>1. walked \in Seq(Members) /\ DifferentNames(walked)
    BY <1>3, KeptRange, KeptNames DEF LocalsFor
  <2>2. \A k \in 1 .. Len(locals) : k \in ks <=> (f.retain \/ locals[k].is = "retain")
    BY <1>3
  <2>3. \A m : m \in Range(walked) <=> \E k \in 1 .. Len(locals) : k \in ks /\ m = locals[k]
    BY <1>3, KeptRange DEF LocalsFor
  <2>4. \A m : m \in Range(locals) <=> \E k \in 1 .. Len(locals) : m = locals[k]
    BY <1>3, RangeOf
  <2> HIDE DEF ks
  <2>5. \A m : m \in Range(walked) <=> m \in Range(locals) /\ (f.retain \/ m.is = "retain")
    BY <2>2, <2>3, <2>4
  <2> QED BY <2>1, <2>5
<1> HIDE DEF members
<1>5. /\ ms \in Seq(Members) /\ Len(shown) \in Nat /\ Len(walked) \in Nat
      /\ DOMAIN shown = 1 .. Len(shown) /\ DOMAIN walked = 1 .. Len(walked)
  BY <1>2, <1>4
<1> DEFINE a == Len(shown)
           n == Len(walked)
<1>6. \A m : m \in Range(ms) <=> m \in Range(shown) \/ m \in Range(walked)
  BY <1>2, <1>4, JoinRange
<1>7. Injective(ms)
  <2>1. \A m \in Range(shown) : m \notin Range(walked)
    BY <1>2, <1>3, <1>4
  <2>2. Injective(shown) /\ Injective(walked)
    BY <1>2, <1>4, NamesDiffer
  <2> QED BY <1>2, <1>4, <2>1, <2>2, JoinInjective
<1> HIDE DEF ms
<1>8. f \in FlagT
  BY FlagsTyped
<1>9. \A m : m \in Range(ms) <=> /\ m \in Range(members)
                                 /\ ShownMember(u, f, Step(b, m))
  <2>1. TAKE m
  <2>2. Step(b, m).home = b /\ Step(b, m).m = m
    BY DEF Step
  <2>3. m \in Range(members) => m.in \in Sections
    BY <1>1, MemberSection
  <2>4. b # Program
    BY TableAssumption
  <2>5. m.in = "var" => Told(u, Step(b, m)) = IF m.is = "retain" THEN "retain" ELSE "plain"
    BY <2>2, <2>4 DEF Told, InLibrary
  <2>6. m.in = "var" => (ApplyBlockFlags(f, Told(u, Step(b, m))).retain <=>
                           f.retain \/ m.is = "retain")
    BY <1>8, <2>5 DEF ApplyBlockFlags, FlagT
  <2>7. Interface(u.blocks[b]) # <<>>
    OBVIOUS
  <2>8. ShownMember(u, f, Step(b, m)) <=>
          /\ m.in # "temp"
          /\ m.in = "var" => u.blocks[b].from # "older" /\ (f.retain \/ m.is = "retain")
    BY <2>2, <2>6, <2>7 DEF ShownMember
  <2> QED BY <1>2, <1>3, <1>4, <1>6, <2>3, <2>8 DEF Sections
<1>11. IsKids(u, c, KidsFrom(c, b, ms))
  BY <1>5, <1>7, <1>9, KidsAre DEF members
<1>12. /\ Len(kids) = a /\ Len(more) = n
       /\ \A k \in 1 .. a : kids[k] = OneMore(c, Step(b, shown[k]))
       /\ \A k \in 1 .. n : more[k] = OneMore(c, Step(b, walked[k]))
  BY <1>5 DEF KidsFrom
<1>13. /\ KidsFrom(c, b, ms) \in Seq(Visible(u)) /\ KidsFrom(c, b, ms) = kids \o more
       /\ \E S : kids \in Seq(S) /\ more \in Seq(S)
  <2>1. KidsFrom(c, b, ms) \in Seq(Visible(u))
    BY <1>11 DEF IsKids
  <2>2. shown \in Seq(Members) /\ walked \in Seq(Members)
    BY <1>2, <1>4
  <2>3. KidsJoined(c, b, shown, walked, ms)
    BY <2>2, KidsJoin DEF ms
  <2>4. /\ KidsFrom(c, b, ms) = kids \o more
        /\ \E S : kids \in Seq(S) /\ more \in Seq(S)
    BY <2>3 DEF KidsJoined
  <2> QED BY <2>1, <2>4
<1> HIDE DEF kids, more
<1>14. kids \in Seq(Visible(u)) /\ more \in Seq(Visible(u))
  <2>1. PICK S : kids \in Seq(S) /\ more \in Seq(S)
    BY <1>13
  <2> QED BY <1>13, <2>1, HalvesTyped
<1>15. /\ \A k \in 1 .. a : kids[k] \in Visible(u)
       /\ \A k \in 1 .. n : more[k] \in Visible(u)
  <2>1. \A k \in 1 .. Len(kids) : kids[k] \in Visible(u)
    BY <1>14
  <2>2. \A k \in 1 .. Len(more) : more[k] \in Visible(u)
    BY <1>14
  <2> QED BY <1>12, <2>1, <2>2
<1>18. \A m \in Members : Step(b, m) \in StepT
  BY DEF Step, StepT
<1>19. c \in ChainT
  BY VisibleIs, ChainParts
<1>20. ASSUME NEW k \in 1 .. a
       PROVE  ItemFor(u, kids[k]) = Item(Path(c), shown[k], f)
  <2> DEFINE s == Step(b, shown[k])
  <2>1. shown[k] \in Members /\ shown[k] \in Range(shown)
    BY <1>2, RangeOf
  <2>2. s \in StepT /\ s.m = shown[k] /\ s.home = b
    BY <1>18, <2>1 DEF Step
  <2>3. Told(u, s) = "plain"
    <3>1. b # Program /\ shown[k].in # "var"
      BY <1>2, <2>1, TableAssumption
    <3> QED BY <2>2, <3>1 DEF Told, InLibrary
  <2>4. kids[k] \in Visible(u) /\ kids[k] = OneMore(c, s)
    BY <1>12, <1>15
  <2> HIDE DEF s
  <2>5. ItemOf(u, OneMore(c, s)) = Item(Path(c), s.m, ApplyBlockFlags(f, Told(u, s)))
    BY <1>19, <2>2, ItemNext
  <2> QED BY <1>8, <2>2, <2>3, <2>4, <2>5, NotGate, PlainFlags
<1>21. ASSUME NEW k \in 1 .. n
       PROVE  ItemFor(u, more[k]) =
                Item(Path(c), walked[k], [f EXCEPT !.retain = @ \/ walked[k].is = "retain"])
  <2> DEFINE s == Step(b, walked[k])
  <2>1. walked[k] \in Members /\ walked[k] \in Range(walked)
    BY <1>4, RangeOf
  <2>2. s \in StepT /\ s.m = walked[k] /\ s.home = b
    BY <1>18, <2>1 DEF Step
  <2>3. Told(u, s) = IF walked[k].is = "retain" THEN "retain" ELSE "plain"
    <3>1. b # Program /\ walked[k].in = "var"
      BY <1>3, <1>4, <2>1, TableAssumption
    <3> QED BY <2>2, <3>1 DEF Told, InLibrary
  <2>4. more[k] \in Visible(u) /\ more[k] = OneMore(c, s)
    BY <1>12, <1>15
  <2> HIDE DEF s
  <2>5. ItemOf(u, OneMore(c, s)) = Item(Path(c), s.m, ApplyBlockFlags(f, Told(u, s)))
    BY <1>19, <2>2, ItemNext
  <2>6. ApplyBlockFlags(f, Told(u, s)) = [f EXCEPT !.retain = @ \/ walked[k].is = "retain"]
    <3>1. CASE walked[k].is = "retain"
      <4>1. [f EXCEPT !.retain = @ \/ walked[k].is = "retain"] = [f EXCEPT !.retain = TRUE]
        BY <1>8, <3>1 DEF FlagT
      <4> QED BY <1>8, <2>3, <3>1, <4>1, PlainFlags
    <3>2. CASE walked[k].is # "retain"
      <4>1. [f EXCEPT !.retain = @ \/ walked[k].is = "retain"] = f
        BY <1>8, <3>2 DEF FlagT
      <4> QED BY <1>8, <2>3, <3>2, <4>1, PlainFlags
    <3> QED BY <3>1, <3>2
  <2> QED BY <2>2, <2>4, <2>5, <2>6, NotGate
<1>22. [k \in DOMAIN shown |-> Item(Path(c), shown[k], f)] = ItemsFor(u, kids)
  BY <1>5, <1>12, <1>20 DEF ItemsFor
<1>23. [k \in DOMAIN walked |->
          Item(Path(c), walked[k], [f EXCEPT !.retain = @ \/ walked[k].is = "retain"])]
       = ItemsFor(u, more)
  <2> DEFINE G(k) == Item(Path(c), walked[k], [f EXCEPT !.retain = @ \/ walked[k].is = "retain"])
  <2>1. \A k \in 1 .. n : ItemFor(u, more[k]) = G(k)
    BY <1>21
  <2>2. ItemsFor(u, more) = [k \in 1 .. n |-> ItemFor(u, more[k])]
    BY <1>12 DEF ItemsFor
  <2>3. DOMAIN walked = 1 .. n
    BY <1>5
  <2> HIDE DEF G
  <2>4. [k \in DOMAIN walked |-> G(k)] = ItemsFor(u, more)
    BY <2>1, <2>2, <2>3
  <2> QED BY <2>4 DEF G
<1>24. /\ InterfaceItems(Path(c), shown, f) = ItemsFor(u, kids)
       /\ LocalItems(Path(c), walked, f) = ItemsFor(u, more)
  BY <1>22, <1>23 DEF InterfaceItems, LocalItems
<1> QED BY <1>11, <1>13, <1>14, <1>24

-----------------------------------------------------------------------------
(***************************************************************************)
(* Paths.  Names are different in a scope, so that a path has one chain;   *)
(* what is visited from different items of the walk is therefore different.*)
(***************************************************************************)

LEMMA PathIs ==
  ASSUME NEW c \in ChainT
  PROVE  /\ Path(c) \in Seq(Name) /\ Len(c.at) \in Nat /\ Len(c.steps) \in Nat
         /\ Len(Path(c)) = Len(c.at) + Len(c.steps)
         /\ \A i \in 1 .. Len(c.at) : Path(c)[i] = c.at[i]
         /\ \A i \in 1 .. Len(c.steps) : Path(c)[Len(c.at) + i] = c.steps[i].m.name
<1> DEFINE n == Len(c.steps)
           names == [i \in DOMAIN c.steps |-> c.steps[i].m.name]
<1>1. c.at \in Seq(Name) /\ c.steps \in Seq(StepT) /\ n \in Nat /\ DOMAIN c.steps = 1 .. n
  BY DEF ChainT
<1>2. \A i \in 1 .. n : c.steps[i].m.name \in Name
  <2>1. TAKE i \in 1 .. n
  <2>2. c.steps[i] \in StepT
    BY <1>1
  <2>3. c.steps[i].m \in Members
    BY <2>2 DEF StepT
  <2> QED BY <2>3 DEF Members, Name
<1>3. names = [i \in 1 .. n |-> c.steps[i].m.name]
  BY <1>1
<1>4. Path(c) = c.at \o names
  BY DEF Path
<1>5. n = Len(c.steps)
  OBVIOUS
<1> HIDE DEF n, names
<1>6. names \in Seq(Name) /\ Len(names) = n
  BY <1>1, <1>2, <1>3
<1>7. Joins(Name, c.at, names, Path(c))
  BY <1>1, <1>4, <1>6, JoinIs
<1> QED BY <1>1, <1>3, <1>5, <1>6, <1>7 DEF Joins

\* No instance has the name of a global.
NamesFree(u) == \A g \in Range(Distinct(u.globals)) : g.name \notin Range(u.instances)

\* The first name of a path tells where its chain begins.
LEMMA ChainHead ==
  ASSUME NEW u, Flat(u), NamesFree(u), NEW c, IsChain(u, c)
  PROVE  \/ /\ c.at = <<>> /\ Path(c)[1] \notin Range(u.instances)
            /\ \E m \in Range(Distinct(u.globals)) : c.steps[1] = Step(Program, m)
         \/ /\ Path(c)[1] \in Range(u.instances) /\ c.at = <<Path(c)[1]>>
            /\ \E m \in Range(u.vars) : c.steps[1] = Step(Program, m)
<1>1. /\ c \in ChainT /\ Len(c.steps) \in Nat \ {0} /\ IsRoot(u, RootOf(c))
      /\ RootOf(c).at = c.at /\ RootOf(c).steps = <<c.steps[1]>>
  BY ChainParts DEF RootOf
<1>2. 1 \in 1 .. Len(c.steps)
  BY <1>1
<1>3. CASE \E m \in Range(Distinct(u.globals)) :
             RootOf(c) = [at |-> <<>>, steps |-> <<Step(Program, m)>>]
  <2>1. PICK m \in Range(Distinct(u.globals)) :
               RootOf(c) = [at |-> <<>>, steps |-> <<Step(Program, m)>>]
    BY <1>3
  <2>2. c.at = <<>> /\ c.steps[1] = Step(Program, m)
    BY <1>1, <2>1
  <2>3. Path(c)[0 + 1] = c.steps[1].m.name
    <3>1. Len(c.at) = 0
      BY <2>2
    <3> QED BY <1>1, <1>2, <3>1, PathIs
  <2>4. Path(c)[1] = m.name
    BY <2>2, <2>3 DEF Step
  <2> QED BY <2>2, <2>4 DEF NamesFree
<1>4. CASE \E m \in Range(u.vars) : \E i \in Range(u.instances) :
             RootOf(c) = [at |-> <<i>>, steps |-> <<Step(Program, m)>>]
  <2>1. PICK m \in Range(u.vars), i \in Range(u.instances) :
               RootOf(c) = [at |-> <<i>>, steps |-> <<Step(Program, m)>>]
    BY <1>4
  <2>2. c.at = <<i>> /\ c.steps[1] = Step(Program, m)
    BY <1>1, <2>1
  <2>3. Path(c)[1] = i
    <3>1. Len(c.at) = 1 /\ c.at[1] = i
      BY <2>2
    <3>2. 1 \in 1 .. Len(c.at)
      BY <3>1
    <3>3. Path(c)[1] = c.at[1]
      BY <1>1, <3>2, PathIs
    <3> QED BY <3>1, <3>3
  <2> QED BY <2>2, <2>3
<1> QED BY <1>1, <1>3, <1>4 DEF IsRoot

\* No two chains have the same path.
LEMMA PathsDiffer ==
  ASSUME NEW u, Flat(u), NamesFree(u), NEW c, IsChain(u, c), NEW x, IsChain(u, x),
         Path(c) = Path(x)
  PROVE  c = x
<1> DEFINE n == Len(c.steps)
           a == Len(c.at)
<1>1. c.at = x.at
  BY ChainHead
<1>2. c \in ChainT /\ x \in ChainT /\ n \in Nat \ {0}
  BY ChainParts
<1>3. a = Len(x.at) /\ n = Len(x.steps) /\ a \in Nat
  <2>1. /\ Len(Path(c)) = Len(c.at) + Len(c.steps) /\ Len(Path(x)) = Len(x.at) + Len(x.steps)
        /\ Len(c.at) \in Nat /\ Len(c.steps) \in Nat /\ Len(x.steps) \in Nat
    BY <1>2, PathIs
  <2>2. Len(Path(c)) = Len(Path(x)) /\ Len(c.at) = Len(x.at)
    BY <1>1
  <2> DEFINE b == Len(x.at)
             m == Len(x.steps)
  <2>3. a \in Nat /\ n \in Nat /\ m \in Nat /\ a + n = b + m /\ a = b
    BY <2>1, <2>2
  <2> HIDE DEF a, n, b, m
  <2>4. a = b /\ n = m /\ a \in Nat
    BY <2>3
  <2> QED BY <2>4 DEF b, m
<1>4. \A i \in 1 .. n : c.steps[i].m.name = x.steps[i].m.name
  <2>1. TAKE i \in 1 .. n
  <2>2. Path(c)[a + i] = c.steps[i].m.name
    BY <1>2, PathIs
  <2>3. Path(x)[a + i] = x.steps[i].m.name
    BY <1>2, <1>3, PathIs
  <2> QED BY <2>2, <2>3
<1>5. n = Len(c.steps)
  OBVIOUS
<1> HIDE DEF n, a
<1> DEFINE Bad == {i \in Nat : i \in 1 .. n /\ c.steps[i] # x.steps[i]}
<1>6. Bad = {}
  <2>1. SUFFICES ASSUME Bad # {} PROVE FALSE
    OBVIOUS
  <2>2. PICK i \in Bad : \A k \in Bad : i <= k
    <3>1. Bad \in SUBSET Nat
      OBVIOUS
    <3> HIDE DEF Bad
    <3> QED BY <2>1, <3>1, LeastElement
  <2>3. i \in 1 .. n /\ c.steps[i] # x.steps[i] /\ c.steps[i].m.name = x.steps[i].m.name
    BY <1>4, <2>2
  <2>4. CASE i = 1
    <3>1. ASSUME NEW ms \in Seq(Members), DifferentNames(ms),
                 \E m \in Range(ms) : c.steps[1] = Step(Program, m),
                 \E m \in Range(ms) : x.steps[1] = Step(Program, m)
          PROVE  FALSE
      <4>1. PICK k \in 1 .. Len(ms) : c.steps[1] = Step(Program, ms[k])
        BY <3>1, RangeOf
      <4>2. PICK l \in 1 .. Len(ms) : x.steps[1] = Step(Program, ms[l])
        BY <3>1, RangeOf
      <4>3. ms[k].name = ms[l].name
        BY <2>3, <2>4, <4>1, <4>2 DEF Step
      <4>4. k = l
        BY <3>1, <4>3 DEF DifferentNames
      <4> QED BY <2>3, <2>4, <4>1, <4>2, <4>4
    <3>2. CASE c.at = <<>>
      <4>1. /\ \E m \in Range(Distinct(u.globals)) : c.steps[1] = Step(Program, m)
            /\ \E m \in Range(Distinct(u.globals)) : x.steps[1] = Step(Program, m)
        <5>1. c.at # <<Path(c)[1]>> /\ x.at # <<Path(x)[1]>>
          BY <1>1, <3>2
        <5> QED BY <5>1, ChainHead
      <4> QED BY <3>1, <4>1, GlobalsDistinct
    <3>3. CASE c.at # <<>>
      <4>1. /\ \E m \in Range(u.vars) : c.steps[1] = Step(Program, m)
            /\ \E m \in Range(u.vars) : x.steps[1] = Step(Program, m)
        BY <1>1, <3>3, ChainHead
      <4> QED BY <3>1, <4>1 DEF Flat
    <3> QED BY <3>2, <3>3
  <2>5. CASE i # 1
    <3>1. i - 1 \in 1 .. n /\ i - 1 < i /\ i - 1 \in Nat /\ i \in 2 .. n
      BY <1>2, <2>3, <2>5
    <3>2. c.steps[i - 1] = x.steps[i - 1]
      <4>1. i - 1 \in Bad => i <= i - 1
        BY <2>2
      <4> QED BY <3>1, <4>1
    <3> DEFINE b == c.steps[i - 1].m.type
               ms == u.blocks[b].members
    <3>3. b \in BlockTypes /\ c.steps[i] \in MembersOf(u, b) /\ x.steps[i] \in MembersOf(u, b)
      BY <1>3, <1>5, <3>1, <3>2 DEF IsChain
    <3> HIDE DEF b
    <3>4. /\ c.steps[i] = Step(b, c.steps[i].m) /\ c.steps[i].m \in Range(ms)
          /\ x.steps[i] = Step(b, x.steps[i].m) /\ x.steps[i].m \in Range(ms)
      BY <3>3, MembersTyped
    <3>5. ms \in Seq(Members) /\ DifferentNames(ms)
      BY <3>3 DEF Flat
    <3> HIDE DEF ms
    <3>6. PICK k \in 1 .. Len(ms) : c.steps[i].m = ms[k]
      BY <3>4, <3>5, RangeOf
    <3>7. PICK l \in 1 .. Len(ms) : x.steps[i].m = ms[l]
      BY <3>4, <3>5, RangeOf
    <3>8. k = l
      BY <2>3, <3>5, <3>6, <3>7 DEF DifferentNames
    <3> QED BY <2>3, <3>4, <3>6, <3>7, <3>8
  <2> QED BY <2>4, <2>5
<1>7. \A i \in 1 .. n : c.steps[i] = x.steps[i]
  <2>1. \A i \in 1 .. n : i \in Nat
    BY <1>2
  <2> QED BY <1>6, <2>1
<1> QED BY <1>1, <1>2, <1>3, <1>5, <1>7, SameChain

LEMMA CutAll ==
  ASSUME NEW c \in ChainT
  PROVE  Cut(c, Len(c.steps)) = c
<1>1. Len(c.steps) \in Nat
  BY DEF ChainT
<1>2. /\ Cut(c, Len(c.steps)) \in ChainT /\ Cut(c, Len(c.steps)).at = c.at
      /\ Len(Cut(c, Len(c.steps)).steps) = Len(c.steps)
      /\ \A i \in 1 .. Len(c.steps) : Cut(c, Len(c.steps)).steps[i] = c.steps[i]
  BY <1>1, CutIs
<1> QED BY <1>2, SameChain

LEMMA CutCut ==
  ASSUME NEW c \in ChainT, NEW n \in Nat, n <= Len(c.steps), NEW k \in Nat, k <= n
  PROVE  Cut(Cut(c, n), k) = Cut(c, k)
<1> DEFINE x == Cut(c, n)
<1>1. x \in ChainT /\ x.at = c.at /\ Len(x.steps) = n /\ \A i \in 1 .. n : x.steps[i] = c.steps[i]
  BY CutIs
<1> HIDE DEF x
<1>2. /\ Cut(x, k) \in ChainT /\ Cut(x, k).at = x.at /\ Len(Cut(x, k).steps) = k
      /\ \A i \in 1 .. k : Cut(x, k).steps[i] = x.steps[i]
  BY <1>1, CutIs
<1>3. Len(c.steps) \in Nat
  BY DEF ChainT
<1>4. /\ Cut(c, k) \in ChainT /\ Cut(c, k).at = c.at /\ Len(Cut(c, k).steps) = k
      /\ \A i \in 1 .. k : Cut(c, k).steps[i] = c.steps[i]
  BY <1>3, CutIs
<1>5. \A i \in 1 .. k : i \in 1 .. n
  OBVIOUS
<1>6. Cut(x, k) = Cut(c, k)
  BY <1>1, <1>2, <1>4, <1>5, SameChain
<1> QED BY <1>6 DEF x

\* What is visited from c on: c and what it leads to.
Under(u, c) ==
  {x \in Visible(u) : c # Gate /\ Len(c.steps) <= Len(x.steps) /\ Cut(x, Len(c.steps)) = c}

\* What is visited from c on is c and, apart from one another, what is visited
\* from its kids.
Splits(u, c, kids) ==
  /\ c \in Under(u, c)
  /\ \A x : x \in Under(u, c) <=> x = c \/ \E k \in 1 .. Len(kids) : x \in Under(u, kids[k])
  /\ \A k \in 1 .. Len(kids) : c \notin Under(u, kids[k])
  /\ \A k, l \in 1 .. Len(kids) : k # l => Under(u, kids[k]) \cap Under(u, kids[l]) = {}

LEMMA KidsSplit ==
  ASSUME NEW u, Flat(u), NEW c \in Visible(u), NEW kids, IsKids(u, c, kids)
  PROVE  Splits(u, c, kids)
<1> DEFINE n == Len(c.steps)
<1>1. c \in ChainT /\ n \in Nat \ {0} /\ c # Gate
  BY VisibleIs, ChainParts, NotGate
<1>2. \A k \in 1 .. Len(kids) :
        /\ kids[k] \in Visible(u) /\ kids[k] # Gate /\ kids[k] \in ChainT
        /\ Len(kids[k].steps) = n + 1 /\ Cut(kids[k], n) = c
  <2>1. TAKE k \in 1 .. Len(kids)
  <2>2. kids[k] \in Visible(u) /\ Len(kids[k].steps) = n + 1 /\ Cut(kids[k], n) = c
    BY DEF IsKids
  <2> QED BY <2>2, VisibleIs, ChainParts, NotGate
<1>3. n = Len(c.steps)
  OBVIOUS
<1> HIDE DEF n
<1>4. \A x : x \in Under(u, c) <=> x \in Visible(u) /\ n <= Len(x.steps) /\ Cut(x, n) = c
  BY <1>1, <1>3 DEF Under
<1>5. \A k \in 1 .. Len(kids) : \A x :
        x \in Under(u, kids[k]) <=>
          x \in Visible(u) /\ n + 1 <= Len(x.steps) /\ Cut(x, n + 1) = kids[k]
  BY <1>2 DEF Under
<1>6. \A x \in Visible(u) : x \in ChainT /\ Len(x.steps) \in Nat
  BY VisibleIs, ChainParts
<1>7. c \in Under(u, c)
  <2>1. Cut(c, n) = c
    BY <1>1, <1>3, CutAll
  <2> QED BY <1>1, <1>3, <1>4, <2>1
<1>8. ASSUME NEW x \in Under(u, c), x # c
      PROVE  \E k \in 1 .. Len(kids) : x \in Under(u, kids[k])
  <2>1. x \in Visible(u) /\ n <= Len(x.steps) /\ Cut(x, n) = c /\ x \in ChainT /\ Len(x.steps) \in Nat
    BY <1>4, <1>6
  <2>2. Len(x.steps) # n
    <3>1. Cut(x, Len(x.steps)) = x
      BY <2>1, CutAll
    <3> QED BY <1>8, <2>1, <3>1
  <2>3. n + 1 \in 1 .. Len(x.steps) /\ n + 1 \in Nat /\ n \in Nat /\ n <= n + 1
        /\ n + 1 <= Len(x.steps)
    BY <1>1, <2>1, <2>2
  <2> DEFINE y == Cut(x, n + 1)
  <2>4. y \in Visible(u) /\ Len(y.steps) = n + 1
    BY <2>1, <2>3, CutVisible, CutIs
  <2>5. Cut(y, n) = c
    BY <2>1, <2>3, CutCut
  <2> HIDE DEF y
  <2>6. PICK k \in 1 .. Len(kids) : kids[k] = y
    BY <1>3, <2>4, <2>5 DEF IsKids
  <2> QED BY <1>5, <2>1, <2>3, <2>6 DEF y
<1>9. ASSUME NEW k \in 1 .. Len(kids), NEW x \in Under(u, kids[k])
      PROVE  x \in Under(u, c)
  <2>1. x \in Visible(u) /\ n + 1 <= Len(x.steps) /\ Cut(x, n + 1) = kids[k]
        /\ x \in ChainT /\ Len(x.steps) \in Nat
    BY <1>5, <1>6
  <2>2. n \in Nat /\ n + 1 \in Nat /\ n <= n + 1 /\ n <= Len(x.steps)
    BY <1>1, <2>1
  <2>3. Cut(Cut(x, n + 1), n) = Cut(x, n)
    BY <2>1, <2>2, CutCut
  <2>4. Cut(x, n) = c
    BY <1>2, <2>1, <2>3
  <2> QED BY <1>4, <2>1, <2>2, <2>4
<1>10. \A k \in 1 .. Len(kids) : c \notin Under(u, kids[k])
  <2>1. ~(n + 1 <= n)
    BY <1>1
  <2> QED BY <1>3, <1>5, <2>1
<1>11. ASSUME NEW k \in 1 .. Len(kids), NEW l \in 1 .. Len(kids), k # l
       PROVE  Under(u, kids[k]) \cap Under(u, kids[l]) = {}
  <2>1. ASSUME NEW x, x \in Under(u, kids[k]), x \in Under(u, kids[l]) PROVE FALSE
    <3>1. kids[k] = kids[l]
      BY <1>5, <2>1
    <3> QED BY <1>11, <3>1 DEF IsKids
  <2> QED BY <2>1
<1> QED BY <1>7, <1>8, <1>9, <1>10, <1>11 DEF Splits

\* Nothing is visited from a leaf, nor from a block whose interface is empty.
LEMMA NoKids ==
  ASSUME NEW u, Flat(u), NEW c \in Visible(u),
         \/ Last(c.steps).m.type \notin BlockTypes
         \/ /\ Last(c.steps).m.type \in BlockTypes
            /\ OfLibrary(u.blocks[Last(c.steps).m.type])
            /\ Interface(u.blocks[Last(c.steps).m.type]) = <<>>
  PROVE  IsKids(u, c, <<>>)
<1> DEFINE n == Len(c.steps)
<1>1. c \in ChainT /\ n \in Nat \ {0}
  BY VisibleIs, ChainParts
<1>2. ASSUME NEW x \in Visible(u), Len(x.steps) = n + 1, Cut(x, n) = c
      PROVE  FALSE
  <2>1. IsChain(u, x)
    BY VisibleIs
  <2>2. /\ Last(c.steps).m.type \in BlockTypes
        /\ Last(x.steps) \in MembersOf(u, Last(c.steps).m.type)
        /\ x = OneMore(c, Last(x.steps))
    BY <1>1, <1>2, <2>1, ChainEnds
  <2>3. /\ ShownMember(u, FlagsOf(u, c), Last(x.steps))
        /\ Last(x.steps).home = Last(c.steps).m.type
    BY <2>2, MemberVisible, MembersTyped
  <2> QED BY <2>2, <2>3 DEF ShownMember
<1>3. <<>> \in Seq(Visible(u)) /\ Len(<<>>) = 0
  OBVIOUS
<1> QED BY <1>2, <1>3 DEF IsKids

\* What is still to be visited, as chains: nothing twice, and neighbours have
\* their leaves in one part of the table.
Walks(u, cs) ==
  /\ cs \in Seq(Visible(u) \union {Gate})
  /\ \A k, l \in 1 .. Len(cs) : k # l => Under(u, cs[k]) \cap Under(u, cs[l]) = {}
  /\ \A k \in 2 .. Len(cs) :
       cs[k - 1] # Gate /\ cs[k] # Gate
         => PartOf(u, Path(cs[k - 1])) = PartOf(u, Path(cs[k]))

\* The chains the walk is through with.
Behind(u, cs) == {x \in Visible(u) : \A k \in 1 .. Len(cs) : x \notin Under(u, cs[k])}

\* One step of the walk, past c.
Passes(u, cs, c, next) ==
  /\ Walks(u, next)
  /\ c \notin Behind(u, cs)
  /\ Behind(u, next) = Behind(u, cs) \union {c}
  /\ next # <<>> /\ next[1] # Gate => PartOf(u, Path(next[1])) = PartOf(u, Path(c))

LEMMA TailIs ==
  ASSUME NEW T, NEW s \in Seq(T), s # <<>>
  PROVE  /\ Len(s) \in Nat \ {0} /\ Tail(s) \in Seq(T) /\ Len(Tail(s)) = Len(s) - 1
         /\ \A k \in 1 .. Len(s) - 1 : Tail(s)[k] = s[k + 1]
         /\ Head(s) = s[1] /\ s[1] \in T
OBVIOUS

\* What a chain leads to is of its part.
LEMMA KidPart ==
  ASSUME NEW u, Flat(u), NEW c \in Visible(u), NEW kids, IsKids(u, c, kids)
  PROVE  \A k \in 1 .. Len(kids) : /\ kids[k] # Gate
                                   /\ PartOf(u, Path(kids[k])) = PartOf(u, Path(c))
<1>1. TAKE k \in 1 .. Len(kids)
<1> DEFINE x == kids[k]
           n == Len(c.steps)
<1>2. x \in Visible(u) /\ Len(x.steps) = n + 1 /\ Cut(x, n) = c
  BY DEF IsKids
<1>3. c \in ChainT /\ x \in ChainT /\ n \in Nat \ {0} /\ x # Gate
  BY <1>2, VisibleIs, ChainParts, NotGate
<1> HIDE DEF x, n
<1>4. n \in Nat /\ n <= Len(x.steps) /\ 1 \in 1 .. n
  BY <1>2, <1>3
<1>5. c.at = x.at /\ c.steps[1] = x.steps[1]
  BY <1>2, <1>3, <1>4, CutIs
<1>6. Path(c)[1] = Path(x)[1]
  <2>1. CASE Len(c.at) = 0
    <3>1. 1 \in 1 .. Len(x.steps) /\ 1 \in 1 .. Len(c.steps)
      BY <1>2, <1>3, <1>4 DEF n
    <3>2. Path(c)[Len(c.at) + 1] = c.steps[1].m.name
      BY <1>3, <3>1, PathIs
    <3>3. Path(x)[Len(x.at) + 1] = x.steps[1].m.name
      BY <1>3, <3>1, PathIs
    <3> QED BY <1>5, <2>1, <3>2, <3>3
  <2>2. CASE Len(c.at) # 0
    <3>1. 1 \in 1 .. Len(c.at)
      BY <1>3, <2>2, PathIs
    <3>2. Path(c)[1] = c.at[1]
      BY <1>3, <3>1, PathIs
    <3>3. Path(x)[1] = x.at[1]
      BY <1>3, <1>5, <3>1, PathIs
    <3> QED BY <1>5, <3>2, <3>3
  <2> QED BY <2>1, <2>2
<1> QED BY <1>3, <1>6 DEF PartOf, x

\* A chain is visited and the chains one step longer are put in its place.
LEMMA WalkStep ==
  ASSUME NEW u, Flat(u), NEW cs, Walks(u, cs), cs # <<>>, NEW c \in Visible(u), cs[1] = c,
         NEW kids, IsKids(u, c, kids)
  PROVE  Passes(u, cs, c, kids \o Tail(cs))
<1> DEFINE T == Visible(u) \union {Gate}
           rest == Tail(cs)
           next == kids \o rest
           n == Len(cs) - 1
           m == Len(kids)
<1>1. /\ cs \in Seq(T) /\ Len(cs) = n + 1 /\ n \in Nat /\ 1 \in 1 .. Len(cs)
      /\ rest \in Seq(T) /\ Len(rest) = n
      /\ \A k \in 1 .. n : rest[k] = cs[k + 1] /\ k + 1 \in 1 .. Len(cs) /\ k + 1 # 1
  <2>1. cs \in Seq(T)
    BY DEF Walks
  <2> QED BY <2>1, TailIs
<1>2. kids \in Seq(T) /\ Len(kids) = m
  BY DEF IsKids
<1>3. /\ next \in Seq(T) /\ m \in Nat /\ Len(next) = m + n
      /\ \A k \in 1 .. m : next[k] = kids[k]
      /\ \A k \in 1 .. n : next[m + k] = rest[k]
      /\ \A k \in 1 .. m + n : k \in 1 .. m \/ (k - m \in 1 .. n /\ k = m + (k - m))
  <2>1. Joins(T, kids, rest, next)
    BY <1>1, <1>2, JoinIs
  <2> QED BY <1>1, <1>2, <2>1 DEF Joins
<1> HIDE DEF T, rest, next, m, n
<1>4. \A k \in 1 .. m + n : \/ k \in 1 .. m /\ next[k] = kids[k]
                            \/ k - m \in 1 .. n /\ next[k] = cs[(k - m) + 1]
  <2>1. TAKE k \in 1 .. m + n
  <2>2. CASE k \in 1 .. m
    BY <1>3, <2>2
  <2>3. CASE k - m \in 1 .. n /\ k = m + (k - m)
    <3>1. next[m + (k - m)] = rest[k - m]
      BY <1>3, <2>3
    <3> QED BY <1>1, <2>3, <3>1
  <2> QED BY <1>3, <2>2, <2>3
<1>5. Splits(u, c, kids)
  BY KidsSplit
<1>6. /\ \A k \in 1 .. m : Under(u, kids[k]) \subseteq Under(u, c)
      /\ \A k, l \in 1 .. m : k # l => Under(u, kids[k]) \cap Under(u, kids[l]) = {}
  BY <1>5 DEF Splits, m
<1>7. /\ \A j \in 1 .. n : Under(u, c) \cap Under(u, cs[j + 1]) = {}
      /\ \A i, j \in 1 .. n : i # j => Under(u, cs[i + 1]) \cap Under(u, cs[j + 1]) = {}
  <2>1. \A k, l \in 1 .. Len(cs) : k # l => Under(u, cs[k]) \cap Under(u, cs[l]) = {}
    BY DEF Walks
  <2>2. \A i, j \in 1 .. n : i # j => i + 1 # j + 1
    BY <1>1
  <2>3. \A j \in 1 .. n : j + 1 \in 1 .. Len(cs) /\ j + 1 # 1
    BY <1>1
  <2>4. \A j \in 1 .. n : Under(u, cs[1]) \cap Under(u, cs[j + 1]) = {}
    BY <1>1, <2>1, <2>3
  <2>5. \A i, j \in 1 .. n : i # j => Under(u, cs[i + 1]) \cap Under(u, cs[j + 1]) = {}
    BY <2>1, <2>2, <2>3
  <2> QED BY <2>4, <2>5
<1>8. ASSUME NEW k \in 1 .. m + n, NEW l \in 1 .. m + n, k # l
      PROVE  Under(u, next[k]) \cap Under(u, next[l]) = {}
  <2>1. CASE k \in 1 .. m /\ next[k] = kids[k] /\ l \in 1 .. m /\ next[l] = kids[l]
    BY <1>6, <1>8, <2>1
  <2>2. CASE k \in 1 .. m /\ next[k] = kids[k] /\ l - m \in 1 .. n /\ next[l] = cs[(l - m) + 1]
    BY <1>6, <1>7, <2>2
  <2>3. CASE l \in 1 .. m /\ next[l] = kids[l] /\ k - m \in 1 .. n /\ next[k] = cs[(k - m) + 1]
    BY <1>6, <1>7, <2>3
  <2>4. CASE /\ k - m \in 1 .. n /\ next[k] = cs[(k - m) + 1]
             /\ l - m \in 1 .. n /\ next[l] = cs[(l - m) + 1]
    <3>1. k - m # l - m
      BY <1>3, <1>8
    <3> QED BY <1>7, <2>4, <3>1
  <2> QED BY <1>4, <2>1, <2>2, <2>3, <2>4
<1>9. \A k \in 1 .. m : kids[k] # Gate /\ PartOf(u, Path(kids[k])) = PartOf(u, Path(c))
  BY KidPart DEF m
<1>10. c # Gate
  BY NotGate
<1> DEFINE Part(x) == PartOf(u, Path(x))
<1>11. \A k \in 2 .. n + 1 : cs[k - 1] # Gate /\ cs[k] # Gate => Part(cs[k - 1]) = Part(cs[k])
  BY <1>1 DEF Walks
<1> HIDE DEF Part
<1>12. ASSUME n # 0, cs[2] # Gate PROVE Part(cs[2]) = Part(c)
  <2>1. 2 \in 2 .. n + 1 /\ 2 - 1 = 1
    BY <1>1, <1>12
  <2>2. cs[2 - 1] # Gate /\ cs[2] # Gate => Part(cs[2 - 1]) = Part(cs[2])
    BY <1>11, <2>1
  <2> QED BY <1>10, <1>12, <2>1, <2>2
<1>13. ASSUME NEW k \in 2 .. m + n, next[k - 1] # Gate, next[k] # Gate
       PROVE  Part(next[k - 1]) = Part(next[k])
  <2>1. k \in 1 .. m + n /\ k - 1 \in 1 .. m + n
    BY <1>1, <1>3
  <2>2. CASE k <= m
    <3>1. k \in 1 .. m /\ k - 1 \in 1 .. m
      BY <1>3, <2>2
    <3>2. next[k] = kids[k] /\ next[k - 1] = kids[k - 1]
      BY <1>3, <3>1
    <3> QED BY <1>9, <3>1, <3>2 DEF Part
  <2>3. CASE k = m + 1
    <3>1. k - m \in 1 .. n /\ (k - m) + 1 = 2 /\ n # 0 /\ k - 1 \in 1 .. m /\ k \notin 1 .. m
      BY <1>1, <1>3, <2>3
    <3>2. next[k] = cs[2]
      BY <1>4, <2>1, <3>1
    <3>3. next[k - 1] = kids[k - 1]
      BY <1>3, <3>1
    <3>4. Part(kids[k - 1]) = Part(c)
      BY <1>9, <3>1 DEF Part
    <3> QED BY <1>12, <1>13, <3>1, <3>2, <3>3, <3>4
  <2>4. CASE k > m + 1
    <3>1. /\ k \notin 1 .. m /\ k - 1 \notin 1 .. m
          /\ (k - m) + 1 \in 2 .. n + 1 /\ ((k - 1) - m) + 1 = ((k - m) + 1) - 1
      BY <1>1, <1>3, <2>4
    <3>2. next[k] = cs[(k - m) + 1] /\ next[k - 1] = cs[((k - 1) - m) + 1]
      BY <1>4, <2>1, <3>1
    <3> QED BY <1>11, <1>13, <3>1, <3>2
  <2> QED BY <1>3, <2>2, <2>3, <2>4
<1>14. ASSUME next # <<>>, next[1] # Gate PROVE Part(next[1]) = Part(c)
  <2>1. CASE m # 0
    <3>1. 1 \in 1 .. m
      BY <1>3, <2>1
    <3> QED BY <1>3, <1>9, <3>1 DEF Part
  <2>2. CASE m = 0
    <3>1. n # 0
      <4>1. Len(next) # 0
        BY <1>3, <1>14
      <4> QED BY <1>1, <1>3, <2>2, <4>1
    <3>2. 1 \in 1 .. m + n /\ 1 \notin 1 .. m /\ (1 - m) + 1 = 2
      BY <1>1, <2>2, <3>1
    <3>3. next[1] = cs[2]
      BY <1>4, <3>2
    <3> QED BY <1>12, <1>14, <3>1, <3>3
  <2> QED BY <2>1, <2>2
<1>15. Walks(u, next)
  BY <1>3, <1>8, <1>13 DEF Walks, T, Part
<1>16. c \notin Behind(u, cs)
  <2>1. c \in Under(u, cs[1])
    BY <1>5 DEF Splits
  <2> QED BY <1>1, <2>1 DEF Behind
<1>17. \A x : (\E k \in 1 .. Len(cs) : x \in Under(u, cs[k])) <=>
                x \in Under(u, c) \/ \E j \in 1 .. n : x \in Under(u, cs[j + 1])
  <2>1. \A k \in 1 .. n + 1 : k = 1 \/ (k - 1 \in 1 .. n /\ (k - 1) + 1 = k)
    BY <1>1
  <2>2. TAKE x
  <2>3. ASSUME NEW k \in 1 .. Len(cs), x \in Under(u, cs[k])
        PROVE  x \in Under(u, c) \/ \E j \in 1 .. n : x \in Under(u, cs[j + 1])
    <3>1. k \in 1 .. n + 1
      BY <1>1
    <3>2. CASE k = 1
      BY <2>3, <3>2
    <3>3. CASE k - 1 \in 1 .. n /\ (k - 1) + 1 = k
      <4>1. x \in Under(u, cs[(k - 1) + 1])
        BY <2>3, <3>3
      <4> QED BY <3>3, <4>1
    <3> QED BY <2>1, <3>1, <3>2, <3>3
  <2>4. \A j \in 1 .. n : j + 1 \in 1 .. Len(cs)
    BY <1>1
  <2> QED BY <1>1, <2>3, <2>4
<1>18. \A x : (\E k \in 1 .. Len(next) : x \in Under(u, next[k])) <=>
                \/ \E k \in 1 .. m : x \in Under(u, kids[k])
                \/ \E j \in 1 .. n : x \in Under(u, cs[j + 1])
  <2>1. TAKE x
  <2>2. ASSUME NEW k \in 1 .. Len(next), x \in Under(u, next[k])
        PROVE  \/ \E i \in 1 .. m : x \in Under(u, kids[i])
               \/ \E j \in 1 .. n : x \in Under(u, cs[j + 1])
    BY <1>3, <1>4, <2>2
  <2>3. ASSUME NEW k \in 1 .. m, x \in Under(u, kids[k])
        PROVE  \E i \in 1 .. Len(next) : x \in Under(u, next[i])
    <3>1. k \in 1 .. Len(next)
      BY <1>1, <1>3
    <3> QED BY <1>3, <2>3, <3>1
  <2>4. ASSUME NEW j \in 1 .. n, x \in Under(u, cs[j + 1])
        PROVE  \E i \in 1 .. Len(next) : x \in Under(u, next[i])
    <3>1. m + j \in 1 .. Len(next)
      BY <1>1, <1>3
    <3>2. next[m + j] = cs[j + 1]
      BY <1>1, <1>3
    <3> QED BY <2>4, <3>1, <3>2
  <2> QED BY <2>2, <2>3, <2>4
<1>19. Behind(u, next) = Behind(u, cs) \union {c}
  <2>1. \A x : x \in Behind(u, next) <=>
                 x \in Visible(u) /\ ~\E k \in 1 .. Len(next) : x \in Under(u, next[k])
    BY DEF Behind
  <2>2. \A x : x \in Behind(u, cs) <=>
                 x \in Visible(u) /\ ~\E k \in 1 .. Len(cs) : x \in Under(u, cs[k])
    BY DEF Behind
  <2>3. \A x : x \in Under(u, c) <=> x = c \/ \E k \in 1 .. m : x \in Under(u, kids[k])
    BY <1>5 DEF Splits, m
  <2>4. \A k \in 1 .. m : c \notin Under(u, kids[k])
    BY <1>5 DEF Splits, m
  <2>5. \A j \in 1 .. n : c \notin Under(u, cs[j + 1])
    BY <1>5, <1>7 DEF Splits
  <2>6. \A x : x \in Behind(u, next) <=> x \in Behind(u, cs) \/ x = c
    BY <1>17, <1>18, <2>1, <2>2, <2>3, <2>4, <2>5
  <2> QED BY <2>6
<1>20. Passes(u, cs, c, next)
  BY <1>14, <1>15, <1>16, <1>19 DEF Passes, Part
<1> QED BY <1>20 DEF next, rest

\* Past a gate nothing is left behind.
LEMMA GateStep ==
  ASSUME NEW u, NEW cs, Walks(u, cs), cs # <<>>, cs[1] = Gate
  PROVE  Walks(u, Tail(cs)) /\ Behind(u, Tail(cs)) = Behind(u, cs)
<1> DEFINE T == Visible(u) \union {Gate}
           rest == Tail(cs)
           n == Len(cs) - 1
           Part(x) == PartOf(u, Path(x))
<1>1. /\ cs \in Seq(T) /\ Len(cs) = n + 1 /\ n \in Nat
      /\ rest \in Seq(T) /\ Len(rest) = n
      /\ \A k \in 1 .. n : rest[k] = cs[k + 1] /\ k + 1 \in 1 .. Len(cs)
  <2>1. cs \in Seq(T)
    BY DEF Walks
  <2> QED BY <2>1, TailIs
<1> HIDE DEF T, rest, n
<1>2. \A k, l \in 1 .. n : k # l => Under(u, rest[k]) \cap Under(u, rest[l]) = {}
  <2>1. \A k, l \in 1 .. n : k # l => k + 1 # l + 1
    BY <1>1
  <2> QED BY <1>1, <2>1 DEF Walks
<1>3. \A k \in 2 .. n + 1 : cs[k - 1] # Gate /\ cs[k] # Gate => Part(cs[k - 1]) = Part(cs[k])
  BY <1>1 DEF Walks
<1> HIDE DEF Part
<1>4. \A k \in 2 .. n : rest[k - 1] # Gate /\ rest[k] # Gate => Part(rest[k - 1]) = Part(rest[k])
  <2>1. TAKE k \in 2 .. n
  <2>2. k \in 1 .. n /\ k - 1 \in 1 .. n /\ k + 1 \in 2 .. n + 1 /\ (k - 1) + 1 = (k + 1) - 1
    BY <1>1
  <2>3. rest[k] = cs[k + 1] /\ rest[k - 1] = cs[(k + 1) - 1]
    BY <1>1, <2>2
  <2> QED BY <1>3, <2>2, <2>3
<1>5. Walks(u, rest)
  BY <1>1, <1>2, <1>4 DEF Walks, T, Part
<1>6. \A x : x \notin Under(u, Gate)
  BY DEF Under
<1>7. \A k \in 1 .. n + 1 : k = 1 \/ (k - 1 \in 1 .. n /\ (k - 1) + 1 = k)
  BY <1>1
<1>8. \A x : (\A k \in 1 .. n : x \notin Under(u, rest[k])) <=>
               (\A k \in 1 .. n + 1 : x \notin Under(u, cs[k]))
  <2>1. TAKE x
  <2>2. ASSUME \A k \in 1 .. n : x \notin Under(u, rest[k]), NEW k \in 1 .. n + 1
        PROVE  x \notin Under(u, cs[k])
    <3>1. CASE k = 1
      BY <1>6, <3>1
    <3>2. CASE k - 1 \in 1 .. n /\ (k - 1) + 1 = k
      <4>1. rest[k - 1] = cs[(k - 1) + 1]
        BY <1>1, <3>2
      <4> QED BY <2>2, <3>2, <4>1
    <3> QED BY <1>7, <3>1, <3>2
  <2> QED BY <1>1, <2>2
<1>9. Behind(u, rest) = Behind(u, cs)
  BY <1>1, <1>8 DEF Behind
<1> QED BY <1>5, <1>9 DEF rest

-----------------------------------------------------------------------------
(***************************************************************************)
(* The table.  It has the leaves of past, the chains the walk is through   *)
(* with; here, what a new array and a new entry do to it.                  *)
(***************************************************************************)

\* The entry of a leaf, and a place of the table.
Entry(u, c) == [path |-> Path(c), flags |-> FlagsOf(u, c)]
EntryT(u) == {Entry(u, c) : c \in Visible(u)}
RetainedT == [path : Seq(Name), arrayIdx : Nat, elemIdx : Nat]

Place(arrs, a, e) == a \in 1 .. Len(arrs) /\ e \in 1 .. Len(arrs[a])

\* Arrays within their limit, of which the last only may be empty.
Shape(u, arrs) ==
  /\ arrs \in Seq(Seq(EntryT(u))) /\ Len(arrs) # 0
  /\ \A a \in 1 .. Len(arrs) :
       Len(arrs[a]) <= MaxEntries /\ (arrs[a] = <<>> => a = Len(arrs))

\* Every entry is of a leaf of past; every leaf of past has one; no two entries
\* have the same path; those of one array are of one part.
FromPast(u, past, arrs) ==
  \A a, e : Place(arrs, a, e) =>
    \E c \in past : EndsIn(c, {Elementary}) /\ arrs[a][e] = Entry(u, c)

AllThere(u, past, arrs) ==
  \A c \in past : EndsIn(c, {Elementary}) =>
    \E a, e : Place(arrs, a, e) /\ arrs[a][e] = Entry(u, c)

OneEntry(arrs) ==
  \A a, e, b, f : /\ Place(arrs, a, e) /\ Place(arrs, b, f)
                  /\ arrs[a][e].path = arrs[b][f].path
                  => a = b /\ e = f

OnePart(u, arrs) ==
  \A a, e, f : Place(arrs, a, e) /\ Place(arrs, a, f) =>
    PartOf(u, arrs[a][e].path) = PartOf(u, arrs[a][f].path)

\* The leaves of past, each with one entry, those of an array of one part.
Content(u, past, arrs) ==
  /\ FromPast(u, past, arrs) /\ AllThere(u, past, arrs)
  /\ OneEntry(arrs) /\ OnePart(u, arrs)

\* Every retained variable is at its address; every retained entry is listed.
Addressed(arrs, vars) ==
  \A k \in 1 .. Len(vars) :
    /\ Place(arrs, vars[k].arrayIdx, vars[k].elemIdx)
    /\ arrs[vars[k].arrayIdx][vars[k].elemIdx].path = vars[k].path
    /\ arrs[vars[k].arrayIdx][vars[k].elemIdx].flags.retain

AllListed(arrs, vars) ==
  \A a, e : Place(arrs, a, e) /\ arrs[a][e].flags.retain =>
    \E k \in 1 .. Len(vars) : vars[k].path = arrs[a][e].path

ListedOnce(vars) == \A k, l \in 1 .. Len(vars) : vars[k].path = vars[l].path => k = l

\* The retained entries with their addresses, each once.
Listed(arrs, vars) ==
  /\ vars \in Seq(RetainedT)
  /\ Addressed(arrs, vars) /\ AllListed(arrs, vars) /\ ListedOnce(vars)

\* Empty arrays come and go without a change to what the table has.
SamePlaces(arrs, other) ==
  \A a, e : /\ Place(other, a, e) <=> Place(arrs, a, e)
            /\ Place(arrs, a, e) => other[a][e] = arrs[a][e]

LEMMA SamePlacesKeep ==
  ASSUME NEW u, NEW past, NEW arrs, NEW other, NEW vars, SamePlaces(arrs, other),
         Content(u, past, arrs), Listed(arrs, vars)
  PROVE  Content(u, past, other) /\ Listed(other, vars)
<1>1. \A a, e : /\ Place(other, a, e) <=> Place(arrs, a, e)
                /\ Place(arrs, a, e) => other[a][e] = arrs[a][e]
  BY DEF SamePlaces
<1>2. FromPast(u, past, other)
  BY <1>1 DEF Content, FromPast
<1>3. AllThere(u, past, other)
  BY <1>1 DEF Content, AllThere
<1>4. OneEntry(other)
  <2>1. OneEntry(arrs)
    BY DEF Content
  <2>2. ASSUME NEW a, NEW e, NEW b, NEW f, Place(other, a, e), Place(other, b, f),
               other[a][e].path = other[b][f].path
        PROVE  a = b /\ e = f
    <3>1. /\ Place(arrs, a, e) /\ Place(arrs, b, f)
          /\ arrs[a][e].path = arrs[b][f].path
      BY <1>1, <2>2
    <3> QED BY <2>1, <3>1 DEF OneEntry
  <2> QED BY <2>2 DEF OneEntry
<1>5. OnePart(u, other)
  <2>1. OnePart(u, arrs)
    BY DEF Content
  <2> QED BY <1>1, <2>1 DEF OnePart
<1>6. Content(u, past, other)
  BY <1>2, <1>3, <1>4, <1>5 DEF Content
<1>7. Addressed(other, vars)
  <2>1. Addressed(arrs, vars)
    BY DEF Listed
  <2> QED BY <1>1, <2>1 DEF Addressed
<1>8. AllListed(other, vars)
  <2>1. AllListed(arrs, vars)
    BY DEF Listed
  <2> QED BY <1>1, <2>1 DEF AllListed
<1>9. Listed(other, vars)
  BY <1>7, <1>8 DEF Listed
<1> QED BY <1>6, <1>9

\* A new array behind one that is not empty.
LEMMA NewArray ==
  ASSUME NEW u, NEW past, NEW arrs, NEW vars, Shape(u, arrs), Last(arrs) # <<>>,
         Content(u, past, arrs), Listed(arrs, vars)
  PROVE  /\ Shape(u, Append(arrs, <<>>)) /\ Content(u, past, Append(arrs, <<>>))
         /\ Listed(Append(arrs, <<>>), vars) /\ Last(Append(arrs, <<>>)) = <<>>
<1> DEFINE new == Append(arrs, <<>>)
           n == Len(arrs)
<1>1. arrs \in Seq(Seq(EntryT(u))) /\ n \in Nat \ {0} /\ arrs[n] # <<>>
  BY LastIs DEF Shape
<1>2. /\ new \in Seq(Seq(EntryT(u))) /\ Len(new) = n + 1
      /\ \A a \in 1 .. n : new[a] = arrs[a]
      /\ new[n + 1] = <<>>
  BY <1>1
<1>3. Last(new) = <<>>
  BY <1>1, <1>2, LastIs DEF Last
<1>4. n = Len(arrs)
  OBVIOUS
<1> HIDE DEF new, n
<1>5. \A a \in 1 .. n + 1 : a \in 1 .. n \/ a = n + 1
  BY <1>1
<1>6. \A a \in 1 .. n : a \in 1 .. n + 1 /\ a # n + 1
  BY <1>1
<1>7. MaxEntries \in Nat /\ Len(<<>>) = 0
  BY TableAssumption
<1>8. Shape(u, new)
  <2>1. \A a \in 1 .. n : Len(new[a]) <= MaxEntries /\ new[a] # <<>>
    <3>1. TAKE a \in 1 .. n
    <3>2. Len(arrs[a]) <= MaxEntries /\ (arrs[a] = <<>> => a = n)
      BY <1>4 DEF Shape
    <3> QED BY <1>1, <1>2, <3>2
  <2>2. Len(new[n + 1]) <= MaxEntries
    BY <1>2, <1>7
  <2>3. Len(new) # 0
    BY <1>1, <1>2
  <2> QED BY <1>2, <1>5, <2>1, <2>2, <2>3 DEF Shape
<1>9. SamePlaces(arrs, new)
  <2>1. ASSUME NEW a, NEW e
        PROVE  /\ Place(new, a, e) <=> Place(arrs, a, e)
               /\ Place(arrs, a, e) => new[a][e] = arrs[a][e]
    <3>1. CASE a \in 1 .. n
      BY <1>2, <1>4, <1>6, <3>1 DEF Place
    <3>2. CASE a \notin 1 .. n
      <4>1. a = n + 1 => 1 .. Len(new[a]) = {}
        BY <1>2, <1>7
      <4> QED BY <1>2, <1>4, <1>5, <3>2, <4>1 DEF Place
    <3> QED BY <3>1, <3>2
  <2> QED BY <2>1 DEF SamePlaces
<1> QED BY <1>3, <1>8, <1>9, SamePlacesKeep DEF new

\* The last array, when it is empty and not the only one, is dropped.
LEMMA DropArray ==
  ASSUME NEW u, NEW past, NEW arrs, NEW vars, Shape(u, arrs), Last(arrs) = <<>>,
         Len(arrs) > 1, Content(u, past, arrs), Listed(arrs, vars)
  PROVE  /\ Shape(u, Front(arrs)) /\ Content(u, past, Front(arrs))
         /\ Listed(Front(arrs), vars) /\ Last(Front(arrs)) # <<>>
<1> DEFINE new == Front(arrs)
           n == Len(arrs) - 1
<1>1. arrs \in Seq(Seq(EntryT(u))) /\ n \in Nat \ {0} /\ Len(arrs) = n + 1
      /\ arrs[n + 1] = <<>>
  BY LastIs DEF Shape
<1>2. /\ new \in Seq(Seq(EntryT(u))) /\ Len(new) = n
      /\ \A a \in 1 .. n : new[a] = arrs[a]
  <2>1. new = SubSeq(arrs, 1, n)
    BY DEF Front
  <2> HIDE DEF n, new
  <2> QED BY <1>1, <2>1
<1> HIDE DEF new, n
<1>3. \A a \in 1 .. n + 1 : a \in 1 .. n \/ a = n + 1
  BY <1>1
<1>4. \A a \in 1 .. n : a \in 1 .. n + 1 /\ a # n + 1
  BY <1>1
<1>5. \A a \in 1 .. n : Len(new[a]) <= MaxEntries /\ new[a] # <<>>
  BY <1>1, <1>2, <1>4 DEF Shape
<1>6. Shape(u, new) /\ Last(new) # <<>>
  <2>1. Len(new) # 0 /\ n \in 1 .. n
    BY <1>1, <1>2
  <2>2. Last(new) = new[n]
    BY <1>2 DEF Last
  <2> QED BY <1>2, <1>5, <2>1, <2>2 DEF Shape
<1>7. SamePlaces(arrs, new)
  <2>1. ASSUME NEW a, NEW e
        PROVE  /\ Place(new, a, e) <=> Place(arrs, a, e)
               /\ Place(arrs, a, e) => new[a][e] = arrs[a][e]
    <3>1. CASE a \in 1 .. n
      BY <1>1, <1>2, <1>4, <3>1 DEF Place
    <3>2. CASE a \notin 1 .. n
      <4>1. a = n + 1 => 1 .. Len(arrs[a]) = {}
        <5>1. Len(<<>>) = 0
          OBVIOUS
        <5> QED BY <1>1, <5>1
      <4> QED BY <1>1, <1>2, <1>3, <3>2, <4>1 DEF Place
    <3> QED BY <3>1, <3>2
  <2> QED BY <2>1 DEF SamePlaces
<1> QED BY <1>6, <1>7, SamePlacesKeep DEF new

\* A table with one place more, place m of array n.
OnePlaceMore(arrs, new, n, m) ==
  /\ \A a, e : Place(new, a, e) <=> Place(arrs, a, e) \/ (a = n /\ e = m)
  /\ \A a, e : Place(arrs, a, e) => new[a][e] = arrs[a][e]

NewLeaf(arrs, new, n, m, path, keeps) ==
  /\ n \in Nat /\ m \in Nat /\ path \in Seq(Name) /\ keeps \in BOOLEAN
  /\ OnePlaceMore(arrs, new, n, m)
  /\ \A a, e : Place(arrs, a, e) => arrs[a][e].path # path
  /\ new[n][m].path = path /\ new[n][m].flags.retain = keeps

ListMore(vars, n, m, path, keeps) ==
  IF keeps THEN Append(vars, [path |-> path, arrayIdx |-> n, elemIdx |-> m]) ELSE vars

\* The new entry of the table is listed if it is retained.
LEMMA ListLeaf ==
  ASSUME NEW arrs, NEW new, NEW vars, Listed(arrs, vars), NEW n, NEW m, NEW path, NEW keeps,
         NewLeaf(arrs, new, n, m, path, keeps)
  PROVE  Listed(new, ListMore(vars, n, m, path, keeps))
<1> DEFINE more == ListMore(vars, n, m, path, keeps)
<1>a. /\ n \in Nat /\ m \in Nat /\ path \in Seq(Name) /\ keeps \in BOOLEAN
      /\ OnePlaceMore(arrs, new, n, m)
      /\ \A a, e : Place(arrs, a, e) => arrs[a][e].path # path
      /\ new[n][m].path = path /\ new[n][m].flags.retain = keeps
  BY DEF NewLeaf
<1>b. more = IF keeps THEN Append(vars, [path |-> path, arrayIdx |-> n, elemIdx |-> m])
             ELSE vars
  BY DEF ListMore
<1>c. SUFFICES Listed(new, more)
  OBVIOUS
<1> HIDE DEF more
<1>1. vars \in Seq(RetainedT) /\ Addressed(arrs, vars) /\ AllListed(arrs, vars)
      /\ ListedOnce(vars)
  BY DEF Listed
<1>0. /\ \A a, e : Place(new, a, e) <=> Place(arrs, a, e) \/ (a = n /\ e = m)
      /\ \A a, e : Place(arrs, a, e) => new[a][e] = arrs[a][e]
  BY <1>a DEF OnePlaceMore
<1>2. Addressed(new, vars)
  BY <1>0, <1>1 DEF Addressed
<1>3. Place(new, n, m)
  BY <1>0
<1>4. CASE ~keeps
  <2>1. more = vars
    BY <1>4, <1>b
  <2>2. \A a, e : Place(new, a, e) /\ new[a][e].flags.retain => Place(arrs, a, e)
    BY <1>0, <1>4, <1>a
  <2>3. AllListed(new, vars)
    <3>1. ASSUME NEW a, NEW e, Place(new, a, e), new[a][e].flags.retain
          PROVE  \E k \in 1 .. Len(vars) : vars[k].path = new[a][e].path
      <4>1. Place(arrs, a, e) /\ new[a][e] = arrs[a][e]
        BY <1>0, <2>2, <3>1
      <4> QED BY <1>1, <3>1, <4>1 DEF AllListed
    <3> QED BY <3>1 DEF AllListed
  <2> QED BY <1>1, <1>2, <2>1, <2>3 DEF Listed
<1>5. CASE keeps
  <2> DEFINE v == [path |-> path, arrayIdx |-> n, elemIdx |-> m]
             l == Len(vars)
  <2>1. v \in RetainedT /\ v.path = path /\ v.arrayIdx = n /\ v.elemIdx = m
    BY <1>a DEF RetainedT
  <2>2. more = Append(vars, v)
    BY <1>5, <1>b
  <2> HIDE DEF v
  <2>3. /\ more \in Seq(RetainedT) /\ l \in Nat /\ Len(more) = l + 1 /\ more[l + 1] = v
        /\ \A k \in 1 .. l : more[k] = vars[k]
    BY <1>1, <2>1, <2>2
  <2>4. /\ \A k \in 1 .. l + 1 : k \in 1 .. l \/ k = l + 1
        /\ \A k \in 1 .. l : k \in 1 .. l + 1
        /\ l + 1 \in 1 .. l + 1
    BY <2>3
  <2>5. l = Len(vars)
    OBVIOUS
  <2> HIDE DEF l
  <2>6. \A k \in 1 .. l : vars[k].path # path
    <3>1. TAKE k \in 1 .. l
    <3>2. /\ Place(arrs, vars[k].arrayIdx, vars[k].elemIdx)
          /\ arrs[vars[k].arrayIdx][vars[k].elemIdx].path = vars[k].path
      BY <1>1, <2>5 DEF Addressed
    <3> QED BY <1>a, <3>2
  <2>7. Addressed(new, more)
    <3>1. ASSUME NEW k \in 1 .. l + 1
          PROVE  /\ Place(new, more[k].arrayIdx, more[k].elemIdx)
                 /\ new[more[k].arrayIdx][more[k].elemIdx].path = more[k].path
                 /\ new[more[k].arrayIdx][more[k].elemIdx].flags.retain
      <4>1. CASE k \in 1 .. l
        <5>1. more[k] = vars[k] /\ k \in 1 .. Len(vars)
          BY <2>3, <2>5, <4>1
        <5> QED BY <1>2, <5>1 DEF Addressed
      <4>2. CASE k = l + 1
        <5>1. more[k] = v
          BY <2>3, <4>2
        <5> QED BY <1>3, <1>5, <1>a, <2>1, <5>1
      <4> QED BY <2>4, <4>1, <4>2
    <3> QED BY <2>3, <3>1 DEF Addressed
  <2>8. AllListed(new, more)
    <3>1. ASSUME NEW a, NEW e, Place(new, a, e), new[a][e].flags.retain
          PROVE  \E k \in 1 .. l + 1 : more[k].path = new[a][e].path
      <4>1. CASE Place(arrs, a, e)
        <5>1. new[a][e] = arrs[a][e]
          BY <1>0, <4>1
        <5>2. PICK k \in 1 .. l : vars[k].path = arrs[a][e].path
          BY <1>1, <2>5, <3>1, <4>1, <5>1 DEF AllListed
        <5> QED BY <2>3, <2>4, <5>1, <5>2
      <4>2. CASE a = n /\ e = m
        BY <1>a, <2>1, <2>3, <2>4, <4>2
      <4> QED BY <1>0, <3>1, <4>1, <4>2
    <3> QED BY <2>3, <3>1 DEF AllListed
  <2>9. ListedOnce(more)
    <3>1. ASSUME NEW i \in 1 .. l + 1, NEW j \in 1 .. l + 1, more[i].path = more[j].path
          PROVE  i = j
      <4>1. CASE i \in 1 .. l /\ j \in 1 .. l
        BY <1>1, <2>3, <2>5, <3>1, <4>1 DEF ListedOnce
      <4>2. CASE i \in 1 .. l /\ j = l + 1
        BY <2>1, <2>3, <2>6, <3>1, <4>2
      <4>3. CASE j \in 1 .. l /\ i = l + 1
        BY <2>1, <2>3, <2>6, <3>1, <4>3
      <4> QED BY <2>4, <4>1, <4>2, <4>3
    <3> QED BY <2>3, <3>1 DEF ListedOnce
  <2> QED BY <2>3, <2>7, <2>8, <2>9 DEF Listed
<1> QED BY <1>4, <1>5, <1>a

\* AddLeaf puts the entry of c behind the m of the last array, n.
PutAt(u, arrs, c, n, m, new) ==
  /\ n = Len(arrs) /\ m = Len(arrs[n]) /\ m < MaxEntries
  /\ \A e \in 1 .. m : PartOf(u, arrs[n][e].path) = PartOf(u, Path(c))
  /\ new \in Seq(Seq(EntryT(u))) /\ Len(new) = n
  /\ \A a \in 1 .. n - 1 : new[a] = arrs[a]
  /\ new[n] = Append(arrs[n], Entry(u, c))

LeafPut(u, past, c, n, new, more) ==
  /\ Shape(u, new) /\ Content(u, past \union {c}, new) /\ Listed(new, more)
  /\ \A e \in 1 .. Len(new[n]) : PartOf(u, new[n][e].path) = PartOf(u, Path(c))

\* The entry of leaf c goes behind the others of the last array, which are of
\* its part; a retained one is listed.
LEMMA PutLeaf ==
  ASSUME NEW u, Flat(u), NamesFree(u),
         NEW past, past \subseteq Visible(u), NEW c \in Visible(u), c \notin past,
         EndsIn(c, {Elementary}),
         NEW arrs, Shape(u, arrs), Content(u, past, arrs),
         NEW vars, Listed(arrs, vars), NEW n, NEW m, NEW new, PutAt(u, arrs, c, n, m, new),
         NEW more, more = ListMore(vars, n, m + 1, Path(c), FlagsOf(u, c).retain)
  PROVE  LeafPut(u, past, c, n, new, more)
<1> DEFINE entry == Entry(u, c)
<1>0. /\ n = Len(arrs) /\ m = Len(arrs[n]) /\ m < MaxEntries
      /\ \A e \in 1 .. m : PartOf(u, arrs[n][e].path) = PartOf(u, Path(c))
      /\ new \in Seq(Seq(EntryT(u))) /\ Len(new) = n
      /\ \A a \in 1 .. n - 1 : new[a] = arrs[a]
      /\ new[n] = Append(arrs[n], entry)
  BY DEF PutAt
<1>1. arrs \in Seq(Seq(EntryT(u))) /\ n \in Nat \ {0} /\ n \in 1 .. n
  BY <1>0 DEF Shape
<1>2. arrs[n] \in Seq(EntryT(u)) /\ m \in Nat /\ entry \in EntryT(u)
  BY <1>0, <1>1 DEF EntryT
<1>3. /\ Len(new[n]) = m + 1 /\ new[n][m + 1] = entry
      /\ \A e \in 1 .. m : new[n][e] = arrs[n][e]
  BY <1>0, <1>2
<1>4. entry.path = Path(c) /\ entry.flags = FlagsOf(u, c)
  BY DEF Entry
<1> HIDE DEF entry
<1>5. /\ \A a \in 1 .. n : a \in 1 .. n - 1 \/ a = n
      /\ \A a \in 1 .. n - 1 : a \in 1 .. n /\ a # n
      /\ \A e \in 1 .. m + 1 : e \in 1 .. m \/ e = m + 1
      /\ \A e \in 1 .. m : e \in 1 .. m + 1 /\ e # m + 1
      /\ m + 1 \in 1 .. m + 1
  BY <1>1, <1>2
\* The places are those of before and one more.
<1>6. \A a, e : Place(new, a, e) <=> Place(arrs, a, e) \/ (a = n /\ e = m + 1)
  <2>1. TAKE a, e
  <2>2. CASE a \in 1 .. n - 1
    BY <1>0, <1>5, <2>2 DEF Place
  <2>3. CASE a = n
    BY <1>0, <1>1, <1>3, <1>5, <2>3 DEF Place
  <2>4. CASE a \notin 1 .. n
    BY <1>0, <1>1, <2>4 DEF Place
  <2> QED BY <1>5, <2>2, <2>3, <2>4
<1>7. \A a, e : Place(arrs, a, e) => new[a][e] = arrs[a][e] /\ ~(a = n /\ e = m + 1)
  <2>1. TAKE a, e
  <2>2. HAVE Place(arrs, a, e)
  <2>3. CASE a \in 1 .. n - 1
    BY <1>0, <1>5, <2>2, <2>3 DEF Place
  <2>4. CASE a = n
    BY <1>0, <1>3, <1>5, <2>2, <2>4 DEF Place
  <2> QED BY <1>0, <1>5, <2>2, <2>3, <2>4 DEF Place
<1>8. Place(new, n, m + 1) /\ new[n][m + 1] = entry
  BY <1>3, <1>6
\* No entry has the path yet.
<1>9. \A a, e : Place(arrs, a, e) => arrs[a][e].path # Path(c)
  <2>1. TAKE a, e
  <2>2. HAVE Place(arrs, a, e)
  <2>3. PICK x \in past : arrs[a][e] = Entry(u, x)
    BY <2>2 DEF Content, FromPast
  <2>4. x # c /\ x \in Visible(u)
    OBVIOUS
  <2>5. IsChain(u, x) /\ IsChain(u, c)
    BY <2>4, VisibleIs
  <2>6. Path(x) # Path(c)
    BY <2>4, <2>5, PathsDiffer
  <2> QED BY <2>3, <2>6 DEF Entry
<1>10. Shape(u, new)
  <2>1. MaxEntries \in Nat
    BY TableAssumption
  <2>2. Len(new[n]) <= MaxEntries
    BY <1>0, <1>2, <1>3, <2>1
  <2>3. \A a \in 1 .. n - 1 : Len(new[a]) <= MaxEntries /\ (new[a] = <<>> => a = n)
    BY <1>0, <1>5 DEF Shape
  <2>4. \A a \in 1 .. n : Len(new[a]) <= MaxEntries /\ (new[a] = <<>> => a = n)
    BY <1>5, <2>2, <2>3
  <2> QED BY <1>0, <1>1, <2>4 DEF Shape
<1>11. Content(u, past \union {c}, new)
  <2>1. FromPast(u, past \union {c}, new)
    <3> SUFFICES \A a, e : Place(new, a, e) =>
          \E x \in past \union {c} : EndsIn(x, {Elementary}) /\ new[a][e] = Entry(u, x)
      BY DEF FromPast
    <3>1. TAKE a, e
    <3>2. HAVE Place(new, a, e)
    <3>3. CASE Place(arrs, a, e)
      <4>1. PICK x \in past : EndsIn(x, {Elementary}) /\ arrs[a][e] = Entry(u, x)
        BY <3>3 DEF Content, FromPast
      <4> QED BY <1>7, <3>3, <4>1
    <3>4. CASE a = n /\ e = m + 1
      BY <1>8, <3>4 DEF entry
    <3> QED BY <1>6, <3>2, <3>3, <3>4
  <2>2. AllThere(u, past \union {c}, new)
    <3> SUFFICES \A x \in past \union {c} : EndsIn(x, {Elementary}) =>
          \E a, e : Place(new, a, e) /\ new[a][e] = Entry(u, x)
      BY DEF AllThere
    <3>1. TAKE x \in past \union {c}
    <3>2. HAVE EndsIn(x, {Elementary})
    <3>3. CASE x \in past
      <4>1. PICK a, e : Place(arrs, a, e) /\ arrs[a][e] = Entry(u, x)
        BY <3>2, <3>3 DEF Content, AllThere
      <4> QED BY <1>6, <1>7, <4>1
    <3>4. CASE x = c
      BY <1>8, <3>4 DEF entry
    <3> QED BY <3>3, <3>4
  <2>3. OneEntry(new)
    <3> SUFFICES \A a, e, b, f : /\ Place(new, a, e) /\ Place(new, b, f)
                                 /\ new[a][e].path = new[b][f].path
                                 => a = b /\ e = f
      BY DEF OneEntry
    <3>0. OneEntry(arrs)
      BY DEF Content
    <3>1. TAKE a, e, b, f
    <3>2. HAVE Place(new, a, e) /\ Place(new, b, f) /\ new[a][e].path = new[b][f].path
    <3>3. CASE Place(arrs, a, e) /\ Place(arrs, b, f)
      <4>1. arrs[a][e].path = arrs[b][f].path
        BY <1>7, <3>2, <3>3
      <4> QED BY <3>0, <3>3, <4>1 DEF OneEntry
    <3>4. CASE Place(arrs, a, e) /\ b = n /\ f = m + 1
      <4>1. arrs[a][e].path = Path(c)
        BY <1>4, <1>7, <1>8, <3>2, <3>4
      <4> QED BY <1>9, <3>4, <4>1
    <3>5. CASE Place(arrs, b, f) /\ a = n /\ e = m + 1
      <4>0. new[a][e] = entry /\ new[b][f] = arrs[b][f]
        BY <1>7, <1>8, <3>5
      <4>1. arrs[b][f].path = Path(c)
        BY <1>4, <3>2, <4>0
      <4> QED BY <1>9, <3>5, <4>1
    <3>6. CASE a = n /\ e = m + 1 /\ b = n /\ f = m + 1
      BY <3>6
    <3> QED BY <1>6, <3>2, <3>3, <3>4, <3>5, <3>6
  <2>4. \A e : Place(new, n, e) => PartOf(u, new[n][e].path) = PartOf(u, Path(c))
    <3>1. TAKE e
    <3>2. HAVE Place(new, n, e)
    <3>3. CASE Place(arrs, n, e)
      <4>1. e \in 1 .. m
        BY <1>0, <3>3 DEF Place
      <4> QED BY <1>0, <1>3, <4>1
    <3>4. CASE e = m + 1
      BY <1>4, <1>8, <3>4
    <3> QED BY <1>6, <3>2, <3>3, <3>4
  <2>5. OnePart(u, new)
    <3> SUFFICES \A a, e, f : Place(new, a, e) /\ Place(new, a, f) =>
          PartOf(u, new[a][e].path) = PartOf(u, new[a][f].path)
      BY DEF OnePart
    <3>1. TAKE a, e, f
    <3>2. HAVE Place(new, a, e) /\ Place(new, a, f)
    <3>3. CASE a = n
      BY <2>4, <3>2, <3>3
    <3>4. CASE a # n
      <4>1. Place(arrs, a, e) /\ Place(arrs, a, f)
        BY <1>6, <3>2, <3>4
      <4>2. new[a][e] = arrs[a][e] /\ new[a][f] = arrs[a][f]
        BY <1>7, <4>1
      <4> QED BY <4>1, <4>2 DEF Content, OnePart
    <3> QED BY <3>3, <3>4
  <2> QED BY <2>1, <2>2, <2>3, <2>5 DEF Content
<1>12. \A e \in 1 .. Len(new[n]) : PartOf(u, new[n][e].path) = PartOf(u, Path(c))
  <2>1. TAKE e \in 1 .. Len(new[n])
  <2>2. e \in 1 .. m \/ e = m + 1
    BY <1>3, <1>5
  <2> QED BY <1>0, <1>3, <1>4, <2>2
<1>13. Path(c) \in Seq(Name)
  BY VisibleIs, ChainParts, PathIs
<1>14. entry.flags.retain = FlagsOf(u, c).retain
  BY <1>4
<1>15. NewLeaf(arrs, new, n, m + 1, Path(c), FlagsOf(u, c).retain)
  <2>1. OnePlaceMore(arrs, new, n, m + 1)
    BY <1>6, <1>7 DEF OnePlaceMore
  <2>2. FlagsOf(u, c).retain \in BOOLEAN
    BY FlagsTyped DEF FlagT
  <2>3. new[n][m + 1].path = Path(c) /\ new[n][m + 1].flags.retain = FlagsOf(u, c).retain
    BY <1>4, <1>8
  <2>4. n \in Nat /\ m + 1 \in Nat
    BY <1>1, <1>2
  <2> QED BY <1>9, <1>13, <2>1, <2>2, <2>3, <2>4 DEF NewLeaf
<1>16. Listed(new, more)
  BY <1>15, ListLeaf
<1> QED BY <1>10, <1>11, <1>12, <1>16 DEF LeafPut

-----------------------------------------------------------------------------
(***************************************************************************)
(* The invariant of the walk, and what each kind of step does to it.       *)
(***************************************************************************)

\* The items of chains, one for each and in their order.
LEMMA ItemsAre ==
  ASSUME NEW u, NEW T, NEW cs \in Seq(T)
  PROVE  /\ ItemsFor(u, cs) \in Seq({ItemFor(u, c) : c \in T})
         /\ Len(cs) \in Nat /\ Len(ItemsFor(u, cs)) = Len(cs)
         /\ \A k \in 1 .. Len(cs) : ItemsFor(u, cs)[k] = ItemFor(u, cs[k])
<1>1. Len(cs) \in Nat /\ \A k \in 1 .. Len(cs) : cs[k] \in T
  OBVIOUS
<1> DEFINE n == Len(cs)
           I == {ItemFor(u, c) : c \in T}
           f == ItemsFor(u, cs)
<1>2. f = [k \in 1 .. n |-> ItemFor(u, cs[k])]
  BY DEF ItemsFor
<1>3. \A k \in 1 .. n : ItemFor(u, cs[k]) \in I
  BY <1>1
<1>4. n \in Nat
  BY <1>1
<1> HIDE DEF n, I, f
<1>5. f \in Seq(I) /\ Len(f) = n /\ \A k \in 1 .. n : f[k] = ItemFor(u, cs[k])
  BY <1>2, <1>3, <1>4
<1> QED BY <1>1, <1>5 DEF n, I, f

LEMMA ItemsJoin ==
  ASSUME NEW u, NEW T, NEW p \in Seq(T), NEW q \in Seq(T)
  PROVE  ItemsFor(u, p \o q) = ItemsFor(u, p) \o ItemsFor(u, q)
<1> DEFINE I == {ItemFor(u, c) : c \in T}
           pq == p \o q
           ip == ItemsFor(u, p)
           iq == ItemsFor(u, q)
           z == ip \o iq
           m == Len(p)
           n == Len(q)
<1>1. Joins(T, p, q, pq)
  BY JoinIs
<1>2. /\ ip \in Seq(I) /\ Len(ip) = m /\ m \in Nat
      /\ \A k \in 1 .. m : ip[k] = ItemFor(u, p[k])
  BY ItemsAre
<1>3. /\ iq \in Seq(I) /\ Len(iq) = n /\ n \in Nat
      /\ \A k \in 1 .. n : iq[k] = ItemFor(u, q[k])
  BY ItemsAre
<1>4. Joins(I, ip, iq, z)
  BY <1>2, <1>3, JoinIs
<1>5. pq \in Seq(T) /\ Len(pq) = m + n
  BY <1>1 DEF Joins
<1>6. /\ ItemsFor(u, pq) \in Seq(I) /\ Len(ItemsFor(u, pq)) = m + n
      /\ \A k \in 1 .. m + n : ItemsFor(u, pq)[k] = ItemFor(u, pq[k])
  BY <1>5, ItemsAre
<1> HIDE DEF I, pq, ip, iq, z
<1>7. z \in Seq(I) /\ Len(z) = m + n
  BY <1>2, <1>3, <1>4 DEF Joins
<1>8. \A k \in 1 .. m + n : ItemsFor(u, pq)[k] = z[k]
  <2>1. TAKE k \in 1 .. m + n
  <2>2. CASE k \in 1 .. m
    <3>1. pq[k] = p[k] /\ z[k] = ip[k]
      BY <1>1, <1>2, <1>4, <2>2 DEF Joins
    <3> QED BY <1>2, <1>6, <2>2, <3>1
  <2>3. CASE k - m \in 1 .. n /\ k = m + (k - m)
    <3>1. pq[m + (k - m)] = q[k - m] /\ z[m + (k - m)] = iq[k - m]
      BY <1>1, <1>2, <1>3, <1>4, <2>3 DEF Joins
    <3> QED BY <1>3, <1>6, <2>3, <3>1
  <2>4. k \in 1 .. m \/ (k - m \in 1 .. n /\ k = m + (k - m))
    BY <1>1 DEF Joins
  <2> QED BY <2>2, <2>3, <2>4
<1>9. ItemsFor(u, pq) = z
  BY <1>6, <1>7, <1>8, SameSeq
<1> QED BY <1>9 DEF pq, ip, iq, z

LEMMA ItemsTail ==
  ASSUME NEW u, NEW T, NEW cs \in Seq(T), cs # <<>>
  PROVE  /\ ItemsFor(u, cs) # <<>> /\ Head(ItemsFor(u, cs)) = ItemFor(u, cs[1])
         /\ Tail(ItemsFor(u, cs)) = ItemsFor(u, Tail(cs))
<1> DEFINE I == {ItemFor(u, c) : c \in T}
           f == ItemsFor(u, cs)
           rest == Tail(cs)
           g == ItemsFor(u, rest)
           n == Len(cs) - 1
<1>1. /\ Len(cs) = n + 1 /\ n \in Nat /\ rest \in Seq(T) /\ Len(rest) = n
      /\ \A k \in 1 .. n : rest[k] = cs[k + 1] /\ k + 1 \in 1 .. Len(cs)
  BY TailIs
<1>2. f \in Seq(I) /\ Len(f) = n + 1 /\ \A k \in 1 .. n + 1 : f[k] = ItemFor(u, cs[k])
  <2>1. f \in Seq(I) /\ Len(f) = Len(cs) /\ \A k \in 1 .. Len(cs) : f[k] = ItemFor(u, cs[k])
    BY ItemsAre
  <2> HIDE DEF f, I, n
  <2> QED BY <1>1, <2>1
<1>3. g \in Seq(I) /\ Len(g) = n /\ \A k \in 1 .. n : g[k] = ItemFor(u, rest[k])
  <2> HIDE DEF rest, n
  <2>1. g \in Seq(I) /\ Len(g) = Len(rest) /\ \A k \in 1 .. Len(rest) : g[k] = ItemFor(u, rest[k])
    BY <1>1, ItemsAre
  <2> HIDE DEF g, I
  <2> QED BY <1>1, <2>1
<1> HIDE DEF I, f, g, n, rest
<1>4. f # <<>>
  <2>1. Len(f) # 0
    BY <1>1, <1>2
  <2> QED BY <1>2, <2>1
<1>5. /\ Tail(f) \in Seq(I) /\ Len(Tail(f)) = (n + 1) - 1 /\ Head(f) = f[1]
      /\ \A k \in 1 .. (n + 1) - 1 : Tail(f)[k] = f[k + 1]
  BY <1>2, <1>4, TailIs
<1>6. (n + 1) - 1 = n /\ 1 \in 1 .. n + 1
  BY <1>1
<1>7. \A k \in 1 .. n : Tail(f)[k] = g[k]
  BY <1>1, <1>2, <1>3, <1>5, <1>6
<1>8. Tail(f) = g
  BY <1>3, <1>5, <1>6, <1>7, SameSeq
<1> QED BY <1>2, <1>4, <1>5, <1>6, <1>8 DEF f, g, rest

\* What the walk reported of the chains it is through with.
Reports(u, past, left, partial) ==
  /\ left = {Path(c) : c \in {c \in past : EndsIn(c, {Opaque})}}
  /\ partial = {Path(c) : c \in {c \in past : Partial(u, c)}}

\* The last array goes on with the part of what is visited next.
NextPart(u, cs, arrs) ==
  cs # <<>> /\ cs[1] # Gate =>
    \A e \in 1 .. Len(Last(arrs)) : PartOf(u, Last(arrs)[e].path) = PartOf(u, Path(cs[1]))

\* The table of the chains the walk is through with, and the whole state of the
\* walk: the list of what is still to be visited, as chains, tells the rest.
Table(u, past, arrs, vars, left, partial) ==
  /\ Shape(u, arrs) /\ Content(u, past, arrs) /\ Listed(arrs, vars)
  /\ Reports(u, past, left, partial)

WalkInv(u, cs, td, arrs, vars, left, partial) ==
  /\ Walks(u, cs) /\ td = ItemsFor(u, cs) /\ NextPart(u, cs, arrs)
  /\ Table(u, Behind(u, cs), arrs, vars, left, partial)

\* A report of path, if there is one now.
With(set, path, now) == IF now THEN set \union {path} ELSE set

LEMMA ReportsMore ==
  ASSUME NEW u, NEW past, NEW c, NEW left, NEW partial, Reports(u, past, left, partial)
  PROVE  Reports(u, past \union {c}, With(left, Path(c), EndsIn(c, {Opaque})),
                 With(partial, Path(c), Partial(u, c)))
<1>1. With(left, Path(c), EndsIn(c, {Opaque})) =
        {Path(x) : x \in {x \in past \union {c} : EndsIn(x, {Opaque})}}
  BY DEF Reports, With
<1>2. With(partial, Path(c), Partial(u, c)) =
        {Path(x) : x \in {x \in past \union {c} : Partial(u, x)}}
  BY DEF Reports, With
<1> QED BY <1>1, <1>2 DEF Reports

LEMMA PastMore ==
  ASSUME NEW u, NEW past, NEW c, ~EndsIn(c, {Elementary}), NEW arrs, Content(u, past, arrs)
  PROVE  Content(u, past \union {c}, arrs)
<1>1. FromPast(u, past \union {c}, arrs)
  BY DEF Content, FromPast
<1>2. AllThere(u, past \union {c}, arrs)
  BY DEF Content, AllThere
<1> QED BY <1>1, <1>2 DEF Content

LEMMA VisibleTyped ==
  ASSUME NEW u, Flat(u), NEW c \in Visible(u)
  PROVE  /\ Last(c.steps).m.type \in BlockTypes \union {Elementary, Opaque}
         /\ Last(c.steps).m.type # AtBoundary
<1>1. Last(c.steps) \in StepT
  BY VisibleIs, ChainParts
<1>2. Last(c.steps).m \in Members
  BY <1>1 DEF StepT
<1>3. Last(c.steps).m.type \in BlockTypes \union {Elementary, Opaque}
  BY <1>2 DEF Members
<1>4. AtBoundary \notin BlockTypes /\ AtBoundary # Elementary /\ AtBoundary # Opaque
  BY TableAssumption DEF AtBoundary, Elementary, Opaque
<1> QED BY <1>3, <1>4

\* What is visited next is a gate or a visible chain.
LEMMA AtChain ==
  ASSUME NEW u, Flat(u), NEW cs, Walks(u, cs), ItemsFor(u, cs) # <<>>
  PROVE  /\ cs # <<>> /\ Tail(ItemsFor(u, cs)) = ItemsFor(u, Tail(cs))
         /\ \/ cs[1] = Gate /\ Head(ItemsFor(u, cs)).type = AtBoundary
            \/ /\ cs[1] \in Visible(u) /\ Head(ItemsFor(u, cs)) = ItemOf(u, cs[1])
               /\ Head(ItemsFor(u, cs)).type # AtBoundary
<1> DEFINE T == Visible(u) \union {Gate}
<1>1. cs \in Seq(T)
  BY DEF Walks
<1>2. cs # <<>>
  <2>1. CASE cs = <<>>
    <3>1. Len(cs) = 0
      BY <2>1
    <3>2. ItemsFor(u, cs) \in Seq({ItemFor(u, c) : c \in T}) /\ Len(ItemsFor(u, cs)) = 0
      BY <1>1, <3>1, ItemsAre
    <3> DEFINE f == ItemsFor(u, cs)
               I == {ItemFor(u, c) : c \in T}
    <3>3. f \in Seq(I) /\ Len(f) = 0 /\ f # <<>>
      BY <3>2
    <3> HIDE DEF f, I
    <3> QED BY <3>3
  <2> QED BY <2>1
<1>3. Head(ItemsFor(u, cs)) = ItemFor(u, cs[1]) /\ Tail(ItemsFor(u, cs)) = ItemsFor(u, Tail(cs))
  BY <1>1, <1>2, ItemsTail
<1>4. cs[1] \in T
  BY <1>1, <1>2, TailIs
<1>5. CASE cs[1] = Gate
  BY <1>2, <1>3, <1>5 DEF ItemFor, Boundary
<1>6. CASE cs[1] \in Visible(u)
  <2>1. ItemFor(u, cs[1]) = ItemOf(u, cs[1])
    BY <1>6, NotGate
  <2>2. ItemOf(u, cs[1]).type # AtBoundary
    BY <1>6, VisibleTyped DEF ItemOf
  <2> QED BY <1>2, <1>3, <1>6, <2>1, <2>2
<1> QED BY <1>4, <1>5, <1>6

\* A chain that is no leaf is visited: its kids take its place.
LEMMA PassInv ==
  ASSUME NEW u, Flat(u), NEW cs, cs # <<>>, NEW td, NEW arrs, NEW vars, NEW left, NEW partial,
         WalkInv(u, cs, td, arrs, vars, left, partial),
         NEW c \in Visible(u), cs[1] = c, ~EndsIn(c, {Elementary}),
         NEW kids, IsKids(u, c, kids)
  PROVE  WalkInv(u, kids \o Tail(cs), ItemsFor(u, kids) \o Tail(td), arrs, vars,
                 With(left, Path(c), EndsIn(c, {Opaque})), With(partial, Path(c), Partial(u, c)))
<1> DEFINE next == kids \o Tail(cs)
           T == Visible(u) \union {Gate}
<1>1. Walks(u, cs) /\ td = ItemsFor(u, cs) /\ NextPart(u, cs, arrs)
      /\ Table(u, Behind(u, cs), arrs, vars, left, partial)
  BY DEF WalkInv
<1>2. Passes(u, cs, c, next)
  BY <1>1, WalkStep
<1>3. ItemsFor(u, kids) \o Tail(td) = ItemsFor(u, next)
  <2>1. cs \in Seq(T)
    BY <1>1 DEF Walks
  <2>2. Tail(cs) \in Seq(T)
    BY <2>1, TailIs
  <2>3. kids \in Seq(T)
    <3>1. kids \in Seq(Visible(u))
      BY DEF IsKids
    <3> QED BY <3>1
  <2>4. Tail(td) = ItemsFor(u, Tail(cs))
    BY <1>1, <2>1, ItemsTail
  <2>5. ItemsFor(u, next) = ItemsFor(u, kids) \o ItemsFor(u, Tail(cs))
    BY <2>2, <2>3, ItemsJoin
  <2> QED BY <2>4, <2>5
<1> HIDE DEF next, T
<1>4. Walks(u, next) /\ Behind(u, next) = Behind(u, cs) \union {c}
  BY <1>2 DEF Passes
<1>5. NextPart(u, next, arrs)
  <2>1. c # Gate
    BY NotGate
  <2> QED BY <1>1, <1>2, <2>1 DEF Passes, NextPart
<1>6. Table(u, Behind(u, next), arrs, vars, With(left, Path(c), EndsIn(c, {Opaque})),
            With(partial, Path(c), Partial(u, c)))
  <2> DEFINE past == Behind(u, cs)
  <2>1. Shape(u, arrs) /\ Content(u, past, arrs) /\ Listed(arrs, vars)
        /\ Reports(u, past, left, partial)
    BY <1>1 DEF Table
  <2> HIDE DEF past
  <2>2. Content(u, past \union {c}, arrs)
    BY <2>1, PastMore
  <2>3. Reports(u, past \union {c}, With(left, Path(c), EndsIn(c, {Opaque})),
                With(partial, Path(c), Partial(u, c)))
    BY <2>1, ReportsMore
  <2>4. Behind(u, next) = past \union {c}
    BY <1>4 DEF past
  <2> QED BY <2>1, <2>2, <2>3, <2>4 DEF Table
<1> QED BY <1>3, <1>4, <1>5, <1>6 DEF WalkInv, next

\* A program instance is entered: the next leaf goes into an array of its own.
LEMMA GateInv ==
  ASSUME NEW u, Flat(u), NEW cs, cs # <<>>, NEW td, NEW arrs, NEW vars, NEW left, NEW partial,
         WalkInv(u, cs, td, arrs, vars, left, partial), cs[1] = Gate
  PROVE  WalkInv(u, Tail(cs), Tail(td),
                 IF Last(arrs) = <<>> THEN arrs ELSE Append(arrs, <<>>), vars, left, partial)
<1> DEFINE new == IF Last(arrs) = <<>> THEN arrs ELSE Append(arrs, <<>>)
<1>1. Walks(u, cs) /\ td = ItemsFor(u, cs) /\ NextPart(u, cs, arrs)
      /\ Table(u, Behind(u, cs), arrs, vars, left, partial)
  BY DEF WalkInv
<1>2. Walks(u, Tail(cs)) /\ Behind(u, Tail(cs)) = Behind(u, cs)
  BY <1>1, GateStep
<1>3. Tail(td) = ItemsFor(u, Tail(cs))
  BY <1>1, ItemsTail DEF Walks
<1>4. /\ Shape(u, new) /\ Content(u, Behind(u, cs), new) /\ Listed(new, vars)
      /\ Last(new) = <<>>
  <2>1. CASE Last(arrs) = <<>>
    BY <1>1, <2>1 DEF Table
  <2>2. CASE Last(arrs) # <<>>
    <3>1. Shape(u, arrs) /\ Content(u, Behind(u, cs), arrs) /\ Listed(arrs, vars)
      BY <1>1 DEF Table
    <3> QED BY <2>2, <3>1, NewArray
  <2> QED BY <2>1, <2>2
<1> HIDE DEF new
<1>5. NextPart(u, Tail(cs), new)
  <2>1. 1 .. Len(Last(new)) = {}
    <3>1. Len(<<>>) = 0
      OBVIOUS
    <3> QED BY <1>4, <3>1
  <2> QED BY <2>1 DEF NextPart
<1>6. Table(u, Behind(u, Tail(cs)), new, vars, left, partial)
  BY <1>1, <1>2, <1>4 DEF Table
<1> QED BY <1>2, <1>3, <1>5, <1>6 DEF WalkInv, new

Room(arrs) == IF Len(Last(arrs)) >= MaxEntries THEN Append(arrs, <<>>) ELSE arrs

\* There is room in the last array, and what is in it is of the part of path.
LEMMA RoomIs ==
  ASSUME NEW u, NEW past, NEW arrs, Shape(u, arrs), Content(u, past, arrs),
         NEW vars, Listed(arrs, vars), NEW part,
         \A e \in 1 .. Len(Last(arrs)) : PartOf(u, Last(arrs)[e].path) = part
  PROVE  /\ Shape(u, Room(arrs)) /\ Content(u, past, Room(arrs)) /\ Listed(Room(arrs), vars)
         /\ Len(Last(Room(arrs))) < MaxEntries
         /\ \A e \in 1 .. Len(Last(Room(arrs))) : PartOf(u, Last(Room(arrs))[e].path) = part
<1>1. MaxEntries \in Nat /\ MaxEntries # 0 /\ Len(<<>>) = 0
  BY TableAssumption
<1>2. CASE Len(Last(arrs)) >= MaxEntries
  <2>1. Room(arrs) = Append(arrs, <<>>)
    BY <1>2 DEF Room
  <2>2. Last(arrs) # <<>>
    BY <1>1, <1>2
  <2>3. /\ Shape(u, Room(arrs)) /\ Content(u, past, Room(arrs)) /\ Listed(Room(arrs), vars)
        /\ Last(Room(arrs)) = <<>>
    BY <2>1, <2>2, NewArray
  <2>4. Len(Last(Room(arrs))) < MaxEntries /\ 1 .. Len(Last(Room(arrs))) = {}
    BY <1>1, <2>3
  <2> QED BY <2>3, <2>4
<1>3. CASE ~(Len(Last(arrs)) >= MaxEntries)
  <2>1. Room(arrs) = arrs
    BY <1>3 DEF Room
  <2>2. Len(Last(arrs)) \in Nat
    <3>1. arrs \in Seq(Seq(EntryT(u))) /\ arrs # <<>>
      BY DEF Shape
    <3>2. Last(arrs) \in Seq(EntryT(u))
      BY <3>1, LastIs
    <3> QED BY <3>2
  <2>3. Len(Last(arrs)) < MaxEntries
    BY <1>1, <1>3, <2>2
  <2> QED BY <2>1, <2>3
<1> QED BY <1>2, <1>3

\* A leaf is visited: its entry goes into the last array, or into a new one.
LEMMA LeafInv ==
  ASSUME NEW u, Flat(u), NamesFree(u),
         NEW cs, cs # <<>>, NEW td, NEW arrs, NEW vars, NEW left, NEW partial,
         WalkInv(u, cs, td, arrs, vars, left, partial),
         NEW c \in Visible(u), cs[1] = c, EndsIn(c, {Elementary}),
         NEW bucket, bucket = Append(Last(Room(arrs)), Entry(u, c))
  PROVE  WalkInv(u, Tail(cs), Tail(td), Append(Front(Room(arrs)), bucket),
                 ListMore(vars, Len(Room(arrs)), Len(bucket), Path(c), FlagsOf(u, c).retain),
                 left, partial)
<1> DEFINE room == Room(arrs)
           n == Len(room)
           m == Len(room[n])
           new == Append(Front(room), bucket)
           past == Behind(u, cs)
           more == ListMore(vars, n, m + 1, Path(c), FlagsOf(u, c).retain)
<1>1. Walks(u, cs) /\ td = ItemsFor(u, cs) /\ NextPart(u, cs, arrs)
      /\ Table(u, past, arrs, vars, left, partial)
  BY DEF WalkInv
<1>2. c # Gate
  BY NotGate
<1>3. /\ Shape(u, room) /\ Content(u, past, room) /\ Listed(room, vars)
      /\ Len(Last(room)) < MaxEntries
      /\ \A e \in 1 .. Len(Last(room)) : PartOf(u, Last(room)[e].path) = PartOf(u, Path(c))
  <2>1. \A e \in 1 .. Len(Last(arrs)) : PartOf(u, Last(arrs)[e].path) = PartOf(u, Path(c))
    BY <1>1, <1>2 DEF NextPart
  <2> HIDE DEF past
  <2>2. Shape(u, arrs) /\ Content(u, past, arrs) /\ Listed(arrs, vars)
    BY <1>1 DEF Table
  <2> DEFINE part == PartOf(u, Path(c))
  <2>3. \A e \in 1 .. Len(Last(arrs)) : PartOf(u, Last(arrs)[e].path) = part
    BY <2>1
  <2> HIDE DEF part
  <2>4. /\ Shape(u, room) /\ Content(u, past, room) /\ Listed(room, vars)
        /\ Len(Last(room)) < MaxEntries
        /\ \A e \in 1 .. Len(Last(room)) : PartOf(u, Last(room)[e].path) = part
    BY <2>2, <2>3, RoomIs
  <2> QED BY <2>4 DEF part
<1>4. room \in Seq(Seq(EntryT(u))) /\ room # <<>>
  BY <1>3 DEF Shape
<1>5. n \in Nat \ {0} /\ Last(room) = room[n] /\ room[n] \in Seq(EntryT(u))
  BY <1>4, LastIs
<1>6. <<>> \in Seq(Visible(u)) /\ IsKids(u, c, <<>>)
  <2>1. Last(c.steps).m.type \notin BlockTypes
    BY TableAssumption DEF EndsIn
  <2> QED BY <2>1, NoKids
<1>7. Passes(u, cs, c, Tail(cs))
  <2>1. Passes(u, cs, c, <<>> \o Tail(cs))
    BY <1>1, <1>6, WalkStep
  <2>2. <<>> \o Tail(cs) = Tail(cs)
    <3>1. Tail(cs) \in Seq(Visible(u) \union {Gate})
      BY <1>1, TailIs DEF Walks
    <3> DEFINE t == Tail(cs)
               T == Visible(u) \union {Gate}
    <3>2. t \in Seq(T)
      BY <3>1
    <3> HIDE DEF t, T
    <3>3. <<>> \o t = t
      BY <3>2
    <3> QED BY <3>3 DEF t
  <2> QED BY <2>1, <2>2
<1>8. c \notin past /\ Walks(u, Tail(cs)) /\ Behind(u, Tail(cs)) = past \union {c}
  BY <1>7 DEF Passes
<1>9. past \subseteq Visible(u)
  BY DEF Behind
<1>10. room[n] = Last(room) /\ bucket = Append(room[n], Entry(u, c)) /\ Entry(u, c) \in EntryT(u)
  BY <1>5 DEF EntryT
<1>11. m \in Nat /\ bucket \in Seq(EntryT(u)) /\ Len(bucket) = m + 1 /\ m < MaxEntries
  <2> DEFINE s == room[n]
             E == EntryT(u)
             x == Entry(u, c)
  <2>1. s \in Seq(E) /\ x \in E /\ bucket = Append(s, x) /\ Len(s) < MaxEntries
    BY <1>3, <1>5, <1>10
  <2>2. m = Len(s)
    OBVIOUS
  <2> HIDE DEF s, E, x, room, m
  <2>3. Len(s) \in Nat /\ bucket \in Seq(E) /\ Len(bucket) = Len(s) + 1
    BY <2>1
  <2> QED BY <2>1, <2>2, <2>3 DEF E
<1>12. /\ new \in Seq(Seq(EntryT(u))) /\ Len(new) = n
       /\ \A a \in 1 .. n - 1 : new[a] = room[a]
       /\ new[n] = bucket
  <2> DEFINE E == Seq(EntryT(u))
             k == n - 1
             f == Front(room)
  <2>1. room \in Seq(E) /\ n \in Nat \ {0} /\ Len(room) = n /\ bucket \in E
    BY <1>4, <1>5, <1>11
  <2>2. f = SubSeq(room, 1, k)
    BY DEF Front
  <2> HIDE DEF E, room, n
  <2>3. k \in Nat /\ n = k + 1
    BY <2>1
  <2> HIDE DEF k, f
  <2>4. f \in Seq(E) /\ Len(f) = k /\ \A a \in 1 .. k : f[a] = room[a]
    BY <2>1, <2>2, <2>3
  <2>5. new = Append(f, bucket)
    BY DEF f
  <2> HIDE DEF new
  <2>6. new \in Seq(E) /\ Len(new) = k + 1 /\ new[k + 1] = bucket /\ \A a \in 1 .. k : new[a] = f[a]
    BY <2>1, <2>3, <2>4, <2>5
  <2>7. n - 1 = k
    BY <2>3
  <2> QED BY <2>3, <2>4, <2>6, <2>7 DEF E
<1>13. \A e \in 1 .. m : PartOf(u, room[n][e].path) = PartOf(u, Path(c))
  BY <1>3, <1>5
<1>14. n = Len(room) /\ m = Len(room[n]) /\ more = ListMore(vars, n, m + 1, Path(c), FlagsOf(u, c).retain)
  OBVIOUS
<1>15. bucket = Append(room[n], Entry(u, c))
  BY <1>10
<1> HIDE DEF room, n, m, new, past, more
<1>24. PutAt(u, room, c, n, m, new)
  BY <1>11, <1>12, <1>13, <1>14, <1>15 DEF PutAt
<1>16. /\ Shape(u, new) /\ Content(u, past \union {c}, new) /\ Listed(new, more)
       /\ \A e \in 1 .. Len(new[n]) : PartOf(u, new[n][e].path) = PartOf(u, Path(c))
  <2>1. Shape(u, room) /\ Content(u, past, room) /\ Listed(room, vars)
    BY <1>3
  <2>2. c \notin past /\ past \subseteq Visible(u)
    BY <1>8, <1>9
  <2>3. more = ListMore(vars, n, m + 1, Path(c), FlagsOf(u, c).retain)
    BY <1>14
  <2>4. LeafPut(u, past, c, n, new, more)
    BY <1>24, <2>1, <2>2, <2>3, PutLeaf
  <2> QED BY <2>4 DEF LeafPut
<1>17. Last(new) = new[n]
  BY <1>12 DEF Last
<1>18. NextPart(u, Tail(cs), new)
  BY <1>7, <1>16, <1>17 DEF Passes, NextPart
<1>19. Reports(u, past \union {c}, left, partial)
  <2>1. Reports(u, past, left, partial)
    BY <1>1 DEF Table
  <2>2. ~EndsIn(c, {Opaque}) /\ ~Partial(u, c)
    BY TableAssumption DEF EndsIn, Partial, Elementary, Opaque
  <2>3. With(left, Path(c), EndsIn(c, {Opaque})) = left /\ With(partial, Path(c), Partial(u, c)) = partial
    BY <2>2 DEF With
  <2>4. Reports(u, past \union {c}, With(left, Path(c), EndsIn(c, {Opaque})),
                With(partial, Path(c), Partial(u, c)))
    BY <2>1, ReportsMore
  <2> QED BY <2>3, <2>4
<1>20. Table(u, Behind(u, Tail(cs)), new, more, left, partial)
  BY <1>8, <1>16, <1>19 DEF Table
<1>21. Tail(td) = ItemsFor(u, Tail(cs))
  BY <1>1, ItemsTail DEF Walks
<1>22. WalkInv(u, Tail(cs), Tail(td), new, more, left, partial)
  BY <1>8, <1>18, <1>20, <1>21 DEF WalkInv
<1>23. more = ListMore(vars, n, Len(bucket), Path(c), FlagsOf(u, c).retain)
  BY <1>11, <1>14
<1> QED BY <1>22, <1>23 DEF new, room, n

\* No instance of the program has the name of a global.
NamesApart ==
  \A p \in Sources : \A g \in Range(p.globals) : g.name \notin Range(p.instances)

\* TableIsExact is only about the end.  Until then the table has what the walk
\* is through with: all that is declared and shown but for what the rest of the
\* list leads to.
TableInv ==
  /\ unit \in Sources
  /\ \E cs : WalkInv(unit, cs, todo, arrays, retainVars, skipped, incomplete)
  /\ done => todo = <<>> /\ (Last(arrays) # <<>> \/ Len(arrays) = 1)

LEMMA SourcesFree ==
  ASSUME NoParents, NamesApart, NEW u \in Sources
  PROVE  Flat(u) /\ NamesFree(u)
<1>1. Flat(u)
  BY SourcesFlat
<1>2. \A g \in Range(Distinct(u.globals)) : g \in Range(u.globals)
  BY <1>1, GlobalsDistinct
<1> QED BY <1>1, <1>2 DEF NamesFree, NamesApart

\* The item in front is that of the first chain.
LEMMA FrontChain ==
  ASSUME NEW u, Flat(u), NEW cs, NEW td, NEW arrs, NEW vars, NEW left, NEW partial,
         WalkInv(u, cs, td, arrs, vars, left, partial), td # <<>>, Head(td).type # AtBoundary
  PROVE  /\ cs # <<>> /\ cs[1] \in Visible(u)
         /\ Head(td).path = Path(cs[1]) /\ Head(td).flags = FlagsOf(u, cs[1])
         /\ Head(td).type = Last(cs[1].steps).m.type
<1>1. Walks(u, cs) /\ td = ItemsFor(u, cs)
  BY DEF WalkInv
<1>2. cs # <<>> /\ cs[1] \in Visible(u) /\ Head(td) = ItemOf(u, cs[1])
  BY <1>1, AtChain
<1> QED BY <1>2 DEF ItemOf

LEMMA NothingFirst ==
  ASSUME NEW u, NEW cs, cs # <<>>, NEW td, NEW arrs, NEW vars, NEW left, NEW partial,
         WalkInv(u, cs, td, arrs, vars, left, partial)
  PROVE  ItemsFor(u, <<>>) \o Tail(td) = Tail(td)
<1> DEFINE T == Visible(u) \union {Gate}
           I == {ItemFor(u, c) : c \in T}
<1>1. cs \in Seq(T) /\ td = ItemsFor(u, cs)
  BY DEF WalkInv, Walks
<1>2. Tail(cs) \in Seq(T)
  BY <1>1, TailIs
<1>3. Tail(td) = ItemsFor(u, Tail(cs))
  BY <1>1, ItemsTail
<1>4. Tail(td) \in Seq(I)
  BY <1>2, <1>3, ItemsAre
<1>5. ItemsFor(u, <<>>) = <<>>
  <2>1. <<>> \in Seq(T) /\ Len(<<>>) = 0
    OBVIOUS
  <2>2. ItemsFor(u, <<>>) \in Seq(I) /\ Len(ItemsFor(u, <<>>)) = 0
    BY <2>1, ItemsAre
  <2> DEFINE f == ItemsFor(u, <<>>)
  <2>3. f \in Seq(I) /\ Len(f) = 0
    BY <2>2
  <2> HIDE DEF f, I
  <2>4. f = <<>>
    BY <2>3
  <2> QED BY <2>4 DEF f
<1> DEFINE t == Tail(td)
<1>6. t \in Seq(I)
  BY <1>4
<1> HIDE DEF t, I, T
<1>7. <<>> \o t = t
  BY <1>6
<1> QED BY <1>5, <1>7 DEF t

LEMMA AddLeafKeeps ==
  ASSUME NoParents, NamesApart, TableInv, AddLeaf
  PROVE  TableInv'
<1> DEFINE leaf == Head(todo)
           room == EnsureRoom
           bucket == Append(Last(room), [path |-> leaf.path, flags |-> leaf.flags])
<1>1. /\ todo # <<>> /\ leaf.type = Elementary
      /\ arrays' = Append(Front(room), bucket)
      /\ retainVars' = IF leaf.flags.retain
                       THEN Append(retainVars, [path |-> leaf.path, arrayIdx |-> Len(room),
                                                elemIdx |-> Len(bucket)])
                       ELSE retainVars
      /\ todo' = Tail(todo)
      /\ unit' = unit /\ incomplete' = incomplete /\ skipped' = skipped /\ done' = done
  BY DEF AddLeaf, AtFront
<1>2. unit \in Sources /\ Flat(unit) /\ NamesFree(unit)
  BY SourcesFree DEF TableInv
<1>3. PICK cs : WalkInv(unit, cs, todo, arrays, retainVars, skipped, incomplete)
  BY DEF TableInv
<1>4. ~done
  BY <1>1 DEF TableInv
<1> DEFINE c == cs[1]
<1>5. /\ cs # <<>> /\ c \in Visible(unit)
      /\ leaf.path = Path(c) /\ leaf.flags = FlagsOf(unit, c)
      /\ leaf.type = Last(c.steps).m.type
  <2>1. leaf.type # AtBoundary
    BY <1>1 DEF Elementary, AtBoundary
  <2> QED BY <1>1, <1>2, <1>3, <2>1, FrontChain
<1>6. EndsIn(c, {Elementary})
  BY <1>1, <1>5 DEF EndsIn
<1>7. room = Room(arrays)
  BY DEF EnsureRoom, Room
<1>8. bucket = Append(Last(Room(arrays)), Entry(unit, c))
  BY <1>5, <1>7 DEF Entry
<1>9. retainVars' = ListMore(retainVars, Len(room), Len(bucket), Path(c), FlagsOf(unit, c).retain)
  BY <1>1, <1>5 DEF ListMore
<1> HIDE DEF leaf, room, bucket, c
<1>10. WalkInv(unit, Tail(cs), Tail(todo), Append(Front(Room(arrays)), bucket),
               ListMore(retainVars, Len(Room(arrays)), Len(bucket), Path(c),
                        FlagsOf(unit, c).retain),
               skipped, incomplete)
  BY <1>2, <1>3, <1>5, <1>6, <1>8, LeafInv DEF c
<1>11. WalkInv(unit', Tail(cs), todo', arrays', retainVars', skipped', incomplete')
  BY <1>1, <1>7, <1>9, <1>10
<1> QED BY <1>1, <1>2, <1>4, <1>11 DEF TableInv

LEMMA SkipKeeps ==
  ASSUME NoParents, NamesApart, TableInv, Skip
  PROVE  TableInv'
<1>1. /\ todo # <<>> /\ Head(todo).type = Opaque
      /\ skipped' = skipped \union {Head(todo).path} /\ todo' = Tail(todo)
      /\ unit' = unit /\ arrays' = arrays /\ retainVars' = retainVars
      /\ incomplete' = incomplete /\ done' = done
  BY DEF Skip, AtFront
<1>2. unit \in Sources /\ Flat(unit)
  BY SourcesFree DEF TableInv
<1>3. PICK cs : WalkInv(unit, cs, todo, arrays, retainVars, skipped, incomplete)
  BY DEF TableInv
<1>4. ~done
  BY <1>1 DEF TableInv
<1> DEFINE c == cs[1]
<1>5. cs # <<>> /\ c \in Visible(unit) /\ Head(todo).path = Path(c) /\ Last(c.steps).m.type = Opaque
  <2>1. Head(todo).type # AtBoundary
    BY <1>1 DEF Opaque, AtBoundary
  <2> QED BY <1>1, <1>2, <1>3, <2>1, FrontChain
<1> HIDE DEF c
<1>6. EndsIn(c, {Opaque}) /\ ~EndsIn(c, {Elementary}) /\ ~Partial(unit, c)
  BY <1>5, TableAssumption DEF EndsIn, Partial, Elementary, Opaque
<1>7. IsKids(unit, c, <<>>)
  <2>1. Last(c.steps).m.type \notin BlockTypes
    BY <1>5, TableAssumption
  <2> QED BY <1>2, <1>5, <2>1, NoKids
<1>8. WalkInv(unit, <<>> \o Tail(cs), ItemsFor(unit, <<>>) \o Tail(todo), arrays, retainVars,
              With(skipped, Path(c), EndsIn(c, {Opaque})),
              With(incomplete, Path(c), Partial(unit, c)))
  BY <1>2, <1>3, <1>5, <1>6, <1>7, PassInv DEF c
<1>9. ItemsFor(unit, <<>>) \o Tail(todo) = Tail(todo)
  BY <1>3, <1>5, NothingFirst
<1>10. With(skipped, Path(c), EndsIn(c, {Opaque})) = skipped' /\
       With(incomplete, Path(c), Partial(unit, c)) = incomplete'
  BY <1>1, <1>5, <1>6 DEF With
<1>11. WalkInv(unit', <<>> \o Tail(cs), todo', arrays', retainVars', skipped', incomplete')
  BY <1>1, <1>8, <1>9, <1>10
<1> QED BY <1>1, <1>2, <1>4, <1>11 DEF TableInv

LEMMA EnterInstanceKeeps ==
  ASSUME NoParents, NamesApart, TableInv, EnterInstance
  PROVE  TableInv'
<1>1. /\ todo # <<>> /\ Head(todo).type = AtBoundary
      /\ arrays' = IF Last(arrays) = <<>> THEN arrays ELSE Append(arrays, <<>>)
      /\ todo' = Tail(todo)
      /\ unit' = unit /\ retainVars' = retainVars
      /\ incomplete' = incomplete /\ skipped' = skipped /\ done' = done
  BY DEF EnterInstance, AtFront
<1>2. unit \in Sources /\ Flat(unit)
  BY SourcesFree DEF TableInv
<1>3. PICK cs : WalkInv(unit, cs, todo, arrays, retainVars, skipped, incomplete)
  BY DEF TableInv
<1>4. ~done
  BY <1>1 DEF TableInv
<1>5. cs # <<>> /\ cs[1] = Gate
  <2>1. Walks(unit, cs) /\ todo = ItemsFor(unit, cs)
    BY <1>3 DEF WalkInv
  <2> QED BY <1>1, <1>2, <2>1, AtChain
<1>6. WalkInv(unit, Tail(cs), Tail(todo),
              IF Last(arrays) = <<>> THEN arrays ELSE Append(arrays, <<>>),
              retainVars, skipped, incomplete)
  BY <1>2, <1>3, <1>5, GateInv
<1>7. WalkInv(unit', Tail(cs), todo', arrays', retainVars', skipped', incomplete')
  BY <1>1, <1>6
<1> QED BY <1>1, <1>2, <1>4, <1>7 DEF TableInv

\* What a chain to a block is.
LEMMA BlockChain ==
  ASSUME NEW u, NEW c, NEW b \in BlockTypes, Last(c.steps).m.type = b
  PROVE  /\ ~EndsIn(c, {Elementary}) /\ ~EndsIn(c, {Opaque})
         /\ Partial(u, c) <=> /\ FlagsOf(u, c).retain /\ OfLibrary(u.blocks[b])
                              /\ Interface(u.blocks[b]) # <<>> /\ Locals(u.blocks[b]) = <<>>
<1>1. b \notin {Elementary, Opaque}
  BY TableAssumption
<1>2. FlagsOf(u, c).retain <=> RetainedAt(u, c, Len(c.steps))
  BY DEF FlagsOf
<1> QED BY <1>1, <1>2 DEF EndsIn, Partial

LEMMA VisitBlockKeeps ==
  ASSUME NoParents, NamesApart, TableInv, NEW b \in BlockTypes, VisitBlock(b)
  PROVE  TableInv'
<1> DEFINE ms == Section(unit.blocks[b].members, {"interface", "inout", "var"})
<1>1. /\ todo # <<>> /\ Head(todo).type = b /\ ~OfLibrary(unit.blocks[b])
      /\ todo' = Walked(Head(todo).path, ms, Head(todo).flags) \o Tail(todo)
      /\ unit' = unit /\ arrays' = arrays /\ retainVars' = retainVars
      /\ incomplete' = incomplete /\ skipped' = skipped /\ done' = done
  BY DEF VisitBlock, AtFront, Definition
<1>2. unit \in Sources /\ Flat(unit)
  BY SourcesFree DEF TableInv
<1>3. PICK cs : WalkInv(unit, cs, todo, arrays, retainVars, skipped, incomplete)
  BY DEF TableInv
<1>4. ~done
  BY <1>1 DEF TableInv
<1> DEFINE c == cs[1]
<1>5. /\ cs # <<>> /\ c \in Visible(unit) /\ Last(c.steps).m.type = b
      /\ Head(todo).path = Path(c) /\ Head(todo).flags = FlagsOf(unit, c)
  <2>1. Head(todo).type # AtBoundary
    BY <1>1, TableAssumption
  <2> QED BY <1>1, <1>2, <1>3, <2>1, FrontChain
<1> HIDE DEF c
<1>6. PICK kids : /\ IsKids(unit, c, kids)
                  /\ Walked(Path(c), ms, FlagsOf(unit, c)) = ItemsFor(unit, kids)
  BY <1>1, <1>2, <1>5, ProjectKids
<1>7. ~EndsIn(c, {Elementary}) /\ ~EndsIn(c, {Opaque}) /\ ~Partial(unit, c)
  BY <1>1, <1>5, BlockChain
<1>8. WalkInv(unit, kids \o Tail(cs), ItemsFor(unit, kids) \o Tail(todo), arrays, retainVars,
              With(skipped, Path(c), EndsIn(c, {Opaque})),
              With(incomplete, Path(c), Partial(unit, c)))
  BY <1>2, <1>3, <1>5, <1>6, <1>7, PassInv DEF c
<1>9. With(skipped, Path(c), EndsIn(c, {Opaque})) = skipped /\
      With(incomplete, Path(c), Partial(unit, c)) = incomplete
  BY <1>7 DEF With
<1> HIDE DEF ms
<1>10. WalkInv(unit', kids \o Tail(cs), todo', arrays', retainVars', skipped', incomplete')
  BY <1>1, <1>5, <1>6, <1>8, <1>9
<1> QED BY <1>1, <1>2, <1>4, <1>10 DEF TableInv

LEMMA VisitLibraryBlockKeeps ==
  ASSUME NoParents, NamesApart, TableInv, NEW b \in BlockTypes, VisitLibraryBlock(b)
  PROVE  TableInv'
<1> DEFINE v == Head(todo)
           shown == Interface(unit.blocks[b])
           locals == Locals(unit.blocks[b])
           walked == Kept(locals, {k \in DOMAIN locals :
                                     v.flags.retain \/ locals[k].is = "retain"})
           S == [k \in DOMAIN shown |-> Item(v.path, shown[k], v.flags)]
           W == [k \in DOMAIN walked |->
                   Item(v.path, walked[k], [v.flags EXCEPT !.retain = @ \/ walked[k].is = "retain"])]
<1>1. /\ todo # <<>> /\ v.type = b /\ OfLibrary(unit.blocks[b])
      /\ unit' = unit /\ arrays' = arrays /\ retainVars' = retainVars
      /\ skipped' = skipped /\ done' = done
  BY DEF VisitLibraryBlock, AtFront, Definition
<1>2. IF shown = <<>> THEN todo' = Tail(todo) /\ incomplete' = incomplete
      ELSE /\ todo' = (S \o W) \o Tail(todo)
           /\ incomplete' = IF v.flags.retain /\ locals = <<>>
                            THEN incomplete \union {v.path} ELSE incomplete
  BY DEF VisitLibraryBlock, Definition
<1>3. unit \in Sources /\ Flat(unit)
  BY SourcesFree DEF TableInv
<1>4. PICK cs : WalkInv(unit, cs, todo, arrays, retainVars, skipped, incomplete)
  BY DEF TableInv
<1>5. ~done
  BY <1>1 DEF TableInv
<1> DEFINE c == cs[1]
<1>6. /\ cs # <<>> /\ c \in Visible(unit) /\ Last(c.steps).m.type = b
      /\ v.path = Path(c) /\ v.flags = FlagsOf(unit, c)
  <2>1. v.type # AtBoundary
    BY <1>1, TableAssumption
  <2> QED BY <1>1, <1>3, <1>4, <2>1, FrontChain
<1> HIDE DEF c, v
<1>7. /\ ~EndsIn(c, {Elementary}) /\ ~EndsIn(c, {Opaque})
      /\ Partial(unit, c) <=> v.flags.retain /\ shown # <<>> /\ locals = <<>>
  BY <1>1, <1>6, BlockChain
<1>8. With(skipped, Path(c), EndsIn(c, {Opaque})) = skipped
  BY <1>7 DEF With
<1>9. CASE shown = <<>>
  <2>1. IsKids(unit, c, <<>>)
    BY <1>1, <1>3, <1>6, <1>9, NoKids
  <2>2. WalkInv(unit, <<>> \o Tail(cs), ItemsFor(unit, <<>>) \o Tail(todo), arrays, retainVars,
                With(skipped, Path(c), EndsIn(c, {Opaque})),
                With(incomplete, Path(c), Partial(unit, c)))
    BY <1>3, <1>4, <1>6, <1>7, <2>1, PassInv DEF c
  <2>3. ItemsFor(unit, <<>>) \o Tail(todo) = Tail(todo)
    BY <1>4, <1>6, NothingFirst
  <2>4. With(incomplete, Path(c), Partial(unit, c)) = incomplete
    BY <1>7, <1>9 DEF With
  <2>5. todo' = Tail(todo) /\ incomplete' = incomplete
    BY <1>2, <1>9
  <2>6. WalkInv(unit', <<>> \o Tail(cs), todo', arrays', retainVars', skipped', incomplete')
    BY <1>1, <1>8, <2>2, <2>3, <2>4, <2>5
  <2> QED BY <1>1, <1>3, <1>5, <2>6 DEF TableInv
<1>10. CASE shown # <<>>
  <2> DEFINE f == FlagsOf(unit, c)
  <2>1. PICK kids, more :
          /\ kids \in Seq(Visible(unit)) /\ more \in Seq(Visible(unit))
          /\ IsKids(unit, c, kids \o more)
          /\ S = ItemsFor(unit, kids) /\ W = ItemsFor(unit, more)
    <3>1. v.path = Path(c) /\ v.flags = f
      BY <1>6
    <3>2. S = InterfaceItems(Path(c), shown, f)
      BY <3>1 DEF InterfaceItems
    <3>3. W = LocalItems(Path(c), LocalsFor(locals, f), f)
      BY <3>1 DEF LocalItems, LocalsFor
    <3>4. f = FlagsOf(unit, c) /\ shown = Interface(unit.blocks[b]) /\ locals = Locals(unit.blocks[b])
      OBVIOUS
    <3> HIDE DEF S, W, f, shown, locals
    <3>5. \E kids, more :
            /\ kids \in Seq(Visible(unit)) /\ more \in Seq(Visible(unit))
            /\ IsKids(unit, c, kids \o more)
            /\ InterfaceItems(Path(c), shown, f) = ItemsFor(unit, kids)
            /\ LocalItems(Path(c), LocalsFor(locals, f), f) = ItemsFor(unit, more)
      BY <1>1, <1>3, <1>6, <1>10, <3>4, LibraryKids
    <3> QED BY <3>2, <3>3, <3>5
  <2> HIDE DEF S, W, f, shown, locals
  <2>2. ItemsFor(unit, kids \o more) = S \o W
    BY <2>1, ItemsJoin
  <2>3. WalkInv(unit, (kids \o more) \o Tail(cs), ItemsFor(unit, kids \o more) \o Tail(todo),
                arrays, retainVars, With(skipped, Path(c), EndsIn(c, {Opaque})),
                With(incomplete, Path(c), Partial(unit, c)))
    BY <1>3, <1>4, <1>6, <1>7, <2>1, PassInv DEF c
  <2>4. todo' = ItemsFor(unit, kids \o more) \o Tail(todo)
    BY <1>2, <1>10, <2>2
  <2>5. With(incomplete, Path(c), Partial(unit, c)) = incomplete'
    <3>1. incomplete' = IF v.flags.retain /\ locals = <<>>
                        THEN incomplete \union {v.path} ELSE incomplete
      BY <1>2, <1>10
    <3> QED BY <1>6, <1>7, <1>10, <3>1 DEF With
  <2>6. WalkInv(unit', (kids \o more) \o Tail(cs), todo', arrays', retainVars', skipped', incomplete')
    BY <1>1, <1>8, <2>3, <2>4, <2>5
  <2> QED BY <1>1, <1>3, <1>5, <2>6 DEF TableInv
<1> QED BY <1>9, <1>10

LEMMA FinishTableKeeps ==
  ASSUME NoParents, NamesApart, TableInv, FinishTable
  PROVE  TableInv'
<1>1. /\ todo = <<>>
      /\ arrays' = IF Last(arrays) = <<>> /\ Len(arrays) > 1 THEN Front(arrays) ELSE arrays
      /\ unit' = unit /\ todo' = todo /\ retainVars' = retainVars
      /\ incomplete' = incomplete /\ skipped' = skipped
  BY DEF FinishTable
<1>2. unit \in Sources
  BY DEF TableInv
<1>3. PICK cs : WalkInv(unit, cs, todo, arrays, retainVars, skipped, incomplete)
  BY DEF TableInv
<1> DEFINE past == Behind(unit, cs)
<1>4. /\ Walks(unit, cs) /\ todo = ItemsFor(unit, cs)
      /\ Table(unit, past, arrays, retainVars, skipped, incomplete)
  BY <1>3 DEF WalkInv
<1>5. cs = <<>>
  BY <1>1, <1>4, ItemsTail DEF Walks
<1>6. /\ Shape(unit, arrays) /\ Content(unit, past, arrays) /\ Listed(arrays, retainVars)
      /\ Reports(unit, past, skipped, incomplete)
  BY <1>4 DEF Table
<1> HIDE DEF past
<1>7. Len(arrays) \in Nat \ {0}
  BY <1>6, LastIs DEF Shape
<1>8. /\ Shape(unit, arrays') /\ Content(unit, past, arrays') /\ Listed(arrays', retainVars)
      /\ Last(arrays') # <<>> \/ Len(arrays') = 1
  <2>1. CASE Last(arrays) = <<>> /\ Len(arrays) > 1
    <3>1. arrays' = Front(arrays)
      BY <1>1, <2>1
    <3>2. /\ Shape(unit, Front(arrays)) /\ Content(unit, past, Front(arrays))
          /\ Listed(Front(arrays), retainVars) /\ Last(Front(arrays)) # <<>>
      BY <1>6, <2>1, DropArray
    <3> QED BY <3>1, <3>2
  <2>2. CASE ~(Last(arrays) = <<>> /\ Len(arrays) > 1)
    <3>1. arrays' = arrays
      BY <1>1, <2>2
    <3>2. Last(arrays) # <<>> \/ Len(arrays) = 1
      <4> DEFINE n == Len(arrays)
                 empty == Last(arrays) = <<>>
      <4>1. n \in Nat \ {0} /\ ~(empty /\ n > 1)
        BY <1>7, <2>2
      <4> HIDE DEF n, empty
      <4>2. ~empty \/ n = 1
        BY <4>1
      <4> QED BY <4>2 DEF n, empty
    <3> QED BY <1>6, <3>1, <3>2
  <2> QED BY <2>1, <2>2
<1>9. Table(unit, past, arrays', retainVars, skipped, incomplete)
  BY <1>6, <1>8 DEF Table
<1>10. WalkInv(unit, cs, todo, arrays', retainVars, skipped, incomplete)
  BY <1>4, <1>5, <1>9 DEF WalkInv, NextPart, past
<1>11. WalkInv(unit', cs, todo', arrays', retainVars', skipped', incomplete')
  BY <1>1, <1>10
<1> QED BY <1>1, <1>2, <1>8, <1>11 DEF TableInv

-----------------------------------------------------------------------------
(***************************************************************************)
(* Where the walk begins: with every chain of one step, once.              *)
(***************************************************************************)

\* A variable of a program instance, or with at = <<>> a global.
RootChain(at, m) == [at |-> at, steps |-> <<Step(Program, m)>>]

\* What the program declares and keeps between scans.
Kepts(u) == Section(u.vars, {"interface", "var"})

LEMMA KeptsAre ==
  ASSUME NEW u, Flat(u)
  PROVE  /\ Kepts(u) \in Seq(Members) /\ DifferentNames(Kepts(u))
         /\ \A m : m \in Range(Kepts(u)) <=> m \in Range(u.vars) /\ m.in \in {"interface", "var"}
BY SectionIs DEF Kepts, Flat

LEMMA RootTyped ==
  ASSUME NEW at \in Seq(Name), NEW m \in Members
  PROVE  /\ Step(Program, m) \in StepT /\ RootChain(at, m) \in ChainT
         /\ Len(RootChain(at, m).steps) = 1 /\ RootChain(at, m).steps[1] = Step(Program, m)
         /\ RootChain(at, m).at = at /\ RootOf(RootChain(at, m)) = RootChain(at, m)
<1>1. Step(Program, m) \in StepT
  BY DEF Step, StepT
<1> DEFINE s == Step(Program, m)
<1>2. s \in StepT
  BY <1>1
<1> HIDE DEF s
<1>3. <<s>> \in Seq(StepT) /\ Len(<<s>>) = 1 /\ <<s>>[1] = s
  BY <1>2
<1> QED BY <1>1, <1>3 DEF RootChain, ChainT, RootOf, s

LEMMA RootItem ==
  ASSUME NEW u, NEW at \in Seq(Name), NEW m \in Members
  PROVE  ItemOf(u, RootChain(at, m)) = Item(at, m, ApplyBlockFlags(NoFlags, m.is))
<1> DEFINE z == [at |-> at, steps |-> <<>>]
           s == Step(Program, m)
<1>1. z \in ChainT /\ z.at = at /\ z.steps = <<>> /\ s \in StepT
  BY RootTyped DEF ChainT
<1>2. OneMore(z, s) = RootChain(at, m)
  <2>1. Append(z.steps, s) = <<s>>
    BY <1>1
  <2> QED BY <2>1 DEF OneMore, RootChain
<1>3. Path(z) = at
  <2>1. Path(z) \in Seq(Name) /\ Len(Path(z)) = Len(z.at) + Len(z.steps)
        /\ \A i \in 1 .. Len(z.at) : Path(z)[i] = z.at[i]
    BY <1>1, PathIs
  <2>2. Len(z.steps) = 0 /\ Len(at) \in Nat
    BY <1>1
  <2> DEFINE p == Path(z)
  <2>3. p \in Seq(Name) /\ Len(p) = Len(at) /\ \A i \in 1 .. Len(p) : p[i] = at[i]
    BY <1>1, <2>1, <2>2
  <2> HIDE DEF p
  <2>4. p = at
    BY <2>3, SameSeq
  <2> QED BY <2>4 DEF p
<1>4. FlagsOf(u, z) = NoFlags
  <2>1. Len(z.steps) = 0 /\ DOMAIN z.steps = {}
    BY <1>1
  <2>2. ~RetainedAt(u, z, Len(z.steps))
    <3>1. 1 .. 0 = {}
      OBVIOUS
    <3> QED BY <2>1, <3>1 DEF RetainedAt
  <2>3. ~\E i \in DOMAIN z.steps : Told(u, z.steps[i]) = "constant"
    BY <2>1
  <2> HIDE DEF z
  <2>4. FlagsOf(u, z).retain = FALSE /\ FlagsOf(u, z).readOnly = FALSE
    BY <2>2, <2>3 DEF FlagsOf
  <2> QED BY <2>4 DEF FlagsOf, NoFlags
<1>5. Told(u, s) = m.is /\ s.m = m
  BY DEF Told, InLibrary, Step
<1> HIDE DEF z, s
<1> QED BY <1>1, <1>2, <1>3, <1>4, <1>5, ItemNext

\* The visible chains of one step.
LEMMA RootVisible ==
  ASSUME NEW u, Flat(u), NEW at, NEW m,
         \/ at = <<>> /\ m \in Range(Distinct(u.globals))
         \/ m \in Range(Kepts(u)) /\ \E i \in Range(u.instances) : at = <<i>>
  PROVE  /\ RootChain(at, m) \in Visible(u) /\ m \in Members /\ at \in Seq(Name)
         /\ ItemFor(u, RootChain(at, m)) = Item(at, m, ApplyBlockFlags(NoFlags, m.is))
<1> DEFINE c == RootChain(at, m)
<1>1. m \in Members /\ m.in \in {"interface", "var"}
  BY GlobalsDistinct, KeptsAre, RangeTyped
<1>2. at \in Seq(Name)
  <2>1. CASE at = <<>>
    BY <2>1
  <2>2. CASE at # <<>>
    <3>1. PICK i \in Range(u.instances) : at = <<i>>
      BY <2>2
    <3>2. i \in Name
      BY RangeTyped DEF Flat
    <3> QED BY <3>1, <3>2
  <2> QED BY <2>1, <2>2
<1>3. IsRoot(u, c)
  BY KeptsAre DEF IsRoot, RootChain
<1>4. /\ c \in ChainT /\ Len(c.steps) = 1 /\ c.steps[1] = Step(Program, m) /\ RootOf(c) = c
  BY <1>1, <1>2, RootTyped
<1> HIDE DEF c
<1>5. IsChain(u, c)
  <2>1. c \in Roots(u)
    BY <1>3, RootsAre
  <2>2. c.steps # <<>>
    <3>1. Len(<<>>) = 0
      OBVIOUS
    <3> QED BY <1>4, <3>1
  <2>3. 2 .. Len(c.steps) = {}
    BY <1>4
  <2> QED BY <1>4, <2>1, <2>2, <2>3 DEF IsChain
<1>6. ShownAt(u, c, 1)
  BY <1>1, <1>4 DEF ShownAt, InLibrary, Step
<1>7. c \in Visible(u)
  <2>1. \A i \in 1 .. Len(c.steps) : i = 1
    BY <1>4
  <2> QED BY <1>5, <1>6, <2>1, VisibleIs
<1>8. ItemFor(u, c) = Item(at, m, ApplyBlockFlags(NoFlags, m.is))
  <2>1. ItemFor(u, c) = ItemOf(u, c)
    BY <1>7, NotGate
  <2> QED BY <1>1, <1>2, <2>1, RootItem DEF c
<1> QED BY <1>1, <1>2, <1>7, <1>8 DEF c

LEMMA VisibleRoot ==
  ASSUME NEW u, Flat(u), NEW c \in Visible(u), Len(c.steps) = 1
  PROVE  \/ \E m \in Range(Distinct(u.globals)) : c = RootChain(<<>>, m)
         \/ \E m \in Range(Kepts(u)) : \E i \in Range(u.instances) : c = RootChain(<<i>>, m)
<1>1. IsChain(u, c) /\ \A i \in 1 .. Len(c.steps) : ShownAt(u, c, i)
  BY VisibleIs
<1>2. c \in ChainT /\ IsRoot(u, RootOf(c)) /\ 1 \in 1 .. Len(c.steps)
  BY <1>1, ChainParts
<1>3. ShownAt(u, c, 1)
  BY <1>1, <1>2
<1>4. c = [at |-> c.at, steps |-> <<c.steps[1]>>]
  <2>1. c.at \in Seq(Name) /\ c.steps \in Seq(StepT) /\ c = [at |-> c.at, steps |-> c.steps]
    BY <1>2 DEF ChainT
  <2> DEFINE t == c.steps
  <2>2. t \in Seq(StepT) /\ Len(t) = 1
    BY <2>1
  <2> HIDE DEF t
  <2>3. t = <<t[1]>>
    BY <2>2
  <2> QED BY <2>1, <2>3 DEF t
<1>5. RootOf(c) = c
  BY <1>4 DEF RootOf
<1>6. CASE \E m \in Range(Distinct(u.globals)) : c = [at |-> <<>>, steps |-> <<Step(Program, m)>>]
  BY <1>6 DEF RootChain
<1>7. CASE \E m \in Range(u.vars) : \E i \in Range(u.instances) :
             c = [at |-> <<i>>, steps |-> <<Step(Program, m)>>]
  <2>1. PICK m \in Range(u.vars), i \in Range(u.instances) : c = RootChain(<<i>>, m)
    BY <1>7 DEF RootChain
  <2>2. m \in Members
    BY RangeTyped DEF Flat
  <2>3. c.steps[1] = Step(Program, m)
    BY <2>1 DEF RootChain
  <2>4. m.in \in {"interface", "var"}
    BY <1>3, <2>2, <2>3 DEF ShownAt, Members, Step
  <2>5. m \in Range(Kepts(u))
    BY <2>4, KeptsAre
  <2> QED BY <2>1, <2>5
<1> QED BY <1>2, <1>5, <1>6, <1>7 DEF IsRoot

\* A walk that begins with every visible chain of one step.
Starts(u, cs) ==
  /\ cs \in Seq(Visible(u) \union {Gate})
  /\ \A k \in 1 .. Len(cs) : cs[k] # Gate => Len(cs[k].steps) = 1
  /\ \A k, l \in 1 .. Len(cs) : cs[k] # Gate /\ cs[k] = cs[l] => k = l
  /\ \A c \in Visible(u) : Len(c.steps) = 1 => \E k \in 1 .. Len(cs) : cs[k] = c
  /\ \A k \in 2 .. Len(cs) :
       cs[k - 1] # Gate /\ cs[k] # Gate
         => PartOf(u, Path(cs[k - 1])) = PartOf(u, Path(cs[k]))

LEMMA StartsWalk ==
  ASSUME NEW u, Flat(u), NEW cs, Starts(u, cs)
  PROVE  Walks(u, cs) /\ Behind(u, cs) = {}
<1>1. /\ cs \in Seq(Visible(u) \union {Gate})
      /\ \A k \in 1 .. Len(cs) : cs[k] # Gate => Len(cs[k].steps) = 1
      /\ \A k, l \in 1 .. Len(cs) : cs[k] # Gate /\ cs[k] = cs[l] => k = l
      /\ \A c \in Visible(u) : Len(c.steps) = 1 => \E k \in 1 .. Len(cs) : cs[k] = c
      /\ \A k \in 2 .. Len(cs) :
           cs[k - 1] # Gate /\ cs[k] # Gate
             => PartOf(u, Path(cs[k - 1])) = PartOf(u, Path(cs[k]))
  BY DEF Starts
<1>2. ASSUME NEW k \in 1 .. Len(cs), NEW l \in 1 .. Len(cs), k # l
      PROVE  Under(u, cs[k]) \cap Under(u, cs[l]) = {}
  <2>1. ASSUME NEW x \in Under(u, cs[k]), x \in Under(u, cs[l]) PROVE FALSE
    <3>1. cs[k] # Gate /\ cs[l] # Gate
      BY <2>1 DEF Under
    <3>2. Len(cs[k].steps) = 1 /\ Len(cs[l].steps) = 1
      BY <1>1, <3>1
    <3>3. Cut(x, 1) = cs[k] /\ Cut(x, 1) = cs[l]
      BY <2>1, <3>2 DEF Under
    <3> QED BY <1>1, <1>2, <3>1, <3>3
  <2> QED BY <2>1
<1>3. Walks(u, cs)
  BY <1>1, <1>2 DEF Walks
<1>4. ASSUME NEW x \in Visible(u)
      PROVE  \E k \in 1 .. Len(cs) : x \in Under(u, cs[k])
  <2>1. Len(x.steps) \in Nat \ {0} /\ x \in ChainT
    BY VisibleIs, ChainParts
  <2>2. 1 \in 1 .. Len(x.steps) /\ 1 \in Nat /\ 1 <= Len(x.steps)
    BY <2>1
  <2>3. Cut(x, 1) \in Visible(u) /\ Len(Cut(x, 1).steps) = 1
    BY <2>1, <2>2, CutVisible, CutIs
  <2>4. PICK k \in 1 .. Len(cs) : cs[k] = Cut(x, 1)
    BY <1>1, <2>3
  <2>5. cs[k] # Gate
    BY <2>3, <2>4, NotGate
  <2>6. x \in Under(u, cs[k])
    BY <2>2, <2>3, <2>4, <2>5 DEF Under
  <2> QED BY <2>6
<1>5. Behind(u, cs) = {}
  BY <1>4 DEF Behind
<1> QED BY <1>3, <1>5

\* The chains of what is visited in instance i.
RowChain(u, i, j) ==
  IF j = 1 THEN Gate ELSE RootChain(<<u.instances[i]>>, Kepts(u)[j - 1])

ItemT(u) == {ItemFor(u, c) : c \in Visible(u) \union {Gate}}

RowIs(u, i) ==
  /\ InstanceWalk(u, u.instances[i]) \in Seq(ItemT(u))
  /\ Len(InstanceWalk(u, u.instances[i])) = Len(Kepts(u)) + 1
  /\ \A j \in 1 .. Len(Kepts(u)) + 1 :
       /\ RowChain(u, i, j) \in Visible(u) \union {Gate}
       /\ InstanceWalk(u, u.instances[i])[j] = ItemFor(u, RowChain(u, i, j))

LEMMA RowChainIs ==
  ASSUME NEW u, Flat(u), NEW i \in 1 .. Len(u.instances), NEW j \in 1 .. Len(Kepts(u))
  PROVE  /\ RowChain(u, i, j + 1) = RootChain(<<u.instances[i]>>, Kepts(u)[j])
         /\ Kepts(u)[j] \in Range(Kepts(u)) /\ u.instances[i] \in Range(u.instances)
         /\ RowChain(u, i, j + 1) \in Visible(u)
         /\ ItemFor(u, RowChain(u, i, j + 1)) =
              Item(<<u.instances[i]>>, Kepts(u)[j], ApplyBlockFlags(NoFlags, Kepts(u)[j].is))
<1>1. j + 1 # 1 /\ (j + 1) - 1 = j
  OBVIOUS
<1>2. RowChain(u, i, j + 1) = RootChain(<<u.instances[i]>>, Kepts(u)[j])
  BY <1>1 DEF RowChain
<1>3. Kepts(u)[j] \in Range(Kepts(u))
  BY KeptsAre, RangeOf
<1>4. u.instances[i] \in Range(u.instances)
  BY RangeOf DEF Flat
<1> QED BY <1>2, <1>3, <1>4, RootVisible

LEMMA RowsAre ==
  ASSUME NEW u, Flat(u), NEW i \in 1 .. Len(u.instances)
  PROVE  RowIs(u, i)
<1> DEFINE n == Len(Kepts(u))
           name == u.instances[i]
           V == Kepts(u)
           p == <<Boundary>>
           q == Walked(<<name>>, V, NoFlags)
           w == p \o q
           G(j) == Item(<<name>>, V[j], ApplyBlockFlags(NoFlags, V[j].is))
           I == ItemT(u)
<1>1. V \in Seq(Members) /\ n \in Nat /\ DOMAIN V = 1 .. n
  BY KeptsAre
<1>2. InstanceWalk(u, name) = w
  BY DEF InstanceWalk, Kepts
<1>3. \A j \in 1 .. n : /\ RowChain(u, i, j + 1) \in Visible(u)
                        /\ ItemFor(u, RowChain(u, i, j + 1)) = G(j)
  BY RowChainIs
<1>4. \A j \in 1 .. n : G(j) \in I
  BY <1>3 DEF ItemT
<1>5. q = [j \in 1 .. n |-> G(j)]
  BY <1>1 DEF Walked
<1>6. Boundary \in I
  BY DEF ItemT, ItemFor
<1>7. RowChain(u, i, 1) = Gate /\ ItemFor(u, Gate) = Boundary
  BY DEF RowChain, ItemFor
<1> HIDE DEF G, I, q, V, name
<1>8. q \in Seq(I) /\ Len(q) = n /\ \A j \in 1 .. n : q[j] = G(j)
  BY <1>1, <1>4, <1>5
<1>9. p \in Seq(I) /\ Len(p) = 1 /\ p[1] = Boundary
  BY <1>6
<1>10. Joins(I, p, q, w)
  BY <1>8, <1>9, JoinIs
<1> HIDE DEF p, w, n
<1>11. w \in Seq(I) /\ Len(w) = 1 + n /\ 1 + n = n + 1
  BY <1>1, <1>8, <1>9, <1>10 DEF Joins
<1>12. ASSUME NEW j \in 1 .. n + 1
       PROVE  /\ RowChain(u, i, j) \in Visible(u) \union {Gate}
              /\ w[j] = ItemFor(u, RowChain(u, i, j))
  <2>1. CASE j = 1
    <3>1. w[1] = p[1]
      <4>1. 1 \in 1 .. 1
        OBVIOUS
      <4> QED BY <1>9, <1>10, <4>1 DEF Joins
    <3> QED BY <1>7, <1>9, <2>1, <3>1
  <2>2. CASE j # 1
    <3>1. j - 1 \in 1 .. n /\ 1 + (j - 1) = j /\ (j - 1) + 1 = j
      BY <1>1, <2>2
    <3>2. w[1 + (j - 1)] = q[j - 1]
      BY <1>8, <1>9, <1>10, <3>1 DEF Joins
    <3>3. q[j - 1] = G(j - 1)
      BY <1>8, <3>1
    <3>4. RowChain(u, i, (j - 1) + 1) \in Visible(u) /\ ItemFor(u, RowChain(u, i, (j - 1) + 1)) = G(j - 1)
      BY <1>3, <3>1
    <3> QED BY <3>1, <3>2, <3>3, <3>4
  <2> QED BY <2>1, <2>2
<1> QED BY <1>2, <1>11, <1>12 DEF RowIs, I, n, name

\* The chains of what is visited in the instances.
InstanceStarts(u, cs) ==
  /\ cs \in Seq(Visible(u) \union {Gate})
  /\ \A k \in 1 .. Len(cs) : cs[k] # Gate =>
       \E i \in Range(u.instances) : \E m \in Range(Kepts(u)) : cs[k] = RootChain(<<i>>, m)
  /\ \A k, l \in 1 .. Len(cs) : cs[k] # Gate /\ cs[k] = cs[l] => k = l
  /\ \A i \in Range(u.instances) : \A m \in Range(Kepts(u)) :
       \E k \in 1 .. Len(cs) : cs[k] = RootChain(<<i>>, m)
  /\ \A k \in 2 .. Len(cs) : cs[k - 1] # Gate /\ cs[k] # Gate => cs[k - 1].at = cs[k].at
  /\ Len(cs) # 0 => cs[1] = Gate

InstanceRows(u) == [i \in DOMAIN u.instances |-> InstanceWalk(u, u.instances[i])]

LEMMA InstancesStart ==
  ASSUME NEW u, Flat(u)
  PROVE  \E cs : InstanceStarts(u, cs) /\ FlattenSeq(InstanceRows(u)) = ItemsFor(u, cs)
<1> DEFINE rows == InstanceRows(u)
           flat == FlattenSeq(rows)
           N == Len(u.instances)
           n == Len(Kepts(u))
           I == ItemT(u)
<1>1. u.instances \in Seq(Name) /\ N \in Nat /\ DOMAIN u.instances = 1 .. N /\ n \in Nat
  BY KeptsAre DEF Flat
<1>2. \A i \in 1 .. N : InstanceWalk(u, u.instances[i]) \in Seq(I)
  BY RowsAre DEF RowIs
<1>3. rows = [i \in 1 .. N |-> InstanceWalk(u, u.instances[i])]
  BY <1>1 DEF InstanceRows
<1> HIDE DEF rows
<1>4. rows \in Seq(Seq(I)) /\ Len(rows) = N /\ \A i \in 1 .. N : rows[i] = InstanceWalk(u, u.instances[i])
  <2> HIDE DEF N, I
  <2> QED BY <1>1, <1>2, <1>3
<1>5. \A i \in 1 .. N :
        /\ Len(rows[i]) = n + 1
        /\ \A j \in 1 .. n + 1 : /\ RowChain(u, i, j) \in Visible(u) \union {Gate}
                                 /\ rows[i][j] = ItemFor(u, RowChain(u, i, j))
  BY <1>4, RowsAre DEF RowIs
<1>6. flat \in Seq(I) /\ \E r, e : Runs(rows, N, flat, r, e)
  BY <1>4, FlattenRuns
<1>7. PICK r, e : Runs(rows, N, flat, r, e)
  BY <1>6
<1> DEFINE L == Len(flat)
           cs == [k \in 1 .. L |-> RowChain(u, r[k], e[k])]
           T == Visible(u) \union {Gate}
<1>8. L \in Nat
  BY <1>6
<1> HIDE DEF flat, N, n, I
<1>9. /\ \A k \in 1 .. L :
           r[k] \in 1 .. N /\ e[k] \in 1 .. Len(rows[r[k]]) /\ flat[k] = rows[r[k]][e[k]]
      /\ \A i \in 1 .. N : \A j \in 1 .. Len(rows[i]) :
           \E k \in 1 .. L : r[k] = i /\ e[k] = j
      /\ \A k, l \in 1 .. L : r[k] = r[l] /\ e[k] = e[l] => k = l
      /\ \A k \in 2 .. L : (r[k] = r[k - 1] /\ e[k] = e[k - 1] + 1) \/ e[k] = 1
      /\ L # 0 => e[1] = 1
  BY <1>7 DEF Runs
<1>10. \A k \in 1 .. L : /\ r[k] \in 1 .. N /\ e[k] \in 1 .. n + 1
                         /\ RowChain(u, r[k], e[k]) \in T
                         /\ flat[k] = ItemFor(u, RowChain(u, r[k], e[k]))
  <2>1. TAKE k \in 1 .. L
  <2>2. r[k] \in 1 .. N /\ e[k] \in 1 .. Len(rows[r[k]]) /\ flat[k] = rows[r[k]][e[k]]
    BY <1>9
  <2>3. e[k] \in 1 .. n + 1
    <3>1. Len(rows[r[k]]) = n + 1
      BY <1>5, <2>2
    <3> QED BY <2>2, <3>1
  <2>4. RowChain(u, r[k], e[k]) \in T /\ rows[r[k]][e[k]] = ItemFor(u, RowChain(u, r[k], e[k]))
    BY <1>5, <2>2, <2>3
  <2> QED BY <2>2, <2>3, <2>4
<1> HIDE DEF L, T
<1>11. cs \in Seq(T) /\ Len(cs) = L /\ \A k \in 1 .. L : cs[k] = RowChain(u, r[k], e[k])
  BY <1>8, <1>10
<1> HIDE DEF cs
<1>12. flat = ItemsFor(u, cs)
  <2>1. ItemsFor(u, cs) = [k \in 1 .. L |-> ItemFor(u, cs[k])]
    BY <1>11 DEF ItemsFor
  <2>2. flat = [k \in 1 .. L |-> flat[k]]
    BY <1>6 DEF L
  <2> QED BY <1>10, <1>11, <2>1, <2>2
\* An element of a row is the gate in its first place only.
<1>13. ASSUME NEW k \in 1 .. L, cs[k] # Gate
       PROVE  /\ e[k] - 1 \in 1 .. n /\ r[k] \in 1 .. N
              /\ cs[k] = RootChain(<<u.instances[r[k]]>>, Kepts(u)[e[k] - 1])
              /\ cs[k].at = <<u.instances[r[k]]>>
              /\ cs[k].steps[1].m = Kepts(u)[e[k] - 1]
  <2>1. cs[k] = RowChain(u, r[k], e[k]) /\ e[k] # 1
    BY <1>11, <1>13 DEF RowChain
  <2>2. cs[k] = RootChain(<<u.instances[r[k]]>>, Kepts(u)[e[k] - 1])
    BY <2>1 DEF RowChain
  <2>3. e[k] - 1 \in 1 .. n /\ r[k] \in 1 .. N
    BY <1>1, <1>10, <2>1
  <2> QED BY <2>2, <2>3 DEF RootChain, Step
<1>14. \A k \in 1 .. L : cs[k] # Gate =>
         \E i \in Range(u.instances) : \E m \in Range(Kepts(u)) : cs[k] = RootChain(<<i>>, m)
  <2>1. TAKE k \in 1 .. L
  <2>2. HAVE cs[k] # Gate
  <2>3. u.instances[r[k]] \in Range(u.instances)
    BY <1>1, <1>13, <2>2, RangeOf DEF N
  <2>4. Kepts(u)[e[k] - 1] \in Range(Kepts(u))
    BY <1>13, <2>2, KeptsAre, RangeOf DEF n
  <2> QED BY <1>13, <2>2, <2>3, <2>4
<1>15. \A k, l \in 1 .. L : cs[k] # Gate /\ cs[k] = cs[l] => k = l
  <2>1. TAKE k, l \in 1 .. L
  <2>2. HAVE cs[k] # Gate /\ cs[k] = cs[l]
  <2>3. /\ u.instances[r[k]] = u.instances[r[l]] /\ Kepts(u)[e[k] - 1] = Kepts(u)[e[l] - 1]
        /\ r[k] \in 1 .. N /\ r[l] \in 1 .. N /\ e[k] - 1 \in 1 .. n /\ e[l] - 1 \in 1 .. n
    <3>1. <<u.instances[r[k]]>> = <<u.instances[r[l]]>>
      BY <1>13, <2>2
    <3> QED BY <1>13, <2>2, <3>1
  <2>4. r[k] = r[l]
    BY <1>1, <2>3 DEF Flat
  <2>5. e[k] - 1 = e[l] - 1
    <3>1. DOMAIN Kepts(u) = 1 .. n
      BY KeptsAre DEF n
    <3> QED BY <2>3, <3>1, KeptsAre DEF DifferentNames
  <2>6. e[k] = e[l]
    <3>1. e[k] \in 1 .. n + 1 /\ e[l] \in 1 .. n + 1
      BY <1>10
    <3> QED BY <2>5, <3>1
  <2> QED BY <1>9, <2>4, <2>6
<1>16. \A i \in Range(u.instances) : \A m \in Range(Kepts(u)) :
         \E k \in 1 .. L : cs[k] = RootChain(<<i>>, m)
  <2>1. TAKE name \in Range(u.instances)
  <2>2. TAKE m \in Range(Kepts(u))
  <2>3. PICK i \in 1 .. N : name = u.instances[i]
    BY <1>1, RangeOf DEF N
  <2>4. PICK j \in 1 .. n : m = Kepts(u)[j]
    BY KeptsAre, RangeOf DEF n
  <2>5. j + 1 \in 1 .. Len(rows[i])
    BY <1>1, <1>5
  <2>6. PICK k \in 1 .. L : r[k] = i /\ e[k] = j + 1
    BY <1>9, <2>5
  <2>7. cs[k] = RowChain(u, i, j + 1)
    BY <1>11, <2>6
  <2>8. RowChain(u, i, j + 1) = RootChain(<<u.instances[i]>>, Kepts(u)[j])
    BY RowChainIs DEF N, n
  <2> QED BY <2>3, <2>4, <2>7, <2>8
<1>17. \A k \in 2 .. L : cs[k - 1] # Gate /\ cs[k] # Gate => cs[k - 1].at = cs[k].at
  <2>1. TAKE k \in 2 .. L
  <2>2. HAVE cs[k - 1] # Gate /\ cs[k] # Gate
  <2>3. k \in 1 .. L /\ k - 1 \in 1 .. L
    BY <1>8
  <2>4. e[k] # 1
    BY <1>11, <2>2, <2>3 DEF RowChain
  <2>5. r[k] = r[k - 1]
    BY <1>9, <2>4
  <2> QED BY <1>13, <2>2, <2>3, <2>5
<1>18. L # 0 => cs[1] = Gate
  <2>1. L # 0 => 1 \in 1 .. L
    BY <1>8
  <2> QED BY <1>9, <1>11, <2>1 DEF RowChain
<1>19. InstanceStarts(u, cs)
  BY <1>11, <1>14, <1>15, <1>16, <1>17, <1>18 DEF InstanceStarts, T
<1> QED BY <1>12, <1>19 DEF flat, rows

\* Leaves of one instance are of one part, those of the globals of another.
LEMMA PartIs ==
  ASSUME NEW u, Flat(u), NamesFree(u), NEW c \in Visible(u)
  PROVE  /\ c.at = <<>> => PartOf(u, Path(c)) = "globals"
         /\ c.at # <<>> => PartOf(u, Path(c)) = c.at[1]
<1>1. IsChain(u, c)
  BY VisibleIs
<1>2. \/ c.at = <<>> /\ Path(c)[1] \notin Range(u.instances)
      \/ Path(c)[1] \in Range(u.instances) /\ c.at = <<Path(c)[1]>>
  BY <1>1, ChainHead
<1>3. \A x : <<x>> # <<>> /\ <<x>>[1] = x
  OBVIOUS
<1> QED BY <1>2, <1>3 DEF PartOf

LEMMA WalkStarts ==
  ASSUME NEW u, Flat(u), NamesFree(u)
  PROVE  \E cs : /\ Starts(u, cs)
                 /\ ItemsFor(u, cs) = Walked(<<>>, Distinct(u.globals), NoFlags) \o
                                      FlattenSeq(InstanceRows(u))
<1> DEFINE D == Distinct(u.globals)
           m == Len(D)
           gs == [k \in 1 .. m |-> RootChain(<<>>, D[k])]
           T == Visible(u) \union {Gate}
<1>1. D \in Seq(Members) /\ m \in Nat /\ DOMAIN D = 1 .. m /\ DifferentNames(D)
  BY GlobalsDistinct
<1>2. \A k \in 1 .. m : D[k] \in Range(D)
  BY <1>1, RangeOf
<1>3. \A k \in 1 .. m :
        /\ RootChain(<<>>, D[k]) \in Visible(u)
        /\ ItemFor(u, RootChain(<<>>, D[k])) = Item(<<>>, D[k], ApplyBlockFlags(NoFlags, D[k].is))
  BY <1>2, RootVisible
<1>4. m = Len(D)
  OBVIOUS
<1> HIDE DEF D, m, T
<1>5. \A k \in 1 .. m : RootChain(<<>>, D[k]) \in T
  BY <1>3 DEF T
<1>6. gs \in Seq(T) /\ Len(gs) = m /\ \A k \in 1 .. m : gs[k] = RootChain(<<>>, D[k])
  BY <1>1, <1>5
<1> HIDE DEF gs
<1>7. ItemsFor(u, gs) = Walked(<<>>, D, NoFlags)
  <2>1. ItemsFor(u, gs) = [k \in 1 .. m |-> ItemFor(u, gs[k])]
    BY <1>6 DEF ItemsFor
  <2>2. Walked(<<>>, D, NoFlags) = [k \in 1 .. m |-> Item(<<>>, D[k], ApplyBlockFlags(NoFlags, D[k].is))]
    BY <1>1 DEF Walked
  <2> QED BY <1>3, <1>6, <2>1, <2>2
<1>8. PICK rs : InstanceStarts(u, rs) /\ FlattenSeq(InstanceRows(u)) = ItemsFor(u, rs)
  BY InstancesStart
<1> DEFINE cs == gs \o rs
           n == Len(rs)
<1>9. /\ rs \in Seq(T)
      /\ \A k \in 1 .. n : rs[k] # Gate =>
           \E i \in Range(u.instances) : \E v \in Range(Kepts(u)) : rs[k] = RootChain(<<i>>, v)
      /\ \A k, l \in 1 .. n : rs[k] # Gate /\ rs[k] = rs[l] => k = l
      /\ \A i \in Range(u.instances) : \A v \in Range(Kepts(u)) :
           \E k \in 1 .. n : rs[k] = RootChain(<<i>>, v)
      /\ \A k \in 2 .. n : rs[k - 1] # Gate /\ rs[k] # Gate => rs[k - 1].at = rs[k].at
      /\ n # 0 => rs[1] = Gate
  BY <1>8 DEF InstanceStarts, T
<1>10. ItemsFor(u, cs) = Walked(<<>>, D, NoFlags) \o FlattenSeq(InstanceRows(u))
  <2>1. ItemsFor(u, cs) = ItemsFor(u, gs) \o ItemsFor(u, rs)
    BY <1>6, <1>9, ItemsJoin
  <2> QED BY <1>7, <1>8, <2>1
<1>11. Joins(T, gs, rs, cs)
  BY <1>6, <1>9, JoinIs
<1>12. n \in Nat
  BY <1>9
<1> HIDE DEF cs, n
<1>13. /\ cs \in Seq(T) /\ Len(cs) = m + n
       /\ \A k \in 1 .. m : cs[k] = gs[k]
       /\ \A k \in 1 .. n : cs[m + k] = rs[k]
       /\ \A k \in 1 .. m + n : k \in 1 .. m \/ (k - m \in 1 .. n /\ k = m + (k - m))
  BY <1>6, <1>11 DEF Joins, n
<1>14. \A k \in 1 .. m : /\ gs[k] # Gate /\ gs[k].at = <<>> /\ Len(gs[k].steps) = 1
                         /\ gs[k].steps[1].m = D[k]
  <2>1. TAKE k \in 1 .. m
  <2>2. gs[k] = RootChain(<<>>, D[k]) /\ gs[k] \in Visible(u)
    BY <1>3, <1>6
  <2>3. gs[k] # Gate
    BY <2>2, NotGate
  <2> QED BY <2>2, <2>3 DEF RootChain, Step
<1>15. \A k \in 1 .. n : rs[k] # Gate => rs[k].at # <<>> /\ Len(rs[k].steps) = 1
  <2>1. \A i, v : RootChain(<<i>>, v).at # <<>> /\ Len(RootChain(<<i>>, v).steps) = 1
    BY DEF RootChain
  <2>2. ASSUME NEW k \in 1 .. n, rs[k] # Gate
        PROVE  rs[k].at # <<>> /\ Len(rs[k].steps) = 1
    <3>1. PICK i \in Range(u.instances), v \in Range(Kepts(u)) : rs[k] = RootChain(<<i>>, v)
      BY <1>9, <2>2
    <3> QED BY <2>1, <3>1
  <2> QED BY <2>2
<1>16. \A k \in 1 .. m + n : cs[k] # Gate => Len(cs[k].steps) = 1
  <2>1. TAKE k \in 1 .. m + n
  <2>2. CASE k \in 1 .. m
    BY <1>13, <1>14, <2>2
  <2>3. CASE k - m \in 1 .. n /\ k = m + (k - m)
    <3>1. cs[k] = rs[k - m]
      BY <1>13, <2>3
    <3> QED BY <1>15, <2>3, <3>1
  <2> QED BY <1>13, <2>2, <2>3
<1>17. ASSUME NEW k \in 1 .. m + n, NEW l \in 1 .. m + n, cs[k] # Gate, cs[k] = cs[l]
       PROVE  k = l
  <2>1. CASE k \in 1 .. m /\ l \in 1 .. m
    <3>1. gs[k] = gs[l]
      BY <1>13, <1>17, <2>1
    <3>2. D[k] = D[l]
      BY <1>14, <2>1, <3>1
    <3> QED BY <1>1, <2>1, <3>2 DEF DifferentNames
  <2>2. CASE /\ k - m \in 1 .. n /\ k = m + (k - m)
             /\ l - m \in 1 .. n /\ l = m + (l - m)
    <3>1. cs[k] = rs[k - m] /\ cs[l] = rs[l - m]
      BY <1>13, <2>2
    <3>2. k - m = l - m
      BY <1>9, <1>17, <2>2, <3>1
    <3> QED BY <2>2, <3>2
  <2>3. CASE k \in 1 .. m /\ l - m \in 1 .. n /\ l = m + (l - m)
    <3>1. cs[k] = gs[k] /\ cs[l] = rs[l - m]
      BY <1>13, <2>3
    <3> QED BY <1>14, <1>15, <1>17, <2>3, <3>1
  <2>4. CASE l \in 1 .. m /\ k - m \in 1 .. n /\ k = m + (k - m)
    <3>1. cs[l] = gs[l] /\ cs[k] = rs[k - m]
      BY <1>13, <2>4
    <3> QED BY <1>14, <1>15, <1>17, <2>4, <3>1
  <2> QED BY <1>13, <2>1, <2>2, <2>3, <2>4
<1>18. ASSUME NEW c \in Visible(u), Len(c.steps) = 1
       PROVE  \E k \in 1 .. m + n : cs[k] = c
  <2>1. CASE \E v \in Range(Distinct(u.globals)) : c = RootChain(<<>>, v)
    <3>1. PICK v \in Range(D) : c = RootChain(<<>>, v)
      BY <2>1 DEF D
    <3>2. PICK k \in 1 .. m : v = D[k]
      BY <1>1, <1>4, RangeOf
    <3>3. k \in 1 .. m + n
      BY <1>1, <1>12
    <3> QED BY <1>6, <1>13, <3>1, <3>2, <3>3
  <2>2. CASE \E v \in Range(Kepts(u)) : \E i \in Range(u.instances) : c = RootChain(<<i>>, v)
    <3>1. PICK k \in 1 .. n : rs[k] = c
      BY <1>9, <2>2
    <3>2. m + k \in 1 .. m + n
      BY <1>1, <1>12
    <3> QED BY <1>13, <3>1, <3>2
  <2> QED BY <1>18, <2>1, <2>2, VisibleRoot
<1>19. ASSUME NEW k \in 2 .. m + n, cs[k - 1] # Gate, cs[k] # Gate
       PROVE  PartOf(u, Path(cs[k - 1])) = PartOf(u, Path(cs[k]))
  <2>1. k \in 1 .. m + n /\ k - 1 \in 1 .. m + n
    BY <1>1, <1>12
  <2>2. cs[k] \in Visible(u) /\ cs[k - 1] \in Visible(u)
    BY <1>13, <1>19, <2>1 DEF T
  <2>3. cs[k - 1].at = cs[k].at
    <3>1. CASE k \in 1 .. m
      <4>1. k - 1 \in 1 .. m
        BY <1>1, <3>1
      <4> QED BY <1>13, <1>14, <3>1, <4>1
    <3>2. CASE k - m \in 1 .. n /\ k = m + (k - m)
      <4>1. cs[k] = rs[k - m]
        BY <1>13, <3>2
      <4>2. k - m # 1
        <5>1. n # 0
          BY <1>12, <3>2
        <5> QED BY <1>9, <1>19, <4>1, <5>1
      <4>3. /\ k - m \in 2 .. n /\ (k - m) - 1 \in 1 .. n
            /\ k - 1 = m + ((k - m) - 1)
        BY <1>1, <1>12, <3>2, <4>2
      <4>4. cs[k - 1] = rs[(k - m) - 1]
        BY <1>13, <4>3
      <4> QED BY <1>9, <1>19, <4>1, <4>3, <4>4
    <3> QED BY <1>13, <2>1, <3>1, <3>2
  <2> QED BY <2>2, <2>3, PartIs
<1>20. Starts(u, cs)
  BY <1>13, <1>16, <1>17, <1>18, <1>19 DEF Starts, T
<1> QED BY <1>10, <1>20 DEF D

LEMMA EmptyTable ==
  ASSUME NEW u
  PROVE  Table(u, {}, <<<<>>>>, <<>>, {}, {})
<1> DEFINE E == EntryT(u)
<1>1. <<<<>>>> \in Seq(Seq(E)) /\ Len(<<<<>>>>) = 1 /\ <<<<>>>>[1] = <<>> /\ Len(<<>>) = 0
  <2>1. <<>> \in Seq(E) /\ Len(<<>>) = 0
    OBVIOUS
  <2> DEFINE z == <<>>
  <2>2. z \in Seq(E)
    BY <2>1
  <2> HIDE DEF z
  <2>3. <<z>> \in Seq(Seq(E)) /\ Len(<<z>>) = 1 /\ <<z>>[1] = z
    BY <2>2
  <2> QED BY <2>1, <2>3 DEF z
<1>2. MaxEntries \in Nat
  BY TableAssumption
<1>3. Shape(u, <<<<>>>>)
  <2>1. \A a \in 1 .. 1 : a = 1 /\ 0 <= MaxEntries
    BY <1>2
  <2> QED BY <1>1, <2>1 DEF Shape
<1>4. \A a, e : ~Place(<<<<>>>>, a, e)
  <2>1. \A a \in 1 .. 1 : a = 1
    OBVIOUS
  <2>2. 1 .. 0 = {}
    OBVIOUS
  <2> QED BY <1>1, <2>1, <2>2 DEF Place
<1>5. Content(u, {}, <<<<>>>>)
  BY <1>4 DEF Content, FromPast, AllThere, OneEntry, OnePart
<1>6. Listed(<<<<>>>>, <<>>)
  <2>1. <<>> \in Seq(RetainedT) /\ 1 .. Len(<<>>) = {}
    OBVIOUS
  <2> QED BY <1>4, <2>1 DEF Listed, Addressed, AllListed, ListedOnce
<1>7. Reports(u, {}, {}, {})
  BY DEF Reports
<1> QED BY <1>3, <1>5, <1>6, <1>7 DEF Table

LEMMA TableInitInv ==
  ASSUME NoParents, NamesApart, TableInit
  PROVE  TableInv
<1>1. PICK p \in Sources : TableOf(p)
  BY DEF TableInit
<1>2. /\ unit = p
      /\ todo = Walked(<<>>, Distinct(p.globals), NoFlags) \o FlattenSeq(InstanceRows(p))
      /\ arrays = <<<<>>>> /\ retainVars = <<>>
      /\ incomplete = {} /\ skipped = {} /\ done = FALSE
  BY <1>1 DEF TableOf, InstanceRows
<1>3. Flat(p) /\ NamesFree(p)
  BY SourcesFree
<1>4. PICK cs : /\ Starts(p, cs)
                /\ ItemsFor(p, cs) = Walked(<<>>, Distinct(p.globals), NoFlags) \o
                                     FlattenSeq(InstanceRows(p))
  BY <1>3, WalkStarts
<1>5. Walks(p, cs) /\ Behind(p, cs) = {}
  BY <1>3, <1>4, StartsWalk
<1>6. NextPart(p, cs, <<<<>>>>)
  <2>1. Len(<<<<>>>>) = 1 /\ <<<<>>>>[1] = <<>>
    OBVIOUS
  <2>2. Last(<<<<>>>>) = <<>>
    BY <2>1 DEF Last
  <2>3. 1 .. Len(<<>>) = {}
    OBVIOUS
  <2> QED BY <2>2, <2>3 DEF NextPart
<1>7. WalkInv(p, cs, todo, <<<<>>>>, <<>>, {}, {})
  BY <1>2, <1>4, <1>5, <1>6, EmptyTable DEF WalkInv
<1> QED BY <1>2, <1>7 DEF TableInv

-----------------------------------------------------------------------------
(***************************************************************************)
(* Where it ends: nothing is left, and what the walk is through with is all*)
(* that is declared and shown.                                             *)
(***************************************************************************)

\* What is visible when the walk is over is what is declared and shown.
LEMMA VisibleShown ==
  ASSUME NEW u, Flat(u)
  PROVE  Visible(u) = {c \in Chains(u) : Shown(u, c)}
<1>1. \A c : c \in Visible(u) <=> IsChain(u, c) /\ Shown(u, c)
  BY ChainParts DEF Visible
<1> QED BY <1>1, ChainsAre

\* A set has as many elements as a list of them without repetition has.
LEMMA CountIs ==
  ASSUME NEW S, NEW n \in Nat, NEW f,
         \A k \in 1 .. n : f[k] \in S,
         \A x \in S : \E k \in 1 .. n : f[k] = x,
         \A k, l \in 1 .. n : f[k] = f[l] => k = l
  PROVE  n = Cardinality(S)
<1> DEFINE g == [k \in 1 .. n |-> f[k]]
<1>1. g \in [1 .. n -> S] /\ \A k \in 1 .. n : g[k] = f[k]
  OBVIOUS
<1> HIDE DEF g
<1>2. g \in Bijection(1 .. n, S)
  <2>1. g \in Injection(1 .. n, S)
    BY <1>1 DEF Injection, IsInjective
  <2>2. g \in Surjection(1 .. n, S)
    BY <1>1 DEF Surjection
  <2> QED BY <2>1, <2>2 DEF Bijection
<1>3. ExistsBijection(1 .. n, S)
  BY <1>2 DEF ExistsBijection
<1> QED BY <1>3, FS_CountingElements

Leaves(u) == {c \in Visible(u) : EndsIn(c, {Elementary})}
Retaineds(u) == {c \in Leaves(u) : FlagsOf(u, c).retain}

\* The entries of the table are those of the leaves, one for each path.
LEMMA EntriesExact ==
  ASSUME NEW u, NEW arrs, Shape(u, arrs), Content(u, Visible(u), arrs)
  PROVE  /\ Range(FlattenSeq(arrs)) = {Entry(u, c) : c \in Leaves(u)}
         /\ Len(FlattenSeq(arrs)) = Cardinality({Path(c) : c \in Leaves(u)})
<1> DEFINE E == EntryT(u)
           flat == FlattenSeq(arrs)
           S == {Path(c) : c \in Leaves(u)}
<1>1. arrs \in Seq(Seq(E))
  BY DEF Shape
<1>2. flat \in Seq(E) /\ \E r, e : Runs(arrs, Len(arrs), flat, r, e)
  BY <1>1, FlattenRuns
<1>3. PICK r, e : Runs(arrs, Len(arrs), flat, r, e)
  BY <1>2
<1>4. Len(flat) \in Nat
  BY <1>2
<1> HIDE DEF flat, E
<1>5. /\ \A k \in 1 .. Len(flat) : Place(arrs, r[k], e[k]) /\ flat[k] = arrs[r[k]][e[k]]
      /\ \A i, j : Place(arrs, i, j) => \E k \in 1 .. Len(flat) : r[k] = i /\ e[k] = j
      /\ \A k, l \in 1 .. Len(flat) : r[k] = r[l] /\ e[k] = e[l] => k = l
  BY <1>3 DEF Runs, Place
<1>6. /\ FromPast(u, Visible(u), arrs) /\ AllThere(u, Visible(u), arrs) /\ OneEntry(arrs)
  BY DEF Content
<1>7. ASSUME NEW k \in 1 .. Len(flat)
      PROVE  \E c \in Leaves(u) : flat[k] = Entry(u, c)
  <2>1. Place(arrs, r[k], e[k]) /\ flat[k] = arrs[r[k]][e[k]]
    BY <1>5
  <2>2. PICK c \in Visible(u) : EndsIn(c, {Elementary}) /\ arrs[r[k]][e[k]] = Entry(u, c)
    BY <1>6, <2>1 DEF FromPast
  <2> QED BY <2>1, <2>2 DEF Leaves
<1>8. ASSUME NEW c \in Leaves(u)
      PROVE  \E k \in 1 .. Len(flat) : flat[k] = Entry(u, c)
  <2>1. c \in Visible(u) /\ EndsIn(c, {Elementary})
    BY DEF Leaves
  <2>2. PICK i, j : Place(arrs, i, j) /\ arrs[i][j] = Entry(u, c)
    BY <1>6, <2>1 DEF AllThere
  <2>3. PICK k \in 1 .. Len(flat) : r[k] = i /\ e[k] = j
    BY <1>5, <2>2
  <2> QED BY <1>5, <2>2, <2>3
<1>9. Range(flat) = {Entry(u, c) : c \in Leaves(u)}
  <2>1. \A x : x \in Range(flat) <=> \E k \in 1 .. Len(flat) : x = flat[k]
    BY <1>2, RangeOf
  <2>2. \A x : x \in Range(flat) <=> x \in {Entry(u, c) : c \in Leaves(u)}
    BY <1>7, <1>8, <2>1
  <2> QED BY <2>2
<1> DEFINE f == [k \in 1 .. Len(flat) |-> flat[k].path]
<1>10. \A k \in 1 .. Len(flat) : f[k] = flat[k].path
  OBVIOUS
<1> HIDE DEF f
<1>11. \A c : Entry(u, c).path = Path(c)
  BY DEF Entry
<1>12. \A k \in 1 .. Len(flat) : f[k] \in S
  BY <1>7, <1>10, <1>11
<1>13. \A x \in S : \E k \in 1 .. Len(flat) : f[k] = x
  <2>1. TAKE x \in S
  <2>2. PICK c \in Leaves(u) : x = Path(c)
    OBVIOUS
  <2>3. PICK k \in 1 .. Len(flat) : flat[k] = Entry(u, c)
    BY <1>8
  <2> QED BY <1>10, <1>11, <2>2, <2>3
<1>14. \A k, l \in 1 .. Len(flat) : f[k] = f[l] => k = l
  <2>1. TAKE k, l \in 1 .. Len(flat)
  <2>2. HAVE f[k] = f[l]
  <2>3. arrs[r[k]][e[k]].path = arrs[r[l]][e[l]].path
    BY <1>5, <1>10, <2>2
  <2>4. r[k] = r[l] /\ e[k] = e[l]
    BY <1>5, <1>6, <2>3 DEF OneEntry
  <2> QED BY <1>5, <2>4
<1> DEFINE n == Len(flat)
<1>15. /\ n \in Nat
       /\ \A k \in 1 .. n : f[k] \in S
       /\ \A x \in S : \E k \in 1 .. n : f[k] = x
       /\ \A k, l \in 1 .. n : f[k] = f[l] => k = l
  BY <1>4, <1>12, <1>13, <1>14
<1> HIDE DEF S, n, f
<1>17. n = Cardinality(S)
  BY <1>15, CountIs
<1> QED BY <1>9, <1>17 DEF flat, S, n

\* The list has the retained leaves, each once.
LEMMA RetainedExact ==
  ASSUME NEW u, Flat(u), NamesFree(u), NEW arrs, Content(u, Visible(u), arrs),
         NEW vars, Listed(arrs, vars)
  PROVE  /\ {v.path : v \in Range(vars)} = {Path(c) : c \in Retaineds(u)}
         /\ Len(vars) = Cardinality(Retaineds(u))
         /\ \A v \in Range(vars) : arrs[v.arrayIdx][v.elemIdx].path = v.path
<1>1. /\ vars \in Seq(RetainedT) /\ Len(vars) \in Nat
      /\ \A k \in 1 .. Len(vars) :
           /\ Place(arrs, vars[k].arrayIdx, vars[k].elemIdx)
           /\ arrs[vars[k].arrayIdx][vars[k].elemIdx].path = vars[k].path
           /\ arrs[vars[k].arrayIdx][vars[k].elemIdx].flags.retain
      /\ AllListed(arrs, vars) /\ ListedOnce(vars)
  BY DEF Listed, Addressed
<1>2. FromPast(u, Visible(u), arrs) /\ AllThere(u, Visible(u), arrs)
  BY DEF Content
<1>3. \A c : Entry(u, c).path = Path(c) /\ Entry(u, c).flags = FlagsOf(u, c)
  BY DEF Entry
<1>4. \A v : v \in Range(vars) <=> \E k \in 1 .. Len(vars) : v = vars[k]
  BY <1>1, RangeOf
<1>5. ASSUME NEW k \in 1 .. Len(vars)
      PROVE  \E c \in Retaineds(u) : Path(c) = vars[k].path
  <2> DEFINE a == vars[k].arrayIdx
             e == vars[k].elemIdx
  <2>1. Place(arrs, a, e) /\ arrs[a][e].path = vars[k].path /\ arrs[a][e].flags.retain
    BY <1>1
  <2> HIDE DEF a, e
  <2>2. PICK c \in Visible(u) : EndsIn(c, {Elementary}) /\ arrs[a][e] = Entry(u, c)
    BY <1>2, <2>1 DEF FromPast
  <2>3. Path(c) = vars[k].path /\ FlagsOf(u, c).retain
    BY <1>3, <2>1, <2>2
  <2> QED BY <2>2, <2>3 DEF Retaineds, Leaves
<1>6. ASSUME NEW c \in Retaineds(u)
      PROVE  \E k \in 1 .. Len(vars) : vars[k].path = Path(c)
  <2>1. c \in Visible(u) /\ EndsIn(c, {Elementary}) /\ FlagsOf(u, c).retain
    BY DEF Retaineds, Leaves
  <2>2. PICK a, e : Place(arrs, a, e) /\ arrs[a][e] = Entry(u, c)
    BY <1>2, <2>1 DEF AllThere
  <2>3. arrs[a][e].flags.retain /\ arrs[a][e].path = Path(c)
    BY <1>3, <2>1, <2>2
  <2>4. \E k \in 1 .. Len(vars) : vars[k].path = arrs[a][e].path
    BY <1>1, <2>2, <2>3 DEF AllListed
  <2> QED BY <2>3, <2>4
<1>7. {v.path : v \in Range(vars)} = {Path(c) : c \in Retaineds(u)}
  <2>1. ASSUME NEW v \in Range(vars) PROVE v.path \in {Path(c) : c \in Retaineds(u)}
    BY <1>4, <1>5
  <2>2. ASSUME NEW c \in Retaineds(u) PROVE Path(c) \in {v.path : v \in Range(vars)}
    <3>1. PICK k \in 1 .. Len(vars) : vars[k].path = Path(c)
      BY <1>6
    <3>2. vars[k] \in Range(vars)
      BY <1>4
    <3> QED BY <3>1, <3>2
  <2> QED BY <2>1, <2>2
<1> DEFINE f == [k \in 1 .. Len(vars) |-> CHOOSE c \in Retaineds(u) : Path(c) = vars[k].path]
<1>8. \A k \in 1 .. Len(vars) : f[k] \in Retaineds(u) /\ Path(f[k]) = vars[k].path
  BY <1>5
<1> HIDE DEF f
<1>9. \A x, y \in Retaineds(u) : Path(x) = Path(y) => x = y
  <2>1. TAKE x, y \in Retaineds(u)
  <2>2. IsChain(u, x) /\ IsChain(u, y)
    BY VisibleIs DEF Retaineds, Leaves
  <2> QED BY <2>2, PathsDiffer
<1>10. \A x \in Retaineds(u) : \E k \in 1 .. Len(vars) : f[k] = x
  <2>1. TAKE x \in Retaineds(u)
  <2>2. PICK k \in 1 .. Len(vars) : vars[k].path = Path(x)
    BY <1>6
  <2>3. f[k] = x
    BY <1>8, <1>9, <2>2
  <2> QED BY <2>3
<1>11. \A k, l \in 1 .. Len(vars) : f[k] = f[l] => k = l
  <2>1. TAKE k, l \in 1 .. Len(vars)
  <2>2. HAVE f[k] = f[l]
  <2>3. vars[k].path = vars[l].path
    BY <1>8, <2>2
  <2> QED BY <1>1, <2>3 DEF ListedOnce
<1>12. Len(vars) = Cardinality(Retaineds(u))
  <2> DEFINE n == Len(vars)
  <2>1. n \in Nat /\ \A k \in 1 .. n : f[k] \in Retaineds(u)
    BY <1>1, <1>8
  <2>2. /\ \A x \in Retaineds(u) : \E k \in 1 .. n : f[k] = x
        /\ \A k, l \in 1 .. n : f[k] = f[l] => k = l
    BY <1>10, <1>11
  <2> HIDE DEF n
  <2>3. n = Cardinality(Retaineds(u))
    BY <2>1, <2>2, CountIs
  <2> QED BY <2>3 DEF n
<1>13. \A v \in Range(vars) : arrs[v.arrayIdx][v.elemIdx].path = v.path
  BY <1>1, <1>4
<1> QED BY <1>7, <1>12, <1>13

\* Arrays are within their limit, of one part, and empty only if there is no leaf.
LEMMA ArraysExact ==
  ASSUME NEW u, NEW arrs, Shape(u, arrs), Content(u, Visible(u), arrs),
         Last(arrs) # <<>> \/ Len(arrs) = 1, NEW a \in DOMAIN arrs
  PROVE  /\ Len(arrs[a]) <= MaxEntries
         /\ arrs[a] = <<>> => Leaves(u) = {}
         /\ \A e, f \in Range(arrs[a]) : PartOf(u, e.path) = PartOf(u, f.path)
<1>1. arrs \in Seq(Seq(EntryT(u))) /\ arrs # <<>>
  BY DEF Shape
<1>2. a \in 1 .. Len(arrs) /\ Len(arrs) \in Nat /\ arrs[a] \in Seq(EntryT(u))
      /\ Last(arrs) = arrs[Len(arrs)]
  BY <1>1, LastIs
<1>3. Len(arrs[a]) <= MaxEntries /\ (arrs[a] = <<>> => a = Len(arrs))
  BY <1>2 DEF Shape
<1>4. ASSUME arrs[a] = <<>>, NEW c \in Leaves(u) PROVE FALSE
  <2>1. Len(arrs) = 1 /\ a = 1
    BY <1>2, <1>3, <1>4
  <2>2. PICK i, j : Place(arrs, i, j)
    <3>1. c \in Visible(u) /\ EndsIn(c, {Elementary}) /\ AllThere(u, Visible(u), arrs)
      BY DEF Leaves, Content
    <3> QED BY <3>1 DEF AllThere
  <2>3. i \in 1 .. 1 /\ j \in 1 .. Len(arrs[i])
    BY <2>1, <2>2 DEF Place
  <2>4. i = 1
    BY <2>3
  <2>5. Len(<<>>) = 0 /\ 1 .. 0 = {}
    OBVIOUS
  <2> QED BY <1>4, <2>1, <2>3, <2>4, <2>5
<1>5. ASSUME NEW e \in Range(arrs[a]), NEW f \in Range(arrs[a])
      PROVE  PartOf(u, e.path) = PartOf(u, f.path)
  <2>1. PICK i \in 1 .. Len(arrs[a]) : e = arrs[a][i]
    BY <1>2, RangeOf
  <2>2. PICK j \in 1 .. Len(arrs[a]) : f = arrs[a][j]
    BY <1>2, RangeOf
  <2>3. Place(arrs, a, i) /\ Place(arrs, a, j) /\ OnePart(u, arrs)
    BY <1>2 DEF Place, Content
  <2> QED BY <2>1, <2>2, <2>3 DEF OnePart
<1> QED BY <1>3, <1>4, <1>5

LEMMA TableInvExact ==
  ASSUME NoParents, NamesApart, TableInv
  PROVE  TableIsExact
<1>1. SUFFICES ASSUME done PROVE TableIsExact
  BY DEF TableIsExact
<1>2. unit \in Sources /\ Flat(unit) /\ NamesFree(unit)
  BY SourcesFree DEF TableInv
<1>3. todo = <<>> /\ (Last(arrays) # <<>> \/ Len(arrays) = 1)
  BY <1>1 DEF TableInv
<1>4. PICK cs : WalkInv(unit, cs, todo, arrays, retainVars, skipped, incomplete)
  BY DEF TableInv
<1>5. Walks(unit, cs) /\ todo = ItemsFor(unit, cs)
      /\ Table(unit, Behind(unit, cs), arrays, retainVars, skipped, incomplete)
  BY <1>4 DEF WalkInv
<1>6. cs = <<>>
  BY <1>3, <1>5, ItemsTail DEF Walks
<1>7. Behind(unit, cs) = Visible(unit)
  <2>1. 1 .. Len(cs) = {}
    <3>1. Len(cs) = 0
      BY <1>6
    <3> QED BY <3>1
  <2> QED BY <2>1 DEF Behind
<1>8. /\ Shape(unit, arrays) /\ Content(unit, Visible(unit), arrays)
      /\ Listed(arrays, retainVars)
      /\ Reports(unit, Visible(unit), skipped, incomplete)
  BY <1>5, <1>7 DEF Table
<1> DEFINE shown == {c \in Chains(unit) : Shown(unit, c)}
           leaves == {c \in shown : EndsIn(c, {Elementary})}
           retained == {c \in leaves : FlagsOf(unit, c).retain}
           entries == FlattenSeq(arrays)
<1>9. shown = Visible(unit)
  BY <1>2, VisibleShown
<1>10. leaves = Leaves(unit) /\ retained = Retaineds(unit)
  BY <1>9 DEF Leaves, Retaineds
<1> HIDE DEF shown, leaves, retained, entries
<1>11. /\ Range(entries) = {[path |-> Path(c), flags |-> FlagsOf(unit, c)] : c \in leaves}
       /\ Len(entries) = Cardinality({Path(c) : c \in leaves})
  BY <1>8, <1>10, EntriesExact DEF Entry, entries
<1>12. /\ {v.path : v \in Range(retainVars)} = {Path(c) : c \in retained}
       /\ Len(retainVars) = Cardinality(retained)
       /\ \A v \in Range(retainVars) : arrays[v.arrayIdx][v.elemIdx].path = v.path
  BY <1>2, <1>8, <1>10, RetainedExact
<1>13. \A a \in DOMAIN arrays :
         /\ Len(arrays[a]) <= MaxEntries
         /\ arrays[a] = <<>> => leaves = {}
         /\ \A e, f \in Range(arrays[a]) : PartOf(unit, e.path) = PartOf(unit, f.path)
  BY <1>3, <1>8, <1>10, ArraysExact
<1>14. /\ skipped = {Path(c) : c \in {c \in shown : EndsIn(c, {Opaque})}}
       /\ incomplete = {Path(c) : c \in {c \in shown : Partial(unit, c)}}
  BY <1>8, <1>9 DEF Reports
<1> QED BY <1>11, <1>12, <1>13, <1>14 DEF TableIsExact, entries, retained, leaves, shown

\* However many blocks, variables and instances a project declares, and however
\* deep the blocks nest: when the walk of generateDebugTable is over, the table
\* has every leaf that is declared and shown once, with the flags of its
\* declaration; the retained ones are listed once, at the address of their entry;
\* no array is overfull, empty beside others or shared by two instances; and what
\* is left out of a retained instance is reported.  Of the project it takes that
\* no block extends another and that no instance has the name of a global.
THEOREM TableAlwaysExact ==
  ASSUME NoParents, NamesApart
  PROVE  TableSpec => []TableIsExact
<1>1. TableInit => TableInv
  BY TableInitInv
<1>2. TableInv /\ [TableNext]_tableVars => TableInv'
  <2>1. SUFFICES ASSUME TableInv, [TableNext]_tableVars PROVE TableInv'
    OBVIOUS
  <2>2. CASE AddLeaf
    BY <2>1, <2>2, AddLeafKeeps
  <2>3. CASE Skip
    BY <2>1, <2>3, SkipKeeps
  <2>4. CASE EnterInstance
    BY <2>1, <2>4, EnterInstanceKeeps
  <2>5. CASE FinishTable
    BY <2>1, <2>5, FinishTableKeeps
  <2>6. ASSUME NEW b \in BlockTypes, VisitLibraryBlock(b) PROVE TableInv'
    BY <2>1, <2>6, VisitLibraryBlockKeeps
  <2>7. ASSUME NEW b \in BlockTypes, VisitBlock(b) PROVE TableInv'
    BY <2>1, <2>7, VisitBlockKeeps
  <2>8. CASE UNCHANGED tableVars
    BY <2>1, <2>8 DEF tableVars, TableInv
  <2> QED BY <2>1, <2>2, <2>3, <2>4, <2>5, <2>6, <2>7, <2>8 DEF TableNext
<1>3. TableInv => TableIsExact
  BY TableInvExact
<1> QED BY <1>1, <1>2, <1>3, PTL DEF TableSpec
=============================================================================
