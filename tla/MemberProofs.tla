---------------------------- MODULE MemberProofs ----------------------------
(***************************************************************************)
(* What a member is to the service: the invariants of the trait vector, of *)
(* scores and questionnaires, of the profile and the preferences, of       *)
(* accounts and their links, and of access tokens; and, before them, what  *)
(* can be said of a fold without an induction theorem.                     *)
(***************************************************************************)
EXTENDS Traits, Compatibility, Questionnaire, Profile, Preferences, Accounts, Access,
        TLAPS, FiniteSetTheorems, SequenceTheorems, WellFoundedInduction

-----------------------------------------------------------------------------
\* Folds over finite sets and sequences.

\* A set of numbers that is not empty has a least one.
LEMMA LeastNumber ==
  ASSUME NEW S, S \subseteq Nat, S # {}
  PROVE  \E i \in S : \A j \in S : i <= j
<1>1. PICK i \in S : \A j \in S : <<j, i>> \notin OpToRel(<, Nat)
  BY WFMin, NatLessThanWellFounded
<1>2. ASSUME NEW j \in S
      PROVE  i <= j
  <2>1. i \in Nat /\ j \in Nat /\ <<j, i>> \in Nat \X Nat
    OBVIOUS
  <2>2. ~ (j < i)
    BY <1>1, <2>1, Zenon DEF OpToRel
  <2> QED BY <2>1, <2>2
<1> QED BY <1>2

\* What holds of 0 and passes from a number to the next holds up to n.
LEMMA UpTo ==
  ASSUME NEW n \in Nat, NEW S, 0 \in S, \A k \in 0 .. n - 1 : k \in S => k + 1 \in S
  PROVE  0 .. n \subseteq S
<1> DEFINE missing == {k \in 0 .. n : k \notin S}
<1> SUFFICES ASSUME missing # {} PROVE FALSE
  OBVIOUS
<1>1. PICK i \in missing : \A j \in missing : i <= j
  <2>1. missing \subseteq Nat
    OBVIOUS
  <2> HIDE DEF missing
  <2> QED BY <2>1, LeastNumber
<1>2. i # 0 /\ i - 1 \in 0 .. n - 1 /\ i - 1 \notin missing
  BY <1>1
<1>3. i - 1 \in S
  BY <1>2
<1>4. i - 1 + 1 = i /\ i \in S
  BY <1>2, <1>3
<1> QED BY <1>1, <1>4

\* A fold over a finite set: pick[t] is taken from t, and step[x] adds x to what
\* the others came to.
IsFold(S, D, base, pick, step) ==
  /\ IsFiniteSet(S) /\ base \in D
  /\ \A t \in SUBSET S : t # {} => pick[t] \in t
  /\ \A x \in S, d \in D : step[x][d] \in D

Folded(g, S, D, base, pick, step) ==
  /\ g \in [SUBSET S -> D]
  /\ \A t \in SUBSET S : g[t] = IF t = {} THEN base ELSE step[pick[t]][g[t \ {pick[t]}]]

\* The recursion over the subsets of a finite set, which takes one element off
\* at a time, defines a function.
LEMMA FoldsExist ==
  ASSUME NEW S, NEW D, NEW base, NEW pick, NEW step, IsFold(S, D, base, pick, step)
  PROVE  \E g : Folded(g, S, D, base, pick, step)
<1> DEFINE n == Cardinality(S)
           Upto(k) == {t \in SUBSET S : Cardinality(t) <= k}
           Rec(g, t) == IF t = {} THEN base ELSE step[pick[t]][g[t \ {pick[t]}]]
           Fits(k, g) == g \in [Upto(k) -> D] /\ \A t \in Upto(k) : g[t] = Rec(g, t)
           good == {k \in 0 .. n : \E g : Fits(k, g)}
<1> USE DEF IsFold
<1>0. n \in Nat /\ \A t \in SUBSET S : IsFiniteSet(t) /\ Cardinality(t) \in 0 .. n
  <2>1. n \in Nat
    BY FS_CardinalityType
  <2>2. ASSUME NEW t \in SUBSET S PROVE IsFiniteSet(t) /\ Cardinality(t) \in 0 .. n
    <3>1. IsFiniteSet(t) /\ Cardinality(t) <= n
      BY FS_Subset
    <3>2. Cardinality(t) \in Nat
      BY <3>1, FS_CardinalityType
    <3> QED BY <2>1, <3>1, <3>2
  <2> QED BY <2>1, <2>2
<1>1. ASSUME NEW k \in Nat, NEW t \in Upto(k + 1), t # {}
      PROVE  t \ {pick[t]} \in Upto(k) /\ pick[t] \in S
  <2>1. t \in SUBSET S /\ pick[t] \in t /\ pick[t] \in S /\ Cardinality(t) <= k + 1
    BY <1>1
  <2>2. Cardinality(t \ {pick[t]}) = Cardinality(t) - 1
    BY <1>0, <2>1, FS_RemoveElement
  <2>3. Cardinality(t) \in Nat
    BY <1>0, <2>1
  <2> QED BY <2>1, <2>2, <2>3
<1>2. 0 \in good
  <2> DEFINE g == [t \in Upto(0) |-> base]
  <2>1. ASSUME NEW t \in Upto(0) PROVE t = {}
    <3>1. Cardinality(t) = 0 /\ IsFiniteSet(t)
      BY <1>0
    <3> QED BY <3>1, FS_EmptySet
  <2>2. Fits(0, g)
    BY <2>1
  <2>3. 0 \in 0 .. n
    BY <1>0
  <2> HIDE DEF Fits, g, n
  <2> QED BY <2>2, <2>3
<1>3. ASSUME NEW k \in 0 .. n - 1, k \in good
      PROVE  k + 1 \in good
  <2>1. PICK g : Fits(k, g)
    BY <1>3
  <2> DEFINE h == [t \in Upto(k + 1) |-> Rec(g, t)]
  <2>2. k \in Nat /\ k + 1 \in 0 .. n /\ Upto(k) \subseteq Upto(k + 1)
    <3>1. k \in Nat /\ k + 1 \in 0 .. n
      BY <1>0, <1>3
    <3>2. \A t \in SUBSET S : Cardinality(t) \in Nat
      BY <1>0
    <3> QED BY <3>1, <3>2
  <2>3. \A t \in Upto(k + 1) : t # {} => t \ {pick[t]} \in Upto(k) /\ pick[t] \in S
    BY <1>1, <2>2
  <2>4. h \in [Upto(k + 1) -> D]
    <3> SUFFICES ASSUME NEW t \in Upto(k + 1), t # {} PROVE step[pick[t]][g[t \ {pick[t]}]] \in D
      OBVIOUS
    <3>1. t \ {pick[t]} \in Upto(k) /\ pick[t] \in S
      BY <2>3
    <3>2. g[t \ {pick[t]}] \in D
      BY <2>1, <3>1
    <3> QED BY <3>1, <3>2
  <2>5. \A t \in Upto(k) : h[t] = g[t]
    BY <2>1, <2>2
  <2>6. ASSUME NEW t \in Upto(k + 1) PROVE h[t] = Rec(h, t)
    <3>1. t # {} => h[t \ {pick[t]}] = g[t \ {pick[t]}]
      <4> HIDE DEF h, Upto
      <4> QED BY <2>3, <2>5
    <3>2. h[t] = Rec(g, t)
      BY <2>6
    <3> HIDE DEF h
    <3> QED BY <3>1, <3>2
  <2>7. Fits(k + 1, h)
    <3> HIDE DEF h, Upto, Rec
    <3> QED BY <2>4, <2>6
  <2> HIDE DEF Fits
  <2> QED BY <2>2, <2>7
<1>4. n \in good
  <2>1. \A k \in 0 .. n - 1 : k \in good => k + 1 \in good
    BY <1>3
  <2> HIDE DEF good, n
  <2>2. 0 .. n \subseteq good
    BY <1>0, <1>2, <2>1, UpTo
  <2> QED BY <1>0, <2>2
<1>5. PICK g : Fits(n, g)
  BY <1>4
<1>6. Upto(n) = SUBSET S
  BY <1>0
<1>7. g \in [SUBSET S -> D] /\ \A t \in SUBSET S : g[t] = Rec(g, t)
  <2> HIDE DEF Upto, Rec
  <2> QED BY <1>5, <1>6
<1> QED BY <1>7 DEF Folded

\* The last of the first k numbers.
LEMMA LastOfRange ==
  ASSUME NEW n \in Nat
  PROVE  /\ \A t \in SUBSET (1 .. n) : t # {} => Max(t) \in t
         /\ \A k \in 1 .. n : /\ Max(1 .. k) = k /\ (1 .. k) \ {k} = 1 .. k - 1
                             /\ 1 .. k # {} /\ 1 .. k \in SUBSET (1 .. n)
<1>1. ASSUME NEW t \in SUBSET (1 .. n), t # {}
      PROVE  \E x \in t : \A y \in t : x >= y
  <2> DEFINE over == {x \in 0 .. n : \A y \in t : y <= x}
  <2>1. over \subseteq Nat /\ over # {}
    <3>1. n \in over
      OBVIOUS
    <3> QED BY <3>1
  <2>2. PICK x \in over : \A y \in over : x <= y
    <3> HIDE DEF over
    <3> QED BY <2>1, LeastNumber
  <2>3. x \in t
    <3> SUFFICES ASSUME x \notin t PROVE FALSE
      OBVIOUS
    <3>1. \A y \in t : y \in Nat /\ y <= x /\ y # x
      BY <2>2
    <3>2. x # 0
      <4>1. PICK y \in t : TRUE
        BY <1>1
      <4> QED BY <3>1, <4>1
    <3>3. x - 1 \in over
      BY <2>2, <3>1, <3>2
    <3> QED BY <2>2, <3>3
  <2> QED BY <2>2, <2>3
<1>2. ASSUME NEW t \in SUBSET (1 .. n), t # {}
      PROVE  Max(t) \in t /\ \A y \in t : Max(t) >= y
  BY <1>1, <1>2 DEF Max
<1>3. ASSUME NEW k \in 1 .. n
      PROVE  Max(1 .. k) = k
  <2>1. k \in 1 .. k /\ 1 .. k \in SUBSET (1 .. n)
    OBVIOUS
  <2>2. Max(1 .. k) \in 1 .. k /\ Max(1 .. k) >= k
    BY <1>2, <2>1
  <2> QED BY <2>2
<1> QED BY <1>2, <1>3

\* A fold over a sequence of length n is such a recursion.
IsSeqFold(n, D, base, step) ==
  n \in Nat /\ base \in D /\ \A k \in 1 .. n, d \in D : step[k][d] \in D

SeqFolded(g, n, D, base, step) ==
  /\ g \in [SUBSET (1 .. n) -> D]
  /\ \A t \in SUBSET (1 .. n) :
       g[t] = IF t = {} THEN base ELSE step[Max(t)][g[t \ {Max(t)}]]

LEMMA SeqFoldExists ==
  ASSUME NEW n, NEW D, NEW base, NEW step, IsSeqFold(n, D, base, step)
  PROVE  \E g : SeqFolded(g, n, D, base, step)
<1> DEFINE pick == [t \in SUBSET (1 .. n) |-> Max(t)]
<1>1. \A t \in SUBSET (1 .. n) : t # {} => pick[t] = Max(t) /\ pick[t] \in t
  BY LastOfRange DEF IsSeqFold
<1>2. IsFiniteSet(1 .. n)
  BY FS_Interval DEF IsSeqFold
<1> HIDE DEF pick
<1>3. IsFold(1 .. n, D, base, pick, step)
  BY <1>1, <1>2 DEF IsFold, IsSeqFold
<1>4. PICK g : Folded(g, 1 .. n, D, base, pick, step)
  BY <1>3, FoldsExist
<1>5. ASSUME NEW t \in SUBSET (1 .. n)
      PROVE  g[t] = IF t = {} THEN base ELSE step[Max(t)][g[t \ {Max(t)}]]
  <2>1. t # {} => pick[t] = Max(t)
    BY <1>1
  <2> QED BY <1>4, <2>1 DEF Folded
<1> QED BY <1>4, <1>5 DEF Folded, SeqFolded

-----------------------------------------------------------------------------
\* Sums over finite sets.
First(t) == CHOOSE x \in t : TRUE
SumOf(f, S) == MapThenSumSet(LAMBDA k : f[k], S)

\* What passes from the parts without their first element to the parts holds of
\* them all.
LEMMA PartByPart ==
  ASSUME NEW S, IsFiniteSet(S), NEW P, {} \in P,
         \A t \in SUBSET S : t # {} /\ t \ {First(t)} \in P => t \in P
  PROVE  SUBSET S \subseteq P
<1> DEFINE missing == {t \in SUBSET S : t \notin P}
           sizes == {Cardinality(t) : t \in missing}
<1> SUFFICES ASSUME missing # {} PROVE FALSE
  OBVIOUS
<1>1. ASSUME NEW t \in SUBSET S PROVE IsFiniteSet(t) /\ Cardinality(t) \in Nat
  BY FS_Subset, FS_CardinalityType
<1>2. sizes \subseteq Nat /\ sizes # {}
  BY <1>1
<1>3. PICK i \in sizes : \A j \in sizes : i <= j
  <2> HIDE DEF sizes
  <2> QED BY <1>2, LeastNumber
<1>4. PICK t \in missing : Cardinality(t) = i
  BY <1>3
<1>5. t # {} /\ First(t) \in t
  BY <1>4 DEF First
<1>6. t \ {First(t)} \in missing
  BY <1>4, <1>5
<1>7. Cardinality(t \ {First(t)}) = i - 1
  BY <1>1, <1>4, <1>5, FS_RemoveElement
<1>8. i <= i - 1
  BY <1>3, <1>6, <1>7
<1> QED BY <1>2, <1>3, <1>8

IsSummed(f, S) == IsFiniteSet(S) /\ f \in [S -> Int]

\* g[t] is the sum over the part t of S.
Summed(g, f, S) ==
  /\ g \in [SUBSET S -> Int]
  /\ g[S] = SumOf(f, S)
  /\ \A t \in SUBSET S : g[t] = IF t = {} THEN 0 ELSE f[First(t)] + g[t \ {First(t)}]

LEMMA SumsExist ==
  ASSUME NEW S, NEW f, IsSummed(f, S)
  PROVE  \E g : Summed(g, f, S)
<1> DEFINE pick == [t \in SUBSET S |-> First(t)]
           step == [x \in S |-> [d \in Int |-> f[x] + d]]
           IsIt(it) == it = [s \in SUBSET S |->
                               IF s = {} THEN 0 ELSE f[First(s)] + it[s \ {First(s)}]]
           iter == CHOOSE it : IsIt(it)
<1>1. \A t \in SUBSET S : t # {} => First(t) \in t /\ pick[t] = First(t)
  BY DEF First
<1>2. \A x \in S : f[x] \in Int
  BY DEF IsSummed
<1>3. IsFold(S, Int, 0, pick, step)
  <2>1. \A x \in S, d \in Int : step[x][d] \in Int
    BY <1>2
  <2> HIDE DEF pick, step
  <2> QED BY <1>1, <2>1 DEF IsFold, IsSummed
<1>4. PICK g : Folded(g, S, Int, 0, pick, step)
  <2> HIDE DEF pick, step
  <2> QED BY <1>3, FoldsExist
<1>5. ASSUME NEW t \in SUBSET S, t # {}
      PROVE  g[t] = f[First(t)] + g[t \ {First(t)}] /\ g[t \ {First(t)}] \in Int
  <2>1. First(t) \in S /\ t \ {First(t)} \in SUBSET S
    BY <1>1, <1>5
  <2>2. g[t] = step[First(t)][g[t \ {First(t)}]] /\ g[t \ {First(t)}] \in Int
    <3> HIDE DEF pick, step
    <3> QED BY <1>1, <1>4, <1>5, <2>1 DEF Folded
  <2> QED BY <2>1, <2>2
<1>6. IsIt(g)
  <2> HIDE DEF pick, step
  <2> QED BY <1>4, <1>5 DEF Folded
<1>7. IsIt(iter)
  <2> HIDE DEF IsIt
  <2> QED BY <1>6
<1>8. iter[S] = SumOf(f, S)
  BY DEF SumOf, MapThenSumSet, MapThenFoldSet, First
<1> HIDE DEF iter
<1>9. SUBSET S \subseteq {t \in SUBSET S : iter[t] \in Int}
  <2> DEFINE P == {t \in SUBSET S : iter[t] \in Int}
  <2>1. {} \in P
    BY <1>7
  <2>2. \A t \in SUBSET S : t # {} /\ t \ {First(t)} \in P => t \in P
    <3> SUFFICES ASSUME NEW t \in SUBSET S, t # {}, t \ {First(t)} \in P
                 PROVE  t \in P
      OBVIOUS
    <3>1. iter[t] = f[First(t)] + iter[t \ {First(t)}]
      BY <1>7
    <3>2. f[First(t)] \in Int /\ iter[t \ {First(t)}] \in Int
      BY <1>1, <1>2
    <3>3. iter[t] \in Int
      BY <3>1, <3>2
    <3> QED BY <3>3
  <2> HIDE DEF P
  <2>3. SUBSET S \subseteq P
    BY <2>1, <2>2, PartByPart DEF IsSummed
  <2> QED BY <2>3 DEF P
<1>10. Summed(iter, f, S)
  <2>1. iter \in [SUBSET S -> Int]
    BY <1>7, <1>9
  <2>2. ASSUME NEW t \in SUBSET S
        PROVE  iter[t] = IF t = {} THEN 0 ELSE f[First(t)] + iter[t \ {First(t)}]
    BY <1>7
  <2> QED BY <1>8, <2>1, <2>2 DEF Summed
<1> QED BY <1>10

\* A sum of natural numbers is one, and 0 only if they all are.
LEMMA SumOfNaturals ==
  ASSUME NEW S, NEW f, IsSummed(f, S), \A x \in S : f[x] >= 0
  PROVE  /\ SumOf(f, S) \in Nat
         /\ SumOf(f, S) = 0 <=> \A x \in S : f[x] = 0
<1>1. PICK g : Summed(g, f, S)
  BY SumsExist
<1>2. /\ \A x \in S : f[x] \in Nat
      /\ \A t \in SUBSET S : g[t] \in Int
      /\ g[S] = SumOf(f, S)
  BY <1>1 DEF IsSummed, Summed
<1> DEFINE P == {t \in SUBSET S : g[t] >= 0 /\ (g[t] = 0 <=> \A x \in t : f[x] = 0)}
<1>3. {} \in P
  <2>1. g[{}] = 0
    BY <1>1 DEF Summed
  <2> QED BY <2>1
<1>4. ASSUME NEW t \in SUBSET S, t # {}, t \ {First(t)} \in P
      PROVE  t \in P
  <2> DEFINE rest == t \ {First(t)}
  <2>1. /\ First(t) \in t /\ rest \in SUBSET S
        /\ \A x : x \in t <=> x = First(t) \/ x \in rest
    BY <1>4 DEF First
  <2>2. g[t] = f[First(t)] + g[rest]
    BY <1>1, <1>4 DEF Summed
  <2>3. g[rest] >= 0 /\ (g[rest] = 0 <=> \A x \in rest : f[x] = 0)
    BY <1>4
  <2>4. f[First(t)] \in Nat /\ g[rest] \in Int
    BY <1>2, <2>1
  <2> HIDE DEF rest
  <2>5. g[t] >= 0 /\ (g[t] = 0 <=> f[First(t)] = 0 /\ g[rest] = 0)
    BY <2>2, <2>3, <2>4
  <2>6. (\A x \in t : f[x] = 0) <=> f[First(t)] = 0 /\ \A x \in rest : f[x] = 0
    BY <2>1
  <2> QED BY <2>3, <2>5, <2>6
<1> HIDE DEF P
<1>5. SUBSET S \subseteq P
  BY <1>3, <1>4, PartByPart DEF IsSummed
<1>6. g[S] >= 0 /\ (g[S] = 0 <=> \A x \in S : f[x] = 0)
  BY <1>5 DEF P
<1> QED BY <1>2, <1>6

\* Sums are linear.
LEMMA SumsAdd ==
  ASSUME NEW S, NEW f, IsSummed(f, S), NEW g, IsSummed(g, S), NEW h, IsSummed(h, S),
         NEW n \in Int, \A x \in S : f[x] + g[x] = h[x] * n
  PROVE  SumOf(f, S) + SumOf(g, S) = SumOf(h, S) * n
<1>1. PICK a : Summed(a, f, S)
  BY SumsExist
<1>2. PICK b : Summed(b, g, S)
  BY SumsExist
<1>3. PICK c : Summed(c, h, S)
  BY SumsExist
<1>4. /\ \A x \in S : f[x] \in Int /\ g[x] \in Int /\ h[x] \in Int
      /\ \A t \in SUBSET S : a[t] \in Int /\ b[t] \in Int /\ c[t] \in Int
      /\ a[S] = SumOf(f, S) /\ b[S] = SumOf(g, S) /\ c[S] = SumOf(h, S)
  BY <1>1, <1>2, <1>3 DEF IsSummed, Summed
<1> DEFINE P == {t \in SUBSET S : a[t] + b[t] = c[t] * n}
<1>5. {} \in P
  <2>1. a[{}] = 0 /\ b[{}] = 0 /\ c[{}] = 0
    BY <1>1, <1>2, <1>3 DEF Summed
  <2> QED BY <2>1
<1>6. ASSUME NEW t \in SUBSET S, t # {}, t \ {First(t)} \in P
      PROVE  t \in P
  <2> DEFINE rest == t \ {First(t)}
  <2>1. First(t) \in S /\ rest \in SUBSET S
    BY <1>6 DEF First
  <2>2. /\ a[t] = f[First(t)] + a[rest] /\ b[t] = g[First(t)] + b[rest]
        /\ c[t] = h[First(t)] + c[rest]
    BY <1>1, <1>2, <1>3, <1>6 DEF Summed
  <2>3. a[rest] + b[rest] = c[rest] * n /\ f[First(t)] + g[First(t)] = h[First(t)] * n
    BY <1>6, <2>1
  <2>4. /\ f[First(t)] \in Int /\ g[First(t)] \in Int /\ h[First(t)] \in Int
        /\ a[rest] \in Int /\ b[rest] \in Int /\ c[rest] \in Int
    BY <1>4, <2>1
  <2> HIDE DEF rest
  <2>5. \A p, q \in Int : (p + q) * n = p * n + q * n
    OBVIOUS
  <2>6. c[t] * n = h[First(t)] * n + c[rest] * n
    BY <2>2, <2>4, <2>5
  <2>7. a[t] + b[t] = c[t] * n
    <3>1. h[First(t)] * n \in Int /\ c[rest] * n \in Int
      BY <2>4
    <3> QED BY <2>2, <2>3, <2>4, <2>6, <3>1
  <2> QED BY <2>7
<1> HIDE DEF P
<1>7. SUBSET S \subseteq P
  BY <1>5, <1>6, PartByPart DEF IsSummed
<1> QED BY <1>4, <1>7 DEF P

\* The sum over a part of the set, as a sum over the whole.
OnlyIn(f, S, u) == [x \in S |-> IF x \in u THEN f[x] ELSE 0]
PartSum(f, S, u) == SumOf(OnlyIn(f, S, u), S)
OnlyAt(x, v, S) == [y \in S |-> IF y = x THEN v ELSE 0]

LEMMA OnePoint ==
  ASSUME NEW S, IsFiniteSet(S), NEW x \in S, NEW v \in Int
  PROVE  IsSummed(OnlyAt(x, v, S), S) /\ SumOf(OnlyAt(x, v, S), S) = v
<1> DEFINE f == OnlyAt(x, v, S)
<1>1. IsSummed(f, S) /\ \A y \in S : f[y] = IF y = x THEN v ELSE 0
  BY DEF IsSummed, OnlyAt
<1> HIDE DEF f
<1>2. PICK g : Summed(g, f, S)
  BY <1>1, SumsExist
<1> DEFINE P == {t \in SUBSET S : g[t] = IF x \in t THEN v ELSE 0}
<1>3. {} \in P
  <2>1. g[{}] = 0
    BY <1>2 DEF Summed
  <2> QED BY <2>1
<1>4. ASSUME NEW t \in SUBSET S, t # {}, t \ {First(t)} \in P
      PROVE  t \in P
  <2> DEFINE rest == t \ {First(t)}
  <2>1. First(t) \in t /\ rest \in SUBSET S
    BY <1>4 DEF First
  <2>2. g[t] = f[First(t)] + g[rest] /\ f[First(t)] = IF First(t) = x THEN v ELSE 0
    BY <1>1, <1>2, <1>4, <2>1 DEF Summed
  <2>3. g[rest] = IF x \in rest THEN v ELSE 0
    BY <1>4
  <2>4. CASE First(t) = x
    <3>1. x \in t /\ x \notin rest
      BY <2>1, <2>4
    <3>2. g[t] = v
      BY <2>2, <2>3, <2>4, <3>1
    <3> QED BY <3>1, <3>2
  <2>5. CASE First(t) # x
    <3>1. x \in t <=> x \in rest
      BY <2>5
    <3>2. g[t] = g[rest]
      BY <2>2, <2>3, <2>5
    <3> QED BY <2>3, <3>1, <3>2
  <2> QED BY <2>4, <2>5
<1> HIDE DEF P
<1>5. SUBSET S \subseteq P
  BY <1>3, <1>4, PartByPart
<1>6. g[S] = v
  BY <1>5 DEF P
<1> QED BY <1>1, <1>2, <1>6 DEF Summed, f

LEMMA PartIsSummed ==
  ASSUME NEW S, NEW f, IsSummed(f, S), NEW u
  PROVE  IsSummed(OnlyIn(f, S, u), S)
BY DEF IsSummed, OnlyIn

LEMMA PartSumType ==
  ASSUME NEW S, NEW f, IsSummed(f, S), NEW u
  PROVE  PartSum(f, S, u) \in Int
<1>1. IsSummed(OnlyIn(f, S, u), S)
  BY PartIsSummed
<1>2. PICK g : Summed(g, OnlyIn(f, S, u), S)
  BY <1>1, SumsExist
<1> QED BY <1>2 DEF Summed, PartSum

LEMMA NothingSummed ==
  ASSUME NEW S, NEW f, IsSummed(f, S)
  PROVE  PartSum(f, S, {}) = 0
<1> DEFINE g == OnlyIn(f, S, {})
<1>1. IsSummed(g, S)
  BY PartIsSummed
<1>2. \A x \in S : g[x] = 0
  BY DEF OnlyIn
<1> HIDE DEF g
<1>3. SumOf(g, S) = 0
  BY <1>1, <1>2, SumOfNaturals
<1> QED BY <1>3 DEF PartSum, g

LEMMA AddToPart ==
  ASSUME NEW S, NEW f, IsSummed(f, S), NEW u, NEW x \in S, x \notin u
  PROVE  PartSum(f, S, u \cup {x}) = PartSum(f, S, u) + f[x]
<1> DEFINE a == OnlyIn(f, S, u)
           b == OnlyAt(x, f[x], S)
           c == OnlyIn(f, S, u \cup {x})
<1>1. f[x] \in Int
  BY DEF IsSummed
<1>2. IsSummed(a, S) /\ IsSummed(b, S) /\ IsSummed(c, S) /\ SumOf(b, S) = f[x]
  <2>1. IsFiniteSet(S)
    BY DEF IsSummed
  <2> QED BY <1>1, <2>1, PartIsSummed, OnePoint
<1>3. \A y \in S : a[y] + b[y] = c[y] * 1
  BY <1>1 DEF OnlyIn, OnlyAt, IsSummed
<1> HIDE DEF a, b, c
<1>4. SumOf(a, S) + SumOf(b, S) = SumOf(c, S) * 1
  BY <1>2, <1>3, SumsAdd
<1>5. SumOf(c, S) \in Int
  <2>1. SumOf(c, S) = PartSum(f, S, u \cup {x})
    BY DEF PartSum, c
  <2> QED BY <2>1, PartSumType
<1> QED BY <1>2, <1>4, <1>5 DEF PartSum, a, c

-----------------------------------------------------------------------------
\* Traits: the questionnaire's result and the cache before it.

\* What a call that nothing has overtaken holds fits the row.
TakingsFitRow ==
  \A c \in TraitCalls :
    /\ taking[c].at <= tick
    /\ (TakingAt(c, "set") /\ taking[c].alone) => taking[c].version = row.version
    /\ (TakingAt(c, "upsert") /\ taking[c].alone /\ Assessed) =>
         row.at + RetakeInterval <= taking[c].at

TraitsInv ==
  /\ TraitsTypeOK /\ row.at <= tick
  /\ TakingsFitRow /\ TraitsAreCurrentUnlessRaced

-----------------------------------------------------------------------------
\* A step of one call leaves the others where they are.
LEMMA TakingMoves ==
  ASSUME TraitsTypeOK, NEW c \in TraitCalls, NEW state \in TakingStates,
         TakingBecomes(c, state)
  PROVE  /\ taking' \in [TraitCalls -> TakingStates]
         /\ taking'[c] = state
         /\ \A d \in TraitCalls \ {c} : taking'[d] = taking[d]
BY DEF TraitsTypeOK, TakingBecomes

\* The states a call may be given.
LEMMA NewTakings ==
  ASSUME TraitsTypeOK
  PROVE  /\ IdleTaking \in TakingStates /\ IdleTaking.step = "idle" /\ IdleTaking.at = 0
         /\ \A step \in {"invalidate", "expired", "miss"} :
              LET s == [IdleTaking EXCEPT !.step = step]
              IN  s \in TakingStates /\ s.step = step /\ s.at = 0
         /\ LET s == [IdleTaking EXCEPT !.step = "upsert", !.at = tick, !.alone = TRUE]
            IN  s \in TakingStates /\ s.step = "upsert" /\ s.at = tick
         /\ LET s == [IdleTaking EXCEPT !.step = "set", !.version = row.version, !.alone = TRUE]
            IN  s \in TakingStates /\ s.step = "set" /\ s.at = 0 /\ s.version = row.version
<1>1. tick \in 0 .. LastTick /\ row.version \in 0 .. MaxRetakes + 1
      /\ 0 \in 0 .. LastTick /\ 0 \in 0 .. MaxRetakes + 1
  BY TraitsAssumption DEF TraitsTypeOK
<1>2. IdleTaking \in TakingStates /\ IdleTaking.step = "idle" /\ IdleTaking.at = 0
  BY <1>1 DEF TakingStates, IdleTaking
<1>3. ASSUME NEW step \in {"invalidate", "expired", "miss"}
      PROVE  LET s == [IdleTaking EXCEPT !.step = step]
             IN  s \in TakingStates /\ s.step = step /\ s.at = 0
  BY <1>1 DEF TakingStates, IdleTaking
<1>4. LET s == [IdleTaking EXCEPT !.step = "upsert", !.at = tick, !.alone = TRUE]
      IN  s \in TakingStates /\ s.step = "upsert" /\ s.at = tick
  BY <1>1 DEF TakingStates, IdleTaking
<1>5. LET s == [IdleTaking EXCEPT !.step = "set", !.version = row.version, !.alone = TRUE]
      IN  s \in TakingStates /\ s.step = "set" /\ s.at = 0 /\ s.version = row.version
  BY <1>1 DEF TakingStates, IdleTaking
<1> QED BY <1>2, <1>3, <1>4, <1>5

\* A call goes on, and neither the row nor the cached entry has changed.
LEMMA QuietTaking ==
  ASSUME TraitsInv, NEW c \in TraitCalls, NEW s \in TakingStates, TakingBecomes(c, s),
         UNCHANGED <<row, entry, tick>>, stale' \in BOOLEAN,
         s.at <= tick, s.step # "upsert" \/ ~Assessed \/ row.at + RetakeInterval <= s.at,
         s.step = "set" => s.version = row.version,
         stale' \/ entry = NoEntry \/ (~stale' /\ ~stale /\ ~TakingAt(c, "invalidate")) 
  PROVE  TraitsInv'
<1>1. /\ taking' \in [TraitCalls -> TakingStates]
      /\ taking'[c] = s
      /\ \A d \in TraitCalls \ {c} : taking'[d] = taking[d]
  BY TakingMoves DEF TraitsInv
<1>2. TraitsTypeOK' /\ row'.at <= tick'
  BY <1>1 DEF TraitsInv, TraitsTypeOK
<1>3. TakingsFitRow'
  BY <1>1 DEF TraitsInv, TakingsFitRow, TakingAt, Assessed
<1>4. TraitsAreCurrentUnlessRaced'
  <2> SUFFICES ASSUME entry # NoEntry, ~stale', \A d \in TraitCalls : ~TakingAt(d, "invalidate")'
               PROVE  entry.version = row.version
    BY DEF TraitsAreCurrentUnlessRaced
  <2>1. \A d \in TraitCalls : ~TakingAt(d, "invalidate")
    BY <1>1 DEF TakingAt
  <2> QED BY <2>1 DEF TraitsInv, TraitsAreCurrentUnlessRaced
<1> QED BY <1>2, <1>3, <1>4 DEF TraitsInv

\* Only the cached entry changes, or the entry with one call that comes to rest
\* or goes on to Postgres.
LEMMA EntryChanges ==
  ASSUME TraitsInv, UNCHANGED <<row, tick>>, stale' \in BOOLEAN,
         entry' \in [version: 0 .. MaxRetakes + 1, inTime: BOOLEAN],
         \/ UNCHANGED taking
         \/ \E c \in TraitCalls, s \in TakingStates :
              TakingBecomes(c, s) /\ s.step \in {"idle", "miss"} /\ s.at = 0,
         TraitsAreCurrentUnlessRaced'
  PROVE  TraitsInv'
<1>1. CASE UNCHANGED taking
  BY <1>1 DEF TraitsInv, TraitsTypeOK, TakingsFitRow, TakingAt, Assessed
<1>2. ASSUME NEW c \in TraitCalls, NEW s \in TakingStates,
             TakingBecomes(c, s), s.step \in {"idle", "miss"}, s.at = 0
      PROVE  TraitsInv'
  <2>1. /\ taking' \in [TraitCalls -> TakingStates]
        /\ taking'[c] = s
        /\ \A d \in TraitCalls \ {c} : taking'[d] = taking[d]
    BY <1>2, TakingMoves DEF TraitsInv
  <2>2. tick \in Nat
    BY TraitsAssumption DEF TraitsInv, TraitsTypeOK
  <2>3. TraitsTypeOK'
    BY <2>1 DEF TraitsInv, TraitsTypeOK
  <2>4. TakingsFitRow'
    BY <1>2, <2>1, <2>2 DEF TraitsInv, TakingsFitRow, TakingAt, Assessed
  <2> QED BY <2>3, <2>4 DEF TraitsInv
<1> QED BY <1>1, <1>2

-----------------------------------------------------------------------------
LEMMA CheckRetakeStep ==
  ASSUME TraitsInv, NEW c \in TraitCalls, CheckRetake(c)
  PROVE  TraitsInv'
<1> DEFINE s == [IdleTaking EXCEPT !.step = "upsert", !.at = tick, !.alone = TRUE]
<1>1. /\ TakingAt(c, "idle") /\ MayRetake /\ TakingBecomes(c, s)
      /\ UNCHANGED <<row, entry, tick, stale>>
  BY DEF CheckRetake
<1>2. s \in TakingStates /\ s.step = "upsert" /\ s.at = tick
  BY NewTakings DEF TraitsInv
<1> HIDE DEF s
<1>3. tick \in Nat /\ row.at \in Nat /\ row.at <= tick /\ stale \in BOOLEAN
  BY TraitsAssumption DEF TraitsInv, TraitsTypeOK
<1>4. ~Assessed \/ row.at + RetakeInterval <= tick
  BY <1>1, <1>3, TraitsAssumption DEF MayRetake
<1>5. ~TakingAt(c, "invalidate")
  BY <1>1 DEF TakingAt
<1> QED BY <1>1, <1>2, <1>3, <1>4, <1>5, QuietTaking

LEMMA UpsertEffect ==
  ASSUME TraitsInv, NEW c \in TraitCalls, Upsert(c)
  PROVE  /\ row' \in [version: 0 .. MaxRetakes + 1, usable: BOOLEAN, at: 0 .. LastTick]
         /\ row'.at = taking[c].at
         /\ taking' \in [TraitCalls -> TakingStates]
         /\ taking'[c].step = "invalidate" /\ taking'[c].at = 0
         /\ \A d \in TraitCalls \ {c} :
              /\ taking'[d].step = taking[d].step /\ taking'[d].at = taking[d].at
              /\ ~taking'[d].alone
<1> DEFINE new == [IdleTaking EXCEPT !.step = "invalidate"]
           F(d) == IF d = c THEN new ELSE [taking[d] EXCEPT !.alone = FALSE]
<1>1. /\ row.version <= MaxRetakes
      /\ row' = [version |-> row.version + 1, usable |-> TRUE, at |-> taking[c].at]
      /\ taking' = [d \in TraitCalls |-> F(d)]
  BY DEF Upsert
<1>2. new \in TakingStates /\ new.step = "invalidate" /\ new.at = 0
  BY NewTakings DEF TraitsInv
<1> HIDE DEF new
<1>3. ASSUME NEW d \in TraitCalls
      PROVE  /\ F(d) \in TakingStates
             /\ d # c => /\ F(d).step = taking[d].step /\ F(d).at = taking[d].at
                         /\ ~F(d).alone
  BY <1>2 DEF TraitsInv, TraitsTypeOK, TakingStates
<1>4. F(c) = new
  OBVIOUS
<1> HIDE DEF F
<1>5. row' \in [version: 0 .. MaxRetakes + 1, usable: BOOLEAN, at: 0 .. LastTick]
  <2>1. row.version \in 0 .. MaxRetakes + 1 /\ taking[c].at \in 0 .. LastTick
    BY DEF TraitsInv, TraitsTypeOK, TakingStates
  <2> QED BY <1>1, <2>1, TraitsAssumption
<1>6. \A d \in TraitCalls : taking'[d] = F(d)
  BY <1>1
<1>7. taking' \in [TraitCalls -> TakingStates]
  BY <1>1, <1>3
<1> QED BY <1>1, <1>2, <1>3, <1>4, <1>5, <1>6, <1>7

LEMMA UpsertStep ==
  ASSUME TraitsInv, NEW c \in TraitCalls, Upsert(c)
  PROVE  TraitsInv'
<1>1. /\ row' \in [version: 0 .. MaxRetakes + 1, usable: BOOLEAN, at: 0 .. LastTick]
      /\ row'.at = taking[c].at
      /\ taking' \in [TraitCalls -> TakingStates]
      /\ taking'[c].step = "invalidate" /\ taking'[c].at = 0
      /\ \A d \in TraitCalls \ {c} :
           /\ taking'[d].step = taking[d].step /\ taking'[d].at = taking[d].at
           /\ ~taking'[d].alone
  BY UpsertEffect
<1>2. UNCHANGED <<entry, tick, stale>> /\ tick \in Nat
  BY TraitsAssumption DEF Upsert, TraitsInv, TraitsTypeOK
<1>3. TraitsTypeOK' /\ row'.at <= tick'
  BY <1>1, <1>2 DEF TraitsInv, TraitsTypeOK, TakingsFitRow
<1>4. TakingsFitRow'
  BY <1>1, <1>2 DEF TraitsInv, TakingsFitRow, TakingAt
<1>5. TraitsAreCurrentUnlessRaced'
  BY <1>1 DEF TraitsAreCurrentUnlessRaced, TakingAt
<1> QED BY <1>3, <1>4, <1>5 DEF TraitsInv

LEMMA InvalidateStep ==
  ASSUME TraitsInv, NEW c \in TraitCalls, Invalidate(c)
  PROVE  TraitsInv'
<1>1. /\ entry' = NoEntry /\ stale' = FALSE /\ TakingBecomes(c, IdleTaking)
      /\ UNCHANGED <<row, tick>>
  BY DEF Invalidate
<1>2. NoEntry \in [version: 0 .. MaxRetakes + 1, inTime: BOOLEAN]
  BY TraitsAssumption DEF NoEntry
<1>3. TraitsAreCurrentUnlessRaced'
  BY <1>1 DEF TraitsAreCurrentUnlessRaced, NoEntry
<1>4. IdleTaking \in TakingStates /\ IdleTaking.step = "idle" /\ IdleTaking.at = 0
  BY NewTakings DEF TraitsInv
<1> QED BY <1>1, <1>2, <1>3, <1>4, EntryChanges

LEMMA GetEntryStep ==
  ASSUME TraitsInv, NEW c \in TraitCalls, GetEntry(c)
  PROVE  TraitsInv'
<1>1. PICK step \in {"expired", "miss"} :
        TakingBecomes(c, [IdleTaking EXCEPT !.step = step])
  BY DEF GetEntry
<1>2. TakingAt(c, "idle") /\ UNCHANGED <<row, entry, tick, stale>>
  BY DEF GetEntry
<1> DEFINE s == [IdleTaking EXCEPT !.step = step]
<1>3. s \in TakingStates /\ s.step = step /\ s.at = 0
  BY NewTakings DEF TraitsInv
<1>4. TakingBecomes(c, s)
  BY <1>1
<1> HIDE DEF s
<1>5. tick \in Nat /\ stale \in BOOLEAN /\ ~TakingAt(c, "invalidate")
  BY <1>2, TraitsAssumption DEF TraitsInv, TraitsTypeOK, TakingAt
<1> QED BY <1>2, <1>3, <1>4, <1>5, QuietTaking

LEMMA DropExpiredStep ==
  ASSUME TraitsInv, NEW c \in TraitCalls, DropExpired(c)
  PROVE  TraitsInv'
<1> DEFINE s == [IdleTaking EXCEPT !.step = "miss"]
<1>1. /\ TakingAt(c, "expired")
      /\ entry' = IF entry.inTime THEN entry ELSE NoEntry
      /\ stale' = (stale /\ entry.inTime) /\ TakingBecomes(c, s)
      /\ UNCHANGED <<row, tick>>
  BY DEF DropExpired
<1>2. s \in TakingStates /\ s.step = "miss" /\ s.at = 0
  BY NewTakings DEF TraitsInv
<1> HIDE DEF s
<1>3. entry' \in [version: 0 .. MaxRetakes + 1, inTime: BOOLEAN] /\ stale' \in BOOLEAN
  BY <1>1, TraitsAssumption DEF TraitsInv, TraitsTypeOK, NoEntry
<1>4. /\ taking'[c] = s
      /\ \A d \in TraitCalls \ {c} : taking'[d] = taking[d]
  BY <1>1, <1>2, TakingMoves DEF TraitsInv
<1>5. TraitsAreCurrentUnlessRaced'
  <2>1. CASE ~entry.inTime
    BY <1>1, <2>1 DEF TraitsAreCurrentUnlessRaced, NoEntry
  <2>2. CASE entry.inTime
    BY <1>1, <1>4, <2>2 DEF TraitsInv, TraitsAreCurrentUnlessRaced, TakingAt, NoEntry
  <2> QED BY <2>1, <2>2
<1> QED BY <1>1, <1>2, <1>3, <1>5, EntryChanges

LEMMA ReadTraitsStep ==
  ASSUME TraitsInv, NEW c \in TraitCalls, ReadTraits(c)
  PROVE  TraitsInv'
<1>1. /\ TakingAt(c, "miss") /\ UNCHANGED <<row, entry, tick, stale>>
      /\ ~TakingAt(c, "invalidate")
  BY DEF ReadTraits, TakingAt
<1>2. tick \in Nat /\ stale \in BOOLEAN
  BY TraitsAssumption DEF TraitsInv, TraitsTypeOK
<1>3. CASE row.usable
  <2> DEFINE s == [IdleTaking EXCEPT !.step = "set", !.version = row.version, !.alone = TRUE]
  <2>1. s \in TakingStates /\ s.step = "set" /\ s.at = 0 /\ s.version = row.version
    BY NewTakings DEF TraitsInv
  <2>2. TakingBecomes(c, s)
    BY <1>3 DEF ReadTraits
  <2> HIDE DEF s
  <2> QED BY <1>1, <1>2, <2>1, <2>2, QuietTaking
<1>4. CASE ~row.usable
  <2>1. IdleTaking \in TakingStates /\ IdleTaking.step = "idle" /\ IdleTaking.at = 0
    BY NewTakings DEF TraitsInv
  <2>2. TakingBecomes(c, IdleTaking)
    BY <1>4 DEF ReadTraits
  <2> QED BY <1>1, <1>2, <2>1, <2>2, QuietTaking
<1> QED BY <1>3, <1>4

LEMMA SetEntryStep ==
  ASSUME TraitsInv, NEW c \in TraitCalls, SetEntry(c)
  PROVE  TraitsInv'
<1>1. /\ TakingAt(c, "set") /\ entry' = [version |-> taking[c].version, inTime |-> TRUE]
      /\ stale' = ~taking[c].alone /\ TakingBecomes(c, IdleTaking)
      /\ UNCHANGED <<row, tick>>
  BY DEF SetEntry
<1>2. taking[c].version \in 0 .. MaxRetakes + 1 /\ taking[c].alone \in BOOLEAN
  BY DEF TraitsInv, TraitsTypeOK, TakingStates
<1>3. entry' \in [version: 0 .. MaxRetakes + 1, inTime: BOOLEAN] /\ stale' \in BOOLEAN
  BY <1>1, <1>2
<1>4. TraitsAreCurrentUnlessRaced'
  BY <1>1, <1>2 DEF TraitsInv, TakingsFitRow, TraitsAreCurrentUnlessRaced
<1>5. IdleTaking \in TakingStates /\ IdleTaking.step = "idle" /\ IdleTaking.at = 0
  BY NewTakings DEF TraitsInv
<1> QED BY <1>1, <1>3, <1>4, <1>5, EntryChanges

LEMMA TakingStopsStep ==
  ASSUME TraitsInv, NEW c \in TraitCalls, TakingStops(c)
  PROVE  TraitsInv'
<1>1. /\ TakingBecomes(c, IdleTaking) /\ UNCHANGED <<row, entry, tick>>
      /\ stale' = (stale \/ (TakingAt(c, "invalidate") /\ entry # NoEntry))
  BY DEF TakingStops
<1>2. IdleTaking \in TakingStates /\ IdleTaking.step = "idle" /\ IdleTaking.at = 0
  BY NewTakings DEF TraitsInv
<1>3. tick \in Nat /\ stale' \in BOOLEAN
  BY <1>1, TraitsAssumption DEF TraitsInv, TraitsTypeOK, TakingAt
<1>4. stale' \/ entry = NoEntry \/ (~stale' /\ ~stale /\ ~TakingAt(c, "invalidate"))
  BY <1>1, <1>3, Zenon
<1> QED BY <1>1, <1>2, <1>3, <1>4, QuietTaking

-----------------------------------------------------------------------------
LEMMA TraitsInitInv == TraitsInit => TraitsInv
<1> SUFFICES ASSUME TraitsInit PROVE TraitsInv
  OBVIOUS
<1>1. /\ row \in {[version |-> v, usable |-> FALSE, at |-> 0] : v \in {0, 1}}
      /\ entry = NoEntry /\ tick = 0 /\ stale = FALSE
      /\ \A c \in TraitCalls : taking[c] = IdleTaking
      /\ taking = [c \in TraitCalls |-> IdleTaking]
  BY DEF TraitsInit
<1>2. PICK v \in {0, 1} : row = [version |-> v, usable |-> FALSE, at |-> 0]
  BY ONLY <1>1
<1>3. 0 \in 0 .. LastTick /\ {0, 1} \subseteq 0 .. MaxRetakes + 1
  BY TraitsAssumption
<1>4. IdleTaking \in TakingStates /\ IdleTaking.step = "idle" /\ IdleTaking.at = 0
  BY <1>3 DEF IdleTaking, TakingStates
<1>5. row \in [version: 0 .. MaxRetakes + 1, usable: BOOLEAN, at: 0 .. LastTick] /\ row.at = 0
  BY ONLY <1>2, <1>3
<1>6. entry \in [version: 0 .. MaxRetakes + 1, inTime: BOOLEAN]
  BY ONLY <1>1, <1>3 DEF NoEntry
<1>7. TraitsTypeOK
  BY ONLY <1>1, <1>3, <1>4, <1>5, <1>6 DEF TraitsTypeOK
<1>8. TakingsFitRow
  <2>1. \A c \in TraitCalls : taking[c].step = "idle" /\ taking[c].at = 0
    BY ONLY <1>1, <1>4
  <2>2. \A c \in TraitCalls : taking[c].at <= tick
    <3>1. tick = 0 /\ tick <= 0
      BY ONLY <1>1
    <3> QED BY ONLY <2>1, <3>1, Zenon
  <2>3. \A c \in TraitCalls : ~TakingAt(c, "set") /\ ~TakingAt(c, "upsert")
    BY ONLY <2>1 DEF TakingAt
  <2> QED BY ONLY <2>2, <2>3 DEF TakingsFitRow
<1>9. TraitsAreCurrentUnlessRaced
  BY ONLY <1>1 DEF TraitsAreCurrentUnlessRaced
<1> QED BY <1>1, <1>5, <1>7, <1>8, <1>9 DEF TraitsInv

LEMMA TraitsNextInv == TraitsInv /\ [TraitsNext]_traitVars => TraitsInv'
<1> SUFFICES ASSUME TraitsInv, [TraitsNext]_traitVars PROVE TraitsInv'
  OBVIOUS
<1>1. CASE TraitTick
  <2>1. /\ tick \in Nat /\ tick < LastTick /\ tick' = tick + 1
        /\ UNCHANGED <<row, entry, taking, stale>>
    BY <1>1, TraitsAssumption DEF TraitTick, TraitsInv, TraitsTypeOK
  <2>2. TraitsTypeOK'
    BY <2>1, TraitsAssumption DEF TraitsInv, TraitsTypeOK
  <2>3. row'.at <= tick'
    BY <2>1, TraitsAssumption DEF TraitsInv, TraitsTypeOK
  <2>4. \A c \in TraitCalls : taking[c].at \in Nat
    BY TraitsAssumption DEF TraitsInv, TraitsTypeOK, TakingStates
  <2>5. TakingsFitRow'
    BY <2>1, <2>4 DEF TraitsInv, TakingsFitRow, TakingAt, Assessed
  <2>6. TraitsAreCurrentUnlessRaced'
    BY <2>1 DEF TraitsInv, TraitsAreCurrentUnlessRaced, TakingAt
  <2> QED BY <2>2, <2>3, <2>5, <2>6 DEF TraitsInv
<1>2. CASE EntryExpires
  <2>1. /\ entry.inTime /\ entry' = [entry EXCEPT !.inTime = FALSE]
        /\ UNCHANGED <<row, taking, tick, stale>>
    BY <1>2 DEF EntryExpires
  <2>2. /\ entry' \in [version: 0 .. MaxRetakes + 1, inTime: BOOLEAN]
        /\ stale' \in BOOLEAN /\ entry'.version = entry.version /\ entry # NoEntry
    <3>1. entry \in [version: 0 .. MaxRetakes + 1, inTime: BOOLEAN] /\ stale \in BOOLEAN
      BY DEF TraitsInv, TraitsTypeOK
    <3>2. entry # NoEntry
      BY ONLY <2>1 DEF NoEntry
    <3> QED BY ONLY <2>1, <3>1, <3>2
  <2>3. TraitsAreCurrentUnlessRaced'
    BY <2>1, <2>2 DEF TraitsInv, TraitsAreCurrentUnlessRaced, TakingAt
  <2> QED BY <2>1, <2>2, <2>3, EntryChanges
<1>3. CASE EntryDropped
  <2>1. /\ entry' = NoEntry /\ stale' = FALSE /\ UNCHANGED <<row, taking, tick>>
    BY <1>3 DEF EntryDropped
  <2>2. entry' \in [version: 0 .. MaxRetakes + 1, inTime: BOOLEAN] /\ stale' \in BOOLEAN
    <3>1. NoEntry \in [version: 0 .. MaxRetakes + 1, inTime: BOOLEAN]
      BY TraitsAssumption DEF NoEntry
    <3> QED BY ONLY <2>1, <3>1
  <2>3. TraitsAreCurrentUnlessRaced'
    BY <2>1 DEF TraitsAreCurrentUnlessRaced, NoEntry
  <2> QED BY <2>1, <2>2, <2>3, EntryChanges
<1>4. ASSUME NEW c \in TraitCalls, TraitStep(c)
      PROVE  TraitsInv'
  BY <1>4, CheckRetakeStep, UpsertStep, InvalidateStep, GetEntryStep, DropExpiredStep,
     ReadTraitsStep, SetEntryStep, TakingStopsStep DEF TraitStep
<1>5. CASE UNCHANGED traitVars
  BY <1>5 DEF traitVars, TraitsInv, TraitsTypeOK, TakingsFitRow, TakingAt, Assessed,
     TraitsAreCurrentUnlessRaced
<1> QED BY <1>1, <1>2, <1>3, <1>4, <1>5 DEF TraitsNext

\* What RetakesAreSpaced asks of a step.
RetakeIsSpaced ==
  \A c \in TraitCalls :
    (row'.version # row.version /\ row.version # 0 /\ TakingAt(c, "upsert")
       /\ taking'[c].step = "invalidate" /\ taking[c].alone)
      => row'.at >= row.at + RetakeInterval

LEMMA StepRetakesAreSpaced ==
  ASSUME TraitsInv, TraitsNext
  PROVE  RetakeIsSpaced
<1> SUFFICES ASSUME NEW c \in TraitCalls,
                    row'.version # row.version, row.version # 0, TakingAt(c, "upsert"),
                    taking'[c].step = "invalidate", taking[c].alone
             PROVE  row'.at >= row.at + RetakeInterval
  BY DEF RetakeIsSpaced
<1>1. PICK d \in TraitCalls : Upsert(d)
  BY DEF TraitsNext, TraitStep, TraitTick, EntryExpires, EntryDropped, CheckRetake, Invalidate,
     GetEntry, DropExpired, ReadTraits, SetEntry, TakingStops
<1>2. /\ row'.at = taking[d].at
      /\ \A e \in TraitCalls \ {d} : taking'[e].step = taking[e].step
  BY <1>1, UpsertEffect
<1>3. d = c
  BY <1>2 DEF TakingAt
<1>4. row.at + RetakeInterval <= taking[c].at
  BY DEF TraitsInv, TakingsFitRow, Assessed
<1>5. row.at + RetakeInterval \in Nat /\ taking[c].at \in Nat
  BY TraitsAssumption DEF TraitsInv, TraitsTypeOK, TakingStates
<1> QED BY <1>2, <1>3, <1>4, <1>5

-----------------------------------------------------------------------------
\* Compatibility: the scores follow from what may be stored.

LEMMA TraitSums ==
  ASSUME NEW f, IsSummed(f, TraitKeys)
  PROVE  SumOver(f) = SumOf(f, TraitKeys)
BY DEF SumOver, SumOf

LEMMA CompatibilityInitType ==
  ASSUME CompatibilityInit
  PROVE  CompatibilityTypeOK
BY DEF CompatibilityInit, CompatibilityTypeOK, Values, WeightValues

LEMMA CompatibilityNextType ==
  ASSUME CompatibilityTypeOK, [CompatibilityNext]_compatVars
  PROVE  CompatibilityTypeOK'
BY DEF CompatibilityTypeOK, CompatibilityNext, ViewerAssessed, CandidateAssessed, Reweigh,
       compatVars

LEMMA WeightIsNatural ==
  ASSUME NEW w \in [TraitKeys -> WeightValues], NEW k \in TraitKeys
  PROVE  Weight(w, k) \in Nat
<1>1. w[k] = Unset \/ w[k] \in -1 .. MaxWeight + 1
  <2>1. w[k] \in WeightValues
    OBVIOUS
  <2> QED BY <2>1, CompatibilityAssumption DEF WeightValues
<1> QED BY <1>1, CompatibilityAssumption DEF Weight, Neutral

\* The weights that are used add up to something.
LEMMA OrderedCounts ==
  ASSUME NEW w \in [TraitKeys -> WeightValues]
  PROVE  /\ Ordered(w) \in [TraitKeys -> Nat]
         /\ SumOf(Ordered(w), TraitKeys) \in Nat \ {0}
<1> DEFINE clamped == [k \in TraitKeys |-> Weight(w, k)]
           neutral == [k \in TraitKeys |-> Neutral]
<1>1. clamped \in [TraitKeys -> Nat] /\ IsSummed(clamped, TraitKeys)
      /\ \A k \in TraitKeys : clamped[k] >= 0
  <2>1. \A k \in TraitKeys : clamped[k] \in Nat
    BY WeightIsNatural
  <2>2. clamped \in [TraitKeys -> Nat]
    BY <2>1
  <2> HIDE DEF clamped
  <2> QED BY <2>1, <2>2, CompatibilityAssumption DEF IsSummed
<1>2. neutral \in [TraitKeys -> Nat] /\ IsSummed(neutral, TraitKeys)
      /\ \A k \in TraitKeys : neutral[k] >= 0 /\ neutral[k] # 0
  BY CompatibilityAssumption DEF Neutral, IsSummed
<1>3. Ordered(w) = IF SumOver(clamped) <= 0 THEN neutral ELSE clamped
  BY DEF Ordered
<1> HIDE DEF clamped, neutral
<1>4. SumOver(clamped) = SumOf(clamped, TraitKeys) /\ SumOf(clamped, TraitKeys) \in Nat
  BY <1>1, TraitSums, SumOfNaturals
<1>5. SumOf(neutral, TraitKeys) \in Nat \ {0}
  <2>1. SumOf(neutral, TraitKeys) \in Nat
        /\ (SumOf(neutral, TraitKeys) = 0 <=> \A k \in TraitKeys : neutral[k] = 0)
    BY <1>2, SumOfNaturals
  <2> QED BY <1>2, <2>1, CompatibilityAssumption
<1>6. CASE SumOver(clamped) <= 0
  <2>1. Ordered(w) = neutral
    BY <1>3, <1>6
  <2> QED BY <1>2, <1>5, <2>1
<1>7. CASE ~(SumOver(clamped) <= 0)
  <2>1. Ordered(w) = clamped
    BY <1>3, <1>7
  <2>2. SumOf(clamped, TraitKeys) # 0
    BY <1>4, <1>7
  <2> QED BY <1>1, <1>4, <2>1, <2>2
<1> QED BY <1>6, <1>7

\* What every trait adds to a score, and what it takes from it.
Given(a, b, e) == [k \in TraitKeys |-> e[k] * Agreement(a, b, k)]
Lost(a, b, e) == [k \in TraitKeys |-> e[k] * Distance(a[k], b[k])]

LEMMA WeighedSum ==
  ASSUME NEW a \in [TraitKeys -> Values], Complete(a),
         NEW b \in [TraitKeys -> Values], Complete(b),
         NEW e \in [TraitKeys -> Nat]
  PROVE  /\ SumOf(Given(a, b, e), TraitKeys) \in Nat
         /\ SumOf(Lost(a, b, e), TraitKeys) \in Nat
         /\ SumOf(Given(a, b, e), TraitKeys) + SumOf(Lost(a, b, e), TraitKeys)
              = SumOf(e, TraitKeys) * One
         /\ SumOf(Lost(a, b, e), TraitKeys) = 0
              <=> \A k \in TraitKeys : a[k] = b[k] \/ e[k] = 0
         /\ Given(a, b, e) = Given(b, a, e)
         /\ SumOver(Given(a, b, e)) = SumOf(Given(a, b, e), TraitKeys)
         /\ SumOver(e) = SumOf(e, TraitKeys)
<1> DEFINE given == Given(a, b, e)
           lost == Lost(a, b, e)
<1>1. \A k \in TraitKeys : a[k] \in 0 .. One /\ b[k] \in 0 .. One /\ e[k] \in Nat
  BY DEF Complete
<1>2. \A k \in TraitKeys :
        /\ Agreement(a, b, k) \in Nat /\ Distance(a[k], b[k]) \in Nat
        /\ Agreement(a, b, k) + Distance(a[k], b[k]) = One
        /\ Agreement(a, b, k) = Agreement(b, a, k)
        /\ Distance(a[k], b[k]) = 0 <=> a[k] = b[k]
  BY <1>1, CompatibilityAssumption DEF Agreement, Distance
<1>3. ASSUME NEW k \in TraitKeys
      PROVE  /\ given[k] \in Nat /\ lost[k] \in Nat
             /\ given[k] + lost[k] = e[k] * One
             /\ lost[k] = 0 <=> a[k] = b[k] \/ e[k] = 0
  <2>1. given[k] = e[k] * Agreement(a, b, k) /\ lost[k] = e[k] * Distance(a[k], b[k])
    BY DEF Given, Lost
  <2>2. \A x, y, z \in Nat : /\ x * y \in Nat /\ x * y + x * z = x * (y + z)
                             /\ x * y = 0 <=> x = 0 \/ y = 0
    OBVIOUS
  <2>3. e[k] \in Nat /\ Agreement(a, b, k) \in Nat /\ Distance(a[k], b[k]) \in Nat
    BY <1>1, <1>2
  <2>4. e[k] * Agreement(a, b, k) + e[k] * Distance(a[k], b[k]) = e[k] * One
    BY <1>2, <2>2, <2>3
  <2> QED BY <1>2, <2>1, <2>2, <2>3, <2>4
<1>4. given = Given(b, a, e)
  BY <1>2 DEF Given
<1>5. DOMAIN given = TraitKeys /\ DOMAIN lost = TraitKeys
      /\ given = [k \in TraitKeys |-> given[k]] /\ lost = [k \in TraitKeys |-> lost[k]]
  BY DEF Given, Lost
<1> HIDE DEF given, lost
<1>6. given \in [TraitKeys -> Int] /\ lost \in [TraitKeys -> Int] /\ e \in [TraitKeys -> Int]
  BY <1>1, <1>3, <1>5
<1>7. /\ IsSummed(given, TraitKeys) /\ IsSummed(lost, TraitKeys) /\ IsSummed(e, TraitKeys)
      /\ \A k \in TraitKeys : given[k] >= 0 /\ lost[k] >= 0
  BY <1>3, <1>6, CompatibilityAssumption DEF IsSummed
<1>8. SumOf(given, TraitKeys) \in Nat /\ SumOf(lost, TraitKeys) \in Nat
      /\ (SumOf(lost, TraitKeys) = 0 <=> \A k \in TraitKeys : lost[k] = 0)
  BY <1>7, SumOfNaturals
<1>9. SumOf(given, TraitKeys) + SumOf(lost, TraitKeys) = SumOf(e, TraitKeys) * One
  <2>1. \A k \in TraitKeys : given[k] + lost[k] = e[k] * One
    BY <1>3
  <2>2. One \in Int
    BY CompatibilityAssumption
  <2> QED BY <1>7, <2>1, <2>2, SumsAdd
<1>10. SumOver(given) = SumOf(given, TraitKeys) /\ SumOver(e) = SumOf(e, TraitKeys)
  BY <1>7, TraitSums
<1> QED BY <1>3, <1>4, <1>8, <1>9, <1>10 DEF given, lost

\* Score without its clamps, which never bite.
LEMMA ScoreIsTheSum ==
  ASSUME NEW a \in [TraitKeys -> Values], Complete(a),
         NEW b \in [TraitKeys -> Values], Complete(b),
         NEW w \in [TraitKeys -> WeightValues]
  PROVE  /\ Score(a, b, w) = SqlScore(a, b, Ordered(w))
         /\ Score(a, b, w) = Score(b, a, w)
         /\ Score(a, b, w).den \in Nat \ {0}
         /\ Score(a, b, w).num \in 0 .. Score(a, b, w).den
         /\ Score(a, b, w).num = Score(a, b, w).den
              <=> \A k \in TraitKeys : a[k] = b[k] \/ Ordered(w)[k] = 0
<1> DEFINE e == Ordered(w)
           total == SumOf(e, TraitKeys)
           given == SumOf(Given(a, b, e), TraitKeys)
           lost == SumOf(Lost(a, b, e), TraitKeys)
<1>1. e \in [TraitKeys -> Nat] /\ total \in Nat \ {0}
  BY OrderedCounts
<1> HIDE DEF e
<1>2. /\ given \in Nat /\ lost \in Nat /\ given + lost = total * One
      /\ lost = 0 <=> \A k \in TraitKeys : a[k] = b[k] \/ e[k] = 0
      /\ Given(a, b, e) = Given(b, a, e)
      /\ SumOver(Given(a, b, e)) = given /\ SumOver(e) = total
  BY <1>1, WeighedSum
<1>3. total * One \in Nat \ {0}
  BY <1>1, CompatibilityAssumption
<1>4. SqlScore(a, b, e) = [num |-> given, den |-> total * One]
  BY <1>2 DEF SqlScore, Given
<1>5. /\ Score(a, b, w) =
           IF total <= 0 THEN NeutralScore
           ELSE [num |-> IF given < 0 THEN 0 ELSE IF given > total * One THEN total * One ELSE given,
                 den |-> total * One]
      /\ Score(b, a, w) = Score(a, b, w)
  <2>1. Score(a, b, w) =
          LET weighted == SumOver(Given(a, b, e))
          IN  IF SumOver(e) <= 0 THEN NeutralScore
              ELSE [num |-> IF weighted < 0 THEN 0
                            ELSE IF weighted > SumOver(e) * One THEN SumOver(e) * One ELSE weighted,
                    den |-> SumOver(e) * One]
    BY DEF Score, Given, e
  <2>2. Score(b, a, w) =
          LET weighted == SumOver(Given(b, a, e))
          IN  IF SumOver(e) <= 0 THEN NeutralScore
              ELSE [num |-> IF weighted < 0 THEN 0
                            ELSE IF weighted > SumOver(e) * One THEN SumOver(e) * One ELSE weighted,
                    den |-> SumOver(e) * One]
    BY DEF Score, Given, e
  <2> HIDE DEF given, total
  <2> QED BY <1>2, <2>1, <2>2
<1> HIDE DEF given, lost, total
<1>6. given <= total * One /\ (given = total * One <=> lost = 0)
  BY <1>2, <1>3
<1>7. Score(a, b, w) = [num |-> given, den |-> total * One]
  <2>1. ~(total <= 0) /\ ~(given < 0) /\ ~(given > total * One)
    BY <1>1, <1>2, <1>3, <1>6
  <2> QED BY <1>5, <2>1
<1> QED BY <1>2, <1>3, <1>4, <1>5, <1>6, <1>7 DEF e

LEMMA ScoresFollowTypes ==
  ASSUME CompatibilityTypeOK
  PROVE  PairScoresAreSound
<1> DEFINE s == Score(viewer, candidate, weights)
<1>1. /\ viewer \in [TraitKeys -> Values] /\ candidate \in [TraitKeys -> Values]
      /\ weights \in [TraitKeys -> WeightValues]
  BY DEF CompatibilityTypeOK
<1>2. Unweighted \in [TraitKeys -> WeightValues]
  BY DEF Unweighted, WeightValues
<1>3. CASE Complete(viewer) /\ Complete(candidate)
  <2>1. /\ s = SqlScore(viewer, candidate, Ordered(weights))
        /\ s = Score(candidate, viewer, weights)
        /\ s.den \in Nat \ {0} /\ s.num \in 0 .. s.den
        /\ s.num = s.den
             <=> \A k \in TraitKeys : viewer[k] = candidate[k] \/ Ordered(weights)[k] = 0
    BY <1>1, <1>3, ScoreIsTheSum
  <2>2. Score(viewer, candidate, Unweighted) = Score(candidate, viewer, Unweighted)
    BY <1>1, <1>2, <1>3, ScoreIsTheSum
  <2> HIDE DEF s
  <2>3. IsScore(s) /\ (Equal(s, [num |-> 1, den |-> 1]) <=> s.num = s.den)
    BY <2>1 DEF IsScore, Equal
  <2>4. \A t : s = t => Equal(s, t)
    BY <2>1 DEF Equal
  <2>5. PairScore(viewer, candidate) = PairScore(candidate, viewer)
        /\ PairScore(viewer, candidate) \subseteq {LegacyScore(viewer, candidate)}
    BY <1>3, <2>2 DEF PairScore, LegacyScore
  <2>6. Scored(candidate)
    BY <1>3 DEF Scored, Complete
  <2> QED BY <2>1, <2>3, <2>4, <2>5, <2>6 DEF PairScoresAreSound, s
<1>4. CASE ~(Complete(viewer) /\ Complete(candidate))
  <2>1. s = NeutralScore /\ Score(candidate, viewer, weights) = NeutralScore
    BY <1>4 DEF Score
  <2>2. PairScore(viewer, candidate) = {} /\ PairScore(candidate, viewer) = {}
    BY <1>4 DEF PairScore
  <2>3. IsScore(NeutralScore) /\ Equal(NeutralScore, NeutralScore)
    BY DEF IsScore, Equal, NeutralScore
  <2> HIDE DEF s
  <2> QED BY <1>4, <2>1, <2>2, <2>3 DEF PairScoresAreSound, s
<1> QED BY <1>3, <1>4

-----------------------------------------------------------------------------
\* Questionnaire: the sheet, and the pass over its answers.

LEMMA QuestionnaireInitType ==
  ASSUME QuestionnaireInit
  PROVE  QuestionnaireTypeOK
<1>1. Len(<<>>) = 0 /\ <<>> \in Seq([question: Questions \cup {OtherQuestion}, value: Marks])
  OBVIOUS
<1> QED BY <1>1, QuestionnaireAssumption DEF QuestionnaireInit, QuestionnaireTypeOK

LEMMA QuestionnaireNextType ==
  ASSUME QuestionnaireTypeOK, [QuestionnaireNext]_sheet
  PROVE  QuestionnaireTypeOK'
<1> DEFINE Rows == [question: Questions \cup {OtherQuestion}, value: Marks]
<1>1. CASE WriteAnswer
  <2>1. PICK given \in Rows : sheet' = Append(sheet, given)
    BY <1>1 DEF WriteAnswer
  <2>2. sheet \in Seq(Rows) /\ Len(sheet) < MaxAnswers /\ MaxAnswers \in Nat
    BY <1>1, QuestionnaireAssumption DEF WriteAnswer, QuestionnaireTypeOK
  <2> HIDE DEF Rows
  <2>3. sheet' \in Seq(Rows) /\ Len(sheet') <= MaxAnswers
    BY <2>1, <2>2
  <2> QED BY <2>3 DEF QuestionnaireTypeOK, Rows
<1>2. CASE UNCHANGED sheet
  BY <1>2 DEF QuestionnaireTypeOK
<1> QED BY <1>1, <1>2 DEF QuestionnaireNext

AccRows == [ok: BOOLEAN, seen: SUBSET Questions,
            sums: [BankKeys -> Int], counts: [BankKeys -> Int]]

LEMMA NothingScoredType == NothingScored \in AccRows
BY DEF NothingScored, AccRows

LEMMA AddAnswerType ==
  ASSUME NEW acc \in AccRows, NEW a
  PROVE  AddAnswer(acc, a) \in AccRows
<1>1. CASE acc.ok /\ Acceptable(acc, a)
  <2>1. /\ a.question \in Questions /\ Bank[a.question].trait \in BankKeys
        /\ a.value \in 1 .. AnswerScale
    BY <1>1 DEF Acceptable, BankKeys
  <2>2. Normalized(a) \in Int
    BY <2>1, QuestionnaireAssumption DEF Normalized
  <2>3. AddAnswer(acc, a) = [acc EXCEPT !.seen = @ \cup {a.question},
                   !.sums[Bank[a.question].trait] = @ + Normalized(a),
                   !.counts[Bank[a.question].trait] = @ + 1]
    BY <1>1 DEF AddAnswer
  <2>4. /\ acc.sums \in [BankKeys -> Int] /\ acc.counts \in [BankKeys -> Int]
        /\ acc.seen \in SUBSET Questions
    BY DEF AccRows
  <2> DEFINE trait == Bank[a.question].trait
             sums == [acc.sums EXCEPT ![trait] = @ + Normalized(a)]
             counts == [acc.counts EXCEPT ![trait] = @ + 1]
  <2>5. sums \in [BankKeys -> Int] /\ counts \in [BankKeys -> Int]
    <3> HIDE DEF trait
    <3>1. trait \in BankKeys
      BY <2>1 DEF trait
    <3> QED BY <2>2, <2>4, <3>1
  <2>6. AddAnswer(acc, a) = [acc EXCEPT !.seen = @ \cup {a.question}, !.sums = sums, !.counts = counts]
    BY <2>3 DEF AccRows
  <2> HIDE DEF sums, counts
  <2> QED BY <2>1, <2>4, <2>5, <2>6 DEF AccRows
<1>2. CASE ~(acc.ok /\ Acceptable(acc, a))
  BY <1>2 DEF AddAnswer, AccRows
<1> QED BY <1>1, <1>2

LEMMA AnswersAdded ==
  ASSUME NEW T, NEW list, list \in Seq(T)
  PROVE  \E h : /\ h[0] = NothingScored
                /\ h[Len(list)] = FoldLeft(AddAnswer, NothingScored, list)
                /\ \A k \in 0 .. Len(list) - 1 : h[k + 1] = AddAnswer(h[k], list[k + 1])
<1> DEFINE n == Len(list)
           D == AccRows
           step == [k \in 1 .. n |-> [d \in D |-> AddAnswer(d, list[k])]]
           IsIt(it) == it = [s \in SUBSET (1 .. n) |->
                               IF s = {} THEN NothingScored
                               ELSE AddAnswer(it[s \ {Max(s)}], list[Max(s)])]
           iter == CHOOSE it : IsIt(it)
<1>1. n \in Nat /\ DOMAIN list = 1 .. n /\ \A k \in 1 .. n : list[k] \in T
  OBVIOUS
<1>2. ASSUME NEW d \in D, NEW v \in T
      PROVE  AddAnswer(d, v) \in D
  BY AddAnswerType
<1>3. IsSeqFold(n, D, NothingScored, step)
  <2> HIDE DEF D
  <2>1. \A k \in 1 .. n, d \in D : step[k][d] \in D
    BY <1>1, <1>2
  <2>2. NothingScored \in D
    BY NothingScoredType DEF D
  <2> HIDE DEF step, n
  <2> QED BY <1>1, <2>1, <2>2 DEF IsSeqFold
<1>4. PICK g : SeqFolded(g, n, D, NothingScored, step)
  <2> HIDE DEF n, D, step
  <2> QED BY <1>3, SeqFoldExists
<1>5. IsIt(g)
  <2>1. ASSUME NEW t \in SUBSET (1 .. n), t # {}
        PROVE  g[t] = AddAnswer(g[t \ {Max(t)}], list[Max(t)])
    <3>1. Max(t) \in 1 .. n
      BY <1>1, <2>1, LastOfRange
    <3>2. g[t] = step[Max(t)][g[t \ {Max(t)}]] /\ g[t \ {Max(t)}] \in D
      <4> HIDE DEF n, D, step
      <4> QED BY <1>4, <2>1 DEF SeqFolded
    <3> HIDE DEF n, D
    <3> QED BY <3>1, <3>2
  <2> HIDE DEF n, D, step
  <2> QED BY <1>4, <2>1 DEF SeqFolded
<1>6. IsIt(iter)
  <2> HIDE DEF IsIt
  <2> QED BY <1>5
<1>7. iter[1 .. n] = FoldLeft(AddAnswer, NothingScored, list)
  BY <1>1 DEF FoldLeft, MapThenFoldSet
<1> HIDE DEF iter
<1> DEFINE h == [k \in 0 .. n |-> iter[1 .. k]]
<1>8. h[0] = NothingScored /\ h[n] = FoldLeft(AddAnswer, NothingScored, list)
  <2>1. 1 .. 0 = {} /\ {} \in SUBSET (1 .. n)
    OBVIOUS
  <2>2. iter[{}] = NothingScored
    BY <1>6, <2>1
  <2>3. h[0] = iter[1 .. 0] /\ h[n] = iter[1 .. n]
    BY <1>1
  <2> HIDE DEF h
  <2>4. h[0] = NothingScored
    BY <2>1, <2>2, <2>3
  <2> QED BY <1>7, <2>3, <2>4, Zenon
<1>9. ASSUME NEW k \in 0 .. n - 1
      PROVE  h[k + 1] = AddAnswer(h[k], list[k + 1])
  <2>1. k + 1 \in 1 .. n /\ k \in 0 .. n /\ k + 1 \in 0 .. n /\ k + 1 - 1 = k
    BY <1>1
  <2>2. /\ Max(1 .. k + 1) = k + 1 /\ (1 .. k + 1) \ {k + 1} = 1 .. k
        /\ 1 .. k + 1 # {} /\ 1 .. k + 1 \in SUBSET (1 .. n)
    BY <1>1, <2>1, LastOfRange
  <2>3. iter[1 .. k + 1] = AddAnswer(iter[1 .. k], list[k + 1])
    <3> HIDE DEF n
    <3> QED BY <1>6, <2>2
  <2> QED BY <2>1, <2>3
<1> HIDE DEF h
<1> QED BY <1>8, <1>9

LEMMA Accepted ==
  ASSUME NEW acc \in AccRows, acc.ok, NEW a, Acceptable(acc, a)
  PROVE  /\ AddAnswer(acc, a).ok
         /\ AddAnswer(acc, a).seen = acc.seen \cup {a.question}
         /\ \A t \in BankKeys :
              /\ AddAnswer(acc, a).sums[t] =
                   IF t = Bank[a.question].trait THEN acc.sums[t] + Normalized(a) ELSE acc.sums[t]
              /\ AddAnswer(acc, a).counts[t] =
                   IF t = Bank[a.question].trait THEN acc.counts[t] + 1 ELSE acc.counts[t]
<1>1. AddAnswer(acc, a) = [acc EXCEPT !.seen = @ \cup {a.question},
                   !.sums[Bank[a.question].trait] = @ + Normalized(a),
                   !.counts[Bank[a.question].trait] = @ + 1]
  BY DEF AddAnswer
<1> QED BY <1>1 DEF AccRows

LEMMA Refused ==
  ASSUME NEW acc \in AccRows, NEW a, ~(acc.ok /\ Acceptable(acc, a))
  PROVE  ~AddAnswer(acc, a).ok
BY DEF AddAnswer, AccRows

OfTrait(seen, t) == {q \in seen : Bank[q].trait = t}
SharesOf(f) == [q \in Questions |-> Share(f, q)]

\* What has been counted after the first k answers of the list.
Counted(acc, list, k) ==
  acc.ok =>
    /\ Cardinality(acc.seen) = k
    /\ \A i \in 1 .. k : list[i].question \in acc.seen /\ list[i].value \in 1 .. AnswerScale
    /\ \A i, j \in 1 .. k : list[i].question = list[j].question => i = j
    /\ \A q \in acc.seen : \E i \in 1 .. k : list[i].question = q
    /\ \A t \in BankKeys : /\ acc.counts[t] = Cardinality(OfTrait(acc.seen, t))
                           /\ acc.sums[t] \in 0 .. acc.counts[t] * (AnswerScale - 1)

\* The first k answers are acceptable ones.
Clean(list, k) ==
  /\ \A i \in 1 .. k : list[i].question \in Questions /\ list[i].value \in 1 .. AnswerScale
  /\ \A i, j \in 1 .. k : list[i].question = list[j].question => i = j

\* The sums are those of the values that f gives.
AddsUp(acc, f) ==
  acc.ok => \A t \in BankKeys :
              acc.sums[t] = PartSum(SharesOf(f), Questions, OfTrait(acc.seen, t))

LEMMA CountedStep ==
  ASSUME NEW acc \in AccRows, NEW list, NEW k \in Nat, Counted(acc, list, k)
  PROVE  Counted(AddAnswer(acc, list[k + 1]), list, k + 1)
<1> DEFINE a == list[k + 1]
           q == a.question
           new == AddAnswer(acc, a)
<1>1. CASE ~(acc.ok /\ Acceptable(acc, a))
  BY <1>1, Refused DEF Counted
<1>2. CASE acc.ok /\ Acceptable(acc, a)
  <2>1. /\ new.ok /\ new.seen = acc.seen \cup {q}
        /\ \A t \in BankKeys :
             /\ new.sums[t] =
                  IF t = Bank[q].trait THEN acc.sums[t] + Normalized(a) ELSE acc.sums[t]
             /\ new.counts[t] =
                  IF t = Bank[q].trait THEN acc.counts[t] + 1 ELSE acc.counts[t]
    BY <1>2, Accepted
  <2>2. q \in Questions /\ q \notin acc.seen /\ a.value \in 1 .. AnswerScale
    BY <1>2 DEF Acceptable
  <2>3. /\ Cardinality(acc.seen) = k
        /\ \A i \in 1 .. k : list[i].question \in acc.seen /\ list[i].value \in 1 .. AnswerScale
        /\ \A i, j \in 1 .. k : list[i].question = list[j].question => i = j
        /\ \A x \in acc.seen : \E i \in 1 .. k : list[i].question = x
        /\ \A t \in BankKeys : /\ acc.counts[t] = Cardinality(OfTrait(acc.seen, t))
                               /\ acc.sums[t] \in 0 .. acc.counts[t] * (AnswerScale - 1)
    BY <1>2 DEF Counted
  <2>4. acc.seen \in SUBSET Questions /\ IsFiniteSet(acc.seen)
    <3>1. acc.seen \in SUBSET Questions
      BY DEF AccRows
    <3> QED BY <3>1, QuestionnaireAssumption, FS_Subset
  <2>5. Normalized(a) \in 0 .. AnswerScale - 1
    BY <2>2, QuestionnaireAssumption DEF Normalized
  <2> HIDE DEF new
  <2>6. Cardinality(new.seen) = k + 1
    <3>1. Cardinality(acc.seen \cup {q}) = Cardinality(acc.seen) + 1
      BY <2>2, <2>4, FS_AddElement
    <3> QED BY <2>1, <2>3, <3>1
  <2>7. ASSUME NEW i \in 1 .. k + 1
        PROVE  list[i].question \in new.seen /\ list[i].value \in 1 .. AnswerScale
    <3>1. i \in 1 .. k \/ i = k + 1
      OBVIOUS
    <3> QED BY <2>1, <2>2, <2>3, <3>1
  <2>8. ASSUME NEW i \in 1 .. k + 1, NEW j \in 1 .. k + 1, list[i].question = list[j].question
        PROVE  i = j
    <3>1. (i \in 1 .. k \/ i = k + 1) /\ (j \in 1 .. k \/ j = k + 1)
      OBVIOUS
    <3> QED BY <2>2, <2>3, <2>8, <3>1
  <2>9. ASSUME NEW x \in new.seen
        PROVE  \E i \in 1 .. k + 1 : list[i].question = x
    <3>1. CASE x = q
      <4>1. k + 1 \in 1 .. k + 1
        OBVIOUS
      <4> QED BY <3>1, <4>1
    <3>2. CASE x \in acc.seen
      <4>1. PICK i \in 1 .. k : list[i].question = x
        BY <2>3, <3>2
      <4>2. i \in 1 .. k + 1
        OBVIOUS
      <4> QED BY <4>1, <4>2
    <3> QED BY <2>1, <3>1, <3>2
  <2>10. ASSUME NEW t \in BankKeys
         PROVE  /\ new.counts[t] = Cardinality(OfTrait(new.seen, t))
                /\ new.sums[t] \in 0 .. new.counts[t] * (AnswerScale - 1)
    <3>1. IsFiniteSet(OfTrait(acc.seen, t)) /\ q \notin OfTrait(acc.seen, t)
          /\ Cardinality(OfTrait(acc.seen, t)) \in Nat
      <4>1. OfTrait(acc.seen, t) \in SUBSET acc.seen
        BY DEF OfTrait
      <4>2. IsFiniteSet(OfTrait(acc.seen, t))
        BY <2>4, <4>1, FS_Subset
      <4> QED BY <2>2, <4>1, <4>2, FS_CardinalityType
    <3>2. CASE t = Bank[q].trait
      <4>1. OfTrait(new.seen, t) = OfTrait(acc.seen, t) \cup {q}
        BY <2>1, <3>2 DEF OfTrait
      <4>2. Cardinality(OfTrait(new.seen, t)) = acc.counts[t] + 1
        <5>1. Cardinality(OfTrait(acc.seen, t) \cup {q}) = Cardinality(OfTrait(acc.seen, t)) + 1
          BY <3>1, FS_AddElement
        <5>2. acc.counts[t] = Cardinality(OfTrait(acc.seen, t))
          BY <2>3
        <5> QED BY <4>1, <5>1, <5>2
      <4>3. new.counts[t] = acc.counts[t] + 1 /\ new.sums[t] = acc.sums[t] + Normalized(a)
        BY <2>1, <3>2
      <4>4. acc.counts[t] \in Nat /\ acc.sums[t] \in 0 .. acc.counts[t] * (AnswerScale - 1)
        BY <2>3, <3>1
      <4> DEFINE m == AnswerScale - 1
      <4>5. m \in Nat /\ Normalized(a) \in 0 .. m /\ acc.sums[t] \in 0 .. acc.counts[t] * m
        BY <2>5, <4>4, QuestionnaireAssumption
      <4> HIDE DEF m
      <4>6. (acc.counts[t] + 1) * m = acc.counts[t] * m + m /\ acc.counts[t] * m \in Nat
        BY <4>4, <4>5
      <4>7. new.sums[t] \in 0 .. new.counts[t] * m
        BY <4>3, <4>5, <4>6
      <4> QED BY <4>2, <4>3, <4>7 DEF m
    <3>3. CASE t # Bank[q].trait
      <4>1. OfTrait(new.seen, t) = OfTrait(acc.seen, t)
        BY <2>1, <3>3 DEF OfTrait
      <4>2. new.counts[t] = acc.counts[t] /\ new.sums[t] = acc.sums[t]
        BY <2>1, <3>3
      <4> QED BY <2>3, <4>1, <4>2
    <3> QED BY <3>2, <3>3
  <2> QED BY <2>6, <2>7, <2>8, <2>9, <2>10 DEF Counted, new
<1> QED BY <1>1, <1>2

LEMMA CleanStep ==
  ASSUME NEW acc \in AccRows, NEW list, NEW k \in Nat, Counted(acc, list, k),
         Clean(list, k) => acc.ok, Clean(list, k + 1)
  PROVE  AddAnswer(acc, list[k + 1]).ok
<1>1. Clean(list, k)
  <2>1. \A i \in 1 .. k : i \in 1 .. k + 1
    OBVIOUS
  <2> QED BY <2>1 DEF Clean
<1>2. k + 1 \in 1 .. k + 1 /\ \A i \in 1 .. k : i \in 1 .. k + 1 /\ i # k + 1
  OBVIOUS
<1>3. list[k + 1].question \in Questions /\ list[k + 1].value \in 1 .. AnswerScale
  BY <1>2 DEF Clean
<1>4. list[k + 1].question \notin acc.seen
  <2>1. \A x \in acc.seen : \E i \in 1 .. k : list[i].question = x
    BY <1>1 DEF Counted
  <2> QED BY <1>2, <2>1 DEF Clean
<1>5. Acceptable(acc, list[k + 1])
  BY <1>3, <1>4 DEF Acceptable
<1> QED BY <1>1, <1>5, Accepted

LEMMA SharesAreSummed ==
  ASSUME NEW f \in [Questions -> 1 .. AnswerScale]
  PROVE  IsSummed(SharesOf(f), Questions)
BY QuestionnaireAssumption DEF IsSummed, SharesOf, Share

LEMMA AddsUpStep ==
  ASSUME NEW acc \in AccRows, NEW f \in [Questions -> 1 .. AnswerScale], AddsUp(acc, f),
         NEW a, a.question \in Questions => a.value = f[a.question]
  PROVE  AddsUp(AddAnswer(acc, a), f)
<1> DEFINE q == a.question
           new == AddAnswer(acc, a)
<1>1. CASE ~(acc.ok /\ Acceptable(acc, a))
  BY <1>1, Refused DEF AddsUp
<1>2. CASE acc.ok /\ Acceptable(acc, a)
  <2>1. /\ new.ok /\ new.seen = acc.seen \cup {q}
        /\ \A t \in BankKeys :
             new.sums[t] =
                  IF t = Bank[q].trait THEN acc.sums[t] + Normalized(a) ELSE acc.sums[t]
    BY <1>2, Accepted
  <2>2. q \in Questions /\ q \notin acc.seen /\ Normalized(a) = SharesOf(f)[q]
    BY <1>2 DEF Acceptable, Normalized, SharesOf, Share
  <2> HIDE DEF new
  <2>3. ASSUME NEW t \in BankKeys
        PROVE  new.sums[t] = PartSum(SharesOf(f), Questions, OfTrait(new.seen, t))
    <3>1. acc.sums[t] = PartSum(SharesOf(f), Questions, OfTrait(acc.seen, t))
      BY <1>2 DEF AddsUp
    <3>2. CASE t = Bank[q].trait
      <4>1. OfTrait(new.seen, t) = OfTrait(acc.seen, t) \cup {q} /\ q \notin OfTrait(acc.seen, t)
        BY <2>1, <2>2, <3>2 DEF OfTrait
      <4>2. PartSum(SharesOf(f), Questions, OfTrait(new.seen, t)) = acc.sums[t] + SharesOf(f)[q]
        BY <2>2, <3>1, <4>1, SharesAreSummed, AddToPart
      <4>3. new.sums[t] = acc.sums[t] + Normalized(a)
        BY <2>1, <3>2
      <4> QED BY <2>2, <4>2, <4>3
    <3>3. CASE t # Bank[q].trait
      <4>1. OfTrait(new.seen, t) = OfTrait(acc.seen, t)
        BY <2>1, <3>3 DEF OfTrait
      <4> QED BY <2>1, <3>1, <3>3, <4>1
    <3> QED BY <3>2, <3>3
  <2> QED BY <2>3 DEF AddsUp, new
<1> QED BY <1>1, <1>2

\* The sum over the questions of a trait, taken on its own.
LEMMA SharesOfTrait ==
  ASSUME NEW f \in [Questions -> 1 .. AnswerScale], NEW mine \in SUBSET Questions
  PROVE  MapThenSumSet(LAMBDA q : Share(f, q), mine) = PartSum(SharesOf(f), Questions, mine)
<1> DEFINE F == SharesOf(f)
           own == [q \in mine |-> F[q]]
           IsIt(it) == it = [s \in SUBSET mine |->
                               IF s = {} THEN 0 ELSE Share(f, First(s)) + it[s \ {First(s)}]]
           iter == CHOOSE it : IsIt(it)
<1>1. IsSummed(F, Questions) /\ IsFiniteSet(mine)
  BY SharesAreSummed, QuestionnaireAssumption, FS_Subset
<1>2. \A q \in Questions : F[q] = Share(f, q) /\ F[q] \in Int
  BY <1>1 DEF SharesOf, IsSummed
<1> HIDE DEF F
<1>3. IsSummed(own, mine) /\ \A q \in mine : own[q] = Share(f, q)
  BY <1>1, <1>2 DEF IsSummed
<1> HIDE DEF own
<1>4. PICK g : Summed(g, own, mine)
  BY <1>3, SumsExist
<1>5. \A t \in SUBSET mine : t # {} => First(t) \in t
  BY DEF First
<1>6. IsIt(g)
  <2>1. ASSUME NEW t \in SUBSET mine, t # {}
        PROVE  g[t] = Share(f, First(t)) + g[t \ {First(t)}]
    BY <1>3, <1>4, <1>5, <2>1 DEF Summed
  <2> QED BY <1>4, <2>1 DEF Summed
<1>7. IsIt(iter)
  <2> HIDE DEF IsIt
  <2> QED BY <1>6
<1>8. iter[mine] = MapThenSumSet(LAMBDA q : Share(f, q), mine)
  BY DEF MapThenSumSet, MapThenFoldSet, First
<1> HIDE DEF iter
<1> DEFINE P == {t \in SUBSET mine : iter[t] = PartSum(F, Questions, t)}
<1>9. {} \in P
  <2>1. iter[{}] = 0
    BY <1>7
  <2> QED BY <1>1, <2>1, NothingSummed
<1>10. ASSUME NEW t \in SUBSET mine, t # {}, t \ {First(t)} \in P
       PROVE  t \in P
  <2> DEFINE x == First(t)
             rest == t \ {x}
  <2>1. x \in t /\ x \in Questions /\ x \notin rest /\ t = rest \cup {x}
    BY <1>5, <1>10
  <2>2. iter[t] = Share(f, x) + iter[rest]
    BY <1>7, <1>10
  <2>3. iter[rest] = PartSum(F, Questions, rest)
    BY <1>10
  <2> HIDE DEF x, rest
  <2>4. PartSum(F, Questions, rest \cup {x}) = PartSum(F, Questions, rest) + F[x]
    BY <1>1, <2>1, AddToPart
  <2>5. PartSum(F, Questions, rest) \in Int
    BY <1>1, PartSumType
  <2>6. PartSum(F, Questions, t) = PartSum(F, Questions, rest) + F[x]
    BY <2>1, <2>4
  <2> QED BY <1>2, <2>1, <2>2, <2>3, <2>5, <2>6
<1> HIDE DEF P
<1>11. SUBSET mine \subseteq P
  BY <1>1, <1>9, <1>10, PartByPart
<1> QED BY <1>8, <1>11 DEF P, F

\* Everything that is known of a sheet when all of it has been looked at.
LEMMA SheetCounted ==
  ASSUME NEW T, NEW list, list \in Seq(T)
  PROVE  LET acc == FoldLeft(AddAnswer, NothingScored, list)
         IN  /\ acc \in AccRows /\ Counted(acc, list, Len(list))
             /\ Clean(list, Len(list)) => acc.ok
             /\ \A f \in [Questions -> 1 .. AnswerScale] :
                  (\A i \in 1 .. Len(list) : list[i].question \in Questions
                                               => list[i].value = f[list[i].question])
                    => AddsUp(acc, f)
<1> DEFINE n == Len(list)
           Answers(f) == \A i \in 1 .. n : list[i].question \in Questions
                                             => list[i].value = f[list[i].question]
<1>1. PICK h : /\ h[0] = NothingScored
               /\ h[n] = FoldLeft(AddAnswer, NothingScored, list)
               /\ \A k \in 0 .. n - 1 : h[k + 1] = AddAnswer(h[k], list[k + 1])
  BY AnswersAdded
<1> DEFINE Fits(k) == /\ h[k] \in AccRows /\ Counted(h[k], list, k)
                      /\ Clean(list, k) => h[k].ok
                      /\ \A f \in [Questions -> 1 .. AnswerScale] : Answers(f) => AddsUp(h[k], f)
           good == {k \in 0 .. n : Fits(k)}
<1>2. n \in Nat
  OBVIOUS
<1>3. 0 \in good
  <2>1. OfTrait({}, "any") = {} /\ \A t : OfTrait({}, t) = {}
    BY DEF OfTrait
  <2>2. NothingScored \in AccRows /\ NothingScored.seen = {}
        /\ \A t \in BankKeys : NothingScored.sums[t] = 0 /\ NothingScored.counts[t] = 0
    BY NothingScoredType DEF NothingScored
  <2>3. Counted(NothingScored, list, 0)
    <3> DEFINE acc == NothingScored
    <3>1. 1 .. 0 = {} /\ Cardinality(acc.seen) = 0
      BY <2>2, FS_EmptySet
    <3>2. ASSUME NEW t \in BankKeys
          PROVE  /\ acc.counts[t] = Cardinality(OfTrait(acc.seen, t))
                 /\ acc.sums[t] \in 0 .. acc.counts[t] * (AnswerScale - 1)
      <4>1. acc.counts[t] = 0 /\ acc.sums[t] = 0 /\ OfTrait(acc.seen, t) = {}
        BY <2>1, <2>2
      <4>2. 0 \in 0 .. 0 * (AnswerScale - 1)
        BY QuestionnaireAssumption
      <4> HIDE DEF acc
      <4> QED BY <4>1, <4>2, FS_EmptySet
    <3> HIDE DEF acc
    <3>3. Counted(acc, list, 0)
      BY <2>2, <3>1, <3>2 DEF Counted, acc
    <3> QED BY <3>3 DEF acc
  <2>4. \A f \in [Questions -> 1 .. AnswerScale] : AddsUp(NothingScored, f)
    BY <2>1, <2>2, SharesAreSummed, NothingSummed DEF AddsUp
  <2>5. Fits(0)
    <3> HIDE DEF Answers
    <3>1. NothingScored.ok
      BY DEF NothingScored
    <3> QED BY <1>1, <2>2, <2>3, <2>4, <3>1
  <2>6. 0 \in 0 .. n
    BY <1>2
  <2> HIDE DEF Fits, n
  <2> QED BY <2>5, <2>6
<1>4. ASSUME NEW k \in 0 .. n - 1, k \in good
      PROVE  k + 1 \in good
  <2>1. k \in Nat /\ k + 1 \in 1 .. n /\ k + 1 \in 0 .. n
    BY <1>2
  <2>2. h[k + 1] = AddAnswer(h[k], list[k + 1])
    BY <1>1
  <2>3. Fits(k)
    <3> HIDE DEF Fits
    <3> QED BY <1>4
  <2>4. h[k + 1] \in AccRows /\ Counted(h[k + 1], list, k + 1)
    BY <2>1, <2>2, <2>3, AddAnswerType, CountedStep
  <2>7. Clean(list, k + 1) => h[k + 1].ok
    BY <2>1, <2>2, <2>3, CleanStep
  <2>5. ASSUME NEW f \in [Questions -> 1 .. AnswerScale], Answers(f)
        PROVE  AddsUp(h[k + 1], f)
    <3>1. list[k + 1].question \in Questions => list[k + 1].value = f[list[k + 1].question]
      BY <2>1, <2>5
    <3>2. AddsUp(h[k], f) /\ h[k] \in AccRows
      BY <2>3, <2>5
    <3> QED BY <2>2, <3>1, <3>2, AddsUpStep
  <2>6. Fits(k + 1)
    <3> HIDE DEF Answers
    <3> QED BY <2>4, <2>5, <2>7
  <2> HIDE DEF Fits, n
  <2> QED BY <2>1, <2>6
<1> HIDE DEF good
<1>5. 0 .. n \subseteq good
  <2> HIDE DEF n
  <2> QED BY <1>2, <1>3, <1>4, UpTo
<1>6. Fits(n)
  <2>1. n \in good
    BY <1>2, <1>5
  <2> HIDE DEF Fits
  <2> QED BY <2>1 DEF good
<1>7. /\ h[n] \in AccRows /\ Counted(h[n], list, n) /\ (Clean(list, n) => h[n].ok)
      /\ \A f \in [Questions -> 1 .. AnswerScale] : Answers(f) => AddsUp(h[n], f)
  BY <1>6
<1> QED BY <1>1, <1>7

LEMMA SheetsFollowTypes ==
  ASSUME QuestionnaireTypeOK
  PROVE  SheetsAreScoredSoundly
<1> DEFINE n == Len(sheet)
           acc == FoldLeft(AddAnswer, NothingScored, sheet)
           Rows == [question: Questions \cup {OtherQuestion}, value: Marks]
           m == AnswerScale - 1
<1>1. sheet \in Seq(Rows)
  BY DEF QuestionnaireTypeOK
<1>2. /\ n \in Nat /\ DOMAIN sheet = 1 .. n
      /\ \A i \in 1 .. n : sheet[i] \in Rows
  <2> HIDE DEF Rows
  <2> QED BY <1>1
<1>3. \A i \in 1 .. n :
        sheet[i] = [question |-> sheet[i].question, value |-> sheet[i].value]
  BY <1>2
<1>4. /\ acc \in AccRows /\ Counted(acc, sheet, n) /\ (Clean(sheet, n) => acc.ok)
      /\ \A f \in [Questions -> 1 .. AnswerScale] :
           (\A i \in 1 .. n : sheet[i].question \in Questions
                                => sheet[i].value = f[sheet[i].question])
             => AddsUp(acc, f)
  <2> HIDE DEF Rows
  <2> QED BY <1>1, SheetCounted
<1>5. ScoreSheet(sheet) =
        IF acc.ok /\ Questions \subseteq acc.seen
        THEN [ok |-> TRUE,
              traits |-> [t \in BankKeys |-> [num |-> acc.sums[t],
                                              den |-> acc.counts[t] * m]]]
        ELSE Rejected
  BY DEF ScoreSheet
<1> HIDE DEF acc, n, Rows
<1>6. ScoreSheet(sheet).ok <=> acc.ok /\ Questions \subseteq acc.seen
  BY <1>5 DEF Rejected
<1>7. acc.seen \in SUBSET Questions
  BY <1>4 DEF AccRows
<1>8. ToSet(sheet) = {sheet[i] : i \in 1 .. n}
  BY <1>2 DEF ToSet
<1>9. ASSUME acc.ok, Questions \subseteq acc.seen
      PROVE  Responses # {}
  <2>1. /\ Cardinality(Questions) = n
        /\ \A i \in 1 .. n : sheet[i].question \in Questions /\ sheet[i].value \in 1 .. AnswerScale
        /\ \A i, j \in 1 .. n : sheet[i].question = sheet[j].question => i = j
        /\ \A q \in Questions : \E i \in 1 .. n : sheet[i].question = q
    <3>1. acc.seen = Questions
      BY <1>7, <1>9
    <3> QED BY <1>4, <1>9, <3>1 DEF Counted
  <2> DEFINE at(q) == CHOOSE i \in 1 .. n : sheet[i].question = q
             f == [q \in Questions |-> sheet[at(q)].value]
             pairs == {[question |-> q, value |-> f[q]] : q \in Questions}
  <2>2. \A q \in Questions : at(q) \in 1 .. n /\ sheet[at(q)].question = q
    BY <2>1
  <2>3. \A i \in 1 .. n : at(sheet[i].question) = i
    <3> HIDE DEF at
    <3> QED BY <2>1, <2>2
  <2> HIDE DEF at
  <2>4. f \in [Questions -> 1 .. AnswerScale]
    BY <2>1, <2>2
  <2>5. \A i \in 1 .. n : f[sheet[i].question] = sheet[i].value
    BY <2>1, <2>3
  <2>6. \A q \in Questions : f[q] = sheet[at(q)].value
    OBVIOUS
  <2> HIDE DEF f
  <2>7. \A i \in 1 .. n : sheet[i] \in pairs
    BY <1>3, <2>1, <2>5
  <2>8. \A q \in Questions : [question |-> q, value |-> f[q]] \in {sheet[i] : i \in 1 .. n}
    <3> SUFFICES ASSUME NEW q \in Questions
                 PROVE  [question |-> q, value |-> f[q]] = sheet[at(q)]
      BY <2>2
    <3> QED BY <1>3, <2>2, <2>6
  <2>9. ToSet(sheet) = pairs
    BY <1>8, <2>7, <2>8
  <2> QED BY <2>1, <2>4, <2>9 DEF Responses, n
<1>10. ASSUME NEW f \in Responses
       PROVE  /\ f \in [Questions -> 1 .. AnswerScale]
              /\ acc.ok /\ acc.seen = Questions
              /\ \A i \in 1 .. n : sheet[i].value = f[sheet[i].question]
  <2>1. /\ f \in [Questions -> 1 .. AnswerScale] /\ n = Cardinality(Questions)
        /\ ToSet(sheet) = {[question |-> q, value |-> f[q]] : q \in Questions}
    BY DEF Responses, n
  <2>2. \A i \in 1 .. n : /\ sheet[i].question \in Questions
                          /\ sheet[i].value = f[sheet[i].question]
    <3> SUFFICES ASSUME NEW i \in 1 .. n
                 PROVE  /\ sheet[i].question \in Questions
                        /\ sheet[i].value = f[sheet[i].question]
      OBVIOUS
    <3>1. PICK q \in Questions : sheet[i] = [question |-> q, value |-> f[q]]
      BY <1>8, <2>1
    <3> QED BY <3>1
  <2>3. \A q \in Questions : \E i \in 1 .. n : sheet[i].question = q
    <3> SUFFICES ASSUME NEW q \in Questions
                 PROVE  \E i \in 1 .. n : sheet[i].question = q
      OBVIOUS
    <3>1. [question |-> q, value |-> f[q]] \in {sheet[i] : i \in 1 .. n}
      BY <1>8, <2>1
    <3>2. PICK i \in 1 .. n : sheet[i] = [question |-> q, value |-> f[q]]
      BY <3>1
    <3> QED BY <3>2
  <2> DEFINE s == [i \in 1 .. n |-> sheet[i].question]
  <2>4. s \in Surjection(1 .. n, Questions)
    BY <2>2, <2>3 DEF Surjection
  <2>5. IsFiniteSet(1 .. n) /\ Cardinality(1 .. n) = Cardinality(Questions)
    BY <1>2, <2>1, FS_Interval
  <2>6. s \in Injection(1 .. n, Questions)
    <3> HIDE DEF s
    <3> QED BY <2>4, <2>5, FS_SurjSameCardinalityImpliesInj
  <2>7. \A i, j \in 1 .. n : sheet[i].question = sheet[j].question => i = j
    BY <2>6 DEF Injection, IsInjective
  <2>8. Clean(sheet, n)
    BY <2>1, <2>2, <2>7 DEF Clean
  <2>9. acc.ok /\ \A i \in 1 .. n : sheet[i].question \in acc.seen
    BY <1>4, <2>8 DEF Counted
  <2>10. acc.seen = Questions
    BY <1>7, <2>3, <2>9
  <2> QED BY <2>1, <2>2, <2>9, <2>10
<1>11. ASSUME NEW f \in Responses, NEW t \in BankKeys
       PROVE  LET mine == {q \in Questions : Bank[q].trait = t}
                  r == ScoreSheet(sheet).traits[t]
              IN  /\ 0 <= r.num /\ r.num <= r.den /\ r.den > 0
                  /\ r.num * Cardinality(mine) * (AnswerScale - 1)
                       = r.den * MapThenSumSet(LAMBDA q : Share(f, q), mine)
  <2> DEFINE mine == {q \in Questions : Bank[q].trait = t}
             r == ScoreSheet(sheet).traits[t]
             c == Cardinality(mine)
             sum == MapThenSumSet(LAMBDA q : Share(f, q), mine)
  <2>1. /\ f \in [Questions -> 1 .. AnswerScale] /\ acc.ok /\ acc.seen = Questions
        /\ \A i \in 1 .. n : sheet[i].value = f[sheet[i].question]
    BY <1>10
  <2>2. r.num = acc.sums[t] /\ r.den = acc.counts[t] * m
    <3>1. ScoreSheet(sheet) =
            [ok |-> TRUE, traits |-> [x \in BankKeys |-> [num |-> acc.sums[x],
                                                         den |-> acc.counts[x] * m]]]
      BY <1>5, <2>1
    <3> QED BY <3>1
  <2>3. OfTrait(acc.seen, t) = mine
    BY <2>1 DEF OfTrait
  <2>4. acc.counts[t] = c /\ acc.sums[t] \in 0 .. acc.counts[t] * m
    BY <1>4, <2>1, <2>3 DEF Counted
  <2>5. acc.sums[t] = sum
    <3>1. AddsUp(acc, f)
      BY <1>4, <2>1
    <3>2. mine \in SUBSET Questions
      OBVIOUS
    <3>3. sum = PartSum(SharesOf(f), Questions, mine)
      <4> HIDE DEF mine
      <4> QED BY <2>1, <3>2, SharesOfTrait
    <3> HIDE DEF sum, mine
    <3> QED BY <2>1, <2>3, <3>1, <3>3 DEF AddsUp
  <2>6. c \in Nat \ {0}
    <3>1. IsFiniteSet(mine) /\ mine # {}
      <4>1. mine \in SUBSET Questions
        OBVIOUS
      <4>2. mine # {}
        BY DEF BankKeys
      <4> QED BY <4>1, <4>2, QuestionnaireAssumption, FS_Subset
    <3> HIDE DEF mine
    <3> QED BY <3>1, FS_CardinalityType, FS_EmptySet
  <2>7. m \in Nat \ {0}
    BY QuestionnaireAssumption
  <2> HIDE DEF c, sum, m, r, mine
  <2>8. \A x, y, z \in Nat : x * y * z = (y * z) * x /\ y * z \in Nat
    OBVIOUS
  <2>9. c * m \in Nat \ {0}
    BY <2>6, <2>7
  <2>10. sum \in 0 .. c * m /\ r.num = sum /\ r.den = c * m
    BY <2>2, <2>4, <2>5
  <2>11. sum * c * m = (c * m) * sum
    BY <2>6, <2>7, <2>8, <2>9, <2>10
  <2>12. 0 <= r.num /\ r.num <= r.den /\ r.den > 0 /\ r.num * c * m = r.den * sum
    BY <2>9, <2>10, <2>11
  <2> QED BY <2>12 DEF c, sum, m, r, mine
<1> QED
  <2>1. ScoreSheet(sheet).ok <=> Responses # {}
    <3>1. Responses # {} => acc.ok /\ acc.seen = Questions
      BY <1>10
    <3> QED BY <1>6, <1>9, <3>1
  <2> QED BY <1>11, <2>1 DEF SheetsAreScoredSoundly

-----------------------------------------------------------------------------
\* Profile: the gallery, and what the forms ask of it.

\* DropValue adds the values other than the one it drops.
AddOther(out, v, value) == IF v # value THEN Append(out, v) ELSE out

LEMMA OthersAdded ==
  ASSUME NEW T, NEW list, list \in Seq(T), NEW value
  PROVE  \E h : /\ h[0] = <<>> /\ h[Len(list)] = DropValue(list, value)
                /\ \A k \in 0 .. Len(list) - 1 : h[k + 1] = AddOther(h[k], list[k + 1], value)
<1> DEFINE n == Len(list)
           D == Seq(T)
           step == [k \in 1 .. n |-> [d \in D |-> AddOther(d, list[k], value)]]
           IsIt(it) == it = [s \in SUBSET (1 .. n) |->
                               IF s = {} THEN <<>>
                               ELSE AddOther(it[s \ {Max(s)}], list[Max(s)], value)]
           iter == CHOOSE it : IsIt(it)
<1>1. n \in Nat /\ DOMAIN list = 1 .. n /\ \A k \in 1 .. n : list[k] \in T
  OBVIOUS
<1>2. ASSUME NEW d \in D, NEW v \in T
      PROVE  AddOther(d, v, value) \in D
  BY DEF AddOther
<1>3. IsSeqFold(n, D, <<>>, step)
  BY <1>1, <1>2 DEF IsSeqFold
<1>4. PICK g : SeqFolded(g, n, D, <<>>, step)
  <2> HIDE DEF n, D, step
  <2> QED BY <1>3, SeqFoldExists
<1>5. IsIt(g)
  <2>1. ASSUME NEW t \in SUBSET (1 .. n), t # {}
        PROVE  g[t] = AddOther(g[t \ {Max(t)}], list[Max(t)], value)
    <3>1. Max(t) \in 1 .. n
      BY <1>1, <2>1, LastOfRange
    <3>2. g[t] = step[Max(t)][g[t \ {Max(t)}]] /\ g[t \ {Max(t)}] \in D
      <4> HIDE DEF n, D, step
      <4> QED BY <1>4, <2>1 DEF SeqFolded
    <3> HIDE DEF n, D
    <3> QED BY <3>1, <3>2
  <2> HIDE DEF n, D, step
  <2> QED BY <1>4, <2>1 DEF SeqFolded
<1>6. IsIt(iter)
  <2> HIDE DEF IsIt
  <2> QED BY <1>5
<1>7. iter[1 .. n] = DropValue(list, value)
  BY <1>1 DEF DropValue, FoldLeft, MapThenFoldSet, AddOther
<1> HIDE DEF iter
<1> DEFINE h == [k \in 0 .. n |-> iter[1 .. k]]
<1>8. h[0] = <<>> /\ h[n] = DropValue(list, value)
  <2>1. 1 .. 0 = {} /\ {} \in SUBSET (1 .. n)
    OBVIOUS
  <2> QED BY <1>1, <1>6, <1>7, <2>1
<1>9. ASSUME NEW k \in 0 .. n - 1
      PROVE  h[k + 1] = AddOther(h[k], list[k + 1], value)
  <2>1. k + 1 \in 1 .. n /\ k \in 0 .. n /\ k + 1 \in 0 .. n /\ k + 1 - 1 = k
    BY <1>1
  <2>2. /\ Max(1 .. k + 1) = k + 1 /\ (1 .. k + 1) \ {k + 1} = 1 .. k
        /\ 1 .. k + 1 # {} /\ 1 .. k + 1 \in SUBSET (1 .. n)
    BY <1>1, <2>1, LastOfRange
  <2>3. iter[1 .. k + 1] = AddOther(iter[1 .. k], list[k + 1], value)
    <3> HIDE DEF n
    <3> QED BY <1>6, <2>2
  <2> QED BY <2>1, <2>3
<1> HIDE DEF h
<1> QED BY <1>8, <1>9

\* WithoutRepeats adds the photos that are not there yet.
AddNew(out, p) == IF p \in ToSet(out) THEN out ELSE Append(out, p)

LEMMA NewOnesAdded ==
  ASSUME NEW T, NEW list, list \in Seq(T)
  PROVE  \E h : /\ h[0] = <<>> /\ h[Len(list)] = WithoutRepeats(list)
                /\ \A k \in 0 .. Len(list) - 1 : h[k + 1] = AddNew(h[k], list[k + 1])
<1> DEFINE n == Len(list)
           D == Seq(T)
           step == [k \in 1 .. n |-> [d \in D |-> AddNew(d, list[k])]]
           IsIt(it) == it = [s \in SUBSET (1 .. n) |->
                               IF s = {} THEN <<>>
                               ELSE AddNew(it[s \ {Max(s)}], list[Max(s)])]
           iter == CHOOSE it : IsIt(it)
<1>1. n \in Nat /\ DOMAIN list = 1 .. n /\ \A k \in 1 .. n : list[k] \in T
  OBVIOUS
<1>2. ASSUME NEW d \in D, NEW v \in T
      PROVE  AddNew(d, v) \in D
  BY DEF AddNew
<1>3. IsSeqFold(n, D, <<>>, step)
  BY <1>1, <1>2 DEF IsSeqFold
<1>4. PICK g : SeqFolded(g, n, D, <<>>, step)
  <2> HIDE DEF n, D, step
  <2> QED BY <1>3, SeqFoldExists
<1>5. IsIt(g)
  <2>1. ASSUME NEW t \in SUBSET (1 .. n), t # {}
        PROVE  g[t] = AddNew(g[t \ {Max(t)}], list[Max(t)])
    <3>1. Max(t) \in 1 .. n
      BY <1>1, <2>1, LastOfRange
    <3>2. g[t] = step[Max(t)][g[t \ {Max(t)}]] /\ g[t \ {Max(t)}] \in D
      <4> HIDE DEF n, D, step
      <4> QED BY <1>4, <2>1 DEF SeqFolded
    <3> HIDE DEF n, D
    <3> QED BY <3>1, <3>2
  <2> HIDE DEF n, D, step
  <2> QED BY <1>4, <2>1 DEF SeqFolded
<1>6. IsIt(iter)
  <2> HIDE DEF IsIt
  <2> QED BY <1>5
<1>7. iter[1 .. n] = WithoutRepeats(list)
  BY <1>1 DEF WithoutRepeats, FoldLeft, MapThenFoldSet, AddNew
<1> HIDE DEF iter
<1> DEFINE h == [k \in 0 .. n |-> iter[1 .. k]]
<1>8. h[0] = <<>> /\ h[n] = WithoutRepeats(list)
  <2>1. 1 .. 0 = {} /\ {} \in SUBSET (1 .. n)
    OBVIOUS
  <2> QED BY <1>1, <1>6, <1>7, <2>1
<1>9. ASSUME NEW k \in 0 .. n - 1
      PROVE  h[k + 1] = AddNew(h[k], list[k + 1])
  <2>1. k + 1 \in 1 .. n /\ k \in 0 .. n /\ k + 1 \in 0 .. n /\ k + 1 - 1 = k
    BY <1>1
  <2>2. /\ Max(1 .. k + 1) = k + 1 /\ (1 .. k + 1) \ {k + 1} = 1 .. k
        /\ 1 .. k + 1 # {} /\ 1 .. k + 1 \in SUBSET (1 .. n)
    BY <1>1, <2>1, LastOfRange
  <2>3. iter[1 .. k + 1] = AddNew(iter[1 .. k], list[k + 1])
    <3> HIDE DEF n
    <3> QED BY <1>6, <2>2
  <2> QED BY <2>1, <2>3
<1> HIDE DEF h
<1> QED BY <1>8, <1>9

\* Where the value stands, or the place behind the last.
StandsAt(list, value, j) ==
  j \in 1 .. Len(list) + 1 /\ \A k \in 1 .. Len(list) : list[k] = value <=> k = j

LEMMA StandsSomewhere ==
  ASSUME NEW T, NEW list, list \in Seq(T), IsInjective(list), NEW value
  PROVE  \E j : StandsAt(list, value, j)
<1>1. Len(list) \in Nat /\ DOMAIN list = 1 .. Len(list)
  OBVIOUS
<1>2. CASE \E j \in 1 .. Len(list) : list[j] = value
  <2>1. PICK j \in 1 .. Len(list) : list[j] = value
    BY <1>2
  <2>2. \A k \in 1 .. Len(list) : list[k] = value <=> k = j
    BY <1>1, <2>1 DEF IsInjective
  <2>3. j \in 1 .. Len(list) + 1
    BY <1>1, <2>1
  <2> QED BY <2>2, <2>3 DEF StandsAt
<1>3. CASE ~ \E j \in 1 .. Len(list) : list[j] = value
  <2>1. \A k \in 1 .. Len(list) : list[k] = value <=> k = Len(list) + 1
    BY <1>1, <1>3
  <2>2. Len(list) + 1 \in 1 .. Len(list) + 1
    BY <1>1
  <2> QED BY <2>1, <2>2 DEF StandsAt
<1> QED BY <1>2, <1>3

\* The list without its j-th entry.
Without(list, j, k) ==
  [i \in 1 .. (IF j <= k THEN k - 1 ELSE k) |-> IF i < j THEN list[i] ELSE list[i + 1]]

\* A value that stands at one place only is dropped from there.
LEMMA DropsOne ==
  ASSUME NEW T, NEW list, list \in Seq(T), NEW value, NEW j, StandsAt(list, value, j)
  PROVE  DropValue(list, value) = Without(list, j, Len(list))
<1> DEFINE n == Len(list)
<1>1. PICK h : /\ h[0] = <<>> /\ h[n] = DropValue(list, value)
               /\ \A k \in 0 .. n - 1 : h[k + 1] = AddOther(h[k], list[k + 1], value)
  BY OthersAdded
<1> DEFINE good == {k \in 0 .. n : h[k] = Without(list, j, k)}
<1>2. n \in Nat /\ j \in 1 .. n + 1 /\ \A k \in 1 .. n : list[k] \in T
  BY DEF StandsAt
<1>3. 0 \in good
  <2>1. Without(list, j, 0) = <<>>
    BY <1>2 DEF Without
  <2> QED BY <1>1, <1>2, <2>1
<1>4. ASSUME NEW k \in 0 .. n - 1, k \in good
      PROVE  k + 1 \in good
  <2>1. k \in Nat /\ k + 1 \in 1 .. n /\ h[k] = Without(list, j, k)
        /\ h[k + 1] = AddOther(h[k], list[k + 1], value)
    BY <1>1, <1>2, <1>4
  <2>2. CASE k + 1 = j
    <3>1. list[k + 1] = value
      BY <2>1, <2>2 DEF StandsAt
    <3>2. h[k + 1] = h[k]
      BY <2>1, <3>1 DEF AddOther
    <3>3. Without(list, j, k + 1) = Without(list, j, k)
      BY <2>1, <2>2 DEF Without
    <3> QED BY <2>1, <3>2, <3>3
  <2>3. CASE k + 1 # j
    <3>1. list[k + 1] # value
      BY <2>1, <2>3 DEF StandsAt
    <3>2. h[k + 1] = Append(h[k], list[k + 1])
      BY <2>1, <3>1 DEF AddOther
    <3>3. Append(Without(list, j, k), list[k + 1]) = Without(list, j, k + 1)
      <4>1. CASE k + 1 < j
        <5>1. /\ Without(list, j, k) = [i \in 1 .. k |-> list[i]]
              /\ Without(list, j, k + 1) = [i \in 1 .. k + 1 |-> list[i]]
          BY <1>2, <2>1, <4>1 DEF Without
        <5> QED BY <2>1, <5>1
      <4>2. CASE j <= k
        <5>1. /\ Without(list, j, k) = [i \in 1 .. k - 1 |-> IF i < j THEN list[i] ELSE list[i + 1]]
              /\ Without(list, j, k + 1) = [i \in 1 .. k |-> IF i < j THEN list[i] ELSE list[i + 1]]
          BY <1>2, <2>1, <4>2 DEF Without
        <5>2. k - 1 \in Nat /\ k - 1 + 1 = k /\ ~(k < j)
          BY <1>2, <2>1, <4>2
        <5> QED BY <2>1, <5>1, <5>2
      <4> QED BY <1>2, <2>1, <2>3, <4>1, <4>2
    <3> QED BY <2>1, <3>2, <3>3
  <2> QED BY <2>2, <2>3
<1> HIDE DEF good
<1>5. 0 .. n \subseteq good
  <2> HIDE DEF n
  <2> QED BY <1>2, <1>3, <1>4, UpTo
<1>6. n \in good
  BY <1>2, <1>5
<1> QED BY <1>1, <1>6 DEF good

\* The photo in front, then the others: entry i is entry i of the old gallery,
\* or the one before if the photo did not stand before it.
InFront(list, photo, j, n) ==
  [i \in 1 .. n |-> IF i = 1 THEN photo ELSE IF i <= j THEN list[i - 1] ELSE list[i]]

FrontLength(list, j) ==
  LET all == IF j <= Len(list) THEN Len(list) ELSE Len(list) + 1
  IN  IF all > MaxPhotos THEN MaxPhotos ELSE all

LEMMA PhotoComesFirst ==
  ASSUME NEW T, NEW list, list \in Seq(T), NEW photo, NEW j, StandsAt(list, photo, j)
  PROVE  WithPhotoFirst(list, photo) = InFront(list, photo, j, FrontLength(list, j))
<1> DEFINE n == Len(list)
           m == IF j <= n THEN n - 1 ELSE n
           rest == [i \in 1 .. m |-> IF i < j THEN list[i] ELSE list[i + 1]]
           all == <<photo>> \o rest
<1>1. n \in Nat /\ j \in 1 .. n + 1 /\ m \in Nat /\ MaxPhotos \in Nat \ {0}
      /\ \A k \in 1 .. n : list[k] \in T
  BY ProfileAssumption DEF StandsAt
<1>2. DropValue(list, photo) = rest
  BY DropsOne DEF Without
<1>3. all \in Seq(T \cup {photo}) /\ Len(all) = m + 1
      /\ \A i \in 1 .. m + 1 : all[i] = IF i = 1 THEN photo ELSE rest[i - 1]
  <2>1. rest \in Seq(T)
    <3>1. \A i \in 1 .. m : (IF i < j THEN list[i] ELSE list[i + 1]) \in T
      BY <1>1
    <3> HIDE DEF m
    <3> QED BY <1>1, <3>1
  <2>2. Len(rest) = m
    <3> HIDE DEF m
    <3> QED BY <1>1
  <2> HIDE DEF rest, m
  <2> QED BY <1>1, <2>1, <2>2
<1>4. \A i \in 1 .. m + 1 : all[i] = InFront(list, photo, j, m + 1)[i]
  <2> SUFFICES ASSUME NEW i \in 1 .. m + 1, i # 1
               PROVE  rest[i - 1] = IF i <= j THEN list[i - 1] ELSE list[i]
    BY <1>3 DEF InFront
  <2>1. i - 1 \in 1 .. m /\ i - 1 + 1 = i /\ (i - 1 < j <=> i <= j)
    BY <1>1
  <2> HIDE DEF m
  <2> QED BY <2>1
<1>5. WithPhotoFirst(list, photo) = IF Len(all) > MaxPhotos THEN SubSeq(all, 1, MaxPhotos) ELSE all
  BY <1>2 DEF WithPhotoFirst
<1> HIDE DEF all
<1>6. CASE m + 1 > MaxPhotos
  <2>1. SubSeq(all, 1, MaxPhotos) = [i \in 1 .. MaxPhotos |-> all[i]]
    <3> HIDE DEF m
    <3> QED BY <1>1, <1>3, <1>6
  <2>2. \A i \in 1 .. MaxPhotos : all[i] = InFront(list, photo, j, MaxPhotos)[i]
    <3> HIDE DEF m
    <3> QED BY <1>1, <1>4, <1>6 DEF InFront
  <2>3. FrontLength(list, j) = MaxPhotos
    BY <1>1, <1>6 DEF FrontLength
  <2>4. [i \in 1 .. MaxPhotos |-> all[i]] = InFront(list, photo, j, MaxPhotos)
    BY <2>2 DEF InFront
  <2>5. WithPhotoFirst(list, photo) = SubSeq(all, 1, MaxPhotos)
    BY <1>3, <1>5, <1>6
  <2> QED BY <2>1, <2>3, <2>4, <2>5
<1>7. CASE m + 1 <= MaxPhotos
  <2>1. FrontLength(list, j) = m + 1
    BY <1>1, <1>7 DEF FrontLength
  <2>2. all = InFront(list, photo, j, m + 1)
    <3>1. all = [i \in 1 .. m + 1 |-> all[i]]
      BY <1>1, <1>3
    <3> HIDE DEF m
    <3> QED BY <1>4, <3>1 DEF InFront
  <2>3. ~(m + 1 > MaxPhotos)
    BY <1>1, <1>7
  <2> QED BY <1>3, <1>5, <2>1, <2>2, <2>3
<1> QED BY <1>1, <1>6, <1>7

LEMMA FrontIsAList ==
  ASSUME NEW T, NEW list, list \in Seq(T), IsInjective(list),
         NEW photo \in T, NEW j, StandsAt(list, photo, j)
  PROVE  /\ FrontLength(list, j) \in 1 .. MaxPhotos
         /\ InFront(list, photo, j, FrontLength(list, j)) \in Seq(T)
         /\ IsInjective(InFront(list, photo, j, FrontLength(list, j)))
<1> DEFINE n == FrontLength(list, j)
           new == InFront(list, photo, j, n)
<1>1. /\ Len(list) \in Nat /\ j \in 1 .. Len(list) + 1 /\ MaxPhotos \in Nat \ {0}
      /\ \A k \in 1 .. Len(list) : list[k] \in T /\ (list[k] = photo <=> k = j)
  BY ProfileAssumption DEF StandsAt
<1>2. /\ n \in 1 .. MaxPhotos
      /\ n <= IF j <= Len(list) THEN Len(list) ELSE Len(list) + 1
  BY <1>1 DEF FrontLength
<1> HIDE DEF n
<1>3. \A i \in 1 .. n : i # 1 =>
        IF i <= j THEN i - 1 \in 1 .. Len(list) /\ i - 1 # j
                  ELSE i \in 1 .. Len(list) /\ i # j
  BY <1>1, <1>2
<1>4. \A i \in 1 .. n : new[i] \in T /\ (new[i] = photo <=> i = 1)
  BY <1>1, <1>3 DEF InFront
<1>5. n \in Nat /\ DOMAIN new = 1 .. n /\ new = [i \in 1 .. n |-> new[i]]
  BY <1>2 DEF InFront
<1>6. new \in Seq(T)
  <2> HIDE DEF new
  <2> QED BY <1>4, <1>5
<1>7. ASSUME NEW a \in 1 .. n, NEW b \in 1 .. n, new[a] = new[b]
      PROVE  a = b
  <2>1. CASE a = 1 \/ b = 1
    BY <1>4, <1>7, <2>1
  <2>2. CASE a # 1 /\ b # 1
    <3> DEFINE From(i) == IF i <= j THEN i - 1 ELSE i
    <3>1. new[a] = list[From(a)] /\ new[b] = list[From(b)]
      BY <2>2 DEF InFront
    <3>2. From(a) \in DOMAIN list /\ From(b) \in DOMAIN list
      BY <1>3, <2>2
    <3>3. From(a) = From(b)
      <4> HIDE DEF From
      <4> QED BY <1>7, <3>1, <3>2 DEF IsInjective
    <3>4. From(a) # j /\ From(b) # j
      BY <1>3, <2>2
    <3> QED BY <1>1, <1>2, <3>3, <3>4
  <2> QED BY <2>1, <2>2
<1>8. IsInjective(new)
  BY <1>5, <1>7 DEF IsInjective
<1> QED BY <1>2, <1>6, <1>8 DEF n

FirstOnes(list, k) == [i \in 1 .. k |-> list[i]]

\* What is left of a list is a list of the same photos, each once.
LEMMA EachOnce ==
  ASSUME NEW T, NEW list, list \in Seq(T)
  PROVE  /\ WithoutRepeats(list) \in Seq(T) /\ IsInjective(WithoutRepeats(list))
         /\ Len(WithoutRepeats(list)) <= Len(list)
         /\ IsInjective(list) => WithoutRepeats(list) = list
<1> DEFINE n == Len(list)
<1>1. PICK h : /\ h[0] = <<>> /\ h[n] = WithoutRepeats(list)
               /\ \A k \in 0 .. n - 1 : h[k + 1] = AddNew(h[k], list[k + 1])
  BY NewOnesAdded
<1> DEFINE Fits(k) == /\ h[k] \in Seq(T) /\ IsInjective(h[k]) /\ Len(h[k]) <= k
                      /\ IsInjective(list) => h[k] = FirstOnes(list, k)
           good == {k \in 0 .. n : Fits(k)}
<1>2. n \in Nat /\ DOMAIN list = 1 .. n /\ \A k \in 1 .. n : list[k] \in T
  OBVIOUS
<1>3. 0 \in good
  <2>1. <<>> \in Seq(T) /\ Len(<<>>) = 0 /\ <<>> = FirstOnes(list, 0) /\ DOMAIN <<>> = {}
    BY DEF FirstOnes
  <2>2. IsInjective(<<>>)
    BY <2>1 DEF IsInjective
  <2>3. Fits(0)
    BY <1>1, <2>1, <2>2
  <2>4. 0 \in 0 .. n
    BY <1>2
  <2> HIDE DEF Fits
  <2> QED BY <2>3, <2>4
<1>4. ASSUME NEW k \in 0 .. n - 1, k \in good
      PROVE  k + 1 \in good
  <2>1. /\ k \in Nat /\ k + 1 \in 0 .. n /\ list[k + 1] \in T
        /\ h[k] \in Seq(T) /\ IsInjective(h[k]) /\ Len(h[k]) <= k
        /\ IsInjective(list) => h[k] = FirstOnes(list, k)
        /\ h[k + 1] = AddNew(h[k], list[k + 1])
    <3>1. Fits(k)
      <4> HIDE DEF Fits
      <4> QED BY <1>4
    <3>2. /\ k \in Nat /\ k + 1 \in 0 .. n /\ list[k + 1] \in T
          /\ h[k + 1] = AddNew(h[k], list[k + 1])
      BY <1>1, <1>2
    <3> QED BY <3>1, <3>2
  <2>2. CASE list[k + 1] \in ToSet(h[k])
    <3>1. h[k + 1] = h[k]
      BY <2>1, <2>2 DEF AddNew
    <3>2. ~ IsInjective(list)
      <4> SUFFICES ASSUME IsInjective(list) PROVE FALSE
        OBVIOUS
      <4>1. PICK i \in 1 .. k : list[i] = list[k + 1]
        BY <2>1, <2>2 DEF ToSet, FirstOnes
      <4> QED BY <1>2, <2>1, <4>1 DEF IsInjective
    <3> QED BY <2>1, <3>1, <3>2
  <2>3. CASE list[k + 1] \notin ToSet(h[k])
    <3>1. h[k + 1] = Append(h[k], list[k + 1])
      BY <2>1, <2>3 DEF AddNew
    <3>2. h[k + 1] \in Seq(T) /\ Len(h[k + 1]) <= k + 1
      BY <2>1, <3>1
    <3>3. IsInjective(h[k + 1])
      <4>1. \A i \in 1 .. Len(h[k]) : h[k][i] # list[k + 1]
        BY <2>1, <2>3 DEF ToSet
      <4>2. /\ DOMAIN h[k + 1] = 1 .. Len(h[k]) + 1
            /\ h[k + 1][Len(h[k]) + 1] = list[k + 1]
            /\ \A i \in 1 .. Len(h[k]) : h[k + 1][i] = h[k][i]
        BY <2>1, <3>1
      <4>3. DOMAIN h[k] = 1 .. Len(h[k]) /\ Len(h[k]) \in Nat
        BY <2>1
      <4> SUFFICES ASSUME NEW a \in 1 .. Len(h[k]) + 1, NEW b \in 1 .. Len(h[k]) + 1,
                          h[k + 1][a] = h[k + 1][b]
                   PROVE  a = b
        BY <4>2 DEF IsInjective
      <4>4. CASE a \in 1 .. Len(h[k]) /\ b \in 1 .. Len(h[k])
        <5>1. h[k][a] = h[k][b]
          BY <4>2, <4>4
        <5>2. IsInjective(h[k])
          BY <2>1
        <5> QED BY ONLY <4>3, <4>4, <5>1, <5>2 DEF IsInjective
      <4>5. CASE a = Len(h[k]) + 1 /\ b \in 1 .. Len(h[k])
        BY <4>1, <4>2, <4>5
      <4>6. CASE b = Len(h[k]) + 1 /\ a \in 1 .. Len(h[k])
        BY <4>1, <4>2, <4>6
      <4> QED BY <4>3, <4>4, <4>5, <4>6
    <3>4. IsInjective(list) => h[k + 1] = FirstOnes(list, k + 1)
      <4> SUFFICES ASSUME IsInjective(list) PROVE h[k + 1] = FirstOnes(list, k + 1)
        OBVIOUS
      <4>1. h[k] = FirstOnes(list, k)
        BY <2>1
      <4> QED BY <2>1, <3>1, <4>1 DEF FirstOnes
    <3> QED BY <2>1, <3>2, <3>3, <3>4
  <2> QED BY <2>2, <2>3
<1> HIDE DEF good
<1>5. 0 .. n \subseteq good
  <2> HIDE DEF n
  <2> QED BY <1>2, <1>3, <1>4, UpTo
<1>6. n \in good
  BY <1>2, <1>5
<1>7. list = FirstOnes(list, n)
  BY <1>2 DEF FirstOnes
<1>8. Fits(n)
  <2> HIDE DEF Fits
  <2> QED BY <1>6 DEF good
<1>9. /\ h[n] \in Seq(T) /\ IsInjective(h[n]) /\ Len(h[n]) <= n
      /\ IsInjective(list) => h[n] = FirstOnes(list, n)
  BY <1>8
<1>10. h[n] = WithoutRepeats(list)
  BY <1>1
<1> QED
  <2> HIDE DEF n
  <2>1. /\ WithoutRepeats(list) \in Seq(T) /\ IsInjective(WithoutRepeats(list))
        /\ Len(WithoutRepeats(list)) <= n
        /\ IsInjective(list) => WithoutRepeats(list) = list
    BY <1>7, <1>9, <1>10
  <2> QED BY <2>1 DEF n

ProfileRows == [bio: {"", "text"}, born: BOOLEAN, gallery: Seq(AnyPhotos),
                primary: AnyPhotos \cup {NoPhoto}, photoUrl: AnyPhotos \cup {NoPhoto}]

SavingRows == [replacing: BOOLEAN, list: Seq(AnyPhotos),
               promoted: AnyPhotos \cup {NoPhoto}, alone: BOOLEAN]

\* What a form is going to write was worked out from the gallery that is there,
\* unless another call has written it since.
FormFits(c) ==
  saving[c].replacing /\ saving[c].alone /\ saving[c].promoted # NoPhoto
    => saving[c].list = WithPhotoFirst(profile.gallery, saving[c].promoted)

ProfileInv ==
  /\ profile \in ProfileRows
  /\ saving \in [ProfileCalls -> SavingRows]
  /\ GalleryShape
  /\ \A c \in ProfileCalls : FormFits(c)

LEMMA ProfileInvImplies ==
  ASSUME ProfileInv
  PROVE  ProfileTypeOK /\ GalleryShape
BY DEF ProfileInv, ProfileTypeOK, ProfileRows, SavingRows

LEMMA UrlListIsAList ==
  ASSUME NEW n \in Nat, NEW list \in UrlLists(n)
  PROVE  list \in Seq(AnyPhotos) /\ Len(list) \in 0 .. n
<1>1. PICK k \in 0 .. n : list \in [1 .. k -> AnyPhotos]
  BY DEF UrlLists
<1>2. list = [i \in 1 .. k |-> list[i]] /\ \A i \in 1 .. k : list[i] \in AnyPhotos
  BY <1>1
<1> QED BY <1>1, <1>2

LEMMA NoneIsAList == <<>> \in Seq(AnyPhotos)
OBVIOUS

LEMMA IdleSavingType ==
  IdleSaving \in SavingRows /\ ~IdleSaving.replacing
BY NoneIsAList DEF IdleSaving, SavingRows

LEMMA ProfileInitInv ==
  ASSUME ProfileInit
  PROVE  ProfileInv
<1>1. PICK list \in UrlLists(1) :
        profile = [bio |-> "", born |-> FALSE, gallery |-> list,
                   primary |-> FirstPhoto(list), photoUrl |-> FirstPhoto(list)]
  BY DEF ProfileInit
<1>2. list \in Seq(AnyPhotos) /\ Len(list) \in 0 .. 1 /\ DOMAIN list = 1 .. Len(list)
  <2>1. list \in Seq(AnyPhotos) /\ Len(list) \in 0 .. 1
    BY UrlListIsAList
  <2> QED BY <2>1
<1>3. FirstPhoto(list) \in AnyPhotos \cup {NoPhoto}
  BY <1>2 DEF FirstPhoto
<1>4. profile \in ProfileRows
  BY <1>1, <1>2, <1>3 DEF ProfileRows
<1>5. saving \in [ProfileCalls -> SavingRows] /\ \A c \in ProfileCalls : FormFits(c)
  BY IdleSavingType DEF ProfileInit, FormFits
<1>6. IsInjective(list) /\ (BadPhoto \in ToSet(list) => list = <<BadPhoto>>)
  <2>1. IsInjective(list)
    BY <1>2 DEF IsInjective
  <2>2. ASSUME BadPhoto \in ToSet(list) PROVE list = <<BadPhoto>>
    BY <1>2, <2>2 DEF ToSet
  <2> QED BY <2>1, <2>2
<1>7. GalleryShape
  <2>1. Len(list) <= MaxPhotos
    BY <1>2, ProfileAssumption
  <2> QED BY <1>1, <1>6, <2>1 DEF GalleryShape
<1> QED BY <1>4, <1>5, <1>7 DEF ProfileInv

\* A gallery that is stored has its shape, whatever stood there.
LEMMA StoreStep ==
  ASSUME ProfileInv, NEW c \in ProfileCalls, NEW list \in Seq(AnyPhotos),
         ListIsTaken(list), StoreGallery(c, WithoutRepeats(list))
  PROVE  ProfileInv'
<1> DEFINE new == WithoutRepeats(list)
<1>1. list \in Seq(Photos) /\ Len(list) <= MaxPhotos
  <2>1. \A k \in 1 .. Len(list) : list[k] # BadPhoto /\ list[k] \in AnyPhotos
    BY DEF ListIsTaken, ToSet
  <2>2. list = [k \in 1 .. Len(list) |-> list[k]] /\ Len(list) \in Nat
    OBVIOUS
  <2>3. \A k \in 1 .. Len(list) : list[k] \in Photos
    BY <2>1 DEF AnyPhotos
  <2> QED BY <2>2, <2>3 DEF ListIsTaken
<1>2. new \in Seq(Photos) /\ IsInjective(new) /\ Len(new) <= MaxPhotos
  <2>1. new \in Seq(Photos) /\ IsInjective(new) /\ Len(new) <= Len(list)
    BY <1>1, EachOnce
  <2> HIDE DEF new
  <2> QED BY <1>1, <2>1, ProfileAssumption
<1> HIDE DEF new
<1>3. new \in Seq(AnyPhotos) /\ FirstPhoto(new) \in AnyPhotos \cup {NoPhoto}
      /\ BadPhoto \notin ToSet(new)
  BY <1>2, ProfileAssumption DEF AnyPhotos, FirstPhoto, ToSet
<1>4. profile' = [profile EXCEPT !.gallery = new, !.primary = FirstPhoto(new),
                                 !.photoUrl = FirstPhoto(new)]
  BY DEF StoreGallery, new
<1>5. profile' \in ProfileRows /\ profile'.gallery = new /\ profile'.primary = FirstPhoto(new)
      /\ profile'.photoUrl = FirstPhoto(new)
  BY <1>3, <1>4 DEF ProfileInv, ProfileRows
<1>6. GalleryShape'
  BY <1>2, <1>3, <1>5 DEF GalleryShape
<1>7. saving' = [d \in ProfileCalls |->
                   IF d = c THEN IdleSaving ELSE [saving[d] EXCEPT !.alone = FALSE]]
  BY DEF StoreGallery
<1>8. saving' \in [ProfileCalls -> SavingRows]
      /\ \A d \in ProfileCalls : saving'[d].replacing => ~saving'[d].alone
  BY <1>7, IdleSavingType DEF ProfileInv, SavingRows
<1> QED BY <1>5, <1>6, <1>8 DEF ProfileInv, FormFits

\* What a call is doing changes, and the gallery does not.
LEMMA SavingChanges ==
  ASSUME ProfileInv, NEW c \in ProfileCalls, NEW state \in SavingRows,
         profile' \in ProfileRows,
         profile'.gallery = profile.gallery, profile'.primary = profile.primary,
         profile'.photoUrl = profile.photoUrl,
         saving' = [saving EXCEPT ![c] = state],
         state.replacing /\ state.alone /\ state.promoted # NoPhoto
           => state.list = WithPhotoFirst(profile.gallery, state.promoted)
  PROVE  ProfileInv'
<1>1. GalleryShape'
  BY DEF ProfileInv, GalleryShape
<1>2. saving' \in [ProfileCalls -> SavingRows]
  BY DEF ProfileInv
<1>3. ASSUME NEW d \in ProfileCalls PROVE FormFits(d)'
  <2>1. saving'[d] = IF d = c THEN state ELSE saving[d]
    BY DEF ProfileInv
  <2> QED BY <2>1 DEF ProfileInv, FormFits
<1> QED BY <1>1, <1>2, <1>3 DEF ProfileInv

\* The gallery the old form asks for is a list of photos.
LEMMA AskedForIsAList ==
  ASSUME NEW list \in Seq(AnyPhotos), IsInjective(list), NEW photo \in AnyPhotos
  PROVE  WithPhotoFirst(list, photo) \in Seq(AnyPhotos)
<1>1. PICK j : StandsAt(list, photo, j)
  BY StandsSomewhere
<1> QED BY <1>1, PhotoComesFirst, FrontIsAList

LEMMA UpdatedRowType ==
  ASSUME ProfileInv, NEW bios \in {{}, {""}, {"text"}}
  PROVE  /\ UpdatedRow(bios) \in ProfileRows
         /\ UpdatedRow(bios).gallery = profile.gallery
         /\ UpdatedRow(bios).primary = profile.primary
         /\ UpdatedRow(bios).photoUrl = profile.photoUrl
<1>1. bios # {} => (CHOOSE b \in bios : TRUE) \in {"", "text"}
  OBVIOUS
<1>2. profile \in ProfileRows
  BY DEF ProfileInv
<1> QED BY <1>1, <1>2 DEF UpdatedRow, ProfileRows

LEMMA ProfileNextInv ==
  ASSUME ProfileInv, [ProfileNext]_profileVars
  PROVE  ProfileInv'
<1>1. ASSUME NEW c \in ProfileCalls, PutProfile(c)
      PROVE  ProfileInv'
  <2>1. PICK bios \in {{}, {""}, {"text"}}, born \in BOOLEAN : MergeProfile(c, bios, born)
    BY <1>1 DEF PutProfile
  <2>2. /\ profile' = [UpdatedRow(bios) EXCEPT !.born = @ \/ born]
        /\ saving' = saving
    BY <2>1 DEF MergeProfile
  <2>3. profile' \in ProfileRows /\ profile'.gallery = profile.gallery
        /\ profile'.primary = profile.primary /\ profile'.photoUrl = profile.photoUrl
    BY <2>2, UpdatedRowType DEF ProfileRows
  <2> QED BY <2>2, <2>3 DEF ProfileInv, GalleryShape, FormFits
<1>2. ASSUME NEW c \in ProfileCalls, PutPhotos(c)
      PROVE  ProfileInv'
  <2>1. PICK list \in UrlLists(MaxSent) :
          SetPhotos(c, list) \/ (BadPhoto \notin ToSet(list) /\ SetAssets(c, list))
    BY <1>2 DEF PutPhotos
  <2>2. list \in Seq(AnyPhotos)
    BY UrlListIsAList, ProfileAssumption
  <2>3. CASE SetPhotos(c, list)
    BY <2>2, <2>3, StoreStep DEF SetPhotos
  <2>4. CASE SetAssets(c, list)
    <3> DEFINE state == [IdleSaving EXCEPT !.replacing = TRUE, !.list = list]
    <3>1. state \in SavingRows /\ ~state.alone
      BY <2>2 DEF IdleSaving, SavingRows
    <3>2. saving' = [saving EXCEPT ![c] = state] /\ profile' = profile
      BY <2>4 DEF SetAssets
    <3>3. profile \in ProfileRows
      BY DEF ProfileInv
    <3> HIDE DEF state
    <3> QED BY <3>1, <3>2, <3>3, SavingChanges
  <2> QED BY <2>1, <2>3, <2>4
<1>3. ASSUME NEW c \in ProfileCalls, PutForm(c)
      PROVE  ProfileInv'
  <2>1. PICK bio \in {"", "text"}, photo \in AnyPhotos \cup {NoPhoto} : SaveForm(c, bio, photo)
    BY <1>3 DEF PutForm
  <2>2. profile' = UpdatedRow({bio})
    BY <2>1 DEF SaveForm
  <2>3. profile' \in ProfileRows /\ profile'.gallery = profile.gallery
        /\ profile'.primary = profile.primary /\ profile'.photoUrl = profile.photoUrl
    <3>1. {bio} \in {{}, {""}, {"text"}}
      OBVIOUS
    <3> QED BY <2>2, <3>1, UpdatedRowType
  <2>4. CASE photo = FirstPhoto(profile.gallery)
    <3>1. saving' = saving
      BY <2>1, <2>4 DEF SaveForm
    <3> QED BY <2>3, <3>1 DEF ProfileInv, GalleryShape, FormFits
  <2>5. CASE photo # FirstPhoto(profile.gallery)
    <3> DEFINE list == IF photo = NoPhoto THEN <<>> ELSE WithPhotoFirst(profile.gallery, photo)
               state == [IdleSaving EXCEPT !.replacing = TRUE, !.promoted = photo,
                                           !.alone = TRUE, !.list = list]
    <3>1. list \in Seq(AnyPhotos)
      <4>1. profile.gallery \in Seq(AnyPhotos) /\ IsInjective(profile.gallery)
        BY DEF ProfileInv, ProfileRows, GalleryShape
      <4>2. CASE photo = NoPhoto
        <5>1. list = <<>>
          BY <4>2
        <5>2. <<>> \in Seq(AnyPhotos)
          BY NoneIsAList
        <5> HIDE DEF list
        <5> QED BY <5>1, <5>2, Zenon
      <4>3. CASE photo # NoPhoto
        <5>1. photo \in AnyPhotos
          BY <4>3
        <5>2. WithPhotoFirst(profile.gallery, photo) \in Seq(AnyPhotos)
          BY <4>1, <5>1, AskedForIsAList
        <5>3. list = WithPhotoFirst(profile.gallery, photo)
          BY <4>3
        <5> HIDE DEF list
        <5> QED BY <5>2, <5>3
      <4> HIDE DEF list
      <4> QED BY <4>2, <4>3
    <3>2. saving' = [saving EXCEPT ![c] = state]
      BY <2>1, <2>5 DEF SaveForm
    <3>3. photo # NoPhoto => list = WithPhotoFirst(profile.gallery, photo)
      OBVIOUS
    <3> HIDE DEF list
    <3>4. state \in SavingRows /\ state.list = list /\ state.promoted = photo
      BY <3>1 DEF IdleSaving, SavingRows
    <3> HIDE DEF state
    <3> QED BY <2>3, <3>2, <3>3, <3>4, SavingChanges
  <2> QED BY <2>4, <2>5
<1>4. ASSUME NEW c \in ProfileCalls, ReplaceGallery(c) \/ SavingStops(c)
      PROVE  ProfileInv'
  <2>1. saving[c] \in SavingRows /\ profile \in ProfileRows
    BY DEF ProfileInv
  <2>2. saving[c].list \in Seq(AnyPhotos)
    BY <2>1 DEF SavingRows
  <2>3. CASE ListIsTaken(saving[c].list) /\ StoreGallery(c, WithoutRepeats(saving[c].list))
    BY <2>2, <2>3, StoreStep
  <2>4. CASE SavingEnds(c) /\ UNCHANGED profile
    BY <2>1, <2>4, IdleSavingType, SavingChanges DEF SavingEnds
  <2> QED BY <1>4, <2>3, <2>4 DEF ReplaceGallery, SavingStops
<1>5. CASE UNCHANGED profileVars
  BY <1>5 DEF profileVars, ProfileInv, GalleryShape, FormFits
<1> QED BY <1>1, <1>2, <1>3, <1>4, <1>5 DEF ProfileNext

\* The gallery with the photo in front, entry by entry.
LEMMA FrontKeepsPhotos ==
  ASSUME NEW T, NEW old, old \in Seq(T), IsInjective(old), Len(old) <= MaxPhotos,
         NEW photo \in T, NEW j, StandsAt(old, photo, j),
         NEW new, new = InFront(old, photo, j, FrontLength(old, j))
  PROVE  /\ FirstPhoto(new) = photo
         /\ \A k \in DOMAIN old :
              LET Moved == IF \E i \in 1 .. k : old[i] = photo THEN k ELSE k + 1
              IN  old[k] # photo /\ Moved <= MaxPhotos => new[Moved] = old[k]
         /\ Len(new) = IF photo \in ToSet(old) \/ Len(old) = MaxPhotos
                       THEN Len(old) ELSE Len(old) + 1
<1> DEFINE n == Len(old)
           m == FrontLength(old, j)
<1>1. /\ n \in Nat /\ j \in 1 .. n + 1 /\ n <= MaxPhotos /\ MaxPhotos \in Nat \ {0}
      /\ DOMAIN old = 1 .. n
      /\ \A k \in 1 .. n : old[k] \in T /\ (old[k] = photo <=> k = j)
  BY ProfileAssumption DEF StandsAt
<1>2. /\ m \in 1 .. MaxPhotos
      /\ m = IF j <= n \/ n = MaxPhotos THEN n ELSE n + 1
  <2>1. m = LET all == IF j <= n THEN n ELSE n + 1
            IN  IF all > MaxPhotos THEN MaxPhotos ELSE all
    BY DEF FrontLength
  <2>2. j <= n => 1 <= n
    BY <1>1
  <2> HIDE DEF n, m
  <2>3. CASE j <= n
    BY <1>1, <2>1, <2>2, <2>3
  <2>4. CASE ~(j <= n)
    BY <1>1, <2>1, <2>4
  <2> QED BY <2>3, <2>4
<1> HIDE DEF m
<1>3. new = [i \in 1 .. m |-> IF i = 1 THEN photo ELSE IF i <= j THEN old[i - 1] ELSE old[i]]
  BY DEF InFront, m
<1> HIDE DEF n
<1>4. Len(new) = m /\ FirstPhoto(new) = photo
  <2>1. Len(new) = m /\ new[1] = photo
    BY <1>2, <1>3
  <2>2. new # <<>>
    BY <1>2, <2>1
  <2> QED BY <2>1, <2>2 DEF FirstPhoto
<1>5. photo \in ToSet(old) <=> j <= n
  BY <1>1 DEF ToSet
<1>6. ASSUME NEW k \in DOMAIN old, old[k] # photo
      PROVE  LET Moved == IF \E i \in 1 .. k : old[i] = photo THEN k ELSE k + 1
             IN  Moved <= MaxPhotos => new[Moved] = old[k]
  <2>1. k \in 1 .. n /\ k # j
    BY <1>1, <1>6
  <2>2. (\E i \in 1 .. k : old[i] = photo) <=> j < k
    BY <1>1, <2>1
  <2>3. CASE j < k
    <3>1. k <= MaxPhotos => new[k] = old[k]
      BY <1>1, <1>2, <1>3, <2>1, <2>3
    <3> QED BY <2>2, <2>3, <3>1
  <2>4. CASE k < j
    <3>1. k + 1 <= MaxPhotos => new[k + 1] = old[k]
      <4> SUFFICES ASSUME k + 1 <= MaxPhotos PROVE new[k + 1] = old[k]
        OBVIOUS
      <4>1. k + 1 \in 1 .. m /\ k + 1 # 1 /\ k + 1 <= j /\ k + 1 - 1 = k
        BY <1>1, <1>2, <2>1, <2>4
      <4> QED BY <1>3, <4>1
    <3>2. ~(j < k)
      BY <1>1, <2>1, <2>4
    <3> QED BY <2>2, <3>1, <3>2
  <2> QED BY <1>1, <2>1, <2>3, <2>4
<1> QED BY <1>2, <1>4, <1>5, <1>6 DEF n

LEMMA ProfileNextKeeps ==
  ASSUME ProfileInv, [ProfileNext]_profileVars, NEW c \in ProfileCalls
  PROVE  KeepsPhotos(c)
<1> DEFINE photo == saving[c].promoted
           old == profile.gallery
           new == profile'.gallery
<1> SUFFICES ASSUME new # old, saving[c].replacing, ~saving'[c].replacing,
                    photo # NoPhoto, saving[c].alone
             PROVE  /\ FirstPhoto(new) = photo
                    /\ \A k \in DOMAIN old :
                         LET Moved == IF \E i \in 1 .. k : old[i] = photo THEN k ELSE k + 1
                         IN  old[k] # photo /\ Moved <= MaxPhotos => new[Moved] = old[k]
                    /\ Len(new) = IF photo \in ToSet(old) \/ Len(old) = MaxPhotos
                                  THEN Len(old) ELSE Len(old) + 1
  BY DEF KeepsPhotos
<1>1. /\ profile \in ProfileRows /\ saving \in [ProfileCalls -> SavingRows]
      /\ old \in Seq(AnyPhotos) /\ IsInjective(old) /\ Len(old) <= MaxPhotos
      /\ photo \in AnyPhotos
  <2>1. /\ profile \in ProfileRows /\ saving \in [ProfileCalls -> SavingRows]
        /\ IsInjective(old) /\ Len(old) <= MaxPhotos
    BY DEF ProfileInv, GalleryShape
  <2>2. saving[c] \in SavingRows
    BY <2>1
  <2> QED BY <2>1, <2>2 DEF ProfileRows, SavingRows
<1>2. saving[c].list = WithPhotoFirst(old, photo)
  BY DEF ProfileInv, FormFits
<1>3. ASSUME NEW d \in ProfileCalls, NEW list, StoreGallery(d, list)
      PROVE  d = c /\ new = list
  <2>1. /\ profile' = [profile EXCEPT !.gallery = list, !.primary = FirstPhoto(list),
                                      !.photoUrl = FirstPhoto(list)]
        /\ saving'[c] = IF c = d THEN IdleSaving ELSE [saving[c] EXCEPT !.alone = FALSE]
    BY <1>3 DEF StoreGallery
  <2>2. d = c
    BY <1>1, <2>1 DEF SavingRows
  <2> QED BY <1>1, <2>1, <2>2 DEF ProfileRows
<1>4. new = WithoutRepeats(saving[c].list)
  <2>1. ASSUME NEW d \in ProfileCalls, PutProfile(d)
        PROVE  FALSE
    <3>1. PICK bios \in {{}, {""}, {"text"}}, born \in BOOLEAN : MergeProfile(d, bios, born)
      BY <2>1 DEF PutProfile
    <3> QED BY <3>1 DEF MergeProfile
  <2>2. ASSUME NEW d \in ProfileCalls, PutPhotos(d)
        PROVE  FALSE
    <3>1. PICK list \in UrlLists(MaxSent) : SetPhotos(d, list) \/ SetAssets(d, list)
      BY <2>2 DEF PutPhotos
    <3>2. ~SetAssets(d, list)
      BY DEF SetAssets
    <3> QED BY <1>3, <3>1, <3>2 DEF SetPhotos, Idle
  <2>3. ASSUME NEW d \in ProfileCalls, PutForm(d)
        PROVE  FALSE
    <3>1. PICK bio \in {"", "text"}, sent \in AnyPhotos \cup {NoPhoto} : SaveForm(d, bio, sent)
      BY <2>3 DEF PutForm
    <3>2. profile' = UpdatedRow({bio})
      BY <3>1 DEF SaveForm
    <3> QED BY <1>1, <3>2 DEF UpdatedRow, ProfileRows
  <2>4. ASSUME NEW d \in ProfileCalls, ReplaceGallery(d)
        PROVE  new = WithoutRepeats(saving[c].list)
    BY <1>3, <2>4 DEF ReplaceGallery
  <2>5. ASSUME NEW d \in ProfileCalls, SavingStops(d)
        PROVE  FALSE
    BY <2>5 DEF SavingStops
  <2>6. ~ UNCHANGED profileVars
    BY DEF profileVars
  <2> QED BY <2>1, <2>2, <2>3, <2>4, <2>5, <2>6 DEF ProfileNext
<1> HIDE DEF photo, old, new
<1>5. PICK j : StandsAt(old, photo, j)
  BY <1>1, StandsSomewhere
<1>6. new = InFront(old, photo, j, FrontLength(old, j))
  <2>1. saving[c].list = InFront(old, photo, j, FrontLength(old, j))
    BY <1>1, <1>2, <1>5, PhotoComesFirst
  <2>2. saving[c].list \in Seq(AnyPhotos) /\ IsInjective(saving[c].list)
    BY <1>1, <1>5, <2>1, FrontIsAList
  <2> QED BY <1>4, <2>1, <2>2, EachOnce
<1> QED BY <1>1, <1>5, <1>6, FrontKeepsPhotos

-----------------------------------------------------------------------------
\* Preferences: the settings row, the validation before it and the constraints
\* behind it.

\* GendersOf adds one word after the other.
AddGender(out, w) ==
  IF GenderAliases[w] \in ToSet(out) THEN out ELSE Append(out, GenderAliases[w])

LEMMA GendersAdded ==
  ASSUME NEW words, words \in Seq(DOMAIN GenderAliases)
  PROVE  \E h : /\ h[0] = <<>> /\ h[Len(words)] = GendersOf(words)
                /\ \A k \in 0 .. Len(words) - 1 : h[k + 1] = AddGender(h[k], words[k + 1])
<1> DEFINE n == Len(words)
           D == Seq(Genders)
           step == [k \in 1 .. n |-> [d \in D |-> AddGender(d, words[k])]]
           IsIt(it) == it = [s \in SUBSET (1 .. n) |->
                               IF s = {} THEN <<>>
                               ELSE AddGender(it[s \ {Max(s)}], words[Max(s)])]
           iter == CHOOSE it : IsIt(it)
<1>1. n \in Nat /\ DOMAIN words = 1 .. n /\ \A k \in 1 .. n : words[k] \in DOMAIN GenderAliases
  OBVIOUS
<1>2. ASSUME NEW d \in D, NEW w \in DOMAIN GenderAliases
      PROVE  AddGender(d, w) \in D
  BY PreferencesAssumption DEF AddGender
<1>3. IsSeqFold(n, D, <<>>, step)
  BY <1>1, <1>2 DEF IsSeqFold
<1>4. PICK g : SeqFolded(g, n, D, <<>>, step)
  <2> HIDE DEF n, D, step
  <2> QED BY <1>3, SeqFoldExists
<1>5. IsIt(g)
  <2>1. ASSUME NEW t \in SUBSET (1 .. n), t # {}
        PROVE  g[t] = AddGender(g[t \ {Max(t)}], words[Max(t)])
    <3>1. Max(t) \in 1 .. n
      BY <1>1, <2>1, LastOfRange
    <3>2. g[t] = step[Max(t)][g[t \ {Max(t)}]] /\ g[t \ {Max(t)}] \in D
      <4> HIDE DEF n, D, step
      <4> QED BY <1>4, <2>1 DEF SeqFolded
    <3> HIDE DEF n, D
    <3> QED BY <3>1, <3>2
  <2> HIDE DEF n, D, step
  <2> QED BY <1>4, <2>1 DEF SeqFolded
<1>6. IsIt(iter)
  <2> HIDE DEF IsIt
  <2> QED BY <1>5
<1>7. iter[1 .. n] = GendersOf(words)
  BY <1>1 DEF GendersOf, FoldLeft, MapThenFoldSet, AddGender
<1> HIDE DEF iter
<1> DEFINE h == [k \in 0 .. n |-> iter[1 .. k]]
<1>8. h[0] = <<>> /\ h[n] = GendersOf(words)
  <2>1. 1 .. 0 = {} /\ {} \in SUBSET (1 .. n)
    OBVIOUS
  <2> QED BY <1>1, <1>6, <1>7, <2>1
<1>9. ASSUME NEW k \in 0 .. n - 1
      PROVE  h[k + 1] = AddGender(h[k], words[k + 1])
  <2>1. k + 1 \in 1 .. n /\ k \in 0 .. n /\ k + 1 \in 0 .. n /\ k + 1 - 1 = k
    BY <1>1
  <2>2. /\ Max(1 .. k + 1) = k + 1 /\ (1 .. k + 1) \ {k + 1} = 1 .. k
        /\ 1 .. k + 1 # {} /\ 1 .. k + 1 \in SUBSET (1 .. n)
    BY <1>1, <2>1, LastOfRange
  <2>3. iter[1 .. k + 1] = AddGender(iter[1 .. k], words[k + 1])
    <3> HIDE DEF n
    <3> QED BY <1>6, <2>2
  <2> QED BY <2>1, <2>3
<1> HIDE DEF h
<1> QED BY <1>8, <1>9

\* What the validation lets through lists genders.
LEMMA GendersAreGenders ==
  ASSUME NEW words, words \in Seq(DOMAIN GenderAliases)
  PROVE  GendersOf(words) \in Seq(Genders)
<1> DEFINE n == Len(words)
<1>1. PICK h : /\ h[0] = <<>> /\ h[n] = GendersOf(words)
               /\ \A k \in 0 .. n - 1 : h[k + 1] = AddGender(h[k], words[k + 1])
  BY GendersAdded
<1> DEFINE good == {k \in 0 .. n : h[k] \in Seq(Genders)}
<1>2. n \in Nat /\ 0 \in good
  <2>1. n \in Nat
    OBVIOUS
  <2>2. h[0] \in Seq(Genders)
    <3>1. <<>> \in Seq(Genders)
      OBVIOUS
    <3> QED BY <1>1, <3>1
  <2> QED BY <2>1, <2>2
<1>3. ASSUME NEW k \in 0 .. n - 1, k \in good
      PROVE  k + 1 \in good
  <2>1. k + 1 \in 0 .. n /\ words[k + 1] \in DOMAIN GenderAliases
    BY <1>2
  <2>2. h[k] \in Seq(Genders) /\ GenderAliases[words[k + 1]] \in Genders
    BY <1>3, <2>1, PreferencesAssumption
  <2>3. AddGender(h[k], words[k + 1]) \in Seq(Genders)
    BY <2>2 DEF AddGender
  <2> QED BY <1>1, <2>1, <2>3
<1> HIDE DEF good
<1>4. 0 .. n \subseteq good
  <2> HIDE DEF n
  <2> QED BY <1>2, <1>3, UpTo
<1>5. n \in 0 .. n
  BY <1>2
<1> QED BY <1>1, <1>4, <1>5 DEF good

PreferencesRows ==
  [ageMin: Nat \cup {NotSent}, ageMax: Nat \cup {NotSent},
   genders: Seq(Genders), distance: Int \cup {NotSent}]

\* The row has its type and passes the table's constraints.
PreferencesInv ==
  settings \in PreferencesRows \cup {NotSent} /\ (settings # NotSent => RowIsAllowed(settings))

\* A row that can be stored is finished for the service when it is for the SQL.
LEMMA PreferencesInvImplies == PreferencesInv => PreferencesTypeOK /\ PreferencesAreSound
<1> SUFFICES ASSUME PreferencesInv, settings # NotSent
             PROVE  PreferencesTypeOK /\ PreferencesAreSound
  BY DEF PreferencesTypeOK, PreferencesAreSound
<1>1. settings \in PreferencesRows /\ RowIsAllowed(settings)
  BY DEF PreferencesInv
<1>2. Len(settings.genders) > 0 <=> settings.genders # <<>>
  BY <1>1 DEF PreferencesRows
<1>3. PreferencesTypeOK
  BY <1>1 DEF PreferencesRows, PreferencesTypeOK
<1> QED BY <1>1, <1>2, <1>3 DEF PreferencesAreSound, PreferencesDone, IsComplete

LEMMA PreferencesInitInv == PreferencesInit => PreferencesInv
<1> SUFFICES ASSUME PreferencesInit, settings # NotSent PROVE PreferencesInv
  BY DEF PreferencesInv
<1>1. settings \in PreferencesRows
  <2>1. <<>> \in Seq(Genders)
    OBVIOUS
  <2>2. PICK low \in {18, NotSent}, high \in {99, NotSent} :
          settings = [ageMin |-> low, ageMax |-> high, genders |-> <<>>, distance |-> NotSent]
    BY DEF PreferencesInit
  <2>3. low \in Nat \cup {NotSent} /\ high \in Nat \cup {NotSent}
    OBVIOUS
  <2> QED BY <2>1, <2>2, <2>3 DEF PreferencesRows
<1>2. settings.genders = <<>> /\ settings.distance = NotSent
      /\ \/ settings.ageMin = 18 /\ settings.ageMax = 99
         \/ settings.ageMin = NotSent /\ settings.ageMax = NotSent
  BY DEF PreferencesInit
<1>3. RowIsAllowed(settings)
  BY <1>2 DEF RowIsAllowed, MinAge, MaxAge, ToSet
<1> QED BY <1>1, <1>3 DEF PreferencesInv

\* A PUT leaves a row that is allowed, and finished.
LEMMA PutStep ==
  ASSUME PreferencesNext
  PROVE  /\ settings' \in PreferencesRows /\ settings' # NotSent
         /\ RowIsAllowed(settings') /\ PreferencesDone(settings')
<1>1. PICK low \in AgesSent \cup {NotSent}, high \in AgesSent \cup {NotSent},
           words \in WordLists, distance \in DistancesSent \cup {NotSent} :
        PutPreferences([ageMin |-> low, ageMax |-> high, words |-> words,
                        distance |-> distance])
  BY DEF PreferencesNext
<1>2. /\ low # NotSent /\ high # NotSent
      /\ low \in MinAge .. MaxAge /\ high \in MinAge .. MaxAge /\ low <= high
      /\ WordsAreGenders(words) /\ Len(GendersOf(words)) \in 1 .. MaxGenderCount
      /\ distance = NotSent \/ distance \in MinDistanceKM .. MaxDistanceKM
      /\ settings' = [ageMin |-> low, ageMax |-> high,
                      genders |-> GendersOf(words), distance |-> distance]
  BY <1>1 DEF PutPreferences, IsValid, AgesOK
<1>3. words \in Seq(DOMAIN GenderAliases)
  <2>1. PICK n \in 0 .. MaxWords : words \in [1 .. n -> Words]
    BY DEF WordLists
  <2>2. \A k \in 1 .. n : words[k] \in DOMAIN GenderAliases
    BY <1>2, <2>1 DEF WordsAreGenders, ToSet
  <2>3. n \in Nat /\ words \in [1 .. n -> DOMAIN GenderAliases]
    BY <2>1, <2>2, PreferencesAssumption
  <2> QED BY <2>3
<1>4. GendersOf(words) \in Seq(Genders)
  BY <1>3, GendersAreGenders
<1>5. settings' \in PreferencesRows
  BY <1>2, <1>4, PreferencesAssumption DEF PreferencesRows, MinAge, MaxAge
<1>6. settings' # NotSent
  BY <1>5, PreferencesAssumption DEF PreferencesRows
<1>7. GendersOf(words) # <<>>
  BY <1>2 DEF MaxGenderCount
<1>8. ToSet(GendersOf(words)) \subseteq Genders
  BY <1>4 DEF ToSet
<1> QED BY <1>2, <1>5, <1>6, <1>7, <1>8
        DEF RowIsAllowed, PreferencesDone, MinDistanceKM, MaxDistanceKM

LEMMA PreferencesNextInv == PreferencesInv /\ [PreferencesNext]_settings => PreferencesInv'
BY PutStep DEF PreferencesInv

\* What PreferencesStayDone asks of a step.
LEMMA StepStaysDone ==
  ASSUME [PreferencesNext]_settings
  PROVE  PreferencesDone(settings) => PreferencesDone(settings')
BY PutStep

-----------------------------------------------------------------------------
\* Accounts: addresses, registrations and verification links.

\* An address that is being registered is nobody else's.
RegistersAlone ==
  /\ \A c \in AccountCalls : AccountCallAt(c, "registering") => accountCalls[c].email # {}
  /\ \A c \in AccountCalls, a \in AccountIds : accountCalls[c].email \cap accounts[a] = {}
  /\ \A c, d \in AccountCalls : c # d => accountCalls[c].email \cap accountCalls[d].email = {}
  /\ \A a, b \in AccountIds : a # b => accounts[a] \cap accounts[b] = {}

\* A transaction on links is for an account that exists, and keeps open what it
\* has locked.
LocksAreHeld ==
  /\ \A c \in AccountCalls :
       /\ accountCalls[c].step \in {"resend", "issue", "claimed"} =>
            accountCalls[c].account \in AccountIds /\ accounts[accountCalls[c].account] # {}
       /\ \A t \in accountCalls[c].locked :
            links[t].state = "open" /\ links[t].owner = accountCalls[c].account
       /\ AccountCallAt(c, "claimed") => \E t \in LinkIds : accountCalls[c].locked = {t}
  /\ \A c, d \in AccountCalls :
       c # d => accountCalls[c].locked \cap accountCalls[d].locked = {}

\* A link belongs to an account that exists; a verified one has claimed its link.
LinksHaveOwners ==
  /\ \A t \in LinkIds :
       links[t].state # "none" =>
         links[t].owner \in AccountIds /\ accounts[links[t].owner] # {}
  /\ \A a \in verified : \E t \in LinkIds : links[t].owner = a /\ links[t].state = "claimed"

\* Whoever issues a link alone has retired all that were open.
OneLinkIsOpen ==
  \A a \in AccountIds \ overlapped :
    /\ \A t, u \in OpenLinks(a) : t = u
    /\ \A c \in AccountCalls :
         (AccountCallAt(c, "issue") /\ accountCalls[c].account = a) =>
           /\ OpenLinks(a) \subseteq accountCalls[c].locked
           /\ \A d \in AccountCalls :
                (AccountCallAt(d, "issue") /\ accountCalls[d].account = a) => d = c

AccountsInv ==
  AccountsTypeOK /\ RegistersAlone /\ LocksAreHeld /\ LinksHaveOwners /\ OneLinkIsOpen

-----------------------------------------------------------------------------
\* A step of one call leaves the others where they are.
LEMMA AccountCallMoves ==
  ASSUME AccountsTypeOK, NEW c \in AccountCalls, NEW call \in AccountCallStates,
         AccountCallBecomes(c, call)
  PROVE  /\ accountCalls' \in [AccountCalls -> AccountCallStates]
         /\ accountCalls'[c] = call
         /\ \A d \in AccountCalls \ {c} : accountCalls'[d] = accountCalls[d]
BY DEF AccountsTypeOK, AccountCallBecomes

LEMMA IdleCallIsOne ==
  /\ IdleAccountCall \in AccountCallStates
  /\ IdleAccountCall.step = "idle" /\ IdleAccountCall.email = {}
  /\ IdleAccountCall.locked = {}
BY DEF IdleAccountCall, AccountCallStates

\* What the issue of a link does to the links.
LEMMA IssueEffect ==
  ASSUME AccountsTypeOK, NEW a \in AccountIds, NEW retired \in SUBSET LinkIds,
         IssueLink(a, retired)
  PROVE  \E t \in LinkIds :
           /\ links[t].state = "none"
           /\ links'[t].owner = a /\ links'[t].state = "open"
           /\ links' \in [LinkIds -> [owner: AccountIds \cup {NoAccount},
                            state: {"none", "open", "claimed", "retired", "expired"}]]
           /\ \A u \in LinkIds \ {t} :
                /\ links'[u].owner = links[u].owner
                /\ links'[u].state = IF u \in retired THEN "retired" ELSE links[u].state
<1>1. PICK t \in LinkIds :
        /\ links[t] = NoLink
        /\ links' = [u \in LinkIds |->
                       IF u = t THEN [owner |-> a, state |-> "open"]
                       ELSE IF u \in retired THEN [links[u] EXCEPT !.state = "retired"]
                       ELSE links[u]]
  BY DEF IssueLink
<1>2. links[t].state = "none"
  BY <1>1 DEF NoLink
<1>3. links'[t].owner = a /\ links'[t].state = "open"
  BY <1>1
<1>4. ASSUME NEW u \in LinkIds
      PROVE  /\ links'[u] \in [owner: AccountIds \cup {NoAccount},
                               state: {"none", "open", "claimed", "retired", "expired"}]
             /\ u # t => /\ links'[u].owner = links[u].owner
                         /\ links'[u].state = IF u \in retired THEN "retired" ELSE links[u].state
  BY <1>1 DEF AccountsTypeOK
<1>5. links' \in [LinkIds -> [owner: AccountIds \cup {NoAccount},
                              state: {"none", "open", "claimed", "retired", "expired"}]]
  <2> DEFINE F(u) == IF u = t THEN [owner |-> a, state |-> "open"]
                     ELSE IF u \in retired THEN [links[u] EXCEPT !.state = "retired"]
                     ELSE links[u]
  <2>1. links' = [u \in LinkIds |-> F(u)]
    BY <1>1, Zenon
  <2> HIDE DEF F
  <2> QED BY <1>4, <2>1
<1> QED BY <1>2, <1>3, <1>4, <1>5

-----------------------------------------------------------------------------
\* A call that ends without a word.
LEMMA CallEnds ==
  ASSUME AccountsInv, NEW c \in AccountCalls, AccountCallFails(c)
  PROVE  AccountsInv'
<1> USE DEF AccountsInv
<1>1. /\ AccountCallBecomes(c, IdleAccountCall)
      /\ UNCHANGED <<accounts, verified, links, overlapped>>
  BY DEF AccountCallFails
<1>2. /\ accountCalls' \in [AccountCalls -> AccountCallStates]
      /\ accountCalls'[c] = IdleAccountCall
      /\ \A d \in AccountCalls \ {c} : accountCalls'[d] = accountCalls[d]
  BY <1>1, IdleCallIsOne, AccountCallMoves
<1>3. AccountsTypeOK'
  BY <1>1, <1>2 DEF AccountsTypeOK
<1>4. RegistersAlone'
  BY <1>1, <1>2, IdleCallIsOne DEF RegistersAlone, AccountCallAt
<1>5. LocksAreHeld'
  BY <1>1, <1>2, IdleCallIsOne DEF LocksAreHeld, AccountCallAt
<1>6. LinksHaveOwners'
  BY <1>1 DEF LinksHaveOwners
<1>7. OneLinkIsOpen'
  BY <1>1, <1>2, IdleCallIsOne DEF OneLinkIsOpen, AccountCallAt, OpenLinks
<1> QED BY <1>3, <1>4, <1>5, <1>6, <1>7

\* Register.
LEMMA InsertAccountStep ==
  ASSUME AccountsInv, NEW c \in AccountCalls, NEW email \in Emails, InsertAccount(c, email)
  PROVE  AccountsInv'
<1> USE DEF AccountsInv
<1> DEFINE new == [IdleAccountCall EXCEPT !.step = "registering", !.email = {email}]
<1>1. /\ AccountCallBecomes(c, new)
      /\ UNCHANGED <<accounts, verified, links, overlapped>>
      /\ EmailIsFree(email)
  BY DEF InsertAccount
<1>2. /\ new \in AccountCallStates /\ new.step = "registering" /\ new.email = {email}
      /\ new.locked = {}
  BY DEF IdleAccountCall, AccountCallStates
<1> HIDE DEF new
<1>3. /\ accountCalls' \in [AccountCalls -> AccountCallStates]
      /\ accountCalls'[c] = new
      /\ \A d \in AccountCalls \ {c} : accountCalls'[d] = accountCalls[d]
  BY <1>1, <1>2, AccountCallMoves
<1>4. AccountsTypeOK'
  BY <1>1, <1>3 DEF AccountsTypeOK
<1>5. RegistersAlone'
  <2>1. \A a \in AccountIds : {email} \cap accounts[a] = {}
    BY <1>1 DEF EmailIsFree
  <2>2. \A d \in AccountCalls : {email} \cap accountCalls[d].email = {}
    BY <1>1 DEF EmailIsFree
  <2> QED BY <1>1, <1>2, <1>3, <2>1, <2>2 DEF RegistersAlone, AccountCallAt
<1>6. LocksAreHeld'
  BY <1>1, <1>2, <1>3 DEF LocksAreHeld, AccountCallAt
<1>7. LinksHaveOwners'
  BY <1>1 DEF LinksHaveOwners
<1>8. OneLinkIsOpen'
  BY <1>1, <1>2, <1>3 DEF OneLinkIsOpen, AccountCallAt, OpenLinks
<1> QED BY <1>4, <1>5, <1>6, <1>7, <1>8

LEMMA CommitAccountStep ==
  ASSUME AccountsInv, NEW c \in AccountCalls, CommitAccount(c)
  PROVE  AccountsInv'
<1> USE DEF AccountsInv
<1>1. PICK a \in AccountIds :
        /\ accounts[a] = {}
        /\ accounts' = [accounts EXCEPT ![a] = accountCalls[c].email]
        /\ IssueLink(a, {})
  BY DEF CommitAccount
<1>2. /\ AccountCallBecomes(c, IdleAccountCall) /\ AccountCallAt(c, "registering")
      /\ UNCHANGED <<verified, overlapped>>
  BY DEF CommitAccount
<1>3. /\ accountCalls' \in [AccountCalls -> AccountCallStates]
      /\ accountCalls'[c] = IdleAccountCall
      /\ \A d \in AccountCalls \ {c} : accountCalls'[d] = accountCalls[d]
  BY <1>2, IdleCallIsOne, AccountCallMoves
<1>4. PICK t \in LinkIds :
           /\ links[t].state = "none"
           /\ links'[t].owner = a /\ links'[t].state = "open"
           /\ links' \in [LinkIds -> [owner: AccountIds \cup {NoAccount},
                            state: {"none", "open", "claimed", "retired", "expired"}]]
           /\ \A u \in LinkIds \ {t} :
                links'[u].owner = links[u].owner /\ links'[u].state = links[u].state
  BY <1>1, IssueEffect
<1>5. /\ accountCalls[c].email \in SUBSET Emails /\ accountCalls[c].email # {}
      /\ accounts' \in [AccountIds -> SUBSET Emails]
      /\ accounts'[a] = accountCalls[c].email
      /\ \A b \in AccountIds \ {a} : accounts'[b] = accounts[b]
  <2>1. accountCalls[c].email \in SUBSET Emails /\ accountCalls[c].email # {}
    BY <1>2 DEF AccountsTypeOK, AccountCallStates, RegistersAlone
  <2> QED BY <1>1, <2>1 DEF AccountsTypeOK
<1>6. AccountsTypeOK'
  BY <1>2, <1>3, <1>4, <1>5 DEF AccountsTypeOK
<1>7. RegistersAlone'
  BY <1>3, <1>5, IdleCallIsOne DEF RegistersAlone, AccountCallAt
<1>8. \A b \in AccountIds : accounts[b] # {} => accounts'[b] # {}
  BY <1>1, <1>5
<1>9. LocksAreHeld'
  <2>1. \A d \in AccountCalls : t \notin accountCalls[d].locked
    BY <1>4 DEF LocksAreHeld
  <2>2. \A d \in AccountCalls : accountCalls[d].locked \in SUBSET LinkIds
    BY DEF AccountsTypeOK, AccountCallStates
  <2>3. ASSUME NEW d \in AccountCalls, d # c
        PROVE  \A u \in accountCalls'[d].locked :
                 links'[u].state = "open" /\ links'[u].owner = accountCalls'[d].account
    BY <1>3, <1>4, <2>1, <2>2, <2>3 DEF LocksAreHeld
  <2>4. ASSUME NEW d \in AccountCalls, d # c,
               accountCalls'[d].step \in {"resend", "issue", "claimed"}
        PROVE  accountCalls'[d].account \in AccountIds /\ accounts'[accountCalls'[d].account] # {}
    BY <1>3, <1>8, <2>4 DEF LocksAreHeld
  <2> QED BY <1>3, <2>3, <2>4, IdleCallIsOne DEF LocksAreHeld, AccountCallAt
<1>10. LinksHaveOwners'
  <2>1. ASSUME NEW u \in LinkIds, links'[u].state # "none"
        PROVE  links'[u].owner \in AccountIds /\ accounts'[links'[u].owner] # {}
    <3>1. CASE u = t
      BY <1>4, <1>5, <3>1
    <3>2. CASE u # t
      BY <1>4, <1>8, <2>1, <3>2 DEF LinksHaveOwners
    <3> QED BY <3>1, <3>2
  <2>2. ASSUME NEW b \in verified
        PROVE  \E u \in LinkIds : links'[u].owner = b /\ links'[u].state = "claimed"
    BY <1>4 DEF LinksHaveOwners
  <2> QED BY <1>2, <2>1, <2>2 DEF LinksHaveOwners
<1>11. OneLinkIsOpen'
  <2>1. OpenLinks(a) = {} /\ OpenLinks(a)' = {t}
    BY <1>1, <1>4 DEF LinksHaveOwners, OpenLinks
  <2>2. \A b \in AccountIds \ {a} : OpenLinks(b)' = OpenLinks(b)
    BY <1>4 DEF OpenLinks
  <2>3. \A d \in AccountCalls : ~(AccountCallAt(d, "issue")' /\ accountCalls'[d].account = a)
    BY <1>1, <1>3, IdleCallIsOne DEF AccountCallAt, LocksAreHeld
  <2>4. \A d \in AccountCalls :
          AccountCallAt(d, "issue")' =>
            AccountCallAt(d, "issue") /\ accountCalls'[d] = accountCalls[d]
    BY <1>3, IdleCallIsOne DEF AccountCallAt
  <2>5. ASSUME NEW b \in AccountIds \ overlapped
        PROVE  /\ \A v, u \in OpenLinks(b)' : v = u
               /\ \A d \in AccountCalls :
                    (AccountCallAt(d, "issue")' /\ accountCalls'[d].account = b) =>
                      /\ OpenLinks(b)' \subseteq accountCalls'[d].locked
                      /\ \A e \in AccountCalls :
                           (AccountCallAt(e, "issue")' /\ accountCalls'[e].account = b) => e = d
    <3>1. CASE b = a
      BY <2>1, <2>3, <3>1
    <3>2. CASE b # a
      BY <2>2, <2>4, <3>2 DEF OneLinkIsOpen
    <3> QED BY <3>1, <3>2
  <2> QED BY <1>2, <2>5 DEF OneLinkIsOpen
<1> QED BY <1>6, <1>7, <1>9, <1>10, <1>11

-----------------------------------------------------------------------------
\* ResendEmailVerification.
LEMMA AskStep ==
  ASSUME AccountsInv, NEW c \in AccountCalls, NEW a \in AccountIds, AskForLink(c, a)
  PROVE  AccountsInv'
<1> USE DEF AccountsInv
<1> DEFINE new == [IdleAccountCall EXCEPT !.step = "resend", !.account = a]
<1>1. /\ AccountCallBecomes(c, new) /\ accounts[a] # {}
      /\ UNCHANGED <<accounts, verified, links, overlapped>>
  BY DEF AskForLink
<1>2. /\ new \in AccountCallStates /\ new.step = "resend" /\ new.account = a
      /\ new.email = {} /\ new.locked = {}
  BY DEF IdleAccountCall, AccountCallStates
<1> HIDE DEF new
<1>3. /\ accountCalls' \in [AccountCalls -> AccountCallStates]
      /\ accountCalls'[c] = new
      /\ \A d \in AccountCalls \ {c} : accountCalls'[d] = accountCalls[d]
  BY <1>1, <1>2, AccountCallMoves
<1>4. AccountsTypeOK'
  BY <1>1, <1>3 DEF AccountsTypeOK
<1>5. RegistersAlone'
  BY <1>1, <1>2, <1>3 DEF RegistersAlone, AccountCallAt
<1>6. LocksAreHeld'
  BY <1>1, <1>2, <1>3 DEF LocksAreHeld, AccountCallAt
<1>7. LinksHaveOwners'
  BY <1>1 DEF LinksHaveOwners
<1>8. OneLinkIsOpen'
  BY <1>1, <1>2, <1>3 DEF OneLinkIsOpen, AccountCallAt, OpenLinks
<1> QED BY <1>4, <1>5, <1>6, <1>7, <1>8

LEMMA RetireStep ==
  ASSUME AccountsInv, NEW c \in AccountCalls, RetireLinks(c)
  PROVE  AccountsInv'
<1> USE DEF AccountsInv
<1> DEFINE a == accountCalls[c].account
           new == [accountCalls[c] EXCEPT !.step = "issue", !.locked = OpenLinks(a)]
<1>1. /\ AccountCallAt(c, "resend") /\ OpenLinks(a) \cap LockedLinks = {}
      /\ AccountCallBecomes(c, new)
      /\ overlapped' = IF \E d \in AccountCalls :
                            AccountCallAt(d, "issue") /\ accountCalls[d].account = a
                       THEN overlapped \cup {a} ELSE overlapped
      /\ UNCHANGED <<accounts, verified, links>>
  BY DEF RetireLinks
<1>2. a \in AccountIds /\ accounts[a] # {} /\ OpenLinks(a) \in SUBSET LinkIds
  BY <1>1 DEF LocksAreHeld, AccountCallAt, OpenLinks
<1>3. /\ new \in AccountCallStates /\ new.step = "issue" /\ new.account = a
      /\ new.email = accountCalls[c].email /\ new.locked = OpenLinks(a)
  <2>1. accountCalls[c] \in AccountCallStates
    BY DEF AccountsTypeOK
  <2> QED BY <1>2, <2>1 DEF AccountCallStates
<1> HIDE DEF new
<1>4. /\ accountCalls' \in [AccountCalls -> AccountCallStates]
      /\ accountCalls'[c] = new
      /\ \A d \in AccountCalls \ {c} : accountCalls'[d] = accountCalls[d]
  BY <1>1, <1>3, AccountCallMoves
<1>5. AccountsTypeOK'
  BY <1>1, <1>2, <1>4 DEF AccountsTypeOK
<1>6. RegistersAlone'
  BY <1>1, <1>3, <1>4 DEF RegistersAlone, AccountCallAt
<1>7. LocksAreHeld'
  <2>1. \A d \in AccountCalls : OpenLinks(a) \cap accountCalls[d].locked = {}
    BY <1>1 DEF LockedLinks
  <2>2. \A t \in OpenLinks(a) : links[t].state = "open" /\ links[t].owner = a
    BY DEF OpenLinks
  <2> QED BY <1>1, <1>2, <1>3, <1>4, <2>1, <2>2 DEF LocksAreHeld, AccountCallAt
<1>8. LinksHaveOwners'
  BY <1>1 DEF LinksHaveOwners
<1>9. OneLinkIsOpen'
  <2>1. ASSUME NEW b \in AccountIds \ overlapped'
        PROVE  /\ OpenLinks(b)' = OpenLinks(b) /\ b \notin overlapped
               /\ b = a => \A d \in AccountCalls :
                    ~(AccountCallAt(d, "issue") /\ accountCalls[d].account = a)
    BY <1>1, <2>1 DEF OpenLinks
  <2>2. \A d \in AccountCalls \ {c} :
          AccountCallAt(d, "issue")' = AccountCallAt(d, "issue")
    BY <1>4 DEF AccountCallAt
  <2>3. ASSUME NEW b \in AccountIds \ overlapped'
        PROVE  /\ \A v, u \in OpenLinks(b)' : v = u
               /\ \A d \in AccountCalls :
                    (AccountCallAt(d, "issue")' /\ accountCalls'[d].account = b) =>
                      /\ OpenLinks(b)' \subseteq accountCalls'[d].locked
                      /\ \A e \in AccountCalls :
                           (AccountCallAt(e, "issue")' /\ accountCalls'[e].account = b) => e = d
    <3>1. \A v, u \in OpenLinks(b)' : v = u
      BY <2>1 DEF OneLinkIsOpen
    <3>2. CASE b = a
      BY <1>3, <1>4, <2>1, <2>2, <3>1, <3>2
    <3>3. CASE b # a
      BY <1>3, <1>4, <2>1, <2>2, <3>1, <3>3 DEF OneLinkIsOpen
    <3> QED BY <3>2, <3>3
  <2> QED BY <2>3 DEF OneLinkIsOpen
<1> QED BY <1>5, <1>6, <1>7, <1>8, <1>9

LEMMA CommitLinkStep ==
  ASSUME AccountsInv, NEW c \in AccountCalls, CommitLink(c)
  PROVE  AccountsInv'
<1> USE DEF AccountsInv
<1>0. PICK a \in AccountIds, retired \in SUBSET LinkIds :
        a = accountCalls[c].account /\ retired = accountCalls[c].locked
  BY DEF CommitLink, AccountsTypeOK, AccountCallStates, LocksAreHeld, AccountCallAt
<1>1. /\ AccountCallAt(c, "issue") /\ IssueLink(a, retired)
      /\ AccountCallBecomes(c, IdleAccountCall)
      /\ UNCHANGED <<accounts, verified, overlapped>>
  BY <1>0 DEF CommitLink
<1>2. /\ accounts[a] # {}
      /\ \A t \in retired : links[t].state = "open"
  BY <1>0, <1>1 DEF LocksAreHeld, AccountCallAt
<1>3. PICK t \in LinkIds :
           /\ links[t].state = "none"
           /\ links'[t].owner = a /\ links'[t].state = "open"
           /\ links' \in [LinkIds -> [owner: AccountIds \cup {NoAccount},
                            state: {"none", "open", "claimed", "retired", "expired"}]]
           /\ \A u \in LinkIds \ {t} :
                /\ links'[u].owner = links[u].owner
                /\ links'[u].state = IF u \in retired THEN "retired" ELSE links[u].state
  BY <1>1, <1>2, IssueEffect
<1>4. /\ accountCalls' \in [AccountCalls -> AccountCallStates]
      /\ accountCalls'[c] = IdleAccountCall
      /\ \A d \in AccountCalls \ {c} : accountCalls'[d] = accountCalls[d]
  BY <1>1, IdleCallIsOne, AccountCallMoves
<1>5. AccountsTypeOK'
  BY <1>1, <1>3, <1>4 DEF AccountsTypeOK
<1>6. RegistersAlone'
  BY <1>1, <1>4, IdleCallIsOne DEF RegistersAlone, AccountCallAt
<1>7. LocksAreHeld'
  <2>1. \A d \in AccountCalls : t \notin accountCalls[d].locked
    BY <1>3 DEF LocksAreHeld
  <2>2. \A d \in AccountCalls \ {c} : retired \cap accountCalls[d].locked = {}
    BY <1>0 DEF LocksAreHeld
  <2>3. \A d \in AccountCalls : accountCalls[d].locked \in SUBSET LinkIds
    BY DEF AccountsTypeOK, AccountCallStates
  <2>4. ASSUME NEW d \in AccountCalls, d # c
        PROVE  \A u \in accountCalls'[d].locked :
                 links'[u].state = "open" /\ links'[u].owner = accountCalls'[d].account
    BY <1>3, <1>4, <2>1, <2>2, <2>3, <2>4 DEF LocksAreHeld
  <2> QED BY <1>1, <1>4, <2>4, IdleCallIsOne DEF LocksAreHeld, AccountCallAt
<1>8. LinksHaveOwners'
  <2>1. ASSUME NEW u \in LinkIds, links'[u].state # "none"
        PROVE  links'[u].owner \in AccountIds /\ accounts'[links'[u].owner] # {}
    <3>1. CASE u = t
      BY <1>1, <1>2, <1>3, <3>1
    <3>2. CASE u # t
      BY <1>1, <1>2, <1>3, <2>1, <3>2 DEF LinksHaveOwners
    <3> QED BY <3>1, <3>2
  <2>2. ASSUME NEW b \in verified
        PROVE  \E u \in LinkIds : links'[u].owner = b /\ links'[u].state = "claimed"
    <3>1. PICK u \in LinkIds : links[u].owner = b /\ links[u].state = "claimed"
      BY DEF LinksHaveOwners
    <3> QED BY <1>2, <1>3, <3>1
  <2> QED BY <1>1, <2>1, <2>2 DEF LinksHaveOwners
<1>9. OneLinkIsOpen'
  <2>1. /\ OpenLinks(a)' \subseteq {t} \cup (OpenLinks(a) \ retired)
        /\ a \notin overlapped => OpenLinks(a) \subseteq retired
    <3>1. OpenLinks(a)' \subseteq {t} \cup (OpenLinks(a) \ retired)
      BY <1>3 DEF OpenLinks
    <3>2. a \notin overlapped => OpenLinks(a) \subseteq retired
      BY <1>0, <1>1 DEF OneLinkIsOpen
    <3> QED BY <3>1, <3>2
  <2>2. \A b \in AccountIds \ {a} : OpenLinks(b)' \subseteq OpenLinks(b)
    BY <1>3 DEF OpenLinks
  <2>3. \A d \in AccountCalls :
          AccountCallAt(d, "issue")' =>
            d # c /\ AccountCallAt(d, "issue") /\ accountCalls'[d] = accountCalls[d]
    BY <1>4, IdleCallIsOne DEF AccountCallAt
  <2>4. ASSUME NEW b \in AccountIds \ overlapped
        PROVE  /\ \A v, u \in OpenLinks(b)' : v = u
               /\ \A d \in AccountCalls :
                    (AccountCallAt(d, "issue")' /\ accountCalls'[d].account = b) =>
                      /\ OpenLinks(b)' \subseteq accountCalls'[d].locked
                      /\ \A e \in AccountCalls :
                           (AccountCallAt(e, "issue")' /\ accountCalls'[e].account = b) => e = d
    <3>1. CASE b = a
      <4>1. OpenLinks(b)' \subseteq {t}
        BY <2>1, <3>1
      <4>2. \A d \in AccountCalls :
              (AccountCallAt(d, "issue") /\ accountCalls[d].account = a) => d = c
        BY <1>0, <1>1, <3>1 DEF OneLinkIsOpen
      <4> QED BY <2>3, <3>1, <4>1, <4>2
    <3>2. CASE b # a
      BY <2>2, <2>3, <3>2 DEF OneLinkIsOpen
    <3> QED BY <3>1, <3>2
  <2> QED BY <1>1, <2>4 DEF OneLinkIsOpen
<1> QED BY <1>5, <1>6, <1>7, <1>8, <1>9

-----------------------------------------------------------------------------
\* VerifyEmail.
LEMMA ClaimStep ==
  ASSUME AccountsInv, NEW c \in AccountCalls, NEW t \in LinkIds, ClaimLink(c, t)
  PROVE  AccountsInv'
<1> USE DEF AccountsInv
<1> DEFINE new == [IdleAccountCall EXCEPT
                     !.step = "claimed", !.account = links[t].owner, !.locked = {t}]
<1>1. /\ AccountCallBecomes(c, new) /\ links[t].state = "open" /\ t \notin LockedLinks
      /\ UNCHANGED <<accounts, verified, links, overlapped>>
  BY DEF ClaimLink, MayClaim
<1>2. links[t].owner \in AccountIds /\ accounts[links[t].owner] # {}
  BY <1>1 DEF LinksHaveOwners
<1>3. /\ new \in AccountCallStates /\ new.step = "claimed" /\ new.account = links[t].owner
      /\ new.email = {} /\ new.locked = {t}
  BY <1>2 DEF IdleAccountCall, AccountCallStates
<1> HIDE DEF new
<1>4. /\ accountCalls' \in [AccountCalls -> AccountCallStates]
      /\ accountCalls'[c] = new
      /\ \A d \in AccountCalls \ {c} : accountCalls'[d] = accountCalls[d]
  BY <1>1, <1>3, AccountCallMoves
<1>5. AccountsTypeOK'
  BY <1>1, <1>4 DEF AccountsTypeOK
<1>6. RegistersAlone'
  BY <1>1, <1>3, <1>4 DEF RegistersAlone, AccountCallAt
<1>7. LocksAreHeld'
  <2>1. \A d \in AccountCalls : t \notin accountCalls[d].locked
    BY <1>1 DEF LockedLinks
  <2> QED BY <1>1, <1>2, <1>3, <1>4, <2>1 DEF LocksAreHeld, AccountCallAt
<1>8. LinksHaveOwners'
  BY <1>1 DEF LinksHaveOwners
<1>9. OneLinkIsOpen'
  BY <1>1, <1>3, <1>4 DEF OneLinkIsOpen, AccountCallAt, OpenLinks
<1> QED BY <1>5, <1>6, <1>7, <1>8, <1>9

LEMMA CommitClaimStep ==
  ASSUME AccountsInv, NEW c \in AccountCalls, CommitClaim(c)
  PROVE  AccountsInv'
<1> USE DEF AccountsInv
<1> DEFINE a == accountCalls[c].account
<1>1. /\ AccountCallAt(c, "claimed") /\ verified' = verified \cup {a}
      /\ links' = [t \in LinkIds |->
                     IF t \in accountCalls[c].locked
                     THEN [links[t] EXCEPT !.state = "claimed"] ELSE links[t]]
      /\ AccountCallBecomes(c, IdleAccountCall)
      /\ UNCHANGED <<accounts, overlapped>>
  BY DEF CommitClaim
<1>2. PICK t \in LinkIds : accountCalls[c].locked = {t}
  BY <1>1 DEF LocksAreHeld
<1>3. /\ links[t].state = "open" /\ links[t].owner = a
      /\ a \in AccountIds /\ accounts[a] # {}
  BY <1>1, <1>2 DEF LocksAreHeld, AccountCallAt
<1>4. /\ links' \in [LinkIds -> [owner: AccountIds \cup {NoAccount},
                            state: {"none", "open", "claimed", "retired", "expired"}]]
      /\ links'[t].owner = a /\ links'[t].state = "claimed"
      /\ \A u \in LinkIds \ {t} : links'[u] = links[u]
  BY <1>1, <1>2, <1>3 DEF AccountsTypeOK
<1>5. /\ accountCalls' \in [AccountCalls -> AccountCallStates]
      /\ accountCalls'[c] = IdleAccountCall
      /\ \A d \in AccountCalls \ {c} : accountCalls'[d] = accountCalls[d]
  BY <1>1, IdleCallIsOne, AccountCallMoves
<1> HIDE DEF a
<1>6. AccountsTypeOK'
  BY <1>1, <1>3, <1>4, <1>5 DEF AccountsTypeOK
<1>7. RegistersAlone'
  BY <1>1, <1>5, IdleCallIsOne DEF RegistersAlone, AccountCallAt
<1>8. LocksAreHeld'
  <2>1. \A d \in AccountCalls \ {c} : t \notin accountCalls[d].locked
    BY <1>2 DEF LocksAreHeld
  <2>2. \A d \in AccountCalls : accountCalls[d].locked \in SUBSET LinkIds
    BY DEF AccountsTypeOK, AccountCallStates
  <2>3. ASSUME NEW d \in AccountCalls, d # c
        PROVE  \A u \in accountCalls'[d].locked :
                 links'[u].state = "open" /\ links'[u].owner = accountCalls'[d].account
    BY <1>4, <1>5, <2>1, <2>2, <2>3 DEF LocksAreHeld
  <2> QED BY <1>1, <1>5, <2>3, IdleCallIsOne DEF LocksAreHeld, AccountCallAt
<1>9. LinksHaveOwners'
  BY <1>1, <1>3, <1>4 DEF LinksHaveOwners
<1>10. OneLinkIsOpen'
  <2>1. \A b \in AccountIds : OpenLinks(b)' \subseteq OpenLinks(b)
    BY <1>4 DEF OpenLinks
  <2>2. \A d \in AccountCalls :
          AccountCallAt(d, "issue")' =>
            AccountCallAt(d, "issue") /\ accountCalls'[d] = accountCalls[d]
    BY <1>5, IdleCallIsOne DEF AccountCallAt
  <2> QED BY <1>1, <2>1, <2>2 DEF OneLinkIsOpen
<1> QED BY <1>6, <1>7, <1>8, <1>9, <1>10

LEMMA ExpireStep ==
  ASSUME AccountsInv, NEW t \in LinkIds, LinkExpires(t)
  PROVE  AccountsInv'
<1> USE DEF AccountsInv
<1>1. /\ links[t].state = "open" /\ t \notin LockedLinks
      /\ links' = [links EXCEPT ![t].state = "expired"]
      /\ UNCHANGED <<accounts, verified, accountCalls, overlapped>>
  BY DEF LinkExpires, MayClaim
<1>2. /\ links' \in [LinkIds -> [owner: AccountIds \cup {NoAccount},
                            state: {"none", "open", "claimed", "retired", "expired"}]]
      /\ links'[t].owner = links[t].owner /\ links'[t].state = "expired"
      /\ \A u \in LinkIds \ {t} : links'[u] = links[u]
  BY <1>1 DEF AccountsTypeOK
<1>3. AccountsTypeOK'
  BY <1>1, <1>2 DEF AccountsTypeOK
<1>4. RegistersAlone'
  BY <1>1 DEF RegistersAlone, AccountCallAt
<1>5. LocksAreHeld'
  <2>1. \A d \in AccountCalls : t \notin accountCalls[d].locked
    BY <1>1 DEF LockedLinks
  <2>2. \A d \in AccountCalls : accountCalls[d].locked \in SUBSET LinkIds
    BY DEF AccountsTypeOK, AccountCallStates
  <2>3. \A d \in AccountCalls : \A u \in accountCalls[d].locked : links'[u] = links[u]
    BY <1>2, <2>1, <2>2
  <2>4. \A d \in AccountCalls : \A u \in accountCalls[d].locked :
          links'[u].state = "open" /\ links'[u].owner = accountCalls[d].account
    BY <2>3 DEF LocksAreHeld
  <2> QED BY <1>1, <2>4 DEF LocksAreHeld, AccountCallAt
<1>6. LinksHaveOwners'
  BY <1>1, <1>2 DEF LinksHaveOwners
<1>7. OneLinkIsOpen'
  <2>1. \A b \in AccountIds : OpenLinks(b)' \subseteq OpenLinks(b)
    BY <1>2 DEF OpenLinks
  <2> QED BY <1>1, <2>1 DEF OneLinkIsOpen, AccountCallAt
<1> QED BY <1>3, <1>4, <1>5, <1>6, <1>7

-----------------------------------------------------------------------------
LEMMA AccountsInitInv == AccountsInit => AccountsInv
<1> SUFFICES ASSUME AccountsInit PROVE AccountsInv
  OBVIOUS
<1>1. /\ accounts = [a \in AccountIds |-> {}] /\ verified = {} /\ overlapped = {}
      /\ links = [t \in LinkIds |-> NoLink]
      /\ accountCalls = [c \in AccountCalls |-> IdleAccountCall]
  BY DEF AccountsInit
<1>2. NoLink.state = "none" /\ NoLink \in [owner: AccountIds \cup {NoAccount},
                            state: {"none", "open", "claimed", "retired", "expired"}]
  BY DEF NoLink
<1>3. AccountsTypeOK
  BY <1>1, <1>2, IdleCallIsOne DEF AccountsTypeOK
<1>4. RegistersAlone
  BY <1>1, IdleCallIsOne DEF RegistersAlone, AccountCallAt
<1>5. LocksAreHeld
  BY <1>1, IdleCallIsOne DEF LocksAreHeld, AccountCallAt
<1>6. LinksHaveOwners
  BY <1>1, <1>2 DEF LinksHaveOwners
<1>7. OneLinkIsOpen
  <2>1. \A a \in AccountIds : OpenLinks(a) = {}
    BY <1>1, <1>2 DEF OpenLinks
  <2>2. \A c \in AccountCalls : ~AccountCallAt(c, "issue")
    BY <1>1, IdleCallIsOne DEF AccountCallAt
  <2> QED BY <2>1, <2>2 DEF OneLinkIsOpen
<1> QED BY <1>3, <1>4, <1>5, <1>6, <1>7 DEF AccountsInv

LEMMA AccountsNextInv == AccountsInv /\ [AccountsNext]_accountVars => AccountsInv'
<1> SUFFICES ASSUME AccountsInv, [AccountsNext]_accountVars
             PROVE  AccountsInv'
  OBVIOUS
<1>1. CASE UNCHANGED accountVars
  BY <1>1 DEF accountVars, AccountsInv, AccountsTypeOK, RegistersAlone, LocksAreHeld,
     LinksHaveOwners, OneLinkIsOpen, AccountCallAt, OpenLinks
<1>2. CASE AccountsNext
  BY <1>2, InsertAccountStep, CommitAccountStep, AskStep, RetireStep, CommitLinkStep, ClaimStep,
     CommitClaimStep, CallEnds, ExpireStep DEF AccountsNext
<1> QED BY <1>1, <1>2

LEMMA AccountsInvImplies == AccountsInv => AccountsAreSound
<1> SUFFICES ASSUME AccountsInv PROVE AccountsAreSound
  OBVIOUS
<1> USE DEF AccountsInv
<1>1. \A a, b \in AccountIds : a # b => accounts[a] \cap accounts[b] = {}
  BY DEF RegistersAlone
<1>2. ASSUME NEW a \in verified
      PROVE  \E t \in LinkIds : links[t] = [owner |-> a, state |-> "claimed"]
  <2>1. PICK t \in LinkIds : links[t].owner = a /\ links[t].state = "claimed"
    BY DEF LinksHaveOwners
  <2>2. links[t] \in [owner: AccountIds \cup {NoAccount},
                      state: {"none", "open", "claimed", "retired", "expired"}]
    BY DEF AccountsTypeOK
  <2> QED BY <2>1, <2>2
<1>3. \A c, d \in AccountCalls :
        c # d => accountCalls[c].locked \cap accountCalls[d].locked = {}
  BY DEF LocksAreHeld
<1>4. ASSUME NEW a \in AccountIds \ overlapped
      PROVE  Cardinality(OpenLinks(a)) <= 1
  <2>1. \A t, u \in OpenLinks(a) : t = u
    BY DEF OneLinkIsOpen
  <2>2. CASE OpenLinks(a) = {}
    BY <2>2, FS_EmptySet
  <2>3. CASE OpenLinks(a) # {}
    <3>1. PICK t \in OpenLinks(a) : OpenLinks(a) = {t}
      BY <2>1, <2>3
    <3>2. Cardinality({t}) = 1
      BY FS_Singleton
    <3> QED BY <3>1, <3>2
  <2> QED BY <2>2, <2>3
<1> QED BY <1>1, <1>2, <1>3, <1>4 DEF AccountsAreSound

-----------------------------------------------------------------------------
\* Access: what a revoked session's tokens still open.

\* A token lives for AccessTTL from its issue, which came before the session was
\* revoked unless it was late.
TokensAreDated ==
  \A t \in bearers :
    /\ t.expires <= clock + AccessTTL
    /\ (t.session \notin active /\ ~t.late) => t.expires <= revokedAt[t.session] + AccessTTL

AccessInv == AccessTypeOK /\ TokensAreDated

-----------------------------------------------------------------------------
LEMMA AccessInitInv == AccessInit => AccessInv
BY DEF AccessInit, AccessInv, AccessTypeOK, TokensAreDated

LEMMA AccessNextInv == AccessInv /\ [AccessNext]_accessVars => AccessInv'
<1> SUFFICES ASSUME AccessInv, [AccessNext]_accessVars
             PROVE  AccessInv'
  OBVIOUS
<1> USE AccessAssumption DEF AccessInv
<1>1. CASE AccessTick
  <2>1. /\ clock \in Nat /\ clock' = clock + 1
        /\ UNCHANGED <<active, revokedAt, issuing, bearers>>
    BY <1>1 DEF AccessTick, AccessTypeOK
  <2> QED BY <2>1 DEF AccessTypeOK, TokensAreDated, Bearer
<1>2. ASSUME NEW s \in SessionIds, BeginIssue(s)
      PROVE  AccessInv'
  BY <1>2 DEF BeginIssue, AccessTypeOK, TokensAreDated
<1>3. ASSUME NEW s \in SessionIds, IssueAccess(s)
      PROVE  AccessInv'
  <2> DEFINE new == [session |-> s, expires |-> clock + AccessTTL, late |-> s \notin active]
  <2>1. /\ bearers' = bearers \cup {new} /\ issuing' = issuing \ {s}
        /\ UNCHANGED <<active, revokedAt, clock>>
    BY <1>3 DEF IssueAccess
  <2>2. new \in Bearer
    BY DEF AccessTypeOK, Bearer
  <2>3. AccessTypeOK'
    BY <2>1, <2>2 DEF AccessTypeOK
  <2>4. /\ new.session = s /\ new.expires = clock + AccessTTL
        /\ s \notin active => new.late
    BY Zenon
  <2> HIDE DEF new
  <2>5. ASSUME NEW t \in bearers'
        PROVE  /\ t.expires <= clock + AccessTTL
               /\ (t.session \notin active /\ ~t.late)
                    => t.expires <= revokedAt[t.session] + AccessTTL
    <3>1. CASE t \in bearers
      BY <3>1 DEF TokensAreDated
    <3>2. CASE t = new
      BY <3>2, <2>4 DEF AccessTypeOK
    <3> QED BY <2>1, <3>1, <3>2
  <2> QED BY <2>1, <2>3, <2>5 DEF TokensAreDated
<1>4. ASSUME NEW s \in SessionIds, IssueFails(s)
      PROVE  AccessInv'
  BY <1>4 DEF IssueFails, AccessTypeOK, TokensAreDated
<1>5. ASSUME NEW s \in SessionIds, EndSession(s)
      PROVE  AccessInv'
  <2>1. /\ s \in active /\ active' = active \ {s}
        /\ revokedAt' = [revokedAt EXCEPT ![s] = clock]
        /\ UNCHANGED <<issuing, bearers, clock>>
    BY <1>5 DEF EndSession
  <2>2. AccessTypeOK'
    BY <2>1 DEF AccessTypeOK
  <2>3. ASSUME NEW t \in bearers
        PROVE  /\ t.expires <= clock + AccessTTL
               /\ (t.session \notin active' /\ ~t.late)
                    => t.expires <= revokedAt'[t.session] + AccessTTL
    <3>1. t.session \in SessionIds
      BY DEF AccessTypeOK, Bearer
    <3> QED BY <2>1, <3>1 DEF AccessTypeOK, TokensAreDated
  <2> QED BY <2>1, <2>2, <2>3 DEF TokensAreDated
<1>6. CASE UNCHANGED accessVars
  BY <1>6 DEF accessVars, AccessTypeOK, TokensAreDated
<1> QED BY <1>1, <1>2, <1>3, <1>4, <1>5, <1>6 DEF AccessNext

LEMMA AccessInvImplies == AccessInv => AccessEndsAfterRevocation
<1> SUFFICES ASSUME AccessInv, NEW t \in bearers,
                    LetsIn(t), ~t.late, t.session \notin active
             PROVE  clock < revokedAt[t.session] + AccessTTL
  BY DEF AccessEndsAfterRevocation
<1>1. clock < t.expires /\ clock \in Nat /\ t.expires \in Nat /\ t.session \in SessionIds
  BY DEF LetsIn, Accepts, AccessInv, AccessTypeOK, Bearer
<1>2. t.expires <= revokedAt[t.session] + AccessTTL /\ revokedAt[t.session] \in Nat
  BY <1>1 DEF AccessInv, TokensAreDated, AccessTypeOK
<1> QED BY <1>1, <1>2, AccessAssumption
=============================================================================
