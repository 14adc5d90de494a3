-------------------------- MODULE ApiVersionProofs --------------------------
(***************************************************************************)
(* The API version service answers with the common part of two lists, for  *)
(* lists of any length and any number of callers.                          *)
(***************************************************************************)
EXTENDS ApiVersion, SequenceTheorems, WellFoundedInduction, TLAPS

(***************************************************************************)
(* FlattenSeq, which both of the service's loops are written with.  It is  *)
(* a recursive function, and what is said of it is shown by induction: a   *)
(* set that has 0 and every successor of a member is all of Nat.           *)
(***************************************************************************)

LEMMA LeastNat ==
  ASSUME NEW T \in SUBSET Nat, T # {}
  PROVE  \E n \in T : \A m \in T : n <= m
<1> DEFINE R == OpToRel(<, Nat)
<1>1. \E n \in T : \A m \in T : ~ (<<m, n>> \in R)
  <2>1. IsWellFoundedOn(R, Nat)
    BY NatLessThanWellFounded
  <2> HIDE DEF R
  <2> QED BY <2>1, WFMin
<1>2. \A m, n \in Nat : m < n => <<m, n>> \in R
  BY DEF OpToRel
<1> HIDE DEF R
<1>3. PICK n \in T : \A m \in T : ~ (<<m, n>> \in R)
  BY <1>1
<1>4. \A m \in T : ~ (m < n)
  BY <1>2, <1>3
<1> QED BY <1>3, <1>4

LEMMA NatIsInductive ==
  ASSUME NEW S, 0 \in S, \A n \in Nat : n \in S => n + 1 \in S
  PROVE  Nat \subseteq S
<1> SUFFICES ASSUME Nat \ S # {} PROVE FALSE
  OBVIOUS
<1>1. PICK n \in Nat \ S : \A m \in Nat \ S : n <= m
  BY LeastNat
<1>2. n - 1 \in Nat /\ n - 1 \notin S
  BY <1>1
<1> QED BY <1>1, <1>2

\* One round of FlattenSeq's function.
Flattened(seqs, f, i) == IF i = 1 THEN seqs[i] ELSE f[i-1] \o seqs[i]

\* That function exists, as long as it has to be.
LEMMA FlattenExists ==
  ASSUME NEW seqs, NEW n \in Nat
  PROVE  \E f : f = [i \in 1..n |-> Flattened(seqs, f, i)]
<1> DEFINE S == {m \in Nat : \E f : f = [i \in 1..m |-> Flattened(seqs, f, i)]}
<1>1. 0 \in S
  <2> DEFINE f == [i \in 1..0 |-> {}]
  <2>1. f = [i \in 1..0 |-> Flattened(seqs, f, i)]
    OBVIOUS
  <2> HIDE DEF f
  <2> QED BY <2>1
<1>2. ASSUME NEW m \in Nat, m \in S PROVE m + 1 \in S
  <2>1. PICK f : f = [i \in 1..m |-> Flattened(seqs, f, i)]
    BY <1>2
  <2> DEFINE g == [i \in 1..m+1 |-> IF i = m + 1 THEN Flattened(seqs, f, i) ELSE f[i]]
  <2>2. \A i \in 1..m : f[i] = Flattened(seqs, f, i)
    BY <2>1
  <2>3. \A i \in 1..m+1 : g[i] = Flattened(seqs, g, i)
    BY <2>2 DEF Flattened
  <2>4. g = [i \in 1..m+1 |-> Flattened(seqs, g, i)]
    BY <2>3
  <2> HIDE DEF g
  <2> QED BY <2>4
<1> HIDE DEF S
<1>3. n \in S
  BY <1>1, <1>2, NatIsInductive
<1> QED BY <1>3 DEF S

\* The rounds f[1], f[2] and so on, the last of which is the result.
Rounds(seqs, f) ==
  /\ f[1] = seqs[1]
  /\ \A i \in 1..Len(seqs) - 1 : f[i+1] = f[i] \o seqs[i+1]

LEMMA FlattenSeqUnfolds ==
  ASSUME NEW S, NEW seqs \in Seq(S), Len(seqs) # 0
  PROVE  \E f : FlattenSeq(seqs) = f[Len(seqs)] /\ Rounds(seqs, f)
<1> DEFINE f == CHOOSE f : f = [i \in 1..Len(seqs) |-> Flattened(seqs, f, i)]
<1>1. Len(seqs) \in Nat
  BY LenProperties
<1>2. f = [i \in 1..Len(seqs) |-> Flattened(seqs, f, i)]
  BY <1>1, FlattenExists
<1>3. FlattenSeq(seqs) = f[Len(seqs)]
  BY DEF FlattenSeq, Flattened
<1> HIDE DEF f
<1>4. \A i \in 1..Len(seqs) : f[i] = Flattened(seqs, f, i)
  BY <1>2
<1>5. f[1] = seqs[1]
  BY <1>1, <1>4 DEF Flattened
<1>6. ASSUME NEW i \in 1..Len(seqs) - 1 PROVE f[i+1] = f[i] \o seqs[i+1]
  <2>1. i + 1 \in 1..Len(seqs) /\ i + 1 # 1 /\ (i + 1) - 1 = i
    BY <1>1
  <2> QED BY <1>4, <2>1 DEF Flattened
<1> QED BY <1>3, <1>5, <1>6 DEF Rounds

LEMMA ConcatHasBoth ==
  ASSUME NEW U, NEW s \in Seq(U), NEW t \in Seq(U)
  PROVE  s \o t \in Seq(U) /\ ToSet(s \o t) = ToSet(s) \cup ToSet(t)
<1>1. /\ s \o t \in Seq(U) /\ Len(s \o t) = Len(s) + Len(t)
      /\ \A i \in 1..Len(s) + Len(t) :
            (s \o t)[i] = IF i <= Len(s) THEN s[i] ELSE t[i - Len(s)]
  BY ConcatProperties
<1>2. Len(s) \in Nat /\ Len(t) \in Nat
  BY LenProperties
<1>3. ToSet(s \o t) \subseteq ToSet(s) \cup ToSet(t)
  <2> SUFFICES ASSUME NEW i \in 1..Len(s) + Len(t)
               PROVE  (s \o t)[i] \in ToSet(s) \cup ToSet(t)
    BY <1>1 DEF ToSet
  <2>1. CASE i <= Len(s)
    BY <1>1, <1>2, <2>1 DEF ToSet
  <2>2. CASE ~ (i <= Len(s))
    BY <1>1, <1>2, <2>2 DEF ToSet
  <2> QED BY <2>1, <2>2
<1>4. ASSUME NEW i \in DOMAIN s PROVE s[i] \in ToSet(s \o t)
  <2>1. i \in 1..Len(s) + Len(t) /\ (s \o t)[i] = s[i]
    BY <1>1, <1>2
  <2> QED BY <1>1, <2>1 DEF ToSet
<1>5. ASSUME NEW i \in DOMAIN t PROVE t[i] \in ToSet(s \o t)
  <2>1. Len(s) + i \in 1..Len(s) + Len(t) /\ (s \o t)[Len(s) + i] = t[i]
    BY <1>1, <1>2
  <2> QED BY <1>1, <2>1 DEF ToSet
<1> QED BY <1>1, <1>3, <1>4, <1>5 DEF ToSet

\* What the first n sequences have.
FirstHave(seqs, n) == UNION {ToSet(seqs[i]) : i \in 1..n}

\* A round has that.
LEMMA RoundsHaveAll ==
  ASSUME NEW U, NEW seqs \in Seq(Seq(U)), NEW f, Rounds(seqs, f),
         NEW last \in 1..Len(seqs)
  PROVE  f[last] \in Seq(U) /\ ToSet(f[last]) = FirstHave(seqs, last)
<1>0. Len(seqs) \in Nat /\ \A i \in 1..Len(seqs) : seqs[i] \in Seq(U)
  BY LenProperties
<1> DEFINE Good(n) == f[n] \in Seq(U) /\ ToSet(f[n]) = FirstHave(seqs, n)
           S == {n \in Nat : n \in 1..Len(seqs) => Good(n)}
<1>1. 0 \in S
  OBVIOUS
<1>2. ASSUME NEW n \in Nat, n \in S PROVE n + 1 \in S
  <2> SUFFICES ASSUME n + 1 \in 1..Len(seqs) PROVE Good(n + 1)
    OBVIOUS
  <2>1. CASE n = 0
    <3>1. 1..n+1 = {1}
      BY <2>1
    <3> QED BY <1>0, <2>1, <3>1 DEF Rounds, FirstHave
  <2>2. CASE n # 0
    <3>1. n \in 1..Len(seqs) - 1 /\ n \in 1..Len(seqs)
      BY <1>0, <2>2
    <3>2. Good(n) /\ f[n+1] = f[n] \o seqs[n+1] /\ seqs[n+1] \in Seq(U)
      BY <1>0, <1>2, <3>1 DEF Rounds
    <3>3. f[n+1] \in Seq(U) /\ ToSet(f[n+1]) = ToSet(f[n]) \cup ToSet(seqs[n+1])
      BY <3>2, ConcatHasBoth
    <3>4. 1..n+1 = (1..n) \cup {n+1}
      OBVIOUS
    <3> QED BY <3>2, <3>3, <3>4 DEF FirstHave
  <2> QED BY <2>1, <2>2
<1> HIDE DEF S
<1>3. Nat \subseteq S
  BY <1>1, <1>2, NatIsInductive
<1>4. last \in Nat
  BY <1>0
<1> QED BY <1>3, <1>4 DEF S

\* FlattenSeq's result has what any of the sequences has.
LEMMA FlattenSeqHasAll ==
  ASSUME NEW U, NEW seqs \in Seq(Seq(U))
  PROVE  /\ FlattenSeq(seqs) \in Seq(U)
         /\ ToSet(FlattenSeq(seqs)) = FirstHave(seqs, Len(seqs))
<1>1. CASE Len(seqs) = 0
  <2>1. seqs = <<>>
    BY <1>1, EmptySeq
  <2> QED BY <2>1, EmptySeq DEF FlattenSeq, ToSet, FirstHave
<1>2. CASE Len(seqs) # 0
  <2>1. PICK f : FlattenSeq(seqs) = f[Len(seqs)] /\ Rounds(seqs, f)
    BY <1>2, FlattenSeqUnfolds
  <2>2. Len(seqs) \in 1..Len(seqs)
    BY <1>2, LenProperties
  <2>3. /\ f[Len(seqs)] \in Seq(U)
        /\ ToSet(f[Len(seqs)]) = FirstHave(seqs, Len(seqs))
    BY <2>1, <2>2, RoundsHaveAll
  <2> QED BY <2>1, <2>3
<1> QED BY <1>1, <1>2

\* Elements i and j of a sequence come from sequences in this order.
FromInOrder(s, i, j, seqs, n) ==
  \E k, l \in 1..n : k < l /\ s[i] \in ToSet(seqs[k]) /\ s[j] \in ToSet(seqs[l])

InOrder(s, seqs, n) ==
  \A i, j \in 1..Len(s) : i < j => FromInOrder(s, i, j, seqs, n)

LEMMA ShortIsInOrder ==
  ASSUME NEW s, NEW seqs, NEW n, Len(s) \in {0, 1}
  PROVE  InOrder(s, seqs, n)
<1>1. CASE Len(s) = 0
  <2>1. 1..Len(s) = {}
    BY <1>1
  <2> QED BY <2>1 DEF InOrder
<1>2. CASE Len(s) = 1
  <2>1. 1..Len(s) = {1}
    BY <1>2
  <2> QED BY <2>1 DEF InOrder
<1> QED BY <1>1, <1>2

\* A sequence of at most one element goes to the end.
LEMMA ConcatKeepsOrder ==
  ASSUME NEW U, NEW n \in Nat, NEW seqs, NEW s \in Seq(U), NEW t \in Seq(U), Len(t) \in {0, 1},
         InOrder(s, seqs, n), ToSet(s) = FirstHave(seqs, n), t = seqs[n+1]
  PROVE  InOrder(s \o t, seqs, n + 1)
<1>1. Len(s) \in Nat /\ Len(t) \in Nat /\ 1..n \subseteq 1..n+1
  BY LenProperties
<1>2. /\ Len(s \o t) = Len(s) + Len(t)
      /\ \A i \in 1..Len(s) + Len(t) :
            (s \o t)[i] = IF i <= Len(s) THEN s[i] ELSE t[i - Len(s)]
  BY ConcatProperties
<1> SUFFICES ASSUME NEW i \in 1..Len(s \o t), NEW j \in 1..Len(s \o t), i < j
             PROVE  FromInOrder(s \o t, i, j, seqs, n + 1)
  BY DEF InOrder
<1>3. i \in 1..Len(s) /\ (s \o t)[i] = s[i]
  <2>1. PICK m \in Nat, p \in {0, 1} : m = Len(s) /\ p = Len(t)
    BY <1>1
  <2>2. i \in 1..m+p /\ j \in 1..m+p /\ i < j
    BY <1>2, <2>1
  <2>3. i \in 1..m /\ i <= m
    BY <2>2
  <2> QED BY <1>2, <2>1, <2>2, <2>3
<1>4. CASE j \in 1..Len(s)
  <2>1. FromInOrder(s, i, j, seqs, n) /\ (s \o t)[j] = s[j]
    BY <1>1, <1>2, <1>3, <1>4 DEF InOrder
  <2> QED BY <1>1, <1>3, <2>1 DEF FromInOrder
<1>5. CASE j \notin 1..Len(s)
  <2>1. j - Len(s) = 1 /\ Len(t) = 1 /\ (s \o t)[j] = t[1]
    <3>1. j \in 1..Len(s) + Len(t) /\ ~ (j <= Len(s))
      BY <1>1, <1>2, <1>5
    <3>2. Len(t) = 1
      BY <1>1, <3>1
    <3>3. j = Len(s) + 1
      BY <1>1, <3>1, <3>2
    <3> QED BY <1>1, <1>2, <3>1, <3>2, <3>3
  <2>2. (s \o t)[j] \in ToSet(seqs[n+1])
    BY <2>1, LenProperties DEF ToSet
  <2>3. s[i] \in ToSet(s)
    BY <1>3, LenProperties DEF ToSet
  <2>4. PICK k \in 1..n : s[i] \in ToSet(seqs[k])
    BY <2>3 DEF FirstHave
  <2>5. k \in 1..n+1 /\ n + 1 \in 1..n+1 /\ k < n + 1
    OBVIOUS
  <2> QED BY <1>3, <2>2, <2>4, <2>5 DEF FromInOrder
<1> QED BY <1>4, <1>5

\* If none of the sequences has more than one element, a round has them in the
\* order of the sequences.
LEMMA RoundsKeepOrder ==
  ASSUME NEW U, NEW seqs \in Seq(Seq(U)), \A i \in 1..Len(seqs) : Len(seqs[i]) \in {0, 1},
         NEW f, Rounds(seqs, f), NEW last \in 1..Len(seqs)
  PROVE  InOrder(f[last], seqs, last)
<1>0. Len(seqs) \in Nat /\ \A i \in 1..Len(seqs) : seqs[i] \in Seq(U)
  BY LenProperties
<1> DEFINE S == {n \in Nat : n \in 1..Len(seqs) => InOrder(f[n], seqs, n)}
<1>1. 0 \in S
  OBVIOUS
<1>2. ASSUME NEW n \in Nat, n \in S PROVE n + 1 \in S
  <2> SUFFICES ASSUME n + 1 \in 1..Len(seqs) PROVE InOrder(f[n+1], seqs, n + 1)
    OBVIOUS
  <2>1. CASE n = 0
    <3>1. f[n+1] = seqs[1] /\ seqs[1] \in Seq(U) /\ Len(seqs[1]) \in {0, 1}
      BY <1>0, <2>1 DEF Rounds
    <3> QED BY <3>1, ShortIsInOrder
  <2>2. CASE n # 0
    <3>1. n \in 1..Len(seqs) - 1 /\ n \in 1..Len(seqs)
      BY <1>0, <2>2
    <3>2. /\ InOrder(f[n], seqs, n) /\ f[n+1] = f[n] \o seqs[n+1]
          /\ seqs[n+1] \in Seq(U) /\ Len(seqs[n+1]) \in {0, 1}
      BY <1>0, <1>2, <3>1 DEF Rounds
    <3>3. f[n] \in Seq(U) /\ ToSet(f[n]) = FirstHave(seqs, n)
      BY <3>1, RoundsHaveAll
    <3> QED BY <3>2, <3>3, ConcatKeepsOrder
  <2> QED BY <2>1, <2>2
<1> HIDE DEF S
<1>3. Nat \subseteq S
  BY <1>1, <1>2, NatIsInductive
<1>4. last \in Nat
  BY <1>0
<1> QED BY <1>3, <1>4 DEF S

\* And so has FlattenSeq's result.
LEMMA FlattenSeqKeepsOrder ==
  ASSUME NEW U, NEW seqs \in Seq(Seq(U)), \A i \in 1..Len(seqs) : Len(seqs[i]) \in {0, 1}
  PROVE  InOrder(FlattenSeq(seqs), seqs, Len(seqs))
<1>1. CASE Len(seqs) = 0
  <2>1. seqs = <<>>
    BY <1>1, EmptySeq
  <2> QED BY <2>1 DEF FlattenSeq, InOrder
<1>2. CASE Len(seqs) # 0
  <2>1. PICK f : FlattenSeq(seqs) = f[Len(seqs)] /\ Rounds(seqs, f)
    BY <1>2, FlattenSeqUnfolds
  <2>2. Len(seqs) \in 1..Len(seqs)
    BY <1>2, LenProperties
  <2>3. InOrder(f[Len(seqs)], seqs, Len(seqs))
    BY <2>1, <2>2, RoundsKeepOrder
  <2> QED BY <2>1, <2>3
<1> QED BY <1>1, <1>2

-----------------------------------------------------------------------------
(***************************************************************************)
(* A loop in a loop that appends what it finds, as both of the service's   *)
(* do: hit[k] are the rounds of the inner loop, in round k of the outer    *)
(* one, that find something, and val[k][j] is what round j finds.          *)
(***************************************************************************)

InnerLoop(n, hits, vals) ==
  FlattenSeq([j \in 1..n |-> IF j \in hits THEN <<vals[j]>> ELSE <<>>])

Loop(m, n, hit, val) == FlattenSeq([k \in 1..m |-> InnerLoop(n, hit[k], val[k])])

AtMostOne(S) == \A i, j \in S : i = j

LEMMA FunctionIsSeq ==
  ASSUME NEW S, NEW n \in Nat, NEW f \in [1..n -> S]
  PROVE  f \in Seq(S) /\ Len(f) = n
OBVIOUS

LEMMA InnerLoopFinds ==
  ASSUME NEW U, NEW n \in Nat, NEW hits \in SUBSET (1..n), NEW vals \in [1..n -> U]
  PROVE  /\ InnerLoop(n, hits, vals) \in Seq(U)
         /\ \A v : v \in ToSet(InnerLoop(n, hits, vals)) <=> \E j \in hits : v = vals[j]
         /\ AtMostOne(hits) => Len(InnerLoop(n, hits, vals)) \in {0, 1}
<1> DEFINE seqs == [j \in 1..n |-> IF j \in hits THEN <<vals[j]>> ELSE <<>>]
           result == InnerLoop(n, hits, vals)
<1>1. result = FlattenSeq(seqs)
  BY DEF InnerLoop
<1>2. \A j \in 1..n : /\ seqs[j] \in Seq(U) /\ Len(seqs[j]) \in {0, 1}
                      /\ ToSet(seqs[j]) = IF j \in hits THEN {vals[j]} ELSE {}
  BY DEF ToSet
<1>3. seqs \in Seq(Seq(U)) /\ Len(seqs) = n
  <2>1. seqs \in [1..n -> Seq(U)]
    BY <1>2
  <2> HIDE DEF seqs
  <2> QED BY <2>1, FunctionIsSeq
<1> HIDE DEF seqs, result
<1>4. result \in Seq(U) /\ ToSet(result) = FirstHave(seqs, n)
  BY <1>1, <1>3, FlattenSeqHasAll
<1>5. ASSUME NEW v PROVE v \in ToSet(result) <=> \E j \in hits : v = vals[j]
  <2>1. v \in ToSet(result) <=> \E j \in 1..n : v \in ToSet(seqs[j])
    BY <1>4 DEF FirstHave
  <2> QED BY <1>2, <2>1
<1>6. ASSUME AtMostOne(hits) PROVE Len(result) \in {0, 1}
  <2>1. InOrder(result, seqs, n)
    BY <1>1, <1>2, <1>3, FlattenSeqKeepsOrder
  <2>2. ASSUME 1 \in 1..Len(result), 2 \in 1..Len(result) PROVE FALSE
    <3>1. PICK k \in 1..n, l \in 1..n :
             k < l /\ result[1] \in ToSet(seqs[k]) /\ result[2] \in ToSet(seqs[l])
      BY <2>1, <2>2 DEF InOrder, FromInOrder
    <3>2. k \in hits /\ l \in hits
      BY <1>2, <3>1
    <3> QED BY <1>6, <3>1, <3>2 DEF AtMostOne
  <2>3. PICK m \in Nat : m = Len(result)
    BY <1>4, LenProperties
  <2>4. m \in {0, 1}
    BY <2>2, <2>3
  <2> QED BY <2>3, <2>4
<1> QED BY <1>4, <1>5, <1>6 DEF result

\* The result has what was found, and nothing else; and in the order of the
\* outer loop's rounds, if none of them has found more than one thing.
Found(result, U, m, hit, val) ==
  /\ result \in Seq(U)
  /\ \A v : v \in ToSet(result) <=> \E k \in 1..m : \E j \in hit[k] : v = val[k][j]
  /\ (\A k \in 1..m : AtMostOne(hit[k])) =>
        \A i, j \in 1..Len(result) : i < j =>
           \E k, l \in 1..m : \E a \in hit[k], b \in hit[l] :
              k < l /\ result[i] = val[k][a] /\ result[j] = val[l][b]

LEMMA LoopFinds ==
  ASSUME NEW U, NEW m \in Nat, NEW n \in Nat,
         NEW hit \in [1..m -> SUBSET (1..n)], NEW val \in [1..m -> [1..n -> U]]
  PROVE  Found(Loop(m, n, hit, val), U, m, hit, val)
<1> DEFINE seqs == [k \in 1..m |-> InnerLoop(n, hit[k], val[k])]
           result == Loop(m, n, hit, val)
<1>1. result = FlattenSeq(seqs)
  BY DEF Loop
<1>2. ASSUME NEW k \in 1..m
      PROVE  /\ seqs[k] \in Seq(U)
             /\ \A v : v \in ToSet(seqs[k]) <=> \E j \in hit[k] : v = val[k][j]
             /\ AtMostOne(hit[k]) => Len(seqs[k]) \in {0, 1}
  <2>1. PICK hits \in SUBSET (1..n), vals \in [1..n -> U] :
           hits = hit[k] /\ vals = val[k]
    OBVIOUS
  <2>2. /\ InnerLoop(n, hits, vals) \in Seq(U)
        /\ \A v : v \in ToSet(InnerLoop(n, hits, vals)) <=> \E j \in hits : v = vals[j]
        /\ AtMostOne(hits) => Len(InnerLoop(n, hits, vals)) \in {0, 1}
    BY InnerLoopFinds
  <2>3. seqs[k] = InnerLoop(n, hits, vals)
    BY <2>1
  <2> HIDE DEF seqs
  <2> QED BY <2>1, <2>2, <2>3
<1>3. seqs \in Seq(Seq(U)) /\ Len(seqs) = m
  <2>1. seqs \in [1..m -> Seq(U)]
    BY <1>2
  <2> HIDE DEF seqs
  <2> QED BY <2>1, FunctionIsSeq
<1> HIDE DEF seqs, result
<1>4. result \in Seq(U) /\ ToSet(result) = FirstHave(seqs, m)
  BY <1>1, <1>3, FlattenSeqHasAll
<1>5. ASSUME NEW v
      PROVE  v \in ToSet(result) <=> \E k \in 1..m : \E j \in hit[k] : v = val[k][j]
  <2>1. v \in ToSet(result) <=> \E k \in 1..m : v \in ToSet(seqs[k])
    BY <1>4 DEF FirstHave
  <2>2. ASSUME NEW k \in 1..m
        PROVE  v \in ToSet(seqs[k]) <=> \E j \in hit[k] : v = val[k][j]
    <3>1. \A w : w \in ToSet(seqs[k]) <=> \E j \in hit[k] : w = val[k][j]
      BY <1>2
    <3> QED BY <3>1
  <2> QED BY <2>1, <2>2
<1>6. ASSUME \A k \in 1..m : AtMostOne(hit[k]),
             NEW i \in 1..Len(result), NEW j \in 1..Len(result), i < j
      PROVE  \E k, l \in 1..m : \E a \in hit[k], b \in hit[l] :
                k < l /\ result[i] = val[k][a] /\ result[j] = val[l][b]
  <2>1. InOrder(result, seqs, m)
    BY <1>1, <1>2, <1>3, <1>6, FlattenSeqKeepsOrder
  <2>2. PICK k \in 1..m, l \in 1..m :
           k < l /\ result[i] \in ToSet(seqs[k]) /\ result[j] \in ToSet(seqs[l])
    BY <1>6, <2>1 DEF InOrder, FromInOrder
  <2>3. PICK a \in hit[k] : result[i] = val[k][a]
    BY <1>2, <2>2
  <2>4. PICK b \in hit[l] : result[j] = val[l][b]
    BY <1>2, <2>2
  <2> QED BY <2>2, <2>3, <2>4
<1> QED BY <1>4, <1>5, <1>6 DEF result, Found

-----------------------------------------------------------------------------
(***************************************************************************)
(* What is found, of majors and of specifications.                         *)
(***************************************************************************)

LEMMA SeqIsList ==
  ASSUME NEW U, NEW s \in Seq(U)
  PROVE  IsList(s) /\ Len(s) \in Nat /\ DOMAIN s = 1..Len(s)
<1>1. Len(s) \in Nat /\ s \in [1..Len(s) -> ToSet(s)]
  BY LenProperties DEF ToSet
<1> QED BY <1>1, FunctionIsSeq DEF IsList

\* The common majors are those of both lists, each once if both lists are so.
LEMMA CommonMajors ==
  ASSUME NEW s, NEW t, IsList(s), IsList(t)
  PROVE  /\ IsList(FindCommonMajors(s, t))
         /\ ToSet(FindCommonMajors(s, t)) = ToSet(s) \cap ToSet(t)
         /\ IsInjective(s) /\ IsInjective(t) => IsInjective(FindCommonMajors(s, t))
<1>0. /\ Len(s) \in Nat /\ DOMAIN s = 1..Len(s)
      /\ Len(t) \in Nat /\ DOMAIN t = 1..Len(t)
  BY SeqIsList DEF IsList
<1> DEFINE hit == [k \in 1..Len(s) |-> {j \in 1..Len(t) : s[k] = t[j]}]
           val == [k \in 1..Len(s) |-> [j \in 1..Len(t) |-> s[k]]]
           result == Loop(Len(s), Len(t), hit, val)
<1>1. \A k \in 1..Len(s) :
         [j \in DOMAIN t |-> IF s[k] = t[j] THEN <<s[k]>> ELSE <<>>] =
         [j \in 1..Len(t) |-> IF j \in hit[k] THEN <<val[k][j]>> ELSE <<>>]
  BY <1>0
<1>2. FindCommonMajors(s, t) = result
  BY <1>0, <1>1 DEF FindCommonMajors, Loop, InnerLoop
<1>3. /\ hit \in [1..Len(s) -> SUBSET (1..Len(t))]
      /\ val \in [1..Len(s) -> [1..Len(t) -> ToSet(s)]]
  BY <1>0 DEF ToSet
<1>4. \A k \in 1..Len(s) : /\ \A j : j \in hit[k] <=> j \in 1..Len(t) /\ s[k] = t[j]
                           /\ \A j \in 1..Len(t) : val[k][j] = s[k]
  OBVIOUS
<1> HIDE DEF hit, val
<1>5. Found(result, ToSet(s), Len(s), hit, val)
  BY <1>0, <1>3, LoopFinds
<1> HIDE DEF result
<1>6. result \in Seq(ToSet(s))
  BY <1>5 DEF Found
<1>7. IsList(result) /\ Len(result) \in Nat /\ DOMAIN result = 1..Len(result)
  BY <1>6, SeqIsList
<1>8. ToSet(result) = ToSet(s) \cap ToSet(t)
  <2>1. \A v : v \in ToSet(result) <=>
                 \E k \in 1..Len(s), j \in 1..Len(t) : s[k] = t[j] /\ v = s[k]
    <3>1. \A v : v \in ToSet(result) <=>
                   \E k \in 1..Len(s) : \E j \in hit[k] : v = val[k][j]
      BY <1>5 DEF Found
    <3> QED BY <1>4, <3>1
  <2> QED BY <1>0, <2>1 DEF ToSet
<1>9. ASSUME IsInjective(s), IsInjective(t) PROVE IsInjective(result)
  <2>1. \A k \in 1..Len(s) : AtMostOne(hit[k])
    BY <1>0, <1>4, <1>9 DEF AtMostOne, IsInjective
  <2>2. ASSUME NEW i \in 1..Len(result), NEW j \in 1..Len(result), i < j
        PROVE  result[i] # result[j]
    <3>1. PICK k \in 1..Len(s), l \in 1..Len(s) :
             \E a \in hit[k], b \in hit[l] :
                k < l /\ result[i] = val[k][a] /\ result[j] = val[l][b]
      BY <1>5, <2>1, <2>2 DEF Found
    <3>2. k < l /\ result[i] = s[k] /\ result[j] = s[l]
      BY <1>4, <3>1
    <3> QED BY <1>0, <1>9, <3>2 DEF IsInjective
  <2>3. \A i, j \in 1..Len(result) : i < j \/ j < i \/ i = j
    BY <1>7
  <2> QED BY <1>7, <2>2, <2>3 DEF IsInjective
<1> QED BY <1>2, <1>7, <1>8, <1>9

\* The minors of two specifications can be compared.
Comparable(a, d) == Missing \notin {a.minor, d.minor}

\* A merged specification has the root and the major of the agent's, the lower
\* minor and the common majors.
LEMMA InfosMerge ==
  ASSUME NEW a, NEW d, IsInfo(a), IsInfo(d), Comparable(a, d)
  PROVE  /\ IsInfo(MergedInfo(a, d))
         /\ MergedInfo(a, d).specRootUrl = a.specRootUrl
         /\ MergedInfo(a, d).major = a.major
         /\ MergedInfo(a, d).minor # Missing
         /\ MergedInfo(a, d).minor = Min({a.minor, d.minor})
         /\ ToSet(MergedInfo(a, d).supportedMajors) =
               ToSet(a.supportedMajors) \cap ToSet(d.supportedMajors)
         /\ IsInjective(a.supportedMajors) /\ IsInjective(d.supportedMajors) =>
               IsInjective(MergedInfo(a, d).supportedMajors)
<1> DEFINE lower == IF d.minor < a.minor THEN d.minor ELSE a.minor
           majors == FindCommonMajors(d.supportedMajors, a.supportedMajors)
           spec == MergedInfo(a, d)
<1>1. /\ DOMAIN spec = DOMAIN a
      /\ spec.specRootUrl = a.specRootUrl /\ spec.major = a.major
      /\ spec.minor = lower /\ spec.supportedMajors = majors
  BY DEF MergedInfo, IsInfo
<1>2. a.minor \in Nat /\ d.minor \in Nat /\ lower \in Nat /\ lower # Missing
  BY DEF IsInfo, Comparable
<1>3. lower = Min({a.minor, d.minor})
  BY <1>2 DEF Min
<1>4. /\ IsList(majors)
      /\ ToSet(majors) = ToSet(d.supportedMajors) \cap ToSet(a.supportedMajors)
      /\ IsInjective(d.supportedMajors) /\ IsInjective(a.supportedMajors) =>
            IsInjective(majors)
  BY CommonMajors DEF IsInfo
<1> HIDE DEF lower, majors, spec
<1> QED BY <1>1, <1>2, <1>3, <1>4 DEF IsInfo, spec

IsInfos(list) == IsList(list) /\ \A k \in DOMAIN list : IsInfo(list[k])

\* What the merge of two lists has, and in which order if roots are distinct.
IsMerge(result, agentList, dbaasList) ==
  /\ IsList(result)
  /\ \A v : v \in ToSet(result) <=>
        \E k \in DOMAIN agentList, j \in DOMAIN dbaasList :
           /\ Matches(agentList[k], dbaasList[j])
           /\ v = MergedInfo(agentList[k], dbaasList[j])
  /\ Distinct(dbaasList) =>
        \A i, j \in DOMAIN result : i < j =>
           \E k, l \in DOMAIN agentList : \E a, b \in DOMAIN dbaasList :
              /\ k < l
              /\ result[i] = MergedInfo(agentList[k], dbaasList[a])
              /\ result[j] = MergedInfo(agentList[l], dbaasList[b])

LEMMA ListsMerge ==
  ASSUME NEW agentList, NEW dbaasList, IsList(agentList), IsList(dbaasList)
  PROVE  IsMerge(Merged(agentList, dbaasList), agentList, dbaasList)
<1> DEFINE m == Len(agentList)
           n == Len(dbaasList)
           U == {MergedInfo(agentList[p[1]], dbaasList[p[2]]) : p \in (1..m) \X (1..n)}
           hit == [k \in 1..m |-> {j \in 1..n : Matches(agentList[k], dbaasList[j])}]
           val == [k \in 1..m |-> [j \in 1..n |-> MergedInfo(agentList[k], dbaasList[j])]]
           result == Loop(m, n, hit, val)
<1>0. m \in Nat /\ DOMAIN agentList = 1..m /\ n \in Nat /\ DOMAIN dbaasList = 1..n
  BY SeqIsList DEF IsList
<1>1. \A k \in 1..m :
         [j \in DOMAIN dbaasList |-> IF Matches(agentList[k], dbaasList[j])
                                     THEN <<MergedInfo(agentList[k], dbaasList[j])>>
                                     ELSE <<>>] =
         [j \in 1..n |-> IF j \in hit[k] THEN <<val[k][j]>> ELSE <<>>]
  BY <1>0
<1>2. Merged(agentList, dbaasList) = result
  BY <1>0, <1>1 DEF Merged, Loop, InnerLoop
<1>3. hit \in [1..m -> SUBSET (1..n)] /\ val \in [1..m -> [1..n -> U]]
  <2>1. \A k \in 1..m, j \in 1..n : MergedInfo(agentList[k], dbaasList[j]) \in U
    <3> SUFFICES ASSUME NEW k \in 1..m, NEW j \in 1..n
                 PROVE  MergedInfo(agentList[k], dbaasList[j]) \in U
      OBVIOUS
    <3>1. <<k, j>> \in (1..m) \X (1..n) /\ <<k, j>>[1] = k /\ <<k, j>>[2] = j
      OBVIOUS
    <3> QED BY <3>1
  <2> HIDE DEF U
  <2> QED BY <2>1
<1>4. \A k \in 1..m :
         /\ \A j : j \in hit[k] <=> j \in 1..n /\ Matches(agentList[k], dbaasList[j])
         /\ \A j \in 1..n : val[k][j] = MergedInfo(agentList[k], dbaasList[j])
  OBVIOUS
<1> HIDE DEF U, hit, val
<1>5. Found(result, U, m, hit, val)
  BY <1>0, <1>3, LoopFinds
<1> HIDE DEF result
<1>6. IsList(result) /\ Len(result) \in Nat /\ DOMAIN result = 1..Len(result)
  BY <1>5, SeqIsList DEF Found
<1>7. \A v : v \in ToSet(result) <=>
                \E k \in 1..m, j \in 1..n :
                   /\ Matches(agentList[k], dbaasList[j])
                   /\ v = MergedInfo(agentList[k], dbaasList[j])
  <2> SUFFICES ASSUME NEW v
               PROVE  v \in ToSet(result) <=>
                         \E k \in 1..m : \E j \in 1..n :
                            /\ Matches(agentList[k], dbaasList[j])
                            /\ v = MergedInfo(agentList[k], dbaasList[j])
    OBVIOUS
  <2>1. v \in ToSet(result) <=> \E k \in 1..m : \E j \in hit[k] : v = val[k][j]
    BY <1>5 DEF Found
  <2>2. ASSUME NEW k \in 1..m
        PROVE  (\E j \in hit[k] : v = val[k][j]) <=>
               \E j \in 1..n : /\ Matches(agentList[k], dbaasList[j])
                               /\ v = MergedInfo(agentList[k], dbaasList[j])
    BY <1>4
  <2> QED BY <2>1, <2>2
<1>8. ASSUME Distinct(dbaasList),
             NEW i \in 1..Len(result), NEW j \in 1..Len(result), i < j
      PROVE  \E k, l \in 1..m : \E a, b \in 1..n :
                /\ k < l
                /\ result[i] = MergedInfo(agentList[k], dbaasList[a])
                /\ result[j] = MergedInfo(agentList[l], dbaasList[b])
  <2>1. \A k \in 1..m : AtMostOne(hit[k])
    <3> SUFFICES ASSUME NEW k \in 1..m, NEW a \in hit[k], NEW b \in hit[k]
                 PROVE  a = b
      BY DEF AtMostOne
    <3>1. dbaasList[a].specRootUrl = dbaasList[b].specRootUrl /\ a \in 1..n /\ b \in 1..n
      BY <1>4 DEF Matches
    <3> QED BY <1>0, <1>8, <3>1 DEF Distinct, IsInjective
  <2>2. PICK k \in 1..m, l \in 1..m :
           \E a \in hit[k], b \in hit[l] :
              k < l /\ result[i] = val[k][a] /\ result[j] = val[l][b]
    BY <1>5, <1>8, <2>1 DEF Found
  <2>3. PICK a \in hit[k], b \in hit[l] :
           k < l /\ result[i] = val[k][a] /\ result[j] = val[l][b]
    BY <2>2
  <2>4. /\ a \in 1..n /\ result[i] = MergedInfo(agentList[k], dbaasList[a])
        /\ b \in 1..n /\ result[j] = MergedInfo(agentList[l], dbaasList[b])
    BY <1>4, <2>3
  <2> QED BY <2>3, <2>4
<1> HIDE DEF m, n
<1>9. ASSUME Distinct(dbaasList),
             NEW i \in DOMAIN result, NEW j \in DOMAIN result, i < j
      PROVE  \E k, l \in DOMAIN agentList : \E a, b \in DOMAIN dbaasList :
                /\ k < l
                /\ result[i] = MergedInfo(agentList[k], dbaasList[a])
                /\ result[j] = MergedInfo(agentList[l], dbaasList[b])
  <2>1. i \in 1..Len(result) /\ j \in 1..Len(result)
    BY <1>6
  <2>2. \E k, l \in 1..m : \E a, b \in 1..n :
           /\ k < l
           /\ result[i] = MergedInfo(agentList[k], dbaasList[a])
           /\ result[j] = MergedInfo(agentList[l], dbaasList[b])
    BY <1>8, <1>9, <2>1
  <2> QED BY <1>0, <2>2
<1>10. IsMerge(result, agentList, dbaasList)
  BY <1>0, <1>6, <1>7, <1>9 DEF IsMerge
<1> QED BY <1>2, <1>10

\* Every specification of the merge is one of two that can be compared.
LEMMA MergedHasMergedInfos ==
  ASSUME NEW agentList, NEW dbaasList, IsInfos(agentList), IsInfos(dbaasList),
         ~DereferencesMissing(agentList, dbaasList),
         NEW spec \in ToSet(Merged(agentList, dbaasList))
  PROVE  \E k \in DOMAIN agentList, j \in DOMAIN dbaasList :
            /\ Matches(agentList[k], dbaasList[j])
            /\ Comparable(agentList[k], dbaasList[j])
            /\ spec = MergedInfo(agentList[k], dbaasList[j])
BY ListsMerge DEF IsMerge, IsInfos, DereferencesMissing, Comparable

LEMMA MergedIsTyped ==
  ASSUME NEW agentList, NEW dbaasList, IsInfos(agentList), IsInfos(dbaasList),
         ~DereferencesMissing(agentList, dbaasList),
         NEW i \in DOMAIN Merged(agentList, dbaasList)
  PROVE  /\ IsInfo(Merged(agentList, dbaasList)[i])
         /\ Merged(agentList, dbaasList)[i].minor # Missing
<1>1. Merged(agentList, dbaasList)[i] \in ToSet(Merged(agentList, dbaasList))
  BY DEF ToSet
<1>2. PICK k \in DOMAIN agentList, j \in DOMAIN dbaasList :
         /\ Comparable(agentList[k], dbaasList[j])
         /\ Merged(agentList, dbaasList)[i] = MergedInfo(agentList[k], dbaasList[j])
  BY <1>1, MergedHasMergedInfos
<1>3. IsInfo(agentList[k]) /\ IsInfo(dbaasList[j])
  BY DEF IsInfos
<1>4. /\ IsInfo(MergedInfo(agentList[k], dbaasList[j]))
      /\ MergedInfo(agentList[k], dbaasList[j]).minor # Missing
  BY <1>2, <1>3, InfosMerge
<1> QED BY <1>2, <1>4

LEMMA MergedIsCommonPart ==
  ASSUME NEW agentList, NEW dbaasList, IsInfos(agentList), IsInfos(dbaasList),
         ~DereferencesMissing(agentList, dbaasList)
  PROVE  IsCommonPart(Merged(agentList, dbaasList), agentList, dbaasList)
<1> DEFINE Pairs == {p \in SpecsOf(agentList) \X SpecsOf(dbaasList) :
                        p[1].specRootUrl = p[2].specRootUrl}
           Of(p, spec) ==
             /\ Missing \notin {p[1].minor, p[2].minor}
             /\ spec.specRootUrl = p[1].specRootUrl /\ spec.major = p[1].major
             /\ spec.minor = Min({p[1].minor, p[2].minor})
             /\ ToSet(spec.supportedMajors) =
                   ToSet(p[1].supportedMajors) \cap ToSet(p[2].supportedMajors)
           result == Merged(agentList, dbaasList)
<1>1. ASSUME NEW k \in DOMAIN agentList, NEW j \in DOMAIN dbaasList,
             Matches(agentList[k], dbaasList[j])
      PROVE  Of(<<agentList[k], dbaasList[j]>>, MergedInfo(agentList[k], dbaasList[j]))
  <2>1. Comparable(agentList[k], dbaasList[j])
    BY <1>1 DEF DereferencesMissing, Comparable
  <2> QED BY <2>1, InfosMerge DEF IsInfos, Comparable
<1>2. ASSUME NEW p \in Pairs PROVE \E spec \in SpecsOf(result) : Of(p, spec)
  <2>1. PICK k \in DOMAIN agentList, j \in DOMAIN dbaasList :
           p = <<agentList[k], dbaasList[j]>>
    BY DEF SpecsOf, ToSet
  <2>2. Matches(agentList[k], dbaasList[j])
    BY <2>1 DEF Matches
  <2>3. MergedInfo(agentList[k], dbaasList[j]) \in SpecsOf(result)
    BY <2>2, ListsMerge DEF IsMerge, SpecsOf, IsInfos
  <2> HIDE DEF Of
  <2> QED BY <1>1, <2>1, <2>2, <2>3
<1>3. ASSUME NEW spec \in SpecsOf(result) PROVE \E p \in Pairs : Of(p, spec)
  <2>1. PICK k \in DOMAIN agentList, j \in DOMAIN dbaasList :
           /\ Matches(agentList[k], dbaasList[j])
           /\ spec = MergedInfo(agentList[k], dbaasList[j])
    BY ListsMerge DEF IsMerge, SpecsOf, IsInfos
  <2>2. <<agentList[k], dbaasList[j]>> \in Pairs
    BY <2>1 DEF SpecsOf, ToSet, Matches
  <2> HIDE DEF Of, Pairs
  <2> QED BY <1>1, <2>1, <2>2
<1> QED BY <1>2, <1>3 DEF IsCommonPart

\* The merge of distinct specifications names each root once, in the agent's
\* order, and each major once under it.
LEMMA MergedIsDistinct ==
  ASSUME NEW agentList, NEW dbaasList, IsInfos(agentList), IsInfos(dbaasList),
         ~DereferencesMissing(agentList, dbaasList),
         Distinct(agentList), Distinct(dbaasList)
  PROVE  LET result == Merged(agentList, dbaasList)
         IN  /\ Distinct(result)
             /\ \A i, j \in DOMAIN result : i < j =>
                   \E k, l \in DOMAIN agentList :
                      /\ k < l
                      /\ result[i].specRootUrl = agentList[k].specRootUrl
                      /\ result[j].specRootUrl = agentList[l].specRootUrl
<1> DEFINE result == Merged(agentList, dbaasList)
<1>1. IsList(result) /\ DOMAIN result = 1..Len(result) /\ Len(result) \in Nat
  BY ListsMerge, SeqIsList DEF IsMerge, IsInfos, IsList
<1>2. ASSUME NEW i \in DOMAIN result, NEW j \in DOMAIN result, i < j
      PROVE  \E k, l \in DOMAIN agentList :
                /\ k < l
                /\ result[i].specRootUrl = agentList[k].specRootUrl
                /\ result[j].specRootUrl = agentList[l].specRootUrl
  <2>1. PICK k \in DOMAIN agentList, l \in DOMAIN agentList,
             a \in DOMAIN dbaasList, b \in DOMAIN dbaasList :
           /\ k < l
           /\ result[i] = MergedInfo(agentList[k], dbaasList[a])
           /\ result[j] = MergedInfo(agentList[l], dbaasList[b])
    BY <1>2, ListsMerge DEF IsMerge, IsInfos
  <2>2. /\ MergedInfo(agentList[k], dbaasList[a]).specRootUrl = agentList[k].specRootUrl
        /\ MergedInfo(agentList[l], dbaasList[b]).specRootUrl = agentList[l].specRootUrl
    BY DEF IsInfos, IsInfo, MergedInfo
  <2> QED BY <2>1, <2>2
<1>3. ASSUME NEW i \in DOMAIN result, NEW j \in DOMAIN result, i # j
      PROVE  result[i].specRootUrl # result[j].specRootUrl
  <2>1. \A k, l \in DOMAIN agentList :
           agentList[k].specRootUrl = agentList[l].specRootUrl => k = l
    BY DEF Distinct, IsInjective
  <2>2. \A k, l \in DOMAIN agentList : k < l => k # l
    BY SeqIsList DEF IsInfos, IsList
  <2>3. i < j \/ j < i
    BY <1>1, <1>3
  <2> HIDE DEF result
  <2> QED BY <1>2, <2>1, <2>2, <2>3
<1>4. ASSUME NEW i \in DOMAIN result PROVE IsInjective(result[i].supportedMajors)
  <2>1. result[i] \in ToSet(result)
    BY DEF ToSet
  <2>2. PICK k \in DOMAIN agentList, j \in DOMAIN dbaasList :
           /\ Comparable(agentList[k], dbaasList[j])
           /\ result[i] = MergedInfo(agentList[k], dbaasList[j])
    BY <2>1, MergedHasMergedInfos
  <2> QED BY <2>2, InfosMerge DEF IsInfos, Distinct
<1> HIDE DEF result
<1>5. Distinct(result)
  BY <1>3, <1>4 DEF Distinct, IsInjective
<1> QED BY <1>2, <1>5 DEF result

-----------------------------------------------------------------------------
(***************************************************************************)
(* The service.                                                            *)
(***************************************************************************)

\* What the invariants say of one caller.
AnswerIsTyped(c) ==
  IF avPc[c] = "answered"
  THEN resultSpecs[c] # Nil /\ \A k \in DOMAIN resultSpecs[c] :
          IsInfo(resultSpecs[c][k]) /\ resultSpecs[c][k].minor # Missing
  ELSE resultSpecs[c] = Nil

AnswerIsCommonPart(c) ==
  avPc[c] = "answered" =>
     \/ \E list \in seen[c] : IsCommonPart(resultSpecs[c], agentSpecs, list)
     \/ resultSpecs[c] = <<>> /\ \E a \in reached[c] : a.code # OK

AnswerIsDistinct(c) ==
  avPc[c] = "answered" /\ Distinct(agentSpecs) /\ (\A list \in seen[c] : Distinct(list)) =>
     /\ Distinct(resultSpecs[c])
     /\ \A i, j \in DOMAIN resultSpecs[c] : i < j =>
           \E k, l \in DOMAIN agentSpecs :
              /\ k < l
              /\ resultSpecs[c][i].specRootUrl = agentSpecs[k].specRootUrl
              /\ resultSpecs[c][j].specRootUrl = agentSpecs[l].specRootUrl

\* While a caller asks, the aggregator's list is one of those it has seen, and
\* a reply to it is one of those or an error's.
ReplyIsSeen(c, a) ==
  IF a.code = OK THEN a.body \in seen[c] ELSE a.body \in {NoSpecs, NotJson}

AskingIsSound(c) ==
  avPc[c] = "asking" =>
     /\ agentSpecs # Invalid
     /\ dbaasSpecs \in seen[c]
     /\ \A a \in reached[c] : ReplyIsSeen(c, a)

\* The exchange begins without replies, and its answer is one of them.
ExchangeIsSound(c) ==
  /\ exState[c] = "idle" => reached[c] = {}
  /\ exState[c] = "answered" => answer[c] \in reached[c]

OutcomeIsRight(c) ==
  /\ AnswerIsTyped(c)
  /\ AnswerIsCommonPart(c)
  /\ AnswerIsDistinct(c)

Sound(c) == OutcomeIsRight(c) /\ AskingIsSound(c) /\ ExchangeIsSound(c)

VarsTyped ==
  /\ agentSpecs \in AgentLists /\ dbaasSpecs \in AggregatorLists
  /\ seen \in [Callers -> SUBSET AggregatorLists]
  /\ avPc \in [Callers -> {"idle", "asking", "answered", "failed", "panicked"}]
  /\ EX!TypeOK
  /\ DOMAIN resultSpecs = Callers

IInv == VarsTyped /\ \A c \in Callers : Sound(c)

\* The invariants are IInv's parts.
LEMMA IInvHasAll ==
  IInv => TypeOK /\ AnswersTheCommonPart /\ NothingTwice
BY DEF IInv, VarsTyped, Sound, OutcomeIsRight, AnswerIsTyped, AnswerIsCommonPart,
       AnswerIsDistinct, TypeOK, AnswersTheCommonPart, NothingTwice

LEMMA InitIInv == Init => IInv
<1> SUFFICES ASSUME Init PROVE IInv
  OBVIOUS
<1>1. VarsTyped
  BY DEF Init, VarsTyped, EX!Init, EX!TypeOK
<1>2. ASSUME NEW c \in Callers PROVE Sound(c)
  BY DEF Init, EX!Init, Sound, OutcomeIsRight, AnswerIsTyped, AnswerIsCommonPart,
         AnswerIsDistinct, AskingIsSound, ExchangeIsSound
<1> QED BY <1>1, <1>2 DEF IInv

\* An outcome stays right while it is one: replies may still come.
LEMMA OutcomeStaysRight ==
  ASSUME NEW c \in Callers, OutcomeIsRight(c), agentSpecs' = agentSpecs,
         resultSpecs'[c] = resultSpecs[c], avPc'[c] = avPc[c],
         avPc[c] = "answered" =>
            seen'[c] = seen[c] /\ reached[c] \subseteq reached'[c]
  PROVE  OutcomeIsRight(c)'
<1>1. AnswerIsTyped(c)'
  BY DEF OutcomeIsRight, AnswerIsTyped
<1>2. AnswerIsCommonPart(c)'
  BY DEF OutcomeIsRight, AnswerIsCommonPart
<1>3. AnswerIsDistinct(c)'
  BY DEF OutcomeIsRight, AnswerIsDistinct
<1> QED BY <1>1, <1>2, <1>3 DEF OutcomeIsRight

\* Without an outcome there is nothing to be right.
LEMMA NoOutcomeIsRight ==
  ASSUME NEW c \in Callers, resultSpecs'[c] = Nil, avPc'[c] # "answered"
  PROVE  OutcomeIsRight(c)'
BY DEF OutcomeIsRight, AnswerIsTyped, AnswerIsCommonPart, AnswerIsDistinct

\* What concerns one caller leaves the others as they are.
LEMMA OtherStaysSound ==
  ASSUME NEW c \in Callers, Sound(c), UNCHANGED <<agentSpecs, dbaasSpecs>>,
         seen'[c] = seen[c], avPc'[c] = avPc[c], resultSpecs'[c] = resultSpecs[c],
         exState'[c] = exState[c], reached'[c] = reached[c], answer'[c] = answer[c]
  PROVE  Sound(c)'
<1>1. OutcomeIsRight(c)'
  BY OutcomeStaysRight DEF Sound
<1>2. AskingIsSound(c)' /\ ExchangeIsSound(c)'
  BY DEF Sound, AskingIsSound, ReplyIsSeen, ExchangeIsSound
<1> QED BY <1>1, <1>2 DEF Sound

\* A step that concerns one caller only.
Concerns(c) ==
  /\ UNCHANGED <<agentSpecs, dbaasSpecs>>
  /\ \A d \in Callers \ {c} :
        /\ seen'[d] = seen[d] /\ avPc'[d] = avPc[d] /\ resultSpecs'[d] = resultSpecs[d]
        /\ exState'[d] = exState[d] /\ reached'[d] = reached[d] /\ answer'[d] = answer[d]

LEMMA OneCallersStep ==
  ASSUME IInv, NEW c \in Callers, Concerns(c), VarsTyped', Sound(c)'
  PROVE  IInv'
<1>1. ASSUME NEW d \in Callers, d # c PROVE Sound(d)'
  <2>1. /\ UNCHANGED <<agentSpecs, dbaasSpecs>> /\ Sound(d)
        /\ seen'[d] = seen[d] /\ avPc'[d] = avPc[d] /\ resultSpecs'[d] = resultSpecs[d]
        /\ exState'[d] = exState[d] /\ reached'[d] = reached[d] /\ answer'[d] = answer[d]
    BY <1>1 DEF IInv, Concerns
  <2> QED BY <2>1, OtherStaysSound
<1> QED BY <1>1 DEF IInv

LEMMA GetApiVersionSound ==
  ASSUME IInv, NEW c \in Callers, GetApiVersion(c) PROVE IInv'
<1>1. VarsTyped'
  BY DEF IInv, VarsTyped, GetApiVersion, exVars, EX!Ask, EX!TypeOK
<1>2. Concerns(c)
  BY DEF IInv, VarsTyped, GetApiVersion, exVars, EX!Ask, EX!TypeOK, Concerns
<1>3. OutcomeIsRight(c)'
  <2>1. resultSpecs'[c] = Nil /\ avPc'[c] # "answered"
    BY DEF IInv, VarsTyped, Sound, OutcomeIsRight, AnswerIsTyped, GetApiVersion
  <2> QED BY <2>1, NoOutcomeIsRight
<1>4. AskingIsSound(c)'
  BY DEF IInv, VarsTyped, Sound, ExchangeIsSound, AskingIsSound, GetApiVersion,
         EX!Ask, EX!TypeOK
<1>5. ExchangeIsSound(c)'
  BY DEF IInv, VarsTyped, Sound, ExchangeIsSound, GetApiVersion, exVars,
         EX!Ask, EX!TypeOK
<1> QED BY <1>1, <1>2, <1>3, <1>4, <1>5, OneCallersStep DEF Sound

LEMMA AggregatorRunsSound ==
  ASSUME IInv, NEW c \in Callers, AggregatorRuns(c) PROVE IInv'
<1>1. PICK a \in Replies :
         /\ EX!Run(c, a)
         /\ IF a.code = OK THEN a.body = dbaasSpecs ELSE a.body \in {NoSpecs, NotJson}
  BY DEF IInv, VarsTyped, AggregatorRuns, Replies, OK, ServerError
<1>2. UNCHANGED <<agentSpecs, dbaasSpecs, seen, avPc, resultSpecs>>
  BY DEF AggregatorRuns
<1>3. VarsTyped'
  BY <1>1, <1>2 DEF IInv, VarsTyped, EX!Run, EX!TypeOK
<1>4. Concerns(c)
  BY <1>1, <1>2 DEF IInv, VarsTyped, EX!Run, EX!TypeOK, Concerns
<1>5. reached'[c] = reached[c] \cup {a} /\ exState[c] # "idle"
      /\ exState' = exState /\ answer' = answer
  BY <1>1 DEF IInv, VarsTyped, EX!Run, EX!TypeOK
<1>6. OutcomeIsRight(c)'
  BY <1>2, <1>5, OutcomeStaysRight DEF IInv, Sound
<1>7. AskingIsSound(c)'
  BY <1>1, <1>2, <1>5 DEF IInv, Sound, AskingIsSound, ReplyIsSeen
<1>8. ExchangeIsSound(c)'
  BY <1>5 DEF IInv, Sound, ExchangeIsSound
<1> QED BY <1>3, <1>4, <1>6, <1>7, <1>8, OneCallersStep DEF Sound

LEMMA DoRequestReturnsSound ==
  ASSUME IInv, NEW c \in Callers, DoRequestReturns(c) PROVE IInv'
<1>1. PICK a \in reached[c] : EX!Answered(c, a)
  BY DEF DoRequestReturns
<1>2. UNCHANGED <<agentSpecs, dbaasSpecs, seen, avPc, resultSpecs>>
  BY DEF DoRequestReturns
<1>3. VarsTyped'
  BY <1>1, <1>2 DEF IInv, VarsTyped, EX!Answered, EX!TypeOK
<1>4. Concerns(c)
  BY <1>1, <1>2 DEF IInv, VarsTyped, EX!Answered, EX!TypeOK, Concerns
<1>5. reached' = reached /\ exState'[c] = "answered" /\ answer'[c] = a
  BY <1>1 DEF IInv, VarsTyped, EX!Answered, EX!TypeOK
<1>6. OutcomeIsRight(c)'
  BY <1>2, <1>5, OutcomeStaysRight DEF IInv, Sound
<1>7. AskingIsSound(c)' /\ ExchangeIsSound(c)'
  BY <1>2, <1>5 DEF IInv, Sound, AskingIsSound, ReplyIsSeen, ExchangeIsSound
<1> QED BY <1>3, <1>4, <1>6, <1>7, OneCallersStep DEF Sound

LEMMA DoRequestFailsSound ==
  ASSUME IInv, NEW c \in Callers, DoRequestFails(c) PROVE IInv'
<1>1. VarsTyped'
  BY DEF IInv, VarsTyped, DoRequestFails, EX!Fail, EX!TypeOK
<1>2. Concerns(c)
  BY DEF IInv, VarsTyped, DoRequestFails, EX!Fail, EX!TypeOK, Concerns
<1>3. /\ resultSpecs'[c] = Nil /\ avPc'[c] = "failed" /\ exState'[c] = "failed"
  BY DEF IInv, VarsTyped, Sound, OutcomeIsRight, AnswerIsTyped, DoRequestFails,
         EX!Fail, EX!TypeOK
<1>4. OutcomeIsRight(c)'
  BY <1>3, NoOutcomeIsRight
<1>5. AskingIsSound(c)' /\ ExchangeIsSound(c)'
  BY <1>3 DEF AskingIsSound, ExchangeIsSound
<1> QED BY <1>1, <1>2, <1>4, <1>5, OneCallersStep DEF Sound

LEMMA UnmarshalFailsSound ==
  ASSUME IInv, NEW c \in Callers, UnmarshalFails(c) PROVE IInv'
<1>1. VarsTyped'
  BY DEF IInv, VarsTyped, UnmarshalFails, exVars, EX!TypeOK
<1>2. Concerns(c)
  BY DEF IInv, VarsTyped, UnmarshalFails, exVars, Concerns
<1>3. resultSpecs'[c] = Nil /\ avPc'[c] = "failed"
  BY DEF IInv, VarsTyped, Sound, OutcomeIsRight, AnswerIsTyped, UnmarshalFails
<1>4. OutcomeIsRight(c)'
  BY <1>3, NoOutcomeIsRight
<1>5. AskingIsSound(c)' /\ ExchangeIsSound(c)'
  BY <1>3 DEF IInv, Sound, AskingIsSound, ExchangeIsSound, UnmarshalFails, exVars
<1> QED BY <1>1, <1>2, <1>4, <1>5, OneCallersStep DEF Sound

LEMMA FinishSound ==
  ASSUME IInv, NEW c \in Callers, Finish(c) PROVE IInv'
<1>1. VarsTyped'
  BY DEF IInv, VarsTyped, Finish, exVars, EX!Return, EX!TypeOK
<1>2. Concerns(c)
  BY DEF IInv, VarsTyped, Finish, exVars, EX!Return, EX!TypeOK, Concerns
<1>3. resultSpecs'[c] = Nil /\ avPc'[c] = "idle"
  BY DEF IInv, VarsTyped, Finish
<1>4. OutcomeIsRight(c)'
  BY <1>3, NoOutcomeIsRight
<1>5. AskingIsSound(c)'
  BY <1>3 DEF AskingIsSound
<1>6. ExchangeIsSound(c)'
  <2>1. CASE exState[c] = "idle"
    BY <2>1 DEF IInv, Sound, ExchangeIsSound, Finish, exVars
  <2>2. CASE exState[c] # "idle"
    BY <2>2 DEF IInv, VarsTyped, ExchangeIsSound, Finish, EX!Return, EX!TypeOK
  <2> QED BY <2>1, <2>2
<1> QED BY <1>1, <1>2, <1>4, <1>5, <1>6, OneCallersStep DEF Sound

\* The aggregator's new list is one of those that everyone who asks has seen.
LEMMA UpgradeSound ==
  ASSUME IInv, NEW c \in Callers, Upgrade(c) PROVE IInv'
<1>1. /\ UNCHANGED <<agentSpecs, avPc, resultSpecs, exState, reached, answer>>
      /\ dbaasSpecs' \in AggregatorLists
  BY DEF Upgrade, exVars
<1>2. \A d \in Callers : seen'[d] = IF avPc[d] = "asking"
                                    THEN seen[d] \cup {dbaasSpecs'} ELSE seen[d]
  BY DEF Upgrade
<1>3. VarsTyped'
  BY <1>1 DEF IInv, VarsTyped, Upgrade, EX!TypeOK
<1>4. ASSUME NEW d \in Callers PROVE Sound(d)'
  <2>1. OutcomeIsRight(d)'
    BY <1>1, <1>2, OutcomeStaysRight DEF IInv, Sound
  <2>2. AskingIsSound(d)'
    BY <1>1, <1>2 DEF IInv, Sound, AskingIsSound, ReplyIsSeen
  <2>3. ExchangeIsSound(d)'
    BY <1>1 DEF IInv, Sound, ExchangeIsSound
  <2> QED BY <2>1, <2>2, <2>3 DEF Sound
<1> QED BY <1>3, <1>4 DEF IInv

LEMMA NoSpecsIsEmpty == IsList(NoSpecs) /\ DOMAIN NoSpecs = {}
<1>1. NoSpecs \in Seq({}) /\ Len(NoSpecs) = 0
  BY EmptySeq DEF NoSpecs
<1>2. IsList(NoSpecs) /\ DOMAIN NoSpecs = 1..Len(NoSpecs)
  BY <1>1, SeqIsList
<1> QED BY <1>1, <1>2

\* A reply that parses is a list of specifications, and one that is not an
\* error's is one of those the caller has seen.
LEMMA AnswerIsAList ==
  ASSUME IInv, NEW c \in Callers, exState[c] = "answered", avPc[c] = "asking",
         answer[c].body # NotJson
  PROVE  /\ answer[c] \in reached[c]
         /\ answer[c].body \in AggregatorLists \cup {NoSpecs}
         /\ answer[c].code = OK => answer[c].body \in seen[c]
         /\ answer[c].code # OK => answer[c].body = NoSpecs
         /\ IsInfos(agentSpecs) /\ IsInfos(answer[c].body)
         /\ agentSpecs \in AgentLists \ {Invalid}
<1>1. answer[c] \in reached[c] /\ agentSpecs # Invalid /\ ReplyIsSeen(c, answer[c])
  BY DEF IInv, Sound, ExchangeIsSound, AskingIsSound
<1>2. answer[c].body \in AggregatorLists \cup {NoSpecs}
  BY <1>1 DEF IInv, VarsTyped, ReplyIsSeen
<1>3. IsInfos(NoSpecs)
  BY NoSpecsIsEmpty DEF IsInfos
<1>4. \A list \in (AgentLists \ {Invalid}) \cup AggregatorLists : IsInfos(list)
  BY ApiVersionAssumption DEF IsInfos
<1>5. agentSpecs \in AgentLists \ {Invalid}
  BY <1>1 DEF IInv, VarsTyped
<1> QED BY <1>1, <1>2, <1>3, <1>4, <1>5 DEF ReplyIsSeen

\* Nothing has anything in common with an error.
LEMMA NothingInNoSpecs ==
  ASSUME NEW agentList, IsInfos(agentList)
  PROVE  Merged(agentList, NoSpecs) = <<>>
<1> DEFINE result == Merged(agentList, NoSpecs)
<1>1. IsList(NoSpecs) /\ DOMAIN NoSpecs = {}
  BY NoSpecsIsEmpty
<1>2. IsMerge(result, agentList, NoSpecs)
  BY <1>1, ListsMerge DEF IsInfos
<1> HIDE DEF result
<1>3. ToSet(result) = {} /\ result \in Seq(ToSet(result))
  BY <1>1, <1>2 DEF IsMerge, IsList
<1>4. 1 \notin DOMAIN result /\ DOMAIN result = 1..Len(result) /\ Len(result) \in Nat
  BY <1>3, SeqIsList DEF ToSet
<1>5. PICK n \in Nat : n = Len(result)
  BY <1>4
<1>6. n = 0
  BY <1>4, <1>5
<1>7. result = <<>>
  BY <1>3, <1>5, <1>6, EmptySeq
<1> QED BY <1>7 DEF result

LEMMA MergesSound ==
  ASSUME IInv, NEW c \in Callers, Merges(c) PROVE IInv'
<1> DEFINE list == answer[c].body
<1>1. /\ exState[c] = "answered" /\ avPc[c] = "asking" /\ list # NotJson
      /\ UNCHANGED <<agentSpecs, dbaasSpecs, seen, exState, reached, answer>>
  BY DEF Merges, exVars
<1>2. /\ answer[c] \in reached[c]
      /\ list \in AggregatorLists \cup {NoSpecs}
      /\ answer[c].code = OK => list \in seen[c]
      /\ answer[c].code # OK => list = NoSpecs
      /\ IsInfos(agentSpecs) /\ IsInfos(list)
      /\ agentSpecs \in AgentLists \ {Invalid}
  BY <1>1, AnswerIsAList
<1>3. VarsTyped'
  BY <1>1 DEF IInv, VarsTyped, Merges, EX!TypeOK
<1>4. Concerns(c)
  BY <1>1 DEF IInv, VarsTyped, Merges, Concerns
<1>5. AskingIsSound(c)' /\ ExchangeIsSound(c)'
  <2>1. avPc'[c] # "asking"
    BY DEF IInv, VarsTyped, Merges
  <2> QED BY <1>1, <2>1 DEF IInv, Sound, AskingIsSound, ExchangeIsSound
<1> HIDE DEF list
<1>6. CASE DereferencesMissing(agentSpecs, list)
  <2>1. avPc'[c] = "panicked" /\ resultSpecs' = resultSpecs
    BY <1>6 DEF IInv, VarsTyped, Merges, list
  <2>2. OutcomeIsRight(c)'
    BY <1>1, <2>1 DEF IInv, Sound, OutcomeIsRight, AnswerIsTyped, AnswerIsCommonPart,
                      AnswerIsDistinct
  <2> QED BY <1>3, <1>4, <1>5, <2>2, OneCallersStep DEF Sound
<1>7. CASE ~DereferencesMissing(agentSpecs, list)
  <2>1. avPc'[c] = "answered" /\ resultSpecs'[c] = Merged(agentSpecs, list)
    BY <1>7 DEF IInv, VarsTyped, Merges, list
  <2>2. AnswerIsTyped(c)'
    <3>1. Merged(agentSpecs, list) # Nil
      BY <1>2, <1>7, MergedAssumption
    <3>2. \A k \in DOMAIN Merged(agentSpecs, list) :
             /\ IsInfo(Merged(agentSpecs, list)[k])
             /\ Merged(agentSpecs, list)[k].minor # Missing
      BY <1>2, <1>7, MergedIsTyped
    <3> QED BY <2>1, <3>1, <3>2 DEF AnswerIsTyped
  <2>3. AnswerIsCommonPart(c)'
    <3>1. CASE answer[c].code = OK
      <4>1. IsCommonPart(Merged(agentSpecs, list), agentSpecs, list)
        BY <1>2, <1>7, MergedIsCommonPart
      <4> QED BY <1>1, <1>2, <2>1, <3>1, <4>1 DEF AnswerIsCommonPart
    <3>2. CASE answer[c].code # OK
      <4>1. Merged(agentSpecs, list) = <<>>
        BY <1>2, <3>2, NothingInNoSpecs
      <4> QED BY <1>1, <1>2, <2>1, <3>2, <4>1 DEF AnswerIsCommonPart
    <3> QED BY <3>1, <3>2
  <2>4. AnswerIsDistinct(c)'
    <3> SUFFICES ASSUME Distinct(agentSpecs), \A l \in seen[c] : Distinct(l)
                 PROVE  AnswerIsDistinct(c)'
      BY <1>1 DEF AnswerIsDistinct
    <3>1. Distinct(list)
      <4>1. Distinct(NoSpecs)
        BY NoSpecsIsEmpty DEF Distinct, IsInjective
      <4> QED BY <1>2, <4>1
    <3> QED BY <1>1, <1>2, <1>7, <2>1, <3>1, MergedIsDistinct DEF AnswerIsDistinct
  <2>5. OutcomeIsRight(c)'
    BY <2>2, <2>3, <2>4 DEF OutcomeIsRight
  <2> QED BY <1>3, <1>4, <1>5, <2>5, OneCallersStep DEF Sound
<1> QED BY <1>6, <1>7

-----------------------------------------------------------------------------

LEMMA IInvHolds == Spec => []IInv
<1>1. IInv /\ [Next]_vars => IInv'
  <2> SUFFICES ASSUME IInv, [Next]_vars PROVE IInv'
    OBVIOUS
  <2>1. ASSUME NEW c \in Callers, GetApiVersion(c) PROVE IInv'
    BY <2>1, GetApiVersionSound
  <2>2. ASSUME NEW c \in Callers, AggregatorRuns(c) PROVE IInv'
    BY <2>2, AggregatorRunsSound
  <2>3. ASSUME NEW c \in Callers, DoRequestReturns(c) PROVE IInv'
    BY <2>3, DoRequestReturnsSound
  <2>4. ASSUME NEW c \in Callers, DoRequestFails(c) PROVE IInv'
    BY <2>4, DoRequestFailsSound
  <2>5. ASSUME NEW c \in Callers, UnmarshalFails(c) PROVE IInv'
    BY <2>5, UnmarshalFailsSound
  <2>6. ASSUME NEW c \in Callers, Merges(c) PROVE IInv'
    BY <2>6, MergesSound
  <2>7. ASSUME NEW c \in Callers, Finish(c) PROVE IInv'
    BY <2>7, FinishSound
  <2>8. ASSUME NEW c \in Callers, Upgrade(c) PROVE IInv'
    BY <2>8, UpgradeSound
  <2>9. CASE UNCHANGED vars
    <3>1. VarsTyped'
      BY <2>9 DEF IInv, VarsTyped, vars, exVars, EX!TypeOK
    <3>2. ASSUME NEW c \in Callers PROVE Sound(c)'
      BY <2>9, OtherStaysSound DEF IInv, vars, exVars
    <3> QED BY <3>1, <3>2 DEF IInv
  <2> QED BY <2>1, <2>2, <2>3, <2>4, <2>5, <2>6, <2>7, <2>8, <2>9 DEF Next
<1> QED BY <1>1, InitIInv, PTL DEF Spec

\* Every answer is a list of specifications whose minors are there, and there
\* is one exactly when GetApiVersion has returned it.
THEOREM ApiVersionTypeCorrect == Spec => []TypeOK
BY IInvHolds, IInvHasAll, PTL

\* GetApiVersion answers with the common part of the agent's list and one that
\* the aggregator had while it was asked, whatever the lists are and however
\* often the aggregator is upgraded; or, after an error, with nothing.
THEOREM AnswersAreTheCommonPart == Spec => []AnswersTheCommonPart
BY IInvHolds, IInvHasAll, PTL

\* Lists that name every root and every major once are merged into one that
\* does, in the agent's order: the loops find no pair twice.
THEOREM NothingIsListedTwice == Spec => []NothingTwice
BY IInvHolds, IInvHasAll, PTL
=============================================================================
