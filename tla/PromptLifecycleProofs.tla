------------------------ MODULE PromptLifecycleProofs ------------------------
(***************************************************************************)
(* Proofs about the ordinary prompts of a session.  Ledger and queue are   *)
(* reduced to the sets of prompts they hold; IInv says how the reducer's   *)
(* work, the provider's turn and an owner's selection fit together, Kept   *)
(* where an accepted prompt is, Once, without repeated commands, that a    *)
(* prompt waits or has a row, but not both, and Order, from the places of  *)
(* the queue again, that prompts wait in the order of their acceptance.    *)
(***************************************************************************)
EXTENDS PromptLifecycle, TLAPS, FiniteSetTheorems, SequenceTheorems

-----------------------------------------------------------------------------
(* Sequences without repetitions, as the sets of what they hold.           *)

LEMMA ContainsIsMembership ==
  ASSUME NEW S, NEW s \in Seq(S), NEW e
  PROVE  Contains(s, e) <=> e \in ToSet(s)
BY DEF Contains, ToSet

LEMMA EmptyHolds == ToSet(<<>>) = {} /\ IsInjective(<<>>) /\ \A S : <<>> \in Seq(S)
BY DEF ToSet, IsInjective

LEMMA AppendHolds ==
  ASSUME NEW S, NEW s \in Seq(S), NEW e \in S
  PROVE  /\ Append(s, e) \in Seq(S) /\ ToSet(Append(s, e)) = ToSet(s) \cup {e}
         /\ IsInjective(s) /\ e \notin ToSet(s) => IsInjective(Append(s, e))
<1>1. /\ Append(s, e) \in Seq(S) /\ Len(Append(s, e)) = Len(s) + 1 /\ Len(s) \in Nat
      /\ \A i \in 1..Len(s) : Append(s, e)[i] = s[i]
      /\ Append(s, e)[Len(s) + 1] = e
      /\ DOMAIN s = 1..Len(s) /\ DOMAIN Append(s, e) = 1..(Len(s) + 1)
  BY AppendProperties
<1>2. \A i \in 1..(Len(s) + 1) : i \in 1..Len(s) \/ i = Len(s) + 1
  BY <1>1
<1>3. 1..Len(s) \subseteq 1..(Len(s) + 1) /\ Len(s) + 1 \in 1..(Len(s) + 1)
  BY <1>1
<1>4. ToSet(Append(s, e)) = ToSet(s) \cup {e}
  <2>1. ToSet(Append(s, e)) \subseteq ToSet(s) \cup {e}
    BY <1>1, <1>2 DEF ToSet
  <2>2. ToSet(s) \cup {e} \subseteq ToSet(Append(s, e))
    BY <1>1, <1>3 DEF ToSet
  <2> QED BY <2>1, <2>2
<1>5. IsInjective(s) /\ e \notin ToSet(s) => IsInjective(Append(s, e))
  BY <1>1, <1>2 DEF ToSet, IsInjective
<1> QED BY <1>1, <1>4, <1>5

LEMMA TailHolds ==
  ASSUME NEW S, NEW s \in Seq(S), s # <<>>
  PROVE  /\ Head(s) \in S /\ Tail(s) \in Seq(S)
         /\ ToSet(s) = {Head(s)} \cup ToSet(Tail(s))
         /\ IsInjective(s) => IsInjective(Tail(s)) /\ Head(s) \notin ToSet(Tail(s))
<1>1. /\ Head(s) \in S /\ Tail(s) \in Seq(S) /\ Head(s) = s[1]
      /\ Len(s) \in Nat /\ Len(s) >= 1 /\ DOMAIN s = 1..Len(s)
      /\ Len(Tail(s)) = Len(s) - 1 /\ DOMAIN Tail(s) = 1..(Len(s) - 1)
      /\ \A i \in 1..(Len(s) - 1) : Tail(s)[i] = s[i + 1]
  BY HeadTailProperties, LenProperties
<1>2. \A i \in 1..Len(s) : i = 1 \/ (i - 1 \in 1..(Len(s) - 1) /\ (i - 1) + 1 = i)
  BY <1>1
<1>3. 1 \in 1..Len(s) /\ \A i \in 1..(Len(s) - 1) : i + 1 \in 1..Len(s) /\ i + 1 # 1
  BY <1>1
<1>4. ToSet(s) = {Head(s)} \cup ToSet(Tail(s))
  <2>1. ToSet(s) \subseteq {Head(s)} \cup ToSet(Tail(s))
    <3> SUFFICES ASSUME NEW x \in ToSet(s), x # Head(s) PROVE x \in ToSet(Tail(s))
      OBVIOUS
    <3>1. PICK i \in 1..Len(s) : x = s[i]
      BY <1>1 DEF ToSet
    <3>2. i - 1 \in 1..(Len(s) - 1) /\ Tail(s)[i - 1] = x
      BY <1>1, <1>2, <3>1
    <3> QED BY <1>1, <3>2 DEF ToSet
  <2>2. {Head(s)} \cup ToSet(Tail(s)) \subseteq ToSet(s)
    BY <1>1, <1>3 DEF ToSet
  <2> QED BY <2>1, <2>2
<1>5. ASSUME IsInjective(s)
      PROVE  IsInjective(Tail(s)) /\ Head(s) \notin ToSet(Tail(s))
  <2>1. \A i, j \in 1..(Len(s) - 1) : i + 1 = j + 1 => i = j
    BY <1>1
  <2>2. IsInjective(Tail(s))
    BY <1>1, <1>3, <1>5, <2>1 DEF IsInjective
  <2>3. Head(s) \notin ToSet(Tail(s))
    BY <1>1, <1>3, <1>5 DEF IsInjective, ToSet
  <2> QED BY <2>2, <2>3
<1> QED BY <1>1, <1>4, <1>5

LEMMA RemovedAt ==
  ASSUME NEW S, NEW q \in Seq(S), NEW i \in 1..Len(q)
  PROVE  /\ RemoveAt(q, i) \in Seq(S) /\ Len(RemoveAt(q, i)) = Len(q) - 1
         /\ \A j \in 1..(Len(q) - 1) : RemoveAt(q, i)[j] = IF j < i THEN q[j] ELSE q[j + 1]
<1> DEFINE n == Len(q)
           w == RemoveAt(q, i)
           a == SubSeq(q, 1, i - 1)
           b == SubSeq(q, i + 1, Len(q))
<1>0. n \in Nat /\ DOMAIN q = 1..n /\ i \in 1..n
  BY LenProperties
<1>1. \A j \in 1..Len(q) : q[j] \in S
  BY ElementOfSeq
<1>2. /\ a \in Seq(S) /\ Len(a) = i - 1
      /\ \A j \in 1..(i - 1) : a[j] = q[j]
  <2>1. /\ SubSeq(q, 1, i - 1) \in Seq(S)
        /\ Len(SubSeq(q, 1, i - 1)) = IF 1 <= i - 1 THEN (i - 1) - 1 + 1 ELSE 0
        /\ \A j \in 1..((i - 1) - 1 + 1) : SubSeq(q, 1, i - 1)[j] = q[1 + j - 1]
    <3>1. 1 \in Int /\ i - 1 \in Int /\ \A j \in 1..(i - 1) : q[j] \in S
      BY <1>0, <1>1
    <3> HIDE DEF n
    <3> QED BY <3>1, SubSeqProperties
  <2> QED BY <1>0, <2>1
<1>3. /\ b \in Seq(S) /\ Len(b) = n - i
      /\ \A j \in 1..(n - i) : b[j] = q[i + j]
  <2>1. /\ SubSeq(q, i + 1, Len(q)) \in Seq(S)
        /\ Len(SubSeq(q, i + 1, Len(q))) = IF i + 1 <= Len(q) THEN Len(q) - (i + 1) + 1 ELSE 0
        /\ \A j \in 1..(Len(q) - (i + 1) + 1) : SubSeq(q, i + 1, Len(q))[j] = q[(i + 1) + j - 1]
    <3>1. i + 1 \in Int /\ Len(q) \in Int /\ \A j \in (i + 1)..Len(q) : q[j] \in S
      BY <1>0, <1>1
    <3> QED BY <3>1, SubSeqProperties
  <2>2. \A j \in 1..(n - i) : (i + 1) + j - 1 = i + j /\ j \in 1..(Len(q) - (i + 1) + 1)
    BY <1>0
  <2>3. Len(b) = n - i
    <3>1. CASE i = n
      BY <1>0, <2>1, <3>1
    <3>2. CASE i # n
      <4> HIDE DEF n
      <4>1. i + 1 <= n
        BY <1>0, <3>2
      <4> QED BY <1>0, <2>1, <4>1 DEF n
    <3> QED BY <3>1, <3>2
  <2> QED BY <2>1, <2>2, <2>3
<1>4. w = a \o b
  BY DEF RemoveAt
<1> HIDE DEF a, b
<1>5. /\ a \o b \in Seq(S) /\ Len(a \o b) = Len(a) + Len(b)
      /\ \A j \in 1..(Len(a) + Len(b)) :
           (a \o b)[j] = IF j <= Len(a) THEN a[j] ELSE b[j - Len(a)]
  BY <1>2, <1>3, ConcatProperties
<1> HIDE DEF n, w
<1>6. \A j \in 1..(n - 1) : w[j] = IF j < i THEN q[j] ELSE q[j + 1]
  <2> SUFFICES ASSUME NEW j \in 1..(n - 1)
               PROVE  w[j] = IF j < i THEN q[j] ELSE q[j + 1]
    OBVIOUS
  <2>1. j \in 1..(Len(a) + Len(b))
    BY <1>0, <1>2, <1>3
  <2>2. CASE j < i
    BY <1>0, <1>2, <1>4, <1>5, <2>1, <2>2
  <2>3. CASE ~(j < i)
    <3>1. ~(j <= Len(a)) /\ j - Len(a) \in 1..(n - i) /\ i + (j - Len(a)) = j + 1
      BY <1>0, <1>2, <2>3
    <3> QED BY <1>3, <1>4, <1>5, <2>1, <2>3, <3>1
  <2> QED BY <2>2, <2>3
<1>7. w \in Seq(S) /\ Len(w) = n - 1
  BY <1>0, <1>2, <1>3, <1>4, <1>5
<1> QED BY <1>6, <1>7 DEF n, w

LEMMA WithoutHolds ==
  ASSUME NEW S, NEW q \in Seq(S), IsInjective(q), NEW p
  PROVE  /\ Without(q, p) \in Seq(S) /\ IsInjective(Without(q, p))
         /\ ToSet(Without(q, p)) = ToSet(q) \ {p}
<1>1. CASE ~Contains(q, p)
  <2>1. Without(q, p) = q /\ p \notin ToSet(q)
    BY <1>1, ContainsIsMembership DEF Without
  <2> QED BY <2>1
<1>2. CASE Contains(q, p)
  <2> DEFINE i == CHOOSE i \in DOMAIN q : q[i] = p
             n == Len(q)
             w == RemoveAt(q, i)
  <2>1. n \in Nat /\ DOMAIN q = 1..n
    BY LenProperties
  <2>2. i \in 1..n /\ q[i] = p
    BY <1>2, <2>1 DEF Contains
  <2>3. Without(q, p) = w
    BY <1>2 DEF Without
  <2> HIDE DEF i
  <2>4. /\ w \in Seq(S) /\ Len(w) = n - 1
        /\ \A j \in 1..(n - 1) : w[j] = IF j < i THEN q[j] ELSE q[j + 1]
    BY <2>1, <2>2, RemovedAt
  <2>5. DOMAIN w = 1..(n - 1)
    BY <2>4, LenProperties
  <2> HIDE DEF w, n
  <2>6. \A j \in 1..n : j # i => /\ q[j] # p
                                 /\ \E k \in 1..(n - 1) : w[k] = q[j]
    <3> SUFFICES ASSUME NEW j \in 1..n, j # i
                 PROVE  q[j] # p /\ \E k \in 1..(n - 1) : w[k] = q[j]
      OBVIOUS
    <3>1. q[j] # p
      BY <2>1, <2>2 DEF IsInjective
    <3>2. CASE j < i
      <4>1. j \in 1..(n - 1)
        BY <2>1, <2>2, <3>2
      <4> QED BY <2>4, <3>1, <3>2, <4>1
    <3>3. CASE j > i
      <4>1. j - 1 \in 1..(n - 1) /\ ~(j - 1 < i) /\ (j - 1) + 1 = j
        BY <2>1, <2>2, <3>3
      <4>2. w[j - 1] = q[j]
        BY <2>4, <4>1
      <4> QED BY <3>1, <4>1, <4>2
    <3> QED BY <2>1, <2>2, <3>2, <3>3
  <2>7. \A k \in 1..(n - 1) : \E j \in 1..n : j # i /\ w[k] = q[j] /\ j = IF k < i THEN k ELSE k + 1
    BY <2>1, <2>2, <2>4
  <2>8. ToSet(w) = ToSet(q) \ {p}
    <3>1. ASSUME NEW x \in ToSet(w) PROVE x \in ToSet(q) \ {p}
      <4>1. PICK k \in 1..(n - 1) : x = w[k]
        BY <2>5 DEF ToSet
      <4>2. PICK j \in 1..n : j # i /\ w[k] = q[j]
        BY <2>7
      <4> QED BY <2>1, <2>6, <4>1, <4>2 DEF ToSet
    <3>2. ToSet(q) \ {p} \subseteq ToSet(w)
      BY <2>1, <2>2, <2>5, <2>6 DEF ToSet
    <3> QED BY <3>1, <3>2
  <2>9. IsInjective(w)
    <3> SUFFICES ASSUME NEW k \in 1..(n - 1), NEW l \in 1..(n - 1), w[k] = w[l]
                 PROVE  k = l
      BY <2>5 DEF IsInjective
    <3>1. PICK x \in 1..n : w[k] = q[x] /\ x = IF k < i THEN k ELSE k + 1
      BY <2>7
    <3>2. PICK y \in 1..n : w[l] = q[y] /\ y = IF l < i THEN l ELSE l + 1
      BY <2>7
    <3>3. x = y
      BY <2>1, <3>1, <3>2 DEF IsInjective
    <3> QED BY <2>1, <2>2, <3>1, <3>2, <3>3
  <2> QED BY <2>3, <2>4, <2>8, <2>9
<1> QED BY <1>1, <1>2

LEMMA InsertedAt ==
  ASSUME NEW S, NEW q \in Seq(S), NEW e \in S, NEW i \in 1..(Len(q) + 1)
  PROVE  /\ InsertAt(q, i, e) \in Seq(S) /\ Len(InsertAt(q, i, e)) = Len(q) + 1
         /\ \A j \in 1..(Len(q) + 1) : InsertAt(q, i, e)[j] = IF j = i THEN e
                                     ELSE IF j < i THEN q[j] ELSE q[j - 1]
<1> DEFINE a == SubSeq(q, 1, i - 1)
           m == Append(a, e)
           b == SubSeq(q, i, Len(q))
           w == InsertAt(q, i, e)
           n == Len(q)
<1>1. n \in Nat /\ DOMAIN q = 1..n /\ i \in 1..(n + 1)
  BY LenProperties
<1>2. \A j \in 1..Len(q) : q[j] \in S
  BY ElementOfSeq
<1>3. /\ a \in Seq(S) /\ Len(a) = i - 1
      /\ \A j \in 1..(i - 1) : a[j] = q[j]
  <2>1. /\ SubSeq(q, 1, i - 1) \in Seq(S)
        /\ Len(SubSeq(q, 1, i - 1)) = IF 1 <= i - 1 THEN (i - 1) - 1 + 1 ELSE 0
        /\ \A j \in 1..((i - 1) - 1 + 1) : SubSeq(q, 1, i - 1)[j] = q[1 + j - 1]
    <3>1. 1 \in Int /\ i - 1 \in Int /\ \A j \in 1..(i - 1) : q[j] \in S
      BY <1>1, <1>2
    <3> HIDE DEF n
    <3> QED BY <3>1, SubSeqProperties
  <2> QED BY <1>1, <2>1
<1>4. /\ b \in Seq(S) /\ Len(b) = n + 1 - i
      /\ \A j \in 1..(n + 1 - i) : b[j] = q[i + j - 1]
  <2>1. /\ SubSeq(q, i, Len(q)) \in Seq(S)
        /\ Len(SubSeq(q, i, Len(q))) = IF i <= Len(q) THEN Len(q) - i + 1 ELSE 0
        /\ \A j \in 1..(Len(q) - i + 1) : SubSeq(q, i, Len(q))[j] = q[i + j - 1]
    <3>1. i \in Int /\ Len(q) \in Int /\ \A j \in i..Len(q) : q[j] \in S
      BY <1>1, <1>2
    <3> QED BY <3>1, SubSeqProperties
  <2> QED BY <1>1, <2>1
<1>5. w = m \o b
  <2>1. m = a \o <<e>>
    BY <1>3, AppendIsConcat
  <2> QED BY <2>1 DEF InsertAt
<1> HIDE DEF a, b
<1>6. /\ m \in Seq(S) /\ Len(m) = i /\ m[i] = e
      /\ \A j \in 1..(i - 1) : m[j] = q[j]
  <2>1. /\ Append(a, e) \in Seq(S) /\ Len(Append(a, e)) = Len(a) + 1
        /\ \A j \in 1..Len(a) : Append(a, e)[j] = a[j]
        /\ Append(a, e)[Len(a) + 1] = e
    BY <1>3, AppendProperties
  <2> QED BY <1>1, <1>3, <2>1
<1> HIDE DEF m, w, n
<1>7. /\ m \o b \in Seq(S) /\ Len(m \o b) = Len(m) + Len(b)
      /\ \A j \in 1..(Len(m) + Len(b)) :
           (m \o b)[j] = IF j <= Len(m) THEN m[j] ELSE b[j - Len(m)]
  BY <1>4, <1>6, ConcatProperties
<1>8. w \in Seq(S) /\ Len(w) = n + 1
  BY <1>1, <1>4, <1>5, <1>6, <1>7
<1>9. \A j \in 1..(n + 1) : w[j] = IF j = i THEN e ELSE IF j < i THEN q[j] ELSE q[j - 1]
  <2> SUFFICES ASSUME NEW j \in 1..(n + 1)
               PROVE  w[j] = IF j = i THEN e ELSE IF j < i THEN q[j] ELSE q[j - 1]
    OBVIOUS
  <2>1. j \in 1..(Len(m) + Len(b))
    BY <1>1, <1>4, <1>6
  <2>2. CASE j = i
    BY <1>1, <1>5, <1>6, <1>7, <2>1, <2>2
  <2>3. CASE j < i
    <3>1. j \in 1..(i - 1) /\ j <= Len(m)
      BY <1>1, <1>6, <2>3
    <3> QED BY <1>1, <1>5, <1>6, <1>7, <2>1, <2>3, <3>1
  <2>4. CASE j > i
    <3>1. ~(j <= Len(m)) /\ j - Len(m) \in 1..(n + 1 - i) /\ i + (j - Len(m)) - 1 = j - 1
      BY <1>1, <1>6, <2>4
    <3>2. w[j] = b[j - Len(m)]
      BY <1>5, <1>7, <2>1, <3>1
    <3>3. b[j - Len(m)] = q[i + (j - Len(m)) - 1]
      BY <1>4, <3>1
    <3> QED BY <1>1, <2>4, <3>1, <3>2, <3>3
  <2> QED BY <1>1, <2>2, <2>3, <2>4
<1> QED BY <1>8, <1>9 DEF n, w

LEMMA InsertHolds ==
  ASSUME NEW S, NEW q \in Seq(S), IsInjective(q), NEW e \in S, e \notin ToSet(q),
         NEW i \in 1..(Len(q) + 1)
  PROVE  /\ InsertAt(q, i, e) \in Seq(S) /\ IsInjective(InsertAt(q, i, e))
         /\ ToSet(InsertAt(q, i, e)) = ToSet(q) \cup {e}
<1> DEFINE w == InsertAt(q, i, e)
           n == Len(q)
<1>1. n \in Nat /\ DOMAIN q = 1..n /\ i \in 1..(n + 1)
  BY LenProperties
<1>2. w \in Seq(S) /\ Len(w) = n + 1 /\ DOMAIN w = 1..(n + 1)
  BY InsertedAt, LenProperties
<1>3. \A j \in 1..(n + 1) : w[j] = IF j = i THEN e ELSE IF j < i THEN q[j] ELSE q[j - 1]
  BY InsertedAt
<1> HIDE DEF w, n
<1>4. \A j \in 1..(n + 1) : j # i =>
         \E k \in 1..n : w[j] = q[k] /\ k = IF j < i THEN j ELSE j - 1
  BY <1>1, <1>3
<1>5. \A k \in 1..n : \E j \in 1..(n + 1) : w[j] = q[k]
  <2> SUFFICES ASSUME NEW k \in 1..n PROVE \E j \in 1..(n + 1) : w[j] = q[k]
    OBVIOUS
  <2>1. CASE k < i
    <3>1. k \in 1..(n + 1) /\ w[k] = q[k]
      BY <1>1, <1>3, <2>1
    <3> QED BY <3>1
  <2>2. CASE k >= i
    <3>1. k + 1 \in 1..(n + 1) /\ k + 1 # i /\ ~(k + 1 < i) /\ (k + 1) - 1 = k
      BY <1>1, <2>2
    <3>2. w[k + 1] = q[k]
      BY <1>3, <3>1
    <3> QED BY <3>1, <3>2
  <2> QED BY <1>1, <2>1, <2>2
<1>6. ToSet(w) = ToSet(q) \cup {e}
  <2>1. ASSUME NEW x \in ToSet(w) PROVE x \in ToSet(q) \cup {e}
    <3>1. PICK j \in 1..(n + 1) : x = w[j]
      BY <1>2 DEF ToSet
    <3>2. CASE j = i
      BY <1>3, <3>1, <3>2
    <3>3. CASE j # i
      BY <1>1, <1>4, <3>1, <3>3 DEF ToSet
    <3> QED BY <3>2, <3>3
  <2>2. ASSUME NEW x \in ToSet(q) \cup {e} PROVE x \in ToSet(w)
    <3>1. CASE x = e
      BY <1>1, <1>2, <1>3, <3>1 DEF ToSet
    <3>2. CASE x \in ToSet(q)
      <4>1. PICK k \in 1..n : x = q[k]
        BY <1>1, <3>2 DEF ToSet
      <4>2. PICK j \in 1..(n + 1) : w[j] = q[k]
        BY <1>5
      <4> QED BY <1>2, <4>1, <4>2 DEF ToSet
    <3> QED BY <2>2, <3>1, <3>2
  <2> QED BY <2>1, <2>2
<1>7. IsInjective(w)
  <2> SUFFICES ASSUME NEW j \in 1..(n + 1), NEW k \in 1..(n + 1), w[j] = w[k]
               PROVE  j = k
    BY <1>2 DEF IsInjective
  <2>1. \A l \in 1..n : q[l] # e
    BY <1>1 DEF ToSet
  <2>2. CASE j = i \/ k = i
    <3>0. w[i] = e
      BY <1>1, <1>3
    <3>1. \A l \in 1..(n + 1) : l # i => w[l] # e
      BY <1>4, <2>1
    <3> QED BY <2>2, <3>0, <3>1
  <2>3. CASE j # i /\ k # i
    <3>1. PICK x \in 1..n : w[j] = q[x] /\ x = IF j < i THEN j ELSE j - 1
      BY <1>4, <2>3
    <3>2. PICK y \in 1..n : w[k] = q[y] /\ y = IF k < i THEN k ELSE k - 1
      BY <1>4, <2>3
    <3>3. x = y
      BY <1>1, <3>1, <3>2 DEF IsInjective
    <3> QED BY <1>1, <2>3, <3>1, <3>2, <3>3
  <2> QED BY <2>2, <2>3
<1> QED BY <1>2, <1>6, <1>7 DEF w

LEMMA RestoredHolds ==
  ASSUME queue \in Seq(Prompts), IsInjective(queue), NEW m, m.prompt \in Prompts,
         m.prompt \notin ToSet(queue)
  PROVE  /\ Restored(m) \in Seq(Prompts) /\ IsInjective(Restored(m))
         /\ ToSet(Restored(m)) = ToSet(queue) \cup {m.prompt}
<1> DEFINE A == {i \in DOMAIN queue : queue[i] \in m.ahead}
           k == Cardinality(A) + 1
<1>1. Len(queue) \in Nat /\ DOMAIN queue = 1..Len(queue)
  BY LenProperties
<1>2. IsFiniteSet(1..Len(queue)) /\ Cardinality(1..Len(queue)) = Len(queue)
  BY <1>1, FS_Interval
<1>3. A \subseteq 1..Len(queue)
  BY <1>1
<1>4. IsFiniteSet(A) /\ Cardinality(A) <= Len(queue)
  BY <1>2, <1>3, FS_Subset
<1>5. Cardinality(A) \in Nat
  BY <1>4, FS_CardinalityType
<1>6. k \in 1..(Len(queue) + 1)
  BY <1>1, <1>4, <1>5
<1>7. Restored(m) = InsertAt(queue, k, m.prompt)
  BY DEF Restored
<1> HIDE DEF k
<1> QED BY <1>6, <1>7, InsertHolds

-----------------------------------------------------------------------------
(* The invariants, over what the sequences hold.                           *)

Rows  == ToSet(ledger)
Waits == ToSet(queue)
Disk  == ToSet(saved.queue)
Took  == ToSet(accepted)

\* The provider's turn is the engine's work; what an owner selected belongs to
\* that turn and still waits, what is redirected does not.
Engine ==
  /\ work.kind = "starting" => turn = Turn(work.prompt, "sent")
  /\ work.kind = "active" => turn = Turn(work.prompt, "started")
  /\ work.kind \notin {"starting", "active"} => turn = None
  /\ asked = "create" <=> work.kind = "creating"
  /\ asked = "resume" => work.kind = "resuming"
  /\ cancelling => work.kind = "active"
  /\ steer # None => /\ work.kind = "active" /\ steer.turn = work.prompt
                     /\ steer.prompt \in fence /\ redirect = None
  /\ redirect # None => cancelling /\ redirect \in Waits \ fence
  /\ moving # None => /\ work.kind = "starting" /\ moving.prompt = work.prompt
                      /\ moving.prompt \notin Waits

\* What the session's row says of its provider session, and what is left of the
\* engine without the process.
Session ==
  /\ sess => native = "real" /\ work.kind # "resuming"
  /\ turn # None \/ asked = "resume" => native = "real"
  /\ work.kind = "creating" => native = "pending"
  /\ native = "none" => Rows = {}
  /\ work = Absent => /\ queue = <<>> /\ fence = {} /\ blocked = None /\ shown = {}
                      /\ known = {} /\ ~sess /\ guiding = {} /\ interrupts = {}

IInv == TypeOK /\ Engine /\ Session

\* Whatever names a prompt names one that was accepted, and what was accepted is
\* in the ledger or waits, in the engine as on disk.
Gone == removed \cup absorbed \cup mistaken \cup fenced
Kept ==
  /\ Rows \cup Waits \cup Disk \cup shown \subseteq Took
  /\ {work.prompt, blocked} \subseteq Took \cup {None}
  /\ work # Absent => Took \ Gone \subseteq Rows \cup Waits
  /\ Took \ Gone \subseteq Rows \cup Disk

\* Without repeated commands: what waits has no row unless a refused redirect
\* brought it back, nothing settled is held or started again, the transcript
\* shows every row once it is restored, and guidance is nowhere but in the queue,
\* uncertain.
Once ==
  /\ (Waits \cup Disk) \cap Rows \subseteq returned
  /\ {work.prompt, blocked} \cap Waits \subseteq returned
  /\ work.kind \in {"creating", "starting"} =>
       /\ work.prompt \notin Settled \ returned
       /\ blocked = work.prompt => blocked \in returned
  /\ blocked \notin Settled \ returned
  /\ work.kind = "resuming" => blocked = None
  /\ native # "real" => Settled = {}
  /\ native = "pending" =>
       \E p \in Prompts :
         /\ Rows = {p}
         /\ work = Absent \/ work = Work("creating", p) \/ (work = Idle /\ blocked = p)
  /\ /\ work.kind \notin {"absent", "resuming"}
     /\ work # Idle \/ blocked # None \/ sess \/ native # "real"
     => Rows \subseteq shown
  /\ guided \subseteq Guides /\ (returned \cup {redirect}) \cap Guides = {}
  /\ moving # None => moving.prompt \notin Guides
  /\ guided \cap Rows = {} /\ guided \cap Waits \subseteq fence
  /\ guided \cap Disk \subseteq saved.fence
  /\ {work.prompt, blocked, redirect} \cap guided = {}

Core == IInv /\ Kept

-----------------------------------------------------------------------------
(* The parts of a step.                                                    *)

LEMMA WorkFacts ==
  ASSUME WorkOK
  PROVE  /\ work = Work(work.kind, work.prompt)
         /\ work.kind \in {"idle", "absent", "resuming", "creating", "starting", "active"}
         /\ work.kind \in {"creating", "starting", "active"} => work.prompt \in Prompts
         /\ work.kind \notin {"creating", "starting", "active"} => work.prompt = None
         /\ work.kind = "idle" <=> work = Idle
         /\ work.kind = "absent" <=> work = Absent
BY DEF WorkOK, Work, Idle, Absent

LEMMA BeginWork ==
  ASSUME NEW p \in Prompts, NEW k \in {"creating", "starting", "active"}, work' = Work(k, p)
  PROVE  /\ WorkOK' /\ work'.kind = k /\ work'.prompt = p
         /\ work' # Idle /\ work' # Absent
BY DEF WorkOK, Work, Idle, Absent

LEMMA IdleWork ==
  ASSUME work' = Idle
  PROVE  WorkOK' /\ work'.kind = "idle" /\ work'.prompt = None /\ work' # Absent
BY DEF WorkOK, Work, Idle, Absent

\* What is saved after a step is what waits.
LEMMA SavedFacts ==
  ASSUME QueueOK', SaveQueue
  PROVE  SavedOK' /\ Disk' = Waits' /\ saved'.fence = fence'
BY DEF SaveQueue, QueueOK, SavedOK, Disk, Waits

\* With the queue saved, what is kept in the engine is kept on disk.
LEMMA KeptOnDisk ==
  ASSUME Disk' = Waits', (Rows \cup Waits \cup shown \subseteq Took)',
         ({work.prompt, blocked} \subseteq Took \cup {None})',
         (Took \ Gone \subseteq Rows \cup Waits)'
  PROVE  Kept'
BY DEF Kept

LEMMA SpendHolds ==
  ASSUME NEW kind \in {"crash", "fault", "evict"}, Spend(kind),
         budget \in [{"crash", "fault", "evict"} -> Nat]
  PROVE  budget' \in [{"crash", "fault", "evict"} -> Nat]
BY DEF Spend

LEMMA RecordHolds ==
  ASSUME LedgerOK, NEW p \in Prompts, RecordOwnerPrompt(p)
  PROVE  /\ ledger' \in Seq(Prompts) /\ IsInjective(ledger') /\ Rows' = Rows \cup {p}
         /\ pending' = pending \cup ({p} \ Rows) /\ pending' \subseteq ToSet(ledger')
<1>1. /\ ledger \in Seq(Prompts) /\ IsInjective(ledger) /\ pending \subseteq ToSet(ledger)
      /\ Contains(ledger, p) <=> p \in ToSet(ledger)
  BY ContainsIsMembership DEF LedgerOK
<1>2. CASE Contains(ledger, p)
  BY <1>1, <1>2 DEF RecordOwnerPrompt, Rows
<1>3. CASE ~Contains(ledger, p)
  <2>1. ledger' = Append(ledger, p) /\ pending' = pending \cup {p}
    BY <1>3 DEF RecordOwnerPrompt
  <2>2. /\ Append(ledger, p) \in Seq(Prompts) /\ IsInjective(Append(ledger, p))
        /\ ToSet(Append(ledger, p)) = ToSet(ledger) \cup {p}
    BY <1>1, <1>3, AppendHolds
  <2> QED BY <1>1, <1>3, <2>1, <2>2 DEF Rows
<1> QED BY <1>2, <1>3

LEMMA AcceptHolds ==
  ASSUME HistoryOK, NEW p \in Prompts, Accept(p)
  PROVE  /\ accepted' \in Seq(Prompts) /\ IsInjective(accepted') /\ Took' = Took \cup {p}
         /\ cached' = cached \cup {p}
<1>1. /\ accepted \in Seq(Prompts) /\ IsInjective(accepted)
      /\ Contains(accepted, p) <=> p \in ToSet(accepted)
  BY ContainsIsMembership DEF HistoryOK
<1>2. CASE Contains(accepted, p)
  BY <1>1, <1>2 DEF Accept, Took
<1>3. CASE ~Contains(accepted, p)
  <2>1. /\ Append(accepted, p) \in Seq(Prompts) /\ IsInjective(Append(accepted, p))
        /\ ToSet(Append(accepted, p)) = ToSet(accepted) \cup {p}
    BY <1>1, <1>3, AppendHolds
  <2> QED BY <1>3, <2>1 DEF Accept, Took
<1> QED BY <1>2, <1>3

\* What a prompt leaves behind when it is started: its row, and the work and the
\* request about it.
LEMMA BeginHolds ==
  ASSUME LedgerOK, NEW p \in Prompts, NEW b \in BOOLEAN, BeginPrompt(p, b)
  PROVE  /\ ledger' \in Seq(Prompts) /\ IsInjective(ledger') /\ Rows' = Rows \cup {p}
         /\ pending' = pending \cup ({p} \ Rows) /\ pending' \subseteq ToSet(ledger')
         /\ WorkOK' /\ work'.prompt = p /\ work' # Idle /\ work' # Absent /\ ~parked'
         /\ b => /\ work' = Work("starting", p) /\ work'.kind = "starting"
                 /\ turn' = Turn(p, "sent") /\ asked' = "none" /\ native' = native
         /\ ~b => /\ work' = Work("creating", p) /\ work'.kind = "creating"
                  /\ turn' = turn /\ asked' = "create" /\ native' = "pending"
<1>1. /\ RecordOwnerPrompt(p) /\ parked' = FALSE
      /\ \/ /\ b /\ work' = Work("starting", p) /\ turn' = Turn(p, "sent")
            /\ asked' = "none" /\ native' = native
         \/ /\ ~b /\ work' = Work("creating", p) /\ native' = "pending" /\ asked' = "create"
            /\ turn' = turn
  BY DEF BeginPrompt
<1>2. /\ ledger' \in Seq(Prompts) /\ IsInjective(ledger') /\ Rows' = Rows \cup {p}
      /\ pending' = pending \cup ({p} \ Rows) /\ pending' \subseteq ToSet(ledger')
  BY <1>1, RecordHolds
<1>3. CASE b
  <2>1. WorkOK' /\ work'.kind = "starting" /\ work'.prompt = p /\ work' # Idle /\ work' # Absent
    BY <1>1, <1>3, BeginWork
  <2> QED BY <1>1, <1>2, <1>3, <2>1
<1>4. CASE ~b
  <2>1. WorkOK' /\ work'.kind = "creating" /\ work'.prompt = p /\ work' # Idle /\ work' # Absent
    BY <1>1, <1>4, BeginWork
  <2> QED BY <1>1, <1>2, <1>4, <2>1
<1> QED BY <1>3, <1>4

\* A step that leaves ledger, queue, transcript and what was accepted alone.
LEMMA StillKept ==
  ASSUME IInv, Kept, work # Absent, SaveQueue,
         UNCHANGED <<ledger, queue, fence, accepted, shown, removed, absorbed, mistaken, fenced>>,
         {work'.prompt, blocked'} \subseteq {work.prompt, blocked, None}
  PROVE  QueueOK' /\ SavedOK' /\ Disk' = Waits' /\ saved'.fence = fence /\ Kept'
<1>1. QueueOK'
  BY DEF IInv, TypeOK, QueueOK
<1>2. SavedOK' /\ Disk' = Waits' /\ saved'.fence = fence'
  BY <1>1, SavedFacts
<1>3. /\ (Rows \cup Waits \cup shown \subseteq Took)' /\ (Took \ Gone \subseteq Rows \cup Waits)'
      /\ ({work.prompt, blocked} \subseteq Took \cup {None})'
  BY DEF Kept, Rows, Waits, Took, Gone
<1> QED BY <1>1, <1>2, <1>3, KeptOnDisk

-----------------------------------------------------------------------------
(* Commands preserve Core.                                                 *)

LEMMA CancelTurnKeeps ==
  ASSUME Core, CancelTurn
  PROVE  Core'
<1>1. /\ work.kind = "active" /\ cancelling' = TRUE /\ SaveQueue
      /\ interrupts' = interrupts \cup {work.prompt}
      /\ UNCHANGED <<queue, fence, ledger, pending, native, work, ready, sess, blocked, known,
                     shown, steer, redirect, moving, cached, asked, turn, guiding, accepted,
                     removed, guided, absorbed, mistaken, fenced, returned, parked, budget>>
  BY DEF CancelTurn, Interrupt, selected, history, taken
<1>2. work.prompt \in Prompts /\ work # Absent
  BY <1>1, WorkFacts DEF Core, IInv, TypeOK, EngineOK
<1>3. LedgerOK' /\ SelectionOK' /\ HistoryOK' /\ EngineOK' /\ ProviderOK'
  BY <1>1, <1>2
     DEF Core, IInv, TypeOK, LedgerOK, SelectionOK, HistoryOK, EngineOK, ProviderOK, WorkOK
<1>4. QueueOK' /\ SavedOK' /\ Disk' = Waits' /\ saved'.fence = fence /\ Kept'
  BY <1>1, <1>2, StillKept DEF Core
<1>5. Engine' /\ Session'
  BY <1>1, <1>2 DEF Core, IInv, Engine, Session, Waits, Rows
<1> QED BY <1>3, <1>4, <1>5 DEF Core, IInv, TypeOK

LEMMA SendAgainKeeps ==
  ASSUME Core, NEW p \in Prompts, SendAgain(p)
  PROVE  Core'
<1>1. /\ work # Absent /\ Recognised(p) /\ Accept(p) /\ SaveQueue
      /\ UNCHANGED <<queue, fence, ledger, pending, native, work, ready, sess, blocked, known,
                     shown, cancelling, steer, redirect, moving, asked, turn, interrupts, guiding,
                     removed, guided, absorbed, mistaken, fenced, returned, parked, budget>>
  BY DEF SendAgain, Offered, Live, selected, provider, taken
<1>2. p \in Took
  BY <1>1, PromptAssumption DEF Recognised, Core, Kept, Waits
<1>3. /\ accepted' \in Seq(Prompts) /\ IsInjective(accepted') /\ Took' = Took
      /\ cached' = cached \cup {p}
  <2>1. /\ accepted' \in Seq(Prompts) /\ IsInjective(accepted') /\ Took' = Took \cup {p}
        /\ cached' = cached \cup {p}
    BY <1>1, AcceptHolds DEF Core, IInv, TypeOK
  <2> QED BY <1>2, <2>1
<1>4. LedgerOK' /\ QueueOK' /\ SelectionOK' /\ HistoryOK' /\ EngineOK' /\ ProviderOK'
  BY <1>1, <1>3 DEF Core, IInv, TypeOK, LedgerOK, QueueOK, SelectionOK, HistoryOK, EngineOK,
                    ProviderOK, WorkOK
<1>5. SavedOK' /\ Disk' = Waits' /\ saved'.fence = fence'
  BY <1>1, <1>4, SavedFacts
<1>6. Kept'
  BY <1>1, <1>3, <1>5, KeptOnDisk DEF Core, Kept, Rows, Waits, Gone
<1>7. Engine' /\ Session'
  BY <1>1 DEF Core, IInv, Engine, Session, Waits, Rows
<1> QED BY <1>4, <1>5, <1>6, <1>7 DEF Core, IInv, TypeOK

LEMMA SubmitKeeps ==
  ASSUME Core, NEW p \in Prompts, SubmitPrompt(p)
  PROVE  Core'
<1>1. /\ work # Absent /\ ~HasActiveWork
      /\ Startable /\ Accept(p) /\ BeginPrompt(p, sess) /\ shown' = shown \cup {p}
      /\ blocked' = None /\ SaveQueue
      /\ UNCHANGED <<queue, fence, ready, sess, known, cancelling, steer, redirect, moving,
                     interrupts, guiding, removed, guided, absorbed, mistaken, fenced, returned,
                     budget>>
  BY DEF SubmitPrompt, Offered, Live, selected, taken
<1>2. sess \in BOOLEAN /\ LedgerOK
  BY DEF Core, IInv, TypeOK, EngineOK
<1>3. /\ accepted' \in Seq(Prompts) /\ IsInjective(accepted') /\ Took' = Took \cup {p}
      /\ cached' = cached \cup {p}
  BY <1>1, AcceptHolds DEF Core, IInv, TypeOK
<1>4. PICK b \in BOOLEAN : b = sess
  BY <1>2
<1>5. work.kind = "idle" /\ work = Idle /\ work.prompt = None
  BY <1>1, WorkFacts DEF HasActiveWork, Core, IInv, TypeOK, EngineOK
<1>6. /\ ledger' \in Seq(Prompts) /\ IsInjective(ledger') /\ Rows' = Rows \cup {p}
      /\ pending' = pending \cup ({p} \ Rows) /\ pending' \subseteq ToSet(ledger')
      /\ WorkOK' /\ work'.prompt = p /\ work' # Idle /\ work' # Absent /\ ~parked'
      /\ b => /\ work' = Work("starting", p) /\ work'.kind = "starting"
              /\ turn' = Turn(p, "sent") /\ asked' = "none" /\ native' = native
      /\ ~b => /\ work' = Work("creating", p) /\ work'.kind = "creating"
               /\ turn' = turn /\ asked' = "create" /\ native' = "pending"
  BY <1>1, <1>2, <1>4, BeginHolds
<1>7. LedgerOK' /\ QueueOK' /\ SelectionOK'
  BY <1>1, <1>4, <1>6 DEF Core, IInv, TypeOK, LedgerOK, QueueOK, SelectionOK
<1>8. HistoryOK'
  BY <1>1, <1>3 DEF Core, IInv, TypeOK, HistoryOK, BeginPrompt
<1>9. EngineOK' /\ ProviderOK'
  BY <1>1, <1>3, <1>4, <1>6 DEF Core, IInv, TypeOK, EngineOK, ProviderOK, Turn
<1>10. SavedOK' /\ Disk' = Waits' /\ saved'.fence = fence' /\ Waits' = Waits
  BY <1>1, <1>7, SavedFacts DEF Waits
<1>11. Kept'
  BY <1>1, <1>3, <1>6, <1>10, KeptOnDisk DEF Core, Kept, Gone
<1>12. Engine'
  BY <1>1, <1>4, <1>5, <1>6, <1>10 DEF Core, IInv, Engine
<1>13. Session'
  BY <1>1, <1>4, <1>5, <1>6, <1>10 DEF Core, IInv, Engine, Session, Startable
<1> QED BY <1>7, <1>8, <1>9, <1>10, <1>11, <1>12, <1>13 DEF Core, IInv, TypeOK

LEMMA EnqueueKeeps ==
  ASSUME Core, NEW p \in Prompts, EnqueuePrompt(p)
  PROVE  Core'
<1>1. /\ work # Absent /\ p \notin Waits /\ work.prompt # p /\ Accept(p) /\ SaveQueue
      /\ queue' = Append(queue, p)
      /\ UNCHANGED <<fence, ledger, pending, native, work, ready, sess, blocked, known,
                     shown, cancelling, steer, redirect, moving, asked, turn, interrupts, guiding,
                     removed, guided, absorbed, mistaken, fenced, returned, parked, budget>>
  BY DEF EnqueuePrompt, Offered, Live, Recognised, Waits, selected, provider, taken
<1>2. /\ accepted' \in Seq(Prompts) /\ IsInjective(accepted') /\ Took' = Took \cup {p}
      /\ cached' = cached \cup {p}
  BY <1>1, AcceptHolds DEF Core, IInv, TypeOK
<1>3. queue' \in Seq(Prompts) /\ IsInjective(queue') /\ Waits' = Waits \cup {p}
  BY <1>1, AppendHolds DEF Core, IInv, TypeOK, QueueOK, Waits
<1>4. LedgerOK' /\ SelectionOK' /\ HistoryOK' /\ EngineOK' /\ ProviderOK'
  BY <1>1, <1>2 DEF Core, IInv, TypeOK, LedgerOK, SelectionOK, HistoryOK, EngineOK,
                    ProviderOK, WorkOK
<1>5. QueueOK'
  BY <1>1, <1>3 DEF Core, IInv, TypeOK, QueueOK, Waits
<1>6. SavedOK' /\ Disk' = Waits' /\ saved'.fence = fence'
  BY <1>1, <1>5, SavedFacts
<1>7. Rows' = Rows
  BY <1>1 DEF Rows
<1>8. Kept'
  BY <1>1, <1>2, <1>3, <1>6, <1>7, KeptOnDisk DEF Core, Kept, Gone
<1>9. Engine'
  BY <1>1, <1>3 DEF Core, IInv, Engine
<1>10. Session'
  BY <1>1, <1>7 DEF Core, IInv, Session
<1> QED BY <1>4, <1>5, <1>6, <1>8, <1>9, <1>10 DEF Core, IInv, TypeOK

LEMMA RemoveKeeps ==
  ASSUME Core, NEW p \in Prompts, RemoveQueuedPrompt(p)
  PROVE  Core'
<1> DEFINE q == Without(queue, p)
<1>1. /\ p \in Waits /\ ~Redirecting(p) /\ removed' = removed \cup {p} /\ fence' = fence \ {p}
      /\ SaveQueue
      /\ UNCHANGED <<ready, sess, blocked, known, cancelling, steer, redirect, moving, cached,
                     interrupts, guiding, accepted, guided, absorbed, mistaken, fenced, returned,
                     budget>>
  BY DEF RemoveQueuedPrompt, Waits, selected, taken
<1>2. \/ /\ ~IsBusy /\ HeadReady(q, fence') /\ Startable /\ BeginPrompt(Head(q), sess)
         /\ queue' = Tail(q) /\ shown' = shown \cup {Head(q)}
      \/ /\ queue' = q
         /\ UNCHANGED <<ledger, pending, native, work, asked, turn, shown, parked>>
  BY DEF RemoveQueuedPrompt
<1>3. q \in Seq(Prompts) /\ IsInjective(q) /\ ToSet(q) = Waits \ {p}
  BY WithoutHolds DEF Core, IInv, TypeOK, QueueOK, Waits
<1>4. work # Absent
  BY <1>1, EmptyHolds DEF Core, IInv, Session, Waits
<1>5. redirect # p /\ (steer # None => steer.prompt # p)
  BY <1>1 DEF Redirecting
<1> HIDE DEF q
<1>6. CASE /\ ~IsBusy /\ HeadReady(q, fence') /\ Startable /\ BeginPrompt(Head(q), sess)
           /\ queue' = Tail(q) /\ shown' = shown \cup {Head(q)}
  <2>1. /\ Head(q) \in Prompts /\ Tail(q) \in Seq(Prompts) /\ IsInjective(Tail(q))
        /\ ToSet(q) = {Head(q)} \cup ToSet(Tail(q)) /\ Head(q) \notin ToSet(Tail(q))
        /\ Head(q) \notin fence'
    BY <1>3, <1>6, TailHolds DEF HeadReady
  <2>2. /\ Waits = {p, Head(q)} \cup Waits' /\ Head(q) \notin Waits' /\ p \notin Waits'
        /\ Waits' = ToSet(queue')
    BY <1>1, <1>3, <1>6, <2>1 DEF Waits
  <2>3. PICK b \in BOOLEAN : b = sess
    BY DEF Core, IInv, TypeOK, EngineOK
  <2>4. PICK h \in Prompts : h = Head(q)
    BY <2>1
  <2>5. /\ ledger' \in Seq(Prompts) /\ IsInjective(ledger') /\ Rows' = Rows \cup {h}
        /\ pending' = pending \cup ({h} \ Rows) /\ pending' \subseteq ToSet(ledger')
        /\ WorkOK' /\ work'.prompt = h /\ work' # Idle /\ work' # Absent /\ ~parked'
        /\ b => /\ work' = Work("starting", h) /\ work'.kind = "starting"
                /\ turn' = Turn(h, "sent") /\ asked' = "none" /\ native' = native
        /\ ~b => /\ work' = Work("creating", h) /\ work'.kind = "creating"
                 /\ turn' = turn /\ asked' = "create" /\ native' = "pending"
    BY <1>6, <2>3, <2>4, BeginHolds DEF Core, IInv, TypeOK
  <2>6. work.kind = "idle" /\ work = Idle /\ work.prompt = None /\ blocked = None
    BY <1>4, <1>6, WorkFacts DEF IsBusy, HasActiveWork, Core, IInv, TypeOK, EngineOK
  <2>7. LedgerOK' /\ SelectionOK'
    BY <1>1, <2>3, <2>5 DEF Core, IInv, TypeOK, LedgerOK, SelectionOK
  <2>8. QueueOK'
    BY <1>1, <1>6, <2>1, <2>2 DEF Core, IInv, TypeOK, QueueOK, Waits
  <2>9. HistoryOK'
    BY <1>1, <1>6 DEF Core, IInv, TypeOK, HistoryOK, BeginPrompt
  <2>10. EngineOK' /\ ProviderOK'
    BY <1>1, <1>6, <2>3, <2>4, <2>5 DEF Core, IInv, TypeOK, EngineOK, ProviderOK, Turn
  <2>11. SavedOK' /\ Disk' = Waits' /\ saved'.fence = fence'
    BY <1>1, <2>8, SavedFacts
  <2>12. Took' = Took /\ Gone' = Gone \cup {p}
    BY <1>1 DEF Took, Gone
  <2>13. Kept'
    BY <1>1, <1>4, <1>6, <2>2, <2>4, <2>5, <2>6, <2>11, <2>12, KeptOnDisk DEF Core, Kept
  <2>14. ~cancelling /\ steer = None /\ redirect = None /\ moving = None
    BY <2>6 DEF Core, IInv, Engine
  <2>15. Engine'
    BY <1>1, <2>3, <2>5, <2>6, <2>14 DEF Core, IInv, Engine
  <2>16. Session'
    BY <1>1, <1>6, <2>3, <2>5, <2>6 DEF Core, IInv, Engine, Session, Startable
  <2> QED BY <2>7, <2>8, <2>9, <2>10, <2>11, <2>13, <2>15, <2>16 DEF Core, IInv, TypeOK
<1>7. CASE /\ queue' = q
           /\ UNCHANGED <<ledger, pending, native, work, asked, turn, shown, parked>>
  <2>1. Waits' = Waits \ {p} /\ Rows' = Rows /\ Took' = Took /\ Gone' = Gone \cup {p}
    BY <1>1, <1>3, <1>7 DEF Waits, Rows, Took, Gone
  <2>2. LedgerOK' /\ SelectionOK' /\ EngineOK' /\ ProviderOK' /\ HistoryOK'
    BY <1>1, <1>7 DEF Core, IInv, TypeOK, LedgerOK, SelectionOK, EngineOK, ProviderOK,
                      HistoryOK, WorkOK
  <2>3. QueueOK'
    BY <1>1, <1>3, <1>7, <2>1 DEF Core, IInv, TypeOK, QueueOK, Waits
  <2>4. SavedOK' /\ Disk' = Waits' /\ saved'.fence = fence'
    BY <1>1, <2>3, SavedFacts
  <2>5. Kept'
    BY <1>1, <1>4, <1>7, <2>1, <2>4, KeptOnDisk DEF Core, Kept
  <2>6. Engine'
    BY <1>1, <1>5, <1>7, <2>1 DEF Core, IInv, Engine
  <2>7. Session'
    BY <1>1, <1>4, <1>7, <2>1 DEF Core, IInv, Session
  <2> QED BY <2>2, <2>3, <2>4, <2>5, <2>6, <2>7 DEF Core, IInv, TypeOK
<1> QED BY <1>2, <1>6, <1>7

LEMMA SteerNativelyKeeps ==
  ASSUME Core, NEW p \in Prompts, SteerNatively(p)
  PROVE  Core'
<1> DEFINE g == [prompt |-> p, turn |-> work.prompt]
<1>1. /\ p \in Waits \ fence /\ work.kind = "active" /\ steer = None /\ redirect = None
      /\ fence' = fence \cup {p} /\ steer' = g /\ guiding' = guiding \cup {g}
      /\ guided' = guided \cup {p} /\ SaveQueue
      /\ UNCHANGED <<queue, ledger, pending, native, work, ready, sess, blocked, known, shown,
                     cancelling, redirect, moving, cached, asked, turn, interrupts, accepted,
                     removed, absorbed, mistaken, fenced, returned, parked, budget>>
  BY DEF SteerNatively, Steerable, Waits, taken
<1>2. work.prompt \in Prompts /\ work # Absent
  BY <1>1, WorkFacts DEF Core, IInv, TypeOK, EngineOK
<1>3. g \in [prompt : Prompts, turn : Prompts] /\ g.prompt = p /\ g.turn = work.prompt
  BY <1>2
<1> HIDE DEF g
<1>4. LedgerOK' /\ SelectionOK' /\ EngineOK' /\ ProviderOK' /\ HistoryOK'
  BY <1>1, <1>3 DEF Core, IInv, TypeOK, LedgerOK, SelectionOK, EngineOK, ProviderOK,
                    HistoryOK, WorkOK
<1>5. Waits' = Waits /\ Rows' = Rows /\ Took' = Took /\ Gone' = Gone
  BY <1>1 DEF Waits, Rows, Took, Gone
<1>6. QueueOK'
  BY <1>1 DEF Core, IInv, TypeOK, QueueOK, Waits
<1>7. SavedOK' /\ Disk' = Waits' /\ saved'.fence = fence'
  BY <1>1, <1>6, SavedFacts
<1>8. Kept'
  BY <1>1, <1>2, <1>5, <1>7, KeptOnDisk DEF Core, Kept
<1>9. Engine' /\ Session'
  BY <1>1, <1>2, <1>3, <1>5 DEF Core, IInv, Engine, Session
<1> QED BY <1>4, <1>6, <1>7, <1>8, <1>9 DEF Core, IInv, TypeOK

LEMMA SteerByRedirectKeeps ==
  ASSUME Core, NEW p \in Prompts, SteerByRedirect(p)
  PROVE  Core'
<1>1. /\ p \in Waits \ fence /\ work.kind = "active" /\ steer = None /\ redirect' = p
      /\ cancelling' = TRUE
      /\ interrupts' = interrupts \/ interrupts' = interrupts \cup {work.prompt}
      /\ SaveQueue
      /\ UNCHANGED <<queue, fence, ledger, pending, native, work, ready, sess, blocked, known,
                     shown, steer, moving, cached, asked, turn, guiding, accepted, removed, guided,
                     absorbed, mistaken, fenced, returned, parked, budget>>
  BY DEF SteerByRedirect, Steerable, Interrupt, Waits, history, taken, Core, IInv, TypeOK, EngineOK
<1>2. work.prompt \in Prompts /\ work # Absent
  BY <1>1, WorkFacts DEF Core, IInv, TypeOK, EngineOK
<1>3. LedgerOK' /\ SelectionOK' /\ EngineOK' /\ ProviderOK' /\ HistoryOK'
  BY <1>1, <1>2 DEF Core, IInv, TypeOK, LedgerOK, SelectionOK, EngineOK, ProviderOK,
                    HistoryOK, WorkOK
<1>4. QueueOK' /\ SavedOK' /\ Disk' = Waits' /\ saved'.fence = fence /\ Kept'
  BY <1>1, <1>2, StillKept DEF Core
<1>5. Engine' /\ Session'
  BY <1>1, <1>2 DEF Core, IInv, Engine, Session, Waits, Rows
<1> QED BY <1>3, <1>4, <1>5 DEF Core, IInv, TypeOK

LEMMA EvictKeeps ==
  ASSUME Core, NEW p \in Prompts, Evict(p)
  PROVE  Core'
<1>1. /\ cached' = cached \ {p} /\ Spend("evict")
      /\ UNCHANGED <<ledger, pending, saved, native, work, ready, sess, queue, fence, blocked,
                     known, shown, cancelling, steer, redirect, moving, asked, turn, interrupts,
                     guiding, accepted, removed, guided, absorbed, mistaken, fenced, returned,
                     parked>>
  BY DEF Evict, durable, selected, provider, history, taken
<1>2. budget' \in [{"crash", "fault", "evict"} -> Nat]
  BY <1>1, SpendHolds DEF Core, IInv, TypeOK, HistoryOK
<1>3. TypeOK'
  BY <1>1, <1>2 DEF Core, IInv, TypeOK, LedgerOK, QueueOK, SavedOK, SelectionOK, EngineOK,
                    ProviderOK, HistoryOK, WorkOK
<1>4. Engine' /\ Session' /\ Kept'
  BY <1>1 DEF Core, IInv, Engine, Session, Kept, Waits, Rows, Took, Disk, Gone
<1> QED BY <1>3, <1>4 DEF Core, IInv

-----------------------------------------------------------------------------
(* Answers about sessions preserve Core.                                   *)

LEMMA CreatedKeeps ==
  ASSUME Core, HandleSessionCreated
  PROVE  Core'
<1>1. /\ asked = "create" /\ asked' = "none" /\ SaveQueue
      /\ UNCHANGED <<queue, fence, ledger, pending, ready, known, shown, cancelling, steer,
                     redirect, moving, cached, interrupts, guiding, accepted, removed, guided,
                     absorbed, mistaken, fenced, returned, parked>>
  BY DEF HandleSessionCreated, selected, history, taken
<1>2. \/ /\ sess' = TRUE /\ native' = "real" /\ work' = Work("starting", work.prompt)
         /\ turn' = Turn(work.prompt, "sent") /\ UNCHANGED <<blocked, budget>>
      \/ /\ Spend("fault") /\ work' = Idle /\ blocked' = work.prompt
         /\ UNCHANGED <<sess, native, turn>>
  BY DEF HandleSessionCreated
<1>3. work.kind = "creating" /\ work.prompt \in Prompts /\ work # Absent
  BY <1>1, WorkFacts DEF Core, IInv, TypeOK, EngineOK, Engine
<1>4. PICK p \in Prompts : p = work.prompt
  BY <1>3
<1>5. budget' \in [{"crash", "fault", "evict"} -> Nat]
  BY <1>2, SpendHolds DEF Core, IInv, TypeOK, HistoryOK
<1>6. /\ WorkOK' /\ work' # Absent
      /\ \/ /\ work'.kind = "starting" /\ work'.prompt = p /\ sess' = TRUE /\ native' = "real"
            /\ turn' = Turn(p, "sent") /\ blocked' = blocked
         \/ /\ work'.kind = "idle" /\ work'.prompt = None /\ blocked' = p
            /\ sess' = sess /\ native' = native /\ turn' = turn
  <2>1. CASE work' = Idle
    BY <1>2, <1>4, <2>1, IdleWork DEF Idle, Work
  <2>2. CASE work' = Work("starting", p)
    BY <1>2, <1>4, <2>2, BeginWork
  <2> QED BY <1>2, <1>4, <2>1, <2>2
<1>7. LedgerOK' /\ SelectionOK' /\ HistoryOK'
  BY <1>1, <1>5, <1>6 DEF Core, IInv, TypeOK, LedgerOK, SelectionOK, HistoryOK
<1>8. EngineOK' /\ ProviderOK'
  <2>1. EngineOK'
    BY <1>1, <1>6 DEF Core, IInv, TypeOK, EngineOK
  <2>2. turn' \in [prompt : Prompts, stage : {"sent", "started"}] \cup {None}
    BY <1>6 DEF Core, IInv, TypeOK, ProviderOK, Turn
  <2>3. ProviderOK'
    BY <1>1, <2>2 DEF Core, IInv, TypeOK, ProviderOK
  <2> QED BY <2>1, <2>3
<1>9. QueueOK' /\ SavedOK' /\ Disk' = Waits' /\ saved'.fence = fence /\ Kept'
  BY <1>1, <1>3, <1>4, <1>6, StillKept DEF Core
<1>10. Rows' = Rows /\ Waits' = Waits
  BY <1>1 DEF Rows, Waits
<1>11. Engine'
  BY <1>1, <1>3, <1>6, <1>10 DEF Core, IInv, Engine
<1>12. Session'
  BY <1>1, <1>3, <1>6, <1>10 DEF Core, IInv, Engine, Session
<1> QED BY <1>7, <1>8, <1>9, <1>11, <1>12 DEF Core, IInv, TypeOK

LEMMA CreateRefusedKeeps ==
  ASSUME Core, CreateRefused
  PROVE  Core'
<1>1. /\ asked = "create" /\ asked' = "none" /\ SaveQueue
      /\ work' = Idle /\ blocked' = work.prompt
      /\ UNCHANGED <<queue, fence, ledger, pending, native, ready, sess, known, shown, cancelling,
                     steer, redirect, moving, cached, turn, interrupts, guiding, accepted, removed,
                     guided, absorbed, mistaken, fenced, returned, parked, budget>>
  BY DEF CreateRefused, selected, history, taken
<1>2. work.kind = "creating" /\ work.prompt \in Prompts /\ work # Absent
  BY <1>1, WorkFacts DEF Core, IInv, TypeOK, EngineOK, Engine
<1>3. WorkOK' /\ work'.kind = "idle" /\ work'.prompt = None /\ work' # Absent
  BY <1>1, IdleWork
<1>4. LedgerOK' /\ SelectionOK' /\ HistoryOK' /\ EngineOK' /\ ProviderOK'
  BY <1>1, <1>2, <1>3 DEF Core, IInv, TypeOK, LedgerOK, SelectionOK, HistoryOK, EngineOK,
                          ProviderOK
<1>5. QueueOK' /\ SavedOK' /\ Disk' = Waits' /\ saved'.fence = fence /\ Kept'
  BY <1>1, <1>2, <1>3, StillKept DEF Core
<1>6. Rows' = Rows /\ Waits' = Waits
  BY <1>1 DEF Rows, Waits
<1>7. Engine' /\ Session'
  BY <1>1, <1>2, <1>3, <1>6 DEF Core, IInv, Engine, Session
<1> QED BY <1>3, <1>4, <1>5, <1>7 DEF Core, IInv, TypeOK

\* The head of the queue is started by an event, or held when that is not written.
LEMMA PromoteHolds ==
  ASSUME Core, work # Absent, HeadReady(queue, fence), Promote(Head(queue), Tail(queue)),
         UNCHANGED <<fence, accepted, removed, absorbed, mistaken>>, shown' \subseteq Took
  PROVE  /\ LedgerOK' /\ QueueOK' /\ SavedOK' /\ Kept' /\ WorkOK' /\ work' # Absent
         /\ native' = native /\ budget' \in [{"crash", "fault", "evict"} -> Nat]
         /\ asked' = "none" /\ Took' = Took /\ parked' \in {parked, FALSE}
         /\ \E h \in Waits \ fence :
              /\ h \in Prompts /\ h = Head(queue) /\ Waits' = Waits \ {h}
              /\ \/ /\ work' = Work("starting", h)
                    /\ work'.kind = "starting" /\ work'.prompt = h /\ turn' = Turn(h, "sent")
                    /\ blocked' = blocked /\ fenced' = fenced
                    /\ Rows' = Rows \cup {h} /\ pending' = pending \cup ({h} \ Rows)
                    /\ Disk' = Waits' /\ saved'.fence = fence
                 \/ /\ work' = Idle /\ work'.kind = "idle" /\ work'.prompt = None /\ turn' = None
                    /\ blocked' = h /\ fenced' = fenced \cup {h}
                    /\ UNCHANGED <<ledger, pending, saved>> /\ Rows' = Rows /\ Disk' = Disk
<1> DEFINE h == Head(queue)
<1>1. /\ h \in Prompts /\ h \in Waits \ fence /\ Tail(queue) \in Seq(Prompts)
      /\ IsInjective(Tail(queue)) /\ ToSet(Tail(queue)) = Waits \ {h}
  <2>1. /\ Head(queue) \in Prompts /\ Tail(queue) \in Seq(Prompts)
        /\ ToSet(queue) = {Head(queue)} \cup ToSet(Tail(queue))
        /\ IsInjective(Tail(queue)) /\ Head(queue) \notin ToSet(Tail(queue))
    BY TailHolds DEF Core, IInv, TypeOK, QueueOK, HeadReady
  <2> QED BY <2>1 DEF HeadReady, Waits
<1>2. /\ queue' = Tail(queue)
      /\ \/ BeginPrompt(h, TRUE) /\ SaveQueue /\ UNCHANGED <<blocked, fenced, budget>>
         \/ /\ Spend("fault") /\ blocked' = h /\ fenced' = fenced \cup {h}
            /\ work' = Idle /\ turn' = None /\ asked' = "none"
            /\ UNCHANGED <<ledger, pending, saved, native, parked>>
  BY DEF Promote
<1> HIDE DEF h
<1>3. Waits' = Waits \ {h} /\ Took' = Took
  BY <1>1, <1>2 DEF Waits, Took
<1>4. QueueOK'
  BY <1>1, <1>2 DEF Core, IInv, TypeOK, QueueOK, Waits
<1>5. CASE BeginPrompt(h, TRUE) /\ SaveQueue /\ UNCHANGED <<blocked, fenced, budget>>
  <2>1. /\ ledger' \in Seq(Prompts) /\ IsInjective(ledger') /\ Rows' = Rows \cup {h}
        /\ pending' = pending \cup ({h} \ Rows) /\ pending' \subseteq ToSet(ledger')
        /\ WorkOK' /\ work'.prompt = h /\ work' # Idle /\ work' # Absent /\ ~parked'
        /\ work' = Work("starting", h) /\ work'.kind = "starting"
        /\ turn' = Turn(h, "sent") /\ asked' = "none" /\ native' = native
    BY <1>1, <1>5, BeginHolds DEF Core, IInv, TypeOK
  <2>2. parked' = FALSE
    BY <1>5 DEF BeginPrompt
  <2>3. LedgerOK' /\ budget' \in [{"crash", "fault", "evict"} -> Nat]
    BY <1>5, <2>1 DEF Core, IInv, TypeOK, LedgerOK, HistoryOK
  <2>4. SavedOK' /\ Disk' = Waits' /\ saved'.fence = fence'
    BY <1>4, <1>5, SavedFacts
  <2>5. Gone' = Gone
    BY <1>5 DEF Gone
  <2>6. Kept'
    BY <1>1, <1>3, <1>5, <2>1, <2>4, <2>5, KeptOnDisk DEF Core, Kept
  <2>7. saved'.fence = fence
    BY <2>4
  <2> QED BY <1>1, <1>3, <1>4, <1>5, <2>1, <2>2, <2>3, <2>4, <2>6, <2>7 DEF h
<1>6. CASE /\ Spend("fault") /\ blocked' = h /\ fenced' = fenced \cup {h}
           /\ work' = Idle /\ turn' = None /\ asked' = "none"
           /\ UNCHANGED <<ledger, pending, saved, native, parked>>
  <2>1. WorkOK' /\ work'.kind = "idle" /\ work'.prompt = None /\ work' # Absent
    BY <1>6, IdleWork
  <2>2. budget' \in [{"crash", "fault", "evict"} -> Nat]
    BY <1>6, SpendHolds DEF Core, IInv, TypeOK, HistoryOK
  <2>3. Rows' = Rows /\ Disk' = Disk /\ Gone' = Gone \cup {h} /\ LedgerOK' /\ SavedOK'
    BY <1>6 DEF Rows, Disk, Gone, Core, IInv, TypeOK, LedgerOK, SavedOK
  <2>4. Kept'
    BY <1>1, <1>3, <1>6, <2>1, <2>3 DEF Core, Kept
  <2> QED BY <1>1, <1>3, <1>4, <1>6, <2>1, <2>2, <2>3, <2>4 DEF h
<1> QED BY <1>2, <1>5, <1>6

LEMMA ResumedKeeps ==
  ASSUME Core, HandleSessionResumed
  PROVE  Core'
<1>1. /\ asked = "resume" /\ asked' = "none" /\ sess' = TRUE /\ known' = pending
      /\ UNCHANGED <<fence, native, ready, cancelling, steer, redirect, moving, cached, interrupts,
                     guiding, accepted, removed, guided, absorbed, mistaken, returned>>
  BY DEF HandleSessionResumed, selected, taken
<1>2. /\ work.kind = "resuming" /\ work # Absent /\ work.prompt = None /\ native = "real"
      /\ turn = None /\ ~cancelling /\ steer = None /\ redirect = None /\ moving = None
  BY <1>1, WorkFacts DEF Core, IInv, TypeOK, EngineOK, Engine, Session
<1>3. /\ pending \subseteq Rows /\ Rows \subseteq Took /\ Rows \subseteq Prompts
  BY DEF Core, IInv, TypeOK, LedgerOK, Kept, Rows, ToSet
<1>4. SelectionOK'
  BY <1>1 DEF Core, IInv, TypeOK, SelectionOK
<1>5. CASE /\ HeadReady(queue, fence) /\ Promote(Head(queue), Tail(queue))
           /\ shown' = ToSet(ledger) \cup {Head(queue)}
  <2>1. Head(queue) \in Waits
    BY <1>5, TailHolds DEF HeadReady, Waits, Core, IInv, TypeOK, QueueOK
  <2>2. shown' \subseteq Took
    BY <1>3, <1>5, <2>1 DEF Core, Kept, Rows
  <2>3. PICK h \in Waits \ fence :
          /\ h \in Prompts /\ h = Head(queue) /\ Waits' = Waits \ {h}
          /\ \/ /\ work' = Work("starting", h)
                /\ work'.kind = "starting" /\ work'.prompt = h /\ turn' = Turn(h, "sent")
                /\ blocked' = blocked /\ fenced' = fenced
                /\ Rows' = Rows \cup {h} /\ pending' = pending \cup ({h} \ Rows)
                /\ Disk' = Waits' /\ saved'.fence = fence
             \/ /\ work' = Idle /\ work'.kind = "idle" /\ work'.prompt = None /\ turn' = None
                /\ blocked' = h /\ fenced' = fenced \cup {h}
                /\ UNCHANGED <<ledger, pending, saved>> /\ Rows' = Rows /\ Disk' = Disk
    BY <1>1, <1>2, <1>5, <2>2, PromoteHolds
  <2>4. /\ LedgerOK' /\ QueueOK' /\ SavedOK' /\ Kept' /\ WorkOK' /\ work' # Absent
        /\ budget' \in [{"crash", "fault", "evict"} -> Nat]
        /\ parked' \in {parked, FALSE}
    BY <1>1, <1>2, <1>5, <2>2, PromoteHolds
  <2>5. /\ turn' = Turn(h, "sent") \/ turn' = None
        /\ blocked' = h \/ blocked' = blocked
        /\ fenced' = fenced \/ fenced' = fenced \cup {h}
    BY <2>3
  <2>6. turn' \in [prompt : Prompts, stage : {"sent", "started"}] \cup {None}
    BY <2>3, <2>5 DEF Turn
  <2>7. known' \subseteq Prompts /\ shown' \subseteq Prompts
    BY <1>1, <1>3, <1>5, <2>3 DEF Rows
  <2>8. HistoryOK'
    BY <1>1, <2>3, <2>4, <2>5 DEF Core, IInv, TypeOK, HistoryOK
  <2>9. EngineOK' /\ ProviderOK'
    BY <1>1, <2>3, <2>4, <2>5, <2>6, <2>7 DEF Core, IInv, TypeOK, EngineOK, ProviderOK
  <2>10. Engine' /\ Session'
    BY <1>1, <1>2, <2>3, <2>4 DEF Core, IInv, Engine, Session
  <2> QED BY <1>4, <2>4, <2>8, <2>9, <2>10 DEF Core, IInv, TypeOK
<1>6. CASE /\ work' = Idle /\ shown' = ToSet(ledger) /\ UNCHANGED <<queue, turn, parked>> /\ Stay
  <2>1. WorkOK' /\ work'.kind = "idle" /\ work'.prompt = None /\ work' # Absent
    BY <1>6, IdleWork
  <2>2. UNCHANGED <<ledger, pending, native, blocked, fenced, budget>> /\ SaveQueue
    BY <1>6 DEF Stay
  <2>3. known' \subseteq Prompts /\ shown' \subseteq Prompts /\ shown' \subseteq Took
    BY <1>1, <1>3, <1>6 DEF Rows
  <2>4. LedgerOK' /\ QueueOK' /\ HistoryOK' /\ EngineOK' /\ ProviderOK'
    BY <1>1, <1>6, <2>1, <2>2, <2>3
       DEF Core, IInv, TypeOK, LedgerOK, QueueOK, HistoryOK, EngineOK, ProviderOK
  <2>5. SavedOK' /\ Disk' = Waits' /\ saved'.fence = fence'
    BY <2>2, <2>4, SavedFacts
  <2>6. Rows' = Rows /\ Waits' = Waits /\ Took' = Took /\ Gone' = Gone
    BY <1>1, <1>6, <2>2 DEF Rows, Waits, Took, Gone
  <2>7. Kept'
    BY <1>2, <2>1, <2>2, <2>3, <2>5, <2>6, KeptOnDisk DEF Core, Kept
  <2>8. Engine' /\ Session'
    BY <1>1, <1>2, <1>6, <2>1, <2>2, <2>6 DEF Core, IInv, Engine, Session
  <2> QED BY <1>4, <2>4, <2>5, <2>7, <2>8 DEF Core, IInv, TypeOK
<1>7. ASSUME NEW first \in pending, NEW last \in pending,
             shown' = ToSet(ledger) /\ UNCHANGED <<queue, fenced, budget>> /\ SaveQueue,
             IF fence # {}
             THEN /\ work' = Idle /\ blocked' = last
                  /\ UNCHANGED <<ledger, pending, native, turn, parked>>
             ELSE /\ BeginPrompt(first, TRUE)
                  /\ blocked' = IF first # last THEN last ELSE blocked
      PROVE  Core'
  <2>1. first \in Prompts /\ last \in Prompts /\ first \in Rows /\ last \in Rows
    BY <1>3
  <2>2. CASE /\ work' = Idle /\ blocked' = last
             /\ UNCHANGED <<ledger, pending, native, turn, parked>>
    <3>1. WorkOK' /\ work'.kind = "idle" /\ work'.prompt = None /\ work' # Absent
      BY <2>2, IdleWork
    <3>2. known' \subseteq Prompts /\ shown' \subseteq Prompts /\ shown' \subseteq Took
      BY <1>1, <1>3, <1>7 DEF Rows
    <3>3. LedgerOK' /\ QueueOK' /\ HistoryOK' /\ EngineOK' /\ ProviderOK'
      BY <1>1, <1>7, <2>1, <2>2, <3>1, <3>2
         DEF Core, IInv, TypeOK, LedgerOK, QueueOK, HistoryOK, EngineOK, ProviderOK
    <3>4. SavedOK' /\ Disk' = Waits' /\ saved'.fence = fence'
      BY <1>7, <3>3, SavedFacts
    <3>5. Rows' = Rows /\ Waits' = Waits /\ Took' = Took /\ Gone' = Gone
      BY <1>1, <1>7, <2>2 DEF Rows, Waits, Took, Gone
    <3>6. Kept'
      BY <1>2, <1>3, <2>1, <2>2, <3>1, <3>2, <3>4, <3>5, KeptOnDisk DEF Core, Kept
    <3>7. Engine' /\ Session'
      BY <1>1, <1>2, <2>2, <3>1, <3>5 DEF Core, IInv, Engine, Session
    <3> QED BY <1>4, <3>3, <3>4, <3>6, <3>7 DEF Core, IInv, TypeOK
  <2>3. CASE /\ BeginPrompt(first, TRUE)
             /\ blocked' = IF first # last THEN last ELSE blocked
    <3>1. /\ ledger' \in Seq(Prompts) /\ IsInjective(ledger') /\ Rows' = Rows \cup {first}
          /\ pending' = pending \cup ({first} \ Rows) /\ pending' \subseteq ToSet(ledger')
          /\ WorkOK' /\ work'.prompt = first /\ work' # Idle /\ work' # Absent
          /\ work' = Work("starting", first) /\ work'.kind = "starting"
          /\ turn' = Turn(first, "sent") /\ asked' = "none" /\ native' = native
      BY <2>1, <2>3, BeginHolds DEF Core, IInv, TypeOK
    <3>2. known' \subseteq Prompts /\ shown' \subseteq Prompts /\ shown' \subseteq Took
      BY <1>1, <1>3, <1>7 DEF Rows
    <3>3. parked' = FALSE
      BY <2>3 DEF BeginPrompt
    <3>4. LedgerOK' /\ QueueOK' /\ HistoryOK' /\ EngineOK'
      BY <1>1, <1>7, <2>1, <2>3, <3>1, <3>2, <3>3
         DEF Core, IInv, TypeOK, LedgerOK, QueueOK, HistoryOK, EngineOK
    <3>5. turn' \in [prompt : Prompts, stage : {"sent", "started"}] \cup {None}
      BY <2>1, <3>1 DEF Turn
    <3>6. ProviderOK'
      BY <1>1, <3>5 DEF Core, IInv, TypeOK, ProviderOK
    <3>7. SavedOK' /\ Disk' = Waits' /\ saved'.fence = fence'
      BY <1>7, <3>4, SavedFacts
    <3>8. Rows' = Rows /\ Waits' = Waits /\ Took' = Took /\ Gone' = Gone
      BY <1>1, <1>7, <2>1, <3>1 DEF Waits, Took, Gone
    <3>9. Kept'
      BY <1>2, <1>3, <2>1, <2>3, <3>1, <3>2, <3>7, <3>8, KeptOnDisk DEF Core, Kept
    <3>10. Engine' /\ Session'
      BY <1>1, <1>2, <3>1, <3>8 DEF Core, IInv, Engine, Session
    <3> QED BY <1>4, <3>4, <3>6, <3>7, <3>9, <3>10 DEF Core, IInv, TypeOK
  <2> QED BY <1>7, <2>2, <2>3
<1> QED BY <1>5, <1>6, <1>7 DEF HandleSessionResumed, Replays

LEMMA ResumeRefusedKeeps ==
  ASSUME Core, ResumeRefused
  PROVE  Core'
<1>1. /\ asked = "resume" /\ asked' = "none" /\ SaveQueue /\ work' = Idle /\ parked' = TRUE
      /\ Spend("fault")
      /\ UNCHANGED <<queue, fence, ledger, pending, native, ready, sess, blocked, known, shown,
                     cancelling, steer, redirect, moving, cached, turn, interrupts, guiding,
                     accepted, removed, guided, absorbed, mistaken, fenced, returned>>
  BY DEF ResumeRefused, selected, taken
<1>2. work.kind = "resuming" /\ work # Absent
  BY <1>1, WorkFacts DEF Core, IInv, TypeOK, EngineOK, Engine
<1>3. WorkOK' /\ work'.kind = "idle" /\ work'.prompt = None /\ work' # Absent
  BY <1>1, IdleWork
<1>4. budget' \in [{"crash", "fault", "evict"} -> Nat]
  BY <1>1, SpendHolds DEF Core, IInv, TypeOK, HistoryOK
<1>5. LedgerOK' /\ SelectionOK' /\ HistoryOK' /\ EngineOK' /\ ProviderOK'
  BY <1>1, <1>3, <1>4 DEF Core, IInv, TypeOK, LedgerOK, SelectionOK, HistoryOK, EngineOK,
                          ProviderOK
<1>6. QueueOK' /\ SavedOK' /\ Disk' = Waits' /\ saved'.fence = fence /\ Kept'
  BY <1>1, <1>2, <1>3, StillKept DEF Core
<1>7. Rows' = Rows /\ Waits' = Waits
  BY <1>1 DEF Rows, Waits
<1>8. Engine' /\ Session'
  BY <1>1, <1>2, <1>3, <1>7 DEF Core, IInv, Engine, Session
<1> QED BY <1>5, <1>6, <1>8 DEF Core, IInv, TypeOK

-----------------------------------------------------------------------------
(* Answers about turns preserve Core.                                      *)

LEMMA SentFacts ==
  ASSUME Core, NEW p \in Prompts, Sent(p)
  PROVE  /\ work = Work("starting", p) /\ work.kind = "starting" /\ work.prompt = p
         /\ work # Absent /\ asked = "none" /\ ~cancelling /\ steer = None /\ redirect = None
         /\ native = "real" /\ turn # None /\ p \in Took
<1>1. turn # None
  BY PromptAssumption DEF Sent, Turn
<1>2. work.kind \in {"starting", "active"} /\ WorkOK /\ asked \in {"none", "create", "resume"}
  BY <1>1 DEF Core, IInv, Engine, TypeOK, EngineOK, ProviderOK
<1>3. turn = Turn(work.prompt, "sent") /\ work.kind = "starting" /\ work.prompt = p
  BY <1>2 DEF Core, IInv, Engine, Sent, Turn
<1>4. work = Work("starting", p) /\ work # Absent
  BY <1>2, <1>3, WorkFacts
<1> QED BY <1>1, <1>2, <1>3, <1>4, PromptAssumption DEF Core, IInv, Engine, Session, Kept

LEMMA StartedFacts ==
  ASSUME Core, NEW p \in Prompts, Started(p)
  PROVE  /\ work = Work("active", p) /\ work.kind = "active" /\ work.prompt = p
         /\ work # Absent /\ asked = "none" /\ moving = None
         /\ native = "real" /\ turn # None /\ p \in Took
<1>1. turn # None
  BY PromptAssumption DEF Started, Turn
<1>2. work.kind \in {"starting", "active"} /\ WorkOK /\ asked \in {"none", "create", "resume"}
  BY <1>1 DEF Core, IInv, Engine, TypeOK, EngineOK, ProviderOK
<1>3. turn = Turn(work.prompt, "started") /\ work.kind = "active" /\ work.prompt = p
  BY <1>2 DEF Core, IInv, Engine, Started, Turn
<1>4. work = Work("active", p) /\ work # Absent
  BY <1>2, <1>3, WorkFacts
<1> QED BY <1>1, <1>2, <1>3, <1>4, PromptAssumption DEF Core, IInv, Engine, Session, Kept

LEMMA TurnStartedKeeps ==
  ASSUME Core, NEW p \in Prompts, TurnStarted(p)
  PROVE  Core'
<1>1. /\ Sent(p) /\ turn' = Turn(p, "started") /\ work' = Work("active", p)
      /\ moving' = None /\ SaveQueue
      /\ \/ /\ pending' = pending \ {p} /\ known' = known \ {p}
            /\ UNCHANGED <<blocked, budget>>
         \/ /\ Spend("fault") /\ UNCHANGED <<pending, known>>
            /\ blocked' \in {blocked, p}
      /\ UNCHANGED <<queue, fence, ledger, native, ready, sess, shown, cancelling, steer, redirect,
                     cached, asked, interrupts, guiding, accepted, removed, guided, absorbed,
                     mistaken, fenced, returned, parked>>
  BY DEF TurnStarted, history, taken
<1>2. /\ work = Work("starting", p) /\ work.kind = "starting" /\ work.prompt = p
      /\ work # Absent /\ asked = "none" /\ ~cancelling /\ steer = None /\ redirect = None
      /\ native = "real" /\ turn # None /\ p \in Took
  BY <1>1, SentFacts
<1>3. WorkOK' /\ work'.kind = "active" /\ work'.prompt = p /\ work' # Idle /\ work' # Absent
  BY <1>1, BeginWork
<1>4. budget' \in [{"crash", "fault", "evict"} -> Nat]
  BY <1>1, SpendHolds DEF Core, IInv, TypeOK, HistoryOK
<1>5. pending' \subseteq pending /\ known' \subseteq known /\ blocked' \in {blocked, p}
  BY <1>1
<1>6. LedgerOK' /\ SelectionOK' /\ HistoryOK' /\ EngineOK'
  BY <1>1, <1>3, <1>4, <1>5
     DEF Core, IInv, TypeOK, LedgerOK, SelectionOK, HistoryOK, EngineOK
<1>7. ProviderOK'
  BY <1>1 DEF Core, IInv, TypeOK, ProviderOK, Turn
<1>8. QueueOK' /\ SavedOK' /\ Disk' = Waits' /\ saved'.fence = fence /\ Kept'
  BY <1>1, <1>2, <1>3, <1>5, StillKept DEF Core
<1>9. Rows' = Rows /\ Waits' = Waits
  BY <1>1 DEF Rows, Waits
<1>10. Engine' /\ Session'
  BY <1>1, <1>2, <1>3, <1>9 DEF Core, IInv, Engine, Session
<1> QED BY <1>6, <1>7, <1>8, <1>10 DEF Core, IInv, TypeOK

\* The prompt that was starting is held or waits again.
LEMMA GiveUpHolds ==
  ASSUME Core, NEW p \in Prompts, work.prompt = p, work.kind \in {"creating", "starting"},
         GiveUpStart(p), fence' = fence
  PROVE  /\ QueueOK' /\ blocked' \in {blocked, p} /\ returned' \in {returned, returned \cup {p}}
         /\ \/ Waits' = Waits \cup {p} /\ blocked' = blocked /\ returned' = returned \cup {p}
               /\ moving # None
            \/ Waits' = Waits /\ blocked' = p /\ returned' = returned /\ moving = None
<1>1. CASE moving # None
  <2>1. moving.prompt = p /\ p \notin ToSet(queue)
    BY <1>1 DEF Core, IInv, Engine, Waits
  <2>2. /\ Restored(moving) \in Seq(Prompts) /\ IsInjective(Restored(moving))
        /\ ToSet(Restored(moving)) = ToSet(queue) \cup {p}
    BY <2>1, RestoredHolds DEF Core, IInv, TypeOK, QueueOK
  <2>3. queue' = Restored(moving) /\ returned' = returned \cup {p} /\ blocked' = blocked
    BY <1>1 DEF GiveUpStart
  <2> QED BY <1>1, <2>2, <2>3 DEF QueueOK, Waits, Core, IInv, TypeOK
<1>2. CASE moving = None
  <2>1. queue' = queue /\ returned' = returned /\ blocked' = p
    BY <1>2 DEF GiveUpStart
  <2> QED BY <1>2, <2>1 DEF QueueOK, Waits, Core, IInv, TypeOK
<1> QED BY <1>1, <1>2

LEMMA TurnRefusedKeeps ==
  ASSUME Core, NEW p \in Prompts, TurnRefused(p)
  PROVE  Core'
<1>1. /\ Sent(p) /\ turn' = None /\ work' = Idle
      /\ GiveUpStart(p) /\ moving' = None /\ parked' = TRUE /\ fence' = fence /\ SaveQueue
      /\ UNCHANGED <<ledger, pending, native, ready, sess, known, shown, cancelling, steer,
                     redirect, cached, asked, interrupts, guiding, accepted, removed, guided,
                     absorbed, mistaken, fenced, budget>>
  BY DEF TurnRefused, taken
<1>2. /\ work = Work("starting", p) /\ work.kind = "starting" /\ work.prompt = p
      /\ work # Absent /\ asked = "none" /\ ~cancelling /\ steer = None /\ redirect = None
      /\ native = "real" /\ turn # None /\ p \in Took
  BY <1>1, SentFacts
<1>3. /\ QueueOK' /\ blocked' \in {blocked, p} /\ returned' \in {returned, returned \cup {p}}
      /\ Waits' = Waits \cup {p} \/ Waits' = Waits
  BY <1>1, <1>2, GiveUpHolds
<1>4. WorkOK' /\ work'.kind = "idle" /\ work'.prompt = None /\ work' # Absent
  BY <1>1, IdleWork
<1>5. LedgerOK' /\ SelectionOK' /\ HistoryOK' /\ EngineOK' /\ ProviderOK'
  BY <1>1, <1>3, <1>4 DEF Core, IInv, TypeOK, LedgerOK, SelectionOK, HistoryOK, EngineOK,
                          ProviderOK
<1>6. SavedOK' /\ Disk' = Waits' /\ saved'.fence = fence'
  BY <1>1, <1>3, SavedFacts
<1>7. Rows' = Rows /\ Took' = Took /\ Gone' = Gone
  BY <1>1 DEF Rows, Took, Gone
<1>8. Kept'
  BY <1>1, <1>2, <1>3, <1>4, <1>6, <1>7, KeptOnDisk DEF Core, Kept
<1>9. Engine' /\ Session'
  BY <1>1, <1>2, <1>4, <1>7 DEF Core, IInv, Engine, Session
<1> QED BY <1>3, <1>5, <1>6, <1>8, <1>9 DEF Core, IInv, TypeOK

LEMMA FailedUnstartedKeeps ==
  ASSUME Core, NEW p \in Prompts, FailedUnstarted(p)
  PROVE  Core'
<1>1. /\ Sent(p) /\ turn' = None /\ work' = Idle /\ blocked' = p /\ moving' = None
      /\ parked' = TRUE /\ SaveQueue
      /\ UNCHANGED <<queue, fence, ledger, pending, native, ready, sess, known, shown, cancelling,
                     steer, redirect, cached, asked, interrupts, guiding, accepted, removed,
                     guided, absorbed, mistaken, fenced, returned, budget>>
  BY DEF FailedUnstarted, taken
<1>2. /\ work = Work("starting", p) /\ work.kind = "starting" /\ work.prompt = p
      /\ work # Absent /\ asked = "none" /\ ~cancelling /\ steer = None /\ redirect = None
      /\ native = "real" /\ turn # None /\ p \in Took
  BY <1>1, SentFacts
<1>3. WorkOK' /\ work'.kind = "idle" /\ work'.prompt = None /\ work' # Absent
  BY <1>1, IdleWork
<1>4. LedgerOK' /\ SelectionOK' /\ HistoryOK' /\ EngineOK' /\ ProviderOK'
  BY <1>1, <1>3 DEF Core, IInv, TypeOK, LedgerOK, SelectionOK, HistoryOK, EngineOK, ProviderOK
<1>5. QueueOK' /\ SavedOK' /\ Disk' = Waits' /\ saved'.fence = fence /\ Kept'
  BY <1>1, <1>2, <1>3, StillKept DEF Core
<1>6. Rows' = Rows /\ Waits' = Waits
  BY <1>1 DEF Rows, Waits
<1>7. Engine' /\ Session'
  BY <1>1, <1>2, <1>3, <1>6 DEF Core, IInv, Engine, Session
<1> QED BY <1>4, <1>5, <1>7 DEF Core, IInv, TypeOK

\* The selected prompt is started by the end of the turn it redirects.
LEMMA RedirectHolds ==
  ASSUME Core, work # Absent, redirect # None, BeginPendingRedirect, native' = native,
         UNCHANGED <<fence, accepted, removed, absorbed, mistaken>>
  PROVE  /\ LedgerOK' /\ QueueOK' /\ SavedOK' /\ Kept' /\ WorkOK' /\ work' # Absent
         /\ budget' \in [{"crash", "fault", "evict"} -> Nat]
         /\ Took' = Took /\ parked' \in BOOLEAN
         /\ redirect \in Prompts /\ redirect \in Waits \ fence
         /\ Waits' = Waits \ {redirect} /\ shown' = shown \cup {redirect} /\ blocked' = blocked
         /\ \/ /\ work' = Work("starting", redirect) /\ work'.kind = "starting"
               /\ work'.prompt = redirect /\ turn' = Turn(redirect, "sent") /\ fenced' = fenced
               /\ asked' = "none" /\ moving' \in [prompt : Prompts, ahead : SUBSET Prompts]
               /\ moving'.prompt = redirect /\ Rows' = Rows \cup {redirect}
               /\ pending' = pending \cup ({redirect} \ Rows)
               /\ Disk' = Waits' /\ saved'.fence = fence
            \/ /\ work' = Idle /\ work'.kind = "idle" /\ work'.prompt = None /\ turn' = None
               /\ asked' = asked /\ moving' = None /\ fenced' = fenced \cup {redirect}
               /\ UNCHANGED <<ledger, pending, saved>> /\ Rows' = Rows /\ Disk' = Disk
<1>1. redirect \in Prompts /\ redirect \in Waits \ fence
  BY DEF Core, IInv, TypeOK, SelectionOK, Engine
<1>2. PICK p \in Prompts : p = redirect
  BY <1>1
<1> DEFINE i == CHOOSE j \in DOMAIN queue : queue[j] = p
           ahead == ToSet(SubSeq(queue, 1, i - 1))
<1>3. /\ queue' = Without(queue, p) /\ blocked' = blocked
      /\ shown' = shown \cup {p}
      /\ \/ /\ BeginPrompt(p, TRUE) /\ SaveQueue /\ UNCHANGED <<fenced, budget>>
            /\ moving' = [prompt |-> p, ahead |-> ahead]
         \/ /\ Spend("fault") /\ fenced' = fenced \cup {p} /\ work' = Idle /\ turn' = None
            /\ moving' = None /\ parked' = TRUE
            /\ UNCHANGED <<ledger, pending, saved, native, asked>>
  BY <1>2 DEF BeginPendingRedirect
<1>4. queue' \in Seq(Prompts) /\ IsInjective(queue') /\ Waits' = Waits \ {p}
  BY <1>3, WithoutHolds DEF Core, IInv, TypeOK, QueueOK, Waits
<1>5. ahead \in SUBSET Prompts
  <2>1. /\ i \in 1..Len(queue) /\ Len(queue) \in Nat
        /\ \A j \in 1..Len(queue) : queue[j] \in Prompts
    <3>1. queue \in Seq(Prompts) /\ p \in ToSet(queue)
      BY <1>1, <1>2 DEF Core, IInv, TypeOK, QueueOK, Waits
    <3>2. DOMAIN queue = 1..Len(queue) /\ Len(queue) \in Nat
      BY <3>1, LenProperties
    <3>3. \E j \in DOMAIN queue : queue[j] = p
      BY <3>1 DEF ToSet
    <3> QED BY <3>1, <3>2, <3>3, ElementOfSeq
  <2> HIDE DEF i
  <2>2. 1 \in Int /\ i - 1 \in Int /\ \A j \in 1..(i - 1) : queue[j] \in Prompts
    BY <2>1
  <2>3. SubSeq(queue, 1, i - 1) \in Seq(Prompts)
    BY <2>2, SubSeqProperties
  <2> QED BY <2>3 DEF ToSet
<1> HIDE DEF ahead
<1>6. QueueOK' /\ Took' = Took
  BY <1>1, <1>2, <1>4 DEF Core, IInv, TypeOK, QueueOK, Waits, Took
<1>7. CASE /\ BeginPrompt(p, TRUE) /\ SaveQueue /\ UNCHANGED <<fenced, budget>>
           /\ moving' = [prompt |-> p, ahead |-> ahead]
  <2>1. /\ ledger' \in Seq(Prompts) /\ IsInjective(ledger') /\ Rows' = Rows \cup {p}
        /\ pending' = pending \cup ({p} \ Rows) /\ pending' \subseteq ToSet(ledger')
        /\ WorkOK' /\ work'.prompt = p /\ work' # Idle /\ work' # Absent /\ ~parked'
        /\ work' = Work("starting", p) /\ work'.kind = "starting"
        /\ turn' = Turn(p, "sent") /\ asked' = "none" /\ native' = native
    BY <1>7, BeginHolds DEF Core, IInv, TypeOK
  <2>2. parked' \in BOOLEAN
    BY <1>7 DEF BeginPrompt
  <2>3. LedgerOK' /\ budget' \in [{"crash", "fault", "evict"} -> Nat]
    BY <1>7, <2>1 DEF Core, IInv, TypeOK, LedgerOK, HistoryOK
  <2>4. SavedOK' /\ Disk' = Waits' /\ saved'.fence = fence'
    BY <1>6, <1>7, SavedFacts
  <2>5. Gone' = Gone
    BY <1>7 DEF Gone
  <2>6. Kept'
    BY <1>1, <1>2, <1>3, <1>4, <1>6, <2>1, <2>4, <2>5, KeptOnDisk DEF Core, Kept
  <2>7. moving' \in [prompt : Prompts, ahead : SUBSET Prompts] /\ moving'.prompt = p
    BY <1>5, <1>7
  <2> QED BY <1>1, <1>2, <1>3, <1>4, <1>6, <1>7, <2>1, <2>2, <2>3, <2>4, <2>6, <2>7
<1>8. CASE /\ Spend("fault") /\ fenced' = fenced \cup {p} /\ work' = Idle /\ turn' = None
           /\ moving' = None /\ parked' = TRUE
           /\ UNCHANGED <<ledger, pending, saved, native, asked>>
  <2>1. WorkOK' /\ work'.kind = "idle" /\ work'.prompt = None /\ work' # Absent
    BY <1>8, IdleWork
  <2>2. budget' \in [{"crash", "fault", "evict"} -> Nat]
    BY <1>8, SpendHolds DEF Core, IInv, TypeOK, HistoryOK
  <2>3. Rows' = Rows /\ Disk' = Disk /\ Gone' = Gone \cup {p} /\ LedgerOK' /\ SavedOK'
    BY <1>8 DEF Rows, Disk, Gone, Core, IInv, TypeOK, LedgerOK, SavedOK
  <2>4. Kept'
    BY <1>1, <1>2, <1>3, <1>4, <1>6, <1>8, <2>1, <2>3 DEF Core, Kept
  <2> QED BY <1>1, <1>2, <1>3, <1>4, <1>6, <1>8, <2>1, <2>2, <2>3, <2>4
<1> QED BY <1>3, <1>7, <1>8

LEMMA TurnCompletedKeeps ==
  ASSUME Core, NEW p \in Prompts, NEW outcome, TurnCompleted(p, outcome)
  PROVE  Core'
<1>1. /\ Started(p) /\ cancelling' = FALSE /\ steer' = None /\ redirect' = None
      /\ UNCHANGED <<fence, native, ready, sess, known, cached, interrupts, guiding, asked,
                     accepted, removed, guided, absorbed, mistaken, returned>>
      /\ \/ redirect # None /\ BeginPendingRedirect
         \/ /\ Drains(outcome)
            /\ Promote(Head(queue), Tail(queue)) /\ shown' = shown \cup {Head(queue)}
            /\ UNCHANGED moving
         \/ /\ parked' = (parked \/ redirect # None)
            /\ work' = Idle /\ turn' = None /\ UNCHANGED <<queue, moving, shown, asked>> /\ Stay
  BY DEF TurnCompleted, EndTurn, taken
<1>2. /\ work = Work("active", p) /\ work.kind = "active" /\ work.prompt = p
      /\ work # Absent /\ asked = "none" /\ moving = None
      /\ native = "real" /\ turn # None /\ p \in Took
  BY <1>1, StartedFacts
<1>3. CASE redirect # None /\ BeginPendingRedirect
  <2>1. PICK r \in Prompts : r = redirect
    BY <1>3 DEF Core, IInv, TypeOK, SelectionOK
  <2>2. /\ LedgerOK' /\ QueueOK' /\ SavedOK' /\ Kept' /\ WorkOK' /\ work' # Absent
        /\ budget' \in [{"crash", "fault", "evict"} -> Nat]
        /\ Took' = Took /\ parked' \in BOOLEAN
        /\ Waits' = Waits \ {r} /\ shown' = shown \cup {r} /\ blocked' = blocked
    BY <1>1, <1>2, <1>3, <2>1, RedirectHolds
  <2>3. \/ /\ work' = Work("starting", r) /\ work'.kind = "starting"
           /\ work'.prompt = r /\ turn' = Turn(r, "sent") /\ fenced' = fenced
           /\ moving' \in [prompt : Prompts, ahead : SUBSET Prompts]
           /\ moving'.prompt = r /\ Rows' = Rows \cup {r}
        \/ /\ work' = Idle /\ work'.kind = "idle" /\ work'.prompt = None /\ turn' = None
           /\ moving' = None /\ fenced' = fenced \cup {r} /\ Rows' = Rows
    BY <1>1, <1>2, <1>3, <2>1, RedirectHolds
  <2>4. SelectionOK'
    BY <1>1, <2>3 DEF SelectionOK
  <2>5. HistoryOK'
    BY <1>1, <2>2, <2>3 DEF Core, IInv, TypeOK, HistoryOK
  <2>6. EngineOK'
    BY <1>1, <2>2 DEF Core, IInv, TypeOK, EngineOK
  <2>7. ProviderOK'
    BY <1>1, <2>3 DEF Core, IInv, TypeOK, ProviderOK, Turn
  <2>8. Engine' /\ Session'
    BY <1>1, <1>2, <2>2, <2>3 DEF Core, IInv, Engine, Session
  <2> QED BY <2>2, <2>4, <2>5, <2>6, <2>7, <2>8 DEF Core, IInv, TypeOK
<1>4. CASE /\ Drains(outcome)
           /\ Promote(Head(queue), Tail(queue)) /\ shown' = shown \cup {Head(queue)}
           /\ UNCHANGED moving
  <2>1. HeadReady(queue, fence)
    BY <1>4 DEF Drains
  <2>2. Head(queue) \in Waits
    BY <2>1, TailHolds DEF HeadReady, Waits, Core, IInv, TypeOK, QueueOK
  <2>3. shown' \subseteq Took
    BY <1>4, <2>2 DEF Core, Kept
  <2>4. PICK h \in Waits \ fence :
          /\ h \in Prompts /\ h = Head(queue) /\ Waits' = Waits \ {h}
          /\ \/ /\ work' = Work("starting", h)
                /\ work'.kind = "starting" /\ work'.prompt = h /\ turn' = Turn(h, "sent")
                /\ blocked' = blocked /\ fenced' = fenced
                /\ Rows' = Rows \cup {h} /\ pending' = pending \cup ({h} \ Rows)
                /\ Disk' = Waits' /\ saved'.fence = fence
             \/ /\ work' = Idle /\ work'.kind = "idle" /\ work'.prompt = None /\ turn' = None
                /\ blocked' = h /\ fenced' = fenced \cup {h}
                /\ UNCHANGED <<ledger, pending, saved>> /\ Rows' = Rows /\ Disk' = Disk
    BY <1>1, <1>2, <1>4, <2>1, <2>3, PromoteHolds
  <2>5. /\ LedgerOK' /\ QueueOK' /\ SavedOK' /\ Kept' /\ WorkOK' /\ work' # Absent
        /\ budget' \in [{"crash", "fault", "evict"} -> Nat]
        /\ parked' \in {parked, FALSE}
    BY <1>1, <1>2, <1>4, <2>1, <2>3, PromoteHolds
  <2>6. /\ turn' = Turn(h, "sent") \/ turn' = None
        /\ blocked' = h \/ blocked' = blocked
        /\ fenced' = fenced \/ fenced' = fenced \cup {h}
    BY <2>4
  <2>7. turn' \in [prompt : Prompts, stage : {"sent", "started"}] \cup {None}
    BY <2>4, <2>6 DEF Turn
  <2>8. SelectionOK' /\ HistoryOK'
    BY <1>1, <1>4, <2>4, <2>5, <2>6 DEF Core, IInv, TypeOK, SelectionOK, HistoryOK
  <2>9. EngineOK' /\ ProviderOK'
    BY <1>1, <1>4, <2>4, <2>5, <2>6, <2>7 DEF Core, IInv, TypeOK, EngineOK, ProviderOK
  <2>10. Engine' /\ Session'
    BY <1>1, <1>2, <1>4, <2>4, <2>5 DEF Core, IInv, Engine, Session
  <2> QED BY <2>5, <2>8, <2>9, <2>10 DEF Core, IInv, TypeOK
<1>5. CASE /\ parked' = (parked \/ redirect # None)
           /\ work' = Idle /\ turn' = None /\ UNCHANGED <<queue, moving, shown, asked>> /\ Stay
  <2>1. WorkOK' /\ work'.kind = "idle" /\ work'.prompt = None /\ work' # Absent
    BY <1>5, IdleWork
  <2>2. UNCHANGED <<ledger, pending, native, blocked, fenced, budget>> /\ SaveQueue
        /\ parked' \in BOOLEAN
    BY <1>5 DEF Stay
  <2>3. LedgerOK' /\ SelectionOK' /\ HistoryOK' /\ EngineOK' /\ ProviderOK'
    BY <1>1, <1>5, <2>1, <2>2
       DEF Core, IInv, TypeOK, LedgerOK, SelectionOK, HistoryOK, EngineOK, ProviderOK
  <2>4. QueueOK' /\ SavedOK' /\ Disk' = Waits' /\ saved'.fence = fence /\ Kept'
    BY <1>1, <1>2, <1>5, <2>1, <2>2, StillKept DEF Core
  <2>5. Rows' = Rows /\ Waits' = Waits
    BY <1>5, <2>2 DEF Rows, Waits
  <2>6. Engine' /\ Session'
    BY <1>1, <1>2, <1>5, <2>1, <2>2, <2>5 DEF Core, IInv, Engine, Session
  <2> QED BY <2>3, <2>4, <2>6 DEF Core, IInv, TypeOK
<1> QED BY <1>1, <1>3, <1>4, <1>5

LEMMA SteerAcceptedKeeps ==
  ASSUME Core, NEW g \in guiding, HandleSteerAccepted(g)
  PROVE  Core'
<1>1. /\ guiding' = guiding \ {g} /\ steer' = None
      /\ absorbed' = absorbed \cup {g.prompt}
      /\ UNCHANGED <<ledger, pending, native, work, ready, sess, blocked, known, shown, cancelling,
                     redirect, moving, cached, asked, turn, interrupts, accepted, removed, guided,
                     fenced, returned, parked>>
  BY DEF HandleSteerAccepted
<1>2. \/ /\ Current(g)
         /\ queue' = Without(queue, steer.prompt) /\ fence' = fence \ {steer.prompt}
         /\ mistaken' = mistaken \cup ({steer.prompt} \ {g.prompt})
         /\ \/ SaveQueue /\ UNCHANGED budget
            \/ UNCHANGED saved /\ Spend("fault")
      \/ UNCHANGED <<queue, fence, mistaken, budget>> /\ SaveQueue
  BY DEF HandleSteerAccepted
<1>3. g.prompt \in Prompts /\ g.turn \in Prompts
  BY DEF Core, IInv, TypeOK, ProviderOK
<1>4. budget' \in [{"crash", "fault", "evict"} -> Nat]
  BY <1>2, SpendHolds DEF Core, IInv, TypeOK, HistoryOK
<1>5. LedgerOK' /\ SelectionOK' /\ EngineOK' /\ ProviderOK'
  BY <1>1 DEF Core, IInv, TypeOK, LedgerOK, SelectionOK, EngineOK, ProviderOK, WorkOK
<1>6. Rows' = Rows /\ Took' = Took
  BY <1>1 DEF Rows, Took
<1>7. CASE /\ Current(g)
           /\ queue' = Without(queue, steer.prompt) /\ fence' = fence \ {steer.prompt}
           /\ mistaken' = mistaken \cup ({steer.prompt} \ {g.prompt})
           /\ \/ SaveQueue /\ UNCHANGED budget
              \/ UNCHANGED saved /\ Spend("fault")
  <2>1. /\ steer # None /\ steer.prompt \in Prompts /\ redirect = None
        /\ work.kind = "active" /\ work # Absent
    BY <1>7, WorkFacts DEF Current, Core, IInv, TypeOK, SelectionOK, Engine, EngineOK
  <2>2. PICK s \in Prompts : s = steer.prompt
    BY <2>1
  <2>3. queue' \in Seq(Prompts) /\ IsInjective(queue') /\ Waits' = Waits \ {s}
    BY <1>7, <2>2, WithoutHolds DEF Core, IInv, TypeOK, QueueOK, Waits
  <2>4. QueueOK'
    BY <1>7, <2>2, <2>3 DEF Core, IInv, TypeOK, QueueOK, Waits
  <2>5. /\ SavedOK'
        /\ \/ Disk' = Waits' /\ saved'.fence = fence'
           \/ Disk' = Disk /\ saved' = saved
    <3>1. CASE SaveQueue
      BY <2>4, <3>1, SavedFacts
    <3>2. CASE UNCHANGED saved
      BY <3>2 DEF Core, IInv, TypeOK, SavedOK, Disk
    <3> QED BY <1>7, <3>1, <3>2
  <2>6. Gone \cup {s} \subseteq Gone'
    BY <1>1, <1>7, <2>2 DEF Gone
  <2>7. HistoryOK'
    BY <1>1, <1>3, <1>4, <1>7, <2>2 DEF Core, IInv, TypeOK, HistoryOK
  <2>8. Kept'
    BY <1>1, <1>6, <2>1, <2>3, <2>5, <2>6 DEF Core, Kept
  <2>9. Engine'
    BY <1>1, <2>1, <2>3 DEF Core, IInv, Engine
  <2>10. Session'
    BY <1>1, <1>6, <2>1 DEF Core, IInv, Session
  <2> QED BY <1>5, <2>4, <2>5, <2>7, <2>8, <2>9, <2>10 DEF Core, IInv, TypeOK
<1>8. CASE UNCHANGED <<queue, fence, mistaken, budget>> /\ SaveQueue
  <2>1. QueueOK' /\ Waits' = Waits
    BY <1>8 DEF Core, IInv, TypeOK, QueueOK, Waits
  <2>2. SavedOK' /\ Disk' = Waits' /\ saved'.fence = fence'
    BY <1>8, <2>1, SavedFacts
  <2>3. Gone' = Gone \cup {g.prompt}
    BY <1>1, <1>8 DEF Gone
  <2>4. HistoryOK'
    BY <1>1, <1>3, <1>8 DEF Core, IInv, TypeOK, HistoryOK
  <2>5. Kept'
    <3>1. work # Absent
      BY DEF Core, IInv, Session
    <3> QED BY <1>1, <1>6, <2>1, <2>2, <2>3, <3>1 DEF Core, Kept
  <2>6. Engine' /\ Session'
    BY <1>1, <1>6, <1>8, <2>1 DEF Core, IInv, Engine, Session
  <2> QED BY <1>5, <2>1, <2>2, <2>4, <2>5, <2>6 DEF Core, IInv, TypeOK
<1> QED BY <1>2, <1>7, <1>8

LEMMA SteerRefusedKeeps ==
  ASSUME Core, NEW g \in guiding, SteerRefused(g)
  PROVE  Core'
<1>1. /\ guiding' = guiding \ {g} /\ steer' = None /\ SaveQueue
      /\ UNCHANGED <<queue, fence, ledger, pending, native, work, ready, sess, blocked, known,
                     shown, cancelling, redirect, moving, cached, asked, turn, interrupts,
                     accepted, removed, guided, absorbed, mistaken, fenced, returned, parked,
                     budget>>
  BY DEF SteerRefused, history, taken
<1>2. work # Absent
  BY DEF Core, IInv, Session
<1>3. LedgerOK' /\ SelectionOK' /\ HistoryOK' /\ EngineOK' /\ ProviderOK'
  BY <1>1 DEF Core, IInv, TypeOK, LedgerOK, SelectionOK, HistoryOK, EngineOK, ProviderOK, WorkOK
<1>4. QueueOK' /\ SavedOK' /\ Disk' = Waits' /\ saved'.fence = fence /\ Kept'
  BY <1>1, <1>2, StillKept DEF Core
<1>5. Engine' /\ Session'
  BY <1>1, <1>2 DEF Core, IInv, Engine, Session, Waits, Rows
<1> QED BY <1>3, <1>4, <1>5 DEF Core, IInv, TypeOK

LEMMA InterruptRefusedKeeps ==
  ASSUME Core, NEW p \in Prompts, InterruptRefused(p)
  PROVE  Core'
<1>1. /\ p \in interrupts /\ interrupts' = interrupts \ {p} /\ cancelling' = FALSE
      /\ redirect' = None /\ SaveQueue
      /\ UNCHANGED <<queue, fence, ledger, pending, native, work, ready, sess, blocked, known,
                     shown, steer, moving, cached, asked, turn, guiding, accepted, removed, guided,
                     absorbed, mistaken, fenced, returned, parked, budget>>
  BY DEF InterruptRefused, history, taken
<1>2. work # Absent
  BY <1>1 DEF Core, IInv, Session
<1>3. LedgerOK' /\ SelectionOK' /\ HistoryOK' /\ EngineOK' /\ ProviderOK'
  BY <1>1 DEF Core, IInv, TypeOK, LedgerOK, SelectionOK, HistoryOK, EngineOK, ProviderOK, WorkOK
<1>4. QueueOK' /\ SavedOK' /\ Disk' = Waits' /\ saved'.fence = fence /\ Kept'
  BY <1>1, <1>2, StillKept DEF Core
<1>5. Engine' /\ Session'
  BY <1>1, <1>2 DEF Core, IInv, Engine, Session, Waits, Rows
<1> QED BY <1>3, <1>4, <1>5 DEF Core, IInv, TypeOK

-----------------------------------------------------------------------------
(* Losing the session, the provider or the runtime preserves Core.         *)

\* What a lost session and a lost provider leave of the prompt that was starting.
LEMMA DropHolds ==
  ASSUME Core, work # Absent, DropTurn, work'.kind \in {"idle", "resuming"},
         WorkOK', work' # Absent,
         UNCHANGED <<ledger, pending, native, known, shown, cached, accepted, removed, guided,
                     absorbed, mistaken, fenced>>
  PROVE  /\ QueueOK' /\ SavedOK' /\ Kept' /\ SelectionOK' /\ HistoryOK' /\ LedgerOK'
         /\ Disk' = Waits' /\ saved'.fence = fence /\ Rows' = Rows
         /\ blocked' \in Prompts \cup {None} /\ fence' = fence
         /\ moving' = None /\ cancelling' = FALSE /\ steer' = None /\ redirect' = None
         /\ turn' = None /\ interrupts' = {} /\ guiding' = {}
<1>1. /\ IF work.kind \in {"creating", "starting"} THEN GiveUpStart(work.prompt)
         ELSE UNCHANGED <<queue, blocked, returned>>
      /\ fence' = fence /\ SaveQueue /\ parked' = TRUE /\ moving' = None /\ cancelling' = FALSE
      /\ steer' = None /\ redirect' = None
      /\ turn' = None /\ interrupts' = {} /\ guiding' = {} /\ Spend("fault")
  BY DEF DropTurn, EndTurn
<1>2. /\ QueueOK' /\ blocked' \in {blocked, work.prompt}
      /\ returned' \subseteq returned \cup ({work.prompt} \cap Prompts)
      /\ Waits \subseteq Waits' /\ Waits' \subseteq Waits \cup ({work.prompt} \cap Prompts)
  <2>1. CASE work.kind \in {"creating", "starting"}
    <3>1. work.prompt \in Prompts
      BY <2>1, WorkFacts DEF Core, IInv, TypeOK, EngineOK
    <3>2. PICK p \in Prompts : p = work.prompt
      BY <3>1
    <3>3. /\ QueueOK' /\ blocked' \in {blocked, p} /\ returned' \in {returned, returned \cup {p}}
          /\ Waits' = Waits \cup {p} \/ Waits' = Waits
      BY <1>1, <2>1, <3>2, GiveUpHolds
    <3> QED BY <3>2, <3>3
  <2>2. CASE work.kind \notin {"creating", "starting"}
    BY <1>1, <2>2 DEF Waits, QueueOK, Core, IInv, TypeOK
  <2> QED BY <2>1, <2>2
<1>3. budget' \in [{"crash", "fault", "evict"} -> Nat]
  BY <1>1, SpendHolds DEF Core, IInv, TypeOK, HistoryOK
<1>4. SelectionOK' /\ LedgerOK'
  BY <1>1 DEF Core, IInv, TypeOK, SelectionOK, LedgerOK
<1>5. HistoryOK'
  BY <1>1, <1>2, <1>3 DEF Core, IInv, TypeOK, HistoryOK
<1>6. SavedOK' /\ Disk' = Waits' /\ saved'.fence = fence'
  BY <1>1, <1>2, SavedFacts
<1>7. Rows' = Rows /\ Took' = Took /\ Gone' = Gone
  BY DEF Rows, Took, Gone
<1>8. work.prompt \in Took \cup {None} /\ work'.prompt = None
  BY WorkFacts DEF Core, Kept, WorkOK, Work, Idle, Absent
<1>9. Waits' \subseteq Took
  BY <1>2, <1>8, PromptAssumption DEF Core, Kept
<1>10. Kept'
  BY <1>2, <1>6, <1>7, <1>8, <1>9, KeptOnDisk DEF Core, Kept
<1>11. blocked' \in Prompts \cup {None}
  BY <1>2, <1>8 DEF Core, IInv, TypeOK, EngineOK, HistoryOK, Took, ToSet
<1> QED BY <1>1, <1>2, <1>4, <1>5, <1>6, <1>7, <1>10, <1>11

LEMMA ClosedKeeps ==
  ASSUME Core, HandleSessionClosed
  PROVE  Core'
<1>1. /\ work # Absent /\ sess /\ sess' = FALSE /\ work' = Idle /\ DropTurn
      /\ UNCHANGED <<ledger, pending, native, ready, known, shown, cached, asked, accepted,
                     removed, guided, absorbed, mistaken, fenced>>
  BY DEF HandleSessionClosed, Live, taken
<1>2. asked = "none"
  BY <1>1 DEF Core, IInv, Engine, Session, TypeOK, ProviderOK
<1>3. WorkOK' /\ work'.kind = "idle" /\ work'.prompt = None /\ work' # Absent
  BY <1>1, IdleWork
<1>4. /\ QueueOK' /\ SavedOK' /\ Kept' /\ SelectionOK' /\ HistoryOK' /\ LedgerOK'
      /\ Rows' = Rows /\ blocked' \in Prompts \cup {None}
      /\ moving' = None /\ cancelling' = FALSE /\ steer' = None /\ redirect' = None
      /\ turn' = None /\ interrupts' = {} /\ guiding' = {}
  BY <1>1, <1>3, DropHolds
<1>5. EngineOK' /\ ProviderOK'
  BY <1>1, <1>3, <1>4 DEF Core, IInv, TypeOK, EngineOK, ProviderOK
<1>6. Engine' /\ Session'
  BY <1>1, <1>2, <1>3, <1>4 DEF Core, IInv, Engine, Session
<1> QED BY <1>4, <1>5, <1>6 DEF Core, IInv, TypeOK

LEMMA DisconnectedKeeps ==
  ASSUME Core, HandleDisconnected
  PROVE  Core'
<1>1. /\ work # Absent /\ ready' = FALSE /\ DropTurn /\ asked' = "none"
      /\ work' = IF work.kind = "resuming" THEN work ELSE Idle
      /\ UNCHANGED <<ledger, pending, native, sess, known, shown, cached, accepted, removed,
                     guided, absorbed, mistaken, fenced>>
  BY DEF HandleDisconnected, Live, taken
<1>2. /\ WorkOK' /\ work'.kind \in {"idle", "resuming"} /\ work' # Absent /\ work'.prompt = None
      /\ work'.kind = "resuming" => work.kind = "resuming"
  <2>1. CASE work.kind = "resuming"
    <3>1. work' = work
      BY <1>1, <2>1
    <3>2. WorkOK
      BY DEF Core, IInv, TypeOK, EngineOK
    <3> QED BY <1>1, <2>1, <3>1, <3>2, WorkFacts DEF WorkOK
  <2>2. CASE work.kind # "resuming"
    BY <1>1, <2>2, IdleWork
  <2> QED BY <2>1, <2>2
<1>3. /\ QueueOK' /\ SavedOK' /\ Kept' /\ SelectionOK' /\ HistoryOK' /\ LedgerOK'
      /\ Rows' = Rows /\ blocked' \in Prompts \cup {None}
      /\ moving' = None /\ cancelling' = FALSE /\ steer' = None /\ redirect' = None
      /\ turn' = None /\ interrupts' = {} /\ guiding' = {}
  BY <1>1, <1>2, DropHolds
<1>4. EngineOK' /\ ProviderOK'
  BY <1>1, <1>2, <1>3 DEF Core, IInv, TypeOK, EngineOK, ProviderOK
<1>5. Engine' /\ Session'
  BY <1>1, <1>2, <1>3 DEF Core, IInv, Engine, Session
<1> QED BY <1>3, <1>4, <1>5 DEF Core, IInv, TypeOK

LEMMA ReadyKeeps ==
  ASSUME Core, HandleReady
  PROVE  Core'
<1>1. /\ work # Absent /\ ready' = TRUE /\ SaveQueue
      /\ UNCHANGED <<queue, fence, ledger, pending, native, work, sess, blocked, known, shown,
                     cancelling, steer, redirect, moving, cached, asked, turn, interrupts, guiding,
                     accepted, removed, guided, absorbed, mistaken, fenced, returned, parked,
                     budget>>
  BY DEF HandleReady, Live, selected, provider, history, taken
<1>2. LedgerOK' /\ SelectionOK' /\ HistoryOK' /\ EngineOK' /\ ProviderOK'
  BY <1>1 DEF Core, IInv, TypeOK, LedgerOK, SelectionOK, HistoryOK, EngineOK, ProviderOK, WorkOK
<1>3. QueueOK' /\ SavedOK' /\ Disk' = Waits' /\ saved'.fence = fence /\ Kept'
  BY <1>1, StillKept DEF Core
<1>4. Engine' /\ Session'
  BY <1>1 DEF Core, IInv, Engine, Session, Waits, Rows
<1> QED BY <1>2, <1>3, <1>4 DEF Core, IInv, TypeOK

LEMMA CrashKeeps ==
  ASSUME Core, Crash
  PROVE  Core'
<1>1. /\ Spend("crash") /\ work' = Absent
      /\ ready' = TRUE /\ sess' = FALSE /\ queue' = <<>> /\ fence' = {} /\ blocked' = None
      /\ known' = {} /\ shown' = {} /\ cancelling' = FALSE
      /\ steer' = None /\ redirect' = None /\ moving' = None /\ cached' = {}
      /\ asked' = "none" /\ turn' = None /\ interrupts' = {} /\ guiding' = {}
      /\ UNCHANGED <<ledger, pending, saved, native, accepted, removed, guided, absorbed, mistaken,
                     fenced, returned, parked>>
  BY DEF Crash, durable, history, taken
<1>2. budget' \in [{"crash", "fault", "evict"} -> Nat]
  BY <1>1, SpendHolds DEF Core, IInv, TypeOK, HistoryOK
<1>3. WorkOK' /\ work'.kind = "absent" /\ work'.prompt = None
  BY <1>1 DEF WorkOK, Absent, Work
<1>4. QueueOK' /\ Waits' = {}
  BY <1>1, EmptyHolds DEF QueueOK, Waits
<1>5. LedgerOK' /\ SavedOK' /\ SelectionOK' /\ HistoryOK' /\ EngineOK' /\ ProviderOK'
  BY <1>1, <1>2, <1>3 DEF Core, IInv, TypeOK, LedgerOK, SavedOK, SelectionOK, HistoryOK, EngineOK,
                          ProviderOK
<1>6. Rows' = Rows /\ Disk' = Disk /\ Took' = Took /\ Gone' = Gone
  BY <1>1 DEF Rows, Disk, Took, Gone
<1>7. Kept'
  BY <1>1, <1>3, <1>4, <1>6 DEF Core, Kept
<1>8. Engine' /\ Session'
  BY <1>1, <1>3, <1>6 DEF Core, IInv, Engine, Session
<1> QED BY <1>4, <1>5, <1>7, <1>8 DEF Core, IInv, TypeOK

LEMMA OpenKeeps ==
  ASSUME Core, OpenSession
  PROVE  Core'
<1>1. /\ work = Absent /\ queue' = saved.queue /\ fence' = saved.fence /\ parked' = FALSE
      /\ UNCHANGED <<ledger, pending, saved, native, ready, sess, blocked, cancelling, steer,
                     redirect, moving, cached, turn, interrupts, guiding, accepted, removed,
                     guided, absorbed, mistaken, fenced, returned, budget>>
  BY DEF OpenSession, Live, durable, selected, taken
<1>2. \/ native = "none" /\ work' = Idle /\ UNCHANGED <<asked, known, shown>>
      \/ /\ native = "real" /\ work' = Work("resuming", None) /\ asked' = "resume"
         /\ known' = pending /\ UNCHANGED shown
      \/ /\ native = "pending"
         /\ \E p \in ToSet(ledger) :
              /\ FirstPending(p) /\ work' = Work("creating", p) /\ asked' = "create"
              /\ known' = pending /\ shown' = {p}
  BY DEF OpenSession, Core, IInv, TypeOK, LedgerOK
<1>3. work.kind = "absent" /\ work.prompt = None
  BY <1>1 DEF Absent, Work
<1>4. /\ turn = None /\ asked = "none" /\ ~cancelling /\ steer = None /\ redirect = None
      /\ moving = None /\ blocked = None /\ ~sess /\ guiding = {} /\ interrupts = {}
      /\ shown = {} /\ known = {}
  BY <1>1, <1>3 DEF Core, IInv, Engine, Session, TypeOK, ProviderOK
<1>5. QueueOK' /\ Waits' = Disk
  BY <1>1 DEF QueueOK, Waits, Disk, Core, IInv, TypeOK, SavedOK
<1>6. Rows' = Rows /\ Disk' = Disk /\ Took' = Took /\ Gone' = Gone
  BY <1>1 DEF Rows, Disk, Took, Gone
<1>7. Rows \subseteq Prompts /\ pending \subseteq Rows /\ Rows \subseteq Took
  BY DEF Rows, ToSet, Core, Kept, IInv, TypeOK, LedgerOK
<1>8. LedgerOK' /\ SavedOK' /\ SelectionOK' /\ HistoryOK'
  BY <1>1 DEF Core, IInv, TypeOK, LedgerOK, SavedOK, SelectionOK, HistoryOK
<1>9. CASE native = "none" /\ work' = Idle /\ UNCHANGED <<asked, known, shown>>
  <2>1. WorkOK' /\ work'.kind = "idle" /\ work'.prompt = None /\ work' # Absent
    BY <1>9, IdleWork
  <2>2. EngineOK' /\ ProviderOK'
    BY <1>1, <1>9, <2>1 DEF Core, IInv, TypeOK, EngineOK, ProviderOK
  <2>3. Kept'
    BY <1>1, <1>4, <1>5, <1>6, <1>9, <2>1 DEF Core, Kept
  <2>4. Engine' /\ Session'
    BY <1>1, <1>4, <1>6, <1>9, <2>1 DEF Core, IInv, Engine, Session
  <2> QED BY <1>5, <1>8, <2>2, <2>3, <2>4 DEF Core, IInv, TypeOK
<1>10. CASE /\ native = "real" /\ work' = Work("resuming", None) /\ asked' = "resume"
            /\ known' = pending /\ UNCHANGED shown
  <2>1. WorkOK' /\ work'.kind = "resuming" /\ work'.prompt = None /\ work' # Absent
    BY <1>10 DEF WorkOK, Work, Absent
  <2>2. EngineOK' /\ ProviderOK'
    BY <1>1, <1>7, <1>10, <2>1 DEF Core, IInv, TypeOK, EngineOK, ProviderOK
  <2>3. Kept'
    BY <1>1, <1>4, <1>5, <1>6, <1>10, <2>1 DEF Core, Kept
  <2>4. Engine' /\ Session'
    BY <1>1, <1>4, <1>6, <1>10, <2>1 DEF Core, IInv, Engine, Session
  <2> QED BY <1>5, <1>8, <2>2, <2>3, <2>4 DEF Core, IInv, TypeOK
<1>11. ASSUME native = "pending", NEW p \in ToSet(ledger), work' = Work("creating", p),
              asked' = "create", known' = pending, shown' = {p}
       PROVE  Core'
  <2>1. p \in Prompts /\ p \in Rows
    BY <1>7 DEF Rows
  <2>2. WorkOK' /\ work'.kind = "creating" /\ work'.prompt = p /\ work' # Idle /\ work' # Absent
    BY <1>11, <2>1, BeginWork
  <2>3. EngineOK' /\ ProviderOK'
    BY <1>1, <1>7, <1>11, <2>1, <2>2 DEF Core, IInv, TypeOK, EngineOK, ProviderOK
  <2>4. Kept'
    BY <1>1, <1>4, <1>5, <1>6, <1>7, <1>11, <2>1, <2>2 DEF Core, Kept
  <2>5. Engine' /\ Session'
    BY <1>1, <1>4, <1>6, <1>11, <2>2 DEF Core, IInv, Engine, Session
  <2> QED BY <1>5, <1>8, <2>3, <2>4, <2>5 DEF Core, IInv, TypeOK
<1> QED BY <1>2, <1>9, <1>10, <1>11

-----------------------------------------------------------------------------
(* Every behaviour keeps Core.                                             *)

LEMMA CoreInit == Init => Core
<1> SUFFICES ASSUME Init PROVE Core
  OBVIOUS
<1>1. WorkOK /\ work.kind = "idle" /\ work.prompt = None /\ work # Absent
  BY DEF Init, WorkOK, Idle, Absent, Work
<1>2. Rows = {} /\ Waits = {} /\ Disk = {} /\ Took = {} /\ Gone = {}
  BY EmptyHolds DEF Init, Rows, Waits, Disk, Took, Gone
<1>3. LedgerOK /\ QueueOK /\ SavedOK
  BY EmptyHolds DEF Init, LedgerOK, QueueOK, SavedOK
<1>4. EngineOK /\ SelectionOK /\ ProviderOK
  BY <1>1 DEF Init, EngineOK, SelectionOK, ProviderOK
<1>5. HistoryOK
  <2>1. budget \in [{"crash", "fault", "evict"} -> Nat]
    BY PromptAssumption DEF Init
  <2>2. accepted \in Seq(Prompts) /\ IsInjective(accepted)
    BY EmptyHolds DEF Init
  <2> QED BY <2>1, <2>2 DEF Init, HistoryOK
<1>6. Kept /\ Engine /\ Session
  BY <1>1, <1>2 DEF Init, Kept, Engine, Session
<1> QED BY <1>3, <1>4, <1>5, <1>6 DEF Core, IInv, TypeOK

LEMMA CoreStep == Core /\ [Next]_vars => Core'
<1> SUFFICES ASSUME Core, [Next]_vars PROVE Core'
  OBVIOUS
<1>1. ASSUME NEW p \in Prompts, Client(p) PROVE Core'
  BY <1>1, SendAgainKeeps, SubmitKeeps, EnqueueKeeps, RemoveKeeps, SteerNativelyKeeps,
     SteerByRedirectKeeps DEF Client
<1>2. ASSUME NEW p \in Prompts, Answer(p) PROVE Core'
  BY <1>2, TurnStartedKeeps, TurnCompletedKeeps DEF Answer
<1>3. ASSUME NEW p \in Prompts,
             TurnRefused(p) \/ FailedUnstarted(p) \/ InterruptRefused(p) \/ Evict(p)
      PROVE  Core'
  BY <1>3, TurnRefusedKeeps, FailedUnstartedKeeps, InterruptRefusedKeeps, EvictKeeps
<1>4. ASSUME NEW g \in guiding, HandleSteerAccepted(g) \/ SteerRefused(g)
      PROVE  Core'
  BY <1>4, SteerAcceptedKeeps, SteerRefusedKeeps
<1>5. CASE \/ CancelTurn \/ HandleSessionCreated \/ CreateRefused \/ HandleSessionResumed
           \/ ResumeRefused \/ HandleSessionClosed \/ HandleDisconnected \/ HandleReady \/ Crash
           \/ OpenSession
  BY <1>5, CancelTurnKeeps, CreatedKeeps, CreateRefusedKeeps, ResumedKeeps, ResumeRefusedKeeps,
     ClosedKeeps, DisconnectedKeeps, ReadyKeeps, CrashKeeps, OpenKeeps
<1>6. CASE UNCHANGED vars
  <2>1. TypeOK'
    BY <1>6 DEF vars, durable, engine, selected, provider, history, taken, Core, IInv, TypeOK,
                LedgerOK, QueueOK, SavedOK, SelectionOK, EngineOK, ProviderOK, HistoryOK, WorkOK
  <2>2. Engine' /\ Session' /\ Kept'
    BY <1>6 DEF vars, durable, engine, selected, provider, history, taken, Core, IInv, Engine,
                Session, Kept, Waits, Rows, Took, Disk, Gone
  <2> QED BY <2>1, <2>2 DEF Core, IInv
<1> QED BY <1>1, <1>2, <1>3, <1>4, <1>5, <1>6 DEF Next

LEMMA CoreAlways == Spec => []Core
<1>1. Core /\ [Next]_vars => Core'
  BY CoreStep
<1> QED BY CoreInit, <1>1, PTL DEF Spec

\* The reducer's record of a session has its shape, whatever the number of prompts
\* and of faults.
THEOREM TypeCorrect == Spec => []TypeOK
<1>1. Core => TypeOK
  BY DEF Core, IInv
<1> QED BY <1>1, CoreAlways, PTL

\* No crash, fault or late answer loses a prompt that was accepted: it has a row
\* in the ledger or is in the saved queue, unless its owner removed it, a turn took
\* it as guidance, or the write of its promotion failed.
THEOREM AcceptedSurvivesAlways == Spec => []AcceptedSurvives
<1>1. Core => AcceptedSurvives
  <2> SUFFICES ASSUME Core, NEW p \in Took \ Gone
               PROVE  Contains(ledger, p) \/ Contains(saved.queue, p)
    BY DEF AcceptedSurvives, Took, Gone
  <2>1. p \in Rows \cup Disk
    BY DEF Core, Kept
  <2>2. ledger \in Seq(Prompts) /\ saved.queue \in Seq(Prompts)
    BY DEF Core, IInv, TypeOK, LedgerOK, SavedOK
  <2> QED BY <2>1, <2>2, ContainsIsMembership DEF Rows, Disk
<1> QED BY <1>1, CoreAlways, PTL

\* The reducer's work is the provider's turn and session, and a selection belongs
\* to the turn that runs and to a prompt that still waits.
THEOREM EngineTracksProviderAlways == Spec => []EngineTracksProvider
<1>1. Core => EngineTracksProvider
  <2> SUFFICES ASSUME Core PROVE EngineTracksProvider
    OBVIOUS
  <2>1. ASSUME NEW p \in Prompts
        PROVE  (Sent(p) <=> work = Work("starting", p)) /\ (Started(p) <=> Active(p))
    <3>1. Sent(p) => work = Work("starting", p)
      BY SentFacts
    <3>2. work = Work("starting", p) => Sent(p)
      BY DEF Sent, Core, IInv, Engine, Work
    <3>3. Started(p) => work = Work("active", p)
      BY StartedFacts
    <3>4. work = Work("active", p) => Started(p)
      BY DEF Started, Core, IInv, Engine, Work
    <3> QED BY <3>1, <3>2, <3>3, <3>4 DEF Active
  <2>2. work = Work(work.kind, work.prompt)
    BY WorkFacts DEF Core, IInv, TypeOK, EngineOK
  <2>3. steer # None => Active(steer.turn) /\ steer.prompt \in fence
    BY <2>2 DEF Core, IInv, Engine, Active
  <2>4. redirect # None => cancelling /\ Contains(queue, redirect)
    BY ContainsIsMembership DEF Core, IInv, TypeOK, QueueOK, Engine, Waits
  <2>5. moving # None => Sent(moving.prompt)
    BY DEF Core, IInv, Engine, Sent
  <2> QED BY <2>1, <2>3, <2>4, <2>5 DEF EngineTracksProvider, Core, IInv, Engine
<1> QED BY <1>1, CoreAlways, PTL

-----------------------------------------------------------------------------
(* Without repeated commands, every step preserves Once.                   *)

LEMMA QueueSaved == SaveQueue => Disk' = Waits' /\ saved'.fence = fence'
BY DEF SaveQueue, Disk, Waits

\* A step that starts nothing and holds nothing.
LEMMA CalmOnce ==
  ASSUME Core, Once, SaveQueue \/ UNCHANGED saved, redirect' \in {redirect, None},
         UNCHANGED <<ledger, pending, native, work, sess, queue, fence, blocked, shown, moving,
                     guided, returned>>
  PROVE  Once'
<1>1. Waits' = Waits /\ Rows' = Rows /\ Settled' = Settled
  BY DEF Waits, Rows, Settled
<1>2. \/ Disk' = Waits' /\ saved'.fence = fence'
      \/ Disk' = Disk /\ saved' = saved
  BY QueueSaved DEF Disk
<1>3. None \notin Guides /\ None \notin guided
  BY PromptAssumption DEF Once
<1> QED BY <1>1, <1>2, <1>3 DEF Once

LEMMA SubmitOnce ==
  ASSUME Core, Once, NEW p \in Prompts, SubmitPrompt(p)
  PROVE  Once'
<1>1. /\ work # Absent /\ ~HasActiveWork /\ p \notin guided
      /\ blocked = p \/ (blocked = None /\ p \notin Waits \cup shown)
      /\ Startable /\ BeginPrompt(p, sess) /\ shown' = shown \cup {p}
      /\ blocked' = None /\ SaveQueue
      /\ UNCHANGED <<queue, fence, sess, redirect, moving, guided, returned>>
  BY DEF SubmitPrompt, Offered, Live, selected, Recognised, Waits
<1>2. PICK b \in BOOLEAN : b = sess
  BY DEF Core, IInv, TypeOK, EngineOK
<1>3. work.kind = "idle" /\ work = Idle /\ work.prompt = None
  BY <1>1, WorkFacts DEF HasActiveWork, Core, IInv, TypeOK, EngineOK
<1>4. /\ Rows' = Rows \cup {p} /\ pending' = pending \cup ({p} \ Rows)
      /\ work'.prompt = p /\ work' # Idle /\ work' # Absent
      /\ b => /\ work' = Work("starting", p) /\ work'.kind = "starting" /\ native' = native
      /\ ~b => /\ work' = Work("creating", p) /\ work'.kind = "creating"
               /\ native' = "pending"
  BY <1>1, <1>2, BeginHolds DEF Core, IInv, TypeOK
<1>5. Waits' = Waits /\ Disk' = Waits /\ saved'.fence = fence
  BY <1>1, QueueSaved DEF Waits
<1>6. Settled' = Settled
  BY <1>4 DEF Settled, Rows
<1>7. Rows \subseteq shown
  BY <1>1, <1>3 DEF Once, Startable
<1>8. p \notin Waits \ returned /\ p \notin Settled \ returned
  <2>1. Settled \subseteq Rows
    BY DEF Settled, Rows
  <2>2. CASE blocked = p
    BY <2>2 DEF Once
  <2>3. CASE p \notin Waits \cup shown
    BY <1>7, <2>1, <2>3
  <2> QED BY <1>1, <2>2, <2>3
<1>9. native' = "pending" => native # "real"
  BY <1>1, <1>2, <1>4 DEF Startable, Core, IInv, Session
<1>10. ASSUME native' = "pending"
       PROVE  Rows' = {p} /\ work' = Work("creating", p)
  <2>1. native \in {"none", "pending"} /\ ~b
    BY <1>2, <1>4, <1>9, <1>10 DEF Core, IInv, TypeOK, LedgerOK, Session
  <2>2. CASE native = "none"
    BY <1>4, <2>1, <2>2 DEF Core, IInv, Session
  <2>3. CASE native = "pending"
    <3>1. PICK q \in Prompts :
            /\ Rows = {q}
            /\ work = Absent \/ work = Work("creating", q) \/ (work = Idle /\ blocked = q)
      BY <2>3 DEF Once
    <3>2. blocked = q
      BY <1>3, <3>1 DEF Idle, Absent, Work
    <3>3. q = p
      BY <1>1, <3>2, PromptAssumption
    <3> QED BY <1>4, <2>1, <3>1, <3>3
  <2> QED BY <2>1, <2>2, <2>3
<1>11. native' # "real" => native # "real"
  BY <1>2, <1>4, <1>9
<1>12. None \notin guided \cup Settled \cup Waits
  BY PromptAssumption DEF Once, Settled, Waits, ToSet, Core, IInv, TypeOK, LedgerOK, QueueOK
<1>13. /\ (Waits' \cup Disk') \cap Rows' \subseteq returned'
       /\ {work'.prompt, blocked'} \cap Waits' \subseteq returned'
  BY <1>1, <1>4, <1>5, <1>8, <1>12 DEF Once
<1>14. /\ work'.prompt \notin Settled' \ returned'
       /\ blocked' # work'.prompt /\ blocked' \notin Settled'
       /\ work'.kind # "resuming" /\ (native' # "real" => Settled' = {})
  BY <1>1, <1>4, <1>6, <1>8, <1>11, <1>12, PromptAssumption DEF Once
<1>15. Rows' \subseteq shown'
  BY <1>1, <1>4, <1>7
<1>16. /\ guided' \subseteq Guides /\ (returned' \cup {redirect'}) \cap Guides = {}
       /\ moving' # None => moving'.prompt \notin Guides
       /\ guided' \cap Rows' = {} /\ guided' \cap Waits' \subseteq fence'
       /\ guided' \cap Disk' \subseteq saved'.fence
       /\ {work'.prompt, blocked', redirect'} \cap guided' = {}
  BY <1>1, <1>4, <1>5, <1>12 DEF Once
<1> QED BY <1>10, <1>13, <1>14, <1>15, <1>16 DEF Once

LEMMA EnqueueOnce ==
  ASSUME ~Resends, Core, Once, NEW p \in Prompts, EnqueuePrompt(p)
  PROVE  Once'
<1>1. /\ work # Absent /\ p \notin guided /\ blocked # p /\ p \notin Waits \cup shown
      /\ work.prompt # p /\ IsBusy /\ SaveQueue /\ queue' = Append(queue, p)
      /\ Contains(accepted, p) => work.kind # "resuming"
      /\ UNCHANGED <<ledger, pending, native, work, sess, fence, blocked, shown, redirect, moving,
                     guided, returned>>
  BY DEF EnqueuePrompt, Offered, Live, Recognised, Waits, selected
<1>2. Waits' = Waits \cup {p} /\ Rows' = Rows /\ Settled' = Settled
  BY <1>1, AppendHolds DEF Core, IInv, TypeOK, QueueOK, Waits, Rows, Settled
<1>3. Disk' = Waits' /\ saved'.fence = fence
  BY <1>1, QueueSaved
<1>4. p \notin Rows
  <2>1. CASE work.kind = "resuming"
    <3>1. p \notin Took
      BY <1>1, <2>1, ContainsIsMembership DEF Took, Core, IInv, TypeOK, HistoryOK
    <3> QED BY <3>1 DEF Core, Kept
  <2>2. CASE work.kind # "resuming"
    <3>1. (work.kind \notin {"absent", "resuming"} /\ work # Idle) \/ blocked # None
      BY <1>1, <2>2, WorkFacts DEF IsBusy, HasActiveWork, Core, IInv, TypeOK, EngineOK, Idle, Work
    <3>2. work.kind # "absent"
      BY <1>1, WorkFacts DEF Core, IInv, TypeOK, EngineOK
    <3> QED BY <1>1, <2>2, <3>1, <3>2 DEF Once
  <2> QED BY <2>1, <2>2
<1> QED BY <1>1, <1>2, <1>3, <1>4 DEF Once

LEMMA RemoveOnce ==
  ASSUME Core, Once, NEW p \in Prompts, RemoveQueuedPrompt(p)
  PROVE  Once'
<1> DEFINE q == Without(queue, p)
<1>1. /\ p \in Waits /\ fence' = fence \ {p} /\ SaveQueue
      /\ UNCHANGED <<sess, blocked, redirect, moving, guided, returned>>
  BY DEF RemoveQueuedPrompt, Waits, selected
<1>2. \/ /\ ~IsBusy /\ HeadReady(q, fence') /\ Startable /\ BeginPrompt(Head(q), sess)
         /\ queue' = Tail(q) /\ shown' = shown \cup {Head(q)}
      \/ queue' = q /\ UNCHANGED <<ledger, pending, native, work, shown>>
  BY DEF RemoveQueuedPrompt
<1>3. q \in Seq(Prompts) /\ IsInjective(q) /\ ToSet(q) = Waits \ {p}
  BY WithoutHolds DEF Core, IInv, TypeOK, QueueOK, Waits
<1>4. work # Absent
  BY <1>1, EmptyHolds DEF Core, IInv, Session, Waits
<1>5. Disk' = Waits' /\ saved'.fence = fence'
  BY <1>1, QueueSaved
<1> HIDE DEF q
<1>6. CASE /\ ~IsBusy /\ HeadReady(q, fence') /\ Startable /\ BeginPrompt(Head(q), sess)
           /\ queue' = Tail(q) /\ shown' = shown \cup {Head(q)}
  <2>1. /\ Head(q) \in Prompts /\ ToSet(q) = {Head(q)} \cup ToSet(Tail(q))
        /\ Head(q) \notin ToSet(Tail(q)) /\ Head(q) \notin fence'
    BY <1>3, <1>6, TailHolds DEF HeadReady
  <2>2. PICK h \in Prompts : h = Head(q)
    BY <2>1
  <2>3. /\ h \in Waits \ fence /\ Waits' \subseteq Waits /\ h \notin Waits' /\ p \notin Waits'
    BY <1>1, <1>3, <1>6, <2>1, <2>2 DEF Waits
  <2>4. PICK b \in BOOLEAN : b = sess
    BY DEF Core, IInv, TypeOK, EngineOK
  <2>5. /\ Rows' = Rows \cup {h} /\ pending' = pending \cup ({h} \ Rows)
        /\ work'.prompt = h /\ work' # Idle /\ work' # Absent
        /\ b => /\ work' = Work("starting", h) /\ work'.kind = "starting" /\ native' = native
        /\ ~b => /\ work' = Work("creating", h) /\ work'.kind = "creating"
                 /\ native' = "pending"
    BY <1>6, <2>2, <2>4, BeginHolds DEF Core, IInv, TypeOK
  <2>6. work.kind = "idle" /\ work = Idle /\ blocked = None
    BY <1>4, <1>6, WorkFacts DEF IsBusy, HasActiveWork, Core, IInv, TypeOK, EngineOK
  <2>7. Settled' = Settled /\ Settled \subseteq Rows
    BY <2>5 DEF Settled, Rows
  <2>8. Rows \subseteq shown
    BY <1>6, <2>6 DEF Once, Startable
  <2>9. h \notin guided /\ h \notin Settled \ returned
    BY <2>3, <2>7 DEF Once
  <2>10. native' # "real" => native = "none"
    <3>1. native # "pending"
      BY <2>6, PromptAssumption DEF Once, Idle, Absent, Work
    <3> QED BY <1>6, <2>4, <2>5, <3>1 DEF Startable, Core, IInv, Session, TypeOK, LedgerOK
  <2>11. native' = "pending" => Rows' = {h} /\ work' = Work("creating", h)
    BY <2>4, <2>5, <2>10 DEF Core, IInv, Session
  <2>12. None \notin Prompts
    BY PromptAssumption
  <2> QED BY <1>1, <1>5, <1>6, <2>2, <2>3, <2>4, <2>5, <2>6, <2>7, <2>8, <2>9, <2>10, <2>11,
             <2>12 DEF Once
<1>7. CASE queue' = q /\ UNCHANGED <<ledger, pending, native, work, shown>>
  <2>1. Waits' = Waits \ {p} /\ Rows' = Rows /\ Settled' = Settled
    BY <1>3, <1>7 DEF Waits, Rows, Settled
  <2> QED BY <1>1, <1>5, <1>7, <2>1 DEF Once
<1> QED BY <1>2, <1>6, <1>7

LEMMA SteerNativelyOnce ==
  ASSUME Core, Once, NEW p \in Prompts, SteerNatively(p)
  PROVE  Once'
<1>1. /\ p \in Waits \ fence /\ p \in Guides /\ redirect = None
      /\ fence' = fence \cup {p} /\ guided' = guided \cup {p} /\ SaveQueue
      /\ UNCHANGED <<queue, ledger, pending, native, work, sess, blocked, shown, redirect, moving,
                     returned>>
  BY DEF SteerNatively, Steerable, Waits
<1>2. Waits' = Waits /\ Rows' = Rows /\ Settled' = Settled
  BY <1>1 DEF Waits, Rows, Settled
<1>3. Disk' = Waits' /\ saved'.fence = fence'
  BY <1>1, QueueSaved
<1>4. p \notin returned /\ p \notin Rows /\ p \notin {work.prompt, blocked}
  BY <1>1 DEF Once
<1>5. p # redirect
  BY <1>1, PromptAssumption
<1> QED BY <1>1, <1>2, <1>3, <1>4, <1>5 DEF Once

LEMMA SteerByRedirectOnce ==
  ASSUME Core, Once, NEW p \in Prompts, SteerByRedirect(p)
  PROVE  Once'
<1>1. /\ p \notin Guides /\ redirect' = p /\ SaveQueue
      /\ UNCHANGED <<queue, fence, ledger, pending, native, work, sess, blocked, shown, moving,
                     guided, returned>>
  BY DEF SteerByRedirect, history
<1>2. Waits' = Waits /\ Rows' = Rows /\ Settled' = Settled
  BY <1>1 DEF Waits, Rows, Settled
<1>3. Disk' = Waits' /\ saved'.fence = fence'
  BY <1>1, QueueSaved
<1> QED BY <1>1, <1>2, <1>3 DEF Once

LEMMA CreatedOnce ==
  ASSUME Core, Once, HandleSessionCreated \/ CreateRefused
  PROVE  Once'
<1>1. /\ asked = "create" /\ SaveQueue
      /\ UNCHANGED <<queue, fence, ledger, pending, shown, redirect, moving, guided, returned>>
      /\ \/ /\ sess' = TRUE /\ native' = "real" /\ work' = Work("starting", work.prompt)
            /\ blocked' = blocked
         \/ work' = Idle /\ blocked' = work.prompt /\ UNCHANGED <<sess, native>>
  BY DEF HandleSessionCreated, CreateRefused, selected, history
<1>2. PICK p \in Prompts : p = work.prompt
  BY <1>1, WorkFacts DEF Core, IInv, TypeOK, EngineOK, Engine
<1>3. /\ work.kind = "creating" /\ work # Idle /\ work # Absent /\ native = "pending"
  BY <1>1, WorkFacts DEF Core, IInv, Engine, Session, Idle, Absent, Work
<1>4. Waits' = Waits /\ Rows' = Rows /\ Settled' = Settled
  BY <1>1 DEF Waits, Rows, Settled
<1>5. Disk' = Waits' /\ saved'.fence = fence'
  BY <1>1, QueueSaved
<1>6. Rows \subseteq shown
  BY <1>3 DEF Once
<1>7. CASE /\ sess' = TRUE /\ native' = "real" /\ work' = Work("starting", p)
           /\ blocked' = blocked
  <2>1. work'.kind = "starting" /\ work'.prompt = p
    BY <1>7, BeginWork
  <2> QED BY <1>1, <1>2, <1>3, <1>4, <1>5, <1>6, <1>7, <2>1 DEF Once
<1>8. CASE work' = Idle /\ blocked' = p /\ UNCHANGED <<sess, native>>
  <2>1. work'.kind = "idle" /\ work'.prompt = None
    BY <1>8, IdleWork
  <2>2. PICK q \in Prompts : Rows = {q} /\ work = Work("creating", q)
    BY <1>3 DEF Once
  <2>3. q = p
    BY <1>2, <2>2 DEF Work
  <2>4. None \notin guided \cup Waits
    BY PromptAssumption DEF Once, Waits, ToSet, Core, IInv, TypeOK, QueueOK
  <2> QED BY <1>1, <1>2, <1>3, <1>4, <1>5, <1>6, <1>8, <2>1, <2>2, <2>3, <2>4 DEF Once
<1> QED BY <1>1, <1>2, <1>7, <1>8

LEMMA ResumedOnce ==
  ASSUME Core, Once, HandleSessionResumed
  PROVE  Once'
<1>1. /\ asked = "resume" /\ sess' = TRUE
      /\ UNCHANGED <<fence, native, redirect, moving, guided, returned, accepted, removed, absorbed,
                     mistaken>>
  BY DEF HandleSessionResumed, selected, taken
<1>2. work.kind = "resuming" /\ work # Absent /\ native = "real" /\ blocked = None
  BY <1>1, WorkFacts DEF Core, IInv, TypeOK, EngineOK, Engine, Session, Once
<1>3. pending \subseteq Rows /\ Settled = Rows \ pending /\ Rows \subseteq Prompts
      /\ Rows \subseteq Took
  BY DEF Core, IInv, TypeOK, LedgerOK, Rows, Settled, ToSet, Kept
<1>4. None \notin guided \cup Waits \cup Rows
  BY <1>3, PromptAssumption DEF Once, Waits, ToSet, Core, IInv, TypeOK, QueueOK
<1>5. CASE /\ HeadReady(queue, fence) /\ Promote(Head(queue), Tail(queue))
           /\ shown' = ToSet(ledger) \cup {Head(queue)}
  <2>1. Head(queue) \in Waits
    BY <1>5, TailHolds DEF HeadReady, Waits, Core, IInv, TypeOK, QueueOK
  <2>2. shown' \subseteq Took
    BY <1>3, <1>5, <2>1 DEF Core, Kept, Rows
  <2>3. PICK h \in Waits \ fence :
          /\ h \in Prompts /\ h = Head(queue) /\ Waits' = Waits \ {h}
          /\ \/ /\ work' = Work("starting", h)
                /\ work'.kind = "starting" /\ work'.prompt = h /\ turn' = Turn(h, "sent")
                /\ blocked' = blocked /\ fenced' = fenced
                /\ Rows' = Rows \cup {h} /\ pending' = pending \cup ({h} \ Rows)
                /\ Disk' = Waits' /\ saved'.fence = fence
             \/ /\ work' = Idle /\ work'.kind = "idle" /\ work'.prompt = None /\ turn' = None
                /\ blocked' = h /\ fenced' = fenced \cup {h}
                /\ UNCHANGED <<ledger, pending, saved>> /\ Rows' = Rows /\ Disk' = Disk
    BY <1>1, <1>2, <1>5, <2>2, PromoteHolds
  <2>4. Settled' = Settled /\ Rows' \subseteq shown'
    BY <1>5, <2>3 DEF Settled, Rows
  <2>5. h \notin guided /\ h \notin Rows \ returned
    BY <2>3 DEF Once
  <2> QED BY <1>1, <1>2, <1>3, <1>4, <2>3, <2>4, <2>5 DEF Once
<1>6. CASE /\ work' = Idle /\ shown' = ToSet(ledger) /\ UNCHANGED <<queue, turn, parked>> /\ Stay
  <2>1. work'.kind = "idle" /\ work'.prompt = None
    BY <1>6, IdleWork
  <2>2. UNCHANGED <<ledger, pending, blocked>> /\ SaveQueue
    BY <1>6 DEF Stay
  <2>3. Disk' = Waits' /\ saved'.fence = fence'
    BY <2>2, QueueSaved
  <2>4. Waits' = Waits /\ Rows' = Rows /\ Settled' = Settled /\ shown' = Rows
    BY <1>6, <2>2 DEF Waits, Rows, Settled
  <2> QED BY <1>1, <1>2, <1>3, <1>4, <2>1, <2>2, <2>3, <2>4 DEF Once
<1>7. ASSUME NEW first \in pending, NEW last \in pending,
             shown' = ToSet(ledger) /\ UNCHANGED queue /\ SaveQueue,
             IF fence # {}
             THEN /\ work' = Idle /\ blocked' = last
                  /\ UNCHANGED <<ledger, pending, native, turn, parked>>
             ELSE /\ BeginPrompt(first, TRUE)
                  /\ blocked' = IF first # last THEN last ELSE blocked
      PROVE  Once'
  <2>1. /\ first \in Prompts /\ last \in Prompts /\ first \in Rows /\ last \in Rows
        /\ first \notin Settled /\ last \notin Settled
        /\ first \notin guided /\ last \notin guided
    BY <1>3 DEF Once
  <2>2. Disk' = Waits' /\ saved'.fence = fence' /\ Waits' = Waits
    BY <1>7, QueueSaved DEF Waits
  <2>3. CASE /\ work' = Idle /\ blocked' = last
             /\ UNCHANGED <<ledger, pending, native, turn, parked>>
    <3>1. work'.kind = "idle" /\ work'.prompt = None
      BY <2>3, IdleWork
    <3>2. Rows' = Rows /\ Settled' = Settled /\ shown' = Rows
      BY <1>7, <2>3 DEF Rows, Settled
    <3> QED BY <1>1, <1>2, <1>4, <2>1, <2>2, <2>3, <3>1, <3>2 DEF Once
  <2>4. CASE BeginPrompt(first, TRUE) /\ blocked' = IF first # last THEN last ELSE blocked
    <3>1. /\ Rows' = Rows \cup {first} /\ pending' = pending \cup ({first} \ Rows)
          /\ work'.prompt = first /\ work'.kind = "starting"
      BY <2>1, <2>4, BeginHolds DEF Core, IInv, TypeOK
    <3>2. Rows' = Rows /\ Settled' = Settled /\ shown' = Rows
      BY <1>7, <2>1, <3>1 DEF Rows, Settled
    <3>3. (blocked' = last /\ first # last) \/ blocked' = None
      BY <1>2, <2>4
    <3>4. first # None
      BY <1>4, <2>1
    <3> QED BY <1>1, <1>2, <1>4, <2>1, <2>2, <3>1, <3>2, <3>3, <3>4 DEF Once
  <2> QED BY <1>7, <2>3, <2>4
<1> QED BY <1>5, <1>6, <1>7 DEF HandleSessionResumed, Replays

LEMMA ResumeRefusedOnce ==
  ASSUME Core, Once, ResumeRefused
  PROVE  Once'
<1>1. /\ asked = "resume" /\ SaveQueue /\ work' = Idle
      /\ UNCHANGED <<queue, fence, ledger, pending, native, sess, blocked, shown, redirect, moving,
                     guided, returned>>
  BY DEF ResumeRefused, selected, taken
<1>2. work.kind = "resuming" /\ native = "real" /\ blocked = None /\ ~sess /\ moving = None
  BY <1>1 DEF Core, IInv, Engine, Session, Once
<1>3. work'.kind = "idle" /\ work'.prompt = None
  BY <1>1, IdleWork
<1>4. Waits' = Waits /\ Rows' = Rows /\ Settled' = Settled
  BY <1>1 DEF Waits, Rows, Settled
<1>5. Disk' = Waits' /\ saved'.fence = fence'
  BY <1>1, QueueSaved
<1>6. None \notin guided \cup Waits
  BY PromptAssumption DEF Once, Waits, ToSet, Core, IInv, TypeOK, QueueOK
<1> QED BY <1>1, <1>2, <1>3, <1>4, <1>5, <1>6 DEF Once

LEMMA TurnStartedOnce ==
  ASSUME Core, Once, NEW p \in Prompts, TurnStarted(p)
  PROVE  Once'
<1>1. /\ Sent(p) /\ work' = Work("active", p) /\ moving' = None /\ SaveQueue
      /\ \/ pending' = pending \ {p} /\ blocked' = blocked
         \/ pending' = pending /\ blocked' \in {blocked, p}
      /\ UNCHANGED <<queue, fence, ledger, native, sess, shown, redirect, guided, returned>>
  BY DEF TurnStarted, history
<1>2. work.kind = "starting" /\ work.prompt = p /\ native = "real" /\ work # Idle
  BY <1>1, SentFacts DEF Idle, Work
<1>3. work'.kind = "active" /\ work'.prompt = p
  BY <1>1, BeginWork
<1>4. Waits' = Waits /\ Rows' = Rows
  BY <1>1 DEF Waits, Rows
<1>5. Settled' \subseteq Settled \cup {p} /\ (pending' = pending => Settled' = Settled)
  BY <1>1 DEF Settled
<1>6. Disk' = Waits' /\ saved'.fence = fence'
  BY <1>1, QueueSaved
<1> QED BY <1>1, <1>2, <1>3, <1>4, <1>5, <1>6 DEF Once

\* A turn that never started, and a session or provider that is lost.
LEMMA DroppedOnce ==
  ASSUME Core, Once, fence' = fence, SaveQueue, moving' = None,
         UNCHANGED <<ledger, pending, native, shown, guided>>,
         redirect' \in {redirect, None}, sess' \in {sess, FALSE},
         \/ /\ work.kind \in {"creating", "starting"} /\ work' = Idle
            /\ \/ GiveUpStart(work.prompt)
               \/ blocked' = work.prompt /\ UNCHANGED <<queue, returned>>
         \/ /\ work.kind \notin {"creating", "starting"} /\ UNCHANGED <<queue, blocked, returned>>
            /\ work' = IF work.kind = "resuming" THEN work ELSE Idle,
         work # Absent, native # "real" => sess' = sess
  PROVE  Once'
<1>1. Rows' = Rows /\ Settled' = Settled
  BY DEF Rows, Settled
<1>2. Disk' = Waits' /\ saved'.fence = fence'
  BY QueueSaved
<1>3. None \notin guided \cup Waits \cup Guides
  BY PromptAssumption DEF Once, Waits, ToSet, Core, IInv, TypeOK, QueueOK
<1>4. CASE /\ work.kind \in {"creating", "starting"} /\ work' = Idle
           /\ \/ GiveUpStart(work.prompt)
              \/ blocked' = work.prompt /\ UNCHANGED <<queue, returned>>
  <2>1. PICK p \in Prompts : p = work.prompt
    BY <1>4, WorkFacts DEF Core, IInv, TypeOK, EngineOK
  <2>2. \/ /\ Waits' = Waits \cup {p} /\ blocked' = blocked /\ returned' = returned \cup {p}
           /\ moving # None
        \/ Waits' = Waits /\ blocked' = p /\ returned' = returned
    <3>1. CASE GiveUpStart(p)
      BY <1>4, <2>1, <3>1, GiveUpHolds
    <3>2. CASE blocked' = p /\ UNCHANGED <<queue, returned>>
      BY <3>2 DEF Waits
    <3> QED BY <1>4, <2>1, <3>1, <3>2
  <2>3. work'.kind = "idle" /\ work'.prompt = None /\ work # Idle
    BY <1>4, IdleWork DEF Idle, Work
  <2>4. Rows \subseteq shown
    BY <1>4, <2>3 DEF Once
  <2>5. moving # None => p \notin Guides /\ native = "real"
    <3> SUFFICES ASSUME moving # None PROVE p \notin Guides /\ native = "real"
      OBVIOUS
    <3>1. Sent(p) /\ moving.prompt = p
      BY <2>1 DEF Core, IInv, Engine, Sent
    <3> QED BY <3>1, SentFacts DEF Once
  <2>6. p \notin guided
    BY <2>1 DEF Once
  <2>7. native = "pending" => Rows = {p}
    <3> SUFFICES ASSUME native = "pending" PROVE Rows = {p}
      OBVIOUS
    <3>1. PICK q \in Prompts : Rows = {q} /\ work = Work("creating", q)
      BY <1>4, <2>3 DEF Once
    <3> QED BY <2>1, <3>1 DEF Work
  <2> QED BY <1>1, <1>2, <1>3, <1>4, <2>1, <2>2, <2>3, <2>4, <2>5, <2>6, <2>7 DEF Once
<1>5. CASE /\ work.kind \notin {"creating", "starting"} /\ UNCHANGED <<queue, blocked, returned>>
           /\ work' = IF work.kind = "resuming" THEN work ELSE Idle
  <2>1. Waits' = Waits
    BY <1>5 DEF Waits
  <2>2. CASE work.kind = "resuming"
    BY <1>1, <1>2, <1>3, <1>5, <2>1, <2>2 DEF Once
  <2>3. CASE work.kind # "resuming"
    <3>1. work'.kind = "idle" /\ work'.prompt = None /\ work' = Idle
      BY <1>5, <2>3, IdleWork
    <3>2. work.kind \in {"idle", "active"} /\ (work.kind = "idle" => work = Idle)
      BY <1>5, <2>3, WorkFacts DEF Core, IInv, TypeOK, EngineOK
    <3>3. work.kind = "active" => work # Idle
      BY DEF Idle, Work
    <3>4. /\ work'.kind \notin {"absent", "resuming"}
          /\ work' # Idle \/ blocked' # None \/ sess' \/ native' # "real"
          => Rows' \subseteq shown'
      BY <1>1, <1>5, <3>1, <3>2, <3>3 DEF Once
    <3>5. ASSUME native' = "pending"
          PROVE  \E p \in Prompts : Rows' = {p} /\ work' = Idle /\ blocked' = p
      <4>1. PICK p \in Prompts :
              /\ Rows = {p}
              /\ work = Absent \/ work = Work("creating", p) \/ (work = Idle /\ blocked = p)
        BY <3>5 DEF Once
      <4>2. blocked = p
        BY <1>5, <4>1 DEF Work
      <4> QED BY <1>1, <1>5, <3>1, <4>1, <4>2
    <3> QED BY <1>1, <1>2, <1>3, <1>5, <2>1, <3>1, <3>4, <3>5 DEF Once
  <2> QED BY <2>2, <2>3
<1> QED BY <1>4, <1>5

LEMMA TurnCompletedOnce ==
  ASSUME Core, Once, NEW p \in Prompts, NEW outcome, TurnCompleted(p, outcome)
  PROVE  Once'
<1>1. /\ Started(p) /\ redirect' = None
      /\ UNCHANGED <<fence, native, sess, guided, returned, accepted, removed, absorbed, mistaken>>
      /\ \/ redirect # None /\ BeginPendingRedirect
         \/ /\ Drains(outcome)
            /\ Promote(Head(queue), Tail(queue)) /\ shown' = shown \cup {Head(queue)}
            /\ UNCHANGED moving
         \/ work' = Idle /\ UNCHANGED <<queue, moving, shown>> /\ Stay
  BY DEF TurnCompleted, EndTurn, taken
<1>2. /\ work.kind = "active" /\ work # Absent /\ moving = None /\ native = "real"
      /\ Rows \subseteq shown
  BY <1>1, StartedFacts DEF Once, Idle, Work
<1>3. None \notin guided \cup Waits \cup Guides
  BY PromptAssumption DEF Once, Waits, ToSet, Core, IInv, TypeOK, QueueOK
<1>4. Settled = Rows \ pending
  BY DEF Settled, Rows
<1>5. CASE redirect # None /\ BeginPendingRedirect
  <2>1. PICK r \in Prompts : r = redirect
    BY <1>5 DEF Core, IInv, TypeOK, SelectionOK
  <2>2. /\ r \in Waits \ fence
        /\ Waits' = Waits \ {r} /\ shown' = shown \cup {r} /\ blocked' = blocked
    BY <1>1, <1>2, <1>5, <2>1, RedirectHolds
  <2>3. \/ /\ work'.kind = "starting" /\ work'.prompt = r /\ moving'.prompt = r
           /\ Rows' = Rows \cup {r} /\ pending' = pending \cup ({r} \ Rows)
           /\ Disk' = Waits' /\ saved'.fence = fence
        \/ /\ work' = Idle /\ work'.kind = "idle" /\ work'.prompt = None /\ moving' = None
           /\ UNCHANGED <<ledger, pending, saved>> /\ Rows' = Rows /\ Disk' = Disk
    BY <1>1, <1>2, <1>5, <2>1, RedirectHolds
  <2>4. Settled' = Settled /\ Rows' \subseteq shown'
    BY <1>2, <2>2, <2>3 DEF Settled, Rows
  <2>5. r \notin guided \cup Guides /\ r \notin Rows \ returned
    BY <2>1, <2>2 DEF Once
  <2> QED BY <1>1, <1>2, <1>3, <1>4, <2>2, <2>3, <2>4, <2>5 DEF Once
<1>6. CASE /\ Drains(outcome)
           /\ Promote(Head(queue), Tail(queue)) /\ shown' = shown \cup {Head(queue)}
           /\ UNCHANGED moving
  <2>1. HeadReady(queue, fence) /\ blocked = None
    BY <1>6 DEF Drains
  <2>2. Head(queue) \in Waits
    BY <2>1, TailHolds DEF HeadReady, Waits, Core, IInv, TypeOK, QueueOK
  <2>3. shown' \subseteq Took
    BY <1>6, <2>2 DEF Core, Kept
  <2>4. PICK h \in Waits \ fence :
          /\ h \in Prompts /\ h = Head(queue) /\ Waits' = Waits \ {h}
          /\ \/ /\ work' = Work("starting", h)
                /\ work'.kind = "starting" /\ work'.prompt = h /\ turn' = Turn(h, "sent")
                /\ blocked' = blocked /\ fenced' = fenced
                /\ Rows' = Rows \cup {h} /\ pending' = pending \cup ({h} \ Rows)
                /\ Disk' = Waits' /\ saved'.fence = fence
             \/ /\ work' = Idle /\ work'.kind = "idle" /\ work'.prompt = None /\ turn' = None
                /\ blocked' = h /\ fenced' = fenced \cup {h}
                /\ UNCHANGED <<ledger, pending, saved>> /\ Rows' = Rows /\ Disk' = Disk
    BY <1>1, <1>2, <1>6, <2>1, <2>3, PromoteHolds
  <2>5. Settled' = Settled /\ Rows' \subseteq shown'
    BY <1>2, <1>6, <2>4 DEF Settled, Rows
  <2>6. h \notin guided /\ h \notin Rows \ returned
    BY <2>4 DEF Once
  <2> QED BY <1>1, <1>2, <1>3, <1>4, <1>6, <2>1, <2>4, <2>5, <2>6 DEF Once
<1>7. CASE work' = Idle /\ UNCHANGED <<queue, moving, shown>> /\ Stay
  <2>1. work'.kind = "idle" /\ work'.prompt = None
    BY <1>7, IdleWork
  <2>2. UNCHANGED <<ledger, pending, blocked>> /\ SaveQueue
    BY <1>7 DEF Stay
  <2>3. Disk' = Waits' /\ saved'.fence = fence'
    BY <2>2, QueueSaved
  <2>4. Waits' = Waits /\ Rows' = Rows /\ Settled' = Settled
    BY <1>7, <2>2 DEF Waits, Rows, Settled
  <2> QED BY <1>1, <1>2, <1>3, <1>7, <2>1, <2>2, <2>3, <2>4 DEF Once
<1> QED BY <1>1, <1>5, <1>6, <1>7

LEMMA SteerAcceptedOnce ==
  ASSUME Core, Once, NEW g \in guiding, HandleSteerAccepted(g)
  PROVE  Once'
<1>1. UNCHANGED <<ledger, pending, native, work, sess, blocked, shown, redirect, moving, guided,
                  returned>>
  BY DEF HandleSteerAccepted
<1>2. CASE /\ queue' = Without(queue, steer.prompt) /\ fence' = fence \ {steer.prompt}
           /\ SaveQueue \/ UNCHANGED saved
  <2>1. Waits' = Waits \ {steer.prompt}
    BY <1>2, WithoutHolds DEF Core, IInv, TypeOK, QueueOK, Waits
  <2>2. Rows' = Rows /\ Settled' = Settled
    BY <1>1 DEF Rows, Settled
  <2>3. \/ Disk' = Waits' /\ saved'.fence = fence'
        \/ Disk' = Disk /\ saved' = saved
    BY <1>2, QueueSaved DEF Disk
  <2> QED BY <1>1, <1>2, <2>1, <2>2, <2>3 DEF Once
<1>3. CASE UNCHANGED <<queue, fence>> /\ SaveQueue
  BY <1>1, <1>3, CalmOnce
<1> QED BY <1>2, <1>3 DEF HandleSteerAccepted

LEMMA CrashOnce ==
  ASSUME Core, Once, Crash
  PROVE  Once'
<1>1. /\ work' = Absent /\ queue' = <<>> /\ blocked' = None /\ redirect' = None /\ moving' = None
      /\ UNCHANGED <<ledger, pending, saved, native, guided, returned>>
  BY DEF Crash, durable, history
<1>2. work'.kind = "absent" /\ work'.prompt = None /\ Waits' = {}
  BY <1>1, EmptyHolds DEF Absent, Work, Waits
<1>3. Rows' = Rows /\ Disk' = Disk /\ Settled' = Settled /\ Settled \subseteq Rows
  BY <1>1 DEF Rows, Disk, Settled
<1>4. None \notin guided \cup Guides \cup Rows
  BY PromptAssumption DEF Once, Rows, ToSet, Core, IInv, TypeOK, LedgerOK
<1> QED BY <1>1, <1>2, <1>3, <1>4 DEF Once

LEMMA OpenOnce ==
  ASSUME Core, Once, OpenSession
  PROVE  Once'
<1>1. /\ work = Absent /\ queue' = saved.queue /\ fence' = saved.fence
      /\ UNCHANGED <<ledger, pending, saved, native, sess, blocked, redirect, moving, guided,
                     returned>>
  BY DEF OpenSession, Live, durable, selected
<1>2. \/ native = "none" /\ work' = Idle /\ shown' = shown
      \/ native = "real" /\ work' = Work("resuming", None)
      \/ /\ native = "pending"
         /\ \E p \in ToSet(ledger) : work' = Work("creating", p) /\ shown' = {p}
  BY DEF OpenSession, Core, IInv, TypeOK, LedgerOK
<1>3. blocked = None /\ moving = None
  BY <1>1 DEF Core, IInv, Session, Engine, Absent, Work
<1>4. Waits' = Disk /\ Disk' = Disk /\ Rows' = Rows /\ Settled' = Settled /\ Settled \subseteq Rows
  BY <1>1 DEF Waits, Disk, Rows, Settled
<1>5. None \notin guided \cup Guides \cup Rows \cup Disk
  BY PromptAssumption
     DEF Once, Rows, Disk, ToSet, Core, IInv, TypeOK, LedgerOK, SavedOK
<1>6. CASE native = "none" /\ work' = Idle /\ shown' = shown
  <2>1. work'.kind = "idle" /\ work'.prompt = None
    BY <1>6, IdleWork
  <2>2. Rows = {}
    BY <1>6 DEF Core, IInv, Session
  <2> QED BY <1>1, <1>3, <1>4, <1>5, <1>6, <2>1, <2>2 DEF Once
<1>7. CASE native = "real" /\ work' = Work("resuming", None)
  <2>1. work'.kind = "resuming" /\ work'.prompt = None
    BY <1>7 DEF Work
  <2> QED BY <1>1, <1>3, <1>4, <1>5, <1>7, <2>1 DEF Once
<1>8. ASSUME native = "pending", NEW p \in ToSet(ledger), work' = Work("creating", p), shown' = {p}
      PROVE  Once'
  <2>1. p \in Rows /\ p \in Prompts /\ work'.kind = "creating" /\ work'.prompt = p
    BY <1>8 DEF Rows, Work, ToSet, Core, IInv, TypeOK, LedgerOK
  <2>2. Rows = {p} /\ Settled = {}
    BY <1>8, <2>1 DEF Once
  <2> QED BY <1>1, <1>3, <1>4, <1>5, <1>8, <2>1, <2>2 DEF Once
<1> QED BY <1>2, <1>6, <1>7, <1>8

LEMMA OnceInit == Init => Once
<1> SUFFICES ASSUME Init PROVE Once
  OBVIOUS
<1>1. work.kind = "idle" /\ work.prompt = None
  BY DEF Init, Idle, Work
<1>2. Rows = {} /\ Waits = {} /\ Disk = {} /\ Settled = {}
  BY EmptyHolds DEF Init, Rows, Waits, Disk, Settled
<1> QED BY <1>1, <1>2, PromptAssumption DEF Init, Once

LEMMA OnceStep ==
  ASSUME ~Resends, Core, Once, [Next]_vars
  PROVE  Once'
<1>1. ASSUME NEW p \in Prompts, Client(p) PROVE Once'
  <2>1. ASSUME SendAgain(p) PROVE Once'
    BY <2>1, CalmOnce DEF SendAgain, selected
  <2> QED BY <1>1, <2>1, SubmitOnce, EnqueueOnce, RemoveOnce, SteerNativelyOnce,
             SteerByRedirectOnce DEF Client
<1>2. ASSUME NEW p \in Prompts, Answer(p) PROVE Once'
  BY <1>2, TurnStartedOnce, TurnCompletedOnce DEF Answer
<1>3. ASSUME NEW p \in Prompts, TurnRefused(p) \/ FailedUnstarted(p) PROVE Once'
  <2>1. work.kind = "starting" /\ work.prompt = p /\ work # Absent
    BY <1>3, SentFacts DEF TurnRefused, FailedUnstarted
  <2>2. /\ fence' = fence /\ SaveQueue /\ moving' = None /\ work' = Idle
        /\ GiveUpStart(p) \/ (blocked' = p /\ UNCHANGED <<queue, returned>>)
        /\ UNCHANGED <<ledger, pending, native, shown, guided, redirect, sess>>
    BY <1>3 DEF TurnRefused, FailedUnstarted
  <2> QED BY <2>1, <2>2, DroppedOnce
<1>4. ASSUME NEW p \in Prompts, InterruptRefused(p) \/ Evict(p) PROVE Once'
  BY <1>4, CalmOnce DEF InterruptRefused, Evict, selected, history, durable
<1>5. ASSUME NEW g \in guiding, HandleSteerAccepted(g) \/ SteerRefused(g) PROVE Once'
  <2>1. ASSUME SteerRefused(g) PROVE Once'
    BY <2>1, CalmOnce DEF SteerRefused, history
  <2> QED BY <1>5, <2>1, SteerAcceptedOnce
<1>6. CASE CancelTurn
  BY <1>6, CalmOnce DEF CancelTurn, selected, history
<1>7. CASE HandleReady
  BY <1>7, CalmOnce DEF HandleReady, selected, history
<1>8. CASE HandleSessionClosed \/ HandleDisconnected
  <2>1. /\ fence' = fence /\ SaveQueue /\ moving' = None /\ redirect' = None /\ work # Absent
        /\ UNCHANGED <<ledger, pending, native, shown, guided>>
        /\ IF work.kind \in {"creating", "starting"} THEN GiveUpStart(work.prompt)
           ELSE UNCHANGED <<queue, blocked, returned>>
    BY <1>8 DEF HandleSessionClosed, HandleDisconnected, DropTurn, EndTurn, Live
  <2>2. /\ sess' \in {sess, FALSE} /\ (native # "real" => sess' = sess)
        /\ work' = IF work.kind = "resuming" THEN work ELSE Idle
    BY <1>8 DEF HandleSessionClosed, HandleDisconnected, Core, IInv, Session
  <2> QED BY <2>1, <2>2, DroppedOnce
<1>9. CASE HandleSessionCreated \/ CreateRefused \/ HandleSessionResumed \/ ResumeRefused
           \/ Crash \/ OpenSession
  BY <1>9, CreatedOnce, ResumedOnce, ResumeRefusedOnce, CrashOnce, OpenOnce
<1>10. CASE UNCHANGED vars
  BY <1>10, CalmOnce DEF vars, durable, engine, selected, history
<1> QED BY <1>1, <1>2, <1>3, <1>4, <1>5, <1>6, <1>7, <1>8, <1>9, <1>10 DEF Next

LEMMA OnceAlways ==
  ASSUME ~Resends
  PROVE  Spec => [](Core /\ Once)
<1>1. Init => Core /\ Once
  BY CoreInit, OnceInit
<1>2. (Core /\ Once) /\ [Next]_vars => (Core /\ Once)'
  BY CoreStep, OnceStep
<1> QED BY <1>1, <1>2, PTL DEF Spec

-----------------------------------------------------------------------------
(* What a step never undoes.                                               *)

\* A row that was acknowledged stays so, guidance stays guidance, and a prompt
\* comes back from a redirect only when no turn is under way.
Moves ==
  /\ Settled \subseteq Settled' /\ guided \subseteq guided'
  /\ turn' = None \/ returned' = returned

\* Starting a prompt unsettles nothing.
LEMMA SettledStays ==
  ASSUME LedgerOK, \/ UNCHANGED <<ledger, pending>>
                   \/ \E p \in Prompts : RecordOwnerPrompt(p)
                   \/ \E p \in Prompts : ledger' = ledger /\ pending' = pending \ {p}
  PROVE  Settled \subseteq Settled'
<1>1. CASE UNCHANGED <<ledger, pending>>
  BY <1>1 DEF Settled
<1>2. ASSUME NEW p \in Prompts, RecordOwnerPrompt(p) PROVE Settled \subseteq Settled'
  <2>1. Rows' = Rows \cup {p} /\ pending' = pending \cup ({p} \ Rows)
    BY <1>2, RecordHolds
  <2> QED BY <2>1 DEF Settled, Rows
<1>3. ASSUME NEW p \in Prompts, ledger' = ledger /\ pending' = pending \ {p}
      PROVE  Settled \subseteq Settled'
  BY <1>3 DEF Settled
<1> QED BY <1>1, <1>2, <1>3

LEMMA HeadWaits ==
  ASSUME Core, HeadReady(queue, fence)
  PROVE  Head(queue) \in Prompts
BY TailHolds DEF HeadReady, Core, IInv, TypeOK, QueueOK

LEMMA StepMoves ==
  ASSUME Core, [Next]_vars
  PROVE  Moves
<1>0. LedgerOK
  BY DEF Core, IInv, TypeOK
<1>1. ASSUME NEW p \in Prompts, Client(p) PROVE Moves
  <2>1. ASSUME SubmitPrompt(p) PROVE Moves
    BY <1>0, <2>1, SettledStays DEF SubmitPrompt, BeginPrompt, Moves
  <2>2. ASSUME RemoveQueuedPrompt(p) PROVE Moves
    <3>1. guided' = guided /\ returned' = returned
      BY <2>2 DEF RemoveQueuedPrompt
    <3>2. CASE UNCHANGED <<ledger, pending>>
      BY <1>0, <3>1, <3>2, SettledStays DEF Moves
    <3>3. CASE ~UNCHANGED <<ledger, pending>>
      <4> DEFINE q == Without(queue, p)
      <4>1. HeadReady(q, fence') /\ RecordOwnerPrompt(Head(q))
        BY <2>2, <3>3 DEF RemoveQueuedPrompt, BeginPrompt
      <4>2. q \in Seq(Prompts)
        BY WithoutHolds DEF Core, IInv, TypeOK, QueueOK
      <4> HIDE DEF q
      <4>3. Head(q) \in Prompts
        BY <4>1, <4>2, TailHolds DEF HeadReady
      <4> QED BY <1>0, <3>1, <4>1, <4>3, SettledStays DEF Moves
    <3> QED BY <3>2, <3>3
  <2>3. ASSUME SendAgain(p) \/ EnqueuePrompt(p) \/ SteerNatively(p) \/ SteerByRedirect(p)
        PROVE  Moves
    <3>1. UNCHANGED <<ledger, pending, returned>> /\ guided \subseteq guided'
      BY <2>3 DEF SendAgain, EnqueuePrompt, SteerNatively, SteerByRedirect, history
    <3> QED BY <1>0, <3>1, SettledStays DEF Moves
  <2> QED BY <1>1, <2>1, <2>2, <2>3 DEF Client
<1>2. ASSUME NEW p \in Prompts, Answer(p) PROVE Moves
  <2>1. ASSUME TurnStarted(p) PROVE Moves
    <3>1. /\ guided' = guided /\ returned' = returned /\ ledger' = ledger
          /\ pending' = pending \/ pending' = pending \ {p}
      BY <2>1 DEF TurnStarted, history
    <3> QED BY <1>0, <3>1, SettledStays DEF Moves
  <2>2. ASSUME NEW o, TurnCompleted(p, o) PROVE Moves
    <3>1. guided' = guided /\ returned' = returned
      BY <2>2 DEF TurnCompleted
    <3>2. \/ UNCHANGED <<ledger, pending>>
          \/ redirect # None /\ RecordOwnerPrompt(redirect)
          \/ HeadReady(queue, fence) /\ RecordOwnerPrompt(Head(queue))
      BY <2>2 DEF TurnCompleted, BeginPendingRedirect, Drains, Promote, BeginPrompt, Stay
    <3>3. redirect # None => redirect \in Prompts
      BY DEF Core, IInv, TypeOK, SelectionOK
    <3> QED BY <1>0, <3>1, <3>2, <3>3, HeadWaits, SettledStays DEF Moves
  <2> QED BY <1>2, <2>1, <2>2 DEF Answer
<1>3. ASSUME NEW p \in Prompts,
             TurnRefused(p) \/ FailedUnstarted(p) \/ InterruptRefused(p) \/ Evict(p)
      PROVE  Moves
  <2>1. /\ UNCHANGED <<ledger, pending>> /\ guided' = guided
        /\ turn' = None \/ returned' = returned
    BY <1>3 DEF TurnRefused, FailedUnstarted, InterruptRefused, Evict, durable, history
  <2> QED BY <1>0, <2>1, SettledStays DEF Moves
<1>4. ASSUME NEW g \in guiding, HandleSteerAccepted(g) \/ SteerRefused(g) PROVE Moves
  <2>1. UNCHANGED <<ledger, pending, guided, returned>>
    BY <1>4 DEF HandleSteerAccepted, SteerRefused, history
  <2> QED BY <1>0, <2>1, SettledStays DEF Moves
<1>5. CASE HandleSessionResumed
  <2>1. guided' = guided /\ returned' = returned
    BY <1>5 DEF HandleSessionResumed
  <2>2. \/ UNCHANGED <<ledger, pending>>
        \/ \E p \in pending : RecordOwnerPrompt(p)
        \/ HeadReady(queue, fence) /\ RecordOwnerPrompt(Head(queue))
    BY <1>5 DEF HandleSessionResumed, Promote, BeginPrompt, Stay, Replays
  <2>3. pending \subseteq Prompts
    BY DEF Core, IInv, TypeOK, LedgerOK, ToSet
  <2> QED BY <1>0, <2>1, <2>2, <2>3, HeadWaits, SettledStays DEF Moves
<1>6. CASE \/ CancelTurn \/ HandleSessionCreated \/ CreateRefused \/ ResumeRefused
           \/ HandleSessionClosed \/ HandleDisconnected \/ HandleReady \/ Crash \/ OpenSession
  <2>1. /\ UNCHANGED <<ledger, pending>> /\ guided' = guided
        /\ turn' = None \/ returned' = returned
    BY <1>6 DEF CancelTurn, HandleSessionCreated, CreateRefused, ResumeRefused, HandleSessionClosed,
                HandleDisconnected, DropTurn, HandleReady, Crash, OpenSession, durable, history
  <2> QED BY <1>0, <2>1, SettledStays DEF Moves
<1>7. CASE UNCHANGED vars
  <2>1. UNCHANGED <<ledger, pending, guided, returned>>
    BY <1>7 DEF vars, durable, history
  <2> QED BY <1>0, <2>1, SettledStays DEF Moves
<1> QED BY <1>1, <1>2, <1>3, <1>4, <1>5, <1>6, <1>7 DEF Next

\* A prompt that is sent to the provider is the one the engine starts.
LEMMA StartFacts ==
  ASSUME Core', NEW p \in Prompts, Starts(p)
  PROVE  work'.kind = "starting" /\ work'.prompt = p /\ turn' # None
<1>1. turn' # None /\ turn' = Turn(p, "sent")
  BY PromptAssumption DEF Starts, Turn
<1> QED BY <1>1 DEF Core, IInv, Engine, Turn

\* Where clients repeat no command while the session resumes, a prompt whose start
\* was acknowledged is not sent again, through any crash, retry or late answer.
THEOREM StartedOnceAlways ==
  ASSUME ~Resends
  PROVE  Spec => StartedOnce
<1>1. ASSUME Core /\ Once, Core' /\ Once', [Next]_vars
      PROVE  \A p \in Prompts : Starts(p) => p \notin Settled \/ p \in returned
  <2> SUFFICES ASSUME NEW p \in Prompts, Starts(p) PROVE p \notin Settled \/ p \in returned
    OBVIOUS
  <2>1. work'.kind = "starting" /\ work'.prompt = p /\ turn' # None
    BY <1>1, StartFacts
  <2>2. p \notin Settled' \/ p \in returned'
    BY <1>1, <2>1 DEF Once
  <2>3. Moves
    BY <1>1, StepMoves
  <2> QED BY <2>1, <2>2, <2>3 DEF Moves
<1>2. (Core /\ Once) /\ (Core /\ Once)' /\ [Next]_vars
        => [\A p \in Prompts : Starts(p) => p \notin Settled \/ p \in returned]_vars
  BY <1>1
<1> QED BY <1>2, OnceAlways, PTL DEF StartedOnce, Spec

\* Guidance that went out to the provider is never sent as a turn of its own, by a
\* restart, a refusal or the queue.
THEOREM GuidanceIsNotReplayedAlways ==
  ASSUME ~Resends
  PROVE  Spec => GuidanceIsNotReplayed
<1>1. ASSUME Core /\ Once, Core' /\ Once', [Next]_vars
      PROVE  \A p \in guided : ~Starts(p)
  <2> SUFFICES ASSUME NEW p \in guided, Starts(p) PROVE FALSE
    OBVIOUS
  <2>1. p \in Prompts
    BY <1>1, PromptAssumption DEF Once
  <2>2. work'.kind = "starting" /\ work'.prompt = p
    BY <1>1, <2>1, StartFacts
  <2>3. p \in guided'
    BY <1>1, StepMoves DEF Moves
  <2> QED BY <1>1, <2>2, <2>3 DEF Once
<1>2. (Core /\ Once) /\ (Core /\ Once)' /\ [Next]_vars => [\A p \in guided : ~Starts(p)]_vars
  BY <1>1
<1> QED BY <1>2, OnceAlways, PTL DEF GuidanceIsNotReplayed, Spec

-----------------------------------------------------------------------------
(* Who comes before whom in a sequence without repetitions.                *)

\* x comes before y in s.
Ahead(s, x, y) == \E i, j \in DOMAIN s : i < j /\ s[i] = x /\ s[j] = y

LEMMA AheadOrders ==
  ASSUME NEW S, NEW s \in Seq(S), IsInjective(s), NEW x, NEW y
  PROVE  /\ Ahead(s, x, y) => x \in ToSet(s) /\ y \in ToSet(s) /\ x # y /\ ~Ahead(s, y, x)
         /\ x \in ToSet(s) /\ y \in ToSet(s) /\ x # y => Ahead(s, x, y) \/ Ahead(s, y, x)
         /\ \A z : Ahead(s, x, y) /\ Ahead(s, y, z) => Ahead(s, x, z)
<1>1. Len(s) \in Nat /\ DOMAIN s = 1..Len(s)
  BY LenProperties
<1>2. \A i, j \in DOMAIN s : s[i] = s[j] => i = j
  BY DEF IsInjective
<1>3. \A i, j \in DOMAIN s : /\ i < j => i # j /\ ~(j < i)
                             /\ i # j => i < j \/ j < i
                             /\ \A k \in DOMAIN s : i < j /\ j < k => i < k
  BY <1>1
<1>4. ASSUME Ahead(s, x, y) PROVE x \in ToSet(s) /\ y \in ToSet(s) /\ x # y /\ ~Ahead(s, y, x)
  <2>1. PICK i \in DOMAIN s, j \in DOMAIN s : i < j /\ s[i] = x /\ s[j] = y
    BY <1>4 DEF Ahead
  <2>2. x \in ToSet(s) /\ y \in ToSet(s) /\ x # y
    BY <1>2, <1>3, <2>1 DEF ToSet
  <2>3. ASSUME Ahead(s, y, x) PROVE FALSE
    <3>1. PICK k \in DOMAIN s, l \in DOMAIN s : k < l /\ s[k] = y /\ s[l] = x
      BY <2>3 DEF Ahead
    <3>2. k = j /\ l = i
      BY <1>2, <2>1, <3>1
    <3> QED BY <1>3, <2>1, <3>1, <3>2
  <2> QED BY <2>2, <2>3
<1>5. ASSUME x \in ToSet(s), y \in ToSet(s), x # y PROVE Ahead(s, x, y) \/ Ahead(s, y, x)
  <2>1. PICK i \in DOMAIN s : s[i] = x
    BY <1>5 DEF ToSet
  <2>2. PICK j \in DOMAIN s : s[j] = y
    BY <1>5 DEF ToSet
  <2>3. i < j \/ j < i
    BY <1>3, <1>5, <2>1, <2>2
  <2> QED BY <2>1, <2>2, <2>3 DEF Ahead
<1>6. ASSUME NEW z, Ahead(s, x, y), Ahead(s, y, z) PROVE Ahead(s, x, z)
  <2>1. PICK i \in DOMAIN s, j \in DOMAIN s : i < j /\ s[i] = x /\ s[j] = y
    BY <1>6 DEF Ahead
  <2>2. PICK k \in DOMAIN s, l \in DOMAIN s : k < l /\ s[k] = y /\ s[l] = z
    BY <1>6 DEF Ahead
  <2>3. k = j
    BY <1>2, <2>1, <2>2
  <2>4. i < l
    BY <1>3, <2>1, <2>2, <2>3
  <2> QED BY <2>1, <2>2, <2>4 DEF Ahead
<1> QED BY <1>4, <1>5, <1>6

LEMMA AheadEmpty == \A x, y : ~Ahead(<<>>, x, y)
BY DEF Ahead

LEMMA AheadAppend ==
  ASSUME NEW S, NEW s \in Seq(S), NEW e \in S, NEW x, NEW y, Ahead(Append(s, e), x, y)
  PROVE  Ahead(s, x, y) \/ (x \in ToSet(s) /\ y = e)
<1>1. /\ Len(s) \in Nat /\ \A i \in 1..Len(s) : Append(s, e)[i] = s[i]
      /\ Append(s, e)[Len(s) + 1] = e
      /\ DOMAIN s = 1..Len(s) /\ DOMAIN Append(s, e) = 1..(Len(s) + 1)
  BY AppendProperties
<1>2. PICK i \in 1..(Len(s) + 1), j \in 1..(Len(s) + 1) :
        i < j /\ Append(s, e)[i] = x /\ Append(s, e)[j] = y
  BY <1>1 DEF Ahead
<1>3. i \in 1..Len(s) /\ (j \in 1..Len(s) \/ j = Len(s) + 1)
  BY <1>1, <1>2
<1>4. CASE j \in 1..Len(s)
  BY <1>1, <1>2, <1>3, <1>4 DEF Ahead
<1>5. CASE j = Len(s) + 1
  BY <1>1, <1>2, <1>3, <1>5 DEF ToSet
<1> QED BY <1>3, <1>4, <1>5

LEMMA AheadTail ==
  ASSUME NEW S, NEW s \in Seq(S), s # <<>>, NEW x, NEW y
  PROVE  /\ Ahead(Tail(s), x, y) => Ahead(s, x, y)
         /\ y \in ToSet(Tail(s)) => Ahead(s, Head(s), y)
<1>1. /\ Head(s) = s[1] /\ Len(s) \in Nat /\ Len(s) >= 1 /\ DOMAIN s = 1..Len(s)
      /\ DOMAIN Tail(s) = 1..(Len(s) - 1)
      /\ \A i \in 1..(Len(s) - 1) : Tail(s)[i] = s[i + 1]
  BY HeadTailProperties, LenProperties
<1>2. 1 \in 1..Len(s) /\ \A i \in 1..(Len(s) - 1) : i + 1 \in 1..Len(s) /\ 1 < i + 1
  BY <1>1
<1>3. ASSUME Ahead(Tail(s), x, y) PROVE Ahead(s, x, y)
  <2>1. PICK i \in 1..(Len(s) - 1), j \in 1..(Len(s) - 1) :
          i < j /\ Tail(s)[i] = x /\ Tail(s)[j] = y
    BY <1>1, <1>3 DEF Ahead
  <2>2. i + 1 < j + 1 /\ s[i + 1] = x /\ s[j + 1] = y
    BY <1>1, <2>1
  <2> QED BY <1>1, <1>2, <2>2 DEF Ahead
<1>4. ASSUME y \in ToSet(Tail(s)) PROVE Ahead(s, Head(s), y)
  <2>1. PICK i \in 1..(Len(s) - 1) : Tail(s)[i] = y
    BY <1>1, <1>4 DEF ToSet
  <2> QED BY <1>1, <1>2, <2>1 DEF Ahead
<1> QED BY <1>3, <1>4

LEMMA AheadWithout ==
  ASSUME NEW S, NEW q \in Seq(S), NEW p, NEW x, NEW y, Ahead(Without(q, p), x, y)
  PROVE  Ahead(q, x, y)
<1>1. CASE ~Contains(q, p)
  BY <1>1 DEF Without
<1>2. CASE Contains(q, p)
  <2> DEFINE k == CHOOSE i \in DOMAIN q : q[i] = p
             w == RemoveAt(q, k)
             n == Len(q)
  <2>1. n \in Nat /\ DOMAIN q = 1..n /\ k \in 1..n /\ Without(q, p) = w
    BY <1>2, LenProperties DEF Contains, Without
  <2> HIDE DEF k
  <2>2. w \in Seq(S) /\ Len(w) = n - 1 /\ \A j \in 1..(n - 1) : w[j] = IF j < k THEN q[j] ELSE q[j + 1]
    BY <2>1, RemovedAt
  <2>3. DOMAIN w = 1..(n - 1)
    BY <2>2, LenProperties
  <2>4. Ahead(w, x, y)
    BY <2>1
  <2> HIDE DEF w, n
  <2>5. PICK i \in 1..(n - 1), j \in 1..(n - 1) : i < j /\ w[i] = x /\ w[j] = y
    BY <2>3, <2>4 DEF Ahead
  <2> DEFINE a == IF i < k THEN i ELSE i + 1
             b == IF j < k THEN j ELSE j + 1
  <2>6. a \in 1..n /\ b \in 1..n /\ a < b
    BY <2>1, <2>5
  <2>7. q[a] = x /\ q[b] = y
    BY <2>2, <2>5
  <2> QED BY <2>1, <2>6, <2>7 DEF Ahead
<1> QED BY <1>1, <1>2

\* What stands before the place of p is what comes before p.
LEMMA AheadPrefix ==
  ASSUME NEW S, NEW q \in Seq(S), IsInjective(q), NEW i \in DOMAIN q, NEW x
  PROVE  x \in ToSet(SubSeq(q, 1, i - 1)) <=> Ahead(q, x, q[i])
<1>1. Len(q) \in Nat /\ DOMAIN q = 1..Len(q) /\ i \in 1..Len(q)
  BY LenProperties
<1>2. \A j \in 1..(i - 1) : q[j] \in S /\ j \in DOMAIN q
  BY <1>1, ElementOfSeq
<1> DEFINE a == SubSeq(q, 1, i - 1)
<1>3. DOMAIN a = 1..(i - 1) /\ \A j \in 1..(i - 1) : a[j] = q[j]
  <2>1. /\ a \in Seq(S) /\ Len(a) = IF 1 <= i - 1 THEN (i - 1) - 1 + 1 ELSE 0
        /\ \A j \in 1..((i - 1) - 1 + 1) : a[j] = q[1 + j - 1]
    <3>1. 1 \in Int /\ i - 1 \in Int /\ \A j \in 1..(i - 1) : q[j] \in S
      BY <1>1, <1>2
    <3> QED BY <3>1, SubSeqProperties
  <2>2. Len(a) = i - 1
    BY <1>1, <2>1
  <2>3. DOMAIN a = 1..(i - 1)
    BY <2>1, <2>2, LenProperties
  <2> QED BY <1>1, <2>1, <2>3
<1> HIDE DEF a
<1>4. x \in ToSet(a) => Ahead(q, x, q[i])
  <2> SUFFICES ASSUME x \in ToSet(a) PROVE Ahead(q, x, q[i])
    OBVIOUS
  <2>1. PICK j \in 1..(i - 1) : x = q[j]
    BY <1>3 DEF ToSet
  <2>2. j \in DOMAIN q /\ j < i
    BY <1>1, <1>2
  <2> QED BY <2>1, <2>2 DEF Ahead
<1>5. Ahead(q, x, q[i]) => x \in ToSet(a)
  <2> SUFFICES ASSUME Ahead(q, x, q[i]) PROVE x \in ToSet(a)
    OBVIOUS
  <2>1. PICK j \in DOMAIN q, k \in DOMAIN q : j < k /\ q[j] = x /\ q[k] = q[i]
    BY DEF Ahead
  <2>2. k = i
    BY <2>1 DEF IsInjective
  <2>3. j \in 1..(i - 1)
    BY <1>1, <2>1, <2>2
  <2> QED BY <1>3, <2>1, <2>3 DEF ToSet
<1> QED BY <1>4, <1>5 DEF a

\* What was overtaken leads the queue.
Leads(set) == \A x, y \in Prompts : Ahead(queue, x, y) /\ y \in set => x \in set

\* A redirected prompt that returns stands between those and the others.
LEMMA AheadRestored ==
  ASSUME queue \in Seq(Prompts), IsInjective(queue), NEW m, m.prompt \in Prompts, Leads(m.ahead),
         NEW x, NEW y, Ahead(Restored(m), x, y)
  PROVE  \/ Ahead(queue, x, y)
         \/ x \in m.ahead /\ y = m.prompt
         \/ x = m.prompt /\ y \in Waits \ m.ahead
<1> DEFINE n == Len(queue)
           A == {i \in DOMAIN queue : queue[i] \in m.ahead}
           c == Cardinality(A)
           w == InsertAt(queue, c + 1, m.prompt)
<1>1. n \in Nat /\ DOMAIN queue = 1..n /\ \A i \in 1..n : queue[i] \in Prompts
  BY LenProperties, ElementOfSeq
<1>2. IsFiniteSet(A) /\ c \in Nat /\ c <= n
  <2>1. IsFiniteSet(1..n) /\ Cardinality(1..n) = n
    BY <1>1, FS_Interval
  <2>2. A \subseteq 1..n
    BY <1>1
  <2>3. IsFiniteSet(A) /\ c <= n
    BY <2>1, <2>2, FS_Subset
  <2> QED BY <2>3, FS_CardinalityType
<1>3. \A i \in 1..n : i \in A <=> i <= c
  <2> SUFFICES ASSUME NEW i \in 1..n PROVE i \in A <=> i <= c
    OBVIOUS
  <2>1. \A j \in 1..n : j < i => Ahead(queue, queue[j], queue[i])
    BY <1>1 DEF Ahead
  <2>2. \A j \in 1..n : i < j => Ahead(queue, queue[i], queue[j])
    BY <1>1 DEF Ahead
  <2>3. ASSUME i \in A PROVE i <= c
    <3>1. 1..i \subseteq A
      <4> SUFFICES ASSUME NEW j \in 1..i PROVE j \in A
        OBVIOUS
      <4>1. j \in 1..n /\ (j = i \/ j < i)
        BY <1>1
      <4>2. CASE j = i
        BY <2>3, <4>2
      <4>3. CASE j < i
        BY <1>1, <2>1, <2>3, <4>1, <4>3 DEF Leads
      <4> QED BY <4>1, <4>2, <4>3
    <3>2. IsFiniteSet(1..i) /\ Cardinality(1..i) = i
      BY <1>1, FS_Interval
    <3> HIDE DEF A
    <3>3. Cardinality(1..i) <= c
      BY <1>2, <3>1, FS_Subset
    <3> QED BY <3>2, <3>3
  <2>4. ASSUME i \notin A PROVE c < i
    <3>1. A \subseteq 1..(i - 1)
      <4> SUFFICES ASSUME NEW j \in A PROVE j \in 1..(i - 1)
        OBVIOUS
      <4>1. j \in 1..n /\ (j = i \/ j < i \/ i < j)
        BY <1>1
      <4>2. ~(i < j)
        <5> SUFFICES ASSUME i < j PROVE i \in A
          BY <2>4
        <5> QED BY <1>1, <2>2, <4>1 DEF Leads
      <4>3. j # i
        BY <2>4
      <4> HIDE DEF A, n
      <4> QED BY <4>1, <4>2, <4>3
    <3>2. IsFiniteSet(1..(i - 1)) /\ Cardinality(1..(i - 1)) = i - 1
      <4>1. PICK k \in Int : k = i - 1 /\ k >= 0
        BY <1>1
      <4>2. IsFiniteSet(1..k) /\ Cardinality(1..k) = IF 1 > k THEN 0 ELSE k - 1 + 1
        BY FS_Interval
      <4> QED BY <4>1, <4>2
    <3> HIDE DEF A
    <3>3. c <= Cardinality(1..(i - 1))
      BY <3>1, <3>2, FS_Subset
    <3> QED BY <1>1, <1>2, <3>2, <3>3
  <2> QED BY <1>1, <1>2, <2>3, <2>4
<1>4. w = Restored(m)
  BY DEF Restored
<1>5. /\ DOMAIN w = 1..(n + 1)
      /\ \A j \in 1..(n + 1) : w[j] = IF j = c + 1 THEN m.prompt
                                 ELSE IF j < c + 1 THEN queue[j] ELSE queue[j - 1]
  <2>1. c + 1 \in 1..(n + 1)
    BY <1>1, <1>2
  <2> HIDE DEF c
  <2>2. /\ w \in Seq(Prompts) /\ Len(w) = n + 1
        /\ \A j \in 1..(n + 1) : w[j] = IF j = c + 1 THEN m.prompt
                                 ELSE IF j < c + 1 THEN queue[j] ELSE queue[j - 1]
    BY <2>1, InsertedAt
  <2> QED BY <2>2, LenProperties
<1> HIDE DEF w, c, n
<1>6. PICK i \in 1..(n + 1), j \in 1..(n + 1) : i < j /\ w[i] = x /\ w[j] = y
  BY <1>4, <1>5 DEF Ahead
<1>7. \A k \in 1..n : (queue[k] \in m.ahead <=> k <= c) /\ queue[k] \in Waits
  BY <1>1, <1>3 DEF Waits, ToSet
<1> HIDE DEF A
<1>8. CASE i = c + 1
  <2>1. j - 1 \in 1..n /\ ~(j - 1 <= c) /\ j # c + 1 /\ ~(j < c + 1)
    BY <1>1, <1>2, <1>6, <1>8
  <2> QED BY <1>5, <1>6, <1>7, <1>8, <2>1
<1>9. CASE j = c + 1
  <2>1. i \in 1..n /\ i <= c /\ i # c + 1 /\ i < c + 1
    BY <1>1, <1>2, <1>6, <1>9
  <2> QED BY <1>5, <1>6, <1>7, <1>9, <2>1
<1>10. CASE i # c + 1 /\ j # c + 1
  <2> DEFINE a == IF i < c + 1 THEN i ELSE i - 1
             b == IF j < c + 1 THEN j ELSE j - 1
  <2>1. a \in 1..n /\ b \in 1..n /\ a < b
    BY <1>1, <1>2, <1>6, <1>10
  <2>2. queue[a] = x /\ queue[b] = y
    BY <1>5, <1>6, <1>10
  <2> QED BY <1>1, <2>1, <2>2 DEF Ahead
<1> QED BY <1>8, <1>9, <1>10

-----------------------------------------------------------------------------
(* Prompts wait in the order they were accepted.                           *)

\* Of two in q the later accepted is behind, unless it lost its place.
Ordered(q, order, lost) ==
  \A x, y \in Prompts : Ahead(q, x, y) /\ y \notin lost => ~Ahead(order, y, x)

\* A redirected prompt came after those it overtook and before the others.
InPlace(m) ==
  /\ m.ahead \subseteq Waits \cup removed /\ Leads(m.ahead)
  /\ \A x \in m.ahead : m.prompt \notin fenced => ~Ahead(accepted, m.prompt, x)
  /\ \A y \in Waits \ m.ahead : y \notin fenced => ~Ahead(accepted, y, m.prompt)

InOrder ==
  /\ Ordered(queue, accepted, fenced) /\ Ordered(saved.queue, accepted, fenced)
  /\ moving # None => InPlace(moving)

\* With nothing under way, nothing held and no failure since the last start, no
\* prompt waits; nothing waits before a session is first asked for.
Rest ==
  /\ work = Idle /\ blocked = None /\ ~parked /\ fence = {} => Waits = {}
  /\ ~ready => work # Absent /\ parked /\ asked = "none" /\ turn = None
  /\ native = "none" => Waits \cup Disk = {} /\ ~IsBusy

\* What a turn took as guidance went out as guidance.
Guidance ==
  /\ absorbed \cup mistaken \subseteq guided
  /\ steer # None => steer.prompt \in guided
  /\ \A g \in guiding : g.prompt \in guided

Order == Rest /\ Guidance /\ InOrder

\* A queue that only loses prompts stays in order.
LEMMA OrderedShrinks ==
  ASSUME NEW q, NEW r, NEW order, NEW lost, NEW lost2, Ordered(q, order, lost), lost \subseteq lost2,
         \A x, y \in Prompts : Ahead(r, x, y) => Ahead(q, x, y)
  PROVE  Ordered(r, order, lost2)
BY DEF Ordered

Keeps == accepted' = accepted /\ fenced \subseteq fenced' /\ removed \subseteq removed'

LEMMA ShrinkInOrder ==
  ASSUME InOrder, Keeps,
         queue' = saved.queue \/ (\A x, y \in Prompts : Ahead(queue', x, y) => Ahead(queue, x, y)),
         saved'.queue = queue' \/ saved' = saved,
         \/ moving' = None
         \/ moving' = moving /\ queue' = queue
         \/ /\ moving' = moving /\ Waits' \subseteq Waits /\ Waits \subseteq Waits' \cup removed'
            /\ \A x, y \in Prompts : Ahead(queue', x, y) => Ahead(queue, x, y)
  PROVE  InOrder'
<1>1. Ordered(queue', accepted', fenced')
  BY OrderedShrinks DEF InOrder, Keeps
<1>2. Ordered(saved.queue, accepted', fenced')
  BY OrderedShrinks DEF InOrder, Keeps
<1>3. Ordered(saved'.queue, accepted', fenced')
  BY <1>1, <1>2
<1>4. ASSUME moving' # None PROVE InPlace(moving)'
  <2>1. /\ moving' = moving /\ Waits' \subseteq Waits /\ Waits \subseteq Waits' \cup removed'
        /\ \A x, y \in Prompts : Ahead(queue', x, y) => Ahead(queue, x, y)
    BY <1>4 DEF Waits
  <2>2. InPlace(moving)
    BY <1>4, <2>1 DEF InOrder
  <2> QED BY <2>1, <2>2 DEF InPlace, Leads, Keeps
<1> QED BY <1>1, <1>3, <1>4 DEF InOrder

\* Accepting a prompt moves none that was accepted before.
LEMMA AcceptAppends ==
  ASSUME HistoryOK, NEW p \in Prompts, Accept(p)
  PROVE  /\ p \in Took => accepted' = accepted
         /\ \A x, y : Ahead(accepted', x, y) =>
              /\ x \in Took \/ x = p
              /\ Ahead(accepted, x, y) \/ (y = p /\ p \notin Took)
<1>1. /\ accepted \in Seq(Prompts) /\ IsInjective(accepted)
      /\ Contains(accepted, p) <=> p \in Took
  BY ContainsIsMembership DEF HistoryOK, Took
<1>2. \A x, y : Ahead(accepted, x, y) => x \in Took
  BY <1>1, AheadOrders DEF Took
<1>3. CASE p \in Took
  BY <1>1, <1>2, <1>3 DEF Accept
<1>4. CASE p \notin Took
  <2>1. accepted' = Append(accepted, p)
    BY <1>1, <1>4 DEF Accept
  <2>2. \A x, y : Ahead(accepted', x, y) => Ahead(accepted, x, y) \/ (x \in Took /\ y = p)
    BY <1>1, <2>1, AheadAppend DEF Took
  <2> QED BY <1>2, <1>4, <2>2
<1> QED BY <1>3, <1>4

LEMMA SubmitInOrder ==
  ASSUME Core, Order, NEW p \in Prompts, SubmitPrompt(p)
  PROVE  InOrder'
<1>1. /\ Accept(p) /\ queue' = queue /\ SaveQueue /\ fenced' = fenced /\ moving' = moving
      /\ ~HasActiveWork
  BY DEF SubmitPrompt, selected
<1>2. moving = None
  BY <1>1 DEF HasActiveWork, Core, IInv, Engine
<1>3. saved'.queue = queue
  BY <1>1 DEF SaveQueue
<1>4. queue \in Seq(Prompts) /\ IsInjective(queue) /\ Waits \subseteq Took /\ HistoryOK
  BY DEF Core, IInv, TypeOK, QueueOK, Kept
<1>5. ASSUME NEW x \in Prompts, NEW y \in Prompts, Ahead(queue, x, y), y \notin fenced
      PROVE  ~Ahead(accepted', y, x)
  <2>1. x \in Took
    BY <1>4, <1>5, AheadOrders DEF Waits
  <2>2. ~Ahead(accepted, y, x)
    BY <1>5 DEF Order, InOrder, Ordered
  <2> QED BY <1>1, <1>4, <2>1, <2>2, AcceptAppends
<1>6. Ordered(queue', accepted', fenced')
  BY <1>1, <1>5 DEF Ordered
<1> QED BY <1>1, <1>2, <1>3, <1>6 DEF InOrder

\* What is offered again and is neither waiting nor shown has lost its place.
LEMMA OfferedAnew ==
  ASSUME ~Resends, Core, Once, Guidance, NEW p \in Prompts, EnqueuePrompt(p)
  PROVE  p \notin Took \/ p \in fenced
<1> SUFFICES ASSUME p \in Took PROVE p \in fenced
  OBVIOUS
<1>1. /\ work # Absent /\ p \notin removed \cup guided /\ blocked # p /\ p \notin Waits \cup shown
      /\ work.prompt # p /\ IsBusy /\ (Contains(accepted, p) => work.kind # "resuming")
  BY DEF EnqueuePrompt, Offered, Live, Recognised, Waits
<1>2. work.kind # "resuming"
  BY <1>1, ContainsIsMembership DEF Took, Core, IInv, TypeOK, HistoryOK
<1>3. (work.kind \notin {"absent", "resuming"} /\ work # Idle) \/ blocked # None
  BY <1>1, <1>2, WorkFacts DEF IsBusy, HasActiveWork, Core, IInv, TypeOK, EngineOK, Idle, Work
<1>4. work.kind # "absent"
  BY <1>1, WorkFacts DEF Core, IInv, TypeOK, EngineOK
<1>5. p \notin Rows
  BY <1>1, <1>2, <1>3, <1>4 DEF Once
<1>6. p \in Gone
  BY <1>1, <1>5 DEF Core, Kept
<1> QED BY <1>1, <1>6 DEF Gone, Guidance

LEMMA EnqueueInOrder ==
  ASSUME ~Resends, Core, Once, Order, NEW p \in Prompts, EnqueuePrompt(p)
  PROVE  InOrder'
<1>1. /\ Accept(p) /\ queue' = Append(queue, p) /\ SaveQueue /\ fenced' = fenced
      /\ moving' = moving /\ removed' = removed /\ p \notin removed \cup Waits
  BY DEF EnqueuePrompt, Offered, Recognised, Waits, selected
<1>2. p \notin Took \/ p \in fenced
  BY OfferedAnew DEF Order
<1>3. saved'.queue = queue'
  BY <1>1 DEF SaveQueue
<1>4. /\ queue \in Seq(Prompts) /\ IsInjective(queue) /\ Waits \subseteq Took /\ HistoryOK
      /\ accepted \in Seq(Prompts) /\ IsInjective(accepted)
  BY DEF Core, IInv, TypeOK, QueueOK, HistoryOK, Kept
<1>5. Waits' = Waits \cup {p}
  BY <1>1, <1>4, AppendHolds DEF Waits
<1>6. \A x, y : Ahead(queue', x, y) => Ahead(queue, x, y) \/ (x \in Waits /\ y = p)
  BY <1>1, <1>4, AheadAppend DEF Waits
<1>7. \A x, y : Ahead(accepted', x, y) => Ahead(accepted, x, y) \/ (y = p /\ p \notin Took)
  BY <1>1, <1>4, AcceptAppends
<1>8. \A x, y : /\ Ahead(queue, x, y) => x \in Waits
                /\ Ahead(accepted, x, y) => x \in Took
  BY <1>4, AheadOrders DEF Waits, Took
<1>9. ASSUME NEW x \in Prompts, NEW y \in Prompts, Ahead(queue', x, y), y \notin fenced
      PROVE  ~Ahead(accepted', y, x)
  <2>1. x \in Took
    BY <1>4, <1>6, <1>8, <1>9
  <2>2. ~Ahead(accepted, y, x)
    <3>1. CASE Ahead(queue, x, y)
      BY <1>9, <3>1 DEF Order, InOrder, Ordered
    <3>2. CASE y = p
      BY <1>2, <1>8, <1>9, <3>2
    <3> QED BY <1>6, <1>9, <3>1, <3>2
  <2> QED BY <1>4, <1>7, <1>9, <2>1, <2>2
<1>10. Ordered(queue', accepted', fenced')
  BY <1>1, <1>9 DEF Ordered
<1>11. ASSUME moving' # None PROVE InPlace(moving)'
  <2>1. moving # None /\ moving' = moving /\ InPlace(moving)
    BY <1>1, <1>11 DEF Order, InOrder
  <2>2. moving.prompt \in Took
    <3>1. moving.prompt \in Prompts /\ moving.prompt = work.prompt
      BY <2>1 DEF Core, IInv, TypeOK, SelectionOK, Engine
    <3> QED BY <3>1, PromptAssumption DEF Core, Kept
  <2>3. moving.ahead \subseteq Waits \cup removed /\ p \notin moving.ahead
    BY <1>1, <2>1 DEF InPlace
  <2>4. \A x, y \in Prompts : Ahead(queue', x, y) /\ y \in moving.ahead => x \in moving.ahead
    BY <1>6, <2>1, <2>3 DEF InPlace, Leads
  <2>5. \A x \in moving.ahead : moving.prompt \notin fenced => ~Ahead(accepted', moving.prompt, x)
    BY <1>7, <2>1, <2>3 DEF InPlace
  <2>6. \A y \in Waits' \ moving.ahead : y \notin fenced => ~Ahead(accepted', y, moving.prompt)
    <3> SUFFICES ASSUME NEW y \in Waits' \ moving.ahead, y \notin fenced,
                        Ahead(accepted', y, moving.prompt)
                 PROVE  FALSE
      OBVIOUS
    <3>1. Ahead(accepted, y, moving.prompt)
      BY <1>7, <2>2
    <3>2. y # p
      BY <1>2, <1>8, <3>1
    <3> QED BY <1>5, <2>1, <3>1, <3>2 DEF InPlace
  <2> QED BY <1>1, <1>5, <2>1, <2>3, <2>4, <2>5, <2>6 DEF InPlace, Leads
<1> QED BY <1>3, <1>10, <1>11 DEF InOrder

LEMMA RedirectInOrder ==
  ASSUME Core, Order, redirect # None, Keeps, BeginPendingRedirect
  PROVE  InOrder'
<1> DEFINE p == redirect
           i == CHOOSE j \in DOMAIN queue : queue[j] = p
           m == [prompt |-> p, ahead |-> ToSet(SubSeq(queue, 1, i - 1))]
<1>1. p \in Prompts /\ p \in Waits /\ queue \in Seq(Prompts) /\ IsInjective(queue)
  BY DEF Core, IInv, TypeOK, SelectionOK, QueueOK, Engine
<1>2. i \in DOMAIN queue /\ queue[i] = p
  BY <1>1 DEF Waits, ToSet
<1>3. /\ queue' = Without(queue, p)
      /\ \/ SaveQueue /\ fenced' = fenced /\ moving' = m
         \/ saved' = saved /\ moving' = None
  BY DEF BeginPendingRedirect
<1>4. \A x, y : Ahead(queue', x, y) => Ahead(queue, x, y)
  BY <1>1, <1>3, AheadWithout
<1>5. CASE saved' = saved /\ moving' = None
  BY <1>4, <1>5, ShrinkInOrder DEF Order
<1>6. CASE SaveQueue /\ fenced' = fenced /\ moving' = m
  <2>1. saved'.queue = queue'
    BY <1>6 DEF SaveQueue
  <2>2. Ordered(queue', accepted', fenced')
    BY <1>4, OrderedShrinks DEF Order, InOrder, Keeps
  <2>3. m.prompt = p /\ m.ahead = ToSet(SubSeq(queue, 1, i - 1))
    OBVIOUS
  <2>4. \A x : x \in m.ahead <=> Ahead(queue, x, p)
    <3> HIDE DEF i
    <3> QED BY <1>1, <1>2, <2>3, AheadPrefix
  <2>5. Waits' = Waits \ {p}
    BY <1>1, <1>3, WithoutHolds DEF Waits
  <2> HIDE DEF m
  <2>6. m.ahead \subseteq Waits' /\ m.ahead \subseteq Prompts
    <3>1. \A x : Ahead(queue, x, p) => x \in Waits /\ x # p
      BY <1>1, AheadOrders DEF Waits
    <3>2. Waits \subseteq Prompts
      BY <1>1 DEF Waits, ToSet
    <3> QED BY <2>4, <2>5, <3>1, <3>2
  <2>7. \A x, y \in Prompts : Ahead(queue', x, y) /\ y \in m.ahead => x \in m.ahead
    <3> SUFFICES ASSUME NEW x \in Prompts, NEW y \in Prompts, Ahead(queue', x, y), y \in m.ahead
                 PROVE  x \in m.ahead
      OBVIOUS
    <3>1. Ahead(queue, x, y) /\ Ahead(queue, y, p)
      BY <1>4, <2>4
    <3>2. Ahead(queue, x, p)
      BY <1>1, <3>1, AheadOrders
    <3> QED BY <2>4, <3>2
  <2>8. \A x \in m.ahead : p \notin fenced => ~Ahead(accepted, p, x)
    BY <1>1, <2>4, <2>6 DEF Order, InOrder, Ordered
  <2>9. \A y \in Waits' \ m.ahead : y \notin fenced => ~Ahead(accepted, y, p)
    <3> SUFFICES ASSUME NEW y \in Waits' \ m.ahead, y \notin fenced
                 PROVE  ~Ahead(accepted, y, p)
      OBVIOUS
    <3>1. y \in Prompts /\ y \in Waits /\ y # p /\ ~Ahead(queue, y, p)
      BY <1>1, <2>4, <2>5 DEF Waits, ToSet
    <3>2. Ahead(queue, p, y)
      BY <1>1, <3>1, AheadOrders DEF Waits
    <3> QED BY <1>1, <3>1, <3>2 DEF Order, InOrder, Ordered
  <2>10. InPlace(moving)'
    BY <1>6, <2>3, <2>6, <2>7, <2>8, <2>9 DEF InPlace, Leads, Keeps
  <2> QED BY <2>1, <2>2, <2>10 DEF InOrder
<1> QED BY <1>3, <1>5, <1>6

\* A redirected prompt that returns takes its old place.
LEMMA ReturnInOrder ==
  ASSUME Core, Order, moving # None, queue' = Restored(moving), moving' = None, SaveQueue,
         UNCHANGED <<accepted, fenced>>
  PROVE  InOrder'
<1>1. saved'.queue = queue'
  BY DEF SaveQueue
<1>2. /\ InPlace(moving) /\ moving.prompt \in Prompts /\ Leads(moving.ahead)
      /\ queue \in Seq(Prompts) /\ IsInjective(queue) /\ Ordered(queue, accepted, fenced)
  BY DEF Order, InOrder, InPlace, Core, IInv, TypeOK, SelectionOK, QueueOK
<1>3. \A x, y : Ahead(queue', x, y) => \/ Ahead(queue, x, y)
                                       \/ x \in moving.ahead /\ y = moving.prompt
                                       \/ x = moving.prompt /\ y \in Waits \ moving.ahead
  BY <1>2, AheadRestored
<1>4. Ordered(queue', accepted', fenced')
  BY <1>2, <1>3 DEF Ordered, InPlace
<1> QED BY <1>1, <1>4 DEF InOrder

\* What was starting is held, or returns.
LEMMA GiveUpInOrder ==
  ASSUME Core, Order, NEW p \in Prompts, GiveUpStart(p) \/ queue' = queue, moving' = None,
         SaveQueue, Keeps, fenced' = fenced
  PROVE  InOrder'
<1>1. queue' = queue \/ (moving # None /\ queue' = Restored(moving))
  BY DEF GiveUpStart
<1>2. CASE queue' = queue
  <2>1. saved'.queue = queue'
    BY DEF SaveQueue
  <2> QED BY <1>2, <2>1, ShrinkInOrder DEF Order
<1>3. CASE moving # None /\ queue' = Restored(moving)
  BY <1>3, ReturnInOrder DEF Keeps
<1> QED BY <1>1, <1>2, <1>3

\* The queue loses what is started, removed or taken; what it overtook stays.
LEMMA FewerInOrder ==
  ASSUME Core, Order, Keeps, saved'.queue = queue' \/ saved' = saved,
         \A x, y \in Prompts : Ahead(queue', x, y) => Ahead(queue, x, y),
         moving' = None \/ (moving' = moving /\ (moving = None \/ queue' = queue))
  PROVE  InOrder'
BY ShrinkInOrder DEF Order

\* A step that leaves the queue alone.
LEMMA CalmInOrder ==
  ASSUME Core, Order, Keeps, queue' = queue, SaveQueue \/ saved' = saved, moving' \in {moving, None}
  PROVE  InOrder'
<1>1. saved'.queue = queue' \/ saved' = saved
  BY DEF SaveQueue
<1> QED BY <1>1, FewerInOrder

\* What starts the head of a queue.
LEMMA PromoteInOrder ==
  ASSUME Core, Order, HeadReady(queue, fence), Promote(Head(queue), Tail(queue)),
         accepted' = accepted, removed' = removed, moving = None, moving' = None
  PROVE  InOrder'
<1>1. queue \in Seq(Prompts) /\ queue # <<>>
  BY DEF Core, IInv, TypeOK, QueueOK, HeadReady
<1>2. queue' = Tail(queue) /\ (SaveQueue \/ saved' = saved) /\ fenced \subseteq fenced'
  BY DEF Promote
<1>3. \A x, y : Ahead(queue', x, y) => Ahead(queue, x, y)
  BY <1>1, <1>2, AheadTail
<1>4. saved'.queue = queue' \/ saved' = saved
  BY <1>2 DEF SaveQueue
<1> QED BY <1>2, <1>3, <1>4, FewerInOrder DEF Keeps

LEMMA ClientInOrder ==
  ASSUME ~Resends, Core, Once, Order, NEW p \in Prompts, Client(p)
  PROVE  InOrder'
<1>1. ASSUME SendAgain(p) PROVE InOrder'
  <2>1. /\ Accept(p) /\ Recognised(p) /\ SaveQueue
        /\ UNCHANGED <<queue, moving, fenced, removed>>
    BY <1>1 DEF SendAgain, selected
  <2>2. p \in Took
    BY <2>1, PromptAssumption DEF Recognised, Core, Kept, Waits
  <2>3. accepted' = accepted
    BY <2>1, <2>2, AcceptAppends DEF Core, IInv, TypeOK
  <2> QED BY <2>1, <2>3, CalmInOrder DEF Keeps
<1>2. ASSUME RemoveQueuedPrompt(p) PROVE InOrder'
  <2> DEFINE q == Without(queue, p)
  <2>1. /\ SaveQueue /\ moving' = moving /\ Keeps /\ removed' = removed \cup {p}
        /\ \/ queue' = q
           \/ ~IsBusy /\ q # <<>> /\ queue' = Tail(q)
    BY <1>2 DEF RemoveQueuedPrompt, HeadReady, selected, Keeps
  <2>2. queue \in Seq(Prompts) /\ IsInjective(queue) /\ q \in Seq(Prompts) /\ ToSet(q) = Waits \ {p}
    BY WithoutHolds DEF Core, IInv, TypeOK, QueueOK, Waits
  <2>3. saved'.queue = queue'
    BY <2>1 DEF SaveQueue
  <2>4. \A x, y : Ahead(q, x, y) => Ahead(queue, x, y)
    BY <2>2, AheadWithout
  <2> HIDE DEF q
  <2>5. CASE queue' = q
    <3>1. Waits' = Waits \ {p}
      BY <2>2, <2>5 DEF Waits
    <3> QED BY <2>1, <2>3, <2>4, <2>5, <3>1, ShrinkInOrder DEF Order
  <2>6. CASE ~IsBusy /\ q # <<>> /\ queue' = Tail(q)
    <3>1. moving = None
      BY <2>6 DEF IsBusy, HasActiveWork, Core, IInv, Engine
    <3>2. \A x, y : Ahead(queue', x, y) => Ahead(queue, x, y)
      BY <2>2, <2>4, <2>6, AheadTail
    <3> QED BY <2>1, <2>3, <3>1, <3>2, FewerInOrder
  <2> QED BY <2>1, <2>5, <2>6
<1>3. ASSUME SteerNatively(p) \/ SteerByRedirect(p) PROVE InOrder'
  <2>1. SaveQueue /\ UNCHANGED <<queue, moving, fenced, removed, accepted>>
    BY <1>3 DEF SteerNatively, SteerByRedirect, history
  <2> QED BY <2>1, CalmInOrder DEF Keeps
<1> QED BY <1>1, <1>2, <1>3, SubmitInOrder, EnqueueInOrder DEF Client

LEMMA AnswerInOrder ==
  ASSUME Core, Order, NEW p \in Prompts, Answer(p)
  PROVE  InOrder'
<1>1. ASSUME TurnStarted(p) PROVE InOrder'
  <2>1. SaveQueue /\ moving' = None /\ UNCHANGED <<queue, fenced, removed, accepted>>
    BY <1>1 DEF TurnStarted, history
  <2> QED BY <2>1, CalmInOrder DEF Keeps
<1>2. ASSUME NEW o, TurnCompleted(p, o) PROVE InOrder'
  <2>1. Started(p) /\ accepted' = accepted /\ removed' = removed
    BY <1>2 DEF TurnCompleted
  <2>2. moving = None
    BY <2>1, StartedFacts DEF Core, IInv, Engine
  <2>3. CASE redirect # None /\ BeginPendingRedirect
    <3>1. fenced \subseteq fenced'
      BY <2>3 DEF BeginPendingRedirect
    <3> QED BY <2>1, <2>3, <3>1, RedirectInOrder DEF Keeps
  <2>4. CASE Drains(o) /\ Promote(Head(queue), Tail(queue)) /\ moving' = moving
    BY <2>1, <2>2, <2>4, PromoteInOrder DEF Drains
  <2>5. CASE UNCHANGED <<queue, moving>> /\ Stay
    <3>1. SaveQueue /\ fenced' = fenced
      BY <2>5 DEF Stay
    <3> QED BY <2>1, <2>5, <3>1, CalmInOrder DEF Keeps
  <2> QED BY <1>2, <2>3, <2>4, <2>5 DEF TurnCompleted
<1> QED BY <1>1, <1>2 DEF Answer

LEMMA InOrderStep ==
  ASSUME ~Resends, Core, Once, Order, [Next]_vars
  PROVE  InOrder'
<1>1. ASSUME NEW p \in Prompts, TurnRefused(p) \/ FailedUnstarted(p) PROVE InOrder'
  <2>1. /\ GiveUpStart(p) \/ queue' = queue
        /\ SaveQueue /\ moving' = None /\ UNCHANGED <<accepted, removed, fenced>>
    BY <1>1 DEF TurnRefused, FailedUnstarted
  <2> QED BY <2>1, GiveUpInOrder DEF Keeps
<1>2. CASE HandleSessionClosed \/ HandleDisconnected
  <2>1. /\ SaveQueue /\ moving' = None /\ UNCHANGED <<accepted, removed, fenced>>
        /\ \/ queue' = queue
           \/ work.kind \in {"creating", "starting"} /\ GiveUpStart(work.prompt)
    BY <1>2 DEF HandleSessionClosed, HandleDisconnected, DropTurn
  <2>2. CASE queue' = queue
    BY <2>1, <2>2, CalmInOrder DEF Keeps
  <2>3. CASE work.kind \in {"creating", "starting"} /\ GiveUpStart(work.prompt)
    <3>1. work.prompt \in Prompts
      BY <2>3, WorkFacts DEF Core, IInv, TypeOK, EngineOK
    <3> QED BY <2>1, <2>3, <3>1, GiveUpInOrder DEF Keeps
  <2> QED BY <2>1, <2>2, <2>3
<1>3. ASSUME NEW p \in Prompts, InterruptRefused(p) \/ Evict(p) PROVE InOrder'
  <2>1. /\ SaveQueue \/ saved' = saved
        /\ UNCHANGED <<queue, moving, accepted, removed, fenced>>
    BY <1>3 DEF InterruptRefused, Evict, selected, history, durable
  <2> QED BY <2>1, CalmInOrder DEF Keeps
<1>4. ASSUME NEW g \in guiding, HandleSteerAccepted(g) PROVE InOrder'
  <2>1. UNCHANGED <<moving, accepted, removed, fenced>> /\ (SaveQueue \/ saved' = saved)
    BY <1>4 DEF HandleSteerAccepted
  <2>2. CASE queue' = queue
    BY <2>1, <2>2, CalmInOrder DEF Keeps
  <2>3. CASE Current(g) /\ queue' = Without(queue, steer.prompt)
    <3>1. moving = None
      BY <2>3 DEF Current, Active, Work, Core, IInv, Engine
    <3>2. \A x, y : Ahead(queue', x, y) => Ahead(queue, x, y)
      BY <2>3, AheadWithout DEF Core, IInv, TypeOK, QueueOK
    <3>3. saved'.queue = queue' \/ saved' = saved
      BY <2>1 DEF SaveQueue
    <3> QED BY <2>1, <3>1, <3>2, <3>3, FewerInOrder DEF Keeps
  <2> QED BY <1>4, <2>2, <2>3 DEF HandleSteerAccepted
<1>5. ASSUME NEW g \in guiding, SteerRefused(g) PROVE InOrder'
  <2>1. SaveQueue /\ UNCHANGED <<queue, moving, accepted, removed, fenced>>
    BY <1>5 DEF SteerRefused, history
  <2> QED BY <2>1, CalmInOrder DEF Keeps
<1>6. CASE CancelTurn \/ HandleSessionCreated \/ CreateRefused \/ ResumeRefused \/ HandleReady
  <2>1. SaveQueue /\ UNCHANGED <<queue, moving, accepted, removed, fenced>>
    BY <1>6 DEF CancelTurn, HandleSessionCreated, CreateRefused, ResumeRefused, HandleReady,
                selected, history
  <2> QED BY <2>1, CalmInOrder DEF Keeps
<1>7. CASE HandleSessionResumed
  <2>1. asked = "resume" /\ UNCHANGED <<moving, accepted, removed>>
    BY <1>7 DEF HandleSessionResumed, selected
  <2>2. moving = None
    BY <2>1 DEF Core, IInv, Engine
  <2>3. CASE HeadReady(queue, fence) /\ Promote(Head(queue), Tail(queue))
    BY <2>1, <2>2, <2>3, PromoteInOrder
  <2>4. CASE queue' = queue /\ SaveQueue /\ fenced' = fenced
    BY <2>1, <2>4, CalmInOrder DEF Keeps
  <2> QED BY <1>7, <2>3, <2>4 DEF HandleSessionResumed, Stay
<1>8. CASE Crash
  <2>1. queue' = <<>> /\ saved' = saved /\ moving' = None /\ UNCHANGED <<accepted, removed, fenced>>
    BY <1>8 DEF Crash, durable, history
  <2>2. \A x, y : Ahead(queue', x, y) => Ahead(queue, x, y)
    BY <2>1, AheadEmpty
  <2> QED BY <2>1, <2>2, FewerInOrder DEF Keeps
<1>9. CASE OpenSession
  <2>1. /\ work = Absent /\ queue' = saved.queue /\ saved' = saved
        /\ UNCHANGED <<moving, accepted, removed, fenced>>
    BY <1>9 DEF OpenSession, Live, durable, selected
  <2>2. moving = None
    BY <2>1 DEF Absent, Work, Core, IInv, Engine
  <2> QED BY <2>1, <2>2, ShrinkInOrder DEF Order, Keeps
<1>10. CASE UNCHANGED vars
  <2>1. UNCHANGED <<queue, saved, moving, accepted, removed, fenced>>
    BY <1>10 DEF vars, durable, engine, selected, history
  <2> QED BY <2>1, CalmInOrder DEF Keeps
<1> QED BY <1>1, <1>2, <1>3, <1>4, <1>5, <1>6, <1>7, <1>8, <1>9, <1>10, ClientInOrder,
           AnswerInOrder DEF Next

LEMMA GuidanceKept ==
  ASSUME Guidance, guided \subseteq guided', UNCHANGED taken, steer' \in {steer, None},
         guiding' \subseteq guiding
  PROVE  Guidance'
BY DEF Guidance, taken

LEMMA GuidanceStep ==
  ASSUME Guidance, [Next]_vars
  PROVE  Guidance'
<1>1. ASSUME NEW p \in Prompts, Client(p) PROVE Guidance'
  <2>1. ASSUME SteerNatively(p) PROVE Guidance'
    <3>1. PICK g : /\ g.prompt = p /\ steer' = g /\ guiding' = guiding \cup {g}
                   /\ guided' = guided \cup {p} /\ UNCHANGED taken
      BY <2>1 DEF SteerNatively
    <3> QED BY <3>1 DEF Guidance, taken
  <2>2. CASE ~SteerNatively(p)
    <3>1. UNCHANGED <<guided, taken, steer, guiding>>
      BY <1>1, <2>2 DEF Client, SendAgain, SubmitPrompt, EnqueuePrompt, RemoveQueuedPrompt,
                        SteerByRedirect, selected, provider, history
    <3> QED BY <3>1, GuidanceKept
  <2> QED BY <2>1, <2>2
<1>2. ASSUME NEW p \in Prompts,
             Answer(p) \/ TurnRefused(p) \/ FailedUnstarted(p) \/ InterruptRefused(p) \/ Evict(p)
      PROVE  Guidance'
  <2>1. UNCHANGED <<guided, taken, guiding>> /\ steer' \in {steer, None}
    BY <1>2 DEF Answer, TurnStarted, TurnCompleted, EndTurn, TurnRefused, FailedUnstarted,
                InterruptRefused, Evict, selected, provider, history
  <2> QED BY <2>1, GuidanceKept
<1>3. ASSUME NEW g \in guiding, HandleSteerAccepted(g) PROVE Guidance'
  <2>1. /\ guiding' \subseteq guiding /\ steer' = None /\ guided' = guided
        /\ absorbed' = absorbed \cup {g.prompt}
        /\ \/ mistaken' = mistaken
           \/ steer # None /\ mistaken' \subseteq mistaken \cup {steer.prompt}
    BY <1>3 DEF HandleSteerAccepted, Current
  <2> QED BY <2>1 DEF Guidance
<1>4. ASSUME NEW g \in guiding, SteerRefused(g) PROVE Guidance'
  <2>1. guiding' \subseteq guiding /\ steer' = None /\ UNCHANGED <<guided, taken>>
    BY <1>4 DEF SteerRefused, history
  <2> QED BY <2>1, GuidanceKept
<1>5. CASE \/ CancelTurn \/ HandleSessionCreated \/ CreateRefused \/ HandleSessionResumed
           \/ ResumeRefused \/ HandleReady \/ OpenSession \/ UNCHANGED vars
  <2>1. UNCHANGED <<guided, taken, guiding, steer>>
    BY <1>5 DEF CancelTurn, HandleSessionCreated, CreateRefused, HandleSessionResumed,
                ResumeRefused, HandleReady, OpenSession, vars, engine, provider, selected, history
  <2> QED BY <2>1, GuidanceKept
<1>6. CASE HandleSessionClosed \/ HandleDisconnected \/ Crash
  <2>1. UNCHANGED <<guided, taken>> /\ guiding' = {} /\ steer' = None
    BY <1>6 DEF HandleSessionClosed, HandleDisconnected, DropTurn, EndTurn, Crash, history
  <2> QED BY <2>1, GuidanceKept
<1> QED BY <1>1, <1>2, <1>3, <1>4, <1>5, <1>6 DEF Next

\* A step that leaves a reason to wait, or nothing that waits.
LEMMA RestHeld ==
  ASSUME (work # Idle \/ blocked # None \/ parked \/ fence # {} \/ Waits = {})',
         (ready \/ (work # Absent /\ parked /\ asked = "none" /\ turn = None))', native' # "none"
  PROVE  Rest'
BY DEF Rest

\* A step that changes neither the work nor what holds it.
LEMMA RestKept ==
  ASSUME Rest, UNCHANGED <<work, blocked, parked, ready, native>>, fence = {} \/ fence' # {},
         asked' \in {asked, "none"}, turn' \in {turn, None},
         Waits' \subseteq Waits, Disk' \subseteq Waits \cup Disk
  PROVE  Rest'
BY DEF Rest, IsBusy, HasActiveWork

\* Whoever answers is there.
LEMMA AnswerFacts ==
  ASSUME Core, Rest, turn # None \/ asked \in {"create", "resume"}
  PROVE  /\ ready /\ native # "none"
         /\ turn # None \/ asked = "resume" => native = "real"
BY DEF Core, IInv, Engine, Session, Rest

LEMMA BeginRest ==
  ASSUME Core, NEW p \in Prompts, NEW b \in BOOLEAN, BeginPrompt(p, b), ready', b => native # "none"
  PROVE  Rest'
<1>1. work' # Idle /\ native' # "none"
  BY BeginHolds DEF Core, IInv, TypeOK
<1> QED BY <1>1, RestHeld

LEMMA PromoteRest ==
  ASSUME Core, HeadReady(queue, fence), Promote(Head(queue), Tail(queue)), ready', native # "none",
         native' = native
  PROVE  Rest'
<1>1. PICK h \in Prompts : h = Head(queue)
  BY HeadWaits
<1>2. CASE BeginPrompt(h, TRUE)
  BY <1>2, BeginRest
<1>3. CASE blocked' = h
  <2>1. blocked' # None
    BY <1>3, PromptAssumption
  <2> QED BY <2>1, RestHeld
<1> QED BY <1>1, <1>2, <1>3 DEF Promote

LEMMA ClientRest ==
  ASSUME Core, Rest, NEW p \in Prompts, Client(p)
  PROVE  Rest'
<1>0. sess \in BOOLEAN /\ (sess => native # "none")
  BY DEF Core, IInv, TypeOK, EngineOK, Session
<1>1. ASSUME SendAgain(p) \/ SteerByRedirect(p) PROVE Rest'
  <2>1. UNCHANGED <<work, blocked, parked, ready, native, fence, queue, asked, turn>> /\ SaveQueue
    BY <1>1 DEF SendAgain, SteerByRedirect, provider, history
  <2>2. Waits' = Waits /\ Disk' = Waits
    BY <2>1, QueueSaved DEF Waits
  <2> QED BY <2>1, <2>2, RestKept
<1>2. ASSUME SubmitPrompt(p) PROVE Rest'
  <2>1. BeginPrompt(p, sess) /\ ready'
    BY <1>2 DEF SubmitPrompt
  <2> QED BY <1>0, <2>1, BeginRest
<1>3. ASSUME EnqueuePrompt(p) PROVE Rest'
  <2>1. IsBusy /\ UNCHANGED <<work, blocked, parked, ready, native, asked, turn>>
    BY <1>3 DEF EnqueuePrompt, provider
  <2>2. work # Idle \/ blocked # None
    BY <2>1 DEF IsBusy, HasActiveWork, Idle, Work
  <2>3. ready \/ (work # Absent /\ parked /\ asked = "none" /\ turn = None)
    BY DEF Rest, Core, IInv, TypeOK, EngineOK
  <2>4. native # "none"
    BY <2>1 DEF Rest
  <2> QED BY <2>1, <2>2, <2>3, <2>4, RestHeld
<1>4. ASSUME RemoveQueuedPrompt(p) PROVE Rest'
  <2> DEFINE q == Without(queue, p)
  <2>1. p \in Waits /\ native # "none" /\ UNCHANGED <<blocked, ready>>
    BY <1>4 DEF RemoveQueuedPrompt, Waits, Rest
  <2>2. q \in Seq(Prompts)
    BY WithoutHolds DEF Core, IInv, TypeOK, QueueOK
  <2>3. CASE ready /\ ~IsBusy /\ HeadReady(q, fence')
    <3>1. BeginPrompt(Head(q), sess)
      BY <1>4, <2>3 DEF RemoveQueuedPrompt
    <3>2. Head(q) \in Prompts
      BY <2>2, <2>3, TailHolds DEF HeadReady
    <3> QED BY <1>0, <2>1, <2>3, <3>1, <3>2, BeginRest
  <2>4. CASE ~(ready /\ ~IsBusy /\ HeadReady(q, fence'))
    <3>1. queue' = q /\ UNCHANGED <<native, work, asked, turn, parked>>
      BY <1>4, <2>4 DEF RemoveQueuedPrompt
    <3> HIDE DEF q
    <3>2. ready \/ (work # Absent /\ parked /\ asked = "none" /\ turn = None)
      BY DEF Rest, Core, IInv, TypeOK, EngineOK
    <3>3. ASSUME work = Idle, blocked = None, ~parked, fence' = {} PROVE Waits' = {}
      <4>1. ready /\ ~IsBusy
        BY <3>2, <3>3 DEF IsBusy, HasActiveWork, Idle, Work
      <4>2. q = <<>>
        BY <2>4, <3>3, <4>1 DEF HeadReady
      <4> QED BY <3>1, <4>2, EmptyHolds DEF Waits
    <3> QED BY <2>1, <3>1, <3>2, <3>3, RestHeld
  <2> QED BY <2>3, <2>4
<1>5. ASSUME SteerNatively(p) PROVE Rest'
  <2>1. work.kind = "active" /\ UNCHANGED <<work, ready, native>>
    BY <1>5 DEF SteerNatively, Steerable
  <2>2. turn # None /\ work # Idle
    <3>1. work.prompt \in Prompts /\ work # Idle
      BY <2>1, WorkFacts DEF Core, IInv, TypeOK, EngineOK
    <3>2. turn = Turn(work.prompt, "started")
      BY <2>1 DEF Core, IInv, Engine
    <3> QED BY <3>1, <3>2, PromptAssumption DEF Turn
  <2>3. ready /\ native # "none"
    BY <2>2, AnswerFacts
  <2> QED BY <2>1, <2>2, <2>3, RestHeld
<1> QED BY <1>1, <1>2, <1>3, <1>4, <1>5 DEF Client

LEMMA AnswerRest ==
  ASSUME Core, Rest, NEW p \in Prompts, Answer(p)
  PROVE  Rest'
<1>1. ASSUME TurnStarted(p) PROVE Rest'
  <2>1. ready' = ready /\ native' = native /\ turn # None /\ work' # Idle
    BY <1>1, SentFacts, BeginWork DEF TurnStarted
  <2> QED BY <2>1, AnswerFacts, RestHeld
<1>2. ASSUME NEW o, TurnCompleted(p, o) PROVE Rest'
  <2>1. Started(p) /\ ready' = ready /\ native' = native /\ fence' = fence
    BY <1>2 DEF TurnCompleted
  <2>2. ready' /\ native # "none"
    BY <2>1, StartedFacts, AnswerFacts
  <2>3. CASE redirect # None /\ BeginPendingRedirect
    <3>1. redirect \in Prompts
      BY <2>3 DEF Core, IInv, TypeOK, SelectionOK
    <3>2. CASE BeginPrompt(redirect, TRUE)
      BY <2>2, <3>1, <3>2, BeginRest
    <3>3. CASE parked' = TRUE
      BY <2>1, <2>2, <3>3, RestHeld
    <3> QED BY <2>3, <3>2, <3>3 DEF BeginPendingRedirect
  <2>4. CASE Drains(o) /\ Promote(Head(queue), Tail(queue))
    BY <2>1, <2>2, <2>4, PromoteRest DEF Drains
  <2>5. CASE /\ IF redirect # None THEN o = "failed" ELSE ~Drains(o)
             /\ parked' = (parked \/ redirect # None) /\ queue' = queue /\ Stay
    <3>1. parked' \/ blocked' # None \/ queue = <<>> \/ Head(queue) \in fence
      BY <2>5 DEF Drains, HeadReady, Stay
    <3>2. queue = <<>> => Waits' = {}
      BY <2>5, EmptyHolds DEF Waits
    <3> QED BY <2>1, <2>2, <3>1, <3>2, RestHeld
  <2> QED BY <1>2, <2>3, <2>4, <2>5 DEF TurnCompleted
<1> QED BY <1>1, <1>2 DEF Answer

LEMMA ResumedRest ==
  ASSUME Core, Rest, HandleSessionResumed
  PROVE  Rest'
<1>1. asked = "resume" /\ fence' = fence /\ native' = native /\ ready' = ready
  BY DEF HandleSessionResumed
<1>2. ready' /\ native' # "none"
  BY <1>1, AnswerFacts
<1>3. pending \subseteq Prompts
  BY DEF Core, IInv, TypeOK, LedgerOK, ToSet
<1>4. CASE HeadReady(queue, fence) /\ Promote(Head(queue), Tail(queue))
  BY <1>1, <1>2, <1>4, PromoteRest
<1>5. CASE ~HeadReady(queue, fence) /\ queue' = queue
  <2>1. fence' # {} \/ Waits' = {}
    BY <1>1, <1>5, EmptyHolds DEF HeadReady, Waits
  <2> QED BY <1>2, <2>1, RestHeld
<1>6. ASSUME NEW first \in pending, fence # {} \/ BeginPrompt(first, TRUE) PROVE Rest'
  <2>1. CASE fence # {}
    BY <1>1, <1>2, <2>1, RestHeld
  <2>2. CASE BeginPrompt(first, TRUE)
    BY <1>1, <1>2, <1>3, <2>2, BeginRest
  <2> QED BY <1>6, <2>1, <2>2
<1> QED BY <1>4, <1>5, <1>6 DEF HandleSessionResumed, Replays

LEMMA RestStep ==
  ASSUME Core, Rest, [Next]_vars
  PROVE  Rest'
<1>0. /\ WorkOK /\ ready \in BOOLEAN
      /\ ready \/ (work # Absent /\ parked /\ asked = "none" /\ turn = None)
  BY DEF Rest, Core, IInv, TypeOK, EngineOK
<1>1. ASSUME NEW p \in Prompts, TurnRefused(p) \/ FailedUnstarted(p) PROVE Rest'
  <2>1. Sent(p) /\ parked' = TRUE /\ ready' = ready /\ native' = native
    BY <1>1 DEF TurnRefused, FailedUnstarted
  <2>2. ready /\ native # "none"
    BY <2>1, SentFacts, AnswerFacts
  <2> QED BY <2>1, <2>2, RestHeld
<1>2. ASSUME NEW p \in Prompts, InterruptRefused(p) \/ Evict(p) PROVE Rest'
  <2>1. /\ UNCHANGED <<work, blocked, parked, ready, native, fence, queue, asked, turn>>
        /\ SaveQueue \/ saved' = saved
    BY <1>2 DEF InterruptRefused, Evict, durable, provider, history
  <2>2. Waits' = Waits /\ (Disk' = Waits \/ Disk' = Disk)
    BY <2>1, QueueSaved DEF Waits, Disk
  <2> QED BY <2>1, <2>2, RestKept
<1>3. ASSUME NEW g \in guiding, HandleSteerAccepted(g) \/ SteerRefused(g) PROVE Rest'
  <2>1. UNCHANGED <<work, blocked, parked, ready, native, asked, turn>>
    BY <1>3 DEF HandleSteerAccepted, SteerRefused, history
  <2>2. CASE UNCHANGED <<queue, fence>> /\ SaveQueue
    <3>1. Waits' = Waits /\ Disk' = Waits
      BY <2>2, QueueSaved DEF Waits
    <3> QED BY <2>1, <2>2, <3>1, RestKept
  <2>3. CASE Current(g)
    <3>1. work.kind = "active" /\ work # Idle
      BY <2>3 DEF Current, Active, Work, Idle
    <3>2. turn # None
      <4>1. work.prompt \in Prompts
        BY <1>0, <3>1, WorkFacts
      <4>2. turn = Turn(work.prompt, "started")
        BY <3>1 DEF Core, IInv, Engine
      <4> QED BY <4>1, <4>2, PromptAssumption DEF Turn
    <3> QED BY <2>1, <3>1, <3>2, AnswerFacts, RestHeld
  <2> QED BY <1>3, <2>2, <2>3 DEF HandleSteerAccepted, SteerRefused
<1>4. CASE CancelTurn
  <2>1. UNCHANGED <<work, blocked, parked, ready, native, fence, queue, asked, turn>> /\ SaveQueue
    BY <1>4 DEF CancelTurn, history
  <2>2. Waits' = Waits /\ Disk' = Waits
    BY <2>1, QueueSaved DEF Waits
  <2> QED BY <2>1, <2>2, RestKept
<1>5. CASE HandleSessionCreated \/ CreateRefused
  <2>1. /\ asked = "create" /\ ready' = ready /\ native' \in {native, "real"}
        /\ work' = Work("starting", work.prompt) \/ blocked' = work.prompt
    BY <1>5 DEF HandleSessionCreated, CreateRefused
  <2>2. work.prompt \in Prompts
    BY <1>0, <2>1, WorkFacts DEF Core, IInv, Engine
  <2>3. work' # Idle \/ blocked' # None
    BY <2>1, <2>2, PromptAssumption DEF Work, Idle
  <2> QED BY <2>1, <2>3, AnswerFacts, RestHeld
<1>6. CASE ResumeRefused
  <2>1. asked = "resume" /\ parked' = TRUE /\ ready' = ready /\ native' = native
    BY <1>6 DEF ResumeRefused
  <2> QED BY <2>1, AnswerFacts, RestHeld
<1>7. CASE HandleSessionClosed
  <2>1. /\ sess /\ work' = Idle /\ parked' = TRUE /\ turn' = None
        /\ UNCHANGED <<native, ready, asked>>
    BY <1>7 DEF HandleSessionClosed, DropTurn
  <2>2. native # "none" /\ work' # Absent
    BY <2>1, IdleWork DEF Core, IInv, Session
  <2> QED BY <1>0, <2>1, <2>2, RestHeld
<1>8. CASE HandleDisconnected
  <2>1. /\ parked' = TRUE /\ turn' = None /\ asked' = "none" /\ native' = native
        /\ work' = (IF work.kind = "resuming" THEN work ELSE Idle)
        /\ fence' = fence /\ SaveQueue /\ Live
        /\ work.kind \notin {"creating", "starting"} => UNCHANGED <<queue, blocked>>
    BY <1>8 DEF HandleDisconnected, DropTurn
  <2>2. work' # Absent
    BY <2>1, IdleWork DEF Live
  <2>3. ASSUME native = "none" PROVE Waits' \cup Disk' = {} /\ ~IsBusy'
    <3>1. Waits = {} /\ blocked = None /\ ~HasActiveWork
      BY <2>3 DEF Rest, IsBusy
    <3>2. queue' = queue /\ blocked' = None /\ work' = Idle
      BY <2>1, <3>1 DEF HasActiveWork
    <3>3. Waits' = {} /\ Disk' = Waits'
      BY <2>1, <3>1, <3>2, QueueSaved DEF Waits
    <3> QED BY <3>2, <3>3 DEF IsBusy, HasActiveWork, Idle, Work
  <2> QED BY <2>1, <2>2, <2>3 DEF Rest
<1>9. CASE HandleReady
  <2>1. /\ ~ready /\ ready' = TRUE /\ SaveQueue
        /\ UNCHANGED <<queue, work, blocked, parked, native>>
    BY <1>9 DEF HandleReady, history
  <2>2. Waits' = Waits /\ Disk' = Waits
    BY <2>1, QueueSaved DEF Waits
  <2> QED BY <2>1, <2>2 DEF Rest, IsBusy, HasActiveWork
<1>10. CASE Crash
  <2>1. work' = Absent /\ ready' = TRUE /\ queue' = <<>> /\ blocked' = None /\ UNCHANGED <<saved, native>>
    BY <1>10 DEF Crash, durable
  <2>2. Waits' = {} /\ Disk' = Disk
    BY <2>1, EmptyHolds DEF Waits, Disk
  <2> QED BY <2>1, <2>2 DEF Rest, IsBusy, HasActiveWork, Absent, Work
<1>11. CASE OpenSession
  <2>1. /\ work = Absent /\ queue' = saved.queue /\ UNCHANGED <<saved, native, ready, blocked>>
    BY <1>11 DEF OpenSession, Live, durable
  <2>2. ready /\ blocked = None
    BY <1>0, <2>1 DEF Core, IInv, Session
  <2>3. Waits' = Disk /\ Disk' = Disk
    BY <2>1 DEF Waits, Disk
  <2>4. \/ native = "none" /\ work' = Idle
        \/ native # "none" /\ work'.kind \in {"resuming", "creating"}
    <3>1. \/ native = "none" /\ work' = Idle
          \/ native = "real" /\ work' = Work("resuming", None)
          \/ native = "pending" /\ \E p \in ToSet(ledger) : work' = Work("creating", p)
      BY <1>11 DEF OpenSession, Core, IInv, TypeOK, LedgerOK
    <3> QED BY <3>1 DEF Work
  <2>5. CASE native = "none" /\ work' = Idle
    BY <2>1, <2>2, <2>3, <2>5 DEF Rest, IsBusy, HasActiveWork, Idle, Work
  <2>6. CASE native # "none" /\ work'.kind \in {"resuming", "creating"}
    <3>1. work' # Idle
      BY <2>6 DEF Idle, Work
    <3> QED BY <2>1, <2>2, <2>6, <3>1, RestHeld
  <2> QED BY <2>4, <2>5, <2>6
<1>12. CASE HandleSessionResumed
  BY <1>12, ResumedRest
<1>13. CASE UNCHANGED vars
  <2>1. UNCHANGED <<work, blocked, parked, ready, native, fence, queue, saved, asked, turn>>
    BY <1>13 DEF vars, durable, engine, provider, history
  <2>2. Waits' = Waits /\ Disk' = Disk
    BY <2>1 DEF Waits, Disk
  <2> QED BY <2>1, <2>2, RestKept
<1> QED BY <1>1, <1>2, <1>3, <1>4, <1>5, <1>6, <1>7, <1>8, <1>9, <1>10, <1>11, <1>12, <1>13,
           ClientRest, AnswerRest DEF Next

LEMMA OrderInit == Init => Order
<1> SUFFICES ASSUME Init PROVE Order
  OBVIOUS
<1>1. Waits = {} /\ Disk = {} /\ ~IsBusy
  BY EmptyHolds DEF Init, Waits, Disk, IsBusy, HasActiveWork, Idle, Work
<1>2. Ordered(queue, accepted, fenced) /\ Ordered(saved.queue, accepted, fenced)
  BY AheadEmpty DEF Init, Ordered
<1> QED BY <1>1, <1>2 DEF Init, Order, Rest, Guidance, InOrder

LEMMA OrderAlways ==
  ASSUME ~Resends
  PROVE  Spec => [](Core /\ Once /\ Order)
<1>1. Init => Core /\ Once /\ Order
  BY CoreInit, OnceInit, OrderInit
<1>2. (Core /\ Once /\ Order) /\ [Next]_vars => (Core /\ Once /\ Order)'
  BY CoreStep, OnceStep, InOrderStep, RestStep, GuidanceStep DEF Order
<1> QED BY <1>1, <1>2, PTL DEF Spec

\* Who starts a prompt that has no pending row and is neither selected nor held: a
\* client that finds the engine at rest, or the queue with its head.
LEMMA StartedBy ==
  ASSUME Core, Once, [Next]_vars, NEW p \in Prompts, Starts(p),
         p \notin pending \cup {redirect, blocked}
  PROVE  \/ work = Idle /\ blocked = None /\ fence = {} /\ queue' = queue
         \/ \E q \in Seq(Prompts) :
              /\ q # <<>> /\ p = Head(q) /\ queue' = Tail(q)
              /\ \A x, y : Ahead(q, x, y) => Ahead(queue, x, y)
<1> DEFINE Goal == \/ work = Idle /\ blocked = None /\ fence = {} /\ queue' = queue
                   \/ \E q \in Seq(Prompts) :
                        /\ q # <<>> /\ p = Head(q) /\ queue' = Tail(q)
                        /\ \A x, y : Ahead(q, x, y) => Ahead(queue, x, y)
<1>0. turn' = Turn(p, "sent") /\ turn' # turn /\ turn' # None
  BY PromptAssumption DEF Starts, Sent, Turn
<1>1. \A h, b : BeginPrompt(h, b) => b /\ h = p
  BY <1>0 DEF BeginPrompt, Turn
<1>2. queue \in Seq(Prompts)
  BY DEF Core, IInv, TypeOK, QueueOK
<1>3. HeadReady(queue, fence) /\ Promote(Head(queue), Tail(queue)) => Goal
  <2> SUFFICES ASSUME HeadReady(queue, fence), Promote(Head(queue), Tail(queue)) PROVE Goal
    OBVIOUS
  <2>1. BeginPrompt(Head(queue), TRUE) /\ queue' = Tail(queue)
    BY <1>0 DEF Promote
  <2>2. p = Head(queue) /\ queue # <<>>
    BY <1>1, <2>1 DEF HeadReady
  <2> QED BY <1>2, <2>1, <2>2
<1>4. ASSUME NEW r \in Prompts, Client(r) PROVE Goal
  <2>1. ASSUME SubmitPrompt(r) PROVE Goal
    <3>1. /\ work # Absent /\ ~HasActiveWork /\ fence = {} /\ queue' = queue
          /\ blocked = r \/ blocked = None
          /\ BeginPrompt(r, sess)
      BY <2>1 DEF SubmitPrompt, Offered, Live
    <3>2. work = Idle
      BY <3>1, WorkFacts DEF HasActiveWork, Core, IInv, TypeOK, EngineOK
    <3>3. r = p
      BY <1>1, <3>1
    <3> QED BY <3>1, <3>2, <3>3
  <2>2. ASSUME RemoveQueuedPrompt(r) PROVE Goal
    <3> DEFINE w == Without(queue, r)
    <3>1. HeadReady(w, fence') /\ BeginPrompt(Head(w), sess) /\ queue' = Tail(w)
      BY <1>0, <2>2 DEF RemoveQueuedPrompt
    <3>2. w \in Seq(Prompts) /\ \A x, y : Ahead(w, x, y) => Ahead(queue, x, y)
      BY <1>2, WithoutHolds, AheadWithout DEF Core, IInv, TypeOK, QueueOK
    <3>3. p = Head(w) /\ w # <<>>
      BY <1>1, <3>1 DEF HeadReady
    <3> QED BY <3>1, <3>2, <3>3
  <2>3. ASSUME SendAgain(r) \/ EnqueuePrompt(r) \/ SteerNatively(r) \/ SteerByRedirect(r)
        PROVE  Goal
    BY <1>0, <2>3 DEF SendAgain, EnqueuePrompt, SteerNatively, SteerByRedirect, provider
  <2> QED BY <1>4, <2>1, <2>2, <2>3 DEF Client
<1>5. ASSUME NEW r \in Prompts, Answer(r) PROVE Goal
  <2>1. ASSUME TurnStarted(r) PROVE Goal
    BY <1>0, <2>1 DEF TurnStarted, Turn
  <2>2. ASSUME NEW o, TurnCompleted(r, o) PROVE Goal
    <3>1. CASE redirect # None /\ BeginPendingRedirect
      <4>1. BeginPrompt(redirect, TRUE)
        BY <1>0, <3>1 DEF BeginPendingRedirect
      <4> QED BY <1>1, <4>1
    <3>2. CASE Drains(o) /\ Promote(Head(queue), Tail(queue))
      BY <1>3, <3>2 DEF Drains
    <3>3. CASE turn' = None
      BY <1>0, <3>3
    <3> QED BY <2>2, <3>1, <3>2, <3>3 DEF TurnCompleted
  <2> QED BY <1>5, <2>1, <2>2 DEF Answer
<1>6. CASE HandleSessionCreated
  <2>1. asked = "create" /\ turn' \in {Turn(work.prompt, "sent"), turn}
    BY <1>6 DEF HandleSessionCreated
  <2>2. work.prompt = p
    BY <1>0, <2>1 DEF Turn
  <2>3. work.kind = "creating" /\ native = "pending" /\ work # Absent /\ work # Idle
    BY <2>1 DEF Core, IInv, Engine, Session, Absent, Idle, Work
  <2>4. Settled = {} /\ \E r \in Prompts : Rows = {r} /\ work = Work("creating", r)
    BY <2>3 DEF Once
  <2>5. p \in Rows
    BY <2>2, <2>4 DEF Work
  <2> QED BY <2>4, <2>5 DEF Settled, Rows
<1>7. CASE HandleSessionResumed
  <2>1. CASE HeadReady(queue, fence) /\ Promote(Head(queue), Tail(queue))
    BY <1>3, <2>1
  <2>2. CASE turn' = turn
    BY <1>0, <2>2
  <2>3. ASSUME NEW first \in pending, BeginPrompt(first, TRUE) PROVE Goal
    <3>1. first = p
      BY <1>1, <2>3
    <3> QED BY <2>3, <3>1
  <2> QED BY <1>7, <2>1, <2>2, <2>3 DEF HandleSessionResumed, Replays
<1>8. CASE \/ \E r \in Prompts : TurnRefused(r) \/ FailedUnstarted(r) \/ InterruptRefused(r) \/ Evict(r)
           \/ \E g \in guiding : HandleSteerAccepted(g) \/ SteerRefused(g)
           \/ CancelTurn \/ CreateRefused \/ ResumeRefused \/ HandleSessionClosed
           \/ HandleDisconnected \/ HandleReady \/ Crash \/ OpenSession \/ UNCHANGED vars
  <2>1. turn' \in {turn, None}
    BY <1>8 DEF TurnRefused, FailedUnstarted, InterruptRefused, Evict, HandleSteerAccepted,
                SteerRefused, CancelTurn, CreateRefused, ResumeRefused, HandleSessionClosed,
                HandleDisconnected, DropTurn, HandleReady, Crash, OpenSession, vars, provider
  <2> QED BY <1>0, <2>1
<1>9. Goal
  BY <1>4, <1>5, <1>6, <1>7, <1>8 DEF Next
<1> QED BY <1>9

\* Where clients repeat no command while the session resumes, no prompt overtakes
\* one that was accepted earlier and still waits: not by a removal ahead of it, a
\* redirect that comes back, a restart, or a client that finds the engine idle.
THEOREM StartsInOrderAlways ==
  ASSUME ~Resends
  PROVE  Spec => StartsInOrder
<1> DEFINE Turns(p) ==
             Starts(p) /\ p \notin pending \cup {redirect, blocked} /\ ~parked =>
               \A i, j \in DOMAIN accepted :
                 i < j /\ accepted[j] = p /\ accepted[i] \notin fenced =>
                   ~Contains(queue', accepted[i])
<1>1. ASSUME Core /\ Once /\ Order, Core', [Next]_vars, NEW p \in Prompts PROVE Turns(p)
  <2> SUFFICES ASSUME Starts(p), p \notin pending \cup {redirect, blocked}, ~parked,
                      NEW i \in DOMAIN accepted, NEW j \in DOMAIN accepted,
                      i < j, accepted[j] = p, accepted[i] \notin fenced,
                      Contains(queue', accepted[i])
               PROVE  FALSE
    OBVIOUS
  <2>1. Ahead(accepted, accepted[i], p)
    BY DEF Ahead
  <2>2. accepted[i] \in Waits' /\ accepted[i] \in Prompts
    <3>1. queue' \in Seq(Prompts)
      BY <1>1 DEF Core, IInv, TypeOK, QueueOK
    <3>2. accepted[i] \in ToSet(queue')
      BY <3>1, ContainsIsMembership
    <3> QED BY <3>1, <3>2 DEF Waits, ToSet
  <2>3. CASE work = Idle /\ blocked = None /\ fence = {} /\ queue' = queue
    <3>1. Waits = {}
      BY <1>1, <2>3 DEF Order, Rest
    <3> QED BY <2>2, <2>3, <3>1 DEF Waits
  <2>4. ASSUME NEW q \in Seq(Prompts), q # <<>>, p = Head(q), queue' = Tail(q),
               \A x, y : Ahead(q, x, y) => Ahead(queue, x, y)
        PROVE  FALSE
    <3>1. accepted[i] \in ToSet(Tail(q))
      BY <2>2, <2>4 DEF Waits
    <3>2. Ahead(queue, p, accepted[i])
      BY <2>4, <3>1, AheadTail
    <3> QED BY <1>1, <2>1, <2>2, <3>2 DEF Order, InOrder, Ordered
  <2> QED BY <1>1, <2>3, <2>4, StartedBy
<1>2. (Core /\ Once /\ Order) /\ (Core /\ Once /\ Order)' /\ [Next]_vars
        => [\A p \in Prompts : Turns(p)]_vars
  BY <1>1
<1> QED BY <1>2, OrderAlways, PTL DEF StartsInOrder, Spec

=============================================================================
