------------------------------ MODULE Ids_proofs ------------------------------
(***************************************************************************)
(* What the operations of Ids do to a list of identifiers that has not     *)
(* wrapped around: lemmas for the components that own such a list.         *)
(***************************************************************************)
EXTENDS Ids, SequenceTheorems, TLAPS

\* A list as the operations build it before the counter reaches its end: no
\* identifier twice, none beyond the last one given.
GoodIds(s) ==
  /\ s \in [ids : Seq(1..IdMax), cur : 0..IdMax]
  /\ Len(s.ids) <= s.cur
  /\ \A i \in 1..Len(s.ids) : s.ids[i] <= s.cur
  /\ \A i, j \in 1..Len(s.ids) : s.ids[i] = s.ids[j] => i = j

USE IdMaxAssumption

\* Before anything is allocated.
LEMMA NoIdsGood == GoodIds(NoIds) /\ Allocated(NoIds) = {}
<1>1. <<>> \in Seq(1..IdMax) /\ Len(<<>>) = 0
  BY EmptySeq
<1> QED  BY <1>1 DEF GoodIds, NoIds, kInvalid, Allocated, Range

\* The identifier that is given is the successor of the last one.
THEOREM NextIsSuccessor ==
  ASSUME NEW s, GoodIds(s), s.cur < kMaxNumOfIds
  PROVE  /\ ~Full(s)
         /\ NextFree(s) = s.cur + 1
         /\ s.cur + 1 \in 1..IdMax
         /\ s.cur + 1 \notin Allocated(s)
<1>1. Len(s.ids) \in Nat /\ DOMAIN s.ids = 1..Len(s.ids)
  BY LenProperties DEF GoodIds
<1>2. s.cur + 1 \in 1..IdMax /\ s.cur \in Nat
  BY DEF GoodIds, kMaxNumOfIds
<1>3. \A i \in Allocated(s) : i <= s.cur
  BY <1>1 DEF GoodIds, Allocated, Range
<1>4. s.cur + 1 \notin Allocated(s)
  BY <1>2, <1>3
<1> DEFINE after == {i \in Free(s) : i > s.cur}
<1>5. s.cur + 1 \in after /\ \A i \in after : i \in Nat /\ s.cur + 1 <= i
  BY <1>2, <1>4 DEF Free
<1> HIDE DEF after
<1>6. \A x \in after : (\A y \in after : x <= y) => x = s.cur + 1
  <2> SUFFICES ASSUME NEW x \in after, \A y \in after : x <= y
               PROVE  x = s.cur + 1
    OBVIOUS
  <2> QED  BY <1>2, <1>5
<1>7. Min(after) = s.cur + 1
  BY <1>5, <1>6, Zenon DEF Min
<1>8. NextFree(s) = s.cur + 1
  BY <1>5, <1>7 DEF NextFree, after
<1> QED  BY <1>1, <1>2, <1>4, <1>8 DEF Full, GoodIds, kMaxNumOfIds

\* allocate_id appends that identifier.
LEMMA AllocateAppends ==
  ASSUME NEW s, GoodIds(s), s.cur < kMaxNumOfIds
  PROVE  /\ allocate_id(s) = s.cur + 1
         /\ GoodIds(AfterAllocate(s))
         /\ AfterAllocate(s).cur = s.cur + 1
         /\ AfterAllocate(s).ids = Append(s.ids, s.cur + 1)
         /\ Allocated(AfterAllocate(s)) = Allocated(s) \cup {s.cur + 1}
<1> DEFINE n == s.cur + 1
           t == Append(s.ids, n)
<1>1. n \in 1..IdMax /\ n \notin Allocated(s) /\ s.cur \in Nat
  BY NextIsSuccessor DEF GoodIds
<1>2. allocate_id(s) = n /\ AfterAllocate(s) = [ids |-> t, cur |-> n]
  BY NextIsSuccessor DEF allocate_id, AfterAllocate
<1>3. s.ids \in Seq(1..IdMax) /\ Len(s.ids) \in Nat
      /\ DOMAIN s.ids = 1..Len(s.ids)
  BY LenProperties DEF GoodIds
<1>4. /\ t \in Seq(1..IdMax) /\ Len(t) = Len(s.ids) + 1
      /\ DOMAIN t = 1..(Len(s.ids) + 1)
      /\ t[Len(s.ids) + 1] = n
      /\ \A i \in 1..Len(s.ids) : t[i] = s.ids[i]
  BY <1>1, <1>3, AppendProperties, LenProperties
<1> HIDE DEF t
<1>5. \A i \in 1..Len(s.ids) : s.ids[i] \in Allocated(s)
  BY <1>3 DEF Allocated, Range
<1>6. Range(t) = Range(s.ids) \cup {n}
  <2>1. Range(t) \subseteq Range(s.ids) \cup {n}
    <3> SUFFICES ASSUME NEW i \in DOMAIN t
                 PROVE  t[i] \in Range(s.ids) \cup {n}
      BY DEF Range
    <3>1. i \in 1..Len(s.ids) \/ i = Len(s.ids) + 1
      BY <1>3, <1>4
    <3> QED  BY <3>1, <1>3, <1>4 DEF Range
  <2>2. Range(s.ids) \subseteq Range(t)
    <3> SUFFICES ASSUME NEW i \in DOMAIN s.ids PROVE s.ids[i] \in Range(t)
      BY DEF Range
    <3>1. i \in DOMAIN t /\ t[i] = s.ids[i]
      BY <1>3, <1>4
    <3> QED  BY <3>1 DEF Range
  <2>3. n \in Range(t)
    <3>1. Len(s.ids) + 1 \in DOMAIN t
      BY <1>3, <1>4
    <3> QED  BY <3>1, <1>4 DEF Range
  <2> QED  BY <2>1, <2>2, <2>3
<1>7. \A i \in 1..Len(t) : t[i] <= n
  <2> SUFFICES ASSUME NEW i \in 1..Len(t) PROVE t[i] <= n
    OBVIOUS
  <2>1. CASE i = Len(s.ids) + 1
    BY <2>1, <1>1, <1>4
  <2>2. CASE i \in 1..Len(s.ids)
    <3>1. t[i] = s.ids[i] /\ s.ids[i] <= s.cur /\ s.ids[i] \in 1..IdMax
      BY <2>2, <1>3, <1>4, ElementOfSeq DEF GoodIds
    <3> QED  BY <3>1, <1>1
  <2> QED  BY <2>1, <2>2, <1>3, <1>4
<1>8. \A i, j \in 1..Len(t) : t[i] = t[j] => i = j
  <2> SUFFICES ASSUME NEW i \in 1..Len(t), NEW j \in 1..Len(t), t[i] = t[j]
               PROVE  i = j
    OBVIOUS
  <2>a. /\ i \in 1..Len(s.ids) \/ i = Len(s.ids) + 1
        /\ j \in 1..Len(s.ids) \/ j = Len(s.ids) + 1
    <3>1. 1..Len(t) = 1..(Len(s.ids) + 1)
      BY <1>4
    <3>2. \A m \in Nat : \A x \in 1..(m + 1) : x \in 1..m \/ x = m + 1
      OBVIOUS
    <3> QED  BY <3>1, <3>2, <1>3
  <2>b. \A x \in 1..Len(s.ids) : t[x] # n
    BY <1>1, <1>4, <1>5
  <2>1. CASE i = Len(s.ids) + 1
    BY <2>1, <2>a, <2>b, <1>4
  <2>2. CASE j = Len(s.ids) + 1
    BY <2>2, <2>a, <2>b, <1>4
  <2>3. CASE i \in 1..Len(s.ids) /\ j \in 1..Len(s.ids)
    BY <2>3, <1>4 DEF GoodIds
  <2> QED  BY <2>a, <2>1, <2>2, <2>3
<1>9. Len(t) <= n
  BY <1>3, <1>4, <1>1 DEF GoodIds
<1>10. GoodIds([ids |-> t, cur |-> n])
  BY <1>1, <1>4, <1>7, <1>8, <1>9 DEF GoodIds
<1> QED  BY <1>2, <1>6, <1>10 DEF Allocated, t

\* Taking away the element at one position.
LEMMA RemovePosition ==
  ASSUME NEW s, GoodIds(s), NEW k \in 1..Len(s.ids), NEW t,
         t \in Seq(1..IdMax), Len(t) = Len(s.ids) - 1,
         \A j \in 1..(Len(s.ids) - 1) :
            t[j] = IF j < k THEN s.ids[j] ELSE s.ids[j + 1]
  PROVE  /\ GoodIds([s EXCEPT !.ids = t])
         /\ Range(t) = Range(s.ids) \ {s.ids[k]}
<1> DEFINE m == Len(s.ids)
           u == s.ids
           at == [j \in 1..(m - 1) |-> IF j < k THEN j ELSE j + 1]
<1>1. /\ u \in Seq(1..IdMax) /\ m \in Nat /\ DOMAIN u = 1..m
      /\ DOMAIN t = 1..(m - 1) /\ s.cur \in Nat /\ k \in 1..m
      /\ Len(t) = m - 1
  BY LenProperties DEF GoodIds
<1>2. \A i, j \in 1..m : u[i] = u[j] => i = j
  BY DEF GoodIds
<1>3. \A i \in 1..m : u[i] <= s.cur
  BY DEF GoodIds
<1>4. \A j \in 1..(m - 1) : t[j] = IF j < k THEN u[j] ELSE u[j + 1]
  OBVIOUS
<1>5. m <= s.cur
  BY DEF GoodIds
<1> HIDE DEF m, u
<1>6. \A j \in 1..(m - 1) :
        at[j] \in 1..m /\ at[j] # k /\ t[j] = u[at[j]]
  <2> SUFFICES ASSUME NEW j \in 1..(m - 1)
               PROVE  at[j] \in 1..m /\ at[j] # k /\ t[j] = u[at[j]]
    OBVIOUS
  <2>1. at[j] = IF j < k THEN j ELSE j + 1
    OBVIOUS
  <2>2. at[j] \in 1..m /\ at[j] # k
    BY <2>1, <1>1
  <2>3. t[j] = u[at[j]]
    BY <2>1, <1>4
  <2> QED  BY <2>2, <2>3
<1>7. \A i, j \in 1..(m - 1) : at[i] = at[j] => i = j
  <2> SUFFICES ASSUME NEW i \in 1..(m - 1), NEW j \in 1..(m - 1), at[i] = at[j]
               PROVE  i = j
    OBVIOUS
  <2>1. /\ at[i] = IF i < k THEN i ELSE i + 1
        /\ at[j] = IF j < k THEN j ELSE j + 1
    OBVIOUS
  <2>2. i \in Nat /\ j \in Nat /\ k \in Nat
    BY <1>1
  <2> HIDE DEF at
  <2> QED  BY ONLY <2>1, <2>2, at[i] = at[j]
<1>8. \A i \in 1..m : i # k => \E j \in 1..(m - 1) : at[j] = i
  <2> SUFFICES ASSUME NEW i \in 1..m, i # k
               PROVE  \E j \in 1..(m - 1) : at[j] = i
    OBVIOUS
  <2>1. CASE i < k
    <3>1. i \in 1..(m - 1) /\ at[i] = i
      BY <2>1, <1>1
    <3> QED  BY <3>1
  <2>2. CASE i > k
    <3>1. i - 1 \in 1..(m - 1) /\ at[i - 1] = i
      BY <2>2, <1>1
    <3> QED  BY <3>1
  <2> QED  BY <2>1, <2>2, <1>1
<1> HIDE DEF at
<1>9. \A i, j \in 1..(m - 1) : t[i] = t[j] => i = j
  <2> SUFFICES ASSUME NEW i \in 1..(m - 1), NEW j \in 1..(m - 1), t[i] = t[j]
               PROVE  i = j
    OBVIOUS
  <2>1. /\ at[i] \in 1..m /\ at[j] \in 1..m
        /\ u[at[i]] = u[at[j]]
    BY <1>6
  <2>2. at[i] = at[j]
    BY <2>1, <1>2
  <2> QED  BY <2>2, <1>7
<1>10. \A i \in 1..(m - 1) : t[i] <= s.cur
  <2> SUFFICES ASSUME NEW i \in 1..(m - 1) PROVE t[i] <= s.cur
    OBVIOUS
  <2>1. at[i] \in 1..m /\ t[i] = u[at[i]]
    BY <1>6
  <2> QED  BY <2>1, <1>3
<1>11. Len(t) <= s.cur
  BY <1>1, <1>5
<1>12. GoodIds([s EXCEPT !.ids = t])
  BY <1>1, <1>9, <1>10, <1>11 DEF GoodIds
<1>13. Range(t) \subseteq Range(u) \ {u[k]}
  <2> SUFFICES ASSUME NEW j \in 1..(m - 1)
               PROVE  t[j] \in Range(u) \ {u[k]}
    BY <1>1 DEF Range
  <2>1. at[j] \in 1..m /\ at[j] # k /\ t[j] = u[at[j]]
    BY <1>6
  <2>2. u[at[j]] # u[k]
    BY <2>1, <1>1, <1>2
  <2> QED  BY <2>1, <2>2, <1>1 DEF Range
<1>14. Range(u) \ {u[k]} \subseteq Range(t)
  <2> SUFFICES ASSUME NEW i \in 1..m, i # k PROVE u[i] \in Range(t)
    BY <1>1 DEF Range
  <2>1. PICK j \in 1..(m - 1) : at[j] = i
    BY <1>8
  <2> QED  BY <2>1, <1>1, <1>6 DEF Range
<1> QED  BY <1>12, <1>13, <1>14 DEF u

\* release_last_allocated_id takes away the last element, whatever it is.
LEMMA ReleaseLastTakesLast ==
  ASSUME NEW s, GoodIds(s), s.ids # <<>>
  PROVE  /\ GoodIds(AfterReleaseLast(s))
         /\ AfterReleaseLast(s).cur = s.cur
         /\ Allocated(AfterReleaseLast(s)) =
              Allocated(s) \ {s.ids[Len(s.ids)]}
<1> DEFINE k == Len(s.ids)
           t == SubSeq(s.ids, 1, k - 1)
<1>1. s.ids \in Seq(1..IdMax) /\ k \in Nat /\ DOMAIN s.ids = 1..k /\ k > 0
  BY LenProperties, EmptySeq DEF GoodIds
<1>2. \A i \in 1..(k - 1) : s.ids[i] \in 1..IdMax
  BY <1>1, ElementOfSeq
<1>3. /\ t \in Seq(1..IdMax) /\ Len(t) = k - 1
      /\ \A j \in 1..(k - 1) : t[j] = s.ids[j]
  BY <1>1, <1>2, SubSeqProperties
<1>4. AfterReleaseLast(s) = [s EXCEPT !.ids = t]
  BY DEF AfterReleaseLast, Front
<1> HIDE DEF t
<1>a. \A j \in 1..(k - 1) : t[j] = IF j < k THEN s.ids[j] ELSE s.ids[j + 1]
  BY <1>1, <1>3
<1>b. k \in 1..Len(s.ids)
  BY <1>1
<1>5. /\ GoodIds([s EXCEPT !.ids = t])
      /\ Range(t) = Range(s.ids) \ {s.ids[k]}
  <2>1. /\ t \in Seq(1..IdMax) /\ Len(t) = Len(s.ids) - 1
        /\ \A j \in 1..(Len(s.ids) - 1) : t[j] = IF j < k THEN s.ids[j] ELSE s.ids[j + 1]
    BY <1>a, <1>3
  <2> HIDE DEF k
  <2> QED  BY <2>1, <1>b, RemovePosition
<1>6. [s EXCEPT !.ids = t].ids = t /\ [s EXCEPT !.ids = t].cur = s.cur
  BY DEF GoodIds
<1> QED  BY <1>4, <1>5, <1>6 DEF Allocated

\* release_id takes away the identifier it is given; the last element stays
\* the last one when it is another.
LEMMA ReleaseTakesId ==
  ASSUME NEW s, GoodIds(s), NEW id \in Allocated(s)
  PROVE  /\ GoodIds(AfterRelease(s, id))
         /\ AfterRelease(s, id).cur = s.cur
         /\ Allocated(AfterRelease(s, id)) = Allocated(s) \ {id}
         /\ s.ids[Len(s.ids)] # id =>
              /\ AfterRelease(s, id).ids # <<>>
              /\ AfterRelease(s, id).ids[Len(AfterRelease(s, id).ids)] =
                   s.ids[Len(s.ids)]
<1>a. DOMAIN s.ids = 1..Len(s.ids)
  BY LenProperties DEF GoodIds
<1>1. PICK k \in 1..Len(s.ids) : s.ids[k] = id
  BY <1>a DEF Allocated, Range
<1>2. s.ids \in Seq(1..IdMax) /\ Len(s.ids) \in Nat
      /\ DOMAIN s.ids = 1..Len(s.ids) /\ k \in 1..Len(s.ids)
  BY <1>1, LenProperties DEF GoodIds
<1>3. {i \in 1..Len(s.ids) : s.ids[i] = id} = {k}
  BY <1>1, <1>2 DEF GoodIds
<1>4. Min({k}) = k
  BY <1>2 DEF Min
<1> DEFINE t == SubSeq(s.ids, 1, k - 1) \o SubSeq(s.ids, k + 1, Len(s.ids))
<1>5. AfterRelease(s, id) = [s EXCEPT !.ids = t]
  BY <1>1, <1>2, <1>3, <1>4
     DEF AfterRelease, RemoveFirst, SelectInSeq, RemoveAt
<1>6. \A i \in 1..Len(s.ids) : s.ids[i] \in 1..IdMax
  BY <1>2, ElementOfSeq
<1> DEFINE before == SubSeq(s.ids, 1, k - 1)
           behind == SubSeq(s.ids, k + 1, Len(s.ids))
<1>7. /\ before \in Seq(1..IdMax) /\ Len(before) = k - 1
      /\ \A j \in 1..(k - 1) : before[j] = s.ids[j]
  BY <1>2, <1>6, SubSeqProperties
<1>8. /\ behind \in Seq(1..IdMax) /\ Len(behind) = Len(s.ids) - k
      /\ \A j \in 1..(Len(s.ids) - k) : behind[j] = s.ids[j + k]
  <2>1. /\ behind \in Seq(1..IdMax)
        /\ Len(behind) = IF k + 1 <= Len(s.ids)
                           THEN Len(s.ids) - (k + 1) + 1 ELSE 0
        /\ \A i \in 1..(Len(s.ids) - (k + 1) + 1) :
             behind[i] = s.ids[(k + 1) + i - 1]
    BY <1>2, <1>6, SubSeqProperties
  <2>2. Len(behind) = Len(s.ids) - k
    BY <2>1, <1>2
  <2>3. ASSUME NEW j \in 1..(Len(s.ids) - k) PROVE behind[j] = s.ids[j + k]
    <3>1. (k + 1) + j - 1 = j + k /\ j \in 1..(Len(s.ids) - (k + 1) + 1)
      BY <1>2
    <3> QED  BY <2>1, <3>1
  <2> QED  BY <2>1, <2>2, <2>3
<1> HIDE DEF before, behind
<1>c. /\ before \o behind \in Seq(1..IdMax)
      /\ Len(before \o behind) = Len(s.ids) - 1
      /\ \A j \in 1..(Len(s.ids) - 1) :
           (before \o behind)[j] =
             IF j <= k - 1 THEN before[j] ELSE behind[j - (k - 1)]
  <2>1. /\ before \o behind \in Seq(1..IdMax)
        /\ Len(before \o behind) = Len(before) + Len(behind)
        /\ \A j \in 1..(Len(before) + Len(behind)) :
             (before \o behind)[j] =
               IF j <= Len(before) THEN before[j]
                                   ELSE behind[j - Len(before)]
    BY <1>7, <1>8, ConcatProperties
  <2>2. Len(before) + Len(behind) = Len(s.ids) - 1
    BY <1>2, <1>7, <1>8
  <2> QED  BY <2>1, <2>2, <1>7
<1>d. \A j \in 1..(Len(s.ids) - 1) :
        (before \o behind)[j] = IF j < k THEN s.ids[j] ELSE s.ids[j + 1]
  <2> SUFFICES ASSUME NEW j \in 1..(Len(s.ids) - 1)
               PROVE  (before \o behind)[j] =
                        IF j < k THEN s.ids[j] ELSE s.ids[j + 1]
    OBVIOUS
  <2>1. CASE j < k
    <3>1. j \in 1..(k - 1)
      BY <2>1, <1>2
    <3> QED  BY <2>1, <3>1, <1>c, <1>7, <1>2
  <2>2. CASE ~(j < k)
    <3>1. j - (k - 1) \in 1..(Len(s.ids) - k) /\ (j - (k - 1)) + k = j + 1
          /\ ~(j <= k - 1)
      BY <2>2, <1>2
    <3>2. behind[j - (k - 1)] = s.ids[j + 1]
      BY <3>1, <1>8
    <3> QED  BY <2>2, <3>1, <3>2, <1>c
  <2> QED  BY <2>1, <2>2
<1>9. t = before \o behind
  BY DEF before, behind
<1> HIDE DEF t
<1>10. /\ GoodIds([s EXCEPT !.ids = t])
       /\ Range(t) = Range(s.ids) \ {id}
  <2>1. /\ t \in Seq(1..IdMax) /\ Len(t) = Len(s.ids) - 1
        /\ \A j \in 1..(Len(s.ids) - 1) : t[j] = IF j < k THEN s.ids[j] ELSE s.ids[j + 1]
    BY <1>9, <1>c, <1>d
  <2>2. GoodIds([s EXCEPT !.ids = t]) /\ Range(t) = Range(s.ids) \ {s.ids[k]}
    BY <2>1, <1>2, RemovePosition
  <2> QED  BY <2>2, <1>1
<1>11. [s EXCEPT !.ids = t].ids = t /\ [s EXCEPT !.ids = t].cur = s.cur
  BY DEF GoodIds
<1>12. s.ids[Len(s.ids)] # id => t # <<>> /\ t[Len(t)] = s.ids[Len(s.ids)]
  <2> SUFFICES ASSUME s.ids[Len(s.ids)] # id
               PROVE  t # <<>> /\ t[Len(t)] = s.ids[Len(s.ids)]
    OBVIOUS
  <2>1. k < Len(s.ids)
    BY <1>1, <1>2
  <2>2. Len(t) \in 1..(Len(s.ids) - 1) /\ Len(t) + 1 = Len(s.ids)
        /\ ~(Len(t) < k) /\ Len(t) = Len(s.ids) - 1
    BY <2>1, <1>2, <1>9, <1>c
  <2>3. t[Len(t)] = s.ids[Len(t) + 1]
    BY <2>2, <1>9, <1>d
  <2> QED  BY <2>2, <2>3, EmptySeq
<1> QED  BY <1>5, <1>10, <1>11, <1>12 DEF Allocated
=============================================================================
