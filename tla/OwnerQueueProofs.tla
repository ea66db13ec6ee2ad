--------------------------- MODULE OwnerQueueProofs ---------------------------
(***************************************************************************)
(* Proofs about OwnerQueue, for any number of workers, any limits and any  *)
(* number of submissions.  First what the queue's operators do to          *)
(* sequences of requests, then the invariant, then the refinement.         *)
(***************************************************************************)
EXTENDS OwnerQueue, SequenceTheorems, TLAPS

\* The elements of a sequence are its values at 1..Len.
LEMMA ElementsAre ==
  ASSUME NEW S, NEW s \in Seq(S)
  PROVE  /\ Elements(s) = {s[i] : i \in 1..Len(s)}
         /\ Elements(s) \subseteq S
         /\ Distinct(s) <=> \A i, j \in 1..Len(s) : s[i] = s[j] => i = j
BY LenProperties, ElementOfSeq DEF Elements, Distinct

\* Appending a request adds it to the elements, and keeps them distinct if it is new.
LEMMA ElementsOfAppend ==
  ASSUME NEW S, NEW s \in Seq(S), NEW e \in S
  PROVE  /\ Elements(Append(s, e)) = Elements(s) \union {e}
         /\ Distinct(s) /\ e \notin Elements(s) => Distinct(Append(s, e))
<1> DEFINE t == Append(s, e)
<1>1. /\ t \in Seq(S)
      /\ Len(t) = Len(s) + 1
      /\ \A i \in 1..Len(s) : t[i] = s[i]
      /\ t[Len(s) + 1] = e
  BY AppendProperties
<1>2. Len(s) \in Nat
  BY LenProperties
<1>3. Elements(s) = {s[i] : i \in 1..Len(s)}
  BY ElementsAre
<1>4. Elements(t) = {t[i] : i \in 1..(Len(s) + 1)}
  BY <1>1, ElementsAre
<1> HIDE DEF t
<1>5. Elements(t) = Elements(s) \union {e}
  BY <1>1, <1>2, <1>3, <1>4
<1>6. ASSUME Distinct(s), e \notin Elements(s)
      PROVE  Distinct(t)
  <2>1. \A i, j \in 1..Len(s) : s[i] = s[j] => i = j
    BY <1>6, ElementsAre
  <2>2. \A i \in 1..Len(s) : s[i] # e
    BY <1>6, <1>3
  <2>3. \A i, j \in 1..(Len(s) + 1) : t[i] = t[j] => i = j
    BY <2>1, <2>2, <1>1, <1>2
  <2>4. QED
    BY <2>3, <1>1, ElementsAre
<1>7. QED
  BY <1>5, <1>6 DEF t

\* A request that moves from the head of one sequence to the end of another
\* leaves their concatenation as it was.
LEMMA MoveHead ==
  ASSUME NEW S, NEW s \in Seq(S), NEW t \in Seq(S), t # <<>>
  PROVE  /\ Append(s, Head(t)) \in Seq(S)
         /\ Append(s, Head(t)) \o Tail(t) = s \o t
<1>1. Head(t) \in S /\ Tail(t) \in Seq(S)
  BY HeadTailProperties
<1>2. Append(s, Head(t)) \in Seq(S) /\ Append(s, Head(t)) = s \o <<Head(t)>>
  BY <1>1, AppendProperties, AppendIsConcat
<1>3. <<Head(t)>> \in Seq(S)
  BY <1>1
<1>4. (s \o <<Head(t)>>) \o Tail(t) = s \o (<<Head(t)>> \o Tail(t))
  BY <1>1, <1>3, ConcatAssociative
<1>5. <<Head(t)>> \o Tail(t) = t
  BY <1>1, HeadTailProperties, ConcatProperties, EmptySeq, SeqEqual
<1>6. QED
  BY <1>2, <1>4, <1>5

\* A request appended to the second of two sequences is appended to both.
LEMMA AppendToConcat ==
  ASSUME NEW S, NEW s \in Seq(S), NEW t \in Seq(S), NEW e \in S
  PROVE  s \o Append(t, e) = Append(s \o t, e)
<1>1. <<e>> \in Seq(S) /\ Append(t, e) = t \o <<e>>
  BY AppendIsConcat
<1>2. s \o t \in Seq(S)
  BY ConcatProperties
<1>3. Append(s \o t, e) = (s \o t) \o <<e>>
  BY <1>2, AppendIsConcat
<1>4. (s \o t) \o <<e>> = s \o (t \o <<e>>)
  BY <1>1, ConcatAssociative
<1>5. QED
  BY <1>1, <1>3, <1>4

\* Both parts of a concatenation have their elements in it.
LEMMA ConcatElements ==
  ASSUME NEW S, NEW s \in Seq(S), NEW t \in Seq(S)
  PROVE  /\ Elements(s) \subseteq Elements(s \o t)
         /\ Elements(t) \subseteq Elements(s \o t)
         /\ Distinct(s \o t) => Distinct(s)
<1>1. /\ s \o t \in Seq(S)
      /\ Len(s \o t) = Len(s) + Len(t)
      /\ \A i \in 1..(Len(s) + Len(t)) :
           (s \o t)[i] = IF i <= Len(s) THEN s[i] ELSE t[i - Len(s)]
  BY ConcatProperties
<1>2. Len(s) \in Nat /\ Len(t) \in Nat
  BY LenProperties
<1> DEFINE u == s \o t
<1>3. \A i \in 1..Len(s) : i \in 1..Len(u) /\ u[i] = s[i]
  BY <1>1, <1>2
<1>4. \A i \in 1..Len(t) : Len(s) + i \in 1..Len(u) /\ u[Len(s) + i] = t[i]
  BY <1>1, <1>2
<1>0. u \in Seq(S)
  BY <1>1
<1> HIDE DEF u
<1>5. /\ Elements(u) = {u[i] : i \in 1..Len(u)}
      /\ Elements(s) = {s[i] : i \in 1..Len(s)}
      /\ Elements(t) = {t[i] : i \in 1..Len(t)}
  BY <1>0, ElementsAre
<1>6. /\ Distinct(u) <=> \A i, j \in 1..Len(u) : u[i] = u[j] => i = j
      /\ Distinct(s) <=> \A i, j \in 1..Len(s) : s[i] = s[j] => i = j
  BY <1>0, ElementsAre
<1>7. Elements(s) \subseteq Elements(u) /\ Elements(t) \subseteq Elements(u)
  BY <1>3, <1>4, <1>5
<1>8. Distinct(u) => Distinct(s)
  BY <1>3, <1>6
<1>9. QED
  BY <1>7, <1>8 DEF u

-----------------------------------------------------------------------------
\* Newest keeps at most MaxResults requests, the last ones, in their order.
LEMMA NewestAre ==
  ASSUME NEW s \in Seq(Ids)
  PROVE  /\ Excess(s) \in 0..Len(s)
         /\ Excess(s) = IF Len(s) > MaxResults THEN Len(s) - MaxResults ELSE 0
         /\ Newest(s) \in Seq(Ids)
         /\ Len(Newest(s)) = Len(s) - Excess(s)
         /\ Len(Newest(s)) <= MaxResults
         /\ \A i \in 1..Len(Newest(s)) : Newest(s)[i] = s[Excess(s) + i]
         /\ Elements(Newest(s)) \subseteq Elements(s)
         /\ Distinct(s) => Distinct(Newest(s))
<1>1. Len(s) \in Nat /\ MaxResults \in Nat
  BY LenProperties, QueueAssumption
<1>2. /\ Excess(s) \in 0..Len(s)
      /\ Excess(s) = IF Len(s) > MaxResults THEN Len(s) - MaxResults ELSE 0
      /\ Len(s) - Excess(s) <= MaxResults
  BY <1>1 DEF Excess
<1> DEFINE e == Excess(s)
           n == Newest(s)
<1>3. \A i \in (e + 1)..Len(s) : s[i] \in Ids
  BY <1>1, <1>2, ElementOfSeq
<1>4. /\ n \in Seq(Ids)
      /\ Len(n) = IF e + 1 <= Len(s) THEN Len(s) - (e + 1) + 1 ELSE 0
      /\ \A i \in 1..(Len(s) - (e + 1) + 1) : n[i] = s[(e + 1) + i - 1]
  <2>1. e + 1 \in Int /\ Len(s) \in Int
    BY <1>1, <1>2
  <2> HIDE DEF e
  <2>2. QED
    BY <2>1, <1>3, SubSeqProperties DEF Newest, e
<1>10. e \in 0..Len(s)
  BY <1>2
<1> HIDE DEF n, e
<1>11. Len(n) = Len(s) - e
  BY <1>1, <1>10, <1>4
<1>5. /\ Len(n) = Len(s) - e
      /\ \A i \in 1..Len(n) : n[i] = s[e + i] /\ e + i \in 1..Len(s)
  <2> SUFFICES ASSUME NEW i \in 1..Len(n)
               PROVE  n[i] = s[e + i] /\ e + i \in 1..Len(s)
    BY <1>11
  <2>1. i \in 1..(Len(s) - (e + 1) + 1) /\ (e + 1) + i - 1 = e + i
    BY <1>1, <1>10, <1>11
  <2>2. n[i] = s[(e + 1) + i - 1]
    BY <2>1, <1>4
  <2>3. QED
    BY <2>1, <2>2, <1>1, <1>10, <1>11
<1>6. /\ Elements(n) = {n[i] : i \in 1..Len(n)}
      /\ Elements(s) = {s[i] : i \in 1..Len(s)}
      /\ Distinct(n) <=> \A i, j \in 1..Len(n) : n[i] = n[j] => i = j
      /\ Distinct(s) <=> \A i, j \in 1..Len(s) : s[i] = s[j] => i = j
  <2>1. n \in Seq(Ids)
    BY <1>4
  <2>2. /\ Elements(n) = {n[i] : i \in 1..Len(n)}
        /\ Distinct(n) <=> \A i, j \in 1..Len(n) : n[i] = n[j] => i = j
    BY <2>1, ElementsAre
  <2>3. /\ Elements(s) = {s[i] : i \in 1..Len(s)}
        /\ Distinct(s) <=> \A i, j \in 1..Len(s) : s[i] = s[j] => i = j
    BY ElementsAre
  <2>4. QED
    BY <2>2, <2>3
<1>7. Elements(n) \subseteq Elements(s)
  BY <1>5, <1>6
<1>8. Distinct(s) => Distinct(n)
  <2>1. \A i, j \in 1..Len(n) : e + i = e + j => i = j
    BY <1>1, <1>10
  <2>2. QED
    BY <1>5, <1>6, <2>1
<1>9. QED
  BY <1>2, <1>4, <1>5, <1>7, <1>8 DEF n, e

\* Evicting one by one keeps the same requests as looking at all of them at once.
LEMMA NewestOfAppend ==
  ASSUME NEW s \in Seq(Ids), NEW r \in Ids
  PROVE  Newest(Append(Newest(s), r)) = Newest(Append(s, r))
<1> DEFINE n == Newest(s)
           a == Append(n, r)
           b == Append(s, r)
           x == Newest(a)
           y == Newest(b)
<1>1. /\ n \in Seq(Ids)
      /\ Len(n) = Len(s) - Excess(s)
      /\ Excess(s) = IF Len(s) > MaxResults THEN Len(s) - MaxResults ELSE 0
      /\ \A i \in 1..Len(n) : n[i] = s[Excess(s) + i]
  BY NewestAre
<1>2. Len(s) \in Nat /\ MaxResults \in Nat \ {0}
  BY LenProperties, QueueAssumption
<1> HIDE DEF n
<1>3. /\ a \in Seq(Ids)
      /\ Len(a) = Len(n) + 1
      /\ \A i \in 1..Len(n) : a[i] = n[i]
      /\ a[Len(n) + 1] = r
  BY <1>1, AppendProperties, SMTT(30)
<1>4. /\ b \in Seq(Ids)
      /\ Len(b) = Len(s) + 1
      /\ \A i \in 1..Len(s) : b[i] = s[i]
      /\ b[Len(s) + 1] = r
  BY AppendProperties
<1> HIDE DEF a, b
<1>5. /\ x \in Seq(Ids)
      /\ Len(x) = Len(a) - Excess(a)
      /\ Excess(a) = IF Len(a) > MaxResults THEN Len(a) - MaxResults ELSE 0
      /\ \A i \in 1..Len(x) : x[i] = a[Excess(a) + i]
  BY <1>3, NewestAre
<1>6. /\ y \in Seq(Ids)
      /\ Len(y) = Len(b) - Excess(b)
      /\ Excess(b) = IF Len(b) > MaxResults THEN Len(b) - MaxResults ELSE 0
      /\ \A i \in 1..Len(y) : y[i] = b[Excess(b) + i]
  BY <1>4, NewestAre
<1> HIDE DEF x, y
<1>7. Len(x) = Len(y)
  <2>1. CASE Len(s) < MaxResults
    <3>1. Excess(s) = 0 /\ Len(n) = Len(s)
      BY <2>1, <1>1, <1>2
    <3>2. Len(a) = Len(b) /\ Excess(a) = Excess(b)
      BY <3>1, <1>3, <1>4, <1>5, <1>6
    <3>3. QED
      BY <3>2, <1>5, <1>6
  <2>2. CASE Len(s) >= MaxResults
    <3>1. Len(n) = MaxResults
      BY <2>2, <1>1, <1>2
    <3>2. Len(a) - Excess(a) = MaxResults
      BY <3>1, <1>2, <1>3, <1>5
    <3>3. Len(b) - Excess(b) = MaxResults
      BY <2>2, <1>2, <1>4, <1>6
    <3>4. QED
      BY <3>2, <3>3, <1>5, <1>6
  <2>3. QED
    BY <2>1, <2>2, <1>2
<1>8. ASSUME NEW i \in 1..Len(x)
      PROVE  x[i] = y[i]
  <2>1. CASE Len(s) < MaxResults
    <3>1. Len(a) = Len(b) /\ Excess(a) = 0 /\ Excess(b) = 0 /\ Excess(s) = 0 /\ Len(n) = Len(s)
      BY <2>1, <1>1, <1>2, <1>3, <1>4, <1>5, <1>6
    <3>2. i \in 1..(Len(s) + 1)
      BY <3>1, <1>2, <1>4, <1>3, <1>5
    <3>3. x[i] = a[i] /\ y[i] = b[i]
      BY <3>1, <3>2, <1>5, <1>6, <1>7
    <3>4. \A j \in 1..Len(s) : a[j] = b[j]
      BY <3>1, <1>1, <1>2, <1>3, <1>4
    <3>5. CASE i = Len(s) + 1
      <4>1. a[i] = r /\ b[i] = r
        BY <3>1, <3>5, <1>3, <1>4
      <4>2. QED
        BY <4>1, <3>3
    <3>6. CASE i \in 1..Len(s)
      BY <3>3, <3>4, <3>6
    <3>7. i = Len(s) + 1 \/ i \in 1..Len(s)
      BY <3>2, <1>2
    <3>8. QED
      BY <3>5, <3>6, <3>7
  <2>2. CASE Len(s) >= MaxResults
    <3>1. /\ Len(n) = MaxResults
          /\ Excess(s) = Len(s) - MaxResults
          /\ Excess(a) = 1
          /\ Excess(b) = Len(s) + 1 - MaxResults
          /\ Len(x) = MaxResults
      <4>1. Len(n) = MaxResults /\ Excess(s) = Len(s) - MaxResults
        BY <2>2, <1>1, <1>2
      <4>2. Excess(a) = 1 /\ Len(x) = MaxResults
        BY <4>1, <1>2, <1>3, <1>5
      <4>3. Excess(b) = Len(s) + 1 - MaxResults
        BY <2>2, <1>2, <1>4, <1>6
      <4>4. QED
        BY <4>1, <4>2, <4>3
    <3>2. i \in 1..MaxResults
      BY <3>1
    <3>3. x[i] = a[1 + i]
      BY <3>1, <1>5
    <3>4. y[i] = b[Len(s) + 1 - MaxResults + i]
      BY <3>1, <1>6, <1>7
    <3>5. CASE i = MaxResults
      BY <3>1, <3>3, <3>4, <3>5, <1>2, <1>3, <1>4
    <3>6. CASE i < MaxResults
      <4>1. 1 + i \in 1..Len(n) /\ Len(s) + 1 - MaxResults + i \in 1..Len(s)
        BY <3>1, <3>2, <3>6, <2>2, <1>2
      <4>2. a[1 + i] = n[1 + i] /\ n[1 + i] = s[Len(s) - MaxResults + (1 + i)]
        BY <4>1, <1>1, <1>3, <3>1
      <4>3. b[Len(s) + 1 - MaxResults + i] = s[Len(s) + 1 - MaxResults + i]
        BY <4>1, <1>4
      <4>4. Len(s) - MaxResults + (1 + i) = Len(s) + 1 - MaxResults + i
        BY <1>2, <3>2
      <4>5. QED
        BY <4>2, <4>3, <4>4, <3>3, <3>4
    <3>7. QED
      BY <3>2, <3>5, <3>6, <1>2
  <2>3. QED
    BY <2>1, <2>2, <1>2
<1>9. QED
  BY <1>5, <1>6, <1>7, <1>8, SeqEqual DEF x, y, a, b, n

\* Of distinct requests, those that are not evicted are the newest.
LEMMA EvictOldest ==
  ASSUME NEW s \in Seq(Ids), Distinct(s)
  PROVE  Elements(s) \ Elements(SubSeq(s, 1, Excess(s))) = Elements(Newest(s))
<1> DEFINE e == Excess(s)
           o == SubSeq(s, 1, e)
           n == Newest(s)
<1>1. /\ e \in 0..Len(s)
      /\ n \in Seq(Ids)
      /\ Len(n) = Len(s) - e
      /\ \A i \in 1..Len(n) : n[i] = s[e + i]
  BY NewestAre
<1>2. Len(s) \in Nat
  BY LenProperties
<1> HIDE DEF e, n
<1>3. \A i \in 1..e : s[i] \in Ids
  BY <1>1, <1>2, ElementOfSeq
<1>4. /\ o \in Seq(Ids)
      /\ Len(o) = e
      /\ \A i \in 1..e : o[i] = s[i]
  <2>1. /\ o \in Seq(Ids)
        /\ Len(o) = IF 1 <= e THEN e - 1 + 1 ELSE 0
        /\ \A i \in 1..(e - 1 + 1) : o[i] = s[1 + i - 1]
    BY <1>1, <1>2, <1>3, SubSeqProperties
  <2> HIDE DEF o
  <2>2. QED
    BY <2>1, <1>1, <1>2
<1> HIDE DEF o
<1>5. /\ Elements(s) = {s[i] : i \in 1..Len(s)}
      /\ Elements(o) = {s[i] : i \in 1..e}
      /\ Elements(n) = {s[e + i] : i \in 1..(Len(s) - e)}
  <2>1. /\ Elements(s) = {s[i] : i \in 1..Len(s)}
        /\ Elements(o) = {o[i] : i \in 1..Len(o)}
        /\ Elements(n) = {n[i] : i \in 1..Len(n)}
    <3>1. Elements(s) = {s[i] : i \in 1..Len(s)}
      BY ElementsAre
    <3>2. Elements(o) = {o[i] : i \in 1..Len(o)}
      <4>1. o \in Seq(Ids)
        BY <1>4
      <4>2. QED
        BY <4>1, ElementsAre
    <3>3. Elements(n) = {n[i] : i \in 1..Len(n)}
      <4>1. n \in Seq(Ids)
        BY <1>1
      <4>2. QED
        BY <4>1, ElementsAre
    <3>4. QED
      BY <3>1, <3>2, <3>3
  <2>2. {o[i] : i \in 1..Len(o)} = {s[i] : i \in 1..e}
    BY <1>4
  <2>3. {n[i] : i \in 1..Len(n)} = {s[e + i] : i \in 1..(Len(s) - e)}
    BY <1>1
  <2>4. QED
    BY <2>1, <2>2, <2>3
<1>6. \A i, j \in 1..Len(s) : s[i] = s[j] => i = j
  BY ElementsAre
<1>7. Elements(s) \ Elements(o) \subseteq Elements(n)
  <2> SUFFICES ASSUME NEW v \in Elements(s), v \notin Elements(o)
               PROVE  v \in Elements(n)
    OBVIOUS
  <2>1. PICK i \in 1..Len(s) : v = s[i]
    BY <1>5
  <2>2. i \notin 1..e
    BY <2>1, <1>5
  <2>3. i - e \in 1..(Len(s) - e) /\ e + (i - e) = i
    BY <2>2, <1>1, <1>2
  <2>4. QED
    BY <2>1, <2>3, <1>5
<1>8. Elements(n) \subseteq Elements(s) \ Elements(o)
  <2> SUFFICES ASSUME NEW i \in 1..(Len(s) - e)
               PROVE  s[e + i] \in Elements(s) /\ s[e + i] \notin Elements(o)
    BY <1>5
  <2>1. e + i \in 1..Len(s) /\ e + i \notin 1..e /\ (1..e) \subseteq (1..Len(s))
    BY <1>1, <1>2
  <2>2. QED
    BY <2>1, <1>5, <1>6
<1>9. QED
  BY <1>7, <1>8 DEF o, e, n

\* The last element of a sequence, and what is left without it.
LEMMA AllButLast ==
  ASSUME NEW S, NEW s \in Seq(S)
  PROVE  /\ \A e \in S : SubSeq(Append(s, e), 1, Len(Append(s, e)) - 1) = s
         /\ s # <<>> => /\ SubSeq(s, 1, Len(s) - 1) \in Seq(S)
                        /\ s[Len(s)] \in S
                        /\ Append(SubSeq(s, 1, Len(s) - 1), s[Len(s)]) = s
<1>1. Len(s) \in Nat
  BY LenProperties
<1>2. ASSUME NEW e \in S
      PROVE  SubSeq(Append(s, e), 1, Len(Append(s, e)) - 1) = s
  <2> DEFINE a == Append(s, e)
             f == SubSeq(a, 1, Len(a) - 1)
  <2>1. Len(a) = Len(s) + 1 /\ \A i \in 1..Len(s) : a[i] = s[i]
    BY AppendProperties
  <2>2. \A i \in 1..Len(s) : a[i] \in S
    BY <2>1, ElementOfSeq
  <2> HIDE DEF a
  <2>3. Len(a) - 1 = Len(s)
    BY <2>1, <1>1
  <2>4. f \in Seq(S) /\ Len(f) = Len(s) /\ \A i \in 1..Len(s) : f[i] = a[i]
    BY <2>2, <2>3, <1>1, SubSeqProperties
  <2> HIDE DEF f
  <2>5. f = s
    BY <2>1, <2>4, SeqEqual
  <2>6. QED
    BY <2>5 DEF f, a
<1>3. ASSUME s # <<>>
      PROVE  /\ SubSeq(s, 1, Len(s) - 1) \in Seq(S)
             /\ s[Len(s)] \in S
             /\ Append(SubSeq(s, 1, Len(s) - 1), s[Len(s)]) = s
  <2>1. Len(s) \in Nat \ {0}
    BY <1>3, EmptySeq
  <2>2. s[Len(s)] \in S
    BY <2>1, ElementOfSeq
  <2>3. \A i \in 1..(Len(s) - 1) : s[i] \in S
    BY <2>1, ElementOfSeq
  <2> DEFINE f == SubSeq(s, 1, Len(s) - 1)
             a == Append(f, s[Len(s)])
  <2>4. f \in Seq(S) /\ Len(f) = Len(s) - 1 /\ \A i \in 1..(Len(s) - 1) : f[i] = s[i]
    <3> DEFINE m == Len(s) - 1
    <3>1. m \in Nat /\ \A i \in 1..m : s[i] \in S
      BY <2>1, <2>3
    <3> HIDE DEF m
    <3>2. /\ SubSeq(s, 1, m) \in Seq(S)
          /\ Len(SubSeq(s, 1, m)) = IF 1 <= m THEN m - 1 + 1 ELSE 0
          /\ \A i \in 1..(m - 1 + 1) : SubSeq(s, 1, m)[i] = s[1 + i - 1]
      BY <3>1, SubSeqProperties
    <3>3. Len(SubSeq(s, 1, m)) = m /\ \A i \in 1..m : SubSeq(s, 1, m)[i] = s[i]
      BY <3>1, <3>2
    <3>4. QED
      BY <3>2, <3>3 DEF m
  <2> HIDE DEF f
  <2>5. /\ a \in Seq(S)
        /\ Len(a) = Len(f) + 1
        /\ \A i \in 1..Len(f) : a[i] = f[i]
        /\ a[Len(f) + 1] = s[Len(s)]
    BY <2>2, <2>4, AppendProperties
  <2> HIDE DEF a
  <2>6. Len(a) = Len(s) /\ \A i \in 1..Len(s) : a[i] = s[i]
    BY <2>1, <2>4, <2>5
  <2>7. a = s
    BY <2>5, <2>6, SeqEqual
  <2>8. QED
    BY <2>2, <2>4, <2>7 DEF f, a
<1>4. QED
  BY <1>2, <1>3

-----------------------------------------------------------------------------
\* What enqueue and takeNext make of a state of the queue.
LEMMA EnqueueState ==
  ASSUME NEW s \in States, NEW r \in Ids
  PROVE  /\ enqueue(s, r) \in States
         /\ enqueue(s, r).pending = Append(s.pending, r)
         /\ enqueue(s, r).results = s.results
         /\ enqueue(s, r).resultOrder = s.resultOrder
BY AppendProperties DEF enqueue, States

LEMMA TakeState ==
  ASSUME NEW s \in States, s.pending # <<>>
  PROVE  /\ takeNext(s) \in States
         /\ takeNext(s).pending = Tail(s.pending)
         /\ takeNext(s).results = s.results
         /\ takeNext(s).resultOrder = s.resultOrder
BY HeadTailProperties DEF takeNext, States

\* The results of a sequence of requests, and their type.
ResultsOf(s) == [r \in Elements(s) |-> StatusOf(r)]

LEMMA ResultsType ==
  ASSUME NEW s \in Seq(Ids)
  PROVE  ResultsOf(s) \in UNION {[S -> {"ok", "error"}] : S \in SUBSET Ids}
<1>1. Elements(s) \in SUBSET Ids
  BY ElementsAre
<1>2. ResultsOf(s) \in [Elements(s) -> {"ok", "error"}]
  BY DEF ResultsOf, StatusOf
<1>3. QED
  BY <1>1, <1>2

\* complete of a new request takes a state with the newest results of some
\* requests to one with the newest results of those and this one.
LEMMA CompleteState ==
  ASSUME NEW q \in States, NEW s \in Seq(Ids), NEW r \in Ids,
         Distinct(s), r \notin Elements(s),
         q.resultOrder = Newest(s), q.results = ResultsOf(Newest(s))
  PROVE  /\ complete(q, r, StatusOf(r)) \in States
         /\ complete(q, r, StatusOf(r)).pending = q.pending
         /\ complete(q, r, StatusOf(r)).resultOrder = Newest(Append(s, r))
         /\ complete(q, r, StatusOf(r)).results = ResultsOf(Newest(Append(s, r)))
<1> DEFINE n == Newest(s)
           a == Append(n, r)
           new == Newest(Append(s, r))
           c == complete(q, r, StatusOf(r))
           evicted == Elements(SubSeq(a, 1, Excess(a)))
           all == DOMAIN q.results \union {r}
<1>1. n \in Seq(Ids) /\ Distinct(n) /\ r \notin Elements(n)
  BY NewestAre
<1>2. a \in Seq(Ids) /\ Elements(a) = Elements(n) \union {r} /\ Distinct(a)
  BY <1>1, ElementsOfAppend, AppendProperties
<1>3. DOMAIN q.results = Elements(n)
  BY DEF ResultsOf
<1>4. r \notin DOMAIN q.results
  BY <1>1, <1>3
<1>5. Newest(a) = new
  BY NewestOfAppend
<1>6. all \ evicted = Elements(new)
  <2>1. all = Elements(a)
    BY <1>2, <1>3
  <2>2. QED
    BY <2>1, <1>2, <1>5, EvictOldest
<1>7. new \in Seq(Ids)
  BY <1>2, <1>5, NewestAre
<1>8. q.resultOrder = n
  OBVIOUS
<1> HIDE DEF n
<1>9. c = [q EXCEPT !.resultOrder = Newest(a),
                    !.results = [x \in all \ evicted |->
                                   IF x = r THEN StatusOf(r) ELSE q.results[x]]]
  BY <1>4, <1>8 DEF complete, Newest
<1>10. [x \in all \ evicted |-> IF x = r THEN StatusOf(r) ELSE q.results[x]] = ResultsOf(new)
  <2>1. \A x \in Elements(n) : q.results[x] = StatusOf(x)
    BY DEF ResultsOf, n
  <2>2. \A x \in all : (IF x = r THEN StatusOf(r) ELSE q.results[x]) = StatusOf(x)
    BY <2>1, <1>3
  <2> HIDE DEF all, evicted, new
  <2>3. [x \in all \ evicted |-> IF x = r THEN StatusOf(r) ELSE q.results[x]]
          = [x \in all \ evicted |-> StatusOf(x)]
    BY <2>2
  <2>4. QED
    BY <2>3, <1>6 DEF ResultsOf
<1>11. c = [q EXCEPT !.resultOrder = new, !.results = ResultsOf(new)]
  BY <1>9, <1>10, <1>5
<1>12. ResultsOf(new) \in UNION {[S -> {"ok", "error"}] : S \in SUBSET Ids}
  BY <1>7, ResultsType
<1> HIDE DEF c, new
<1>13. c \in States /\ c.pending = q.pending /\ c.resultOrder = new /\ c.results = ResultsOf(new)
  BY <1>7, <1>11, <1>12 DEF States
<1>14. QED
  BY <1>13 DEF c, new

-----------------------------------------------------------------------------
\* The queue starts empty, and so does everything that is compared with it.
LEMMA InitQueue == Init => QueueInv
<1> SUFFICES ASSUME Init
             PROVE  QueueInv
  OBVIOUS
<1> USE DEF Init, initialState
<1>1. <<>> \in Seq(Ids) /\ Len(<<>>) = 0 /\ Elements(<<>>) = {}
  BY EmptySeq, ElementsAre
<1>2. Newest(<<>>) = <<>>
  BY <1>1, QueueAssumption, SubSeqEmpty DEF Newest, Excess
<1>3. ResultsOf(<<>>) = <<>>
  BY <1>1 DEF ResultsOf
<1>4. initialState \in States
  BY <1>1, <1>3, ResultsType DEF States
<1>5. TypeOK
  BY <1>1, <1>4, QueueAssumption DEF TypeOK
<1>6. ExecutedInOrder
  BY <1>1, ConcatEmptySeq DEF ExecutedInOrder
<1>7. NewestResultsKept
  BY <1>2, <1>3 DEF NewestResultsKept, Completed, ResultsOf
<1>8. IdsAreUnique
  BY DEF IdsAreUnique
<1>9. IdsWereDrawn
  BY <1>1 DEF IdsWereDrawn, Distinct
<1>10. SnapshotsAllowTheStep /\ Bounded
  BY <1>1, QueueAssumption DEF SnapshotsAllowTheStep, Bounded
<1>11. QED
  BY <1>5, <1>6, <1>7, <1>8, <1>9, <1>10 DEF QueueInv

\* The steps that leave the queue and its histories alone, and that do not end
\* or begin the work on a request.
LEMMA QuietQueue ==
  ASSUME QueueInv, UNCHANGED <<queue, accepted, taken>>, loop # "work", loop' # "work"
  PROVE  /\ queue' \in States /\ accepted' \in Seq(Ids) /\ taken' \in Seq(Ids)
         /\ ExecutedInOrder'
         /\ NewestResultsKept'
         /\ Distinct(accepted)'
         /\ Bounded'
<1>1. Completed' = Completed
  BY DEF Completed
<1>2. QED
  BY <1>1 DEF QueueInv, TypeOK, ExecutedInOrder, NewestResultsKept, IdsWereDrawn, Bounded, Distinct

\* What the queue still owes is never touched by a worker that only reads.
LEMMA QuietResults ==
  ASSUME QueueInv, UNCHANGED <<queue, accepted, taken, loop>>
  PROVE  /\ queue' \in States /\ accepted' \in Seq(Ids) /\ taken' \in Seq(Ids)
         /\ ExecutedInOrder'
         /\ NewestResultsKept'
         /\ Distinct(accepted)'
         /\ Bounded'
<1>1. Completed' = Completed
  BY DEF Completed
<1>2. QED
  BY <1>1 DEF QueueInv, TypeOK, ExecutedInOrder, NewestResultsKept, IdsWereDrawn, Bounded, Distinct

\* A worker draws an id.
LEMMA DrawIdKeeps ==
  ASSUME QueueInv, NEW c \in Clients, DrawId(c)
  PROVE  QueueInv'
<1> USE DEF DrawId, ownerVars
<1>1. /\ queue' \in States /\ accepted' \in Seq(Ids) /\ taken' \in Seq(Ids)
      /\ ExecutedInOrder' /\ NewestResultsKept' /\ Distinct(accepted)' /\ Bounded'
  BY QuietResults
<1>2. sequence' = sequence + 1 /\ sequence \in Nat /\ sequence' \in 1..MaxRequests
  BY QueueAssumption DEF QueueInv, TypeOK
<1>3. TypeOK'
  BY <1>1, <1>2 DEF QueueInv, TypeOK
<1>4. /\ Elements(accepted) \subseteq 1..sequence
      /\ \A d \in Clients : pc[d] # "idle" => id[d] \in 1..sequence
  BY DEF QueueInv, IdsWereDrawn
<1>5. sequence' \notin 1..sequence /\ (1..sequence) \subseteq (1..sequence')
  BY <1>2
<1>6. /\ id'[c] = sequence' /\ pc'[c] = "read"
      /\ \A d \in Clients \ {c} : id'[d] = id[d] /\ pc'[d] = pc[d]
  BY DEF QueueInv, TypeOK
<1>7. IdsAreUnique'
  BY <1>4, <1>5, <1>6 DEF QueueInv, IdsAreUnique
<1>8. IdsWereDrawn'
  <2>1. sequence' \in 1..sequence'
    BY <1>2
  <2>2. QED
    BY <1>1, <1>4, <1>5, <1>6, <2>1 DEF IdsWereDrawn
<1>9. SnapshotsAllowTheStep'
  BY <1>6 DEF QueueInv, SnapshotsAllowTheStep
<1>10. QED
  BY <1>1, <1>3, <1>7, <1>8, <1>9 DEF QueueInv

\* A worker reads the queue, or starts over.
LEMMA ReadKeeps ==
  ASSUME QueueInv, NEW c \in Clients, ReadQueue(c) \/ RetryEnqueue(c)
  PROVE  QueueInv'
<1> USE DEF ReadQueue, RetryEnqueue, ownerVars
<1>1. /\ queue' \in States /\ accepted' \in Seq(Ids) /\ taken' \in Seq(Ids)
      /\ ExecutedInOrder' /\ NewestResultsKept' /\ Distinct(accepted)' /\ Bounded'
  BY QuietResults
<1>2. TypeOK'
  BY <1>1 DEF QueueInv, TypeOK
<1>3. /\ pc[c] # "idle"
      /\ \A d \in Clients : pc'[d] # "idle" => pc[d] # "idle"
      /\ UNCHANGED <<id, sequence, accepted>>
  BY DEF QueueInv, TypeOK
<1>4. IdsAreUnique' /\ IdsWereDrawn'
  BY <1>1, <1>3 DEF QueueInv, IdsAreUnique, IdsWereDrawn
<1>5. \A d \in Clients : pc'[d] = "swap" => ~Full(before'[d])
  BY DEF QueueInv, TypeOK, SnapshotsAllowTheStep
<1>6. SnapshotsAllowTheStep'
  BY <1>5 DEF QueueInv, SnapshotsAllowTheStep
<1>7. QED
  BY <1>1, <1>2, <1>4, <1>6 DEF QueueInv

\* A worker's compare-and-set succeeds: its snapshot was the queue, so there is
\* room, and its id is new.
LEMMA EnqueueKeeps ==
  ASSUME QueueInv, NEW c \in Clients, Enqueue(c)
  PROVE  QueueInv'
<1> USE DEF Enqueue, ownerVars
<1> DEFINE r == id[c]
<1>1. /\ queue \in States /\ accepted \in Seq(Ids) /\ taken \in Seq(Ids)
      /\ pc[c] = "swap" /\ queue = before[c]
      /\ queue' = enqueue(queue, r) /\ accepted' = Append(accepted, r)
      /\ UNCHANGED <<taken, loop, id, sequence, before, ownerBefore>>
  BY DEF QueueInv, TypeOK
<1>2. r \in 1..sequence /\ r \in Ids /\ sequence \in 0..MaxRequests
  <2>1. r \in 1..sequence /\ sequence \in 0..MaxRequests
    BY <1>1 DEF QueueInv, TypeOK, IdsWereDrawn
  <2>2. QED
    BY <2>1, QueueAssumption DEF Ids
<1>3. r \notin Elements(accepted) /\ Distinct(accepted)
  BY <1>1 DEF QueueInv, IdsAreUnique, IdsWereDrawn
<1> HIDE DEF r
<1>4. /\ queue' \in States
      /\ queue'.pending = Append(queue.pending, r)
      /\ queue'.results = queue.results
      /\ queue'.resultOrder = queue.resultOrder
  <2>1. queue \in States /\ r \in Ids /\ queue' = enqueue(queue, r)
    BY <1>1, <1>2
  <2>2. /\ enqueue(queue, r) \in States
        /\ enqueue(queue, r).pending = Append(queue.pending, r)
        /\ enqueue(queue, r).results = queue.results
        /\ enqueue(queue, r).resultOrder = queue.resultOrder
    BY <2>1, EnqueueState
  <2>3. QED
    BY <2>1, <2>2
<1>5. /\ accepted' \in Seq(Ids)
      /\ Elements(accepted') = Elements(accepted) \union {r}
      /\ Distinct(accepted')
  BY <1>1, <1>2, <1>3, ElementsOfAppend, AppendProperties
<1>6. queue.pending \in Seq(Ids)
  BY <1>1 DEF States
<1>7. pc' = [pc EXCEPT ![c] = "idle"] /\ pc \in [Clients -> {"idle", "read", "swap"}]
  BY DEF QueueInv, TypeOK
<1>8. TypeOK'
  BY <1>1, <1>4, <1>5, <1>7 DEF QueueInv, TypeOK
<1>9. ExecutedInOrder'
  <2>1. taken \o Append(queue.pending, r) = Append(taken \o queue.pending, r)
    <3> DEFINE p == queue.pending
    <3>1. taken \in Seq(Ids) /\ p \in Seq(Ids) /\ r \in Ids
      BY <1>1, <1>2, <1>6
    <3> HIDE DEF p
    <3>2. taken \o Append(p, r) = Append(taken \o p, r)
      BY <3>1, AppendToConcat
    <3>3. QED
      BY <3>2 DEF p
  <2>2. QED
    BY <2>1, <1>1, <1>4 DEF QueueInv, ExecutedInOrder
<1>10. NewestResultsKept'
  <2>1. Completed' = Completed
    BY <1>1 DEF Completed
  <2>2. QED
    BY <2>1, <1>4 DEF QueueInv, NewestResultsKept
<1>11. IdsAreUnique'
  BY <1>1, <1>5, <1>7 DEF QueueInv, IdsAreUnique, r
<1>12. IdsWereDrawn'
  BY <1>1, <1>2, <1>5, <1>7 DEF QueueInv, IdsWereDrawn
<1>13. SnapshotsAllowTheStep'
  BY <1>1, <1>7 DEF QueueInv, SnapshotsAllowTheStep
<1>14. Bounded'
  <2>1. ~(Len(queue.pending) >= MaxPending)
    BY <1>1 DEF QueueInv, SnapshotsAllowTheStep, Full
  <2>2. Len(queue'.pending) = Len(queue.pending) + 1 /\ Len(queue.pending) \in Nat
    BY <1>2, <1>4, <1>6, AppendProperties, LenProperties
  <2>3. QED
    BY <2>1, <2>2, <1>4, QueueAssumption DEF QueueInv, Bounded
<1>15. QED
  BY <1>8, <1>9, <1>10, <1>11, <1>12, <1>13, <1>14 DEF QueueInv

-----------------------------------------------------------------------------
\* The owner reads, starts over, goes to its next frame, or stops.
LEMMA OwnerReadKeeps ==
  ASSUME QueueInv, NextFrame \/ ReadPending \/ RetryTake \/ Stop
  PROVE  QueueInv'
<1> USE DEF NextFrame, ReadPending, RetryTake, Stop, clientVars
<1>1. /\ UNCHANGED <<queue, clientVars, accepted, taken>>
      /\ loop # "work" /\ loop' # "work"
      /\ loop' \in {"frame", "poll", "take", "stopped"}
  OBVIOUS
<1>2. /\ queue' \in States /\ accepted' \in Seq(Ids) /\ taken' \in Seq(Ids)
      /\ ExecutedInOrder' /\ NewestResultsKept' /\ Distinct(accepted)' /\ Bounded'
  BY <1>1, QuietQueue
<1>3. ownerBefore' \in States /\ (loop' = "take" => ownerBefore'.pending # <<>>)
  BY DEF QueueInv, TypeOK, SnapshotsAllowTheStep
<1>4. TypeOK'
  BY <1>1, <1>2, <1>3 DEF QueueInv, TypeOK
<1>5. IdsAreUnique' /\ IdsWereDrawn'
  BY <1>1, <1>2 DEF QueueInv, IdsAreUnique, IdsWereDrawn
<1>6. SnapshotsAllowTheStep'
  BY <1>1, <1>3 DEF QueueInv, SnapshotsAllowTheStep
<1>7. QED
  BY <1>2, <1>4, <1>5, <1>6 DEF QueueInv

\* What was taken is a beginning of what was accepted, hence of distinct requests.
LEMMA TakenAreDistinct ==
  ASSUME QueueInv
  PROVE  Distinct(taken)
<1>1. taken \in Seq(Ids) /\ queue.pending \in Seq(Ids)
  BY DEF QueueInv, TypeOK, States
<1>2. Distinct(taken \o queue.pending)
  BY DEF QueueInv, ExecutedInOrder, IdsWereDrawn
<1>3. QED
  BY <1>1, <1>2, ConcatElements

\* The owner's compare-and-set succeeds: the oldest request is taken.
LEMMA TakeKeeps ==
  ASSUME QueueInv, Take
  PROVE  QueueInv'
<1> USE DEF Take, clientVars
<1>1. /\ queue \in States /\ taken \in Seq(Ids)
      /\ loop = "take" /\ loop' = "work"
      /\ queue.pending # <<>>
      /\ queue' = takeNext(queue)
      /\ taken' = Append(taken, Head(queue.pending))
      /\ UNCHANGED <<sequence, pc, id, before, ownerBefore, accepted>>
  BY DEF QueueInv, TypeOK, SnapshotsAllowTheStep
<1>2. queue.pending \in Seq(Ids)
  BY <1>1 DEF States
<1>3. /\ queue' \in States
      /\ queue'.pending = Tail(queue.pending)
      /\ queue'.results = queue.results
      /\ queue'.resultOrder = queue.resultOrder
  BY <1>1, TakeState
<1>4. /\ taken' \in Seq(Ids)
      /\ taken' \o queue'.pending = taken \o queue.pending
  <2> DEFINE p == queue.pending
  <2>1. p \in Seq(Ids) /\ p # <<>> /\ taken \in Seq(Ids)
    BY <1>1, <1>2
  <2>2. taken' = Append(taken, Head(p)) /\ queue'.pending = Tail(p)
    BY <1>1, <1>3
  <2> HIDE DEF p
  <2>3. /\ Append(taken, Head(p)) \in Seq(Ids)
        /\ Append(taken, Head(p)) \o Tail(p) = taken \o p
    BY <2>1, MoveHead
  <2>4. QED
    BY <2>2, <2>3 DEF p
<1>5. Head(queue.pending) \in Ids /\ Len(Tail(queue.pending)) = Len(queue.pending) - 1
  BY <1>1, <1>2, HeadTailProperties
<1>6. TypeOK'
  BY <1>1, <1>3, <1>4 DEF QueueInv, TypeOK
<1>7. ExecutedInOrder'
  BY <1>1, <1>4 DEF QueueInv, ExecutedInOrder
<1>8. NewestResultsKept'
  <2>1. Completed' = taken
    <3>1. Completed' = SubSeq(taken', 1, Len(taken') - 1)
      BY <1>1 DEF Completed
    <3>2. QED
      BY <3>1, <1>1, <1>5, AllButLast
  <2>2. Completed = taken
    BY <1>1 DEF Completed
  <2>3. QED
    BY <2>1, <2>2, <1>3 DEF QueueInv, NewestResultsKept
<1>9. IdsAreUnique' /\ IdsWereDrawn'
  BY <1>1 DEF QueueInv, IdsAreUnique, IdsWereDrawn
<1>10. SnapshotsAllowTheStep'
  <2>1. taken' # <<>>
    BY <1>1, <1>5, AppendProperties
  <2>2. QED
    BY <2>1, <1>1 DEF QueueInv, SnapshotsAllowTheStep
<1>11. Bounded'
  <2>1. Len(queue.pending) \in Nat
    BY <1>2, LenProperties
  <2>2. QED
    BY <2>1, <1>3, <1>5, QueueAssumption DEF QueueInv, Bounded
<1>12. QED
  BY <1>6, <1>7, <1>8, <1>9, <1>10, <1>11 DEF QueueInv

\* While a request is worked on: which one it is, and what was completed before.
LEMMA AtWork ==
  ASSUME QueueInv, loop = "work"
  PROVE  /\ Completed \in Seq(Ids)
         /\ taken[Len(taken)] \in Ids
         /\ taken = Append(Completed, taken[Len(taken)])
         /\ Distinct(Completed)
         /\ taken[Len(taken)] \notin Elements(Completed)
<1> DEFINE r == taken[Len(taken)]
<1>1. taken \in Seq(Ids) /\ taken # <<>> /\ Completed = SubSeq(taken, 1, Len(taken) - 1)
  BY DEF QueueInv, TypeOK, SnapshotsAllowTheStep, Completed
<1>2. Completed \in Seq(Ids) /\ r \in Ids /\ taken = Append(Completed, r)
  BY <1>1, AllButLast
<1> HIDE DEF r
<1>3. Distinct(taken)
  BY TakenAreDistinct
<1>4. /\ Len(taken) = Len(Completed) + 1 /\ Len(Completed) \in Nat
      /\ \A i \in 1..Len(Completed) : taken[i] = Completed[i]
      /\ taken[Len(Completed) + 1] = r
  BY <1>2, AppendProperties, LenProperties
<1>5. \A i, j \in 1..Len(taken) : taken[i] = taken[j] => i = j
  BY <1>1, <1>3, ElementsAre
<1>6. \A i, j \in 1..Len(Completed) : Completed[i] = Completed[j] => i = j
  BY <1>4, <1>5
<1>7. \A i \in 1..Len(Completed) : Completed[i] # r
  BY <1>4, <1>5
<1>8. Distinct(Completed) /\ r \notin Elements(Completed)
  BY <1>2, <1>6, <1>7, ElementsAre
<1>9. QED
  BY <1>2, <1>8 DEF r

\* The result of a request is stored, whatever was enqueued while it ran.
LEMMA CompleteKeeps ==
  ASSUME QueueInv, Complete
  PROVE  QueueInv'
<1> USE DEF clientVars
<1> DEFINE r == taken[Len(taken)]
<1>1. /\ queue \in States /\ taken \in Seq(Ids)
      /\ loop = "work" /\ loop' = "frame"
      /\ queue' = complete(queue, r, StatusOf(r))
      /\ UNCHANGED <<sequence, pc, id, before, ownerBefore, accepted, taken>>
  BY DEF QueueInv, TypeOK, Complete
<1>2. /\ Completed \in Seq(Ids) /\ r \in Ids
      /\ taken = Append(Completed, r)
      /\ Distinct(Completed) /\ r \notin Elements(Completed)
  BY <1>1, AtWork
<1> HIDE DEF r
<1>3. queue.resultOrder = Newest(Completed) /\ queue.results = ResultsOf(Newest(Completed))
  BY DEF QueueInv, NewestResultsKept, ResultsOf
<1>4. /\ queue' \in States
      /\ queue'.pending = queue.pending
      /\ queue'.resultOrder = Newest(taken)
      /\ queue'.results = ResultsOf(Newest(taken))
  BY <1>1, <1>2, <1>3, CompleteState
<1>5. TypeOK'
  BY <1>1, <1>4 DEF QueueInv, TypeOK
<1>6. ExecutedInOrder'
  BY <1>1, <1>4 DEF QueueInv, ExecutedInOrder
<1>7. NewestResultsKept'
  <2>1. Completed' = taken
    BY <1>1 DEF Completed
  <2>2. QED
    BY <2>1, <1>4 DEF NewestResultsKept, ResultsOf
<1>8. IdsAreUnique' /\ IdsWereDrawn'
  BY <1>1 DEF QueueInv, IdsAreUnique, IdsWereDrawn
<1>9. SnapshotsAllowTheStep'
  BY <1>1 DEF QueueInv, SnapshotsAllowTheStep
<1>10. Bounded'
  BY <1>1, <1>4, NewestAre DEF QueueInv, Bounded
<1>11. QED
  BY <1>5, <1>6, <1>7, <1>8, <1>9, <1>10 DEF QueueInv

\* The invariant is inductive: one lemma per kind of step.
LEMMA NextQueue == QueueInv /\ [Next]_vars => QueueInv'
<1> SUFFICES ASSUME QueueInv, [Next]_vars
             PROVE  QueueInv'
  OBVIOUS
<1>1. CASE UNCHANGED vars
  <2>1. UNCHANGED <<queue, sequence, pc, id, before, loop, ownerBefore, accepted, taken>>
    BY <1>1 DEF vars, clientVars, ownerVars
  <2>2. Completed' = Completed
    BY <2>1 DEF Completed
  <2>3. QED
    BY <2>1, <2>2 DEF QueueInv, TypeOK, ExecutedInOrder, NewestResultsKept, IdsAreUnique,
                      IdsWereDrawn, SnapshotsAllowTheStep, Bounded, Distinct
<1>2. ASSUME NEW c \in Clients, ClientStep(c)
      PROVE  QueueInv'
  BY <1>2, DrawIdKeeps, ReadKeeps, EnqueueKeeps DEF ClientStep
<1>3. CASE FrameStep
  BY <1>3, OwnerReadKeeps, TakeKeeps, CompleteKeeps DEF FrameStep
<1>4. CASE Stop
  BY <1>4, OwnerReadKeeps
<1>5. QED
  BY <1>1, <1>2, <1>3, <1>4 DEF Next

\* In every reachable state the requests taken and pending are those accepted,
\* the newest results are kept, ids are unique and both limits hold, with any
\* number of workers (submit-owner!, process-one-owner-request!).
THEOREM QueueInvariant == Spec => []QueueInv
BY InitQueue, NextQueue, PTL DEF Spec

\* No accepted request is lost, repeated or overtaken.
THEOREM ExecutedInOrderHolds == Spec => []ExecutedInOrder
<1>1. QueueInv => ExecutedInOrder
  BY DEF QueueInv
<1>2. QED
  BY <1>1, QueueInvariant, PTL

\* owner-result finds exactly the results of the newest completed requests.
THEOREM NewestResultsKeptHolds == Spec => []NewestResultsKept
<1>1. QueueInv => NewestResultsKept
  BY DEF QueueInv
<1>2. QED
  BY <1>1, QueueInvariant, PTL

\* Racing workers never share an id, nor submit an accepted one again.
THEOREM IdsAreUniqueHolds == Spec => []IdsAreUnique
<1>1. QueueInv => IdsAreUnique
  BY DEF QueueInv
<1>2. QED
  BY <1>1, QueueInvariant, PTL

-----------------------------------------------------------------------------
(* The refinement: successful compare-and-sets and the end of the work are *)
(* the executor's steps, all others are stutters.                          *)
running == IF loop = "work" THEN <<taken[Len(taken)]>> ELSE <<>>

abstract == <<Elements(accepted), queue.pending, running, queue.resultOrder>>

\* Initially nothing was submitted, waits, runs or is kept.
LEMMA InitExecutor == Init => Executor!Init
BY DEF Init, initialState, Executor!Init, Elements

\* A compare-and-set of a worker is a submission.
LEMMA EnqueueSubmits ==
  ASSUME QueueInv, NEW c \in Clients, Enqueue(c)
  PROVE  \E request \in Ids : Executor!Submit(request)
<1> DEFINE r == id[c]
<1>1. /\ queue \in States /\ accepted \in Seq(Ids)
      /\ pc[c] = "swap" /\ queue = before[c]
      /\ queue' = enqueue(queue, r) /\ accepted' = Append(accepted, r)
      /\ UNCHANGED <<taken, loop>>
  BY DEF QueueInv, TypeOK, Enqueue, ownerVars
<1>2. r \in Ids
  <2>1. r \in 1..sequence /\ sequence \in 0..MaxRequests
    BY <1>1 DEF QueueInv, TypeOK, IdsWereDrawn
  <2>2. QED
    BY <2>1, QueueAssumption DEF Ids
<1>3. r \notin Elements(accepted)
  BY <1>1 DEF QueueInv, IdsAreUnique
<1>4. Len(queue.pending) < MaxPending
  <2>1. ~(Len(queue.pending) >= MaxPending) /\ queue.pending \in Seq(Ids)
    BY <1>1 DEF QueueInv, SnapshotsAllowTheStep, Full, States
  <2>2. QED
    BY <2>1, LenProperties, QueueAssumption
<1> HIDE DEF r
<1>5. queue'.pending = Append(queue.pending, r) /\ queue'.resultOrder = queue.resultOrder
  BY <1>1, <1>2, EnqueueState
<1>6. Elements(accepted') = Elements(accepted) \union {r}
  BY <1>1, <1>2, ElementsOfAppend
<1>7. running' = running
  BY <1>1 DEF running
<1>8. Executor!Submit(r)
  BY <1>3, <1>4, <1>5, <1>6, <1>7 DEF Executor!Submit, running
<1>9. QED
  BY <1>2, <1>8

\* The compare-and-set of the owner is a start.
LEMMA TakeStarts ==
  ASSUME QueueInv, Take
  PROVE  Executor!Start
<1>1. /\ queue \in States /\ taken \in Seq(Ids)
      /\ loop = "take" /\ loop' = "work"
      /\ queue.pending # <<>>
      /\ queue' = takeNext(queue)
      /\ taken' = Append(taken, Head(queue.pending))
      /\ UNCHANGED accepted
  BY DEF QueueInv, TypeOK, SnapshotsAllowTheStep, Take
<1>2. queue.pending \in Seq(Ids)
  BY <1>1 DEF States
<1>3. queue'.pending = Tail(queue.pending) /\ queue'.resultOrder = queue.resultOrder
  BY <1>1, TakeState
<1>4. taken'[Len(taken')] = Head(queue.pending)
  <2>1. Head(queue.pending) \in Ids
    BY <1>1, <1>2, HeadTailProperties
  <2>2. QED
    BY <2>1, <1>1, AppendProperties
<1>5. running = <<>> /\ running' = <<Head(queue.pending)>>
  BY <1>1, <1>4 DEF running
<1>6. Elements(accepted') = Elements(accepted)
  BY <1>1
<1>7. QED
  BY <1>1, <1>3, <1>5, <1>6 DEF Executor!Start, running

\* Storing a result evicts at most the oldest one.
LEMMA NewestStep ==
  ASSUME NEW s \in Seq(Ids), NEW r \in Ids
  PROVE  Newest(Append(s, r)) = IF Len(Newest(s)) < MaxResults
                                THEN Newest(s) \o <<r>>
                                ELSE Tail(Newest(s)) \o <<r>>
<1> DEFINE n == Newest(s)
           a == Append(n, r)
           x == Newest(a)
<1>1. n \in Seq(Ids) /\ Len(n) <= MaxResults /\ Len(n) \in Nat
  BY NewestAre, LenProperties
<1>2. MaxResults \in Nat \ {0}
  BY QueueAssumption
<1>3. x = Newest(Append(s, r))
  BY NewestOfAppend
<1> HIDE DEF n
<1>4. /\ a \in Seq(Ids) /\ a # <<>>
      /\ Len(a) = Len(n) + 1
      /\ a = n \o <<r>>
  BY <1>1, AppendProperties, AppendIsConcat
<1>5. CASE Len(n) < MaxResults
  <2>1. Excess(a) = 0
    BY <1>1, <1>2, <1>4, <1>5 DEF Excess
  <2>2. x = SubSeq(a, 1, Len(a))
    BY <2>1 DEF Newest
  <2>3. x = a
    BY <2>2, <1>4, SubSeqFull
  <2>4. QED
    BY <2>3, <1>3, <1>4, <1>5 DEF n
<1>6. CASE Len(n) >= MaxResults
  <2>1. Excess(a) = 1 /\ ~(Len(n) < MaxResults)
    BY <1>1, <1>2, <1>4, <1>6 DEF Excess
  <2>2. x = SubSeq(a, 2, Len(a))
    BY <2>1 DEF Newest
  <2>3. x = Tail(a)
    BY <2>2, <1>4, TailIsSubSeq
  <2>4. n # <<>>
    BY <1>1, <1>2, <1>6, EmptySeq
  <2>5. Tail(a) = Append(Tail(n), r)
    BY <2>4, <1>1, HeadTailAppend
  <2>6. Tail(n) \in Seq(Ids)
    BY <2>4, <1>1, HeadTailProperties
  <2>7. Append(Tail(n), r) = Tail(n) \o <<r>>
    BY <2>6, AppendIsConcat
  <2>8. QED
    BY <2>1, <2>3, <2>5, <2>7, <1>3 DEF n
<1>7. QED
  BY <1>1, <1>2, <1>5, <1>6

\* The end of the work is a finish.
LEMMA CompleteFinishes ==
  ASSUME QueueInv, Complete
  PROVE  Executor!Finish
<1> DEFINE r == taken[Len(taken)]
<1>1. /\ queue \in States /\ loop = "work" /\ loop' = "frame"
      /\ queue' = complete(queue, r, StatusOf(r))
      /\ UNCHANGED <<accepted, taken>>
  BY DEF QueueInv, TypeOK, Complete, clientVars
<1>2. /\ Completed \in Seq(Ids) /\ r \in Ids
      /\ taken = Append(Completed, r)
      /\ Distinct(Completed) /\ r \notin Elements(Completed)
  BY <1>1, AtWork
<1> HIDE DEF r
<1>3. queue.resultOrder = Newest(Completed) /\ queue.results = ResultsOf(Newest(Completed))
  BY DEF QueueInv, NewestResultsKept, ResultsOf
<1>4. queue'.pending = queue.pending /\ queue'.resultOrder = Newest(Append(Completed, r))
  BY <1>1, <1>2, <1>3, CompleteState
<1>5. queue'.resultOrder = IF Len(queue.resultOrder) < MaxResults
                           THEN queue.resultOrder \o <<r>>
                           ELSE Tail(queue.resultOrder) \o <<r>>
  BY <1>2, <1>3, <1>4, NewestStep
<1>6. running = <<r>> /\ running' = <<>> /\ <<r>> # <<>>
  BY <1>1 DEF running, r
<1>7. Elements(accepted') = Elements(accepted)
  BY <1>1
<1>8. QED
  BY <1>4, <1>5, <1>6, <1>7 DEF Executor!Finish, running

\* Every other step leaves what the executor shows as it is.
LEMMA OthersStutter ==
  ASSUME UNCHANGED <<queue, accepted, taken>>,
         loop' = loop \/ (loop # "work" /\ loop' # "work")
  PROVE  UNCHANGED abstract
<1>1. running' = running
  BY DEF running
<1>2. Elements(accepted') = Elements(accepted)
  OBVIOUS
<1>3. QED
  BY <1>1, <1>2 DEF abstract

LEMMA StepExecutor ==
  ASSUME QueueInv, [Next]_vars
  PROVE  Executor!Next \/ UNCHANGED abstract
<1>1. CASE UNCHANGED vars
  BY <1>1, OthersStutter DEF vars, ownerVars
<1>2. ASSUME NEW c \in Clients, ClientStep(c)
      PROVE  Executor!Next \/ UNCHANGED abstract
  <2>1. CASE Enqueue(c)
    BY <2>1, EnqueueSubmits DEF Executor!Next
  <2>2. CASE DrawId(c) \/ ReadQueue(c) \/ RetryEnqueue(c)
    BY <2>2, OthersStutter DEF DrawId, ReadQueue, RetryEnqueue, ownerVars
  <2>3. QED
    BY <1>2, <2>1, <2>2 DEF ClientStep
<1>3. CASE Take
  BY <1>3, TakeStarts DEF Executor!Next
<1>4. CASE Complete
  BY <1>4, CompleteFinishes DEF Executor!Next
<1>5. CASE NextFrame \/ ReadPending \/ RetryTake \/ Stop
  BY <1>5, OthersStutter DEF NextFrame, ReadPending, RetryTake, Stop
<1>6. QED
  BY <1>1, <1>2, <1>3, <1>4, <1>5 DEF Next, FrameStep

\* With snapshots and retries on both sides, the queue is a bounded executor:
\* it implements what experiments/RAY-017-android-raylib-nrepl/README.md promises.
THEOREM QueueRefinement == Spec => ImplementsExecutor
<1>1. QueueInv /\ [Next]_vars => [Executor!Next]_(Executor!executorVars)
  <2>1. abstract = Executor!executorVars
    BY DEF abstract, Executor!executorVars, running
  <2>2. UNCHANGED abstract => UNCHANGED Executor!executorVars
    BY DEF abstract, Executor!executorVars, running
  <2>3. QED
    BY StepExecutor, <2>2
<1>2. QED
  BY InitExecutor, QueueInvariant, <1>1, PTL DEF Spec, ImplementsExecutor, Executor!Spec
=============================================================================
