------------------------- MODULE StoreEventsProofs -------------------------
(***************************************************************************)
(* Theorems about StoreEvents, for every number of subscribers and every   *)
(* capacity of their channels.                                             *)
(***************************************************************************)
EXTENDS StoreEvents, SequenceTheorems, TLAPS

\* No channel holds more than its capacity, and the pump holds an event
\* exactly while it sends.
Bounded(s) ==
    /\ Len(src[s]) <= Buffer
    /\ Len(out[s]) <= Buffer
    /\ Len(held[s]) = IF pump[s] = "send" THEN 1 ELSE 0

\* How far subscribing and cancelling have come, and what follows from it.
Protocol(s) ==
    /\ pump[s] = "none" =>
         src[s] = <<>> /\ out[s] = <<>> /\ got[s] = 0 /\ cancelPc[s] = "idle"
    /\ pump[s] = "exit" => done[s]
    /\ s \in subs <=> pump[s] # "none" /\ cancelPc[s] \in {"idle", "unregister"}
    /\ done[s] <=> cancelPc[s] # "idle"
    /\ srcClosed[s] <=> cancelPc[s] = "ended"

\* The generations in p rise and lie above lo and up to hi.
Rising(p, lo, hi) ==
    /\ \A j \in 1..Len(p) : lo < p[j] /\ p[j] <= hi
    /\ \A i, j \in 1..Len(p) : i < j => p[i] < p[j]

\* The events on their way to s are in order and later than the last one
\* delivered.
Ordered(s) ==
    /\ got[s] <= generation /\ from[s] <= generation
    /\ Rising(Pipe(s), got[s], generation)

\* The inductive invariant.
EventsInv ==
    /\ TypeOK
    /\ \A s \in Subscribers : Bounded(s) /\ Protocol(s) /\ Ordered(s)
    /\ NoGap

-----------------------------------------------------------------------------
(* Sequences in three parts, as out, held and src are.                     *)

LEMMA Parts ==
    ASSUME NEW S, NEW a \in Seq(S), NEW b \in Seq(S), NEW c \in Seq(S)
    PROVE  /\ a \o b \o c \in Seq(S)
           /\ Len(a \o b \o c) = Len(a) + Len(b) + Len(c)
           /\ \A j \in 1..Len(a \o b \o c) : (a \o b \o c)[j] =
                 IF j <= Len(a) THEN a[j]
                 ELSE IF j <= Len(a) + Len(b) THEN b[j - Len(a)]
                 ELSE c[j - Len(a) - Len(b)]
<1>1. /\ a \o b \in Seq(S) /\ Len(a \o b) = Len(a) + Len(b)
      /\ \A i \in 1..(Len(a) + Len(b)) :
            (a \o b)[i] = IF i <= Len(a) THEN a[i] ELSE b[i - Len(a)]
  BY ConcatProperties
<1>2. /\ (a \o b) \o c \in Seq(S) /\ Len((a \o b) \o c) = Len(a \o b) + Len(c)
      /\ \A i \in 1..(Len(a \o b) + Len(c)) :
            ((a \o b) \o c)[i] = IF i <= Len(a \o b) THEN (a \o b)[i] ELSE c[i - Len(a \o b)]
  BY <1>1, ConcatProperties
<1>3. Len(a) \in Nat /\ Len(b) \in Nat /\ Len(c) \in Nat
  BY LenProperties
<1>4. QED
  BY <1>1, <1>2, <1>3

LEMMA Length ==
    ASSUME NEW S, NEW a \in Seq(S), NEW b \in Seq(S), NEW c \in Seq(S), NEW N \in Nat,
           Len(a) <= N, Len(b) <= 1, Len(c) <= N
    PROVE  a \o b \o c \in Seq(S) /\ Len(a \o b \o c) <= 2 * N + 1
<1>1. a \o b \o c \in Seq(S) /\ Len(a \o b \o c) = Len(a) + Len(b) + Len(c)
  BY Parts
<1>2. Len(a) \in Nat /\ Len(b) \in Nat /\ Len(c) \in Nat
  BY LenProperties
<1>3. QED
  BY <1>1, <1>2

LEMMA Room ==
    ASSUME NEW S, NEW a \in Seq(S), NEW b \in Seq(S), NEW c \in Seq(S), NEW N \in Nat,
           Len(a) <= N, Len(b) <= 1, Len(c) <= N, Len(c) # N
    PROVE  Len(a \o b \o c) < 2 * N + 1
<1>1. Len(a \o b \o c) = Len(a) + Len(b) + Len(c)
  BY Parts
<1>2. Len(a) \in Nat /\ Len(b) \in Nat /\ Len(c) \in Nat
  BY LenProperties
<1>3. QED
  BY <1>1, <1>2

\* The pump takes the oldest event of src.
LEMMA Taken ==
    ASSUME NEW S, NEW a \in Seq(S), NEW c \in Seq(S), c # <<>>
    PROVE  a \o <<Head(c)>> \o Tail(c) = a \o <<>> \o c
<1> DEFINE L == a \o <<Head(c)>> \o Tail(c)
           R == a \o <<>> \o c
<1>1. /\ <<Head(c)>> \in Seq(S) /\ Len(<<Head(c)>>) = 1 /\ <<Head(c)>>[1] = c[1]
      /\ <<>> \in Seq(S) /\ Len(<<>>) = 0
      /\ Tail(c) \in Seq(S) /\ Len(Tail(c)) = Len(c) - 1
      /\ \A i \in 1..Len(Tail(c)) : Tail(c)[i] = c[i + 1]
  BY HeadTailProperties, EmptySeq
<1>2. Len(a) \in Nat /\ Len(c) \in Nat
  BY LenProperties
<1>3. /\ L \in Seq(S) /\ Len(L) = Len(a) + Len(c)
      /\ \A j \in 1..Len(L) : L[j] = IF j <= Len(a) THEN a[j]
                                     ELSE IF j <= Len(a) + 1 THEN <<Head(c)>>[j - Len(a)]
                                     ELSE Tail(c)[j - Len(a) - 1]
  <2>1. Len(a) + Len(<<Head(c)>>) + Len(Tail(c)) = Len(a) + Len(c)
    BY <1>1, <1>2
  <2>2. QED
    BY ONLY <1>1, <2>1, Parts, a \in Seq(S)
<1>4. /\ R \in Seq(S) /\ Len(R) = Len(a) + Len(c)
      /\ \A j \in 1..Len(R) : R[j] = IF j <= Len(a) THEN a[j] ELSE c[j - Len(a)]
  <2>1. /\ R \in Seq(S) /\ Len(R) = Len(a) + Len(<<>>) + Len(c)
        /\ \A j \in 1..Len(R) : R[j] = IF j <= Len(a) THEN a[j]
                                       ELSE IF j <= Len(a) + Len(<<>>) THEN <<>>[j - Len(a)]
                                       ELSE c[j - Len(a) - Len(<<>>)]
    BY <1>1, Parts
  <2>2. QED
    BY <1>1, <1>2, <2>1
<1> HIDE DEF L, R
<1>5. ASSUME NEW j \in 1..Len(L) PROVE L[j] = R[j]
  <2>1. CASE j <= Len(a)
    BY <2>1, <1>2, <1>3, <1>4
  <2>2. CASE j = Len(a) + 1
    <3>1. L[j] = <<Head(c)>>[1]
      BY <2>2, <1>2, <1>3
    <3>2. R[j] = c[1]
      <4>1. j \in 1..Len(R) /\ ~(j <= Len(a)) /\ j - Len(a) = 1
        BY <2>2, <1>2, <1>3, <1>4
      <4>2. R[j] = c[j - Len(a)]
        BY <4>1, <1>4
      <4>3. QED
        BY <4>1, <4>2
    <3>3. QED
      BY <3>1, <3>2, <1>1
  <2>3. CASE j > Len(a) + 1
    <3>1. L[j] = Tail(c)[j - Len(a) - 1] /\ R[j] = c[j - Len(a)]
      BY <2>3, <1>2, <1>3, <1>4
    <3>2. j - Len(a) - 1 \in 1..Len(Tail(c))
      BY <2>3, <1>1, <1>2, <1>3
    <3>3. QED
      BY <3>1, <3>2, <1>1, <1>2
  <2>4. QED
    BY <2>1, <2>2, <2>3, <1>2, <1>3
<1>6. L = R
  BY <1>3, <1>4, <1>5, SeqEqual
<1>7. QED
  BY <1>6 DEF L, R

\* The pump hands the event it holds to out.
LEMMA Sent ==
    ASSUME NEW S, NEW a \in Seq(S), NEW b \in Seq(S), NEW c \in Seq(S)
    PROVE  (a \o b) \o <<>> \o c = a \o b \o c
  BY ConcatProperties, ConcatEmptySeq

\* An event enters src.
Enters(S) == \A a, b, c \in Seq(S), e \in S :
    a \o b \o Append(c, e) = Append(a \o b \o c, e)

LEMMA Entered == \A S : Enters(S)
<1> SUFFICES ASSUME NEW S, NEW a \in Seq(S), NEW b \in Seq(S), NEW c \in Seq(S), NEW e \in S
             PROVE  a \o b \o Append(c, e) = Append(a \o b \o c, e)
  BY Zenon DEF Enters
<1>1. a \o b \in Seq(S) /\ (a \o b) \o c \in Seq(S) /\ <<e>> \in Seq(S)
  BY ConcatProperties
<1>2. Append(c, e) = c \o <<e>> /\ Append(a \o b \o c, e) = (a \o b \o c) \o <<e>>
  BY <1>1, AppendIsConcat
<1>3. a \o b \o c \o <<e>> = (a \o b) \o (c \o <<e>>)
  BY <1>1, ConcatAssociative
<1>4. QED
  BY <1>2, <1>3

\* The consumer reads from out.
LEMMA Read ==
    ASSUME NEW a \in Seq(Nat), NEW b \in Seq(Nat), NEW c \in Seq(Nat), a # <<>>
    PROVE  /\ a \o b \o c # <<>>
           /\ Head(a \o b \o c) = Head(a)
           /\ Tail(a) \o b \o c = Tail(a \o b \o c)
<1> DEFINE L == Tail(a) \o b \o c
           P == a \o b \o c
<1>1. /\ Tail(a) \in Seq(Nat) /\ Len(Tail(a)) = Len(a) - 1 /\ Len(a) > 0
      /\ \A i \in 1..Len(Tail(a)) : Tail(a)[i] = a[i + 1]
  BY HeadTailProperties, EmptySeq
<1>2. Len(a) \in Nat /\ Len(b) \in Nat /\ Len(c) \in Nat
  BY LenProperties
<1>3. /\ P \in Seq(Nat) /\ Len(P) = Len(a) + Len(b) + Len(c)
      /\ \A j \in 1..Len(P) : P[j] = IF j <= Len(a) THEN a[j]
                                     ELSE IF j <= Len(a) + Len(b) THEN b[j - Len(a)]
                                     ELSE c[j - Len(a) - Len(b)]
  BY Parts
<1>4. /\ L \in Seq(Nat) /\ Len(L) = Len(Tail(a)) + Len(b) + Len(c)
      /\ \A j \in 1..Len(L) : L[j] = IF j <= Len(Tail(a)) THEN Tail(a)[j]
                                     ELSE IF j <= Len(Tail(a)) + Len(b) THEN b[j - Len(Tail(a))]
                                     ELSE c[j - Len(Tail(a)) - Len(b)]
  BY <1>1, Parts
<1> HIDE DEF L, P
<1>5. P # <<>> /\ Head(P) = P[1] /\ P[1] = a[1] /\ Head(a) = a[1]
  BY <1>1, <1>2, <1>3, EmptySeq
<1>6. /\ Tail(P) \in Seq(Nat) /\ Len(Tail(P)) = Len(P) - 1
      /\ \A i \in 1..Len(Tail(P)) : Tail(P)[i] = P[i + 1]
  BY <1>3, <1>5, HeadTailProperties
<1>7. Len(L) = Len(Tail(P)) /\ \A j \in 1..Len(L) : L[j] = Tail(P)[j]
  <2>1. Len(L) = Len(Tail(P)) /\ Len(L) = Len(P) - 1 /\ Len(P) \in Nat
    BY <1>1, <1>2, <1>3, <1>4, <1>6
  <2> SUFFICES ASSUME NEW j \in 1..Len(L) PROVE L[j] = Tail(P)[j]
    BY <2>1
  <2>2. Tail(P)[j] = P[j + 1] /\ j + 1 \in 1..Len(P) /\ j \in Nat
    BY <1>6, <2>1
  <2>3. CASE j <= Len(Tail(a))
    <3>1. j \in 1..Len(Tail(a)) /\ j + 1 <= Len(a)
      BY <1>1, <1>2, <2>2, <2>3
    <3>2. L[j] = a[j + 1] /\ P[j + 1] = a[j + 1]
      BY <1>1, <1>3, <1>4, <2>2, <2>3, <3>1
    <3>3. QED
      BY <2>2, <3>2
  <2>4. CASE j > Len(Tail(a)) /\ j <= Len(Tail(a)) + Len(b)
    <3>1. j + 1 > Len(a) /\ j + 1 <= Len(a) + Len(b) /\ (j + 1) - Len(a) = j - Len(Tail(a))
      BY <1>1, <1>2, <2>2, <2>4
    <3>2. L[j] = b[j - Len(Tail(a))]
      BY <1>1, <1>2, <1>4, <2>2, <2>4
    <3>3. P[j + 1] = b[(j + 1) - Len(a)]
      <4>1. j + 1 \in 1..Len(P) /\ ~(j + 1 <= Len(a)) /\ j + 1 <= Len(a) + Len(b)
        BY <1>2, <2>2, <3>1
      <4>2. QED
        BY <1>3, <4>1
    <3>4. QED
      BY <2>2, <3>1, <3>2, <3>3
  <2>5. CASE j > Len(Tail(a)) + Len(b)
    <3>1. /\ j + 1 > Len(a) /\ j + 1 > Len(a) + Len(b)
          /\ (j + 1) - Len(a) - Len(b) = j - Len(Tail(a)) - Len(b) /\ j > Len(Tail(a))
      BY <1>1, <1>2, <2>2, <2>5
    <3>2. L[j] = c[j - Len(Tail(a)) - Len(b)]
      BY <1>1, <1>2, <1>4, <2>2, <2>5, <3>1
    <3>3. P[j + 1] = c[(j + 1) - Len(a) - Len(b)]
      <4>1. j + 1 \in 1..Len(P) /\ ~(j + 1 <= Len(a)) /\ ~(j + 1 <= Len(a) + Len(b))
        BY <1>2, <2>2, <3>1
      <4>2. QED
        BY <1>3, <4>1
    <3>4. QED
      BY <2>2, <3>1, <3>2, <3>3
  <2>6. QED
    BY <1>1, <1>2, <2>2, <2>3, <2>4, <2>5
<1>8. L = Tail(P)
  BY <1>4, <1>6, <1>7, SeqEqual
<1>9. QED
  BY <1>5, <1>8 DEF L, P

\* The pump exits and drops what it and src hold.
Beginning(p, a) == \E n \in 0..(Len(p) - 1) : a = SubSeq(p, 1, n)

LEMMA Cut ==
    ASSUME NEW S, NEW a \in Seq(S), NEW b \in Seq(S), NEW c \in Seq(S)
    PROVE  a \o b \o c = a \/ Beginning(a \o b \o c, a)
<1> DEFINE P == a \o b \o c
<1>0. P \in Seq(S)
  BY Parts
<1>1. /\ P \in Seq(S) /\ Len(P) = Len(a) + Len(b) + Len(c)
      /\ \A j \in 1..Len(P) : P[j] = IF j <= Len(a) THEN a[j]
                                     ELSE IF j <= Len(a) + Len(b) THEN b[j - Len(a)]
                                     ELSE c[j - Len(a) - Len(b)]
  BY Parts
<1>2. Len(a) \in Nat /\ Len(b) \in Nat /\ Len(c) \in Nat
  BY LenProperties
<1> HIDE DEF P
<1>3. Len(a) <= Len(P) /\ \A j \in 1..Len(a) : P[j] = a[j] /\ P[j] \in S
  BY <1>1, <1>2, ElementOfSeq
<1>4. a = SubSeq(P, 1, Len(a))
  <2>1. /\ SubSeq(P, 1, Len(a)) \in Seq(S)
        /\ Len(SubSeq(P, 1, Len(a))) = Len(a)
        /\ \A i \in 1..Len(a) : SubSeq(P, 1, Len(a))[i] = P[i]
    BY <1>1, <1>2, <1>3, SubSeqProperties
  <2> QED BY <1>3, <2>1, SeqEqual
<1>5. CASE Len(a) = Len(P)
  <2>1. SubSeq(P, 1, Len(P)) = P
    BY <1>0, SubSeqFull
  <2>2. P = a
    BY <1>4, <1>5, <2>1
  <2> QED BY <2>2 DEF P
<1>6. CASE Len(a) # Len(P)
  <2>1. Len(a) \in 0..(Len(P) - 1)
    BY <1>1, <1>2, <1>6
  <2> QED BY <1>4, <2>1 DEF P, Beginning
<1>7. QED
  BY <1>5, <1>6

-----------------------------------------------------------------------------
(* Rising sequences and runs of generations.                               *)

Run(b, hi) == [j \in 1..(hi - b) |-> b + j]

LEMMA RisingAppend ==
    ASSUME NEW p \in Seq(Nat), NEW lo \in Nat, NEW hi \in Nat, lo <= hi, Rising(p, lo, hi)
    PROVE  Rising(Append(p, hi + 1), lo, hi + 1)
<1> DEFINE q == Append(p, hi + 1)
<1>1. hi + 1 \in Nat /\ Len(p) \in Nat
  BY LenProperties
<1>2. /\ Len(q) = Len(p) + 1 /\ q[Len(p) + 1] = hi + 1
      /\ \A i \in 1..Len(p) : q[i] = p[i] /\ p[i] \in Nat
  BY <1>1, AppendProperties, ElementOfSeq
<1> HIDE DEF q
<1>3. ASSUME NEW j \in 1..Len(q) PROVE lo < q[j] /\ q[j] <= hi + 1
  <2>1. CASE j \in 1..Len(p)
    BY <1>2, <2>1 DEF Rising
  <2>2. CASE j = Len(p) + 1
    BY <1>2, <2>2
  <2>3. QED
    BY <1>1, <1>2, <2>1, <2>2
<1>5. ASSUME NEW i \in 1..Len(q), NEW j \in 1..Len(q), i < j PROVE q[i] < q[j]
  <2>0. i \in 1..Len(p)
    BY <1>1, <1>2, <1>5
  <2>1. CASE j \in 1..Len(p)
    <3>1. q[i] = p[i] /\ q[j] = p[j]
      BY <1>2, <2>0, <2>1
    <3>2. QED
      BY <1>5, <2>0, <2>1, <3>1 DEF Rising
  <2>2. CASE j = Len(p) + 1
    <3>1. q[i] = p[i] /\ q[j] = hi + 1
      BY <1>2, <2>0, <2>2
    <3>2. p[i] \in Nat /\ p[i] <= hi
      BY <1>2, <2>0 DEF Rising
    <3>3. QED
      BY <3>1, <3>2
  <2>3. QED
    BY <1>1, <1>2, <2>1, <2>2
<1>4. QED
  BY <1>3, <1>5 DEF q, Rising

LEMMA RisingTail ==
    ASSUME NEW p \in Seq(Nat), NEW lo \in Nat, NEW hi \in Nat, Rising(p, lo, hi), p # <<>>
    PROVE  Rising(Tail(p), Head(p), hi) /\ Head(p) \in Nat /\ Head(p) <= hi
<1> DEFINE q == Tail(p)
<1>1. /\ Len(p) \in Nat \ {0} /\ Len(q) = Len(p) - 1
      /\ \A i \in 1..Len(q) : q[i] = p[i + 1]
      /\ \A i \in 1..Len(p) : p[i] \in Nat
  BY LenProperties, EmptySeq, HeadTailProperties, ElementOfSeq
<1>2. Head(p) = p[1]
  OBVIOUS
<1> HIDE DEF q
<1>3. 1 \in 1..Len(p) /\ \A j \in 1..Len(q) : j + 1 \in 1..Len(p) /\ 1 < j + 1
  BY <1>1
<1>5. ASSUME NEW j \in 1..Len(q) PROVE p[1] < q[j] /\ q[j] <= hi
  BY <1>1, <1>3 DEF Rising
<1>6. ASSUME NEW i \in 1..Len(q), NEW j \in 1..Len(q), i < j PROVE q[i] < q[j]
  <2>1. i + 1 < j + 1
    BY <1>1, <1>6
  <2>2. QED
    BY <1>1, <1>3, <2>1 DEF Rising
<1>7. p[1] \in Nat /\ p[1] <= hi
  BY <1>1, <1>3 DEF Rising
<1>4. QED
  BY <1>2, <1>5, <1>6, <1>7 DEF q, Rising

LEMMA RisingBeginning ==
    ASSUME NEW p \in Seq(Nat), NEW lo \in Nat, NEW hi \in Nat, Rising(p, lo, hi),
           NEW q, Beginning(p, q)
    PROVE  Rising(q, lo, hi)
<1>1. PICK n \in 0..(Len(p) - 1) : q = SubSeq(p, 1, n)
  BY DEF Beginning
<1>2. Len(p) \in Nat /\ \A i \in 1..Len(p) : p[i] \in Nat
  BY LenProperties, ElementOfSeq
<1>3. n \in Int /\ \A i \in 1..n : p[i] \in Nat
  BY <1>2
<1>4. Len(q) = n /\ \A i \in 1..n : q[i] = p[i]
  BY <1>1, <1>2, <1>3, SubSeqProperties
<1>5. \A j \in 1..Len(q) : j \in 1..Len(p) /\ q[j] = p[j]
  BY <1>2, <1>4
<1>6. QED
  BY <1>5, Zenon DEF Rising

LEMMA RunAppend ==
    ASSUME NEW b \in Nat, NEW hi \in Nat, b <= hi
    PROVE  Append(Run(b, hi), hi + 1) = Run(b, hi + 1)
<1> DEFINE p == Run(b, hi)
           q == Run(b, hi + 1)
<1>1. /\ p \in Seq(Nat) /\ Len(p) = hi - b /\ \A i \in 1..(hi - b) : p[i] = b + i
      /\ q \in Seq(Nat) /\ Len(q) = hi + 1 - b /\ \A i \in 1..(hi + 1 - b) : q[i] = b + i
  BY DEF Run
<1> HIDE DEF p, q
<1>2. /\ Append(p, hi + 1) \in Seq(Nat) /\ Len(Append(p, hi + 1)) = Len(p) + 1
      /\ \A i \in 1..Len(p) : Append(p, hi + 1)[i] = p[i]
      /\ Append(p, hi + 1)[Len(p) + 1] = hi + 1
  BY <1>1, AppendProperties
<1>3. \A i \in 1..(hi + 1 - b) : Append(p, hi + 1)[i] = q[i]
  BY <1>1, <1>2
<1>4. Append(p, hi + 1) = q
  <2>1. Len(Append(p, hi + 1)) = Len(q) /\ Len(q) = hi + 1 - b
    BY <1>1, <1>2
  <2>2. \A i \in 1..Len(q) : Append(p, hi + 1)[i] = q[i]
    BY <1>3, <2>1
  <2>3. QED
    BY <1>1, <1>2, <2>1, <2>2, SeqEqual
<1>5. QED
  BY <1>4 DEF p, q

LEMMA RunTail ==
    ASSUME NEW b \in Nat, NEW hi \in Nat, b <= hi, Run(b, hi) # <<>>
    PROVE  Head(Run(b, hi)) = b + 1 /\ b + 1 <= hi /\ Tail(Run(b, hi)) = Run(b + 1, hi)
<1> DEFINE p == Run(b, hi)
           q == Run(b + 1, hi)
<1>1. p \in Seq(Nat) /\ Len(p) = hi - b /\ \A i \in 1..(hi - b) : p[i] = b + i
  BY DEF Run
<1>2. Len(p) > 0 /\ b + 1 <= hi
  BY <1>1, EmptySeq DEF p
<1>3. q \in Seq(Nat) /\ Len(q) = hi - b - 1 /\ \A i \in 1..(hi - b - 1) : q[i] = b + 1 + i
  BY <1>2 DEF Run
<1>0. p # <<>>
  OBVIOUS
<1> HIDE DEF p, q
<1>4. /\ Head(p) = p[1] /\ Tail(p) \in Seq(Nat) /\ Len(Tail(p)) = Len(p) - 1
      /\ \A i \in 1..Len(Tail(p)) : Tail(p)[i] = p[i + 1]
  BY <1>0, <1>1, <1>2, HeadTailProperties
<1>5. Len(Tail(p)) = Len(q) /\ \A i \in 1..Len(q) : Tail(p)[i] = q[i]
  BY <1>1, <1>2, <1>3, <1>4
<1>6. Tail(p) = q
  BY <1>3, <1>4, <1>5, SeqEqual
<1>7. Head(p) = b + 1
  BY <1>1, <1>2, <1>4
<1>8. QED
  BY <1>2, <1>6, <1>7 DEF p, q

LEMMA AppendPrefix ==
    ASSUME NEW S, NEW p \in Seq(S), NEW e \in S
    PROVE  /\ Queue!IsPrefix(p, Append(p, e)) /\ Queue!Last(Append(p, e)) = e
           /\ Len(Append(p, e)) = Len(p) + 1
<1> DEFINE q == Append(p, e)
<1>1. /\ q \in Seq(S) /\ Len(q) = Len(p) + 1 /\ q[Len(p) + 1] = e
      /\ \A i \in 1..Len(p) : q[i] = p[i] /\ p[i] \in S
  BY AppendProperties, ElementOfSeq
<1>2. Len(p) \in Nat
  BY LenProperties
<1> HIDE DEF q
<1>3. /\ SubSeq(q, 1, Len(p)) \in Seq(S) /\ Len(SubSeq(q, 1, Len(p))) = Len(p)
      /\ \A i \in 1..Len(p) : SubSeq(q, 1, Len(p))[i] = q[i]
  BY <1>1, <1>2, SubSeqProperties
<1>4. SubSeq(q, 1, Len(p)) = p
  BY <1>1, <1>3, SeqEqual
<1>5. SubSeq(p, 1, Len(p)) = p
  BY SubSeqFull
<1>6. Queue!IsPrefix(p, q) /\ Queue!Last(q) = e
  BY <1>1, <1>2, <1>4, <1>5 DEF Queue!IsPrefix, Queue!Last
<1>7. QED
  BY <1>1, <1>6 DEF q

LEMMA BeginningPrefix ==
    ASSUME NEW S, NEW p \in Seq(S), NEW q, Beginning(p, q)
    PROVE  Queue!IsStrictPrefix(q, p)
<1>1. PICK n \in 0..(Len(p) - 1) : q = SubSeq(p, 1, n)
  BY DEF Beginning
<1>2. Len(p) \in Nat /\ \A i \in 1..Len(p) : p[i] \in S
  BY LenProperties, ElementOfSeq
<1>3. q \in Seq(S) /\ Len(q) = n
  BY <1>1, <1>2, SubSeqProperties
<1>4. SubSeq(q, 1, Len(q)) = q
  BY <1>3, SubSeqFull
<1>5. Len(q) < Len(p)
  BY <1>2, <1>3
<1>6. QED
  BY <1>1, <1>2, <1>3, <1>4, <1>5 DEF Queue!IsPrefix, Queue!IsStrictPrefix

-----------------------------------------------------------------------------
(* Types.                                                                  *)

LEMMA TypeInit == Init => TypeOK
  BY EventsAssumption, EmptySeq DEF Init, TypeOK

LEMMA TypeStep ==
    ASSUME TypeOK, [Next]_vars
    PROVE  TypeOK'
<1> USE EventsAssumption DEF TypeOK
<1>1. CASE \E k \in 0..size : Insert(k)
  BY <1>1 DEF Insert, Section, MutexFree, store, channels, ends, ghosts
<1>2. CASE Delete
  BY <1>2 DEF Delete, Section, MutexFree, store, channels, ends, ghosts
<1>3. CASE DeleteAll
  BY <1>3 DEF DeleteAll, Section, MutexFree, store, channels, ends, ghosts
<1>4. CASE Reset
  BY <1>4 DEF Reset, Section, MutexFree, store, channels, ends, ghosts
<1>5. CASE Emit
  <2>1. src' \in [Subscribers -> Seq(Nat)]
    BY <1>5, AppendProperties DEF Emit
  <2>2. dropped' \in [Subscribers -> BOOLEAN]
    BY <1>5, Zenon DEF Emit
  <2>3. generation' \in Nat /\ section' \in Nat /\ generation' + section' <= MaxGen
    BY <1>5 DEF Emit
  <2>4. QED
    BY <1>5, <2>1, <2>2, <2>3 DEF Emit, ends
<1>6. CASE \E t \in Subscribers : Subscribe(t)
  BY <1>6 DEF Subscribe, MutexFree, store, channels, ends, ghosts
<1>7. CASE \E t \in Subscribers : PumpTake(t)
  BY <1>7 DEF PumpTake, store, channels, ends, ghosts
<1>8. CASE \E t \in Subscribers : PumpSend(t)
  BY <1>8 DEF PumpSend, store, channels, ends, ghosts
<1>9. CASE \E t \in Subscribers : PumpStop(t)
  BY <1>9 DEF PumpStop, MayStop, store, channels, ends, ghosts
<1>10. CASE \E t \in Subscribers : Consume(t)
  BY <1>10 DEF Consume, store, channels, ends, ghosts
<1>11. CASE \E t \in Subscribers : CancelBegin(t)
  BY <1>11 DEF CancelBegin, store, channels, ends, ghosts
<1>12. CASE \E t \in Subscribers : CancelUnregister(t)
  BY <1>12 DEF CancelUnregister, MutexFree, store, channels, ends, ghosts
<1>13. CASE \E t \in Subscribers : CancelClose(t)
  BY <1>13 DEF CancelClose, store, channels, ends, ghosts
<1>14. CASE UNCHANGED vars
  BY <1>14 DEF vars, store, channels, ends, ghosts
<1>15. QED
  BY <1>1, <1>2, <1>3, <1>4, <1>5, <1>6, <1>7, <1>8, <1>9, <1>10, <1>11, <1>12, <1>13, <1>14 DEF Next, PumpStep, CancelStep

LEMMA BoundedStep ==
    ASSUME TypeOK, \A s \in Subscribers : Bounded(s), [Next]_vars, NEW s \in Subscribers
    PROVE  Bounded(s)'
<1> USE EventsAssumption DEF TypeOK, Bounded
<1>1. CASE \E k \in 0..size : Insert(k)
  BY <1>1 DEF Insert, Section, MutexFree, store, channels, ends, ghosts
<1>2. CASE Delete
  BY <1>2 DEF Delete, Section, MutexFree, store, channels, ends, ghosts
<1>3. CASE DeleteAll
  BY <1>3 DEF DeleteAll, Section, MutexFree, store, channels, ends, ghosts
<1>4. CASE Reset
  BY <1>4 DEF Reset, Section, MutexFree, store, channels, ends, ghosts
<1>5. CASE Emit
  <2>1. Append(src[s], generation + 1) \in Seq(Nat)
        /\ Len(Append(src[s], generation + 1)) = Len(src[s]) + 1
    BY AppendProperties
  <2>2. QED
    BY <1>5, <2>1 DEF Emit, Full, ends, channels
<1>6. CASE \E t \in Subscribers : Subscribe(t)
  BY <1>6 DEF Subscribe, MutexFree, store, channels, ends, ghosts
<1>7. CASE \E t \in Subscribers : PumpTake(t)
  <2> PICK t \in Subscribers : PumpTake(t)
    BY <1>7
  <2>1. Tail(src[t]) \in Seq(Nat) /\ Len(Tail(src[t])) = Len(src[t]) - 1
    BY HeadTailProperties DEF PumpTake
  <2>2. Len(<<Head(src[t])>>) = 1
    OBVIOUS
  <2>3. Len(src'[s]) <= Buffer /\ out'[s] = out[s]
    BY <2>1 DEF PumpTake
  <2>4. CASE s = t
    <3>1. held'[s] = <<Head(src[t])>> /\ pump'[s] = "send"
      BY <2>4 DEF PumpTake
    <3>2. QED
      BY <2>2, <2>3, <3>1
  <2>5. CASE s # t
    BY <2>3, <2>5 DEF PumpTake
  <2>6. QED
    BY <2>4, <2>5
<1>8. CASE \E t \in Subscribers : PumpSend(t)
  <2> PICK t \in Subscribers : PumpSend(t)
    BY <1>8
  <2>1. Len(out[t] \o held[t]) = Len(out[t]) + 1
    <3>1. out[t] \in Seq(Nat) /\ held[t] \in Seq(Nat) /\ Len(held[t]) = 1
      BY DEF PumpSend
    <3>2. Len(out[t] \o held[t]) = Len(out[t]) + Len(held[t])
      BY ONLY <3>1, ConcatProperties
    <3>3. QED
      BY <3>1, <3>2
  <2>2. Len(<<>>) = 0
    OBVIOUS
  <2>3. QED
    BY <2>1, <2>2 DEF PumpSend
<1>9. CASE \E t \in Subscribers : PumpStop(t)
  <2> PICK t \in Subscribers : PumpStop(t)
    BY <1>9
  <2>1. Len(<<>>) = 0
    OBVIOUS
  <2>2. /\ src'[s] = src[s] /\ out'[s] = out[s]
        /\ held' = [held EXCEPT ![t] = <<>>] /\ pump' = [pump EXCEPT ![t] = "exit"]
    BY DEF PumpStop
  <2>3. CASE s = t
    BY <2>1, <2>2, <2>3
  <2>4. CASE s # t
    BY <2>2, <2>4
  <2>5. QED
    BY <2>3, <2>4
<1>10. CASE \E t \in Subscribers : Consume(t)
  BY <1>10 DEF Consume, store, channels, ends, ghosts
<1>11. CASE \E t \in Subscribers : CancelBegin(t)
  BY <1>11 DEF CancelBegin, store, channels, ends, ghosts
<1>12. CASE \E t \in Subscribers : CancelUnregister(t)
  BY <1>12 DEF CancelUnregister, MutexFree, store, channels, ends, ghosts
<1>13. CASE \E t \in Subscribers : CancelClose(t)
  BY <1>13 DEF CancelClose, store, channels, ends, ghosts
<1>14. CASE UNCHANGED vars
  BY <1>14 DEF vars, store, channels, ends, ghosts
<1>15. QED
  BY <1>1, <1>2, <1>3, <1>4, <1>5, <1>6, <1>7, <1>8, <1>9, <1>10, <1>11, <1>12, <1>13, <1>14 DEF Next, PumpStep, CancelStep

LEMMA ProtocolStep ==
    ASSUME TypeOK, \A s \in Subscribers : Bounded(s) /\ Protocol(s), [Next]_vars,
           NEW s \in Subscribers
    PROVE  Protocol(s)'
<1> USE DEF TypeOK, Protocol
<1>1. CASE \E k \in 0..size : Insert(k)
  BY <1>1 DEF Insert, Section, MutexFree, store, channels, ends, ghosts
<1>2. CASE Delete
  BY <1>2 DEF Delete, Section, MutexFree, store, channels, ends, ghosts
<1>3. CASE DeleteAll
  BY <1>3 DEF DeleteAll, Section, MutexFree, store, channels, ends, ghosts
<1>4. CASE Reset
  BY <1>4 DEF Reset, Section, MutexFree, store, channels, ends, ghosts
<1>5. CASE Emit
  BY <1>5 DEF Emit, Full, store, channels, ends, ghosts
<1>6. CASE \E t \in Subscribers : Subscribe(t)
  BY <1>6 DEF Subscribe, MutexFree, store, channels, ends, ghosts
<1>7. CASE \E t \in Subscribers : PumpTake(t)
  BY <1>7 DEF PumpTake, store, channels, ends, ghosts
<1>8. CASE \E t \in Subscribers : PumpSend(t)
  BY <1>8 DEF PumpSend, store, channels, ends, ghosts
<1>9. CASE \E t \in Subscribers : PumpStop(t)
  BY <1>9 DEF PumpStop, MayStop, store, channels, ends, ghosts
<1>10. CASE \E t \in Subscribers : Consume(t)
  BY <1>10 DEF Consume, store, channels, ends, ghosts
<1>11. CASE \E t \in Subscribers : CancelBegin(t)
  BY <1>11 DEF CancelBegin, store, channels, ends, ghosts
<1>12. CASE \E t \in Subscribers : CancelUnregister(t)
  BY <1>12 DEF CancelUnregister, MutexFree, store, channels, ends, ghosts
<1>13. CASE \E t \in Subscribers : CancelClose(t)
  BY <1>13 DEF CancelClose, store, channels, ends, ghosts
<1>14. CASE UNCHANGED vars
  BY <1>14 DEF vars, store, channels, ends, ghosts
<1>15. QED
  BY <1>1, <1>2, <1>3, <1>4, <1>5, <1>6, <1>7, <1>8, <1>9, <1>10, <1>11, <1>12, <1>13, <1>14 DEF Next, PumpStep, CancelStep

-----------------------------------------------------------------------------
(* What a step does to the events on their way to a subscriber s.          *)

Kept(s) == Pipe(s)' = Pipe(s) /\ got'[s] = got[s]

Grown(s) ==
    /\ Emit /\ s \in subs /\ ~Full(s) /\ pump[s] # "exit"
    /\ Pipe(s)' = Append(Pipe(s), generation + 1)
    /\ got'[s] = got[s]

Shifted(s) ==
    /\ Pipe(s) # <<>>
    /\ Pipe(s)' = Tail(Pipe(s))
    /\ got'[s] = Head(Pipe(s))
    /\ generation' = generation /\ done' = done /\ from' = from /\ dropped' = dropped
    /\ subs' = subs

Cropped(s) ==
    /\ done[s] /\ generation' = generation
    /\ Beginning(Pipe(s), Pipe(s)')
    /\ got'[s] = got[s]

LEMMA PipeType ==
    ASSUME TypeOK, NEW s \in Subscribers, Bounded(s)
    PROVE  Pipe(s) \in Seq(Nat) /\ Len(Pipe(s)) <= 2 * Buffer + 1
<1> DEFINE c == IF pump[s] = "exit" THEN <<>> ELSE src[s]
<1>1. /\ out[s] \in Seq(Nat) /\ held[s] \in Seq(Nat) /\ c \in Seq(Nat)
      /\ Len(out[s]) <= Buffer /\ Len(held[s]) <= 1 /\ Len(c) <= Buffer
  BY EmptySeq, EventsAssumption DEF TypeOK, Bounded
<1>0. Pipe(s) = out[s] \o held[s] \o c
  BY DEF Pipe
<1> HIDE DEF c
<1>2. Buffer \in Nat
  BY EventsAssumption
<1>3. QED
  BY <1>0, <1>1, <1>2, Length

\* One subscriber's three channels and the pump's exit decide its pipe.
LEMMA SamePipe ==
    ASSUME NEW s \in Subscribers,
           out'[s] = out[s], held'[s] = held[s], got'[s] = got[s],
           \/ pump[s] = "exit" /\ pump'[s] = "exit"
           \/ src'[s] = src[s] /\ (pump[s] = "exit" <=> pump'[s] = "exit")
    PROVE  Kept(s)
  BY DEF Kept, Pipe

LEMMA RoomToEnter ==
    ASSUME TypeOK, NEW s \in Subscribers, Bounded(s), pump[s] # "exit", ~Full(s)
    PROVE  Len(Pipe(s)) < 2 * Buffer + 1
<1>1. /\ out[s] \in Seq(Nat) /\ held[s] \in Seq(Nat) /\ src[s] \in Seq(Nat)
      /\ Len(out[s]) <= Buffer /\ Len(held[s]) <= 1 /\ Len(src[s]) <= Buffer
      /\ Len(src[s]) # Buffer /\ Buffer \in Nat
  BY EventsAssumption DEF TypeOK, Bounded, Full
<1>2. Pipe(s) = out[s] \o held[s] \o src[s]
  BY DEF Pipe
<1>3. Len(out[s] \o held[s] \o src[s]) < 2 * Buffer + 1
  BY ONLY <1>1, Room
<1>4. QED
  BY <1>2, <1>3

LEMMA EmitFlow ==
    ASSUME TypeOK, NEW s \in Subscribers, Emit
    PROVE  IF s \in subs /\ ~Full(s) /\ pump[s] # "exit" THEN Grown(s) ELSE Kept(s)
<1>1. CASE s \in subs /\ ~Full(s) /\ pump[s] # "exit"
  <2>1. /\ src'[s] = Append(src[s], generation + 1)
        /\ out'[s] = out[s] /\ held'[s] = held[s] /\ got'[s] = got[s] /\ pump' = pump
    BY <1>1 DEF Emit, ends
  <2>2. /\ out[s] \in Seq(Nat) /\ held[s] \in Seq(Nat) /\ src[s] \in Seq(Nat)
        /\ generation + 1 \in Nat
    BY DEF TypeOK
  <2>3. out[s] \o held[s] \o Append(src[s], generation + 1)
          = Append(out[s] \o held[s] \o src[s], generation + 1)
    <3> DEFINE e == generation + 1
    <3>1. e \in Nat
      BY <2>2
    <3> HIDE DEF e
    <3>2. out[s] \o held[s] \o Append(src[s], e) = Append(out[s] \o held[s] \o src[s], e)
      <4>1. Enters(Nat)
        BY ONLY Entered, Zenon
      <4> QED BY ONLY <2>2, <3>1, <4>1, Zenon DEF Enters
    <3>3. QED
      BY <3>2 DEF e
  <2>4. Pipe(s)' = out[s] \o held[s] \o Append(src[s], generation + 1)
    BY <1>1, <2>1 DEF Pipe
  <2>5. Pipe(s) = out[s] \o held[s] \o src[s]
    BY <1>1 DEF Pipe
  <2>6. QED
    BY <1>1, <2>1, <2>3, <2>4, <2>5 DEF Grown
<1>2. CASE ~(s \in subs /\ ~Full(s)) \/ pump[s] = "exit"
  <2>1. out'[s] = out[s] /\ held'[s] = held[s] /\ got'[s] = got[s] /\ pump' = pump
    BY DEF Emit, ends
  <2>2. pump[s] = "exit" \/ src'[s] = src[s]
    BY <1>2 DEF Emit
  <2>3. QED
    BY <1>2, <2>1, <2>2, SamePipe
<1>3. QED
  BY <1>1, <1>2

LEMMA TakeFlow ==
    ASSUME TypeOK, NEW s \in Subscribers, Bounded(s), NEW t \in Subscribers, PumpTake(t)
    PROVE  Kept(s)
<1>1. CASE s = t
  <2>1. /\ src[s] # <<>> /\ pump[s] = "select" /\ pump'[s] = "send"
        /\ held'[s] = <<Head(src[s])>> /\ src'[s] = Tail(src[s])
        /\ out'[s] = out[s] /\ got'[s] = got[s]
    BY <1>1 DEF PumpTake, TypeOK
  <2>2. out[s] \in Seq(Nat) /\ held[s] \in Seq(Nat) /\ src[s] \in Seq(Nat) /\ Len(held[s]) = 0
    BY <2>1 DEF TypeOK, Bounded
  <2>3. held[s] = <<>>
    BY ONLY <2>2, EmptySeq
  <2>4. out[s] \o <<Head(src[s])>> \o Tail(src[s]) = out[s] \o <<>> \o src[s]
    BY ONLY <2>1, <2>2, Taken
  <2>5. Pipe(s)' = out[s] \o <<Head(src[s])>> \o Tail(src[s])
    BY <2>1 DEF Pipe
  <2>6. Pipe(s) = out[s] \o <<>> \o src[s]
    BY <2>1, <2>3 DEF Pipe
  <2>7. QED
    BY <2>1, <2>4, <2>5, <2>6 DEF Kept
<1>2. CASE s # t
  BY <1>2, SamePipe DEF PumpTake, TypeOK
<1>3. QED
  BY <1>1, <1>2

LEMMA SendFlow ==
    ASSUME TypeOK, NEW s \in Subscribers, NEW t \in Subscribers, PumpSend(t)
    PROVE  Kept(s)
<1>1. CASE s = t
  <2>1. /\ pump[s] = "send" /\ pump'[s] = "select"
        /\ held'[s] = <<>> /\ src'[s] = src[s]
        /\ out'[s] = out[s] \o held[s] /\ got'[s] = got[s]
    BY <1>1 DEF PumpSend, TypeOK
  <2>2. out[s] \in Seq(Nat) /\ held[s] \in Seq(Nat) /\ src[s] \in Seq(Nat)
    BY DEF TypeOK
  <2>3. (out[s] \o held[s]) \o <<>> \o src[s] = out[s] \o held[s] \o src[s]
    BY ONLY <2>2, Sent
  <2>4. Pipe(s)' = (out[s] \o held[s]) \o <<>> \o src[s]
    BY <2>1 DEF Pipe
  <2>5. Pipe(s) = out[s] \o held[s] \o src[s]
    BY <2>1 DEF Pipe
  <2>6. QED
    BY <2>1, <2>3, <2>4, <2>5 DEF Kept
<1>2. CASE s # t
  BY <1>2, SamePipe DEF PumpSend, TypeOK
<1>3. QED
  BY <1>1, <1>2

LEMMA ConsumeFlow ==
    ASSUME TypeOK, NEW s \in Subscribers, NEW t \in Subscribers, Consume(t)
    PROVE  Kept(s) \/ Shifted(s)
<1>1. CASE s = t
  <2> DEFINE c == IF pump[s] = "exit" THEN <<>> ELSE src[s]
  <2>1. /\ out[s] # <<>> /\ out'[s] = Tail(out[s]) /\ got'[s] = Head(out[s])
        /\ held' = held /\ src' = src /\ pump' = pump
        /\ generation' = generation /\ done' = done /\ from' = from /\ dropped' = dropped
        /\ subs' = subs
    BY <1>1 DEF Consume, TypeOK, store, ends, ghosts
  <2>2. out[s] \in Seq(Nat) /\ held[s] \in Seq(Nat) /\ c \in Seq(Nat)
    BY EmptySeq DEF TypeOK
  <2>3. Pipe(s)' = Tail(out[s]) \o held[s] \o c
    BY <2>1 DEF Pipe
  <2>4. Pipe(s) = out[s] \o held[s] \o c
    BY DEF Pipe
  <2> HIDE DEF c
  <2>5. /\ out[s] \o held[s] \o c # <<>>
        /\ Head(out[s] \o held[s] \o c) = Head(out[s])
        /\ Tail(out[s]) \o held[s] \o c = Tail(out[s] \o held[s] \o c)
    BY ONLY <2>1, <2>2, Read
  <2>6. QED
    BY <2>1, <2>3, <2>4, <2>5 DEF Shifted
<1>2. CASE s # t
  BY <1>2, SamePipe DEF Consume, TypeOK, ends
<1>3. QED
  BY <1>1, <1>2

LEMMA StopFlow ==
    ASSUME TypeOK, NEW s \in Subscribers, Protocol(s), NEW t \in Subscribers, PumpStop(t)
    PROVE  Kept(s) \/ Cropped(s)
<1>1. CASE s = t
  <2>1. /\ pump[s] # "exit" /\ pump'[s] = "exit" /\ held'[s] = <<>>
        /\ out'[s] = out[s] /\ got'[s] = got[s] /\ done[s] /\ generation' = generation
    BY <1>1 DEF PumpStop, MayStop, TypeOK, Protocol, store
  <2>2. out[s] \in Seq(Nat) /\ held[s] \in Seq(Nat) /\ src[s] \in Seq(Nat)
    BY DEF TypeOK
  <2>3. Pipe(s)' = out[s] \o <<>> \o <<>>
    BY <2>1 DEF Pipe
  <2>4. Pipe(s)' = out[s]
    BY <2>2, <2>3, ConcatEmptySeq
  <2>5. Pipe(s) = out[s] \o held[s] \o src[s]
    BY <2>1 DEF Pipe
  <2>6. \/ out[s] \o held[s] \o src[s] = out[s]
        \/ Beginning(out[s] \o held[s] \o src[s], out[s])
    BY ONLY <2>2, Cut
  <2>7. QED
    BY <2>1, <2>4, <2>5, <2>6 DEF Kept, Cropped
<1>2. CASE s # t
  BY <1>2, SamePipe DEF PumpStop, TypeOK
<1>3. QED
  BY <1>1, <1>2

LEMMA Flow ==
    ASSUME TypeOK, NEW s \in Subscribers, Bounded(s), Protocol(s), [Next]_vars
    PROVE  Kept(s) \/ Grown(s) \/ Shifted(s) \/ Cropped(s)
<1>1. CASE \E k \in 0..size : Insert(k)
  BY <1>1, SamePipe DEF Insert, Section, channels, ends
<1>2. CASE Delete
  BY <1>2, SamePipe DEF Delete, Section, channels, ends
<1>3. CASE DeleteAll
  BY <1>3, SamePipe DEF DeleteAll, Section, channels, ends
<1>4. CASE Reset
  BY <1>4, SamePipe DEF Reset, Section, channels, ends
<1>5. CASE Emit
  BY <1>5, EmitFlow
<1>6. CASE \E t \in Subscribers : Subscribe(t)
  <2>1. out' = out /\ held' = held /\ src' = src /\ got' = got
    BY <1>6 DEF Subscribe, channels
  <2>2. pump[s] = "exit" <=> pump'[s] = "exit"
    BY <1>6 DEF Subscribe, TypeOK
  <2>3. QED
    BY <2>1, <2>2, SamePipe
<1>7. CASE \E t \in Subscribers : PumpTake(t)
  BY <1>7, TakeFlow
<1>8. CASE \E t \in Subscribers : PumpSend(t)
  BY <1>8, SendFlow
<1>9. CASE \E t \in Subscribers : PumpStop(t)
  BY <1>9, StopFlow
<1>10. CASE \E t \in Subscribers : Consume(t)
  BY <1>10, ConsumeFlow
<1>11. CASE \E t \in Subscribers : CancelBegin(t)
  BY <1>11, SamePipe DEF CancelBegin, channels
<1>12. CASE \E t \in Subscribers : CancelUnregister(t)
  BY <1>12, SamePipe DEF CancelUnregister, channels
<1>13. CASE \E t \in Subscribers : CancelClose(t)
  BY <1>13, SamePipe DEF CancelClose, channels
<1>14. CASE UNCHANGED vars
  BY <1>14, SamePipe DEF vars, channels, ends
<1>15. QED
  BY <1>1, <1>2, <1>3, <1>4, <1>5, <1>6, <1>7, <1>8, <1>9, <1>10, <1>11, <1>12, <1>13, <1>14 DEF Next, PumpStep, CancelStep

\* Generations only rise, by one, and a new subscription starts at the newest.
LEMMA Rises ==
    ASSUME TypeOK, [Next]_vars, NEW s \in Subscribers
    PROVE  /\ generation' = generation \/ generation' = generation + 1
           /\ from'[s] = from[s] \/ from'[s] = generation
<1> USE DEF TypeOK
<1>1. CASE \E k \in 0..size : Insert(k)
  BY <1>1 DEF Insert, Section, MutexFree, store, channels, ends, ghosts
<1>2. CASE Delete
  BY <1>2 DEF Delete, Section, MutexFree, store, channels, ends, ghosts
<1>3. CASE DeleteAll
  BY <1>3 DEF DeleteAll, Section, MutexFree, store, channels, ends, ghosts
<1>4. CASE Reset
  BY <1>4 DEF Reset, Section, MutexFree, store, channels, ends, ghosts
<1>5. CASE Emit
  BY <1>5 DEF Emit, Full, store, channels, ends, ghosts
<1>6. CASE \E t \in Subscribers : Subscribe(t)
  BY <1>6 DEF Subscribe, MutexFree, store, channels, ends, ghosts
<1>7. CASE \E t \in Subscribers : PumpTake(t)
  BY <1>7 DEF PumpTake, store, channels, ends, ghosts
<1>8. CASE \E t \in Subscribers : PumpSend(t)
  BY <1>8 DEF PumpSend, store, channels, ends, ghosts
<1>9. CASE \E t \in Subscribers : PumpStop(t)
  BY <1>9 DEF PumpStop, MayStop, store, channels, ends, ghosts
<1>10. CASE \E t \in Subscribers : Consume(t)
  BY <1>10 DEF Consume, store, channels, ends, ghosts
<1>11. CASE \E t \in Subscribers : CancelBegin(t)
  BY <1>11 DEF CancelBegin, store, channels, ends, ghosts
<1>12. CASE \E t \in Subscribers : CancelUnregister(t)
  BY <1>12 DEF CancelUnregister, MutexFree, store, channels, ends, ghosts
<1>13. CASE \E t \in Subscribers : CancelClose(t)
  BY <1>13 DEF CancelClose, store, channels, ends, ghosts
<1>14. CASE UNCHANGED vars
  BY <1>14 DEF vars, store, channels, ends, ghosts
<1>15. QED
  BY <1>1, <1>2, <1>3, <1>4, <1>5, <1>6, <1>7, <1>8, <1>9, <1>10, <1>11, <1>12, <1>13, <1>14 DEF Next, PumpStep, CancelStep

LEMMA OrderedStep ==
    ASSUME TypeOK, NEW s \in Subscribers, Bounded(s), Protocol(s), Ordered(s), [Next]_vars
    PROVE  Ordered(s)'
<1>1. Pipe(s) \in Seq(Nat) /\ got[s] \in Nat /\ generation \in Nat /\ from[s] \in Nat
  BY PipeType DEF TypeOK
<1>2. /\ generation' = generation \/ generation' = generation + 1
      /\ from'[s] = from[s] \/ from'[s] = generation
  BY Rises
<1>3. from'[s] <= generation'
  BY <1>1, <1>2 DEF Ordered
<1>4. CASE Kept(s)
  <2>1. Rising(Pipe(s), got[s], generation')
    <3>1. \A j \in 1..Len(Pipe(s)) : Pipe(s)[j] \in Nat
      BY <1>1, ElementOfSeq
    <3>2. \A j \in 1..Len(Pipe(s)) : got[s] < Pipe(s)[j] /\ Pipe(s)[j] <= generation'
      BY <1>1, <1>2, <3>1 DEF Ordered, Rising
    <3>3. QED
      BY <3>2 DEF Ordered, Rising
  <2>2. Pipe(s)' = Pipe(s) /\ got'[s] = got[s] /\ got[s] <= generation'
    BY <1>1, <1>2, <1>4 DEF Kept, Ordered
  <2>3. QED
    BY <1>3, <2>1, <2>2 DEF Ordered
<1>5. CASE Grown(s)
  <2>1. generation' = generation + 1 /\ got'[s] = got[s]
    BY <1>5 DEF Grown, Emit
  <2>2. Rising(Append(Pipe(s), generation + 1), got[s], generation + 1)
    BY <1>1, RisingAppend DEF Ordered
  <2>3. Rising(Pipe(s)', got'[s], generation')
    BY <1>5, <2>1, <2>2 DEF Grown
  <2>4. QED
    BY <1>1, <1>3, <2>1, <2>3 DEF Ordered
<1>6. CASE Shifted(s)
  <2>1. Rising(Tail(Pipe(s)), Head(Pipe(s)), generation) /\ Head(Pipe(s)) <= generation
    BY <1>1, <1>6, RisingTail DEF Ordered, Shifted
  <2>2. QED
    BY <1>3, <1>6, <2>1 DEF Ordered, Shifted
<1>7. CASE Cropped(s)
  <2>1. Rising(Pipe(s)', got[s], generation)
    BY <1>1, <1>7, RisingBeginning DEF Ordered, Cropped
  <2>2. QED
    BY <1>3, <1>7, <2>1 DEF Ordered, Cropped
<1>8. QED
  BY <1>4, <1>5, <1>6, <1>7, Flow

\* Nothing but Emit and its own Subscribe touches what NoGap says of s.
LEMMA Frame ==
    ASSUME TypeOK, [Next]_vars, NEW s \in Subscribers, ~Emit, ~Subscribe(s)
    PROVE  /\ generation' = generation /\ from'[s] = from[s]
           /\ s \in subs' => s \in subs
           /\ dropped'[s] = dropped[s]
           /\ done[s] => done'[s]
<1> USE DEF TypeOK
<1>1. CASE \E k \in 0..size : Insert(k)
  BY <1>1 DEF Insert, Section, MutexFree, store, channels, ends, ghosts
<1>2. CASE Delete
  BY <1>2 DEF Delete, Section, MutexFree, store, channels, ends, ghosts
<1>3. CASE DeleteAll
  BY <1>3 DEF DeleteAll, Section, MutexFree, store, channels, ends, ghosts
<1>4. CASE Reset
  BY <1>4 DEF Reset, Section, MutexFree, store, channels, ends, ghosts
<1>5. CASE Emit
  BY <1>5
<1>6. CASE \E t \in Subscribers : Subscribe(t)
  BY <1>6 DEF Subscribe, MutexFree, store, channels, ends, ghosts
<1>7. CASE \E t \in Subscribers : PumpTake(t)
  BY <1>7 DEF PumpTake, store, channels, ends, ghosts
<1>8. CASE \E t \in Subscribers : PumpSend(t)
  BY <1>8 DEF PumpSend, store, channels, ends, ghosts
<1>9. CASE \E t \in Subscribers : PumpStop(t)
  BY <1>9 DEF PumpStop, MayStop, store, channels, ends, ghosts
<1>10. CASE \E t \in Subscribers : Consume(t)
  BY <1>10 DEF Consume, store, channels, ends, ghosts
<1>11. CASE \E t \in Subscribers : CancelBegin(t)
  BY <1>11 DEF CancelBegin, store, channels, ends, ghosts
<1>12. CASE \E t \in Subscribers : CancelUnregister(t)
  BY <1>12 DEF CancelUnregister, MutexFree, store, channels, ends, ghosts
<1>13. CASE \E t \in Subscribers : CancelClose(t)
  BY <1>13 DEF CancelClose, store, channels, ends, ghosts
<1>14. CASE UNCHANGED vars
  BY <1>14 DEF vars, store, channels, ends, ghosts
<1>15. QED
  BY <1>1, <1>2, <1>3, <1>4, <1>5, <1>6, <1>7, <1>8, <1>9, <1>10, <1>11, <1>12, <1>13, <1>14 DEF Next, PumpStep, CancelStep

LEMMA GapStep ==
    ASSUME TypeOK, NEW s \in Subscribers, Bounded(s), Protocol(s), Ordered(s), NoGap,
           [Next]_vars, s \in subs', ~dropped'[s], ~done'[s]
    PROVE  Pipe(s)' = Run(IF got'[s] > from'[s] THEN got'[s] ELSE from'[s], generation')
<1> DEFINE b == IF got[s] > from[s] THEN got[s] ELSE from[s]
<1>1. /\ Pipe(s) \in Seq(Nat) /\ got[s] \in Nat /\ generation \in Nat /\ from[s] \in Nat
      /\ got[s] <= generation /\ from[s] <= generation
  BY PipeType DEF TypeOK, Ordered
<1>2. b \in Nat /\ b <= generation
  BY <1>1
<1>3. s \in subs /\ ~dropped[s] /\ ~done[s] => Pipe(s) = Run(b, generation)
  BY DEF NoGap, Run
<1>4. CASE Subscribe(s)
  <2>1. pump[s] = "none" /\ pump'[s] = "select" /\ from'[s] = generation
        /\ generation' = generation /\ got'[s] = got[s]
        /\ out'[s] = out[s] /\ held'[s] = held[s] /\ src'[s] = src[s]
    BY <1>4 DEF Subscribe, TypeOK, store, channels
  <2>2. out[s] = <<>> /\ src[s] = <<>> /\ got[s] = 0
    BY <2>1 DEF Protocol
  <2>3. held[s] \in Seq(Nat) /\ Len(held[s]) = 0
    BY <2>1 DEF Bounded, TypeOK
  <2>4. held[s] = <<>>
    BY ONLY <2>3, EmptySeq
  <2>5. Pipe(s)' = <<>> \o <<>> \o <<>>
    BY <2>1, <2>2, <2>4 DEF Pipe
  <2>6. Pipe(s)' = <<>>
    BY ONLY <2>5, ConcatEmptySeq, EmptySeq
  <2>7. (IF got'[s] > from'[s] THEN got'[s] ELSE from'[s]) = generation
    BY <1>1, <2>1, <2>2
  <2>8. Run(generation, generation) = <<>>
    BY <1>1 DEF Run
  <2>9. QED
    BY <2>1, <2>6, <2>7, <2>8
<1>5. CASE Emit
  <2>1. /\ s \in subs /\ ~dropped[s] /\ ~done[s] /\ ~Full(s)
        /\ generation' = generation + 1 /\ from' = from
    BY <1>5 DEF Emit, ends, TypeOK
  <2>2. pump[s] # "exit"
    BY <2>1 DEF Protocol
  <2>3. Grown(s)
    BY <1>5, <2>1, <2>2, EmitFlow
  <2>4. Append(Run(b, generation), generation + 1) = Run(b, generation + 1)
    BY ONLY <1>1, <1>2, RunAppend
  <2>5. QED
    BY <1>3, <2>1, <2>3, <2>4 DEF Grown
<1>6. CASE ~Emit /\ ~Subscribe(s)
  <2>1. /\ generation' = generation /\ from'[s] = from[s]
        /\ s \in subs /\ ~dropped[s] /\ ~done[s]
    BY <1>6, Frame
  <2>2. Pipe(s) = Run(b, generation)
    BY <1>3, <2>1
  <2>3. CASE Kept(s)
    BY <2>1, <2>2, <2>3 DEF Kept
  <2>4. CASE Shifted(s)
    <3>1. Pipe(s) # <<>> /\ Pipe(s)' = Tail(Pipe(s)) /\ got'[s] = Head(Pipe(s))
      BY <2>4 DEF Shifted
    <3> HIDE DEF b
    <3>2. Head(Run(b, generation)) = b + 1 /\ Tail(Run(b, generation)) = Run(b + 1, generation)
      BY <1>1, <1>2, <2>2, <3>1, RunTail
    <3>3. got'[s] = b + 1 /\ Pipe(s)' = Run(b + 1, generation)
      BY <2>2, <3>1, <3>2
    <3>4. (IF got'[s] > from'[s] THEN got'[s] ELSE from'[s]) = b + 1
      BY <1>1, <2>1, <3>3 DEF b
    <3>5. QED
      BY <2>1, <3>3, <3>4
  <2>5. QED
    BY <1>6, <2>1, <2>3, <2>4, Flow DEF Grown, Cropped
<1>7. QED
  BY <1>4, <1>5, <1>6

-----------------------------------------------------------------------------
(* The theorems.                                                           *)

LEMMA EventsInit == Init => EventsInv
<1> SUFFICES ASSUME Init PROVE EventsInv
  OBVIOUS
<1>1. TypeOK
  BY TypeInit
<1>2. ASSUME NEW s \in Subscribers
      PROVE  /\ out[s] = <<>> /\ held[s] = <<>> /\ src[s] = <<>> /\ pump[s] = "none"
             /\ got[s] = 0 /\ from[s] = 0 /\ generation = 0 /\ s \notin subs
             /\ cancelPc[s] = "idle" /\ ~done[s] /\ ~srcClosed[s]
  BY DEF Init
<1>3. Len(<<>>) = 0
  OBVIOUS
<1>4. ASSUME NEW s \in Subscribers PROVE Bounded(s) /\ Protocol(s)
  BY <1>2, <1>3, EventsAssumption DEF Bounded, Protocol
<1>5. ASSUME NEW s \in Subscribers PROVE Pipe(s) = <<>>
  <2>1. Pipe(s) = <<>> \o <<>> \o <<>>
    BY <1>2 DEF Pipe
  <2>2. QED
    BY ONLY <2>1, ConcatEmptySeq, EmptySeq
<1>6. ASSUME NEW s \in Subscribers PROVE Ordered(s)
  BY <1>2, <1>3, <1>5 DEF Ordered, Rising
<1>7. NoGap
  BY <1>2 DEF NoGap
<1>8. QED
  BY <1>1, <1>4, <1>6, <1>7 DEF EventsInv

LEMMA EventsNext == EventsInv /\ [Next]_vars => EventsInv'
<1> SUFFICES ASSUME EventsInv, [Next]_vars PROVE EventsInv'
  OBVIOUS
<1>1. TypeOK /\ NoGap /\ \A s \in Subscribers : Bounded(s) /\ Protocol(s) /\ Ordered(s)
  BY DEF EventsInv
<1>2. TypeOK'
  BY <1>1, TypeStep
<1>3. ASSUME NEW s \in Subscribers PROVE (Bounded(s) /\ Protocol(s) /\ Ordered(s))'
  BY <1>1, BoundedStep, ProtocolStep, OrderedStep
<1>4. NoGap'
  <2> SUFFICES ASSUME NEW s \in Subscribers, s \in subs', ~dropped'[s], ~done'[s]
               PROVE  Pipe(s)' = Run(IF got'[s] > from'[s] THEN got'[s] ELSE from'[s],
                                     generation')
    BY DEF NoGap, Run
  <2> QED
    BY <1>1, GapStep
<1>5. QED
  BY <1>2, <1>3, <1>4 DEF EventsInv

\* Channels, pump and cancel stay in step, in every reachable state.
THEOREM EventsInvariant == Spec => []EventsInv
  BY EventsInit, EventsNext, PTL DEF Spec

\* emitLocked never sends on a channel that cancel has closed.
THEOREM NeverSendsOnClosed == Spec => []NoSendOnClosed
<1>1. EventsInv => NoSendOnClosed
  BY DEF EventsInv, TypeOK, Protocol, NoSendOnClosed
<1>2. QED
  BY <1>1, EventsInvariant, PTL

\* A subscription that has not overflowed has every event since Subscribe, once and in order.
THEOREM NothingMissing == Spec => []NoGap
<1>1. EventsInv => NoGap
  BY DEF EventsInv
<1>2. QED
  BY <1>1, EventsInvariant, PTL

-----------------------------------------------------------------------------
(* The refinement.                                                         *)

LEMMA DoneStays ==
    ASSUME TypeOK, [Next]_vars, NEW s \in Subscribers
    PROVE  done'[s] = done[s] \/ (~done[s] /\ done'[s])
<1> USE DEF TypeOK
<1>1. CASE \E k \in 0..size : Insert(k)
  BY <1>1 DEF Insert, Section, MutexFree, store, channels, ends, ghosts
<1>2. CASE Delete
  BY <1>2 DEF Delete, Section, MutexFree, store, channels, ends, ghosts
<1>3. CASE DeleteAll
  BY <1>3 DEF DeleteAll, Section, MutexFree, store, channels, ends, ghosts
<1>4. CASE Reset
  BY <1>4 DEF Reset, Section, MutexFree, store, channels, ends, ghosts
<1>5. CASE Emit
  BY <1>5 DEF Emit, Full, store, channels, ends, ghosts
<1>6. CASE \E t \in Subscribers : Subscribe(t)
  BY <1>6 DEF Subscribe, MutexFree, store, channels, ends, ghosts
<1>7. CASE \E t \in Subscribers : PumpTake(t)
  BY <1>7 DEF PumpTake, store, channels, ends, ghosts
<1>8. CASE \E t \in Subscribers : PumpSend(t)
  BY <1>8 DEF PumpSend, store, channels, ends, ghosts
<1>9. CASE \E t \in Subscribers : PumpStop(t)
  BY <1>9 DEF PumpStop, MayStop, store, channels, ends, ghosts
<1>10. CASE \E t \in Subscribers : Consume(t)
  BY <1>10 DEF Consume, store, channels, ends, ghosts
<1>11. CASE \E t \in Subscribers : CancelBegin(t)
  BY <1>11 DEF CancelBegin, store, channels, ends, ghosts
<1>12. CASE \E t \in Subscribers : CancelUnregister(t)
  BY <1>12 DEF CancelUnregister, MutexFree, store, channels, ends, ghosts
<1>13. CASE \E t \in Subscribers : CancelClose(t)
  BY <1>13 DEF CancelClose, store, channels, ends, ghosts
<1>14. CASE UNCHANGED vars
  BY <1>14 DEF vars, store, channels, ends, ghosts
<1>15. QED
  BY <1>1, <1>2, <1>3, <1>4, <1>5, <1>6, <1>7, <1>8, <1>9, <1>10, <1>11, <1>12, <1>13, <1>14 DEF Next, PumpStep, CancelStep

LEMMA QueueInit == Init => Queue!Init
<1> SUFFICES ASSUME Init PROVE Queue!Init
  OBVIOUS
<1>1. ASSUME NEW s \in Subscribers PROVE Pipe(s) = <<>>
  <2>1. Pipe(s) = <<>> \o <<>> \o <<>>
    BY DEF Init, Pipe
  <2>2. QED
    BY ONLY <2>1, ConcatEmptySeq, EmptySeq
<1>2. QED
  BY <1>1 DEF Init, Queue!Init

\* Emit is Enter where the channel has room, Consume is Deliver, cancel is Cancel, a pump
\* that exits with events in hand is Lose, and its other steps leave the queue alone.
LEMMA QueueStep ==
    ASSUME EventsInv, [Next]_vars, NEW s \in Subscribers
    PROVE  Queue!Enter(s) \/ Queue!Deliver(s) \/ Queue!Cancel(s) \/ Queue!Lose(s) \/ Queue!Stay(s)
<1> DEFINE q == [t \in Subscribers |-> Pipe(t)]
<1>1. q[s] = Pipe(s) /\ q'[s] = Pipe(s)'
  OBVIOUS
<1>2. /\ TypeOK /\ Bounded(s) /\ Protocol(s) /\ Ordered(s)
      /\ Pipe(s) \in Seq(Nat) /\ Len(Pipe(s)) \in Nat /\ Len(Pipe(s)) <= 2 * Buffer + 1
      /\ got[s] \in Nat /\ generation \in Nat /\ Buffer \in Nat
  BY PipeType, LenProperties, EventsAssumption DEF EventsInv, TypeOK
<1>3. done'[s] = done[s] \/ (~done[s] /\ done'[s])
  BY <1>2, DoneStays
<1>4. CASE Kept(s)
  BY <1>1, <1>3, <1>4 DEF Kept, Queue!Cancel, Queue!Stay
<1>5. CASE Grown(s)
  <2>1. Len(Pipe(s)) < 2 * Buffer + 1
    BY <1>2, <1>5, RoomToEnter DEF Grown
  <2>2. generation + 1 \in Nat
    BY <1>2
  <2>3. /\ Queue!IsPrefix(Pipe(s), Pipe(s)') /\ Queue!Last(Pipe(s)') = generation + 1
        /\ Len(Pipe(s)') = Len(Pipe(s)) + 1
    BY <1>2, <1>5, <2>2, AppendPrefix DEF Grown
  <2>4. \A j \in 1..Len(Pipe(s)) : Pipe(s)[j] \in Nat /\ Pipe(s)[j] <= generation
    BY <1>2, ElementOfSeq DEF Ordered, Rising
  <2>5. got[s] < generation + 1 /\ \A j \in 1..Len(Pipe(s)) : Pipe(s)[j] < generation + 1
    BY <1>2, <2>4 DEF Ordered
  <2>6. got'[s] = got[s] /\ done'[s] = done[s]
    BY <1>5 DEF Grown, Emit, ends
  <2>7. QED
    BY <1>1, <2>1, <2>3, <2>5, <2>6 DEF Queue!Enter
<1>6. CASE Shifted(s)
  BY <1>1, <1>6 DEF Shifted, Queue!Deliver
<1>7. CASE Cropped(s)
  <2>1. Queue!IsStrictPrefix(Pipe(s)', Pipe(s))
    BY <1>2, <1>7, BeginningPrefix DEF Cropped
  <2>2. got'[s] = got[s] /\ done'[s] = done[s] /\ done[s]
    BY <1>3, <1>7 DEF Cropped
  <2>3. QED
    BY <1>1, <2>1, <2>2 DEF Queue!Lose
<1>8. QED
  BY <1>2, <1>4, <1>5, <1>6, <1>7, Flow

\* The store's channel, the pump and the consumer's channel implement one ordered queue.
THEOREM EventsImplementQueue == Spec => ImplementsQueue
<1>1. EventsInv /\ [Next]_vars => [Queue!Next]_(Queue!vars)
  BY QueueStep DEF Queue!Next
<1>2. QED
  BY <1>1, QueueInit, EventsInvariant, PTL DEF Spec, ImplementsQueue, Queue!Spec
=============================================================================
