--------------------------- MODULE StoreWaitProofs ---------------------------
(***************************************************************************)
(* Theorems about StoreWait, for every number of callers and messages,     *)
(* every filter, and with or without failing spill files.                  *)
(***************************************************************************)
EXTENDS StoreWait, FiniteSetTheorems, SequenceTheorems, TLAPS

\* Callers that sleep or have not yet taken the mutex back.
Sleeping == {w \in Waiters : pc[w] \in {"asleep", "woken"}}

\* The types, without the count of sleepers.
Types ==
    /\ order \in Seq(Ids) /\ read \subseteq Members
    /\ waiters \in Nat
    /\ pc \in [Waiters -> {"idle", "start", "load", "missing", "recheck", "asleep", "woken"}]
    /\ snap \in [Waiters -> SUBSET Ids]
    /\ done \in [Waiters -> BOOLEAN]
    /\ helper \in [Waiters -> BOOLEAN]
    /\ res \in [Waiters -> {"none", "ok", "timeout", "errSpill"}]
    /\ quiet \in BOOLEAN

Counted == waiters = Cardinality(Sleeping)

\* A call whose context is not done has its helper goroutine.
Helped == \A w \in Waiters : pc[w] # "idle" /\ ~done[w] => helper[w]

\* The inductive invariant.
WaitInv == Types /\ Counted /\ Helped /\ SleepersMissNothing

-----------------------------------------------------------------------------
(* The inbox.                                                              *)

LEMMA InsertType ==
    ASSUME NEW s \in Seq(Ids), NEW i \in 1..(Len(s) + 1), NEW e \in Ids
    PROVE  InsertAt(s, i, e) \in Seq(Ids)
<1>1. /\ SubSeq(s, 1, i - 1) \in Seq(Ids) /\ SubSeq(s, i, Len(s)) \in Seq(Ids)
      /\ <<e>> \in Seq(Ids)
  BY LenProperties, ElementOfSeq, SubSeqProperties
<1>2. QED
  BY <1>1, ConcatProperties DEF InsertAt

LEMMA RemoveType ==
    ASSUME NEW s \in Seq(Ids), NEW i \in 1..Len(s)
    PROVE  RemoveAt(s, i) \in Seq(Ids)
<1>1. SubSeq(s, 1, i - 1) \in Seq(Ids) /\ SubSeq(s, i + 1, Len(s)) \in Seq(Ids)
  BY LenProperties, ElementOfSeq, SubSeqProperties
<1>2. QED
  BY <1>1, ConcatProperties DEF RemoveAt

LEMMA MatchIsMember ==
    ASSUME Types, NEW w \in Waiters
    PROVE  NewestMatch(w) \subseteq Ids
  BY ElementOfSeq DEF Types, NewestMatch, Matching

-----------------------------------------------------------------------------
(* One step.  A turn of the loop ends in one of three ways.                *)

LEMMA Cases ==
    ASSUME Types, [Next]_vars
    PROVE  \/ \E new \in Seq(Ids) : Changed(new)
           \/ \E S \in SUBSET Members : MarkRead(S)
           \/ \E v \in Waiters : WaitCall(v) \/ WaitStep(v) \/ Expire(v) \/ HelperStep(v)
           \/ Quiesce
           \/ UNCHANGED vars
<1>1. CASE \E id \in Ids, pos \in 1..(Len(order) + 1) : Insert(id, pos)
  BY <1>1, InsertType DEF Insert, Types
<1>2. CASE \E j \in 1..Len(order) : RemoveLocked(j)
  BY <1>2, RemoveType DEF RemoveLocked, Types
<1>3. CASE Empty
  BY <1>3, EmptySeq DEF Empty
<1>4. CASE \E S \in {{id} : id \in Members} \cup {Members} : MarkRead(S)
  BY <1>4, Zenon
<1>5. QED
  BY <1>1, <1>2, <1>3, <1>4 DEF Next

LEMMA TurnTypes ==
    ASSUME Types, NEW w \in Waiters, NEW n \in Nat, Turn(w, n)
    PROVE  /\ waiters' \in Nat
           /\ pc' \in [Waiters -> {"idle", "start", "load", "missing", "recheck", "asleep",
                                   "woken"}]
           /\ snap' \in [Waiters -> SUBSET Ids]
           /\ res' \in [Waiters -> {"none", "ok", "timeout", "errSpill"}]
<1>1. NewestMatch(w) \subseteq Ids /\ {} \subseteq Ids
  BY MatchIsMember
<1>2. CASE Matching(w) # {}
  BY <1>1, <1>2 DEF Turn, Types
<1>3. CASE Matching(w) = {} /\ MayTimeOut(w)
  BY <1>1, <1>3 DEF Turn, Return, Types
<1>4. CASE Matching(w) = {} /\ ~MayTimeOut(w)
  BY <1>1, <1>4 DEF Turn, Types
<1>5. QED
  BY <1>2, <1>3, <1>4

LEMMA TypesStep ==
    ASSUME Types, [Next]_vars
    PROVE  Types'
<1> USE DEF Types, Members
<1>1. CASE \E new \in Seq(Ids) : Changed(new)
  BY <1>1 DEF Changed, Awakened, call, inbox
<1>2. CASE \E S \in SUBSET Members : MarkRead(S)
  BY <1>2 DEF MarkRead, call, inbox
<1>3. CASE \E v \in Waiters : WaitCall(v)
  BY <1>3 DEF WaitCall, call, inbox
<1>4. CASE \E v \in Waiters : WaitStart(v)
  <2> PICK v \in Waiters : WaitStart(v)
    BY <1>4
  <2>1. QED
    BY TurnTypes DEF WaitStart, inbox
<1>5. CASE \E v \in Waiters : WaitWoken(v)
  <2> PICK v \in Waiters : WaitWoken(v)
    BY <1>5
  <2>1. Uncount \in Nat
    BY DEF Uncount
  <2>2. QED
    BY <2>1, TurnTypes DEF WaitWoken, inbox
<1>6. CASE \E v \in Waiters : WaitLoad(v)
  BY <1>6 DEF WaitLoad, Return, call, inbox
<1>7. CASE \E v \in Waiters : WaitMissing(v)
  <2> PICK v \in Waiters : WaitMissing(v)
    BY <1>7
  <2>1. CASE Return(v, "errSpill", waiters)
    BY <2>1 DEF WaitMissing, Return, inbox
  <2>2. CASE Turn(v, waiters)
    BY <2>2, TurnTypes DEF WaitMissing, inbox
  <2>3. QED
    BY <2>1, <2>2 DEF WaitMissing
<1>8. CASE \E v \in Waiters : WaitRecheck(v)
  <2> PICK v \in Waiters : WaitRecheck(v)
    BY <1>8
  <2>1. CASE Return(v, "ok", waiters)
    BY <2>1 DEF WaitRecheck, Return, inbox
  <2>2. CASE Turn(v, waiters)
    BY <2>2, TurnTypes DEF WaitRecheck, inbox
  <2>3. QED
    BY <2>1, <2>2 DEF WaitRecheck
<1>9. CASE \E v \in Waiters : Expire(v)
  BY <1>9 DEF Expire, call, inbox
<1>10. CASE \E v \in Waiters : HelperBroadcast(v)
  BY <1>10 DEF HelperBroadcast, Awakened, call, inbox
<1>11. CASE \E v \in Waiters : HelperStop(v)
  BY <1>11 DEF HelperStop, call, inbox
<1>12. CASE Quiesce
  BY <1>12 DEF Quiesce, call, inbox
<1>13. CASE UNCHANGED vars
  BY <1>13 DEF vars, call, inbox
<1>14. QED
  BY Cases, <1>1, <1>2, <1>3, <1>4, <1>5, <1>6, <1>7, <1>8, <1>9, <1>10, <1>11, <1>12, <1>13 DEF WaitStep, HelperStep

LEMMA SleepingFinite == IsFiniteSet(Sleeping) /\ Cardinality(Sleeping) \in Nat
<1>1. Sleeping \subseteq Waiters
  BY DEF Sleeping
<1>2. IsFiniteSet(Sleeping)
  BY <1>1, WaitAssumption, FS_Subset
<1>3. QED
  BY <1>2, FS_CardinalityType

\* A turn entered with n other callers counted leaves the gauge exact.
LEMMA TurnCounts ==
    ASSUME Types, NEW w \in Waiters, Turn(w, Cardinality(Sleeping \ {w}))
    PROVE  Counted'
<1> DEFINE Others == Sleeping \ {w}
<1>1. IsFiniteSet(Others) /\ w \notin Others
  BY SleepingFinite, FS_RemoveElement
<1>2. CASE waiters' = Cardinality(Others) /\ pc'[w] \notin {"asleep", "woken"}
  <2>1. Sleeping' = Others
    BY <1>2 DEF Turn, Return, Types, Sleeping
  <2>2. QED
    BY <1>2, <2>1 DEF Counted
<1>3. CASE waiters' = Cardinality(Others) + 1 /\ pc'[w] = "asleep"
  <2>1. Sleeping' = Others \cup {w}
    BY <1>3 DEF Turn, Return, Types, Sleeping
  <2>2. Cardinality(Others \cup {w}) = Cardinality(Others) + 1
    BY <1>1, FS_AddElement
  <2>3. QED
    BY <1>3, <2>1, <2>2 DEF Counted
<1>4. QED
  BY <1>2, <1>3 DEF Turn, Return, Types

LEMMA AwakeOthers ==
    ASSUME NEW w \in Waiters, pc[w] \notin {"asleep", "woken"}
    PROVE  Sleeping \ {w} = Sleeping
  BY DEF Sleeping

LEMMA CountedStep ==
    ASSUME Types, Counted, [Next]_vars
    PROVE  Counted'
<1>1. CASE \E new \in Seq(Ids) : Changed(new)
  <2>1. Sleeping' = Sleeping
    BY <1>1 DEF Changed, Awakened, Sleeping, Types
  <2>2. QED
    BY <1>1, <2>1 DEF Changed, Counted
<1>2. CASE \E S \in SUBSET Members : MarkRead(S)
  <2>1. Sleeping' = Sleeping /\ waiters' = waiters
    BY <1>2 DEF MarkRead, Sleeping, Types, call
  <2>2. QED
    BY <2>1 DEF Counted
<1>3. CASE \E v \in Waiters : WaitCall(v)
  <2>1. Sleeping' = Sleeping /\ waiters' = waiters
    BY <1>3 DEF WaitCall, Sleeping, Types
  <2>2. QED
    BY <2>1 DEF Counted
<1>4. CASE \E v \in Waiters : WaitStart(v)
  <2> PICK v \in Waiters : WaitStart(v)
    BY <1>4
  <2>1. Cardinality(Sleeping \ {v}) = waiters
    BY AwakeOthers DEF WaitStart, Counted
  <2>2. QED
    BY <2>1, TurnCounts DEF WaitStart
<1>5. CASE \E v \in Waiters : WaitWoken(v)
  <2> PICK v \in Waiters : WaitWoken(v)
    BY <1>5
  <2>1. v \in Sleeping
    BY DEF WaitWoken, Sleeping
  <2>2. /\ Cardinality(Sleeping \ {v}) = Cardinality(Sleeping) - 1
        /\ Cardinality(Sleeping \ {v}) \in Nat
    BY <2>1, SleepingFinite, FS_RemoveElement, FS_CardinalityType
  <2>3. Uncount = Cardinality(Sleeping \ {v})
    BY <2>2, SleepingFinite DEF Uncount, Counted
  <2>4. QED
    BY <2>3, TurnCounts DEF WaitWoken
<1>6. CASE \E v \in Waiters : WaitLoad(v)
  <2>1. Sleeping' = Sleeping /\ waiters' = waiters
    BY <1>6 DEF WaitLoad, Sleeping, Types, Return
  <2>2. QED
    BY <2>1 DEF Counted
<1>7. CASE \E v \in Waiters : WaitMissing(v)
  <2> PICK v \in Waiters : WaitMissing(v)
    BY <1>7
  <2>1. Cardinality(Sleeping \ {v}) = waiters
    BY AwakeOthers DEF WaitMissing, Counted
  <2>2. CASE Turn(v, waiters)
    BY <2>1, <2>2, TurnCounts
  <2>3. CASE Return(v, "errSpill", waiters)
    <3>1. Sleeping' = Sleeping /\ waiters' = waiters
      BY <2>3 DEF WaitMissing, Return, Sleeping, Types
    <3>2. QED
      BY <3>1 DEF Counted
  <2>4. QED
    BY <2>2, <2>3 DEF WaitMissing
<1>8. CASE \E v \in Waiters : WaitRecheck(v)
  <2> PICK v \in Waiters : WaitRecheck(v)
    BY <1>8
  <2>1. Cardinality(Sleeping \ {v}) = waiters
    BY AwakeOthers DEF WaitRecheck, Counted
  <2>2. CASE Turn(v, waiters)
    BY <2>1, <2>2, TurnCounts
  <2>3. CASE Return(v, "ok", waiters)
    <3>1. Sleeping' = Sleeping /\ waiters' = waiters
      BY <2>3 DEF WaitRecheck, Return, Sleeping, Types
    <3>2. QED
      BY <3>1 DEF Counted
  <2>4. QED
    BY <2>2, <2>3 DEF WaitRecheck
<1>9. CASE \E v \in Waiters : Expire(v)
  <2>1. Sleeping' = Sleeping /\ waiters' = waiters
    BY <1>9 DEF Expire, Sleeping, Types, call
  <2>2. QED
    BY <2>1 DEF Counted
<1>10. CASE \E v \in Waiters : HelperBroadcast(v)
  <2>1. Sleeping' = Sleeping
    BY <1>10 DEF HelperBroadcast, Awakened, Sleeping, Types
  <2>2. QED
    BY <1>10, <2>1 DEF HelperBroadcast, Counted
<1>11. CASE \E v \in Waiters : HelperStop(v)
  <2>1. Sleeping' = Sleeping /\ waiters' = waiters
    BY <1>11 DEF HelperStop, Sleeping, Types, call
  <2>2. QED
    BY <2>1 DEF Counted
<1>12. CASE Quiesce
  <2>1. Sleeping' = Sleeping /\ waiters' = waiters
    BY <1>12 DEF Quiesce, Sleeping, Types, call
  <2>2. QED
    BY <2>1 DEF Counted
<1>13. CASE UNCHANGED vars
  BY <1>13 DEF vars, call, inbox, Counted, Sleeping
<1>14. QED
  BY Cases, <1>1, <1>2, <1>3, <1>4, <1>5, <1>6, <1>7, <1>8, <1>9, <1>10, <1>11, <1>12, <1>13 DEF WaitStep, HelperStep

LEMMA HelpedStep ==
    ASSUME Types, Helped, [Next]_vars
    PROVE  Helped'
<1> USE DEF Types, Helped
<1>1. CASE \E new \in Seq(Ids) : Changed(new)
  BY <1>1 DEF Changed, Awakened, call, inbox
<1>2. CASE \E S \in SUBSET Members : MarkRead(S)
  BY <1>2 DEF MarkRead, call, inbox
<1>3. CASE \E v \in Waiters : WaitCall(v)
  BY <1>3 DEF WaitCall, call, inbox
<1>4. CASE \E v \in Waiters : WaitStart(v)
  BY <1>4 DEF WaitStart, Turn, Return, call, inbox
<1>5. CASE \E v \in Waiters : WaitWoken(v)
  BY <1>5 DEF WaitWoken, Turn, Return, Uncount, call, inbox
<1>6. CASE \E v \in Waiters : WaitLoad(v)
  BY <1>6 DEF WaitLoad, Return, call, inbox
<1>7. CASE \E v \in Waiters : WaitMissing(v)
  BY <1>7 DEF WaitMissing, Turn, Return, call, inbox
<1>8. CASE \E v \in Waiters : WaitRecheck(v)
  BY <1>8 DEF WaitRecheck, Turn, Return, call, inbox
<1>9. CASE \E v \in Waiters : Expire(v)
  BY <1>9 DEF Expire, call, inbox
<1>10. CASE \E v \in Waiters : HelperBroadcast(v)
  BY <1>10 DEF HelperBroadcast, Awakened, call, inbox
<1>11. CASE \E v \in Waiters : HelperStop(v)
  BY <1>11 DEF HelperStop, call, inbox
<1>12. CASE Quiesce
  BY <1>12 DEF Quiesce, call, inbox
<1>13. CASE UNCHANGED vars
  BY <1>13 DEF vars, call, inbox
<1>14. QED
  BY Cases, <1>1, <1>2, <1>3, <1>4, <1>5, <1>6, <1>7, <1>8, <1>9, <1>10, <1>11, <1>12, <1>13 DEF WaitStep, HelperStep

-----------------------------------------------------------------------------
(* Sleepers.                                                               *)

Missing(w) == Matching(w) = {} \/ Filter[w].read = {TRUE}

LEMMA SameInbox ==
    ASSUME order' = order, read' = read, NEW w \in Waiters
    PROVE  Matching(w)' = Matching(w)
  BY DEF Matching, Matches

\* Marking mail read adds a match only for a caller that asks for read mail alone.
LEMMA MarkStep ==
    ASSUME NEW S, MarkRead(S), NEW w \in Waiters, Missing(w)
    PROVE  Missing(w)'
<1>1. CASE Filter[w].read = {TRUE}
  BY <1>1 DEF Missing
<1>2. CASE Filter[w].read # {TRUE} /\ Matching(w) = {}
  <2>1. order' = order /\ read \subseteq read'
    BY DEF MarkRead
  <2>2. Filter[w].read \subseteq BOOLEAN
    BY WaitAssumption
  <2>3. ASSUME NEW j \in 1..Len(order), Matches(w, order[j])' PROVE FALSE
    <3>1. KindOf[order[j]] \in Filter[w].kinds /\ (order[j] \in read') \in Filter[w].read
      BY <2>1, <2>3 DEF Matches
    <3>2. (order[j] \in read) \notin Filter[w].read
      BY <1>2, <3>1 DEF Matching, Matches
    <3> DEFINE p == order[j] \in read
               q == order[j] \in read'
    <3>3. p \in BOOLEAN /\ q \in BOOLEAN
      OBVIOUS
    <3>4. p => q
      BY <2>1
    <3>5. q \in Filter[w].read /\ p \notin Filter[w].read /\ Filter[w].read \in SUBSET BOOLEAN
      BY <2>2, <3>1, <3>2
    <3> HIDE DEF p, q
    <3>6. p = FALSE /\ q = TRUE
      BY ONLY <3>5, <3>3, <3>4
    <3>7. TRUE \in Filter[w].read /\ FALSE \notin Filter[w].read
      BY ONLY <3>5, <3>6
    <3>8. Filter[w].read = {TRUE}
      BY ONLY <2>2, <3>7
    <3>9. QED
      BY <1>2, <3>8
  <2>4. Matching(w)' = {}
    BY <2>1, <2>3 DEF Matching
  <2>5. QED
    BY <2>4 DEF Missing
<1>3. QED
  BY <1>1, <1>2 DEF Missing

LEMMA TurnSleeps ==
    ASSUME Types, SleepersMissNothing, NEW w \in Waiters, NEW n, Turn(w, n),
           order' = order, read' = read, done' = done, helper' = helper
    PROVE  SleepersMissNothing'
<1> SUFFICES ASSUME NEW v \in Waiters, pc'[v] = "asleep"
             PROVE  Missing(v)' /\ (done'[v] => helper'[v])
  BY DEF SleepersMissNothing, Missing
<1>1. Matching(v)' = Matching(v)
  BY SameInbox
<1>2. CASE v = w
  <2>1. Matching(w) = {} /\ ~done[w]
    BY <1>2 DEF Turn, Return, MayTimeOut, Types
  <2>2. QED
    BY <1>1, <1>2, <2>1 DEF Missing
<1>3. CASE v # w
  <2>1. pc[v] = "asleep"
    BY <1>3 DEF Turn, Return, Types
  <2>2. QED
    BY <1>1, <2>1 DEF Missing, SleepersMissNothing
<1>4. QED
  BY <1>2, <1>3

\* No caller but those that already slept is asleep.
LEMMA OthersSleep ==
    ASSUME SleepersMissNothing, order' = order, read' = read,
           \A v \in Waiters : pc'[v] = "asleep" =>
              pc[v] = "asleep" /\ ((done[v] => helper[v]) => (done'[v] => helper'[v]))
    PROVE  SleepersMissNothing'
<1> SUFFICES ASSUME NEW v \in Waiters, pc'[v] = "asleep"
             PROVE  Missing(v)' /\ (done'[v] => helper'[v])
  BY DEF SleepersMissNothing, Missing
<1>1. Matching(v)' = Matching(v)
  BY SameInbox
<1>2. QED
  BY <1>1 DEF Missing, SleepersMissNothing

LEMMA SleepersStep ==
    ASSUME Types, Helped, SleepersMissNothing, [Next]_vars
    PROVE  SleepersMissNothing'
<1>1. CASE \E new \in Seq(Ids) : Changed(new)
  BY <1>1 DEF Changed, Awakened, SleepersMissNothing, Types
<1>2. CASE \E S \in SUBSET Members : MarkRead(S)
  <2> SUFFICES ASSUME NEW v \in Waiters, pc'[v] = "asleep"
               PROVE  Missing(v)' /\ (done'[v] => helper'[v])
    BY DEF SleepersMissNothing, Missing
  <2>1. pc[v] = "asleep" /\ done' = done /\ helper' = helper
    BY <1>2 DEF MarkRead, call
  <2>2. Missing(v) /\ (done[v] => helper[v])
    BY <2>1 DEF SleepersMissNothing, Missing
  <2>3. QED
    BY <1>2, <2>1, <2>2, MarkStep
<1>3. CASE \E v \in Waiters : WaitCall(v)
  BY <1>3, OthersSleep DEF WaitCall, Types, inbox
<1>4. CASE \E v \in Waiters : WaitStart(v)
  BY <1>4, TurnSleeps DEF WaitStart, inbox
<1>5. CASE \E v \in Waiters : WaitWoken(v)
  BY <1>5, TurnSleeps DEF WaitWoken, inbox
<1>6. CASE \E v \in Waiters : WaitLoad(v)
  BY <1>6, OthersSleep DEF WaitLoad, Types, inbox, Return
<1>7. CASE \E v \in Waiters : WaitMissing(v)
  <2> PICK v \in Waiters : WaitMissing(v)
    BY <1>7
  <2>1. CASE Turn(v, waiters)
    BY <2>1, TurnSleeps DEF WaitMissing, inbox
  <2>2. CASE Return(v, "errSpill", waiters)
    BY <2>2, OthersSleep DEF WaitMissing, Return, inbox, Types
  <2>3. QED
    BY <2>1, <2>2 DEF WaitMissing
<1>8. CASE \E v \in Waiters : WaitRecheck(v)
  <2> PICK v \in Waiters : WaitRecheck(v)
    BY <1>8
  <2>1. CASE Turn(v, waiters)
    BY <2>1, TurnSleeps DEF WaitRecheck, inbox
  <2>2. CASE Return(v, "ok", waiters)
    BY <2>2, OthersSleep DEF WaitRecheck, Return, inbox, Types
  <2>3. QED
    BY <2>1, <2>2 DEF WaitRecheck
<1>9. CASE \E v \in Waiters : Expire(v)
  BY <1>9, OthersSleep DEF Expire, Types, inbox, call, Helped
<1>10. CASE \E v \in Waiters : HelperBroadcast(v)
  BY <1>10 DEF HelperBroadcast, Awakened, SleepersMissNothing, Types
<1>11. CASE \E v \in Waiters : HelperStop(v)
  BY <1>11, OthersSleep DEF HelperStop, Types, inbox, call
<1>12. CASE Quiesce
  BY <1>12, OthersSleep DEF Quiesce, Types, inbox, call
<1>13. CASE UNCHANGED vars
  BY <1>13, OthersSleep DEF vars, call, inbox
<1>14. QED
  BY Cases, <1>1, <1>2, <1>3, <1>4, <1>5, <1>6, <1>7, <1>8, <1>9, <1>10, <1>11, <1>12, <1>13 DEF WaitStep, HelperStep

-----------------------------------------------------------------------------
(* The theorems.                                                           *)

LEMMA WaitInit == Init => WaitInv
<1> SUFFICES ASSUME Init PROVE WaitInv
  OBVIOUS
<1>1. Types
  BY EmptySeq DEF Init, Types
<1>2. Sleeping = {}
  BY DEF Init, Sleeping
<1>3. Counted
  BY <1>2, FS_EmptySet DEF Init, Counted
<1>4. Helped /\ SleepersMissNothing
  BY DEF Init, Helped, SleepersMissNothing
<1>5. QED
  BY <1>1, <1>3, <1>4 DEF WaitInv

LEMMA WaitNext == WaitInv /\ [Next]_vars => WaitInv'
  BY TypesStep, CountedStep, HelpedStep, SleepersStep DEF WaitInv

\* Types, gauge, helpers and sleepers agree in every reachable state.
THEOREM WaitInvariant == Spec => []WaitInv
  BY WaitInit, WaitNext, PTL DEF Spec

\* Memory.Wait loses no wake-up, whatever the filters are.
THEOREM NoWakeUpLost == Spec => []SleepersMissNothing
<1>1. WaitInv => SleepersMissNothing
  BY DEF WaitInv
<1>2. QED
  BY <1>1, WaitInvariant, PTL

\* The gauge store_waiters counts exactly the callers that sleep or have not yet taken the
\* mutex back, so that its floor at zero never hides a miscount.
THEOREM WaitTypeCorrect == Spec => []TypeOK
<1>1. WaitInv => TypeOK
  BY DEF WaitInv, Types, Counted, Sleeping, TypeOK
<1>2. QED
  BY <1>1, WaitInvariant, PTL
==============================================================================
