------------------------- MODULE ControlPlaneProofs -------------------------
(***************************************************************************)
(* Proofs about Plan, Apply and Reset for every set of states, requests    *)
(* and bounds: the store's caps and the live snapshot agree, bootstrap     *)
(* revisions are right, no change is lost, no mail is evicted silently, no *)
(* keyed request is applied twice.                                         *)
(*                                                                         *)
(* CapsAgree says nothing about a call under way, so it is not inductive.  *)
(* ControlInv adds what each step of a call knows of its candidate.        *)
(* AppliedOnce is about the idempotency cache: OnceInv adds that every     *)
(* applied request is remembered, or is the one that is being recorded.    *)
(***************************************************************************)
EXTENDS ControlPlane, TLAPS

Snapshot == [state : State, boot : State, gen : Nat]

\* The values without the cache, which has a part of its own below.
Values ==
    /\ active \in Snapshot
    /\ bootstrap \in State
    /\ file \in State
    /\ caps \in CapsSet
    /\ count \in Nat
    /\ holder \in {"free", "caps", "swap", "record", "resetSwap", "resetDone"}

\* A candidate under way was compiled from the live snapshot.
CandidateKnown ==
    /\ holder # "free" => cand.next \in Snapshot
    /\ holder \in {"caps", "swap", "resetSwap"} => cand.next.gen = active.gen + 1
    /\ holder \in {"caps", "swap"} => /\ cand.req.expected = active.state
                                      /\ cand.next.boot = active.boot
    /\ holder \in {"resetSwap", "resetDone"} => cand.next.boot = cand.next.state
    /\ holder = "resetDone" => active = cand.next

\* Which snapshot's caps the store has, at every step.
CapsFollow ==
    /\ count <= caps.max
    /\ holder \in {"free", "caps", "record", "resetDone"} => caps = active.state.caps
    /\ holder \in {"swap", "resetSwap"} => caps = cand.next.state.caps

BootFollows == holder # "resetDone" => active.boot = bootstrap

ControlInv == Values /\ CandidateKnown /\ CapsFollow /\ BootFollows

-----------------------------------------------------------------------------
\* An operation yields a state, and only replaceStoreCaps touches the caps.
LEMMA EditedState ==
    ASSUME NEW r \in Requests, active \in Snapshot
    PROVE  /\ Edited(r.op) \in State
           /\ ~IsCapsOp(r.op) => Edited(r.op).caps = active.state.caps
<1>1. r.op \in Op /\ active.state \in State
  BY ControlAssumption DEF Snapshot
<1>2. CASE IsCapsOp(r.op)
  <2>1. r.op \in [caps : CapsSet]
    BY <1>1, <1>2 DEF Op, IsCapsOp
  <2> QED BY <1>1, <1>2, <2>1 DEF Edited, State
<1>3. CASE ~IsCapsOp(r.op)
  <2>1. r.op \in [smtp : SmtpParts]
    BY <1>1, <1>3 DEF Op, IsCapsOp
  <2> QED BY <1>1, <1>3, <2>1 DEF Edited, State
<1> QED BY <1>2, <1>3

\* Caps are numbers, those of a state and those of the store.
LEMMA CapsTyped ==
    /\ \A c \in CapsSet : c.max \in Nat
    /\ \A s \in State : s.caps \in CapsSet /\ s.caps.max \in Nat
<1>1. \A c \in CapsSet : c.max \in Nat
  BY ControlAssumption DEF Caps
<1> QED BY <1>1 DEF State

-----------------------------------------------------------------------------
\* Boot establishes the invariant: New opens the inbox with the caps of the
\* bootstrap file.
LEMMA InitInv == Init => ControlInv
  BY CapsTyped DEF Init, ControlInv, Values, CandidateKnown, CapsFollow, BootFollows, Snapshot

\* Every step of a call, and mail between them, preserves it.
LEMMA NextInv == ControlInv /\ [Next]_vars => ControlInv'
<1> SUFFICES ASSUME ControlInv, [Next]_vars PROVE ControlInv'
  OBVIOUS
<1> USE CapsTyped DEF ControlInv, Values, CandidateKnown, CapsFollow, BootFollows
<1>1. ASSUME UNCHANGED <<snaps, lock, inbox>> PROVE ControlInv'
  BY <1>1 DEF snaps, lock, inbox
<1>2. ASSUME NEW r \in Requests, PlanReplay(r) \/ PlanConflict(r) \/ Plan(r)
      PROVE ControlInv'
  BY <1>1, <1>2 DEF PlanReplay, PlanConflict, Plan
<1>3. ASSUME NEW r \in Requests, ApplyReplay(r) \/ ApplyConflict(r)
      PROVE ControlInv'
  BY <1>1, <1>3 DEF ApplyReplay, ApplyConflict
<1>4. ASSUME NEW r \in Requests, ApplyBegin(r) PROVE ControlInv'
  <2>1. /\ Edited(r.op) \in State
        /\ ~IsCapsOp(r.op) => Edited(r.op).caps = active.state.caps
    BY EditedState
  <2>2. /\ holder = "free" /\ r.expected = active.state
        /\ UNCHANGED <<snaps, inbox>>
    BY <1>4 DEF ApplyBegin, MayBegin, RevisionMatches
  <2>3. CASE UNCHANGED lock
    BY <1>1, <2>2, <2>3
  <2>4. CASE /\ cand' = [req |-> r, next |-> Compiled(Edited(r.op))]
             /\ holder' = IF IsCapsOp(r.op) THEN "caps" ELSE "swap"
    <3>1. /\ Compiled(Edited(r.op)) \in Snapshot
          /\ Compiled(Edited(r.op)).gen = active.gen + 1
          /\ Compiled(Edited(r.op)).boot = active.boot
          /\ Compiled(Edited(r.op)).state = Edited(r.op)
      BY <2>1 DEF Compiled, Snapshot
    <3> QED BY <2>1, <2>2, <2>4, <3>1 DEF snaps, inbox
  <2> QED BY <1>4, <2>3, <2>4 DEF ApplyBegin
<1>5. CASE ApplyCaps
  <2>1. cand.next \in Snapshot /\ cand.next.state \in State
    BY <1>5 DEF ApplyCaps, Snapshot
  <2> QED BY <1>5, <2>1 DEF ApplyCaps, snaps, inbox
<1>6. CASE ApplySwap
  BY <1>6 DEF ApplySwap, inbox, Snapshot
<1>7. CASE ApplyRecord
  BY <1>7 DEF ApplyRecord, snaps, inbox
<1>8. CASE ResetBegin
  BY <1>8 DEF ResetBegin, MayBegin, snaps, Snapshot
<1>9. CASE ResetSwap
  BY <1>9 DEF ResetSwap, inbox, cache, Snapshot
<1>10. CASE ResetDone
  BY <1>10 DEF ResetDone, inbox, Snapshot
<1>11. CASE Insert \/ Delete
  <2>1. /\ active' = active /\ bootstrap' = bootstrap /\ file' = file
        /\ holder' = holder /\ cand' = cand /\ caps' = caps
    BY <1>11 DEF Insert, Delete, snaps, lock
  <2>2. caps.max \in Nat
    OBVIOUS
  <2>3. count' \in Nat /\ count' <= caps.max
    BY <1>11, <2>2 DEF Insert, Delete
  <2> QED BY <2>1, <2>3
<1>12. ASSUME NEW s \in State, EditFile(s) PROVE ControlInv'
  BY <1>12 DEF EditFile, lock, inbox
<1>13. CASE UNCHANGED vars
  BY <1>1, <1>13 DEF vars
<1> QED
  BY <1>2, <1>3, <1>4, <1>5, <1>6, <1>7, <1>8, <1>9, <1>10, <1>11, <1>12, <1>13
     DEF Next

\* The inductive invariant of Plan, Apply and Reset.
THEOREM ControlInvariant == Spec => []ControlInv
  BY InitInv, NextInv, PTL DEF Spec

-----------------------------------------------------------------------------
\* Whenever App.mu is free the store runs with the live snapshot's caps and
\* the inbox is within them (checkStoreCaps, ReplaceCaps, ResetTo, Swap).
THEOREM CapsAlwaysAgree == Spec => []CapsAgree
<1>1. ControlInv => CapsAgree
  BY DEF ControlInv, CapsFollow, CapsAgree
<1> QED BY <1>1, ControlInvariant, PTL

\* The live snapshot's bootstrapRevision is that of the bootstrap snapshot.
THEOREM BootstrapAlwaysKnown == Spec => []BootstrapKnown
<1>1. ControlInv => BootstrapKnown
  BY DEF ControlInv, BootFollows, BootstrapKnown
<1> QED BY <1>1, ControlInvariant, PTL

\* ReplaceCaps evicts only what the policy or force permits.
THEOREM EvictionPermitted == Spec => NoSilentEviction
<1>1. ControlInv /\ [Next]_vars =>
        [holder = "caps" /\ holder' = "swap" /\ count' < count =>
            cand.req.force \/ cand.next.state.caps.evict]_vars
  <2> SUFFICES ASSUME ControlInv, Next, holder = "caps", holder' = "swap", count' < count
               PROVE  cand.req.force \/ cand.next.state.caps.evict
    OBVIOUS
  <2>1. ApplyCaps
    BY DEF Next, PlanReplay, PlanConflict, Plan, ApplyReplay, ApplyConflict, ApplyBegin,
           MayBegin, ApplySwap, ApplyRecord, ResetBegin, ResetSwap, ResetDone, Insert,
           Delete, EditFile, lock
  <2>2. cand.next.state \in State /\ count \in Nat
    BY DEF ControlInv, Values, CandidateKnown, Snapshot
  <2>3. CapsFit(cand.next.state)
    BY <2>1 DEF ApplyCaps
  <2>4. ~(count <= cand.next.state.caps.max)
    BY <2>1, <2>2, <2>3, CapsTyped DEF ApplyCaps
  <2> QED BY <2>3, <2>4 DEF CapsFit, MayShrink
<1> QED BY <1>1, ControlInvariant, PTL DEF Spec, NoSilentEviction

\* Every swap is made on the snapshot its candidate was compiled from.
THEOREM NoUpdateLost == Spec => NoLostUpdate
<1>1. ControlInv /\ [Next]_vars =>
        [active' # active => active'.gen = active.gen + 1
                             /\ (holder = "swap" => cand.req.expected = active.state)]_vars
  <2> SUFFICES ASSUME ControlInv, Next, active' # active
               PROVE  /\ active'.gen = active.gen + 1
                      /\ holder = "swap" => cand.req.expected = active.state
    OBVIOUS
  <2>1. ApplySwap \/ ResetSwap
    BY DEF Next, PlanReplay, PlanConflict, Plan, ApplyReplay, ApplyConflict, ApplyBegin,
           ApplyCaps, ApplyRecord, ResetBegin, ResetDone, Insert, Delete, EditFile, snaps
  <2> QED BY <2>1 DEF ApplySwap, ResetSwap, ControlInv, CandidateKnown
<1> QED BY <1>1, ControlInvariant, PTL DEF Spec, NoLostUpdate

-----------------------------------------------------------------------------
(***************************************************************************)
(* The idempotency cache.  AppliedOnce needs that an applied request is    *)
(* remembered with its result until its key is dropped, and that a call    *)
(* under way was not remembered when it began.                             *)
(***************************************************************************)

Keys == {r.key : r \in Requests}
Entries == [key : Keys, fp : {Fingerprint(r) : r \in Requests}, plan : BOOLEAN,
            apply : State \cup {None}]

OneEntry(s) == \A i, j \in 1..Len(s) : s[i].key = s[j].key => i = j
InCache(e, s) == \E j \in 1..Len(s) : s[j] = e

LEMMA KeysAre ==
    ASSUME NEW s, NEW k
    PROVE  k \in KeysOf(s) <=> \E e : InCache(e, s) /\ e.key = k
  BY DEF KeysOf, InCache

\* What a \o b is.
Joined(t, a, b) ==
    /\ Len(t) = Len(a) + Len(b)
    /\ \A j \in 1..(Len(a) + Len(b)) : t[j] = IF j <= Len(a) THEN a[j] ELSE b[j - Len(a)]

LEMMA Glued ==
    ASSUME NEW S, NEW a \in Seq(S), NEW b \in Seq(S)
    PROVE  a \o b \in Seq(S) /\ Joined(a \o b, a, b)
  BY DEF Joined

\* The list t is s with its place p unlinked.
Unlink(t, s, p) ==
    /\ Len(s) \in Nat /\ Len(t) = Len(s) - 1
    /\ \A j \in 1..(Len(s) - 1) : t[j] = IF j < p THEN s[j] ELSE s[j + 1]

\* Unlinking one place of a list.
LEMMA Unlinked ==
    ASSUME NEW S, NEW s \in Seq(S), NEW p \in 1..Len(s), NEW t, t = RemoveAt(s, p)
    PROVE  t \in Seq(S) /\ Unlink(t, s, p)
<1> DEFINE a == SubSeq(s, 1, p - 1)
           b == SubSeq(s, p + 1, Len(s))
<1>1. Len(s) \in Nat
  OBVIOUS
<1>2. a \in Seq(S) /\ Len(a) = p - 1 /\ \A j \in 1..(p - 1) : a[j] = s[j]
  OBVIOUS
<1>3. b \in Seq(S) /\ Len(b) = Len(s) - p /\ \A j \in 1..(Len(s) - p) : b[j] = s[p + j]
  OBVIOUS
<1>4. t = a \o b
  BY DEF RemoveAt
<1> HIDE DEF a, b
<1>5. /\ t \in Seq(S) /\ Len(t) = Len(a) + Len(b)
      /\ \A j \in 1..(Len(a) + Len(b)) : t[j] = IF j <= Len(a) THEN a[j] ELSE b[j - Len(a)]
  <2>1. a \o b \in Seq(S) /\ Joined(a \o b, a, b)
    BY <1>2, <1>3, Glued
  <2>2. QED
    BY <1>4, <2>1 DEF Joined
<1>6. Len(t) = Len(s) - 1
  BY <1>1, <1>2, <1>3, <1>5
<1>7. ASSUME NEW j \in 1..(Len(s) - 1)
      PROVE  t[j] = IF j < p THEN s[j] ELSE s[j + 1]
  <2>1. CASE j < p
    <3>1. j \in 1..(p - 1) /\ j \in 1..(Len(a) + Len(b)) /\ j <= Len(a)
      BY <1>1, <1>2, <1>3, <2>1
    <3>2. t[j] = a[j] /\ a[j] = s[j]
      BY <1>2, <1>5, <3>1
    <3>3. QED
      BY <2>1, <3>2
  <2>2. CASE j >= p
    <3>1. /\ j - (p - 1) \in 1..(Len(s) - p) /\ j \in 1..(Len(a) + Len(b))
          /\ j - Len(a) = j - (p - 1) /\ ~(j <= Len(a))
      BY <1>1, <1>2, <1>3, <2>2
    <3>2. t[j] = b[j - (p - 1)]
      BY <1>5, <3>1
    <3>3. p + (j - (p - 1)) = j + 1
      BY <1>1
    <3>4. b[j - (p - 1)] = s[j + 1]
      BY <1>3, <3>1, <3>3
    <3>5. QED
      BY <1>1, <2>2, <3>2, <3>4
  <2>3. QED
    BY <1>1, <2>1, <2>2
<1>8. QED
  BY <1>1, <1>5, <1>6, <1>7 DEF Unlink

LEMMA WithoutIs ==
    ASSUME NEW S, NEW s \in Seq(S), OneEntry(s), NEW key, NEW t, t = Without(s, key)
    PROVE  /\ t \in Seq(S) /\ OneEntry(t) /\ Len(t) <= Len(s)
           /\ key \in KeysOf(s) => Len(t) = Len(s) - 1
           /\ \A e : InCache(e, t) <=> InCache(e, s) /\ e.key # key
<1>1. CASE key \notin KeysOf(s)
  BY <1>1 DEF Without, KeysOf, InCache
<1>2. CASE key \in KeysOf(s)
  <2> DEFINE p == CHOOSE j \in 1..Len(s) : s[j].key = key
  <2>1. p \in 1..Len(s) /\ s[p].key = key
    BY <1>2 DEF KeysOf
  <2>2. t = RemoveAt(s, p)
    BY <1>2 DEF Without
  <2> HIDE DEF p
  <2>3. t \in Seq(S) /\ Unlink(t, s, p)
    BY <2>1, <2>2, Unlinked
  <2> SUFFICES ASSUME NEW n, n = Len(s), NEW m, m = Len(t), NEW q, q = p
               PROVE  OneEntry(t) /\ \A e : InCache(e, t) <=> InCache(e, s) /\ e.key # key
    BY <1>2, <2>3 DEF Unlink
  <2>4. /\ n \in Nat /\ m = n - 1 /\ q \in 1..n /\ s[q].key = key
        /\ \A j \in 1..m : t[j] = IF j < q THEN s[j] ELSE s[j + 1]
        /\ \A i, j \in 1..n : s[i].key = s[j].key => i = j
    BY <2>1, <2>3 DEF OneEntry, Unlink
  <2>5. \A j \in 1..m : \E l \in 1..n : l # q /\ t[j] = s[l] /\ l = IF j < q THEN j ELSE j + 1
    BY <2>4
  <2>6. \A l \in 1..n : l # q => \E j \in 1..m : t[j] = s[l]
    <3> SUFFICES ASSUME NEW l \in 1..n, l # q PROVE \E j \in 1..m : t[j] = s[l]
      OBVIOUS
    <3>1. CASE l < q
      <4>1. l \in 1..m /\ t[l] = s[l]
        BY <2>4, <3>1
      <4>2. QED
        BY <4>1
    <3>2. CASE l > q
      <4>1. l - 1 \in 1..m /\ ~(l - 1 < q) /\ (l - 1) + 1 = l
        BY <2>4, <3>2
      <4>2. t[l - 1] = s[l]
        BY <2>4, <4>1
      <4>3. QED
        BY <4>1, <4>2
    <3>3. QED
      BY <2>4, <3>1, <3>2
  <2>7. OneEntry(t)
    <3> SUFFICES ASSUME NEW i \in 1..m, NEW j \in 1..m, t[i].key = t[j].key PROVE i = j
      BY DEF OneEntry
    <3>1. PICK k \in 1..n : t[i] = s[k] /\ k = IF i < q THEN i ELSE i + 1
      BY <2>5
    <3>2. PICK l \in 1..n : t[j] = s[l] /\ l = IF j < q THEN j ELSE j + 1
      BY <2>5
    <3>3. k = l
      BY <2>4, <3>1, <3>2
    <3>4. QED
      BY <2>4, <3>1, <3>2, <3>3
  <2>8. ASSUME NEW e, InCache(e, t)
        PROVE  InCache(e, s) /\ e.key # key
    <3>1. PICK j \in 1..m : t[j] = e
      BY <2>8 DEF InCache
    <3>2. PICK l \in 1..n : l # q /\ e = s[l]
      BY <2>5, <3>1
    <3>3. QED
      BY <2>4, <3>2 DEF InCache
  <2>9. ASSUME NEW e, InCache(e, s), e.key # key
        PROVE  InCache(e, t)
    <3>1. PICK l \in 1..n : s[l] = e /\ l # q
      BY <2>4, <2>9 DEF InCache
    <3>2. QED
      BY <2>6, <3>1 DEF InCache
  <2>10. QED
    BY <2>7, <2>8, <2>9
<1>3. QED
  BY <1>1, <1>2

Pushed(e, s) == <<e>> \o s
Cropped(s, n) == SubSeq(s, 1, n)

\* An entry put in front of a list without its key.
LEMMA FrontIs ==
    ASSUME NEW S, NEW s \in Seq(S), OneEntry(s), NEW e \in S,
           \A x : InCache(x, s) => x.key # e.key,
           NEW t, t = Pushed(e, s)
    PROVE  /\ t \in Seq(S) /\ OneEntry(t) /\ Len(t) = Len(s) + 1 /\ t[1] = e
           /\ \A x : InCache(x, t) <=> x = e \/ InCache(x, s)
<1>1. /\ t \in Seq(S) /\ Len(t) = Len(s) + 1 /\ t[1] = e /\ Len(s) \in Nat
      /\ \A j \in 1..Len(s) : t[j + 1] = s[j]
  BY DEF Pushed
<1> SUFFICES ASSUME NEW n, n = Len(s), NEW m, m = Len(t)
             PROVE  OneEntry(t) /\ \A x : InCache(x, t) <=> x = e \/ InCache(x, s)
  BY <1>1
<1>2. /\ n \in Nat /\ m = n + 1 /\ t[1] = e /\ \A j \in 1..n : t[j + 1] = s[j]
      /\ \A i, j \in 1..n : s[i].key = s[j].key => i = j
      /\ \A j \in 1..n : s[j].key # e.key
  BY <1>1 DEF OneEntry, InCache
<1>3. \A j \in 1..m : j = 1 \/ (j - 1 \in 1..n /\ t[j] = s[j - 1])
  <2> SUFFICES ASSUME NEW j \in 1..m, j # 1 PROVE j - 1 \in 1..n /\ t[j] = s[j - 1]
    OBVIOUS
  <2>1. j - 1 \in 1..n /\ (j - 1) + 1 = j
    BY <1>2
  <2>2. QED
    BY <1>2, <2>1
<1>4. OneEntry(t)
  <2> SUFFICES ASSUME NEW i \in 1..m, NEW j \in 1..m, t[i].key = t[j].key PROVE i = j
    BY DEF OneEntry
  <2>1. CASE i = 1 \/ j = 1
    <3>1. i = 1 => j = 1 \/ t[j].key # e.key
      BY <1>2, <1>3
    <3>2. j = 1 => i = 1 \/ t[i].key # e.key
      BY <1>2, <1>3
    <3>3. QED
      BY <1>2, <2>1, <3>1, <3>2
  <2>2. CASE i # 1 /\ j # 1
    <3>1. /\ i - 1 \in 1..n /\ t[i] = s[i - 1] /\ j - 1 \in 1..n /\ t[j] = s[j - 1]
      BY <1>3, <2>2
    <3>2. s[i - 1].key = s[j - 1].key
      BY <3>1
    <3>3. i - 1 = j - 1
      BY <1>2, <3>1, <3>2
    <3>4. QED
      BY <1>2, <3>3
  <2>3. QED
    BY <2>1, <2>2
<1>5. ASSUME NEW x, InCache(x, t) PROVE x = e \/ InCache(x, s)
  BY <1>2, <1>3, <1>5 DEF InCache
<1>6. InCache(e, t)
  <2>1. 1 \in 1..m
    BY <1>2
  <2>2. QED
    BY <1>2, <2>1 DEF InCache
<1>7. ASSUME NEW x, InCache(x, s) PROVE InCache(x, t)
  <2>1. PICK j \in 1..n : s[j] = x
    BY <1>7 DEF InCache
  <2>2. j + 1 \in 1..m /\ t[j + 1] = x
    BY <1>2, <2>1
  <2>3. QED
    BY <2>2 DEF InCache
<1>8. QED
  BY <1>4, <1>5, <1>6, <1>7

\* The list cropped to its n youngest entries.
LEMMA CropIs ==
    ASSUME NEW S, NEW s \in Seq(S), OneEntry(s), NEW n \in 1..Len(s),
           NEW t, t = Cropped(s, n)
    PROVE  /\ t \in Seq(S) /\ OneEntry(t) /\ Len(t) = n
           /\ InCache(s[1], t)
           /\ \A x : InCache(x, t) => InCache(x, s)
<1>1. t \in Seq(S) /\ Len(t) = n /\ Len(s) \in Nat /\ \A j \in 1..n : t[j] = s[j]
  BY DEF Cropped
<1>2. OneEntry(t)
  BY <1>1 DEF OneEntry
<1>3. 1 \in 1..n /\ \A j \in 1..n : j \in 1..Len(s)
  BY <1>1
<1>4. QED
  BY <1>1, <1>2, <1>3 DEF InCache

-----------------------------------------------------------------------------
\* A list with one entry per key has one entry under a key.
LEMMA OneOf ==
    ASSUME NEW s, OneEntry(s), NEW x, NEW y, InCache(x, s), InCache(y, s), x.key = y.key
    PROVE  x = y
  BY DEF OneEntry, InCache

\* The entry that Entry picks: the one under the key, or a new one.
LEMMA EntryIs ==
    ASSUME idem \in Seq(Entries), NEW r \in Requests
    PROVE  /\ Entry(r) \in Entries /\ Entry(r).key = r.key
           /\ Found(r) # {} => InCache(Entry(r), idem)
           /\ Found(r) = {} => /\ \A x : InCache(x, idem) => x.key # r.key
                               /\ Entry(r).apply = None
<1>1. CASE Found(r) = {}
  <2>1. Entry(r) = [key |-> r.key, fp |-> Fingerprint(r), plan |-> FALSE, apply |-> None]
    BY <1>1 DEF Entry
  <2>2. r.key \in Keys /\ Fingerprint(r) \in {Fingerprint(q) : q \in Requests}
    BY DEF Keys
  <2>3. Entry(r) \in Entries /\ Entry(r).key = r.key /\ Entry(r).apply = None
    BY <2>1, <2>2 DEF Entries
  <2>4. \A x : InCache(x, idem) => x.key # r.key
    BY <1>1 DEF Found, InCache
  <2>5. QED
    BY <1>1, <2>3, <2>4
<1>2. CASE Found(r) # {}
  <2>1. PICK p \in 1..Len(idem) : idem[p].key = r.key /\ Entry(r) = idem[p]
    BY <1>2 DEF Entry, Found
  <2>2. idem[p] \in Entries
    OBVIOUS
  <2>3. QED
    BY <1>2, <2>1, <2>2 DEF InCache
<1>3. QED
  BY <1>1, <1>2

\* A list of the same entries.
SameCache(t, s) ==
    /\ t \in Seq(Entries) /\ OneEntry(t) /\ Len(t) <= Len(s)
    /\ \A x : InCache(x, t) <=> InCache(x, s)

\* A lookup only moves the entry to the front.
LEMMA LookedIs ==
    ASSUME idem \in Seq(Entries), OneEntry(idem), NEW r \in Requests
    PROVE  SameCache(Looked(r), idem)
<1>1. CASE Found(r) = {}
  BY <1>1 DEF Looked, SameCache
<1>2. CASE Found(r) # {}
  <2> SUFFICES ASSUME NEW e, e = Entry(r), NEW w, w = Without(idem, r.key),
                      NEW t, t = Pushed(e, w)
               PROVE  SameCache(t, idem)
    BY <1>2 DEF Looked, Pushed
  <2>1. e \in Entries /\ e.key = r.key /\ InCache(e, idem)
    BY <1>2, EntryIs
  <2>2. r.key \in KeysOf(idem)
    BY <2>1 DEF KeysOf, InCache
  <2>3. /\ w \in Seq(Entries) /\ OneEntry(w) /\ Len(w) = Len(idem) - 1
        /\ \A x : InCache(x, w) <=> InCache(x, idem) /\ x.key # r.key
    BY <2>2, WithoutIs
  <2>4. /\ t \in Seq(Entries) /\ OneEntry(t) /\ Len(t) = Len(w) + 1
        /\ \A x : InCache(x, t) <=> x = e \/ InCache(x, w)
    <3>1. \A x : InCache(x, w) => x.key # e.key
      BY <2>1, <2>3
    <3>2. QED
      BY <2>1, <2>3, <3>1, FrontIs
  <2>5. Len(idem) \in Nat
    OBVIOUS
  <2>6. Len(t) <= Len(idem)
    BY <2>3, <2>4, <2>5
  <2>7. \A x : InCache(x, t) <=> InCache(x, idem)
    BY <2>1, <2>3, <2>4, OneOf
  <2>8. QED
    BY <2>4, <2>6, <2>7 DEF SameCache
<1>3. QED
  BY <1>1, <1>2

\* Storing an entry keeps it, drops what was under its key, and may drop others.
LEMMA StoredIs ==
    ASSUME idem \in Seq(Entries), OneEntry(idem), Len(idem) <= CacheMax,
           NEW r \in Requests, NEW e \in Entries, e.key = r.key, r.key # NoKey,
           NEW t, t = Stored(r, e)
    PROVE  /\ t \in Seq(Entries) /\ OneEntry(t) /\ Len(t) <= CacheMax
           /\ InCache(e, t)
           /\ \A x : InCache(x, t) => x = e \/ InCache(x, idem)
<1> SUFFICES ASSUME NEW w, w = Without(idem, r.key), NEW u, u = Pushed(e, w),
                    NEW n, n = IF Len(u) > CacheMax THEN CacheMax ELSE Len(u),
                    t = Cropped(u, n)
             PROVE  /\ t \in Seq(Entries) /\ OneEntry(t) /\ Len(t) <= CacheMax
                    /\ InCache(e, t)
                    /\ \A x : InCache(x, t) => x = e \/ InCache(x, idem)
  BY DEF Stored, Pushed, Cropped
<1>1. /\ w \in Seq(Entries) /\ OneEntry(w)
      /\ \A x : InCache(x, w) <=> InCache(x, idem) /\ x.key # r.key
  BY WithoutIs
<1>2. /\ u \in Seq(Entries) /\ OneEntry(u) /\ Len(u) = Len(w) + 1 /\ u[1] = e
      /\ \A x : InCache(x, u) <=> x = e \/ InCache(x, w)
  <2>1. \A x : InCache(x, w) => x.key # e.key
    BY <1>1
  <2>2. QED
    BY <1>1, <2>1, FrontIs
<1>3. Len(w) \in Nat /\ CacheMax \in Nat \ {0}
  BY <1>1, ControlAssumption
<1>4. n \in 1..Len(u) /\ n <= CacheMax
  BY <1>2, <1>3
<1>5. /\ t \in Seq(Entries) /\ OneEntry(t) /\ Len(t) = n /\ InCache(u[1], t)
      /\ \A x : InCache(x, t) => InCache(x, u)
  BY <1>2, <1>4, CropIs
<1>6. QED
  BY <1>1, <1>2, <1>4, <1>5

-----------------------------------------------------------------------------
\* A key of which AppliedOnce speaks.
Good(k) == k \notin crowded \cup PlanKeys \cup {NoKey}

\* The cache s holds the result of an apply under key k.
Remembers(s, k) == \E e : InCache(e, s) /\ e.key = k /\ e.apply # None

CacheShape == idem \in Seq(Entries) /\ OneEntry(idem) /\ Len(idem) <= CacheMax

\* The requests under way and applied are requests.
RequestsKnown ==
    /\ applied \in Seq(Requests)
    /\ holder \in {"caps", "swap", "record"} => cand.req \in Requests

\* An applied request is remembered, the one that is being recorded excepted.
AppliedRemembered ==
    \A i \in 1..Len(applied) : Good(applied[i].key) =>
        Remembers(idem, applied[i].key) \/ (holder = "record" /\ applied[i].key = cand.req.key)

\* A request that is being applied was not applied before.
NewRequest ==
    holder \in {"caps", "swap"} =>
        \A i \in 1..Len(applied) : Good(cand.req.key) => applied[i].key # cand.req.key

KeysDiffer ==
    \A i, j \in 1..Len(applied) : applied[i].key = applied[j].key /\ Good(applied[i].key) => i = j

OnceInv == CacheShape /\ RequestsKnown /\ AppliedRemembered /\ NewRequest /\ KeysDiffer

\* What a step does to the cache: it keeps its shape, forgets no key that is
\* still good, and lists every key it crowds out.
CacheStep ==
    /\ CacheShape'
    /\ crowded \subseteq crowded'
    /\ \A k : Good(k)' /\ Remembers(idem, k) => Remembers(idem', k)

LEMMA CacheSame ==
    ASSUME CacheShape, UNCHANGED <<idem, crowded>>
    PROVE  CacheStep
  BY DEF CacheStep, CacheShape, OneEntry, Remembers, InCache

LEMMA CacheLooked ==
    ASSUME CacheShape, NEW r \in Requests, idem' = Looked(r), UNCHANGED crowded
    PROVE  CacheStep
<1>1. SameCache(idem', idem)
  BY LookedIs DEF CacheShape
<1>2. Len(idem) \in Nat /\ Len(idem') \in Nat /\ CacheMax \in Nat
  BY <1>1, ControlAssumption DEF CacheShape, SameCache
<1>3. OneEntry(idem)'
  BY <1>1 DEF SameCache, OneEntry
<1>4. QED
  BY <1>1, <1>2, <1>3 DEF CacheStep, CacheShape, SameCache, Remembers

LEMMA CacheForgets ==
    ASSUME CacheShape, NEW r \in Requests, idem' = Without(idem, r.key), UNCHANGED crowded,
           Good(r.key) => ~Remembers(idem, r.key)
    PROVE  CacheStep
<1>1. /\ idem' \in Seq(Entries) /\ OneEntry(idem') /\ Len(idem') <= Len(idem)
      /\ \A e : InCache(e, idem') <=> InCache(e, idem) /\ e.key # r.key
  BY WithoutIs DEF CacheShape
<1>2. Len(idem) \in Nat /\ Len(idem') \in Nat /\ CacheMax \in Nat
  BY <1>1, ControlAssumption DEF CacheShape
<1>3. CacheShape'
  BY <1>1, <1>2 DEF CacheShape, OneEntry
<1>4. ASSUME NEW k, Good(k)', Remembers(idem, k) PROVE Remembers(idem', k)
  BY <1>1, <1>4 DEF Remembers, Good
<1>5. QED
  BY <1>3, <1>4 DEF CacheStep

LEMMA CacheStores ==
    ASSUME CacheShape, NEW r \in Requests, NEW e \in Entries, e.key = r.key, Store(r, e),
           Good(r.key) => e.apply # None
    PROVE  CacheStep /\ (Good(r.key)' => Remembers(idem', r.key))
<1>1. CASE r.key = NoKey
  <2>1. idem' = idem /\ crowded' = crowded
    BY <1>1 DEF Store, Stored
  <2>2. QED
    BY <1>1, <2>1, CacheSame DEF Good
<1>2. CASE r.key # NoKey
  <2>1. /\ idem' \in Seq(Entries) /\ OneEntry(idem') /\ Len(idem') <= CacheMax
        /\ InCache(e, idem')
        /\ \A x : InCache(x, idem') => x = e \/ InCache(x, idem)
    BY <1>2, StoredIs DEF Store, CacheShape
  <2>2. crowded' = crowded \cup (KeysOf(idem) \ KeysOf(idem'))
    BY DEF Store
  <2>3. CacheShape'
    BY <2>1 DEF CacheShape, OneEntry
  <2>4. Good(r.key)' => Remembers(idem', r.key)
    BY <2>1, <2>2 DEF Good, Remembers
  <2>5. ASSUME NEW k, Good(k)', Remembers(idem, k) PROVE Remembers(idem', k)
    <3>1. PICK y : InCache(y, idem) /\ y.key = k /\ y.apply # None
      BY <2>5 DEF Remembers
    <3>2. k \in KeysOf(idem')
      BY <2>2, <2>5, <3>1, KeysAre DEF Good
    <3>3. PICK x : InCache(x, idem') /\ x.key = k
      BY <3>2, KeysAre
    <3>4. CASE x = e
      BY <2>4, <2>5, <3>3, <3>4
    <3>5. CASE InCache(x, idem)
      <4>1. x = y
        BY <3>1, <3>3, <3>5, OneOf DEF CacheShape
      <4>2. QED
        BY <3>1, <3>3, <4>1 DEF Remembers
    <3>6. QED
      BY <2>1, <3>3, <3>4, <3>5
  <2>6. QED
    BY <2>2, <2>3, <2>4, <2>5 DEF CacheStep
<1>3. QED
  BY <1>1, <1>2

\* A request that apply does not find cached is not remembered.
LEMMA NotCached ==
    ASSUME CacheShape, NEW r \in Requests, ~ApplyIsCached(r)
    PROVE  ~Remembers(idem, r.key)
<1> SUFFICES ASSUME NEW x, InCache(x, idem), x.key = r.key, x.apply # None PROVE FALSE
  BY DEF Remembers
<1>1. Found(r) # {} /\ InCache(Entry(r), idem) /\ Entry(r).key = r.key
  BY EntryIs DEF CacheShape
<1>2. x = Entry(r)
  BY <1>1, OneOf DEF CacheShape
<1>3. QED
  BY <1>2 DEF ApplyIsCached

-----------------------------------------------------------------------------
\* A step that applies nothing and moves no request into its next phase.
LEMMA OnceKept ==
    ASSUME OnceInv, CacheStep, UNCHANGED applied,
           holder' \in {"caps", "swap"} => holder \in {"caps", "swap"} /\ cand' = cand,
           holder' = "record" => holder = "record" /\ cand' = cand,
           holder = "record" => holder' = "record"
    PROVE  OnceInv'
<1>1. \A k : Good(k)' => Good(k)
  BY DEF CacheStep, Good
<1>2. RequestsKnown'
  BY DEF OnceInv, RequestsKnown
<1>3. AppliedRemembered'
  BY <1>1 DEF OnceInv, AppliedRemembered, CacheStep
<1>4. NewRequest'
  BY <1>1 DEF OnceInv, NewRequest
<1>5. KeysDiffer'
  BY <1>1 DEF OnceInv, KeysDiffer
<1>6. QED
  BY <1>2, <1>3, <1>4, <1>5 DEF OnceInv, CacheStep

\* Plan stores no apply and forgets only keys that plans use.
LEMMA OncePlan ==
    ASSUME OnceInv, NEW r \in Requests, PlanReplay(r) \/ PlanConflict(r) \/ Plan(r)
    PROVE  OnceInv'
<1>1. CacheShape /\ ~Good(r.key)
  BY DEF OnceInv, PlanReplay, PlanConflict, Plan, PlanUsesKey, Good
<1>2. holder = "free" /\ UNCHANGED <<lock, applied>>
  BY DEF PlanReplay, PlanConflict, Plan
<1>3. CacheStep
  <2>1. CASE idem' = Looked(r) /\ UNCHANGED crowded
    BY <1>1, <2>1, CacheLooked
  <2>2. CASE idem' = Without(idem, r.key) /\ UNCHANGED crowded
    BY <1>1, <2>2, CacheForgets
  <2>3. CASE Store(r, [Entry(r) EXCEPT !.plan = TRUE])
    <3>1. Entry(r) \in Entries /\ Entry(r).key = r.key
      BY <1>1, EntryIs DEF CacheShape
    <3>2. [Entry(r) EXCEPT !.plan = TRUE] \in Entries /\ [Entry(r) EXCEPT !.plan = TRUE].key = r.key
      BY <3>1 DEF Entries
    <3>3. QED
      BY <1>1, <2>3, <3>2, CacheStores
  <2>4. QED
    BY <2>1, <2>2, <2>3 DEF PlanReplay, PlanConflict, Plan
<1>4. holder' = "free"
  BY <1>2 DEF lock
<1>5. QED
  BY <1>2, <1>3, <1>4, OnceKept

\* An apply that is answered at once.
LEMMA OnceAnswered ==
    ASSUME OnceInv, NEW r \in Requests, ApplyReplay(r) \/ ApplyConflict(r)
    PROVE  OnceInv'
<1>1. CacheShape
  BY DEF OnceInv
<1>2. holder = "free" /\ UNCHANGED <<lock, applied, crowded>>
  BY DEF ApplyReplay, ApplyConflict
<1>3. CacheStep
  <2>1. CASE ApplyReplay(r)
    BY <1>1, <2>1, CacheLooked DEF ApplyReplay
  <2>2. CASE ApplyConflict(r)
    <3>1. ~Remembers(idem, r.key) /\ idem' = Without(idem, r.key) /\ UNCHANGED crowded
      BY <1>1, <2>2, NotCached DEF ApplyConflict
    <3>2. QED
      BY <1>1, <3>1, CacheForgets
  <2>3. QED
    BY <2>1, <2>2
<1>4. holder' = "free"
  BY <1>2 DEF lock
<1>5. QED
  BY <1>2, <1>3, <1>4, OnceKept

\* An apply that begins was not applied before: it would be remembered.
LEMMA OnceBegun ==
    ASSUME OnceInv, NEW r \in Requests, ApplyBegin(r)
    PROVE  OnceInv'
<1>1. /\ holder = "free" /\ idem' = Looked(r) /\ UNCHANGED <<applied, crowded>>
      /\ ~ApplyIsCached(r) /\ CacheShape
  BY DEF ApplyBegin, MayBegin, OnceInv
<1>2. CacheStep /\ ~Remembers(idem, r.key)
  BY <1>1, CacheLooked, NotCached
<1>3. CASE UNCHANGED lock
  <2>1. holder' = "free"
    BY <1>1, <1>3 DEF lock
  <2>2. QED
    BY <1>1, <1>2, <2>1, OnceKept
<1>4. CASE cand'.req = r /\ holder' \in {"caps", "swap"}
  <2>1. \A k : Good(k)' <=> Good(k)
    BY <1>1 DEF Good
  <2>2. \A i \in 1..Len(applied) : Good(applied[i].key) => Remembers(idem, applied[i].key)
    BY <1>1 DEF OnceInv, AppliedRemembered
  <2>3. AppliedRemembered'
    BY <1>1, <1>2, <2>1, <2>2 DEF AppliedRemembered, CacheStep
  <2>4. NewRequest'
    BY <1>1, <1>2, <1>4, <2>1, <2>2 DEF NewRequest
  <2>5. RequestsKnown' /\ KeysDiffer'
    BY <1>1, <1>4, <2>1 DEF OnceInv, RequestsKnown, KeysDiffer
  <2>6. QED
    BY <1>2, <2>3, <2>4, <2>5 DEF OnceInv, CacheStep
<1>5. (cand'.req = r /\ holder' \in {"caps", "swap"}) \/ UNCHANGED lock
  BY DEF ApplyBegin
<1>6. QED
  BY <1>3, <1>4, <1>5

\* The swap applies a request that was not applied before.
LEMMA OnceSwapped ==
    ASSUME OnceInv, ApplySwap
    PROVE  OnceInv'
<1>1. /\ holder = "swap" /\ holder' = "record" /\ UNCHANGED <<cand, idem, crowded>>
      /\ applied' = Append(applied, cand.req)
  BY DEF ApplySwap
<1>2. applied \in Seq(Requests) /\ cand.req \in Requests /\ CacheShape
  BY <1>1 DEF OnceInv, RequestsKnown
<1> SUFFICES ASSUME NEW n, n = Len(applied), NEW a, a = applied, NEW b, b = applied',
                    NEW q, q = cand.req
             PROVE  OnceInv'
  OBVIOUS
<1>3. /\ n \in Nat /\ b \in Seq(Requests) /\ Len(b) = n + 1 /\ b[n + 1] = q
      /\ \A i \in 1..n : b[i] = a[i]
  <2>1. /\ Len(a) \in Nat /\ Append(a, q) \in Seq(Requests)
        /\ Len(Append(a, q)) = Len(a) + 1 /\ Append(a, q)[Len(a) + 1] = q
        /\ \A i \in 1..Len(a) : Append(a, q)[i] = a[i]
    BY <1>2
  <2>2. b = Append(a, q)
    BY <1>1
  <2>3. QED
    BY <2>1, <2>2
<1>4. \A i \in 1..(n + 1) : i = n + 1 \/ i \in 1..n
  BY <1>3
<1>5. \A k : Good(k)' <=> Good(k)
  BY <1>1 DEF Good
<1>6. CacheShape'
  BY <1>1, <1>2 DEF CacheShape, OneEntry
<1>7. RequestsKnown'
  BY <1>1, <1>2, <1>3 DEF RequestsKnown
<1>8. AppliedRemembered'
  <2> SUFFICES ASSUME NEW i \in 1..(n + 1), Good(b[i].key)
               PROVE  Remembers(idem, b[i].key) \/ b[i].key = q.key
    BY <1>1, <1>3, <1>5 DEF AppliedRemembered, Remembers, InCache
  <2>1. CASE i = n + 1
    BY <1>3, <2>1
  <2>2. CASE i \in 1..n
    BY <1>1, <1>3, <2>2 DEF OnceInv, AppliedRemembered
  <2>3. QED
    BY <1>4, <2>1, <2>2
<1>9. NewRequest'
  BY <1>1 DEF NewRequest
<1>10. KeysDiffer'
  <2> SUFFICES ASSUME NEW i \in 1..(n + 1), NEW j \in 1..(n + 1),
                      b[i].key = b[j].key, Good(b[i].key)
               PROVE  i = j
    BY <1>3, <1>5 DEF KeysDiffer
  <2>1. \A l \in 1..n : Good(q.key) => b[l].key # q.key
    BY <1>1, <1>3 DEF OnceInv, NewRequest
  <2>2. CASE i \in 1..n /\ j \in 1..n
    BY <1>3, <2>2 DEF OnceInv, KeysDiffer
  <2>3. CASE i = n + 1 \/ j = n + 1
    BY <1>3, <1>4, <2>1, <2>3
  <2>4. QED
    BY <1>4, <2>2, <2>3
<1>11. QED
  BY <1>6, <1>7, <1>8, <1>9, <1>10 DEF OnceInv

\* storeApply remembers the request before App.mu is released.
LEMMA OnceRecorded ==
    ASSUME OnceInv, ControlInv, ApplyRecord
    PROVE  OnceInv'
<1>1. /\ holder = "record" /\ holder' = "free" /\ UNCHANGED applied /\ cand.req \in Requests
      /\ CacheShape
  BY DEF ApplyRecord, OnceInv, RequestsKnown
<1>2. cand.next.state \in State /\ cand.next.state # None
  BY <1>1, ControlAssumption DEF ControlInv, CandidateKnown, Snapshot
<1> SUFFICES ASSUME NEW r \in Requests, r = cand.req,
                    NEW e, e = [Entry(r) EXCEPT !.apply = cand.next.state], Store(r, e)
             PROVE  OnceInv'
  BY <1>1 DEF ApplyRecord
<1>3. Entry(r) \in Entries /\ Entry(r).key = r.key
  BY <1>1, EntryIs DEF CacheShape
<1>4. e \in Entries /\ e.key = r.key /\ e.apply # None
  BY <1>2, <1>3 DEF Entries
<1>5. CacheStep /\ (Good(r.key)' => Remembers(idem', r.key))
  BY <1>1, <1>4, CacheStores
<1>6. \A k : Good(k)' => Good(k)
  BY <1>5 DEF CacheStep, Good
<1>7. AppliedRemembered'
  <2> SUFFICES ASSUME NEW i \in 1..Len(applied), Good(applied[i].key)'
               PROVE  Remembers(idem', applied[i].key)
    BY <1>1 DEF AppliedRemembered
  <2>1. Good(applied[i].key)
    BY <1>1, <1>6
  <2>2. Remembers(idem, applied[i].key) \/ applied[i].key = r.key
    BY <2>1 DEF OnceInv, AppliedRemembered
  <2>3. QED
    BY <1>1, <1>5, <2>2 DEF CacheStep
<1>8. RequestsKnown' /\ NewRequest' /\ KeysDiffer'
  BY <1>1, <1>6 DEF OnceInv, RequestsKnown, NewRequest, KeysDiffer
<1>9. QED
  BY <1>5, <1>7, <1>8 DEF OnceInv, CacheStep

LEMMA OnceInit == Init => OnceInv
  BY ControlAssumption
     DEF Init, OnceInv, CacheShape, OneEntry, RequestsKnown, AppliedRemembered, NewRequest,
         KeysDiffer

LEMMA OnceNext ==
    ASSUME OnceInv, ControlInv, [Next]_vars
    PROVE  OnceInv'
<1>1. CacheShape
  BY DEF OnceInv
<1>2. ASSUME UNCHANGED <<lock, cache>> PROVE OnceInv'
  BY <1>1, <1>2, CacheSame, OnceKept DEF lock, cache
<1>3. CASE ApplyCaps
  BY <1>1, <1>3, CacheSame, OnceKept DEF ApplyCaps, cache
<1>4. CASE ResetBegin \/ ResetSwap
  BY <1>1, <1>4, CacheSame, OnceKept DEF ResetBegin, MayBegin, ResetSwap, cache
<1>5. CASE ResetDone
  BY <1>5, ControlAssumption
     DEF ResetDone, OnceInv, CacheShape, OneEntry, RequestsKnown, AppliedRemembered,
         NewRequest, KeysDiffer
<1>6. CASE Insert \/ Delete
  BY <1>2, <1>6 DEF Insert, Delete
<1>7. ASSUME NEW s \in State, EditFile(s) PROVE OnceInv'
  BY <1>2, <1>7 DEF EditFile
<1>8. CASE UNCHANGED vars
  BY <1>2, <1>8 DEF vars
<1>9. QED
  BY <1>3, <1>4, <1>5, <1>6, <1>7, <1>8, OncePlan, OnceAnswered, OnceBegun, OnceSwapped,
     OnceRecorded DEF Next

\* A keyed request is applied at most once between resets, unless its key was
\* dropped at the cache's limit or plans use it too: lookup, storeApply and
\* evict keep every applied request's entry for as long as that holds.
THEOREM RequestsAppliedOnce == Spec => []AppliedOnce
<1>1. OnceInv => AppliedOnce
  BY DEF OnceInv, KeysDiffer, AppliedOnce, Good
<1>2. QED
  BY <1>1, OnceInit, OnceNext, ControlInvariant, PTL DEF Spec

\* A call under way started below the bound on swaps.
GenBounded ==
    /\ active.gen <= MaxGen
    /\ holder \in {"caps", "swap", "resetSwap"} => active.gen < MaxGen

LEMMA GenNext ==
    ASSUME GenBounded, ControlInv, [Next]_vars
    PROVE  GenBounded'
<1>1. active.gen \in Nat /\ MaxGen \in Nat
  BY ControlAssumption DEF ControlInv, Values, Snapshot
<1>2. ASSUME UNCHANGED <<active, holder>> PROVE GenBounded'
  BY <1>2 DEF GenBounded
<1>3. ASSUME NEW r \in Requests, PlanReplay(r) \/ PlanConflict(r) \/ Plan(r)
                                 \/ ApplyReplay(r) \/ ApplyConflict(r)
      PROVE  GenBounded'
  BY <1>2, <1>3 DEF PlanReplay, PlanConflict, Plan, ApplyReplay, ApplyConflict, snaps, lock
<1>4. ASSUME NEW r \in Requests, ApplyBegin(r) PROVE GenBounded'
  BY <1>1, <1>4 DEF ApplyBegin, MayBegin, GenBounded, snaps, lock
<1>5. CASE ApplyCaps \/ ResetBegin
  BY <1>1, <1>5 DEF ApplyCaps, ResetBegin, MayBegin, GenBounded, snaps
<1>6. CASE ApplySwap \/ ResetSwap
  <2>1. active'.gen = active.gen + 1 /\ active.gen < MaxGen /\ holder' \in {"record", "resetDone"}
    BY <1>6 DEF ApplySwap, ResetSwap, GenBounded, ControlInv, CandidateKnown
  <2>2. QED
    BY <1>1, <2>1 DEF GenBounded
<1>7. CASE ApplyRecord \/ ResetDone
  BY <1>1, <1>7 DEF ApplyRecord, ResetDone, GenBounded, snaps
<1>8. CASE Insert \/ Delete \/ UNCHANGED vars \/ \E s \in State : EditFile(s)
  BY <1>2, <1>8 DEF Insert, Delete, EditFile, vars, snaps, lock
<1>9. QED
  BY <1>3, <1>4, <1>5, <1>6, <1>7, <1>8 DEF Next

\* Type correctness: snapshots, caps and counters keep their types, and the
\* idempotency cache keeps its limit and one entry per key.
THEOREM ControlTypeOK == Spec => []TypeOK
<1>1. Init => GenBounded
  BY ControlAssumption DEF Init, GenBounded
<1>2. OnceInv /\ ControlInv /\ GenBounded => TypeOK
  BY ControlAssumption
     DEF OnceInv, CacheShape, OneEntry, ControlInv, Values, Snapshot, GenBounded, TypeOK
<1>3. QED
  BY <1>1, <1>2, OnceInit, OnceNext, GenNext, ControlInvariant, PTL DEF Spec

=============================================================================
