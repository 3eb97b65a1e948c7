---------------------------- MODULE ControlPlane ----------------------------
(***************************************************************************)
(* Plan, Apply and Reset of internal/app: the configuration snapshots      *)
(* (internal/snapshot), the idempotency cache, and the store caps that an  *)
(* apply or a reset installs while mail arrives.                           *)
(*                                                                         *)
(* App.mu serialises the three calls, so at most one of them is under way; *)
(* mail is inserted and deleted without App.mu, between any two of its     *)
(* steps.  A revision is the hash of a canonical state, so the state       *)
(* itself stands for it.  Of a state the model keeps the store caps and    *)
(* the SMTP part.  A call that fails before it changes anything (a file    *)
(* that does not load, an operation that does not compile, the auth        *)
(* preflight) is not an action.                                            *)
(***************************************************************************)
EXTENDS Integers, Sequences, FiniteSets, SequencesExt

CONSTANTS
    SmtpParts,  \* SMTP parts of a state
    CapsSet,    \* store caps: records of max (maxMessages) and evict (fullPolicy)
    Requests,   \* plan and apply requests: key, expected, op, force
    PlanKeys,   \* idempotency keys that plan requests use
    NoKey,      \* no idempotency key
    None,
    CacheMax,   \* size of the idempotency cache
    MaxGen      \* bound: configuration swaps

Caps == [max : Nat \ {0}, evict : BOOLEAN]
State == [caps : CapsSet, smtp : SmtpParts]
Op == [caps : CapsSet] \cup [smtp : SmtpParts]

ASSUME ControlAssumption ==
    /\ CapsSet \subseteq Caps
    /\ \A r \in Requests : /\ r.expected \in State
                           /\ r.op \in Op
                           /\ r.force \in BOOLEAN
    /\ None \notin State
    /\ CacheMax \in Nat \ {0}
    /\ MaxGen \in Nat

VARIABLES
    active,     \* the live snapshot: state, boot (its bootstrapRevision), gen
    bootstrap,  \* state of the bootstrap snapshot
    file,       \* content of the bootstrap file
    holder,     \* what the call that holds App.mu does next, or free
    cand,       \* its request and candidate snapshot
    idem,       \* the idempotency cache, most recent first
    caps,       \* the store's caps
    count,      \* messages in the inbox
    applied,    \* requests applied since the last reset, with multiplicity
    crowded     \* keys the cache has dropped at its limit

snaps == <<active, bootstrap, file>>
lock == <<holder, cand>>
cache == <<idem, applied, crowded>>
inbox == <<caps, count>>
vars == <<snaps, lock, cache, inbox>>

NoCand == [req |-> None, next |-> None]

Init ==
    /\ file \in State
    /\ active = [state |-> file, boot |-> file, gen |-> 0]
    /\ bootstrap = file
    /\ holder = "free" /\ cand = NoCand
    /\ idem = <<>> /\ applied = <<>> /\ crowded = {}
    /\ caps = file.caps
    /\ count = 0

-----------------------------------------------------------------------------
(* Operations and the idempotency cache.                                   *)

IsCapsOp(op) == "caps" \in DOMAIN op

\* applyOperations and the compile of the result.
Edited(op) == IF IsCapsOp(op) THEN [active.state EXCEPT !.caps = op.caps]
              ELSE [active.state EXCEPT !.smtp = op.smtp]

Compiled(s) == [state |-> s, boot |-> active.boot, gen |-> active.gen + 1]

\* fingerprintChange: the identity of a request, without its key.
Fingerprint(r) == [expected |-> r.expected, op |-> r.op, force |-> r.force]

\* Entries of the cache under the key of r.
Found(r) == {j \in 1..Len(idem) : idem[j].key = r.key}

KeysOf(s) == {s[j].key : j \in 1..Len(s)}

\* evict and removeLocked: the entry of the key is unlinked, if there is one.
Without(s, key) ==
    IF key \in KeysOf(s) THEN RemoveAt(s, CHOOSE j \in 1..Len(s) : s[j].key = key) ELSE s

\* lookup: a key used for another request refuses this one.
KeyUsable(r) == \A j \in Found(r) : idem[j].fp = Fingerprint(r)

\* What the entry under the key of r has cached, or an empty entry.
Entry(r) == IF Found(r) = {}
            THEN [key |-> r.key, fp |-> Fingerprint(r), plan |-> FALSE, apply |-> None]
            ELSE idem[CHOOSE j \in Found(r) : TRUE]

\* A hit moves to the front.
Looked(r) == IF Found(r) = {} THEN idem ELSE <<Entry(r)>> \o Without(idem, r.key)

\* storePlan and storeApply: the entry goes to the front, the oldest falls off.
Stored(r, e) ==
    IF r.key = NoKey THEN idem
    ELSE LET s == <<e>> \o Without(idem, r.key)
         IN  SubSeq(s, 1, IF Len(s) > CacheMax THEN CacheMax ELSE Len(s))

Store(r, e) ==
    /\ idem' = Stored(r, e)
    /\ crowded' = crowded \cup (KeysOf(idem) \ KeysOf(idem'))

Bug_RevisionMatches(r) == TRUE

\* buildCandidate: the request was made for the live revision.
RevisionMatches(r) == r.expected = active.state

\* checkStoreCaps on the occupancy that Stats reports: refused when the inbox
\* is over the new caps and nothing permits to evict.
MayShrink(r, s) == s.caps.evict \/ r.force
CapsRefused(r, s) == IsCapsOp(r.op) /\ count > s.caps.max /\ ~MayShrink(r, s)

-----------------------------------------------------------------------------
(* Plan.                                                                   *)

PlanUsesKey(r) == r.key = NoKey \/ r.key \in PlanKeys

\* A cached plan is returned as it is, even if the revision has moved on.
PlanReplay(r) ==
    /\ holder = "free"
    /\ PlanUsesKey(r)
    /\ KeyUsable(r)
    /\ Entry(r).plan
    /\ idem' = Looked(r)
    /\ UNCHANGED <<snaps, lock, applied, crowded, inbox>>

\* A revision conflict forgets the key, whatever the entry holds.
PlanConflict(r) ==
    /\ holder = "free"
    /\ PlanUsesKey(r)
    /\ KeyUsable(r)
    /\ ~Entry(r).plan
    /\ ~RevisionMatches(r)
    /\ idem' = Without(idem, r.key)
    /\ UNCHANGED <<snaps, lock, applied, crowded, inbox>>

Plan(r) ==
    /\ holder = "free"
    /\ PlanUsesKey(r)
    /\ KeyUsable(r)
    /\ ~Entry(r).plan
    /\ RevisionMatches(r)
    /\ IF CapsRefused(r, Edited(r.op))
       THEN idem' = Looked(r) /\ UNCHANGED crowded
       ELSE Store(r, [Entry(r) EXCEPT !.plan = TRUE])
    /\ UNCHANGED <<snaps, lock, applied, inbox>>

-----------------------------------------------------------------------------
(* Apply.                                                                  *)

Bug_ApplyIsCached(r) == FALSE

\* A hit with an apply result is a replay, or idempotency_conflict when the
\* runtime revision has changed; either way nothing is applied.
ApplyIsCached(r) == Entry(r).apply # None

ApplyReplay(r) ==
    /\ holder = "free"
    /\ KeyUsable(r)
    /\ ApplyIsCached(r)
    /\ idem' = Looked(r)
    /\ UNCHANGED <<snaps, lock, applied, crowded, inbox>>

ApplyConflict(r) ==
    /\ holder = "free"
    /\ KeyUsable(r)
    /\ ~ApplyIsCached(r)
    /\ ~RevisionMatches(r)
    /\ idem' = Without(idem, r.key)
    /\ UNCHANGED <<snaps, lock, applied, crowded, inbox>>

\* App.mu is free and the bound on swaps is not reached.
MayBegin == holder = "free" /\ active.gen < MaxGen

\* buildCandidate and the first test of checkStoreCaps.
ApplyBegin(r) ==
    LET s == Edited(r.op)
    IN  /\ MayBegin
        /\ KeyUsable(r)
        /\ ~ApplyIsCached(r)
        /\ RevisionMatches(r)
        /\ idem' = Looked(r)
        /\ IF CapsRefused(r, s)
           THEN UNCHANGED lock
           ELSE /\ cand' = [req |-> r, next |-> Compiled(s)]
                /\ holder' = IF IsCapsOp(r.op) THEN "caps" ELSE "swap"
        /\ UNCHANGED <<snaps, applied, crowded, inbox>>

Bug_CapsFit(s) == TRUE

\* ReplaceCaps tests the occupancy again, under the store's own lock.
CapsFit(s) == count <= s.caps.max \/ MayShrink(cand.req, s)

Bug_ApplyCaps ==
    LET s == cand.next.state
    IN  /\ holder = "caps"
        /\ IF CapsFit(s)
           THEN /\ caps' = s.caps
                /\ count' = IF count > s.caps.max THEN s.caps.max ELSE count
           ELSE UNCHANGED inbox
        /\ holder' = "swap"
        /\ UNCHANGED <<snaps, cand, cache>>

\* ReplaceCaps evicts what is over, installs the caps, or fails the apply.
ApplyCaps ==
    LET s == cand.next.state
    IN  /\ holder = "caps"
        /\ IF CapsFit(s)
           THEN /\ caps' = s.caps
                /\ count' = IF count > s.caps.max THEN s.caps.max ELSE count
                /\ holder' = "swap"
                /\ UNCHANGED cand
           ELSE /\ holder' = "free"
                /\ cand' = NoCand
                /\ UNCHANGED inbox
        /\ UNCHANGED <<snaps, cache>>

ApplySwap ==
    /\ holder = "swap"
    /\ active' = cand.next
    /\ applied' = Append(applied, cand.req)
    /\ holder' = "record"
    /\ UNCHANGED <<bootstrap, file, cand, idem, crowded, inbox>>

\* The audit record and storeApply; App.mu is released.
ApplyRecord ==
    /\ holder = "record"
    /\ Store(cand.req, [Entry(cand.req) EXCEPT !.apply = cand.next.state])
    /\ holder' = "free"
    /\ cand' = NoCand
    /\ UNCHANGED <<snaps, applied, inbox>>

-----------------------------------------------------------------------------
(* Reset.                                                                  *)

\* The bootstrap file compiles and the preflights pass; ResetTo empties the
\* inbox and installs its caps.
ResetBegin ==
    /\ MayBegin
    /\ cand' = [req |-> None,
                next |-> [state |-> file, boot |-> file, gen |-> active.gen + 1]]
    /\ caps' = file.caps
    /\ count' = 0
    /\ holder' = "resetSwap"
    /\ UNCHANGED <<snaps, cache>>

ResetSwap ==
    /\ holder = "resetSwap"
    /\ active' = cand.next
    /\ holder' = "resetDone"
    /\ UNCHANGED <<bootstrap, file, cand, cache, inbox>>

Bug_ResetDone ==
    /\ holder = "resetDone"
    /\ idem' = <<>> /\ applied' = <<>> /\ crowded' = {}
    /\ holder' = "free"
    /\ cand' = NoCand
    /\ UNCHANGED <<snaps, inbox>>

\* SetBootstrap, idemp.clear and the audit record.
ResetDone ==
    /\ holder = "resetDone"
    /\ bootstrap' = cand.next.state
    /\ idem' = <<>> /\ applied' = <<>> /\ crowded' = {}
    /\ holder' = "free"
    /\ cand' = NoCand
    /\ UNCHANGED <<active, file, inbox>>

-----------------------------------------------------------------------------
(* Mail and the bootstrap file.                                            *)

\* An insert that needs no eviction; one that evicts keeps the count.
Insert ==
    /\ count < caps.max
    /\ count' = count + 1
    /\ UNCHANGED <<snaps, lock, cache, caps>>

Delete ==
    /\ count > 0
    /\ count' = count - 1
    /\ UNCHANGED <<snaps, lock, cache, caps>>

EditFile(s) ==
    /\ file' = s
    /\ UNCHANGED <<active, bootstrap, lock, cache, inbox>>

-----------------------------------------------------------------------------
Next ==
    \/ \E r \in Requests :
         \/ PlanReplay(r) \/ PlanConflict(r) \/ Plan(r)
         \/ ApplyReplay(r) \/ ApplyConflict(r) \/ ApplyBegin(r)
    \/ ApplyCaps \/ ApplySwap \/ ApplyRecord
    \/ ResetBegin \/ ResetSwap \/ ResetDone
    \/ Insert \/ Delete
    \/ \E s \in State : EditFile(s)

Spec == Init /\ [][Next]_vars

-----------------------------------------------------------------------------
(* Properties.                                                             *)

\* Type correctness; the cache has one entry per key and keeps its limit.
TypeOK ==
    /\ active \in [state : State, boot : State, gen : 0..MaxGen]
    /\ bootstrap \in State /\ file \in State
    /\ holder \in {"free", "caps", "swap", "record", "resetSwap", "resetDone"}
    /\ caps \in CapsSet /\ count \in Nat
    /\ Len(idem) <= CacheMax
    /\ \A i, j \in 1..Len(idem) : idem[i].key = idem[j].key => i = j

\* Whenever no call holds App.mu, the store runs with the caps of the live
\* snapshot and the inbox is within them: an apply that fails half-way, or
\* mail that arrives between its steps, never separates the two.
CapsAgree == holder = "free" => caps = active.state.caps /\ count <= caps.max

\* The bootstrapRevision that the live snapshot carries, from which drifted
\* is computed, is the revision of the bootstrap snapshot, through any
\* sequence of applies and resets.
BootstrapKnown == holder = "free" => active.boot = bootstrap

\* An apply removes mail only if the new policy or force permits it, mail
\* that arrived after checkStoreCaps looked at the occupancy included.
NoSilentEviction ==
    [][holder = "caps" /\ holder' = "swap" /\ count' < count =>
          cand.req.force \/ cand.next.state.caps.evict]_vars

\* A change is made on the snapshot it was compiled from: no other apply or
\* reset slips in between, so none is lost.
NoLostUpdate ==
    [][active' # active => active'.gen = active.gen + 1
                           /\ (holder = "swap" => cand.req.expected = active.state)]_vars

\* A keyed request is applied at most once between resets, however often it
\* is retried and whatever else is applied meanwhile, unless the cache was
\* full and dropped its key, or plans use the key too.
AppliedOnce ==
    \A i, j \in 1..Len(applied) :
        (applied[i] = applied[j] /\ applied[i].key \notin crowded \cup PlanKeys \cup {NoKey})
            => i = j

=============================================================================
