------------------------------ MODULE StoreWait ------------------------------
(***************************************************************************)
(* Memory.Wait: long polls on the inbox.                                   *)
(*                                                                         *)
(* Every call of Wait is a goroutine that looks for the newest matching    *)
(* message under the store's mutex, reads its spill files without it,      *)
(* looks again, and sleeps on the condition variable when nothing matches. *)
(* A second goroutine per call broadcasts when the call's context is done. *)
(* Insert, removeLocked, ResetTo and Wipe broadcast in the locked section  *)
(* that changes the membership.                                            *)
(*                                                                         *)
(* Of the inbox this module keeps the order and what a filter can tell     *)
(* apart: the kind of a message, fixed when it is parsed, and its read bit,*)
(* which MarkRead sets without a broadcast.  MessageStore is the inbox     *)
(* itself; from its invariant MembersReadable a file that is gone belongs  *)
(* to a message that is gone.  A message id is used again only when no     *)
(* caller can still hold it, so that the finite set Ids stands for ULIDs,  *)
(* which are unique.                                                       *)
(***************************************************************************)
EXTENDS Integers, Sequences, FiniteSets, SequencesExt

CONSTANTS
    Waiters,     \* callers of Wait
    Ids,         \* bound: messages in the inbox or held by a caller
    Kinds,       \* what filters distinguish
    KindOf,      \* KindOf[id]: the kind of message id
    Filter,      \* Filter[w]: the kinds and read bits that caller w takes
    IOFaults     \* TRUE: a spill file may be lost or unreadable

ASSUME WaitAssumption ==
    /\ IsFiniteSet(Waiters)
    /\ Filter \in [Waiters -> [kinds : SUBSET Kinds, read : SUBSET BOOLEAN]]
    /\ KindOf \in [Ids -> Kinds]
    /\ IOFaults \in BOOLEAN

VARIABLES
    order,    \* ids in the inbox, oldest first
    read,     \* those whose read bit is set
    waiters,  \* the counter behind the gauge store_waiters
    pc,       \* where each caller is
    snap,     \* the snapshot each caller works on
    done,     \* the caller's context is done
    helper,   \* the caller's goroutine that waits for the context
    res,      \* what the caller's last Wait returned
    quiet     \* nobody changes the inbox any more

call == <<waiters, pc, snap, res>>
inbox == <<order, read>>
vars == <<inbox, call, done, helper, quiet>>

Members == ToSet(order)

Init == /\ order = <<>>
        /\ read = {}
        /\ waiters = 0
        /\ pc = [w \in Waiters |-> "idle"]
        /\ snap = [w \in Waiters |-> {}]
        /\ done = [w \in Waiters |-> FALSE]
        /\ helper = [w \in Waiters |-> FALSE]
        /\ res = [w \in Waiters |-> "none"]
        /\ quiet = FALSE

-----------------------------------------------------------------------------
(* The condition variable.                                                 *)

Bug_Awakened == pc

\* cond.Broadcast: every sleeping caller will contend for the mutex.
Awakened == [w \in Waiters |-> IF pc[w] = "asleep" THEN "woken" ELSE pc[w]]

-----------------------------------------------------------------------------
(* Changes of the inbox, each with the broadcast of its locked section.    *)

Changed(newOrder) ==
    /\ ~quiet
    /\ order' = newOrder
    /\ read' = read \cap ToSet(newOrder)
    /\ pc' = Awakened
    /\ UNCHANGED <<waiters, snap, res, done, helper, quiet>>

Unused == Ids \ (Members \cup UNION {snap[w] : w \in Waiters})

\* Insert, whose receive time may place it before messages already there.
Insert(id, pos) ==
    /\ id \in Unused
    /\ Changed(InsertAt(order, pos, id))

\* Delete, or one eviction.
RemoveLocked(j) == Changed(RemoveAt(order, j))

\* DeleteAll of a non-empty inbox, Wipe and ResetTo.
Empty == Changed(<<>>)

\* MarkRead, MarkAllRead, and the last section of a Get that marks: no
\* broadcast.
MarkRead(S) ==
    /\ ~quiet
    /\ read' = read \cup S
    /\ UNCHANGED <<order, call, done, helper, quiet>>

-----------------------------------------------------------------------------
(* Wait.                                                                   *)

\* matchFilter.
Matches(w, id) == KindOf[id] \in Filter[w].kinds /\ (id \in read) \in Filter[w].read

Matching(w) == {j \in 1..Len(order) : Matches(w, order[j])}

\* newestMatchLocked: the last position that matches.
NewestMatch(w) == {order[j] : j \in {i \in Matching(w) : \A l \in Matching(w) : l <= i}}

Bug_MayTimeOut(w) == FALSE

\* ctx.Err, tested only when nothing matches.
MayTimeOut(w) == done[w]

Return(w, r, n) ==
    /\ pc' = [pc EXCEPT ![w] = "idle"]
    /\ snap' = [snap EXCEPT ![w] = {}]
    /\ res' = [res EXCEPT ![w] = r]
    /\ waiters' = n

\* One turn of the loop, entered with the mutex held and n sleepers counted:
\* take a snapshot, or time out, or sleep.
Turn(w, n) ==
    \/ /\ Matching(w) # {}
       /\ snap' = [snap EXCEPT ![w] = NewestMatch(w)]
       /\ pc' = [pc EXCEPT ![w] = "load"]
       /\ waiters' = n
       /\ UNCHANGED res
    \/ /\ Matching(w) = {}
       /\ MayTimeOut(w)
       /\ Return(w, "timeout", n)
    \/ /\ Matching(w) = {}
       /\ ~MayTimeOut(w)
       /\ snap' = [snap EXCEPT ![w] = {}]
       /\ pc' = [pc EXCEPT ![w] = "asleep"]
       /\ waiters' = n + 1
       /\ UNCHANGED res

\* The call starts, with its helper goroutine.
WaitCall(w) ==
    /\ pc[w] = "idle"
    /\ ~helper[w]
    /\ pc' = [pc EXCEPT ![w] = "start"]
    /\ res' = [res EXCEPT ![w] = "none"]
    /\ done' = [done EXCEPT ![w] = FALSE]
    /\ helper' = [helper EXCEPT ![w] = TRUE]
    /\ UNCHANGED <<inbox, waiters, snap, quiet>>

WaitStart(w) ==
    /\ pc[w] = "start"
    /\ Turn(w, waiters)
    /\ UNCHANGED <<inbox, done, helper, quiet>>

\* waiters-- with its floor, when cond.Wait returns with the mutex.
Uncount == IF waiters > 0 THEN waiters - 1 ELSE 0

WaitWoken(w) ==
    /\ pc[w] = "woken"
    /\ Turn(w, Uncount)
    /\ UNCHANGED <<inbox, done, helper, quiet>>

\* loadSpill without the mutex: the file of a message that is gone may be
\* gone too.
WaitLoad(w) ==
    /\ pc[w] = "load"
    /\ \/ /\ pc' = [pc EXCEPT ![w] = "recheck"]
          /\ UNCHANGED <<waiters, snap, res>>
       \/ /\ IOFaults \/ ~(snap[w] \subseteq Members)
          /\ pc' = [pc EXCEPT ![w] = "missing"]
          /\ UNCHANGED <<waiters, snap, res>>
       \/ /\ IOFaults
          /\ Return(w, "errSpill", waiters)
    /\ UNCHANGED <<inbox, done, helper, quiet>>

Still(w) == snap[w] \subseteq Members

\* The file was gone: ErrSpill if the message is still there, else the loop
\* continues in the same locked section.
WaitMissing(w) ==
    /\ pc[w] = "missing"
    /\ \/ Still(w) /\ Return(w, "errSpill", waiters)
       \/ ~Still(w) /\ Turn(w, waiters)
    /\ UNCHANGED <<inbox, done, helper, quiet>>

\* The second look: the message is returned while it is a member, else the
\* loop continues in the same locked section.
WaitRecheck(w) ==
    /\ pc[w] = "recheck"
    /\ \/ Still(w) /\ Return(w, "ok", waiters)
       \/ ~Still(w) /\ Turn(w, waiters)
    /\ UNCHANGED <<inbox, done, helper, quiet>>

\* The request is cancelled, its timeout passes, or maxWait does.
Expire(w) ==
    /\ pc[w] # "idle"
    /\ ~done[w]
    /\ done' = [done EXCEPT ![w] = TRUE]
    /\ UNCHANGED <<inbox, call, helper, quiet>>

\* The helper goroutine sees the context done and broadcasts.
HelperBroadcast(w) ==
    /\ helper[w]
    /\ done[w]
    /\ helper' = [helper EXCEPT ![w] = FALSE]
    /\ pc' = Awakened
    /\ UNCHANGED <<inbox, waiters, snap, res, done, quiet>>

\* The call has returned and closed stop.
HelperStop(w) ==
    /\ helper[w]
    /\ pc[w] = "idle"
    /\ helper' = [helper EXCEPT ![w] = FALSE]
    /\ UNCHANGED <<inbox, call, done, quiet>>

\* From here on no session and no client changes the inbox.
Quiesce ==
    /\ ~quiet
    /\ quiet' = TRUE
    /\ UNCHANGED <<inbox, call, done, helper>>

-----------------------------------------------------------------------------
WaitStep(w) == \/ WaitStart(w) \/ WaitWoken(w) \/ WaitLoad(w)
               \/ WaitMissing(w) \/ WaitRecheck(w)
HelperStep(w) == HelperBroadcast(w) \/ HelperStop(w)

Next ==
    \/ \E id \in Ids, pos \in 1..(Len(order) + 1) : Insert(id, pos)
    \/ \E j \in 1..Len(order) : RemoveLocked(j)
    \/ Empty
    \/ \E S \in {{id} : id \in Members} \cup {Members} : MarkRead(S)
    \/ \E w \in Waiters : \/ WaitCall(w) \/ WaitStep(w) \/ Expire(w)
                          \/ HelperStep(w)
    \/ Quiesce

Spec == Init /\ [][Next]_vars

\* A goroutine that can run does, and gets the mutex in the end (Go's mutex
\* does not starve a waiter).  Nobody is obliged to send mail, to call Wait
\* or to stop changing the inbox.
FairSpec == /\ Spec
            /\ \A w \in Waiters : WF_vars(WaitStep(w)) /\ WF_vars(HelperStep(w))

-----------------------------------------------------------------------------
(* Properties.                                                             *)

\* Type correctness; the gauge counts the callers that sleep or have not yet
\* taken the mutex back, and its floor at zero never hides a miscount.
TypeOK ==
    /\ order \in Seq(Ids) /\ read \subseteq Members
    /\ waiters = Cardinality({w \in Waiters : pc[w] \in {"asleep", "woken"}})
    /\ pc \in [Waiters -> {"idle", "start", "load", "missing", "recheck",
                           "asleep", "woken"}]
    /\ snap \in [Waiters -> SUBSET Ids]
    /\ done \in [Waiters -> BOOLEAN]
    /\ helper \in [Waiters -> BOOLEAN]
    /\ res \in [Waiters -> {"none", "ok", "timeout", "errSpill"}]
    /\ quiet \in BOOLEAN

\* A caller sleeps only while nothing in the inbox matches its filter, and a
\* sleeper whose context is done has a broadcast coming: no wake-up is lost
\* between the test and cond.Wait.  A caller that asks for read mail alone
\* may sleep on when mail is marked read, which does not broadcast.
SleepersMissNothing ==
    \A w \in Waiters : pc[w] = "asleep" =>
        /\ Matching(w) = {} \/ Filter[w].read = {TRUE}
        /\ done[w] => helper[w]

\* Once the inbox is left alone, every call that has a match or whose context
\* is done returns.
WaitReturns ==
    \A w \in Waiters :
       (quiet /\ (done[w] \/ Matching(w) # {}) /\ pc[w] # "idle") ~> (pc[w] = "idle")
=============================================================================
