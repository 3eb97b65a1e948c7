----------------------------- MODULE StoreEvents -----------------------------
(***************************************************************************)
(* Inbox events: Memory.Subscribe and emitLocked, and the pump goroutine   *)
(* of App.Subscribe that feeds the REST event stream and MCP notifications.*)
(*                                                                         *)
(* emitLocked runs with the store's mutex, which it holds across all the   *)
(* events of one operation (the evictions of an Insert, a DeleteAll); the  *)
(* pumps and the consumers run beside it.  An event is its generation.     *)
(***************************************************************************)
EXTENDS Integers, Sequences, FiniteSets

CONSTANTS
    Subscribers,  \* subscriptions, each opened and cancelled at most once
    Buffer,       \* channel capacity (32 for REST, 16 for MCP)
    MaxSize,      \* bound: messages in the inbox
    MaxGen        \* bound: events ever emitted

ASSUME EventsAssumption ==
    /\ Buffer \in Nat \ {0}
    /\ MaxSize \in Nat
    /\ MaxGen \in Nat

VARIABLES
    size,       \* messages in the inbox
    generation, \* store generation
    section,    \* events the holder of the mutex has still to emit
    subs,       \* m.subs
    src,        \* the store's channel of each subscriber
    srcClosed,
    pump,       \* the pump goroutine of each subscriber
    held,       \* the event it has taken and not yet sent
    out,        \* the channel the consumer reads
    done,       \* cancel has closed done
    cancelPc,   \* progress of the cancel function
    got,        \* last generation the consumer read
    from,       \* generation at Subscribe
    dropped     \* an event has been dropped

store == <<size, generation, section>>
channels == <<src, held, out, got>>
ends == <<subs, srcClosed, pump, done, cancelPc>>
ghosts == <<from, dropped>>
vars == <<store, channels, ends, ghosts>>

Init == /\ size = 0 /\ generation = 0 /\ section = 0
        /\ subs = {}
        /\ src = [s \in Subscribers |-> <<>>]
        /\ srcClosed = [s \in Subscribers |-> FALSE]
        /\ pump = [s \in Subscribers |-> "none"]
        /\ held = [s \in Subscribers |-> <<>>]
        /\ out = [s \in Subscribers |-> <<>>]
        /\ done = [s \in Subscribers |-> FALSE]
        /\ cancelPc = [s \in Subscribers |-> "idle"]
        /\ got = [s \in Subscribers |-> 0]
        /\ from = [s \in Subscribers |-> 0]
        /\ dropped = [s \in Subscribers |-> FALSE]

MutexFree == section = 0

-----------------------------------------------------------------------------
(* The store.                                                              *)

\* A locked section that will emit n events starts.
Section(n, newSize) ==
    /\ MutexFree
    /\ n > 0
    /\ generation + n <= MaxGen
    /\ section' = n
    /\ size' = newSize
    /\ UNCHANGED <<generation, channels, ends, ghosts>>

\* Insert evicts k messages and adds one.
Insert(k) == /\ size - k < MaxSize
             /\ Section(k + 1, size - k + 1)

\* Delete removes one message, DeleteAll all of them.
Delete == size > 0 /\ Section(1, size - 1)
DeleteAll == Section(size, 0)

\* Wipe and ResetTo emit one event.
Reset == Section(1, 0)

Full(s) == Len(src[s]) = Buffer

\* generation++ and emitLocked: a subscriber whose channel is full misses it.
Emit ==
    /\ section > 0
    /\ section' = section - 1
    /\ generation' = generation + 1
    /\ src' = [s \in Subscribers |-> IF s \in subs /\ ~Full(s)
                                     THEN Append(src[s], generation + 1)
                                     ELSE src[s]]
    /\ dropped' = [s \in Subscribers |-> dropped[s] \/ (s \in subs /\ Full(s))]
    /\ UNCHANGED <<size, held, out, got, ends, from>>

-----------------------------------------------------------------------------
(* Subscription, pump, consumer, cancel.                                   *)

\* Memory.Subscribe registers the channel, App.Subscribe starts the pump.
Subscribe(s) ==
    /\ pump[s] = "none"
    /\ MutexFree
    /\ subs' = subs \cup {s}
    /\ pump' = [pump EXCEPT ![s] = "select"]
    /\ from' = [from EXCEPT ![s] = generation]
    /\ UNCHANGED <<store, channels, srcClosed, done, cancelPc, dropped>>

PumpTake(s) ==
    /\ pump[s] = "select"
    /\ src[s] # <<>>
    /\ held' = [held EXCEPT ![s] = <<Head(src[s])>>]
    /\ src' = [src EXCEPT ![s] = Tail(@)]
    /\ pump' = [pump EXCEPT ![s] = "send"]
    /\ UNCHANGED <<store, out, got, subs, srcClosed, done, cancelPc, ghosts>>

Bug_PumpSend(s) ==
    /\ pump[s] = "send"
    /\ out' = [out EXCEPT ![s] = IF Len(@) < Buffer THEN @ \o held[s] ELSE @]
    /\ held' = [held EXCEPT ![s] = <<>>]
    /\ pump' = [pump EXCEPT ![s] = "select"]
    /\ UNCHANGED <<store, src, got, subs, srcClosed, done, cancelPc, ghosts>>

PumpSend(s) ==
    /\ pump[s] = "send"
    /\ Len(out[s]) < Buffer
    /\ out' = [out EXCEPT ![s] = @ \o held[s]]
    /\ held' = [held EXCEPT ![s] = <<>>]
    /\ pump' = [pump EXCEPT ![s] = "select"]
    /\ UNCHANGED <<store, src, got, subs, srcClosed, done, cancelPc, ghosts>>

Bug_MayStop(s) == pump[s] = "select" /\ done[s]

\* The pump sees done closed, while it selects or while its send blocks, or
\* src closed and empty.
MayStop(s) == \/ pump[s] \in {"select", "send"} /\ done[s]
              \/ pump[s] = "select" /\ src[s] = <<>> /\ srcClosed[s]

\* It returns and closes out; the event it holds is lost.
PumpStop(s) ==
    /\ MayStop(s)
    /\ pump' = [pump EXCEPT ![s] = "exit"]
    /\ held' = [held EXCEPT ![s] = <<>>]
    /\ UNCHANGED <<store, src, out, got, subs, srcClosed, done, cancelPc, ghosts>>

\* The consumer reads: the event stream until its request ends, MCP's loop
\* until out is closed and empty.
Consume(s) ==
    /\ out[s] # <<>>
    /\ got' = [got EXCEPT ![s] = Head(out[s])]
    /\ out' = [out EXCEPT ![s] = Tail(@)]
    /\ UNCHANGED <<store, src, held, ends, ghosts>>

\* cancel, once: close done,
CancelBegin(s) ==
    /\ pump[s] # "none"
    /\ cancelPc[s] = "idle"
    /\ done' = [done EXCEPT ![s] = TRUE]
    /\ cancelPc' = [cancelPc EXCEPT ![s] = "unregister"]
    /\ UNCHANGED <<store, channels, subs, srcClosed, pump, ghosts>>

Bug_CancelUnregister(s) ==
    /\ cancelPc[s] = "unregister"
    /\ srcClosed' = [srcClosed EXCEPT ![s] = TRUE]
    /\ cancelPc' = [cancelPc EXCEPT ![s] = "close"]
    /\ UNCHANGED <<store, channels, subs, pump, done, ghosts>>

\* take the mutex to leave m.subs,
CancelUnregister(s) ==
    /\ cancelPc[s] = "unregister"
    /\ MutexFree
    /\ subs' = subs \ {s}
    /\ cancelPc' = [cancelPc EXCEPT ![s] = "close"]
    /\ UNCHANGED <<store, channels, srcClosed, pump, done, ghosts>>

\* and close the channel without it.
CancelClose(s) ==
    /\ cancelPc[s] = "close"
    /\ srcClosed' = [srcClosed EXCEPT ![s] = TRUE]
    /\ cancelPc' = [cancelPc EXCEPT ![s] = "ended"]
    /\ UNCHANGED <<store, channels, subs, pump, done, ghosts>>

-----------------------------------------------------------------------------
PumpStep(s) == PumpTake(s) \/ PumpSend(s) \/ PumpStop(s)
CancelStep(s) == CancelUnregister(s) \/ CancelClose(s)

Next ==
    \/ \E k \in 0..size : Insert(k)
    \/ Delete \/ DeleteAll \/ Reset \/ Emit
    \/ \E s \in Subscribers : \/ Subscribe(s) \/ PumpStep(s) \/ Consume(s)
                              \/ CancelBegin(s) \/ CancelStep(s)

Spec == Init /\ [][Next]_vars

\* Goroutines run and get the mutex in the end.  Nobody is obliged to
\* subscribe, to read, to cancel or to change the inbox.
FairSpec ==
    /\ Spec
    /\ WF_vars(Emit)
    /\ \A s \in Subscribers : /\ WF_vars(PumpStep(s))
                              /\ WF_vars(CancelStep(s))

-----------------------------------------------------------------------------
(* Properties.                                                             *)

\* Type correctness.
TypeOK ==
    /\ size \in 0..MaxSize /\ generation \in Nat /\ section \in Nat
    /\ generation + section <= MaxGen
    /\ subs \subseteq Subscribers
    /\ src \in [Subscribers -> Seq(Nat)] /\ srcClosed \in [Subscribers -> BOOLEAN]
    /\ held \in [Subscribers -> Seq(Nat)] /\ out \in [Subscribers -> Seq(Nat)]
    /\ done \in [Subscribers -> BOOLEAN] /\ dropped \in [Subscribers -> BOOLEAN]
    /\ pump \in [Subscribers -> {"none", "select", "send", "exit"}]
    /\ cancelPc \in [Subscribers -> {"idle", "unregister", "close", "ended"}]
    /\ got \in [Subscribers -> Nat] /\ from \in [Subscribers -> Nat]

\* emitLocked never sends on a closed channel, which would panic with the
\* store's mutex held, although cancel closes the channel outside the mutex.
NoSendOnClosed == \A s \in subs : ~srcClosed[s]

\* What is on its way to a consumer.
Pipe(s) == out[s] \o held[s] \o (IF pump[s] = "exit" THEN <<>> ELSE src[s])

\* Unless its channel overflowed, an open subscription has every event since
\* Subscribe, delivered or on its way, without gap or repetition.
NoGap ==
    \A s \in Subscribers :
       s \in subs /\ ~dropped[s] /\ ~done[s] =>
         LET b == IF got[s] > from[s] THEN got[s] ELSE from[s]
         IN  Pipe(s) = [j \in 1..(generation - b) |-> b + j]

\* A pump goroutine ends after cancel, also when nobody reads out.
PumpEnds == \A s \in Subscribers : done[s] ~> (pump[s] = "exit")

Queue == INSTANCE EventQueue WITH Capacity <- 2 * Buffer + 1,
             queue <- [s \in Subscribers |-> Pipe(s)], cancelled <- done

\* The two channels and the pump of a subscriber implement one queue that
\* keeps the order of the store generations.
ImplementsQueue == Queue!Spec
=============================================================================
