----------------------------- MODULE EventQueue -----------------------------
(***************************************************************************)
(* What the subscribers of inbox events are promised.  Each has a queue    *)
(* that may drop an event when it would enter, and delivers the others     *)
(* once, in the order of their store generation.  After its subscription   *)
(* is cancelled the youngest events on their way may be lost too.  One     *)
(* event enters several queues in one step.                                *)
(***************************************************************************)
EXTENDS Integers, Sequences, SequencesExt

CONSTANTS Subscribers,
          Capacity       \* events that can be on their way to one subscriber

VARIABLES queue,         \* generations on their way, oldest first
          got,           \* generation of the last event delivered
          cancelled

vars == <<queue, got, cancelled>>

Init == /\ queue = [s \in Subscribers |-> <<>>]
        /\ got = [s \in Subscribers |-> 0]
        /\ cancelled = [s \in Subscribers |-> FALSE]

\* An event enters behind older ones.
Enter(s) == /\ Len(queue[s]) < Capacity
            /\ Len(queue'[s]) = Len(queue[s]) + 1
            /\ IsPrefix(queue[s], queue'[s])
            /\ \A j \in 1..Len(queue[s]) : queue[s][j] < Last(queue'[s])
            /\ got[s] < Last(queue'[s])
            /\ UNCHANGED <<got[s], cancelled[s]>>

Deliver(s) == /\ queue[s] # <<>>
              /\ got'[s] = Head(queue[s])
              /\ queue'[s] = Tail(queue[s])
              /\ UNCHANGED cancelled[s]

Cancel(s) == /\ ~cancelled[s]
             /\ cancelled'[s]
             /\ UNCHANGED <<queue[s], got[s]>>

Lose(s) == /\ cancelled[s]
           /\ IsStrictPrefix(queue'[s], queue[s])
           /\ UNCHANGED <<got[s], cancelled[s]>>

Stay(s) == UNCHANGED <<queue[s], got[s], cancelled[s]>>

Next == \A s \in Subscribers :
           Enter(s) \/ Deliver(s) \/ Cancel(s) \/ Lose(s) \/ Stay(s)

Spec == Init /\ [][Next]_vars
=============================================================================
