------------------------------ MODULE MCServe ------------------------------
(* labmail serve for TLC.  ServeProcess and SmtpServer describe the same   *)
(* process at two grains: the first has its whole life and knows of the    *)
(* SMTP listener whether it accepts, the second is that listener.  Their   *)
(* state is not shared, so a behaviour takes steps of one of them, and     *)
(* part says of which: the process has two SMTP sessions, two management   *)
(* requests and one place in the log queue, the listener three connections *)
(* of which two come from one address and one from none that is known.     *)
EXTENDS ServeProcess, SmtpServer

CONSTANTS s1, s2, c1, c2, c3, lan

Small == [sessions |-> 2, perIP |-> 1, data |-> 1, bytes |-> 2, message |-> 2]
Large == [sessions |-> 2, perIP |-> 2, data |-> 2, bytes |-> 3, message |-> 2]

TwoLimits == {Small, Large}

Addresses == [c \in Conns |-> IF c = c3 THEN NoIP ELSE lan]

VARIABLE part

ServeInit ==
    /\ Init /\ ServerInit
    /\ \/ part = "process" /\ limits = Small
       \/ part = "listener" /\ ~managed

ProcessStep == part = "process" /\ Next /\ UNCHANGED <<serverVars, part>>
ListenerStep == part = "listener" /\ ServerNext /\ UNCHANGED <<vars, part>>

ServeVars == <<vars, serverVars, part>>

\* The fairness of FairSpec and of FairServerSpec, each for its part.
ServeSpec ==
    /\ ServeInit /\ [][ProcessStep \/ ListenerStep]_ServeVars
    /\ WF_vars(part = "process" /\ Main)
    /\ WF_vars(part = "process" /\ DeadlinePasses)
    /\ WF_serverVars(part = "listener" /\ Acceptor)
    /\ WF_serverVars(part = "listener" /\ Shutdown)
    /\ \A c \in Conns : /\ WF_serverVars(part = "listener" /\ Work(c))
                        /\ WF_serverVars(part = "listener" /\ Forced(c))
=============================================================================
