----------------------------- MODULE SmtpServer -----------------------------
(***************************************************************************)
(* The SMTP listener: Server.Start, accept, serveConn and Shutdown of      *)
(* internal/smtp/server/server.go, and the admission gate of admit.go.     *)
(*                                                                         *)
(* A session's commands are in SmtpSession; here a session runs, may hold  *)
(* one DATA reservation at a time, and ends.  Each critical section of     *)
(* Server.mu or gate.mu is one action, and what a goroutine does between   *)
(* two of them (the read of the snapshot) is an action of its own.  Log    *)
(* records and metrics, the active-sessions gauge included, are left out.  *)
(***************************************************************************)
EXTENDS Integers, FiniteSets

CONSTANTS
    Conns,      \* connections that arrive
    IPs,        \* client addresses
    NoIP,       \* an address that remoteIP cannot parse
    None,       \* no connection, no limits
    IpOf,       \* address of each connection
    Admissions, \* the admission limits an apply can install
    Declared    \* sizes a MAIL can declare; 0 stands for no SIZE parameter

\* smtp.admission, with smtp.maxMessageBytes.
Admission == [sessions : Nat \ {0}, perIP : Nat \ {0}, data : Nat \ {0},
              bytes : Nat \ {0}, message : Nat \ {0}]

ASSUME ServerAssumption ==
    /\ IsFiniteSet(Conns)
    /\ NoIP \notin IPs /\ None \notin Conns \cup Admissions
    /\ IpOf \in [Conns -> IPs \cup {NoIP}]
    /\ Admissions \subseteq Admission
    /\ Declared \subseteq Nat

VARIABLES
    limits,     \* the live snapshot's admission limits
    acceptor,   \* the accept goroutine: none, accept, got, done
    got,        \* the connection the acceptor holds
    listening,  \* the listener is open
    conns,      \* Server.conns
    stopped,    \* Server.stopped
    wg,         \* Server.wg
    at,         \* where each connection's goroutine is
    read,       \* limits that serveConn read before acquire
    closed,     \* connections that this server has closed
    sessions, perIP, inflight, reserved,    \* the gate
    reserve,    \* bytes reserved by each session's DATA
    room,       \* maxMessageBytes that each DATA captured
    buffered,   \* bytes of each body in memory
    stopping,   \* Shutdown's progress
    toClose     \* connections that Shutdown still has to close

server == <<acceptor, got, listening, conns, stopped, wg>>
gate == <<sessions, perIP, inflight, reserved>>
body == <<reserve, room, buffered>>
shutdown == <<stopping, toClose>>
serverVars == <<limits, server, at, read, closed, gate, body, shutdown>>

ServerInit ==
    /\ limits \in Admissions
    /\ acceptor = "none" /\ got = None
    /\ listening = FALSE /\ stopped = FALSE
    /\ conns = {} /\ wg = 0
    /\ at = [c \in Conns |-> "away"]
    /\ read = [c \in Conns |-> None]
    /\ closed = {}
    /\ sessions = 0 /\ perIP = [a \in IPs |-> 0]
    /\ inflight = 0 /\ reserved = 0
    /\ reserve = [c \in Conns |-> 0]
    /\ room = [c \in Conns |-> 0]
    /\ buffered = [c \in Conns |-> 0]
    /\ stopping = "no" /\ toClose = {}

-----------------------------------------------------------------------------
(* Start and the accept loop.                                              *)

Start ==
    /\ acceptor = "none"
    /\ ~stopped
    /\ listening' = TRUE
    /\ acceptor' = "accept"
    /\ wg' = wg + 1
    /\ UNCHANGED <<limits, got, conns, stopped, at, read, closed, gate, body,
                   shutdown>>

\* ln.Accept returns a connection.
AcceptConn(c) ==
    /\ acceptor = "accept"
    /\ listening
    /\ at[c] = "away"
    /\ at' = [at EXCEPT ![c] = "accepted"]
    /\ acceptor' = "got"
    /\ got' = c
    /\ UNCHANGED <<limits, listening, conns, stopped, wg, read, closed, gate, body,
                   shutdown>>

Bug_Register ==
    /\ acceptor = "got"
    /\ acceptor' = "accept"
    /\ got' = None
    /\ conns' = conns \cup {got}
    /\ wg' = wg + 1
    /\ at' = [at EXCEPT ![got] = "serve"]
    /\ UNCHANGED <<limits, listening, stopped, read, closed, gate, body, shutdown>>

\* Under Server.mu: registered and counted, unless Shutdown has begun.
Register ==
    /\ acceptor = "got"
    /\ ~stopped
    /\ acceptor' = "accept"
    /\ got' = None
    /\ conns' = conns \cup {got}
    /\ wg' = wg + 1
    /\ at' = [at EXCEPT ![got] = "serve"]
    /\ UNCHANGED <<limits, listening, stopped, read, closed, gate, body, shutdown>>

\* A connection accepted too late: it is closed and the accept loop returns.
TurnAway ==
    /\ acceptor = "got"
    /\ stopped
    /\ acceptor' = "done"
    /\ got' = None
    /\ wg' = wg - 1
    /\ closed' = closed \cup {got}
    /\ at' = [at EXCEPT ![got] = "gone"]
    /\ UNCHANGED <<limits, listening, conns, stopped, read, gate, body, shutdown>>

\* Accept fails and the context is done or the listener closed.  Any other
\* error is retried after a pause.
AcceptStops ==
    /\ acceptor = "accept"
    /\ stopped
    /\ acceptor' = "done"
    /\ wg' = wg - 1
    /\ UNCHANGED <<limits, got, listening, conns, stopped, at, read, closed, gate,
                   body, shutdown>>

-----------------------------------------------------------------------------
(* serveConn.                                                              *)

\* specNow.
ReadLimits(c) ==
    /\ at[c] = "serve"
    /\ read' = [read EXCEPT ![c] = limits]
    /\ at' = [at EXCEPT ![c] = "admit"]
    /\ UNCHANGED <<limits, server, closed, gate, body, shutdown>>

Valid(c) == IpOf[c] # NoIP

\* The tests of gate.acquire.
Admits(c) == /\ sessions < read[c].sessions
             /\ Valid(c) => perIP[IpOf[c]] < read[c].perIP

Acquire(c) ==
    /\ at[c] = "admit"
    /\ Admits(c)
    /\ sessions' = sessions + 1
    /\ perIP' = IF Valid(c) THEN [perIP EXCEPT ![IpOf[c]] = @ + 1] ELSE perIP
    /\ at' = [at EXCEPT ![c] = "session"]
    /\ read' = [read EXCEPT ![c] = None]
    /\ UNCHANGED <<limits, server, closed, inflight, reserved, body, shutdown>>

\* 421, without a session.
Refuse(c) ==
    /\ at[c] = "admit"
    /\ ~Admits(c)
    /\ at' = [at EXCEPT ![c] = "close"]
    /\ read' = [read EXCEPT ![c] = None]
    /\ UNCHANGED <<limits, server, closed, gate, body, shutdown>>

\* The loop of session.run: arming the deadline of a closed connection fails,
\* so only a command that was read before can still be carried out.
ReadCommand(c) ==
    /\ at[c] = "session"
    /\ c \notin closed
    /\ at' = [at EXCEPT ![c] = "command"]
    /\ UNCHANGED <<limits, server, read, closed, gate, body, shutdown>>

\* Any command but an admitted DATA.
OtherCommand(c) ==
    /\ at[c] = "command"
    /\ at' = [at EXCEPT ![c] = "session"]
    /\ UNCHANGED <<limits, server, read, closed, gate, body, shutdown>>

\* reserveBytes: the declared size, at most the message limit.
ReserveBytes(declared, max) == IF declared \in 1..max THEN declared ELSE max

\* The tests of gate.reserveData.
Reserves(n) == /\ inflight < limits.data
               /\ reserved + n <= limits.bytes

\* cmdData takes the reservation; a refusal changes nothing.
DataBegin(c, declared) ==
    LET n == ReserveBytes(declared, limits.message)
    IN  /\ at[c] = "command"
        /\ Reserves(n)
        /\ inflight' = inflight + 1
        /\ reserved' = reserved + n
        /\ reserve' = [reserve EXCEPT ![c] = n]
        /\ room' = [room EXCEPT ![c] = limits.message]
        /\ at' = [at EXCEPT ![c] = "data"]
        /\ UNCHANGED <<limits, server, read, closed, sessions, perIP, buffered,
                       shutdown>>

\* readData keeps a line while the message limit allows.
DataLine(c) ==
    /\ at[c] = "data"
    /\ buffered[c] < room[c]
    /\ buffered' = [buffered EXCEPT ![c] = @ + 1]
    /\ UNCHANGED <<limits, server, at, read, closed, gate, reserve, room, shutdown>>

Floor0(n) == IF n > 0 THEN n ELSE 0

Bug_DataEnd(c) ==
    /\ at[c] = "data"
    /\ inflight' = Floor0(inflight - 1)
    /\ reserved' = Floor0(reserved - buffered[c])
    /\ reserve' = [reserve EXCEPT ![c] = 0]
    /\ room' = [room EXCEPT ![c] = 0]
    /\ buffered' = [buffered EXCEPT ![c] = 0]
    /\ at' = [at EXCEPT ![c] = "session"]
    /\ UNCHANGED <<limits, server, read, closed, sessions, perIP, shutdown>>

\* cmdData returns, whatever happened to the body: gate.releaseData.
DataEnd(c) ==
    /\ at[c] = "data"
    /\ inflight' = Floor0(inflight - 1)
    /\ reserved' = Floor0(reserved - reserve[c])
    /\ reserve' = [reserve EXCEPT ![c] = 0]
    /\ room' = [room EXCEPT ![c] = 0]
    /\ buffered' = [buffered EXCEPT ![c] = 0]
    /\ at' = [at EXCEPT ![c] = "session"]
    /\ UNCHANGED <<limits, server, read, closed, sessions, perIP, shutdown>>

\* session.run has returned: gate.release.
Release(c) ==
    /\ at[c] = "session"
    /\ sessions' = Floor0(sessions - 1)
    /\ perIP' = IF Valid(c) THEN [perIP EXCEPT ![IpOf[c]] = Floor0(@ - 1)] ELSE perIP
    /\ at' = [at EXCEPT ![c] = "close"]
    /\ UNCHANGED <<limits, server, read, closed, inflight, reserved, body, shutdown>>

\* The outer defers: close and forget the connection, then wg.Done.
Close(c) ==
    /\ at[c] = "close"
    /\ closed' = closed \cup {c}
    /\ conns' = conns \ {c}
    /\ at' = [at EXCEPT ![c] = "done"]
    /\ UNCHANGED <<limits, acceptor, got, listening, stopped, wg, read, gate, body,
                   shutdown>>

Done(c) ==
    /\ at[c] = "done"
    /\ wg' = wg - 1
    /\ at' = [at EXCEPT ![c] = "gone"]
    /\ UNCHANGED <<limits, acceptor, got, listening, conns, stopped, read, closed,
                   gate, body, shutdown>>

-----------------------------------------------------------------------------
(* Shutdown, and live applies.                                             *)

\* Under Server.mu: the flag and the list of connections.
ShutdownBegin ==
    /\ ~stopped
    /\ stopped' = TRUE
    /\ stopping' = "listener"
    /\ toClose' = conns
    /\ UNCHANGED <<limits, acceptor, got, listening, conns, wg, at, read, closed, gate,
                   body>>

CloseListener ==
    /\ stopping = "listener"
    /\ listening' = FALSE
    /\ stopping' = "conns"
    /\ UNCHANGED <<limits, acceptor, got, conns, stopped, wg, at, read, closed, gate,
                   body, toClose>>

CloseConn(c) ==
    /\ stopping = "conns"
    /\ c \in toClose
    /\ toClose' = toClose \ {c}
    /\ closed' = closed \cup {c}
    /\ UNCHANGED <<limits, server, at, read, gate, body, stopping>>

\* wg.Wait returns.
Drained ==
    /\ stopping = "conns"
    /\ toClose = {}
    /\ wg = 0
    /\ stopping' = "drained"
    /\ UNCHANGED <<limits, server, at, read, closed, gate, body, toClose>>

\* The context of Shutdown expires first.
GiveUp ==
    /\ stopping = "conns"
    /\ toClose = {}
    /\ stopping' = "gaveUp"
    /\ UNCHANGED <<limits, server, at, read, closed, gate, body, toClose>>

Apply(l) ==
    /\ limits' = l
    /\ UNCHANGED <<server, at, read, closed, gate, body, shutdown>>

-----------------------------------------------------------------------------
\* A goroutine's own steps, and those a closed connection forces.
Work(c) == \/ ReadLimits(c) \/ Acquire(c) \/ Refuse(c) \/ OtherCommand(c)
           \/ Close(c) \/ Done(c)
Forced(c) == c \in closed /\ (DataEnd(c) \/ Release(c))

Acceptor == Register \/ TurnAway \/ AcceptStops
Shutdown == CloseListener \/ Drained \/ \E c \in Conns : CloseConn(c)

ServerNext ==
    \/ Start \/ Acceptor \/ Shutdown \/ ShutdownBegin \/ GiveUp
    \/ \E l \in Admissions : Apply(l)
    \/ \E c \in Conns :
         \/ AcceptConn(c) \/ Work(c) \/ ReadCommand(c) \/ DataLine(c) \/ DataEnd(c) \/ Release(c)
         \/ \E d \in Declared : DataBegin(c, d)

ServerSpec == ServerInit /\ [][ServerNext]_serverVars

\* Goroutines run, a read or write of a closed connection fails, and Shutdown
\* goes on once it has begun.  Clients and operators owe nothing.
FairServerSpec == /\ ServerSpec
                  /\ WF_serverVars(Acceptor)
                  /\ WF_serverVars(Shutdown)
                  /\ \A c \in Conns : WF_serverVars(Work(c)) /\ WF_serverVars(Forced(c))

-----------------------------------------------------------------------------
(* Properties.                                                             *)

\* Type correctness.
ServerTypeOK ==
    /\ limits \in Admissions
    /\ acceptor \in {"none", "accept", "got", "done"}
    /\ got \in Conns \cup {None}
    /\ (acceptor = "got") = (got # None)
    /\ conns \subseteq Conns /\ closed \subseteq Conns /\ toClose \subseteq Conns
    /\ wg \in Nat
    /\ at \in [Conns -> {"away", "accepted", "serve", "admit", "session",
                         "command", "data", "close", "done", "gone"}]
    /\ read \in [Conns -> Admissions \cup {None}]
    /\ sessions \in Nat /\ perIP \in [IPs -> Nat]
    /\ inflight \in Nat /\ reserved \in Nat
    /\ {reserve, room, buffered} \subseteq [Conns -> Nat]
    /\ stopping \in {"no", "listener", "conns", "drained", "gaveUp"}

\* Connections that hold a session of the gate, and that hold a reservation.
Admitted == {c \in Conns : at[c] \in {"session", "command", "data"}}
InData == {c \in Conns : at[c] = "data"}

\* The bytes reserved: as many pairs with c as c has reserved.
ReservedBytes == UNION {{c} \X (1..reserve[c]) : c \in InData}

\* The gate's counters are what the goroutines hold: no path through
\* serveConn or cmdData leaks or returns a slot twice, so the floors at zero
\* in release and releaseData never hide anything.
GateExact ==
    /\ sessions = Cardinality(Admitted)
    /\ \A a \in IPs : perIP[a] = Cardinality({c \in Admitted : IpOf[c] = a})
    /\ inflight = Cardinality(InData)
    /\ reserved = Cardinality(ReservedBytes)

\* Shutdown closes every session: whatever clients do, all goroutines end.
ShutdownDrains == stopped ~> (wg = 0)

=============================================================================
