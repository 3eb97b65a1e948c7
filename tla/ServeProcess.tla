---------------------------- MODULE ServeProcess ----------------------------
(***************************************************************************)
(* labmail serve: the process from its first step to its exit.             *)
(*                                                                         *)
(* The main goroutine opens the parts one after the other, any of which    *)
(* may fail, waits for a signal, and takes them down again in another      *)
(* order.  Beside it run the SMTP sessions, the management server's own    *)
(* goroutine and its requests, and the goroutine that writes log records   *)
(* to a sink that may stall.  SmtpServer and ManagementGate model the two  *)
(* listeners themselves; here a session matters for the spill files it     *)
(* writes and a request for the inbox it reads.                            *)
(***************************************************************************)
EXTENDS Integers, FiniteSets

CONSTANTS
    Sessions,      \* bound: SMTP sessions at a time
    Clients,       \* bound: management requests at a time
    QueueSize      \* of the log queue

ASSUME ServeAssumption == QueueSize \in Nat \ {0}

VARIABLES
    pc,        \* the next step of the main goroutine
    managed,   \* FALSE: --management-listen is off
    signalled, \* SIGTERM or SIGINT has come
    deadline,  \* of the shutdown context: "none" for context.Background
    smtp,      \* the SMTP listener
    sess,      \* the sessions, with the epoch Insert was given
    mgmt,      \* the management listener
    reqs,      \* management requests being handled
    health,    \* SetHealth was called
    metrics,   \* the scrape listener
    epoch,     \* of the inbox, 0 before Boot
    temps,     \* sessions that have written spill files not yet committed
    mail,      \* the inbox holds mail with spill files
    pid,       \* the pid file is there
    logger,    \* the goroutine Logger.Serve
    queue,     \* records in the log queue
    sink       \* the goroutine is inside write

inbox == <<epoch, temps, mail>>
logs == <<logger, queue, sink>>
mgmtVars == <<mgmt, reqs>>
parts == <<smtp, sess, mgmtVars, health, metrics, inbox, pid, logs>>
vars == <<pc, managed, signalled, deadline, parts>>

Init ==
    /\ pc = "load"
    /\ managed \in BOOLEAN
    /\ signalled = FALSE
    /\ deadline = "none"
    /\ smtp = "none"
    /\ sess = [s \in Sessions |-> [at |-> "none", epoch |-> 0]]
    /\ mgmt = "none"
    /\ reqs = {}
    /\ health = FALSE
    /\ metrics = "none"
    /\ epoch = 0 /\ temps = {} /\ mail = FALSE
    /\ pid = FALSE
    /\ logger = "off" /\ queue = 0 /\ sink = FALSE

Running == pc # "exited"

-----------------------------------------------------------------------------
(* The log queue.                                                          *)

Bug_TrySend == queue < QueueSize /\ queue' = queue + 1

\* Logger.Log: TrySend never waits, a full queue drops.
TrySend == queue' = IF queue < QueueSize THEN queue + 1 ELSE queue

\* Logger.Serve: take a record, hand it to the sink.
TakeRecord ==
    /\ Running /\ logger \in {"serving", "stopped", "draining"}
    /\ ~sink /\ queue > 0
    /\ queue' = queue - 1
    /\ sink' = TRUE
    /\ UNCHANGED <<pc, managed, signalled, deadline, smtp, sess, mgmtVars, health, metrics,
                   inbox, pid, logger>>

\* The sink takes as long as it likes.
RecordWritten ==
    /\ Running /\ sink
    /\ sink' = FALSE
    /\ UNCHANGED <<pc, managed, signalled, deadline, smtp, sess, mgmtVars, health, metrics,
                   inbox, pid, logger, queue>>

\* Serve's select sees the cancelled context, and Drain ends on empty.
LoggerEnds ==
    /\ Running /\ ~sink
    /\ \/ logger = "stopped" /\ logger' = "draining"
       \/ logger = "draining" /\ queue = 0 /\ logger' = "ended"
    /\ UNCHANGED <<pc, managed, signalled, deadline, smtp, sess, mgmtVars, health, metrics,
                   inbox, pid, queue, sink>>

-----------------------------------------------------------------------------
(* SMTP sessions.  Shutdown closes their connections, so that they leave   *)
(* once they have worked off what they had already read.                   *)

Session(s, at) == sess' = [sess EXCEPT ![s].at = at]

Connect(s) ==
    /\ Running /\ smtp = "accepting"
    /\ sess[s].at = "none"
    /\ Session(s, "open")
    /\ TrySend
    /\ UNCHANGED <<pc, managed, signalled, deadline, smtp, mgmtVars, health, metrics, inbox,
                   pid, logger, sink>>

\* DATA captures the epoch; Insert writes its spill files before it locks.
InsertBegins(s) ==
    /\ Running /\ sess[s].at = "open"
    /\ sess' = [sess EXCEPT ![s] = [at |-> "storing", epoch |-> epoch]]
    /\ temps' = temps \cup {s}
    /\ UNCHANGED <<pc, managed, signalled, deadline, smtp, mgmtVars, health, metrics, epoch,
                   mail, pid, logs>>

\* The locked section: committed, or refused as stale and unlinked.
InsertEnds(s) ==
    /\ Running /\ sess[s].at = "storing"
    /\ Session(s, "open")
    /\ temps' = temps \ {s}
    /\ mail' = (mail \/ (s \in temps /\ sess[s].epoch = epoch))
    /\ TrySend
    /\ UNCHANGED <<pc, managed, signalled, deadline, smtp, mgmtVars, health, metrics, epoch,
                   pid, logger, sink>>

Leave(s) ==
    /\ Running /\ sess[s].at = "open"
    /\ sess' = [sess EXCEPT ![s] = [at |-> "none", epoch |-> 0]]
    /\ UNCHANGED <<pc, managed, signalled, deadline, smtp, mgmtVars, health, metrics, inbox,
                   pid, logs>>

-----------------------------------------------------------------------------
(* Management.                                                             *)

\* The goroutine of Serve, which startManagement does not wait for.
ServeMgmt ==
    /\ Running /\ mgmt = "attached"
    /\ mgmt' = "serving"
    /\ UNCHANGED <<pc, managed, signalled, deadline, smtp, sess, reqs, health, metrics, inbox,
                   pid, logs>>

Ask(c) ==
    /\ Running /\ mgmt = "serving" /\ c \notin reqs
    /\ reqs' = reqs \cup {c}
    /\ UNCHANGED <<pc, managed, signalled, deadline, smtp, sess, mgmt, health, metrics, inbox,
                   pid, logs>>

\* An answer, or the end of a stream, which only its client or a revoked
\* credential brings about.
Answered(c) ==
    /\ Running /\ c \in reqs
    /\ reqs' = reqs \ {c}
    /\ TrySend
    /\ UNCHANGED <<pc, managed, signalled, deadline, smtp, sess, mgmt, health, metrics, inbox,
                   pid, logger, sink>>

Bug_HealthFacts == [smtp |-> smtp # "none", store |-> epoch > 0,
                    mgmt |-> mgmt # "none", off |-> ~managed]

\* HealthFacts: the listeners are taken to be up until SetHealth.
HealthFacts ==
    IF health
    THEN [smtp |-> smtp = "accepting", store |-> epoch > 0,
          mgmt |-> mgmt # "none", off |-> ~managed]
    ELSE [smtp |-> epoch > 0, store |-> epoch > 0, mgmt |-> epoch > 0, off |-> FALSE]

\* Evaluate, as /v1/health/ready, /healthz and /v1/status answer it.
Ready == LET in == HealthFacts
         IN  in.smtp /\ in.store /\ (in.mgmt \/ in.off)

-----------------------------------------------------------------------------
(* Starting: serveFromConfig and startManagement.                          *)

Signal ==
    /\ Running /\ ~signalled
    /\ signalled' = TRUE
    /\ UNCHANGED <<pc, managed, deadline, parts>>

\* The document loads and the logger starts.
LoadConfig ==
    /\ pc = "load"
    /\ \/ pc' = "boot" /\ logger' = "serving"
       \/ pc' = "exited" /\ UNCHANGED logger
    /\ UNCHANGED <<managed, signalled, deadline, smtp, sess, mgmtVars, health, metrics, inbox,
                   pid, queue, sink>>

\* app.Boot compiles and opens the inbox, or stopLogs and exit.
Boot ==
    /\ pc = "boot"
    /\ \/ pc' = "bind" /\ epoch' = 1 /\ UNCHANGED logger
       \/ pc' = "exited" /\ logger' = "stopped" /\ UNCHANGED epoch
    /\ UNCHANGED <<managed, signalled, deadline, smtp, sess, mgmtVars, health, metrics, temps,
                   mail, pid, queue, sink>>

\* server.New and Start.
BindSmtp ==
    /\ pc = "bind"
    /\ \/ /\ smtp' = "accepting"
          /\ pc' = IF managed THEN "listen" ELSE "health"
          /\ UNCHANGED logger
       \/ /\ pc' = "abortclose" /\ logger' = "stopped"
          /\ UNCHANGED smtp
    /\ UNCHANGED <<managed, signalled, deadline, sess, mgmtVars, health, metrics, inbox, pid,
                   queue, sink>>

\* net.Listen for management.
ListenMgmt ==
    /\ pc = "listen"
    /\ \/ mgmt' = "listening" /\ pc' = "build"
       \/ UNCHANGED mgmt /\ pc' = "abort"
    /\ UNCHANGED <<managed, signalled, deadline, smtp, sess, reqs, health, metrics, inbox, pid,
                   logs>>

\* The certificate, auth.FromSpec, mcp.New, the compat mounts and rest.New:
\* every failure closes the listener.
BuildMgmt ==
    /\ pc = "build"
    /\ \/ mgmt' = "attached" /\ pc' = "health"
       \/ mgmt' = "none" /\ pc' = "abort"
    /\ UNCHANGED <<managed, signalled, deadline, smtp, sess, reqs, health, metrics, inbox, pid,
                   logs>>

SetHealth ==
    /\ pc = "health"
    /\ health' = TRUE
    /\ pc' = "scrape"
    /\ UNCHANGED <<managed, signalled, deadline, smtp, sess, mgmtVars, metrics, inbox, pid, logs>>

\* observability.Listen: bound, or not configured, or rt.shutdown.
ListenMetrics ==
    /\ pc = "scrape"
    /\ \/ metrics' \in {"none", "serving"} /\ pc' = "pid"
       \/ UNCHANGED metrics /\ pc' = "stop"
    /\ UNCHANGED <<managed, signalled, deadline, smtp, sess, mgmtVars, health, inbox, pid, logs>>

WritePIDFile ==
    /\ pc = "pid"
    /\ \/ pid' = TRUE /\ pc' = "running"
       \/ UNCHANGED pid /\ pc' = "stop"
    /\ UNCHANGED <<managed, signalled, deadline, smtp, sess, mgmtVars, health, metrics, inbox,
                   logs>>

\* startManagement failed: stopLogs, and srv.Shutdown without a deadline.
Abort ==
    /\ pc = "abort"
    /\ pc' = "abortwait"
    /\ logger' = "stopped"
    /\ smtp' = "stopped"
    /\ UNCHANGED <<managed, signalled, deadline, sess, mgmtVars, health, metrics, inbox, pid,
                   queue, sink>>

NoSessions == \A s \in Sessions : sess[s].at = "none"

AbortWait ==
    /\ pc = "abortwait" /\ NoSessions
    /\ pc' = "abortclose"
    /\ UNCHANGED <<managed, signalled, deadline, parts>>

-----------------------------------------------------------------------------
(* Stopping: serveCmd after the signal, and serveRuntime.shutdown.         *)

SignalSeen ==
    /\ pc = "running" /\ signalled
    /\ pc' = "stop"
    /\ deadline' = "running"
    /\ UNCHANGED <<managed, signalled, parts>>

DeadlinePasses ==
    /\ Running /\ deadline = "running"
    /\ deadline' = "passed"
    /\ UNCHANGED <<pc, managed, signalled, parts>>

StopSmtp ==
    /\ pc = "stop"
    /\ smtp' = "stopped"
    /\ pc' = "drain"
    /\ UNCHANGED <<managed, signalled, deadline, sess, mgmtVars, health, metrics, inbox, pid,
                   logs>>

Bug_SmtpDrained == TRUE

\* smtp.Shutdown returns.
SmtpDrained == NoSessions \/ deadline = "passed"

DrainSmtp ==
    /\ pc = "drain" /\ SmtpDrained
    /\ pc' = "http"
    /\ UNCHANGED <<managed, signalled, deadline, parts>>

\* rest.Shutdown closes the listener, whether or not Serve has begun.
StopHttp ==
    /\ pc = "http"
    /\ mgmt' = IF mgmt = "none" THEN mgmt ELSE "closed"
    /\ pc' = "httpdrain"
    /\ UNCHANGED <<managed, signalled, deadline, smtp, sess, reqs, health, metrics, inbox, pid,
                   logs>>

HttpDrained == reqs = {} \/ deadline = "passed"

DrainHttp ==
    /\ pc = "httpdrain" /\ HttpDrained
    /\ pc' = "metrics"
    /\ UNCHANGED <<managed, signalled, deadline, parts>>

StopMetrics ==
    /\ pc = "metrics"
    /\ metrics' = IF metrics = "none" THEN metrics ELSE "closed"
    /\ pc' = "close"
    /\ UNCHANGED <<managed, signalled, deadline, smtp, sess, mgmtVars, health, inbox, pid, logs>>

\* svc.Close: Wipe raises the epoch, unlinks every spill file and logs.
Wiped == epoch' = epoch + 1 /\ temps' = {} /\ mail' = FALSE /\ TrySend

CloseStore ==
    /\ pc \in {"close", "abortclose"}
    /\ Wiped
    /\ pc' = IF pc = "close" THEN "logs" ELSE "exited"
    /\ UNCHANGED <<managed, signalled, deadline, smtp, sess, mgmtVars, health, metrics, pid,
                   logger, sink>>

\* stopLogs cancels the logger's context and does not wait for its drain.
StopLogs ==
    /\ pc = "logs"
    /\ logger' = "stopped"
    /\ pc' = "unpid"
    /\ UNCHANGED <<managed, signalled, deadline, smtp, sess, mgmtVars, health, metrics, inbox,
                   pid, queue, sink>>

Bug_RemovePID ==
    /\ pc = "unpid"
    /\ pc' = "exited"
    /\ UNCHANGED <<managed, signalled, deadline, parts>>

RemovePID ==
    /\ pc = "unpid"
    /\ pid' = FALSE
    /\ pc' = "exited"
    /\ UNCHANGED <<managed, signalled, deadline, smtp, sess, mgmtVars, health, metrics, inbox,
                   logs>>

-----------------------------------------------------------------------------
Main ==
    \/ LoadConfig \/ Boot \/ BindSmtp \/ ListenMgmt \/ BuildMgmt \/ SetHealth
    \/ ListenMetrics \/ WritePIDFile \/ Abort \/ AbortWait
    \/ SignalSeen \/ StopSmtp \/ DrainSmtp \/ StopHttp \/ DrainHttp \/ StopMetrics
    \/ CloseStore \/ StopLogs \/ RemovePID

Next ==
    \/ Main \/ Signal \/ DeadlinePasses
    \/ TakeRecord \/ RecordWritten \/ LoggerEnds
    \/ \E s \in Sessions : Connect(s) \/ InsertBegins(s) \/ InsertEnds(s) \/ Leave(s)
    \/ ServeMgmt \/ \E c \in Clients : Ask(c) \/ Answered(c)

Spec == Init /\ [][Next]_vars

\* The main goroutine runs and the timer fires.  Nothing is asked of the
\* sessions, the requests or the sink.
FairSpec == Spec /\ WF_vars(Main) /\ WF_vars(DeadlinePasses)

-----------------------------------------------------------------------------
(* Properties.                                                             *)

\* A probe that a client can reach and that answers ready means that SMTP
\* admits connections: while the process starts, when the facts are still
\* assumed, and from the first moment of a shutdown.
ReadyMeansAccepting ==
    mgmt \in {"attached", "serving", "closed"} /\ Running /\ Ready => smtp = "accepting"

\* However the process ends, after a signal or after any step of its start
\* has failed, it leaves no listener, no pid file and, unless a session
\* outlived the shutdown deadline and so the wipe, no spill file behind.
ExitLeavesNothing ==
    pc = "exited" =>
        /\ smtp # "accepting"
        /\ mgmt \in {"none", "closed"} /\ metrics \in {"none", "closed"}
        /\ ~pid
        /\ (temps = {} /\ ~mail) \/ deadline = "passed"

\* The inbox is wiped when nobody uses it any more: no session that was told
\* its mail is stored and no request that is reading it, unless they outlast
\* the deadline.
WipeComesLast ==
    [][epoch > 0 /\ epoch' # epoch =>
          deadline = "passed" \/ (NoSessions /\ reqs = {})]_vars

\* After a signal the process exits, although sessions, streams and the log
\* sink may all hang.
SignalEnds == (pc = "running" /\ signalled) ~> pc = "exited"
=============================================================================
