------------------------- MODULE ServeProcessProofs -------------------------
(***************************************************************************)
(* Theorems about ServeProcess, for every number of sessions and clients   *)
(* and every size of the log queue.                                        *)
(***************************************************************************)
EXTENDS ServeProcess, TLAPS

\* Where the main goroutine is.
Booting == {"load", "boot", "bind"}
Serving == {"listen", "build", "health", "scrape", "pid", "running"}
Aborting == {"abort", "abortwait", "abortclose"}
SmtpClosed == {"drain", "http", "httpdrain", "metrics", "close", "logs", "unpid", "exited"}
Drained == {"http", "httpdrain", "metrics", "close", "logs", "unpid"}
HttpClosed == {"httpdrain", "metrics", "close", "logs", "unpid", "exited"}
Wiping == {"logs", "unpid", "exited"}

Types ==
    /\ pc \in Booting \cup Serving \cup Aborting \cup {"stop"} \cup SmtpClosed
    /\ smtp \in {"none", "accepting", "stopped"}
    /\ sess \in [Sessions -> [at : {"none", "open", "storing"}, epoch : Nat]]
    /\ mgmt \in {"none", "listening", "attached", "serving", "closed"}
    /\ metrics \in {"none", "serving", "closed"}
    /\ deadline \in {"none", "running", "passed"}
    /\ epoch \in Nat

\* The SMTP listener follows the main goroutine, and with it go the sessions.
SmtpFollows ==
    /\ pc \in Booting => smtp = "none"
    /\ pc \in Serving => smtp = "accepting"
    /\ pc \in SmtpClosed \cup {"abortwait", "abortclose"} => smtp # "accepting"
    /\ smtp = "none" => NoSessions
    /\ pc = "abortclose" => NoSessions
    /\ pc \in Drained => NoSessions \/ deadline = "passed"

\* The management listener follows it, and with it go the requests.
MgmtFollows ==
    /\ pc \in Booting \cup {"listen"} \cup Aborting => mgmt = "none"
    /\ pc = "build" => mgmt = "listening"
    /\ mgmt \in {"attached", "serving", "closed"} /\ ~health => pc = "health"
    /\ pc \in {"health", "scrape", "pid", "running"} \cup {"stop"} => mgmt # "listening"
    /\ pc \in HttpClosed => mgmt \in {"none", "closed"}
    /\ pc \in {"drain", "http"} => mgmt # "listening"
    /\ reqs # {} => mgmt \in {"serving", "closed"}
    /\ pc \in {"metrics", "close"} => reqs = {} \/ deadline = "passed"

\* The scrape listener, the pid file and the spill files.
RestFollows ==
    /\ pc \in Booting \cup Aborting \cup {"listen", "build", "health", "scrape"} =>
          metrics = "none" /\ ~pid
    /\ pc \in {"close", "logs", "unpid", "exited"} => metrics \in {"none", "closed"}
    /\ pc \in {"pid", "exited"} => ~pid
    /\ pc \in {"load", "boot"} => epoch = 0
    /\ pc \in Booting => temps = {} /\ ~mail
    /\ pc \in Wiping => (temps = {} /\ ~mail) \/ deadline = "passed"

\* The inductive invariant.
ServeInv == Types /\ SmtpFollows /\ MgmtFollows /\ RestFollows

-----------------------------------------------------------------------------
(* One step.                                                               *)

LEMMA TypesStep ==
    ASSUME Types, [Next]_vars
    PROVE  Types'
<1> USE DEF Types, Booting, Serving, Aborting, SmtpClosed, Drained, HttpClosed, Wiping
<1>1. CASE LoadConfig
  BY <1>1 DEF LoadConfig, parts, inbox, logs, mgmtVars
<1>2. CASE Boot
  BY <1>2 DEF Boot, parts, inbox, logs, mgmtVars
<1>3. CASE BindSmtp
  BY <1>3 DEF BindSmtp, parts, inbox, logs, mgmtVars
<1>4. CASE ListenMgmt
  BY <1>4 DEF ListenMgmt, parts, inbox, logs, mgmtVars
<1>5. CASE BuildMgmt
  BY <1>5 DEF BuildMgmt, parts, inbox, logs, mgmtVars
<1>6. CASE SetHealth
  BY <1>6 DEF SetHealth, parts, inbox, logs, mgmtVars
<1>7. CASE ListenMetrics
  BY <1>7 DEF ListenMetrics, parts, inbox, logs, mgmtVars
<1>8. CASE WritePIDFile
  BY <1>8 DEF WritePIDFile, parts, inbox, logs, mgmtVars
<1>9. CASE Abort
  BY <1>9 DEF Abort, parts, inbox, logs, mgmtVars
<1>10. CASE AbortWait
  BY <1>10 DEF AbortWait, parts, inbox, logs, mgmtVars
<1>11. CASE SignalSeen
  BY <1>11 DEF SignalSeen, parts, inbox, logs, mgmtVars
<1>12. CASE StopSmtp
  BY <1>12 DEF StopSmtp, parts, inbox, logs, mgmtVars
<1>13. CASE DrainSmtp
  BY <1>13 DEF DrainSmtp, SmtpDrained, parts, inbox, logs, mgmtVars
<1>14. CASE StopHttp
  BY <1>14 DEF StopHttp, parts, inbox, logs, mgmtVars
<1>15. CASE DrainHttp
  BY <1>15 DEF DrainHttp, HttpDrained, parts, inbox, logs, mgmtVars
<1>16. CASE StopMetrics
  BY <1>16 DEF StopMetrics, parts, inbox, logs, mgmtVars
<1>17. CASE CloseStore
  BY <1>17 DEF CloseStore, Wiped, parts, inbox, logs, mgmtVars
<1>18. CASE StopLogs
  BY <1>18 DEF StopLogs, parts, inbox, logs, mgmtVars
<1>19. CASE RemovePID
  BY <1>19 DEF RemovePID, parts, inbox, logs, mgmtVars
<1>20. CASE Signal
  BY <1>20 DEF Signal, parts, inbox, logs, mgmtVars
<1>21. CASE DeadlinePasses
  BY <1>21 DEF DeadlinePasses, parts, inbox, logs, mgmtVars
<1>22. CASE TakeRecord
  BY <1>22 DEF TakeRecord, parts, inbox, logs, mgmtVars
<1>23. CASE RecordWritten
  BY <1>23 DEF RecordWritten, parts, inbox, logs, mgmtVars
<1>24. CASE LoggerEnds
  BY <1>24 DEF LoggerEnds, parts, inbox, logs, mgmtVars
<1>25. CASE \E s \in Sessions : Connect(s)
  BY <1>25 DEF Connect, Session, parts, inbox, logs, mgmtVars
<1>26. CASE \E s \in Sessions : InsertBegins(s)
  BY <1>26 DEF InsertBegins, parts, inbox, logs, mgmtVars
<1>27. CASE \E s \in Sessions : InsertEnds(s)
  BY <1>27 DEF InsertEnds, Session, parts, inbox, logs, mgmtVars
<1>28. CASE \E s \in Sessions : Leave(s)
  BY <1>28 DEF Leave, parts, inbox, logs, mgmtVars
<1>29. CASE ServeMgmt
  BY <1>29 DEF ServeMgmt, parts, inbox, logs, mgmtVars
<1>30. CASE \E c \in Clients : Ask(c)
  BY <1>30 DEF Ask, parts, inbox, logs, mgmtVars
<1>31. CASE \E c \in Clients : Answered(c)
  BY <1>31 DEF Answered, parts, inbox, logs, mgmtVars
<1>32. CASE UNCHANGED vars
  BY <1>32 DEF vars, parts, inbox, logs, mgmtVars
<1>33. QED
  BY <1>1, <1>2, <1>3, <1>4, <1>5, <1>6, <1>7, <1>8, <1>9, <1>10, <1>11, <1>12, <1>13,
     <1>14, <1>15, <1>16, <1>17, <1>18, <1>19, <1>20, <1>21, <1>22, <1>23, <1>24, <1>25,
     <1>26, <1>27, <1>28, <1>29, <1>30, <1>31, <1>32 DEF Next, Main

\* Sessions connect only while the listener accepts, so none is there after a drain.
LEMMA SmtpStep ==
    ASSUME Types, SmtpFollows, [Next]_vars
    PROVE  SmtpFollows'
<1> USE DEF Types, SmtpFollows, NoSessions, Running, Booting, Serving, Aborting, SmtpClosed, Drained, HttpClosed, Wiping
<1>1. CASE LoadConfig
  BY <1>1 DEF LoadConfig, parts, inbox, logs, mgmtVars
<1>2. CASE Boot
  BY <1>2 DEF Boot, parts, inbox, logs, mgmtVars
<1>3. CASE BindSmtp
  BY <1>3 DEF BindSmtp, parts, inbox, logs, mgmtVars
<1>4. CASE ListenMgmt
  BY <1>4 DEF ListenMgmt, parts, inbox, logs, mgmtVars
<1>5. CASE BuildMgmt
  BY <1>5 DEF BuildMgmt, parts, inbox, logs, mgmtVars
<1>6. CASE SetHealth
  BY <1>6 DEF SetHealth, parts, inbox, logs, mgmtVars
<1>7. CASE ListenMetrics
  BY <1>7 DEF ListenMetrics, parts, inbox, logs, mgmtVars
<1>8. CASE WritePIDFile
  BY <1>8 DEF WritePIDFile, parts, inbox, logs, mgmtVars
<1>9. CASE Abort
  BY <1>9 DEF Abort, parts, inbox, logs, mgmtVars
<1>10. CASE AbortWait
  BY <1>10 DEF AbortWait, parts, inbox, logs, mgmtVars
<1>11. CASE SignalSeen
  BY <1>11 DEF SignalSeen, parts, inbox, logs, mgmtVars
<1>12. CASE StopSmtp
  BY <1>12 DEF StopSmtp, parts, inbox, logs, mgmtVars
<1>13. CASE DrainSmtp
  BY <1>13 DEF DrainSmtp, SmtpDrained, parts, inbox, logs, mgmtVars
<1>14. CASE StopHttp
  BY <1>14 DEF StopHttp, parts, inbox, logs, mgmtVars
<1>15. CASE DrainHttp
  BY <1>15 DEF DrainHttp, HttpDrained, parts, inbox, logs, mgmtVars
<1>16. CASE StopMetrics
  BY <1>16 DEF StopMetrics, parts, inbox, logs, mgmtVars
<1>17. CASE CloseStore
  BY <1>17 DEF CloseStore, Wiped, parts, inbox, logs, mgmtVars
<1>18. CASE StopLogs
  BY <1>18 DEF StopLogs, parts, inbox, logs, mgmtVars
<1>19. CASE RemovePID
  BY <1>19 DEF RemovePID, parts, inbox, logs, mgmtVars
<1>20. CASE Signal
  BY <1>20 DEF Signal, parts, inbox, logs, mgmtVars
<1>21. CASE DeadlinePasses
  BY <1>21 DEF DeadlinePasses, parts, inbox, logs, mgmtVars
<1>22. CASE TakeRecord
  BY <1>22 DEF TakeRecord, parts, inbox, logs, mgmtVars
<1>23. CASE RecordWritten
  BY <1>23 DEF RecordWritten, parts, inbox, logs, mgmtVars
<1>24. CASE LoggerEnds
  BY <1>24 DEF LoggerEnds, parts, inbox, logs, mgmtVars
<1>25. CASE \E s \in Sessions : Connect(s)
  BY <1>25 DEF Connect, Session, parts, inbox, logs, mgmtVars
<1>26. CASE \E s \in Sessions : InsertBegins(s)
  BY <1>26 DEF InsertBegins, parts, inbox, logs, mgmtVars
<1>27. CASE \E s \in Sessions : InsertEnds(s)
  BY <1>27 DEF InsertEnds, Session, parts, inbox, logs, mgmtVars
<1>28. CASE \E s \in Sessions : Leave(s)
  BY <1>28 DEF Leave, parts, inbox, logs, mgmtVars
<1>29. CASE ServeMgmt
  BY <1>29 DEF ServeMgmt, parts, inbox, logs, mgmtVars
<1>30. CASE \E c \in Clients : Ask(c)
  BY <1>30 DEF Ask, parts, inbox, logs, mgmtVars
<1>31. CASE \E c \in Clients : Answered(c)
  BY <1>31 DEF Answered, parts, inbox, logs, mgmtVars
<1>32. CASE UNCHANGED vars
  BY <1>32 DEF vars, parts, inbox, logs, mgmtVars
<1>33. QED
  BY <1>1, <1>2, <1>3, <1>4, <1>5, <1>6, <1>7, <1>8, <1>9, <1>10, <1>11, <1>12, <1>13,
     <1>14, <1>15, <1>16, <1>17, <1>18, <1>19, <1>20, <1>21, <1>22, <1>23, <1>24, <1>25,
     <1>26, <1>27, <1>28, <1>29, <1>30, <1>31, <1>32 DEF Next, Main

\* Requests come only while the management server serves.
LEMMA MgmtStep ==
    ASSUME Types, MgmtFollows, [Next]_vars
    PROVE  MgmtFollows'
<1> USE DEF Types, MgmtFollows, Running, Booting, Serving, Aborting, SmtpClosed, Drained, HttpClosed, Wiping
<1>1. CASE LoadConfig
  BY <1>1 DEF LoadConfig, parts, inbox, logs, mgmtVars
<1>2. CASE Boot
  BY <1>2 DEF Boot, parts, inbox, logs, mgmtVars
<1>3. CASE BindSmtp
  BY <1>3 DEF BindSmtp, parts, inbox, logs, mgmtVars
<1>4. CASE ListenMgmt
  BY <1>4 DEF ListenMgmt, parts, inbox, logs, mgmtVars
<1>5. CASE BuildMgmt
  BY <1>5 DEF BuildMgmt, parts, inbox, logs, mgmtVars
<1>6. CASE SetHealth
  BY <1>6 DEF SetHealth, parts, inbox, logs, mgmtVars
<1>7. CASE ListenMetrics
  BY <1>7 DEF ListenMetrics, parts, inbox, logs, mgmtVars
<1>8. CASE WritePIDFile
  BY <1>8 DEF WritePIDFile, parts, inbox, logs, mgmtVars
<1>9. CASE Abort
  BY <1>9 DEF Abort, parts, inbox, logs, mgmtVars
<1>10. CASE AbortWait
  BY <1>10 DEF AbortWait, parts, inbox, logs, mgmtVars
<1>11. CASE SignalSeen
  BY <1>11 DEF SignalSeen, parts, inbox, logs, mgmtVars
<1>12. CASE StopSmtp
  BY <1>12 DEF StopSmtp, parts, inbox, logs, mgmtVars
<1>13. CASE DrainSmtp
  BY <1>13 DEF DrainSmtp, SmtpDrained, parts, inbox, logs, mgmtVars
<1>14. CASE StopHttp
  BY <1>14 DEF StopHttp, parts, inbox, logs, mgmtVars
<1>15. CASE DrainHttp
  BY <1>15 DEF DrainHttp, HttpDrained, parts, inbox, logs, mgmtVars
<1>16. CASE StopMetrics
  BY <1>16 DEF StopMetrics, parts, inbox, logs, mgmtVars
<1>17. CASE CloseStore
  BY <1>17 DEF CloseStore, Wiped, parts, inbox, logs, mgmtVars
<1>18. CASE StopLogs
  BY <1>18 DEF StopLogs, parts, inbox, logs, mgmtVars
<1>19. CASE RemovePID
  BY <1>19 DEF RemovePID, parts, inbox, logs, mgmtVars
<1>20. CASE Signal
  BY <1>20 DEF Signal, parts, inbox, logs, mgmtVars
<1>21. CASE DeadlinePasses
  BY <1>21 DEF DeadlinePasses, parts, inbox, logs, mgmtVars
<1>22. CASE TakeRecord
  BY <1>22 DEF TakeRecord, parts, inbox, logs, mgmtVars
<1>23. CASE RecordWritten
  BY <1>23 DEF RecordWritten, parts, inbox, logs, mgmtVars
<1>24. CASE LoggerEnds
  BY <1>24 DEF LoggerEnds, parts, inbox, logs, mgmtVars
<1>25. CASE \E s \in Sessions : Connect(s)
  BY <1>25 DEF Connect, Session, parts, inbox, logs, mgmtVars
<1>26. CASE \E s \in Sessions : InsertBegins(s)
  BY <1>26 DEF InsertBegins, parts, inbox, logs, mgmtVars
<1>27. CASE \E s \in Sessions : InsertEnds(s)
  BY <1>27 DEF InsertEnds, Session, parts, inbox, logs, mgmtVars
<1>28. CASE \E s \in Sessions : Leave(s)
  BY <1>28 DEF Leave, parts, inbox, logs, mgmtVars
<1>29. CASE ServeMgmt
  BY <1>29 DEF ServeMgmt, parts, inbox, logs, mgmtVars
<1>30. CASE \E c \in Clients : Ask(c)
  BY <1>30 DEF Ask, parts, inbox, logs, mgmtVars
<1>31. CASE \E c \in Clients : Answered(c)
  BY <1>31 DEF Answered, parts, inbox, logs, mgmtVars
<1>32. CASE UNCHANGED vars
  BY <1>32 DEF vars, parts, inbox, logs, mgmtVars
<1>33. QED
  BY <1>1, <1>2, <1>3, <1>4, <1>5, <1>6, <1>7, <1>8, <1>9, <1>10, <1>11, <1>12, <1>13,
     <1>14, <1>15, <1>16, <1>17, <1>18, <1>19, <1>20, <1>21, <1>22, <1>23, <1>24, <1>25,
     <1>26, <1>27, <1>28, <1>29, <1>30, <1>31, <1>32 DEF Next, Main

\* What is opened or written last is closed or removed before the exit.
LEMMA RestStep ==
    ASSUME Types, SmtpFollows, RestFollows, [Next]_vars
    PROVE  RestFollows'
<1> USE DEF Types, SmtpFollows, RestFollows, NoSessions, Running, Booting, Serving, Aborting, SmtpClosed, Drained, HttpClosed, Wiping
<1>1. CASE LoadConfig
  BY <1>1 DEF LoadConfig, parts, inbox, logs, mgmtVars
<1>2. CASE Boot
  BY <1>2 DEF Boot, parts, inbox, logs, mgmtVars
<1>3. CASE BindSmtp
  BY <1>3 DEF BindSmtp, parts, inbox, logs, mgmtVars
<1>4. CASE ListenMgmt
  BY <1>4 DEF ListenMgmt, parts, inbox, logs, mgmtVars
<1>5. CASE BuildMgmt
  BY <1>5 DEF BuildMgmt, parts, inbox, logs, mgmtVars
<1>6. CASE SetHealth
  BY <1>6 DEF SetHealth, parts, inbox, logs, mgmtVars
<1>7. CASE ListenMetrics
  BY <1>7 DEF ListenMetrics, parts, inbox, logs, mgmtVars
<1>8. CASE WritePIDFile
  BY <1>8 DEF WritePIDFile, parts, inbox, logs, mgmtVars
<1>9. CASE Abort
  BY <1>9 DEF Abort, parts, inbox, logs, mgmtVars
<1>10. CASE AbortWait
  BY <1>10 DEF AbortWait, parts, inbox, logs, mgmtVars
<1>11. CASE SignalSeen
  BY <1>11 DEF SignalSeen, parts, inbox, logs, mgmtVars
<1>12. CASE StopSmtp
  BY <1>12 DEF StopSmtp, parts, inbox, logs, mgmtVars
<1>13. CASE DrainSmtp
  BY <1>13 DEF DrainSmtp, SmtpDrained, parts, inbox, logs, mgmtVars
<1>14. CASE StopHttp
  BY <1>14 DEF StopHttp, parts, inbox, logs, mgmtVars
<1>15. CASE DrainHttp
  BY <1>15 DEF DrainHttp, HttpDrained, parts, inbox, logs, mgmtVars
<1>16. CASE StopMetrics
  BY <1>16 DEF StopMetrics, parts, inbox, logs, mgmtVars
<1>17. CASE CloseStore
  BY <1>17 DEF CloseStore, Wiped, parts, inbox, logs, mgmtVars
<1>18. CASE StopLogs
  BY <1>18 DEF StopLogs, parts, inbox, logs, mgmtVars
<1>19. CASE RemovePID
  BY <1>19 DEF RemovePID, parts, inbox, logs, mgmtVars
<1>20. CASE Signal
  BY <1>20 DEF Signal, parts, inbox, logs, mgmtVars
<1>21. CASE DeadlinePasses
  BY <1>21 DEF DeadlinePasses, parts, inbox, logs, mgmtVars
<1>22. CASE TakeRecord
  BY <1>22 DEF TakeRecord, parts, inbox, logs, mgmtVars
<1>23. CASE RecordWritten
  BY <1>23 DEF RecordWritten, parts, inbox, logs, mgmtVars
<1>24. CASE LoggerEnds
  BY <1>24 DEF LoggerEnds, parts, inbox, logs, mgmtVars
<1>25. CASE \E s \in Sessions : Connect(s)
  BY <1>25 DEF Connect, Session, parts, inbox, logs, mgmtVars
<1>26. CASE \E s \in Sessions : InsertBegins(s)
  BY <1>26 DEF InsertBegins, parts, inbox, logs, mgmtVars
<1>27. CASE \E s \in Sessions : InsertEnds(s)
  BY <1>27 DEF InsertEnds, Session, parts, inbox, logs, mgmtVars
<1>28. CASE \E s \in Sessions : Leave(s)
  BY <1>28 DEF Leave, parts, inbox, logs, mgmtVars
<1>29. CASE ServeMgmt
  BY <1>29 DEF ServeMgmt, parts, inbox, logs, mgmtVars
<1>30. CASE \E c \in Clients : Ask(c)
  BY <1>30 DEF Ask, parts, inbox, logs, mgmtVars
<1>31. CASE \E c \in Clients : Answered(c)
  BY <1>31 DEF Answered, parts, inbox, logs, mgmtVars
<1>32. CASE UNCHANGED vars
  BY <1>32 DEF vars, parts, inbox, logs, mgmtVars
<1>33. QED
  BY <1>1, <1>2, <1>3, <1>4, <1>5, <1>6, <1>7, <1>8, <1>9, <1>10, <1>11, <1>12, <1>13,
     <1>14, <1>15, <1>16, <1>17, <1>18, <1>19, <1>20, <1>21, <1>22, <1>23, <1>24, <1>25,
     <1>26, <1>27, <1>28, <1>29, <1>30, <1>31, <1>32 DEF Next, Main

-----------------------------------------------------------------------------
(* The theorems.                                                           *)

LEMMA ServeInitInv == Init => ServeInv
  BY DEF Init, ServeInv, Types, SmtpFollows, MgmtFollows, RestFollows, NoSessions, Booting,
         Serving, Aborting, SmtpClosed, Drained, HttpClosed, Wiping

LEMMA ServeNextInv == ServeInv /\ [Next]_vars => ServeInv'
  BY TypesStep, SmtpStep, MgmtStep, RestStep DEF ServeInv

\* Listeners, sessions, requests and files follow the main goroutine in every reachable state.
THEOREM ServeInvariant == Spec => []ServeInv
  BY ServeInitInv, ServeNextInv, PTL DEF Spec

\* A readiness probe (HealthFacts, Evaluate) never answers ready while SMTP does not accept.
THEOREM ReadyIsAccepting == Spec => []ReadyMeansAccepting
<1>1. ServeInv => ReadyMeansAccepting
  BY DEF ServeInv, Types, SmtpFollows, MgmtFollows, ReadyMeansAccepting, Ready, HealthFacts,
         Serving
<1>2. QED
  BY <1>1, ServeInvariant, PTL

\* Every way out of serveFromConfig and serveRuntime.shutdown leaves nothing behind.
THEOREM NothingLeftBehind == Spec => []ExitLeavesNothing
<1>1. ServeInv => ExitLeavesNothing
  BY DEF ServeInv, Types, SmtpFollows, MgmtFollows, RestFollows, ExitLeavesNothing, SmtpClosed,
         HttpClosed, Wiping
<1>2. QED
  BY <1>1, ServeInvariant, PTL

\* Only app.Boot and svc.Close change the inbox's epoch.
LEMMA EpochSteps ==
    ASSUME [Next]_vars, ~Boot, ~CloseStore
    PROVE  UNCHANGED epoch
<1>1. CASE LoadConfig
  BY <1>1 DEF LoadConfig, parts, inbox, logs, mgmtVars
<1>2. CASE BindSmtp
  BY <1>2 DEF BindSmtp, parts, inbox, logs, mgmtVars
<1>3. CASE ListenMgmt
  BY <1>3 DEF ListenMgmt, parts, inbox, logs, mgmtVars
<1>4. CASE BuildMgmt
  BY <1>4 DEF BuildMgmt, parts, inbox, logs, mgmtVars
<1>5. CASE SetHealth
  BY <1>5 DEF SetHealth, parts, inbox, logs, mgmtVars
<1>6. CASE ListenMetrics
  BY <1>6 DEF ListenMetrics, parts, inbox, logs, mgmtVars
<1>7. CASE WritePIDFile
  BY <1>7 DEF WritePIDFile, parts, inbox, logs, mgmtVars
<1>8. CASE Abort
  BY <1>8 DEF Abort, parts, inbox, logs, mgmtVars
<1>9. CASE AbortWait
  BY <1>9 DEF AbortWait, parts, inbox, logs, mgmtVars
<1>10. CASE SignalSeen
  BY <1>10 DEF SignalSeen, parts, inbox, logs, mgmtVars
<1>11. CASE StopSmtp
  BY <1>11 DEF StopSmtp, parts, inbox, logs, mgmtVars
<1>12. CASE DrainSmtp
  BY <1>12 DEF DrainSmtp, SmtpDrained, parts, inbox, logs, mgmtVars
<1>13. CASE StopHttp
  BY <1>13 DEF StopHttp, parts, inbox, logs, mgmtVars
<1>14. CASE DrainHttp
  BY <1>14 DEF DrainHttp, HttpDrained, parts, inbox, logs, mgmtVars
<1>15. CASE StopMetrics
  BY <1>15 DEF StopMetrics, parts, inbox, logs, mgmtVars
<1>16. CASE StopLogs
  BY <1>16 DEF StopLogs, parts, inbox, logs, mgmtVars
<1>17. CASE RemovePID
  BY <1>17 DEF RemovePID, parts, inbox, logs, mgmtVars
<1>18. CASE Signal
  BY <1>18 DEF Signal, parts, inbox, logs, mgmtVars
<1>19. CASE DeadlinePasses
  BY <1>19 DEF DeadlinePasses, parts, inbox, logs, mgmtVars
<1>20. CASE TakeRecord
  BY <1>20 DEF TakeRecord, parts, inbox, logs, mgmtVars
<1>21. CASE RecordWritten
  BY <1>21 DEF RecordWritten, parts, inbox, logs, mgmtVars
<1>22. CASE LoggerEnds
  BY <1>22 DEF LoggerEnds, parts, inbox, logs, mgmtVars
<1>23. CASE \E s \in Sessions : Connect(s)
  BY <1>23 DEF Connect, Session, parts, inbox, logs, mgmtVars
<1>24. CASE \E s \in Sessions : InsertBegins(s)
  BY <1>24 DEF InsertBegins, parts, inbox, logs, mgmtVars
<1>25. CASE \E s \in Sessions : InsertEnds(s)
  BY <1>25 DEF InsertEnds, Session, parts, inbox, logs, mgmtVars
<1>26. CASE \E s \in Sessions : Leave(s)
  BY <1>26 DEF Leave, parts, inbox, logs, mgmtVars
<1>27. CASE ServeMgmt
  BY <1>27 DEF ServeMgmt, parts, inbox, logs, mgmtVars
<1>28. CASE \E c \in Clients : Ask(c)
  BY <1>28 DEF Ask, parts, inbox, logs, mgmtVars
<1>29. CASE \E c \in Clients : Answered(c)
  BY <1>29 DEF Answered, parts, inbox, logs, mgmtVars
<1>30. CASE UNCHANGED vars
  BY <1>30 DEF vars, parts, inbox, logs, mgmtVars
<1>31. QED
  BY <1>1, <1>2, <1>3, <1>4, <1>5, <1>6, <1>7, <1>8, <1>9, <1>10, <1>11, <1>12, <1>13,
     <1>14, <1>15, <1>16, <1>17, <1>18, <1>19, <1>20, <1>21, <1>22, <1>23, <1>24, <1>25,
     <1>26, <1>27, <1>28, <1>29, <1>30 DEF Next, Main

LEMMA WipeStep ==
    ASSUME ServeInv, [Next]_vars, epoch > 0, epoch' # epoch
    PROVE  deadline = "passed" \/ (NoSessions /\ reqs = {})
<1>1. CASE CloseStore
  BY <1>1 DEF CloseStore, ServeInv, SmtpFollows, MgmtFollows, Drained, Aborting
<1>2. CASE Boot
  BY <1>2 DEF Boot, ServeInv, Types, RestFollows, Booting
<1>3. QED
  BY <1>1, <1>2, EpochSteps

\* svc.Close wipes the inbox when sessions and requests are gone, or the deadline has passed.
THEOREM WipeIsLast == Spec => WipeComesLast
  BY ServeInvariant, WipeStep, PTL DEF Spec, WipeComesLast
=============================================================================
