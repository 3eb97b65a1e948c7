------------------------------ MODULE AuthReload ------------------------------
(***************************************************************************)
(* Management authentication while the identity is being reloaded.         *)
(*                                                                         *)
(* A reset commits a new management.auth under App.mu, an apply commits    *)
(* none; both then run the adapters' reload hooks without the mutex, so    *)
(* the hooks of two commits interleave.  Each hook reads the active        *)
(* snapshot, compiles it from the secret files of that moment, compares it *)
(* with the verifier in place, installs it and, if it differed, fires the  *)
(* identity-change hooks: the actor of mcp-stdio is authenticated again    *)
(* and the table of browser sessions is emptied.  Meanwhile requests       *)
(* authenticate, and are authorised and dispatched in later steps, and     *)
(* event streams check their credential again before they write.           *)
(*                                                                         *)
(* proc tells the programs apart: "serve" has the REST and MCP adapters    *)
(* and the session table; labmail mcp-stdio has MCP and a fixed actor,     *)
(* that of its startup secret ("stdio") or, without a token file in the    *)
(* development mode, the loopback administrator ("open").                  *)
(***************************************************************************)
EXTENDS Verifier

CONSTANTS
    Specs,         \* the management.auth documents an operator may deploy
    Files,         \* the secret files they name
    Edited,        \* the files that change while the process runs
    Contents,      \* what a file may hold
    InitialFiles,  \* what the files hold at the start
    Presented,     \* the secrets that clients present
    Users,         \* Basic user names that clients present
    StdioSecret,   \* the secret of --token-file
    Cookies,       \* bound: session cookies ever issued
    Reloaders,     \* concurrent callers of Reset and Apply
    Callers,       \* concurrent management requests
    Sent,          \* the operations they ask for
    Peers,         \* whether their peer address is loopback
    IdleTime,      \* SessionConfig.Idle
    AbsoluteTime,  \* SessionConfig.Absolute
    MaxSessions,   \* SessionConfig.Max
    MaxTime,       \* bound on the clock
    MaxCommits,    \* bound on resets and applies
    MaxEdits       \* bound on edits of the secret files

Ops == {"login", "view", "logout", "stream", "write", "mcp", "compat"}

ASSUME ReloadAssumption ==
    /\ {IdleTime, AbsoluteTime, MaxTime, MaxCommits, MaxEdits} \subseteq Nat
    /\ MaxSessions \in Nat \ {0}
    /\ IsFiniteSet(Cookies) /\ IsFiniteSet(Callers)
    /\ \A spec \in Specs : spec.tokens \in Seq([id : STRING, file : Files, role : STRING,
                                               scopes : SUBSET Scopes])
    /\ Short \subseteq Contents /\ Gone \in Contents
    /\ InitialFiles \in [Files -> Contents] /\ Edited \subseteq Files
    /\ Sent \subseteq Ops /\ Peers \subseteq BOOLEAN

VARIABLES
    proc,      \* "serve", "stdio" or "open"
    active,    \* management.auth of the active snapshot
    files,     \* content of each secret file
    verifier,  \* the installed identity
    sessions,  \* cookie -> its row, Unissued or Removed
    stdio,     \* fixedActor of mcp-stdio
    reload,    \* reloader -> where it is
    client,    \* client -> its request
    now,
    commits, edits,
    overlap    \* an identity was installed while another reload or a login was under way

held == <<proc, active, files, verifier, sessions, stdio>>
authVars == <<held, reload, client, now, commits, edits, overlap>>

\* A cookie that is still to be drawn, and one whose session is gone.
Unissued == [st |-> "unissued"]
Removed == [st |-> "removed"]

Live == {k \in Cookies : sessions[k].st = "live"}

IdleReload == [pc |-> "idle", kind |-> "apply", hooks |-> <<>>, spec |-> Nobody,
               next |-> Nobody, mine |-> FALSE, changed |-> FALSE,
               actor |-> Nobody, edits |-> 0]
IdleClient == [pc |-> "idle", op |-> "view", cred |-> Nobody, loopback |-> FALSE,
               actor |-> Nobody, under |-> Nobody]

\* refreshStdioActor's authentication; without a secret the actor is dropped.
StdioActor(v) == IF proc = "stdio" THEN AuthenticateBearer(v, StdioSecret) ELSE Nobody

\* The process starts only when its identity compiles; mcp-stdio also needs an actor.
AuthInit ==
    /\ proc \in {"serve", "stdio", "open"}
    /\ files = InitialFiles
    /\ active \in Specs
    /\ verifier = FromSpec(active, files)
    /\ verifier # Nobody
    /\ stdio = IF proc = "open" THEN AuthenticateNone(verifier, TRUE) ELSE StdioActor(verifier)
    /\ proc # "serve" => stdio # Nobody
    /\ sessions = [k \in Cookies |-> Unissued]
    /\ reload = [r \in Reloaders |-> IdleReload]
    /\ client = [c \in Callers |-> IdleClient]
    /\ now = 0 /\ commits = 0 /\ edits = 0
    /\ overlap = FALSE

-----------------------------------------------------------------------------
(* The session table (auth.Store); each operation is one locked section.   *)

Bug_Expired(row) == now - row.lastSeen >= IdleTime \/ now - row.created > AbsoluteTime

Expired(row) == now - row.lastSeen > IdleTime \/ now - row.created > AbsoluteTime

\* Lookup, View and ValidCSRF drop the row they find expired.
Swept(k) == IF k \in Live /\ Expired(sessions[k])
            THEN [sessions EXCEPT ![k] = Removed] ELSE sessions

Touched(k) == IF k \in Live /\ ~Expired(sessions[k])
              THEN [sessions EXCEPT ![k].lastSeen = now] ELSE Swept(k)

Usable(k) == k \in Live /\ ~Expired(sessions[k])

Deleted(k) == IF k \in Live THEN [sessions EXCEPT ![k] = Removed] ELSE sessions

Cleared == [k \in Cookies |-> IF k \in Live THEN Removed ELSE sessions[k]]

\* The rows that evictOldestLocked may drop: map order decides among equals.
Oldest(rows) == {k \in rows : \A j \in rows : sessions[k].lastSeen <= sessions[j].lastSeen}

Evicted(kept) == IF Cardinality(kept) >= MaxSessions
                 THEN {{j} : j \in Oldest(kept)} ELSE {{}}

\* Create: expired rows go first, then the idlest one if the table is full.
Create(k, actor, under) ==
    LET kept == {j \in Live : ~Expired(sessions[j])}
        row == [st |-> "live", id |-> actor.id, role |-> actor.role, scopes |-> actor.scopes,
                created |-> now, lastSeen |-> now, under |-> under]
    IN  \E out \in Evicted(kept) :
            sessions' = [j \in Cookies |->
                IF j = k THEN row
                ELSE IF j \in Live /\ j \notin kept \ out THEN Removed
                ELSE sessions[j]]

-----------------------------------------------------------------------------
(* Requests.                                                               *)

RequiredScopes(op) == CASE op \in {"login", "view", "logout"} -> {}
                        [] op = "stream" -> {"mail.read"}
                        [] OTHER -> {"mail.write"}

UnsafeMethod(op) == op \in {"login", "logout", "write"}

Creds == [kind : {"bearer"}, secret : Presented]
         \cup [kind : {"basic"}, user : Users, secret : Presented]
         \cup [kind : {"cookie"}, cookie : Cookies, csrf : BOOLEAN]
         \cup {[kind |-> "none"]}

PrincipalFromSession(row) == [id |-> row.id, class |-> "token", role |-> row.role,
                              scopes |-> row.scopes]

\* rest, mcp and compat authenticate: MCP refuses Basic, only REST reads the cookie,
\* and a cookie that is not usable counts as no credential.
Principal(op, cred, loopback) ==
    CASE op = "mcp" /\ cred.kind = "basic" -> Nobody
      [] op \notin {"mcp", "compat"} /\ cred.kind = "cookie" /\ Usable(cred.cookie) ->
            PrincipalFromSession(sessions[cred.cookie])
      [] OTHER -> AuthenticateHeader(verifier, cred, loopback)

ReadsCookie(op, cred) == op \notin {"mcp", "compat"} /\ cred.kind = "cookie"

\* The identity a request's authority comes from: a session carries its own.
Under(op, cred) == IF ReadsCookie(op, cred) /\ Usable(cred.cookie)
                   THEN sessions[cred.cookie].under ELSE verifier

LoginsUnderWay ==
    Cardinality({c \in Callers : client[c].pc # "idle" /\ client[c].op = "login"})

\* A client sends a request and it is authenticated; a refused one is over.
Authenticate(c, op, cred, loopback) ==
    /\ proc = "serve"
    /\ client[c].pc = "idle"
    /\ cred.kind = "cookie" => /\ sessions[cred.cookie] # Unissued
                               /\ cred.csrf \/ UnsafeMethod(op)  \* else it is not read
    /\ op = "login" => LoginsUnderWay < Cardinality({k \in Cookies : sessions[k] = Unissued})
    /\ sessions' = IF ReadsCookie(op, cred) THEN Touched(cred.cookie) ELSE sessions
    /\ client' = [client EXCEPT ![c] =
           IF Principal(op, cred, loopback) = Nobody THEN IdleClient
           ELSE [pc |-> "authed", op |-> op, cred |-> cred, loopback |-> loopback,
                 actor |-> Principal(op, cred, loopback), under |-> Under(op, cred)]]
    /\ UNCHANGED <<proc, active, files, verifier, stdio, reload, now, commits, edits, overlap>>

\* authorize: scopes, and for a mutation with a cookie and no header its CSRF secret.
Authorize(c) ==
    LET q == client[c]
        checked == UnsafeMethod(q.op) /\ q.cred.kind = "cookie"
    IN  /\ q.pc = "authed"
        /\ LET scoped == AuthorizeScopes(q.actor.scopes, RequiredScopes(q.op))
           IN  /\ client' = [client EXCEPT ![c] =
                    IF scoped /\ (checked => Usable(q.cred.cookie) /\ q.cred.csrf)
                    THEN [q EXCEPT !.pc = "dispatch"] ELSE IdleClient]
               /\ sessions' = IF scoped /\ checked THEN Swept(q.cred.cookie) ELSE sessions
        /\ UNCHANGED <<proc, active, files, verifier, stdio, reload, now, commits, edits, overlap>>

Finish(c) == client' = [client EXCEPT ![c] = IdleClient]

HandleSessionCreate(c) ==
    /\ client[c].op = "login"
    /\ \E k \in Cookies : /\ sessions[k] = Unissued
                          /\ Create(k, client[c].actor, client[c].under)
    /\ Finish(c)

HandleSessionGet(c) ==
    /\ client[c].op = "view"
    /\ sessions' = IF client[c].cred.kind = "cookie" THEN Touched(client[c].cred.cookie)
                   ELSE sessions
    /\ Finish(c)

HandleSessionDelete(c) ==
    /\ client[c].op = "logout"
    /\ sessions' = IF client[c].cred.kind = "cookie" THEN Deleted(client[c].cred.cookie)
                   ELSE sessions
    /\ Finish(c)

\* handleEvents: subscribed, headers flushed, no second look at the credential.
OpenStream(c) ==
    /\ client[c].op = "stream"
    /\ client' = [client EXCEPT ![c].pc = "stream"]
    /\ UNCHANGED sessions

\* The other handlers change nothing that this module keeps.
HandleOther(c) ==
    /\ client[c].op \in {"write", "mcp", "compat"}
    /\ Finish(c)
    /\ UNCHANGED sessions

Dispatch(c) ==
    /\ client[c].pc = "dispatch"
    /\ \/ HandleSessionCreate(c)
       \/ HandleSessionGet(c)
       \/ HandleSessionDelete(c)
       \/ OpenStream(c)
       \/ HandleOther(c)
    /\ UNCHANGED <<proc, active, files, verifier, stdio, reload, now, commits, edits, overlap>>

\* streamLive: whom the credential that opened the stream names now.  A stream
\* whose cookie was not usable was opened by the loopback credential.
StreamPrincipal(q) ==
    IF q.cred.kind = "cookie" /\ q.actor.class = "token"
    THEN IF Usable(q.cred.cookie) THEN PrincipalFromSession(sessions[q.cred.cookie])
         ELSE Nobody
    ELSE AuthenticateHeader(verifier, q.cred, q.loopback)

Bug_StreamLive(q) ==
    \/ q.cred.kind = "cookie"
    \/ /\ StreamPrincipal(q) # Nobody
       /\ AuthorizeScopes(StreamPrincipal(q).scopes, RequiredScopes("stream"))

StreamLive(q) ==
    /\ StreamPrincipal(q) # Nobody
    /\ AuthorizeScopes(StreamPrincipal(q).scopes, RequiredScopes("stream"))

\* A heartbeat or an event: check, then write or end.  View sweeps, and touches nothing.
StreamTick(c) ==
    /\ client[c].pc = "stream"
    /\ client' = [client EXCEPT ![c] = IF StreamLive(client[c]) THEN client[c] ELSE IdleClient]
    /\ sessions' = IF client[c].cred.kind = "cookie" /\ client[c].actor.class = "token"
                   THEN Swept(client[c].cred.cookie) ELSE sessions
    /\ UNCHANGED <<proc, active, files, verifier, stdio, reload, now, commits, edits, overlap>>

\* The client closes its stream.
CloseStream(c) ==
    /\ client[c].pc = "stream"
    /\ Finish(c)
    /\ UNCHANGED <<held, reload, now, commits, edits, overlap>>

-----------------------------------------------------------------------------
(* Commits and their hooks.                                                *)

\* mcp.New registers its hooks before rest.New; mcp-stdio has no REST server.
Hooks == IF proc = "serve" THEN <<"mcp", "rest">> ELSE <<"mcp">>

Started(r, kind) == reload' = [reload EXCEPT ![r] =
    [IdleReload EXCEPT !.pc = "active", !.kind = kind, !.hooks = Hooks, !.edits = edits]]

Bug_Preflight(spec) == TRUE

Preflight(spec) == FromSpec(spec, files) # Nobody

\* Reset: the candidate's identity must compile before anything is committed.
Reset(r, spec) ==
    /\ reload[r].pc = "idle"
    /\ commits < MaxCommits
    /\ Preflight(spec)
    /\ active' = spec
    /\ commits' = commits + 1
    /\ Started(r, "reset")
    /\ UNCHANGED <<proc, files, verifier, sessions, stdio, client, now, edits, overlap>>

\* Apply: no operation reaches management.auth, but the hooks reread the files.
Apply(r) ==
    /\ reload[r].pc = "idle"
    /\ commits < MaxCommits
    /\ commits' = commits + 1
    /\ Started(r, "apply")
    /\ UNCHANGED <<held, client, now, edits, overlap>>

\* The next hook of r, or the end of its call.
NextHook(q) == IF Len(q.hooks) = 1 THEN IdleReload
               ELSE [IdleReload EXCEPT !.pc = "active", !.kind = q.kind,
                                       !.hooks = Tail(q.hooks), !.edits = q.edits]

\* reloadAuth reads the active snapshot ...
LoadActive(r) ==
    /\ reload[r].pc = "active"
    /\ reload' = [reload EXCEPT ![r].pc = "read", ![r].spec = active]
    /\ UNCHANGED <<held, client, now, commits, edits, overlap>>

\* ... and compiles it; when that fails the verifier and the sessions stay.
ReadSecrets(r) ==
    /\ reload[r].pc = "read"
    /\ LET next == FromSpec(reload[r].spec, files)
       IN  reload' = [reload EXCEPT ![r] =
               IF next = Nobody THEN NextHook(reload[r])
               ELSE [reload[r] EXCEPT !.next = next, !.spec = Nobody,
                        !.pc = IF Head(reload[r].hooks) = "rest" THEN "compare" ELSE "replace"]]
    /\ UNCHANGED <<held, client, now, commits, edits, overlap>>

Changed(r) == ~Equivalent(verifier, reload[r].next)

\* REST compares once more than Replace does, for its own Clear.
Compare(r) ==
    /\ reload[r].pc = "compare"
    /\ reload' = [reload EXCEPT ![r].pc = "replace", ![r].mine = Changed(r)]
    /\ UNCHANGED <<held, client, now, commits, edits, overlap>>

\* Replace compares before it takes the lock ...
Replace(r) ==
    /\ reload[r].pc = "replace"
    /\ reload' = [reload EXCEPT ![r].pc = "install", ![r].changed = Changed(r)]
    /\ UNCHANGED <<held, client, now, commits, edits, overlap>>

Busy(r) == reload[r].pc \notin {"idle", "active"}

\* ... and swaps the index under it.
Install(r) ==
    /\ reload[r].pc = "install"
    /\ verifier' = reload[r].next
    /\ reload' = [reload EXCEPT ![r].pc = IF reload[r].changed THEN "refresh" ELSE "after",
                                ![r].next = Nobody, ![r].changed = FALSE]
    /\ overlap' = (\/ overlap \/ LoginsUnderWay > 0
                   \/ \E s \in Reloaders \ {r} : Busy(s))
    /\ UNCHANGED <<proc, active, files, sessions, stdio, client, now, commits, edits>>

\* refreshStdioActor, registered first, authenticates the secret and then stores.
Refresh(r) ==
    /\ reload[r].pc = "refresh"
    /\ reload' = [reload EXCEPT ![r].pc = "store", ![r].actor = StdioActor(verifier)]
    /\ UNCHANGED <<held, client, now, commits, edits, overlap>>

StoreActor(r) ==
    /\ reload[r].pc = "store"
    /\ stdio' = reload[r].actor
    /\ reload' = [reload EXCEPT ![r].pc = IF proc = "serve" THEN "clear" ELSE "after",
                                ![r].actor = Nobody]
    /\ UNCHANGED <<proc, active, files, verifier, sessions, client, now, commits, edits, overlap>>

\* The hook that rest.New registers: Sessions.Clear.
ClearSessions(r) ==
    /\ reload[r].pc = "clear"
    /\ sessions' = Cleared
    /\ reload' = [reload EXCEPT ![r].pc = "after"]
    /\ overlap' = (overlap \/ LoginsUnderWay > 0)
    /\ UNCHANGED <<proc, active, files, verifier, stdio, client, now, commits, edits>>

\* REST clears again when its own comparison said so.
AfterReplace(r) ==
    /\ reload[r].pc = "after"
    /\ sessions' = IF reload[r].mine THEN Cleared ELSE sessions
    /\ reload' = [reload EXCEPT ![r] = NextHook(@)]
    /\ UNCHANGED <<proc, active, files, verifier, stdio, client, now, commits, edits, overlap>>

ReloadStep(r) ==
    \/ LoadActive(r) \/ ReadSecrets(r) \/ Compare(r) \/ Replace(r) \/ Install(r)
    \/ Refresh(r) \/ StoreActor(r) \/ ClearSessions(r) \/ AfterReplace(r)

-----------------------------------------------------------------------------
(* The environment.                                                        *)

\* An operator rotates, removes or restores a secret file.
EditFile(f, content) ==
    /\ edits < MaxEdits
    /\ files[f] # content
    /\ files' = [files EXCEPT ![f] = content]
    /\ edits' = edits + 1
    /\ UNCHANGED <<proc, active, verifier, sessions, stdio, reload, client, now, commits, overlap>>

ClockTick ==
    /\ now < MaxTime
    /\ now' = now + 1
    /\ UNCHANGED <<held, reload, client, commits, edits, overlap>>

ClientStep(c) == Authorize(c) \/ Dispatch(c)

AuthNext ==
    \/ \E r \in Reloaders : ReloadStep(r) \/ Apply(r) \/ \E spec \in Specs : Reset(r, spec)
    \/ \E c \in Callers : \/ ClientStep(c) \/ StreamTick(c) \/ CloseStream(c)
                          \/ \E op \in Sent, cred \in Creds, lo \in Peers :
                                Authenticate(c, op, cred, lo)
    \/ \E f \in Edited, content \in Contents : EditFile(f, content)
    \/ ClockTick

AuthSpec == AuthInit /\ [][AuthNext]_authVars

\* Goroutines run; the heartbeat ticker fires; nobody has to send, edit or reset.
AuthFairness == /\ \A r \in Reloaders : WF_authVars(ReloadStep(r))
                /\ \A c \in Callers : WF_authVars(ClientStep(c)) /\ WF_authVars(StreamTick(c))

FairAuthSpec == AuthSpec /\ AuthFairness

-----------------------------------------------------------------------------
(* Properties.                                                             *)

Identities == {FromSpec(spec, fs) : spec \in Specs, fs \in [Files -> Contents]} \ {Nobody}
Principals == [id : {t.id : t \in UNION {ToSet(spec.tokens) : spec \in Specs}} \cup {"loopback"},
               class : {"token", "loopback"}, role : Roles, scopes : SUBSET Scopes]

\* Type invariant.
AuthTypeOK ==
    /\ proc \in {"serve", "stdio", "open"}
    /\ active \in Specs
    /\ files \in [Files -> Contents]
    /\ verifier \in Identities
    /\ stdio \in Principals \cup {Nobody}
    /\ \A k \in Live : /\ sessions[k].under \in Identities
                       /\ sessions[k].created <= sessions[k].lastSeen
                       /\ sessions[k].lastSeen <= now
    /\ Cardinality(Live) <= MaxSessions
    /\ \A r \in Reloaders : reload[r].pc # "idle" => reload[r].hooks # <<>>
    /\ \A c \in Callers : client[c].pc # "idle" => client[c].actor \in Principals

\* What Equivalent makes sure of: the same mode and tokens, and a Basic login of the
\* same user, password and place in the list of tokens.
SameCompiled(v, w) ==
    v.mode = w.mode /\ ToSet(v.tokens) = ToSet(w.tokens) /\ v.basic = w.basic

\* The token that the Basic login of an identity stands for.
BasicToken(v) == IF v.basic = Nobody THEN Nobody ELSE v.tokens[v.basic.idx].id

Quiet == \A r \in Reloaders : reload[r].pc = "idle"

\* Once every reload has returned, and none overlapped another or a login: sessions come
\* only from an identity with the mode, the tokens and the Basic login of the installed
\* one, where the place of Basic's token is compared and not which token is there
\* (SessionsOfBasic is about that); the actor of mcp-stdio is the one its secret names,
\* or is gone with the development mode; and the verifier is the active snapshot's
\* unless a secret file was edited.  Reloads that overlap are left out, because two
\* hooks may then install in the order opposite to their commits, and so is a login
\* that authenticates before a change and creates its session after it.
QuietMeansCurrent ==
    Quiet /\ ~overlap =>
        /\ \A k \in Live : SameCompiled(sessions[k].under, verifier)
        /\ proc = "stdio" => stdio = AuthenticateBearer(verifier, StdioSecret)
        /\ proc = "open" /\ stdio # Nobody => verifier.mode = "dev-loopback-unauth"
        /\ edits = 0 => verifier = FromSpec(active, files)

\* OnIdentityChange: hooks fire "when the compiled identity changes (mode, token
\* id/digest/role/scopes, or Basic)", and Equivalent compares the "Basic mapping".  So
\* no session outlives the moment at which the Basic login comes to stand for another
\* token.
SessionsOfBasic ==
    Quiet /\ ~overlap => \A k \in Live : BasicToken(sessions[k].under) = BasicToken(verifier)

\* The comment of reloadAuth: a committed reset does not reach the return
\* that keeps the previous verifier unless a file changed after its preflight.
CommittedSpecLoads ==
    \A r \in Reloaders :
        reload[r].pc = "read" /\ reload[r].kind = "reset"
            /\ FromSpec(reload[r].spec, files) = Nobody
        => edits > reload[r].edits

\* The reasons for which session k may leave the table before its time.
LoggedOut(k) ==
    \E c \in Callers : /\ client[c].op = "logout" /\ client[c].pc = "dispatch"
                       /\ client'[c].pc = "idle"
                       /\ client[c].cred.kind = "cookie" /\ client[c].cred.cookie = k
IdentityChanged ==
    \E r \in Reloaders : /\ reload'[r].pc # reload[r].pc
                         /\ \/ reload[r].pc = "clear"
                            \/ reload[r].pc = "after" /\ reload[r].mine
PushedOut(k) ==
    /\ Cardinality(Live) = MaxSessions
    /\ \E j \in Cookies : sessions[j] = Unissued /\ sessions'[j] # Unissued
    /\ \A j \in Live : sessions[k].lastSeen <= sessions[j].lastSeen

SessionsStay ==
    \A k \in Live : sessions'[k] = Removed /\ now - sessions[k].lastSeen <= IdleTime
                                           /\ now - sessions[k].created <= AbsoluteTime
                   => LoggedOut(k) \/ IdentityChanged \/ PushedOut(k)

\* A session leaves the table before its time only by its own logout, by a change
\* of the identity, or as the idlest of a full table.
LiveSessionKept == [][SessionsStay]_authVars

\* The credential of stream q names nobody now, or somebody who may not read mail.
Revoked(q) ==
    \/ StreamPrincipal(q) = Nobody
    \/ ~HasScope(StreamPrincipal(q).scopes, "mail.read")

\* An event stream whose credential stays revoked, or only loses mail.read, ends at a
\* heartbeat, although authentication and authorisation were long past when it began.
RevokedStreamEnds ==
    \A c \in Callers :
        client[c].pc = "stream" /\ Revoked(client[c])
        ~> client[c].pc # "stream" \/ ~Revoked(client[c])

=============================================================================
