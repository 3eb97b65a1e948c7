---------------------------- MODULE ManagementGate ----------------------------
(***************************************************************************)
(* The gates a management request passes before its handler runs, and how  *)
(* it gives back what it took.                                             *)
(*                                                                         *)
(* rest.Server.serveHTTP checks the origin, takes one of MaxConcurrent     *)
(* slots without waiting, sets the request's deadline unless the path is a *)
(* long poll or the event stream, charges the source's token bucket, and   *)
(* authenticates.  The MailDev routes and MCP are mounted behind the first *)
(* of these gates; MCP then has slots, buckets and a deadline of its own.  *)
(* Requests run concurrently: every step below is one access to a channel, *)
(* to a limiter under its mutex, or to the active snapshot.                *)
(*                                                                         *)
(* Time is kept as ages and countdowns, so that it need not be bounded.    *)
(* Whom a credential names is AuthReload's subject: here a request carries *)
(* credentials that fail, that lack the scope, or that suffice.            *)
(***************************************************************************)
EXTENDS Naturals, FiniteSets, FiniteSetsExt

CONSTANTS
    Clients,        \* concurrent requests
    Sources,        \* peer addresses
    Loads,          \* deployments: the requests that arrive, whether rates are limited, and
                    \* the settings (origin allowlist, spec.ui.enabled) that resets deploy
    AllowLegacyClients,
    MaxConcurrent,  \* management.maxConcurrent, for REST and for MCP
    Rate, Burst,    \* management.requestsPerSecond (per tick) and burst
    IdleFloor,      \* the 30 seconds of evictIdleLocked, in ticks
    Timeout,        \* RequestTimeout of both servers
    Asked, MaxWait, \* the timeout of a long poll and store.maxWait
    DrainTime,      \* the deadline of Shutdown
    Window,         \* bound: ticks over which admissions are remembered
    NoBucket, Forever

Compat == {"healthz", "email"}
Mcp == {"mcp", "mcpget", "mcpwait", "listen"}
Native == {"health", "api", "wait", "stream"}
Kinds == Compat \cup Mcp \cup Native \cup {"options", "relay", "method", "unknown", "ui"}

Calls == [kind : Kinds, src : Sources, origin : {"none", "opaque", "loopback", "lan", "site"},
          cred : {"none", "weak", "full"}, proto : {"current", "legacy"}]

ASSUME GateAssumption ==
    /\ Sources # {}
    /\ \A l \in Loads : l.calls \subseteq Calls
    /\ {Rate, Burst, IdleFloor, Timeout, Asked, MaxWait, DrainTime, Window} \subseteq Nat
    /\ Rate > 0 /\ Burst > 0 /\ MaxConcurrent \in Nat \ {0}
    /\ AllowLegacyClients \in BOOLEAN
    /\ Forever \notin Nat /\ NoBucket \notin [tokens : Nat, age : Nat]

\* isWaitPath and isSSEPath: the paths that serveHTTP sets no deadline for.
Exempt(kind) == kind \in {"wait", "stream"}

\* isLongRequest: the calls that mcp's serveHTTP sets no deadline for.
IsLongRequest(kind) == kind \in {"mcpwait", "listen"}

\* isHealthCap and isMountHealthPath.
IsHealth(kind) == kind \in {"health", "healthz"}

VARIABLES
    load,      \* the deployment
    settings,  \* of the active snapshot
    req,       \* client -> its request
    slots,     \* inflight of rest.Server
    mcpSlots,  \* inflight of mcp.Server
    buckets,   \* limiter of either server -> source -> its bucket
    phase,     \* of rest.Server: "serving", "draining" or "stopped"
    drain,     \* what is left of Shutdown's deadline
    admitted   \* source -> how many were let through in this tick and the last t, by t

vars == <<load, settings, req, slots, mcpSlots, buckets, phase, drain, admitted>>

NoCall == [kind |-> "ui", src |-> CHOOSE s \in Sources : TRUE, origin |-> "none",
           cred |-> "none", proto |-> "current"]
Idle == [pc |-> "idle", call |-> NoCall, left |-> 0, ran |-> 0, stuck |-> FALSE,
         reply |-> "none"]

Init ==
    /\ load \in Loads
    /\ settings \in load.settings
    /\ req = [c \in Clients |-> Idle]
    /\ slots = {} /\ mcpSlots = {}
    /\ buckets = [g \in {"rest", "mcp"} |-> [s \in Sources |-> NoBucket]]
    /\ phase = "serving" /\ drain = 0
    /\ admitted = [s \in Sources |-> [t \in 0..Window |-> 0]]

-----------------------------------------------------------------------------
(* Origins, slots, buckets.                                                *)

\* CheckOrigin: "opaque" is an origin that is no http or https URL.
CheckOrigin(origin) ==
    \/ origin \in {"none", "loopback"}
    \/ /\ origin # "opaque"
       /\ settings.allow \cap ({"*", origin} \cup IF origin = "lan" THEN {"private"} ELSE {}) # {}

\* The client is free again; only of a wait that timed out is more remembered.
Over(c, reply) == IF reply = "timeout" THEN [req[c] EXCEPT !.pc = "idle", !.reply = reply]
                  ELSE Idle

Bug_End(c, reply) ==
    /\ req' = [req EXCEPT ![c] = Over(c, reply)]
    /\ slots' = slots \ {c}
    /\ mcpSlots' = IF reply = "error" THEN mcpSlots ELSE mcpSlots \ {c}

\* The request is over: its deferred functions give back the slots it holds.
End(c, reply) ==
    /\ req' = [req EXCEPT ![c] = Over(c, reply)]
    /\ slots' = slots \ {c}
    /\ mcpSlots' = mcpSlots \ {c}

Advance(c, pc) ==
    /\ req' = [req EXCEPT ![c].pc = pc]
    /\ UNCHANGED <<slots, mcpSlots>>

\* Ages at which every bucket is idle and full: older ones are not told apart.
AgeCap == IdleFloor + 4 * Burst + 1

Bug_IdleBucket(b) == b # NoBucket /\ b.age > IdleFloor /\ 4 * b.age * Rate > Burst

\* Older than 30 seconds and than four times what an empty bucket takes to fill.
IdleBucket(b) == b # NoBucket /\ b.age > IdleFloor /\ b.age * Rate > 4 * Burst

\* evictIdleLocked.
Kept(g) == [s \in Sources |-> IF IdleBucket(buckets[g][s]) THEN NoBucket ELSE buckets[g][s]]

Tokens(g, s) ==
    IF Kept(g)[s] = NoBucket THEN Burst
    ELSE Min({Burst, Kept(g)[s].tokens + Kept(g)[s].age * Rate})

Allowed(g, s) == ~load.limited \/ Tokens(g, s) >= 1

\* limiter.allow: every call sweeps the idle buckets and restarts this one's age.
Charge(g, s) ==
    buckets' = IF ~load.limited THEN buckets
               ELSE [buckets EXCEPT ![g] = [Kept(g) EXCEPT ![s] =
                        [tokens |-> Tokens(g, s) - (IF Allowed(g, s) THEN 1 ELSE 0),
                         age |-> 0]]]

\* A rate-limited step: on to pc, or the request is refused.
Limited(c, g, pc) ==
    /\ Charge(g, req[c].call.src)
    /\ IF Allowed(g, req[c].call.src) THEN Advance(c, pc) ELSE End(c, "refused")

-----------------------------------------------------------------------------
(* rest.Server.serveHTTP.                                                  *)

\* The origin gate, and OPTIONS, come before anything is taken.
Arrive(c, call) ==
    /\ phase = "serving"
    /\ req[c].pc = "idle"
    /\ CheckOrigin(call.origin) /\ call.kind # "options"
    /\ req' = [req EXCEPT ![c] = [Idle EXCEPT !.pc = "slot", !.call = call]]
    /\ UNCHANGED <<load, settings, slots, mcpSlots, buckets, phase, drain, admitted>>

Refuse(c, call) ==
    /\ phase = "serving"
    /\ req[c].pc = "idle"
    /\ ~CheckOrigin(call.origin) \/ call.kind = "options"
    /\ req' = [req EXCEPT ![c] = Idle]
    /\ UNCHANGED <<load, settings, slots, mcpSlots, buckets, phase, drain, admitted>>

Deadline(kind) == IF Exempt(kind) THEN Forever ELSE Timeout

AcquireSlot(c) ==
    /\ req[c].pc = "slot"
    /\ IF Cardinality(slots) < MaxConcurrent
       THEN /\ slots' = slots \cup {c}
            /\ req' = [req EXCEPT ![c].pc = "route", ![c].left = Deadline(req[c].call.kind)]
            /\ UNCHANGED mcpSlots
       ELSE End(c, "refused")
    /\ UNCHANGED <<load, settings, buckets, phase, drain, admitted>>

\* What a request that is rate-limited here goes on to: the mounts, the SPA, authentication.
Stop(kind) == CASE kind \in Compat -> "compat"
                [] kind \in Mcp -> "mcp"
                [] kind = "ui" -> "handle"
                [] OTHER -> "auth"

\* A relay path, a path or a method that no route has, the SPA when it is off.
Unrouted(kind) == kind \in {"relay", "unknown", "method"} \/ (kind = "ui" /\ ~settings.ui)

Admit(c) == admitted' = IF load.limited /\ ~IsHealth(req[c].call.kind) /\ req'[c].pc # "idle"
                        THEN [admitted EXCEPT ![req[c].call.src] = [t \in 0..Window |-> @[t] + 1]]
                        ELSE admitted

Route(c) ==
    LET kind == req[c].call.kind
    IN  /\ req[c].pc = "route"
        /\ \/ /\ Unrouted(kind)
              /\ End(c, "refused")
              /\ UNCHANGED buckets
           \/ /\ ~Unrouted(kind) /\ IsHealth(kind)
              /\ Advance(c, Stop(kind))
              /\ UNCHANGED buckets
           \/ /\ ~Unrouted(kind) /\ ~IsHealth(kind)
              /\ Limited(c, "rest", Stop(kind))
        /\ Admit(c)
        /\ UNCHANGED <<load, settings, phase, drain>>

Bug_WaitBudget(left) == left

\* Wait: the asked timeout, capped by store.maxWait and by the request's deadline.
WaitBudget(left) == Min({Asked, MaxWait} \cup (IF left = Forever THEN {} ELSE {left}))

\* dispatch, the tools and the service look at the context before they begin.  Then
\* only waits and streams are bound by a timer: a short handler returns by itself.
Handle(c) ==
    IF req[c].left = 0 THEN End(c, "error")
    ELSE /\ req' = [req EXCEPT ![c].pc = "handle",
                               ![c].left = CASE req[c].call.kind \in {"wait", "mcpwait"} -> WaitBudget(@)
                                             [] req[c].call.kind \in {"stream", "listen"} -> @
                                             [] OTHER -> 0]
         /\ UNCHANGED <<slots, mcpSlots>>

\* authenticate and authorize; the health probes skip both.
Auth(c) ==
    /\ req[c].pc = "auth"
    /\ IF IsHealth(req[c].call.kind) \/ req[c].call.cred = "full" THEN Handle(c)
       ELSE End(c, "refused")
    /\ UNCHANGED <<load, settings, buckets, phase, drain, admitted>>

\* compat.Handler.ServeHTTP: the origin again, under the allowlist of now.
CompatGate(c) ==
    /\ req[c].pc = "compat"
    /\ IF /\ CheckOrigin(req[c].call.origin)
          /\ IsHealth(req[c].call.kind) \/ req[c].call.cred = "full"
       THEN Handle(c) ELSE End(c, "refused")
    /\ UNCHANGED <<load, settings, buckets, phase, drain, admitted>>

-----------------------------------------------------------------------------
(* mcp.Server.serveHTTP, mounted.                                          *)

\* The origin again, POST only, then a slot of MCP's own.
McpGate(c) ==
    /\ req[c].pc = "mcp"
    /\ IF CheckOrigin(req[c].call.origin) /\ req[c].call.kind # "mcpget"
          /\ Cardinality(mcpSlots) < MaxConcurrent
       THEN /\ mcpSlots' = mcpSlots \cup {c}
            /\ req' = [req EXCEPT ![c].pc = "mcprate"]
            /\ UNCHANGED slots
       ELSE End(c, "refused")
    /\ UNCHANGED <<load, settings, buckets, phase, drain, admitted>>

McpRate(c) ==
    /\ req[c].pc = "mcprate"
    /\ Limited(c, "mcp", "mcpauth")
    /\ UNCHANGED <<load, settings, phase, drain, admitted>>

\* validateProtocolVersion unless legacy clients are allowed; listen is always pinned.
Pinned(call) == call.proto = "current" \/ (AllowLegacyClients /\ call.kind # "listen")

\* The context keeps the deadline that serveHTTP of rest gave it: a long request is
\* given none here, and any other one the same timeout from now, which is later.
McpAuth(c) ==
    /\ req[c].pc = "mcpauth"
    /\ IF Pinned(req[c].call) /\ req[c].call.cred # "none" THEN Handle(c)
       ELSE End(c, "refused")
    /\ UNCHANGED <<load, settings, buckets, phase, drain, admitted>>

-----------------------------------------------------------------------------
(* Handlers end.                                                           *)

Lasting == {"wait", "mcpwait", "stream", "listen"}

\* A short handler returns; a wait finds its message.
Return(c) ==
    /\ req[c].pc = "handle" /\ ~req[c].stuck
    /\ req[c].call.kind \notin {"stream", "listen"}
    /\ End(c, "ok")
    /\ UNCHANGED <<load, settings, buckets, phase, drain, admitted>>

\* A wait's own timer, or the deadline of the context under a listen.
TimesOut(c) ==
    /\ req[c].pc = "handle" /\ ~req[c].stuck
    /\ req[c].call.kind \in Lasting
    /\ req[c].left = 0
    /\ End(c, "timeout")
    /\ UNCHANGED <<load, settings, buckets, phase, drain, admitted>>

\* A handler is held up, and goes on.  The server has no WriteTimeout: a handler whose
\* client does not read a long answer stays in its write.  A wait looks at its context
\* only when nothing matches: mail that matches and is gone again keeps it turning.
Stick(c) ==
    /\ req[c].pc = "handle"
    /\ req' = [req EXCEPT ![c].stuck = ~@]
    /\ UNCHANGED <<load, settings, slots, mcpSlots, buckets, phase, drain, admitted>>

\* The client goes away: a lasting handler sees its context cancelled, and a write that
\* was held up fails.
Disconnect(c) ==
    /\ req[c].pc = "handle"
    /\ req[c].call.kind \in Lasting \/ req[c].stuck
    /\ End(c, "gone")
    /\ UNCHANGED <<load, settings, buckets, phase, drain, admitted>>

\* A handler panics; the deferred recover answers and the slots are returned.
Panic(c) ==
    /\ req[c].pc = "handle" /\ ~req[c].stuck
    /\ End(c, "error")
    /\ UNCHANGED <<load, settings, buckets, phase, drain, admitted>>

-----------------------------------------------------------------------------
\* A reset or an apply swaps the snapshot that the origin and UI gates read.
Reconfigure(s) ==
    /\ settings' = s
    /\ UNCHANGED <<load, req, slots, mcpSlots, buckets, phase, drain, admitted>>

\* Shutdown: the listener is closed; requests under way are waited for.
Shutdown ==
    /\ phase = "serving"
    /\ phase' = "draining" /\ drain' = DrainTime
    /\ UNCHANGED <<load, settings, req, slots, mcpSlots, buckets, admitted>>

ShutdownEnds ==
    /\ phase = "draining"
    /\ drain = 0 \/ \A c \in Clients : req[c].pc = "idle"
    /\ phase' = "stopped" /\ drain' = 0
    /\ UNCHANGED <<load, settings, req, slots, mcpSlots, buckets, admitted>>

Down(n) == IF n \in {0, Forever} THEN n ELSE n - 1

Tick ==
    /\ req' = [c \in Clients |->
           IF req[c].pc = "idle" THEN req[c]
           ELSE [req[c] EXCEPT !.left = Down(@),
                    !.ran = IF req[c].pc = "handle" /\ req[c].call.kind \in {"wait", "mcpwait"}
                            THEN Min({@ + 1, Asked + MaxWait}) ELSE @]]
    /\ buckets' = [g \in DOMAIN buckets |-> [s \in Sources |->
           IF buckets[g][s] = NoBucket THEN NoBucket
           ELSE [buckets[g][s] EXCEPT !.age = Min({@ + 1, AgeCap})]]]
    /\ admitted' = [s \in Sources |-> [t \in 0..Window |->
                       IF t = 0 THEN 0 ELSE admitted[s][t - 1]]]
    /\ drain' = Down(drain)
    /\ UNCHANGED <<load, settings, slots, mcpSlots, phase>>

Step(c) ==
    \/ AcquireSlot(c) \/ Route(c) \/ Auth(c) \/ CompatGate(c)
    \/ McpGate(c) \/ McpRate(c) \/ McpAuth(c)

Next ==
    \/ \E c \in Clients :
          \/ \E call \in load.calls : Arrive(c, call) \/ Refuse(c, call)
          \/ Step(c)
          \/ Return(c) \/ TimesOut(c) \/ Stick(c) \/ Disconnect(c) \/ Panic(c)
    \/ \E s \in load.settings : Reconfigure(s)
    \/ Shutdown \/ ShutdownEnds
    \/ Tick

Spec == Init /\ [][Next]_vars

\* Goroutines run and timers fire.  What precedes the handler is finite work and small
\* problem documents, which are sent after the handler has returned; of a handler only
\* one that is not held up is asked to end.  Clients and senders of mail owe nothing.
ShortReturn(c) == Return(c) /\ req[c].call.kind \notin Lasting

FairSpec ==
    /\ Spec
    /\ WF_vars(Tick)
    /\ WF_vars(ShutdownEnds)
    /\ \A c \in Clients : WF_vars(Step(c)) /\ WF_vars(ShortReturn(c)) /\ WF_vars(TimesOut(c))

-----------------------------------------------------------------------------
(* Properties.                                                             *)

Requests == [pc : {"idle", "slot", "route", "auth", "compat", "mcp", "mcprate", "mcpauth",
                   "handle"},
             call : Calls, left : Nat \cup {Forever}, ran : Nat, stuck : BOOLEAN,
             reply : {"none", "timeout"}]
Buckets == [tokens : 0..Burst, age : 0..AgeCap]

\* Requests, buckets and countdowns have their types: no bucket ever holds more than its
\* burst or less than nothing.
TypeOK ==
    /\ load \in Loads /\ settings \in load.settings
    /\ req \in [Clients -> Requests]
    /\ buckets \in [{"rest", "mcp"} -> [Sources -> {NoBucket} \cup Buckets]]
    /\ phase \in {"serving", "draining", "stopped"} /\ drain \in Nat
    /\ admitted \in [Sources -> [0..Window -> Nat]]

\* The slots are exactly the requests past the gate, whichever way the others left it
\* (refused, returned, timed out, disconnected, panicked), and never more than the
\* limit; an MCP request holds its REST slot all along, so MCP's own are never short.
SlotsExact ==
    /\ slots = {c \in Clients : req[c].pc \notin {"idle", "slot"}}
    /\ mcpSlots = {c \in Clients : \/ req[c].pc \in {"mcprate", "mcpauth"}
                                   \/ req[c].pc = "handle" /\ req[c].call.kind \in Mcp}
    /\ Cardinality(slots) <= MaxConcurrent
    /\ \A c \in Clients : req[c].pc = "mcp" => Cardinality(mcpSlots) < MaxConcurrent

\* Those let through in the ticks from j to i ago.
AdmittedIn(s, i, j) == admitted[s][j] - (IF i = 0 THEN 0 ELSE admitted[s][i - 1])

\* In no stretch of time are more requests of one source let through, on native routes,
\* mounts and the SPA together, than the burst plus what the rate allows for its length,
\* although the limiter forgets the buckets of idle sources.
RateBound ==
    \A s \in Sources : \A i, j \in 0..Window :
        i <= j => AdmittedIn(s, i, j) <= Burst + Rate * (j - i)

\* messagesWaitDesc: "Block until a matching message arrives or the timeout
\* fires."  A mail_messages_wait over HTTP that times out has waited for what
\* it asked, capped by store.maxWait.
McpWaitRunsFull ==
    \A c \in Clients : req[c].reply = "timeout" /\ req[c].call.kind = "mcpwait" =>
        req[c].ran >= Min({Asked, MaxWait})

\* A slot comes back unless the client of its request does not read, or the mail a wait
\* asks for comes and goes, event streams apart: every deadline and timer between the
\* slot and the answer ends what nobody holds up.
SlotsComeBack ==
    \A c \in Clients :
        c \in slots /\ req[c].call.kind # "stream" ~> c \notin slots \/ req[c].stuck

=============================================================================
