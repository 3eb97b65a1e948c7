# LabMail: a TLA+ verification project

LabMail (`go-lab-maildev`) is a lab mail server: it accepts SMTP, keeps every
message in a bounded in-memory inbox (with optional spill to disk), and offers
the inbox and its own configuration over REST, MCP and MailDev-compatible
routes. It never relays. This directory holds TLA+ modules translated from the
code, TLC configurations that check them on small instances, and TLAPS proofs
for every instance. `PROJECT.json` maps every definition to its source lines
and lists runs, mutants, findings, hazards and theorems.

    tlc -workers 2 -config MCStore.cfg MCMessageStore
    tlapm MessageStoreProofs.tla

## Inventory

| Component | State | Operations | Correct when |
|---|---|---|---|
| Message store, `internal/store/memory.go` | index by id, order, byte account, caps, epoch, generation; spill files on disk | Insert, Get, List, Delete, DeleteAll, MarkRead, ReplaceCaps, Configure, ResetTo, Wipe | caps hold, bytes and order are exact, a record's files exist, files have owners, nothing from before a wipe comes back |
| Long polls, `Memory.Wait`, `App.Wait` | sleepers on a condition variable, a helper goroutine per call | Wait | no lost wake-up, never returns deleted mail, returns |
| Inbox events, `store/events.go`, `App.Subscribe` | subscriber list, two channels and a pump per subscriber | Subscribe, emitLocked, cancel | in order, loss only when a buffer is full, no send on a closed channel, no leaked pump |
| SMTP session, `smtp/server/session.go`, `behavior.go`, `auth.go`, `starttls.go` | state, envelope, TLS and AUTH flags, deadline | one handler per command | envelopes never mix, acknowledged means stored, the session ends |
| SMTP listener, `smtp/server/server.go`, `admit.go` | connections, wait group, gate counters | Start, accept, serveConn, Shutdown, SwapSpec | counters exact, limits held, shutdown drains |
| Control plane, `internal/app` mutate, reset, idempotency; `snapshot`, `compiler` | live and bootstrap snapshot, idempotency cache | Plan, Apply, Reset, Validate | store and snapshot agree, no lost update, a keyed request applies once |
| Inbox API, `app/messages.go`, `rest/messages.go`, `mcp/tools.go`, `compat/email.go` | cursor keys | list by pages, get, guarded delete and clear, mark, wait, subscribe | pages partition the inbox or say that they are stale, a stale guard changes nothing |
| Management auth, `internal/auth`, the adapters' `auth.go` and `reloadAuth` | verifier, session table, fixed actor of mcp-stdio | login, view, logout, authenticate, authorise, stream, reload | a removed credential stops working, a live session is kept |
| Management gates, `rest/server.go`, `mcp/server.go`, `compat/handler.go` | slots, token buckets, deadlines | serveHTTP of each adapter, Shutdown | slots come back, rates hold, waits last as long as they say |
| Audit, `internal/audit` | ring of events, fan-out | Append, List, Get | bounded, newest kept, an answered mutation is found |
| Observability, `internal/observability` | log queue, registry, health facts | TrySend, Log, Evaluate, Set, Inc | bounded, never blocks, ready means ready |
| Serve, `cmd/labmail/serve.go` | listeners, pid file, log goroutine | start, signal, drain, exit | ordered start and stop, nothing left behind |
| Config, MIME, line codec, preview, web, catalogue | none | pure functions | not stateful |

How they interact. SMTP sessions call `Insert` on the store with the epoch they
captured at DATA. Management calls go through `App`. `App.mu` serialises Plan,
Apply and Reset but not the inbox calls, so mail arrives between any two steps
of an apply. Apply and Reset swap an atomic snapshot pointer that SMTP sessions
read again at every command and every reply, and then, without the mutex, run
hooks that rotate cursor keys and reload the management identity. The store
broadcasts to sleepers and emits events inside its locked sections; a pump
goroutine per subscriber copies events to the REST stream or to MCP
notifications. MCP and the MailDev routes are mounted behind REST's gates.

What is hard here: file operations outside the store's mutex; values captured
before a lock and used after it (epoch, caps, script, snapshot, generation,
identity); the condition variable with contexts; channels closed under senders;
a live apply in the middle of an SMTP command or of a request; retries of keyed
applies; cursors that outlive what they name; slots and deadlines across nested
handlers; start and shutdown against everything that runs. The `hazards` of
`PROJECT.json` give each one its line.

## Modules

**MessageStore** is `store.Memory`. Each locked section is one action and each
file operation between locked sections is another. `ins[i]` is the Insert call
of session `i` (`pc`, captured epoch, candidate, temporary files written so
far) and `rd[r]` a Get or List call. `SpillBegin` and `SpillEnd` are the two
halves of writing one temporary file: `spillDir` is read once for each, without
the lock. `InsertCommit` is the whole locked section, from the epoch test and
`commitSpill` to the eviction, the ordered insertion and the generation.
Eviction loops are stated as the shortest run of oldest members that suffices.
`Restart` is a crash at any point followed by `New` on the same files. File
operations on `FaultyParts` may fail. Resident sizes are small numbers and a
message's content is the set of its parts that are large enough to spill. List
returns any subset of the members.

**Inbox** is what the store promises to those who deliver, read and administer
mail: no mutex, order list, byte account, epochs or files, and no step in
between. A delivery is begun, named, and accepted or refused in one step; it is
refused only if a wipe came after it began, if there is no room and the policy
makes none, or if large parts may fail. A Get answers with a message that is there
or says that it is not when it is not. Mail leaves by a removal, or as the oldest
of it and no more than the caps need. `MessageStore` implements it
(`ImplementsInbox`): the refinement mapping shows of a record its receive time,
size and read bit, and of an Insert whether its epoch is still current; writing
spill files, loading them and the last cleanup are steps nobody sees. Whether the
operator forced a smaller cap is not seen either; ControlPlane has that.

**StoreWait** is `Memory.Wait`: a turn of its loop under the mutex, the read of
spill files without it, the second look, the sleep, and the helper goroutine
that broadcasts when the context is done. A filter is a set of kinds and of
read bits. `quiet` marks the point after which nobody changes the inbox.

**StoreEvents** is the event path. A locked section that emits several events
(an insert with evictions) holds the mutex across several `Emit` steps.
**EventQueue** is what a subscriber is promised: a bounded queue that may refuse
an event at its tail, delivers the rest once and in order, and after cancel may
lose the youngest. `StoreEvents` implements it with the two channels and the
event in the pump's hands as one queue (`ImplementsQueue`).

**SmtpSession** is one session goroutine with its environment: the client, the
clock, live applies and resets. `pc` is where the goroutine is; `Reply` reads
the snapshot again as `replyKeyed` does. `told[t]` is the answer that the client
of transaction `t` got, `stored` what Insert accepted.

**SmtpServer** is the listener: accept loop, `serveConn`, the gate's counters,
reservations of DATA, and Shutdown.

**ControlPlane** is Plan, Apply and Reset with the idempotency cache. A revision
is the canonical state itself. `holder` is the next step of the call that has
`App.mu`, and `Insert` and `Delete` of mail run between its steps. `applied` and
`crowded` are history for the properties: what was applied since the last
reset, and the keys that the cache dropped because it was full.

**Verifier** holds the pure part of `internal/auth`: what `management.auth` and
the secret files compile to (`FromSpec`, with every refusal), when two compiled
identities are the same (`Equivalent`), and whom a credential names. A secret
stands for its digest.

**AuthReload** puts it to work. A reset commits a document under `App.mu`
(`Reset`, with the preflight), an apply none; their hooks then run in steps
that interleave: read the active snapshot, compile it, compare, compare again,
install, refresh the stdio actor, clear the sessions. Requests authenticate,
are authorised and are dispatched in three steps, and streams check their
credential at every tick. The session table is one row per cookie with its
creation and last-seen times. `proc` tells `serve` from the two forms of
`mcp-stdio`. A session also carries the identity it was made under, and
`overlap` remembers that an identity was installed while another reload or a
login was under way; both are for the properties.

**ManagementGate** is the way of a request through `serveHTTP` of REST, the
MailDev mount and MCP: origin, slot, deadline, routing, rate, authentication,
handler, and each way out. Time is kept as ages of buckets and as what is left
of deadlines, so it need not be bounded. A request's handler is a short one, a wait
with its budget, or a stream. `Stick` holds a handler up for as long as the
environment likes: the server has no `WriteTimeout` (`rest/server.go:40`, `:250`), so a
client that does not read a long list, a raw message or an attachment keeps the handler
in its write, and mail that matches and is gone again keeps a wait turning past its
timer (`memory.go:576`). Such a request keeps its slot until its client goes away or
lets it go on.

**InboxApi** is the inbox as clients see it. A listing over REST or MCP is a
chain of requests tied by a signed cursor (position, generation, key); GET
`/email` is a loop of pages inside one request; deletes and clears are a test of
the generation, a removal, a second read of the generation and an audit event;
a reset wipes, records, and rotates the key. Messages are received, given an id
with the millisecond of that moment, and inserted in separate steps, so receive
times and ids may disagree. `kept` is history: what matched in every state since
a listing began.

**ServeProcess** is the process. `pc` walks the main goroutine through
`serveFromConfig`, `startManagement`, the wait for a signal and
`serveRuntime.shutdown`, with a failing branch for every step that can fail.
Beside it run sessions, requests, the management server's goroutine and the log
writer with a sink that may stall.

The MC modules give the constants their values. MCServe takes `ServeProcess` and
`SmtpServer` together: they describe one process at two grains and share no state, so
each behaviour is of one of them, with that module's own steps and fairness. `Bug_` operators are the mutated
forms listed in `PROJECT.json`: one plausible mistake each, used only to show
that a property can fail.

## Runs

| Run | Instance | Result |
|---|---|---|
| store | 2 sessions, 1 reader, 3 messages of sizes 1 and 3, 2 receive times, 2 parts of which one may fail, 2 directories or none, 2 epochs, restarts | holds, refinement included |
| wait | 2 callers, 3 messages, 2 kinds, read marks, lost files | holds |
| events | 1 subscriber, buffers of 2, 7 events | holds, refinement included |
| smtp_session | 2 transactions, 2 epochs, lifetimes to 2, several specs swapped live | holds |
| control_plane | 3 store caps, 2 keys, a cache of 1, 3 swaps | holds |
| auth_reload | 3 documents, two of which swap their tokens and move the Basic login, 3 secret files, 1 edit, 2 commits in a row, 2 cookies, a table of 1, 1 client, each form of the process | holds |
| gate | 2 clients, 1 slot, a burst of 2, a timeout of 1 and waits of 2 | holds |
| inbox_api | 3 callers, 3 messages of which 2 fit, pages of 1, an audit ring of 1 | holds |
| serve | 2 sessions, 2 clients, a log queue of 1, every failure of starting; a listener with 3 connections, 2 of one address, two sets of limits, Shutdown | holds |
| mcp_wait | the gate's instance | **McpWaitRunsFull fails** |
| smtp_script | a spec with and one without a DATA-END error | **RefusedNotStored fails** |
| basic_swap | one reset between the two documents that swap their tokens, a login | **SessionsOfBasic fails** |

Each failure is a disagreement with a sentence of the repository, which
`findings` quotes. In mcp_wait, REST's deadline cuts short a wait that MCP means to have
none. In smtp_script, a live apply between the two reads of the script refuses a message
that is stored. In basic_swap, `Equivalent` (`auth/verifier.go:205`) compares the index
of Basic's token and not the token it names, though the comments at lines 144 and 180
say "Basic" and "Basic mapping": a reset to a document that lists two tokens in the
other order, and whose Basic login names the one now at the old index, fires no hook,
and a session opened with the old login keeps the old token's role. Other things met while modelling are not runs. What the
properties above claim stops short of them, and says so:

- *Wait.* A Wait whose context is done is not bounded by it: the context is
  tested only when nothing matches, so mail that arrives and disappears between
  the two looks keeps the call going. `WaitReturns` claims a return only once the
  inbox is left alone. MarkRead does not broadcast, so a Wait for read mail
  (`unread=false`) sleeps on although a message matches.
- *Store.* List answers ErrSpill when a concurrent Delete took the file it
  reads, where docs/03-message-store.md:70 speaks of a file that is missing
  for a recorded message. After Configure (which nothing in `cmd/` calls)
  moves the spill directory, a wipe leaves the files in the old one.
- *SMTP.* The in-flight budget counts the declared SIZE and not what is buffered.
  `setActive` reads the count and sets the gauge under two locks, so the gauge of
  active sessions may stay at an older value.
- *Idempotency.* A plan whose revision conflicts removes the cache entry of its
  key, and with it an apply's result under the same key, so that a retry of that
  apply runs again (`mutate.go:47`, `:87`). `AppliedOnce` excludes such keys.
- *Listings.* GET `/email` may miss a message when the newer of two received in
  the same millisecond is deleted between two of its pages.
- *Guards.* A guarded delete or clear tests the generation and removes in two
  locked sections, so a clear may take mail that came in between.
  `GuardWasCurrent` says what is left: a guard that was already stale when its
  request came in changes nothing.
- *Slots.* A handler in a write that its client does not read keeps its slot, since
  `WriteTimeout` is 0 and the request's deadline does not reach the write.
  `SlotsComeBack` claims a slot back only of a request that is not held up.
- *Identity.* `QuietMeansCurrent` says of sessions what `Equivalent` makes sure of:
  the same mode and tokens, and a Basic login of the same user, password and index.
  It leaves out overlaps. Two reloads that overlap may install the older identity last, and a
  login that overlaps one may leave a session of the old identity; nothing
  corrects either until the next commit or the session's expiry.
- *Process.* When starting fails after management is up, `shutdown` gets a
  context without a deadline and waits for an open stream. `stopLogs` does not
  wait for Drain. The pid file is removed even by a process that did not write it.
  A session that outlives the deadline may store mail after the wipe.

Bounds and why they suffice. *Store*: two sessions and three messages allow an
insert that evicts another session's mail while it holds temporary files, and
receive times out of order with a tie; two parts give a job that fails half-way,
two directories a reset that moves the spill, two epochs a stale insert and the
one after it. A state constraint explores the instance from two sides: one with
all three messages and sizes and no file, the other with spilled parts and fewer
messages, in which a reader is followed until it has its answer. Sessions are
symmetric, and the run has no liveness. One part may fail, so here the abstract inbox
excuses every error of a Get; without faulty parts, where it excuses none that has no
other reason, the theorem speaks.
*Events*: two-place buffers and seven events fill both channels and the pump's hand,
drop, and go on. *SMTP*: two transactions show that the first leaves nothing
to the second, and a lifetime of two ticks lets a deadline be re-armed. *Control
plane*: two keys overflow a cache of one, and three swaps allow a change, a change
back and a retry. *Identity*: two commits give a demotion and its reversal, or a
reload over a changed file followed by one over the old; one edit changes or
removes a file between any two steps of a reload; a table of one evicts. Two documents
differ only in the order of their tokens and in whom the Basic login stands for, the
third is the development mode with a token that lost `mail.read`. The secret that
clients present is the second token's and the Basic password. *Gate*: with
one slot every leak shows as a refusal that never ends; a burst of two and a window
of two tell a full bucket from a forgotten one; a wait of two outlives a timeout
of one; any handler may be held up and let go. Two loads are taken, one with a rate
limit and two kinds of request, one without and with all kinds. *Inbox*: three messages with two that fit give a
listing of several pages with an arrival, an eviction and a deletion in between;
a ring of one loses an event at the next one. Two scenarios are taken: one caller
lists while another deletes, clears and resets; one reads the audit log while
two mutate. *Process*: a queue of one is full at the second record; two sessions and
two clients show one ending in time and one not.

Deadlock is not checked where the system may stop: an ended session, a drained
server or process, an events run at its bound, clients with nothing more to ask.

Fairness. In `StoreWait`, `StoreEvents` and `SmtpServer` every goroutine that can
take a step does so in the end, the mutex included (Go's mutexes are starvation
free and its scheduler is fair); clients, timers of callers and administrators
are not fair. In `SmtpSession` the goroutine's own steps, the clock and an
expired deadline are fair; the client is not. `ShutdownDrains` needs that the
read of a closed connection fails, which `Forced` states. In `AuthReload` the steps
of reloads and requests and the heartbeat of a stream are fair; logins, edits and
commits are not. In `ManagementGate` the clock, the steps of a request before its
handler, and the end of Shutdown are fair: what precedes the handler is finite work,
and the problem documents it answers with are small enough to be buffered and sent
after `serveHTTP` has returned; reading a request's body is bounded by `ReadTimeout`
(`rest/server.go:37`, `:249`). The return of a short handler and an expired timer are
fair only while the request is not held up, and nothing makes a request that is held up
go on: no client must read or leave, and mail may come and go. `SlotsComeBack` therefore
ends in "or it is held up". What it says is that no deadline, timer or gate between the
slot and the answer is missing for the others: the wait that has no deadline of its own
ends by its budget, and the listen under REST's deadline ends with it.
In `ServeProcess` only the main goroutine and the shutdown timer are fair: sessions,
streams and the log sink may stay for ever, and `SignalEnds` holds all the same.

## Proofs

**MessageStoreProofs** proves `StoreInv` inductive for all sets of sessions,
readers, directories, parts, sizes, times and options, with faults and
`Configure`. `CapsHeld` is inductive with the types alone.
`MembersReadable` is not: a commit is safe only because its temporary files are
still there, which holds only while its epoch is current (`FreshTempsKept`,
`FreshWriteKept`), because only a wipe clears a directory and a wipe changes the
epoch; and an abort or an eviction removes no file of another message because
file names carry ids (`FilesNamed`, `IdsDistinct`). `MissingMeansGone` adds what
a Get or List knows of the records it saw (`ReadersSeePublished`). From it follow
`TypeCorrect`, `CapsAlwaysHeld`, `NoStaleMail` (no member is of an epoch before the
last wipe, which no run checks by itself: a stale Insert that lands breaks
`ImplementsInbox`), `SpillKept` and `GetLooksTwice`.

Relative to `StoreInv`, two more invariants are inductive. `IndexInv` is
`IndexExact` with the set behind the byte account finite: the resident bytes are the
size of a set of pairs (id, byte number), so the theorems on finite sets give what an
insert or an eviction does to them, where the provers would not unfold a sum.
`IndexAlwaysExact` follows, and `EvictionIsMinimal`: k evictions remove the prefix of
the order of length k, and the guard that failed for k - 1 is what the property
says of one victim fewer. `OwnInv` is `OwnedFiles` with what an Insert has written so
far (`Unwritten`, `JobHere`), ids on disk being older than the next id (`DiskOlder`)
and files being in the current directory (`FilesHere`); `FilesAlwaysOwned` assumes
`ConfigureMoves = FALSE`, as the run does, because a wipe clears only the current
directory, and only tests call `Configure` with another.

`StoreImplementsInbox` is the refinement, for every instance, with and without faults.
It has one lemma per step that callers see, and each needs one of the invariants: an
Insert that finds no run of evictions is refused because there is none to find
(`NoneFits`, from the order and the account), never because its rename lost a file
(`FreshTempsKept`); a wipe voids each delivery in progress because no captured epoch is
ahead (`EpochsBounded`); a Get that lost a file says so of a message that left
(`MissingMeansGone`), and a List fails only over one that did (`MembersReadable` with
`ReadersSeePublished`); the caps after a wipe are ones an operator may install
(`CapsOffered`). `ShortestRun` turns the prefix of the order that was evicted into
"the oldest, and as few as make room", for inserts and for new caps alike.

**ControlPlaneProofs** proves `ControlInv`: `CapsAgree` speaks only of a free
`App.mu`, so the invariant says for each step of a call whose caps the store
has (`CapsFollow`) and that the candidate was compiled from the live snapshot
(`CandidateKnown`). From it follow `CapsAlwaysAgree`, `BootstrapAlwaysKnown` and
the two action properties `EvictionPermitted` and `NoUpdateLost`. `OnceInv`, relative
to it, is about the idempotency cache: the cache has one entry per key, every applied
request is remembered in it or is the one being recorded (`AppliedRemembered`), and a
request between `lookup` and the swap was not applied before (`NewRequest`). Lemmas
say what unlinking, moving to the front and cropping do to the list, and
`CacheStep` what no operation may do to it: forget a key without counting it as
crowded out. `RequestsAppliedOnce` and `ControlTypeOK` follow.

**SmtpProofs** holds the theorems of SmtpSession and SmtpServer, which together are
the SMTP server. It proves `SessionInv` for every set of snapshots that may be
installed between any two steps. `OneTransaction` alone is not inductive: that a
new envelope is clean needs that every way back to the greeting or HELO state
emptied it, and that a transaction is stored once needs that what is stored is
older than the envelope in progress, except while its reply is due
(`StoredBefore`). `EnvelopesNeverMix`, `AcknowledgedIsStored`,
`AuthStaysOnChannel` and `NoBodyCrossesReset` follow. For the listener it proves
`ServerInv`, for every number of connections and addresses: each counter of the gate
is the size of the set it counts, the sessions between acquire and release, those of
one address, those in DATA (`SessionsExact`, `DataExact`), and `Server.wg` counts the
goroutines under way (`Tracked`). The reserved bytes are the size of a set of pairs
(connection, byte number), as in the store. `GateAlwaysExact` and
`ServerTypeCorrect` follow.

**ServeProcessProofs** proves `ServeInv`, a table of what is bound, serving and
written at each group of program points, for every number of sessions and clients.
`ReadyIsAccepting` and `NothingLeftBehind` follow, and with it the action
property `WipeIsLast`.

**StoreEventsProofs** proves `EventsInv`: how far subscribing and cancelling have
come and what follows for both channels (`Protocol`), that the generations in the
pipe rise (`Ordered`), and `NoGap`. One lemma, `Flow`, says what the four kinds of
step (keep, grow, shift, crop) do to a rising sequence, and each action is an
instance of it. `NeverSendsOnClosed` and `NothingMissing` follow, and
`EventsImplementQueue` is the refinement of `EventQueue`: every step of emit, pump or
consumer is one step of the abstract queue or none.

**StoreWaitProofs** proves `WaitInv`. `SleepersMissNothing` needs that a call whose
context is open has its helper (`Helped`); the gauge needs the cardinality of the
sleeping callers (`Counted`). From it follow `NoWakeUpLost` and `WaitTypeCorrect`.

**ManagementProofs** holds the theorems of ManagementGate and AuthReload. For the first
it proves `GateInv`: slots are the requests past the gate
(`Slots`), which needs to know which requests can reach MCP's own gates
(`AllSorted`). `SlotsAlwaysExact` and `GateTypeCorrect` follow; the second says that no
bucket goes above its burst or below zero. `RateBound` speaks only of what was let
through, and is not inductive: `RateInv` adds what the source may still ask for
(`Earned`), which a charge moves from one summand to the other, which a tick raises by
the rate at most, and which forgetting an idle bucket leaves alone, since a bucket that
old is full (`TickEarns`). `RateAlwaysBounded` follows.

For AuthReload there are three invariants, each relative to the one before.
`CommitInv` says of every reset whose files are still those of its preflight that the
active document compiles, and so does the one its hook has read (`ResetLoads`);
`CommitsLoad` follows. `AuthInv` adds the values of the session table and of the requests
and that sessions never outnumber `SessionConfig.Max`: every operation on the table
either shrinks it (`Shrinks`, with the sessions it may take) or adds one row
(`Grows`), and a full table in which nothing expired is the only one that pushes a session
out. `AuthTypeCorrect` and `SessionsAreKept` follow. `QuietInv` speaks of reloads under
way that have not overlapped: sessions and logins are of the installed identity unless
its hooks are still running (`SessionsCurrent`), what Replace compared is still what
Install replaces (`ComparedCurrent`), mcp-stdio's actor is right unless its refresh is
due (`StdioCurrent`), and the active document is installed, or held by a hook, or a hook
has still to read it (`ActiveArrives`). `QuietIsCurrent` follows, for all documents.
It compares identities as `Equivalent` does, Basic by the index of its token
(`EquivalentIsSame`): that the index also names the same token is not true of the code,
and basic_swap shows it.

**InboxApiProofs** proves `InboxInv`, for every size of inbox, page and ring. A
listing is followed through its pages by what its rows and its cursor have
covered: every message that was there throughout is among the rows or older than the
cursor, if the generation in the cursor is still the store's. The budget of
`/email` suffices because each page takes `PageLimit` messages out of what is left.
Sorting is by `NewestFirst`, any enumeration of a set from new to old, and that one
exists is proved: the sets of naturals without an enumeration would have a least
size (`LeastNat`, from the well-foundedness of `<`, in place of an induction
theorem). `PagesArePartition`, `EmailIsComplete`, `GuardsWereCurrent` and
`AnswersAreAudited` follow.

Assumptions are the typing of the constants and that limits are not zero where the
code refuses zero (`StoreAssumption`, `ControlAssumption`, `SessionAssumption`,
`ServerAssumption`, `EventsAssumption`, `WaitAssumption`, `GateAssumption`,
`ReloadAssumption`, `ServeAssumption`, `InboxAssumption`); TLC evaluates them in every run.

Only model-checked: liveness (`WaitReturns`, `PumpEnds`, `SessionEnds`,
`ShutdownDrains`, `SlotsComeBack`, `RevokedStreamEnds`, `SignalEnds`), which TLAPS
cannot do under fairness.

## Not modelled

Wire framing, MIME parsing, configuration decoding and validation, HTML preview,
the web assets and the capability tables are pure functions of their input and
hold no state. The contents of log records, metrics other than the waiters gauge,
diffs and the layout of answers are left out, as are the command-line tools under
`scripts/` and the client commands of `cmd/labmail`. TLS handshakes and HTTP
framing belong to Go's library. The filter of a listing is a set of messages.
Failed calls that change nothing are not actions.

## Plan

1. StoreWait, InboxApi and ControlPlane, which each carry a small inbox of their
   own, read against Inbox.
2. Overlapping reloads and logins of AuthReload at a larger instance, with what
   still holds after an overlap.
3. Operators for the line codec, byte sizes and durations.
