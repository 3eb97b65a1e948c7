------------------------------ MODULE InboxApi ------------------------------
(***************************************************************************)
(* The inbox as management clients see it: pages, deletions, read bits and *)
(* the audit trail.                                                        *)
(*                                                                         *)
(* One request of REST, MCP or the MailDev routes is several locked        *)
(* sections of several mutexes (the store's, the cursor key's, the audit   *)
(* ring's), and mail arrives, is evicted, deleted and wiped between any    *)
(* two of them.  A listing is moreover a chain of requests that only a     *)
(* cursor ties together.                                                   *)
(*                                                                         *)
(* MessageStore models the store's own locking, spilling and accounting;   *)
(* here a message is its receive time, its id and its read bit.  Receive   *)
(* times are exact, while the time inside an id, a ULID, is the            *)
(* millisecond in which Insert drew it.                                    *)
(***************************************************************************)
EXTENDS Integers, Sequences, FiniteSets, SequencesExt, FiniteSetsExt

CONSTANTS
    Callers,      \* bound: the requests, or chains of page requests, made
    Scenarios,    \* what the callers may ask for, and a bound on the messages
    MaxMessages,  \* store.maxMessages
    EvictOldest,  \* store.fullPolicy is evict_oldest, not reject
    PageLimit,    \* rows of one page: MaxListLimit, and compat's listPage
    AuditMax,     \* size of the audit ring
    AuditLimit,   \* rows of one audit page
    PerMs,        \* ticks of the exact clock in one millisecond
    MaxNow,       \* bound: ticks
    MaxHeld,      \* bound: messages received and not yet inserted
    MaxEpoch,     \* bound: resets
    MaxEvents,    \* bound: audit events
    NoGuard       \* a deletion without expectedStoreGeneration

ASSUME InboxAssumption ==
    /\ Scenarios \subseteq
          [asks : [Callers -> SUBSET {"page", "email", "delete", "clear", "reset", "audit"}],
           mail : Nat]
    /\ {MaxMessages, PageLimit, AuditMax, AuditLimit, PerMs} \subseteq Nat \ {0}
    /\ EvictOldest \in BOOLEAN
    /\ NoGuard \notin Nat

VARIABLES
    scene,   \* the scenario
    now,     \* the exact clock
    held,    \* messages received, with their id once Insert has drawn it
    msgs,    \* the inbox: id -> [at, read]
    minted,  \* minted[id]: the millisecond inside the id
    gen,     \* store generation
    epoch,   \* store epoch
    key,     \* cursorKey, as the number of rotations
    ring,    \* audit events, oldest first
    nextID,  \* audit ids given
    call,    \* the request of each caller
    kept     \* messages that matched in every state since a listing began

store == <<msgs, minted, gen, epoch>>
audit == <<ring, nextID>>
vars == <<scene, now, held, store, key, audit, call, kept>>

-----------------------------------------------------------------------------
(* The order of the inbox.                                                 *)

Inbox == DOMAIN msgs

\* newerThanCursor, and the order insertOrderLocked keeps.
NewerThan(id, at, other) ==
    msgs[id].at > at \/ (msgs[id].at = at /\ id > other)

NewestFirst(S) ==
    CHOOSE s \in [1..Cardinality(S) -> S] :
        \A i, j \in DOMAIN s : i < j => NewerThan(s[i], msgs[s[j]].at, s[j])

Oldest == CHOOSE id \in Inbox : \A o \in Inbox \ {id} : NewerThan(o, msgs[id].at, id)

\* resolveCursorLocked: the receive time of a message that is there, the
\* time inside the id of one that is gone.
CursorAt(cur) == IF cur \in Inbox THEN msgs[cur].at ELSE minted[cur] * PerMs

Bug_After(cur) ==
    IF cur = 0 THEN Inbox ELSE {id \in Inbox : ~NewerThan(id, CursorAt(cur), cur)}

\* The rows List passes over to reach, and then stops passing over.
After(cur) ==
    IF cur = 0 THEN Inbox ELSE {id \in Inbox \ {cur} : ~NewerThan(id, CursorAt(cur), cur)}

\* matchFilter, for the one filter whose answer changes: unread.
Matches(c, m) == ~(call[c].unread /\ m.read)

\* List: one page and the cursor of the next, 0 when nothing is left.
Page(c, cur) ==
    LET rows == NewestFirst({id \in After(cur) : Matches(c, msgs[id])})
        page == SubSeq(rows, 1, Min({PageLimit, Len(rows)}))
    IN  [rows |-> page, next |-> IF Len(rows) > PageLimit THEN Last(page) ELSE 0]

-----------------------------------------------------------------------------
(* Requests.                                                               *)

NoCursor == [id |-> 0, gen |-> 0, key |-> 0]

Idle == [op |-> "none", pc |-> "idle", unread |-> FALSE, cur |-> NoCursor,
         rows |-> <<>>, left |-> 0, from |-> 0, to |-> 0, expect |-> NoGuard,
         target |-> 0, event |-> 0, ans |-> "none"]

Init == /\ scene \in Scenarios
        /\ now = 0
        /\ held = {}
        /\ msgs = <<>>
        /\ minted = <<>>
        /\ gen = 0
        /\ epoch = 1
        /\ key = 0
        /\ ring = <<>>
        /\ nextID = 0
        /\ call = [c \in Callers |-> Idle]
        /\ kept = [c \in Callers |-> {}]

At(c, p) == call[c].pc = p

Go(c, r) == call' = [call EXCEPT ![c] = r]

\* The answer a client gets, and what the properties need of the request.
Answer(c, r, a) ==
    Go(c, [r EXCEPT !.pc = "idle", !.ans = a, !.cur = NoCursor, !.left = 0, !.expect = NoGuard])

\* The inbox becomes m; what no longer matches leaves the sets kept.
Becomes(m) ==
    /\ msgs' = m
    /\ kept' = [c \in Callers |->
                  {id \in kept[c] : id \in DOMAIN m /\ Matches(c, m[id])}]

Without(S) == [id \in Inbox \ S |-> msgs[id]]

-----------------------------------------------------------------------------
(* Mail: SMTP sets the receive time at the end of DATA, Insert draws the   *)
(* id before it takes the lock, and the locked section may refuse.         *)

Tick == /\ now < MaxNow
        /\ now' = now + 1
        /\ UNCHANGED <<held, store, key, audit, call, kept>>

Receive ==
    /\ Cardinality(held) < MaxHeld
    /\ held' = held \cup {[at |-> now, id |-> 0, epoch |-> epoch]}
    /\ UNCHANGED <<now, store, key, audit, call, kept>>

\* ulid.Make: ids grow, and carry the millisecond.
Mint(h) ==
    /\ h.id = 0
    /\ Len(minted) < scene.mail
    /\ minted' = Append(minted, now \div PerMs)
    /\ held' = (held \ {h}) \cup {[h EXCEPT !.id = Len(minted')]}
    /\ UNCHANGED <<now, msgs, gen, epoch, key, audit, call, kept>>

\* fitsLocked, for the count of messages.
Fits == Cardinality(Inbox) < MaxMessages

\* The locked section of Insert: a wipe since the session began, or a full
\* inbox under reject, refuses; otherwise evict the oldest and index.
Insert(h) ==
    /\ h.id # 0
    /\ held' = held \ {h}
    /\ LET evicted == IF Fits THEN {} ELSE {Oldest}
           base == Without(evicted)
       IN IF h.epoch = epoch /\ (Fits \/ EvictOldest)
          THEN /\ Becomes([id \in DOMAIN base \cup {h.id} |->
                             IF id = h.id THEN [at |-> h.at, read |-> FALSE] ELSE base[id]])
               /\ gen' = gen + Cardinality(evicted) + 1
          ELSE UNCHANGED <<msgs, gen, kept>>
    /\ UNCHANGED <<now, minted, epoch, key, audit, call>>

-----------------------------------------------------------------------------
(* Read bits.  The generation does not move.                               *)

Marked(S) ==
    /\ S # {}
    /\ Becomes([id \in Inbox |-> IF id \in S THEN [msgs[id] EXCEPT !.read = TRUE] ELSE msgs[id]])
    /\ UNCHANGED <<now, held, minted, gen, epoch, key, audit, call>>

MarkRead(id) == Marked({id})

MarkAllRead == Marked(Inbox)

\* GetMessage with markRead, which the MailDev routes always set.
GetMessage(id) == Marked({id})

-----------------------------------------------------------------------------
(* Listing over REST and MCP: handleListMessages, listMessages.            *)

\* A caller makes one request, or one chain of them.
Begin(c, op) == call[c] = Idle /\ op \in scene.asks[c]

\* A request without a cursor.
BeginPages(c, unread) ==
    /\ Begin(c, "page")
    /\ Go(c, [Idle EXCEPT !.op = "page", !.pc = "list", !.unread = unread])
    /\ kept' = [kept EXCEPT ![c] = {}]
    /\ UNCHANGED <<now, held, store, key, audit>>

\* decodeCursor: the client comes back with the cursor of the last page.
DecodeCursor(c) ==
    /\ At(c, "next")
    /\ IF call[c].cur.key = key
       THEN Go(c, [call[c] EXCEPT !.pc = "list"])
       ELSE Answer(c, call[c], "stale")
    /\ UNCHANGED <<now, held, store, key, audit, kept>>

Bug_CursorFresh(cur) == TRUE

\* cursorGen = res.Generation, tested when there was a cursor.
CursorFresh(cur) == cur.id = 0 \/ cur.gen = gen

\* What kept becomes when a listing takes its first page.
Watch(c) ==
    kept' = [kept EXCEPT ![c] =
        IF call[c].cur.id = 0 THEN {id \in Inbox : Matches(c, msgs[id])} ELSE @]

\* ListMessages and the comparison of its generation with the cursor's.
ListPage(c) ==
    /\ At(c, "list")
    /\ Watch(c)
    /\ LET res == Page(c, call[c].cur.id)
           more == [call[c] EXCEPT !.rows = @ \o res.rows]
       IN IF ~CursorFresh(call[c].cur)
          THEN Answer(c, call[c], "stale")
          ELSE IF res.next = 0
               THEN Answer(c, more, "ok")
               ELSE Go(c, [more EXCEPT !.pc = "encode", !.cur.id = res.next, !.cur.gen = gen])
    /\ UNCHANGED <<now, held, store, key, audit>>

\* encodeCursor signs with the key of this moment.
EncodeCursor(c) ==
    /\ At(c, "encode")
    /\ Go(c, [call[c] EXCEPT !.pc = "next", !.cur.key = key])
    /\ UNCHANGED <<now, held, store, key, audit, kept>>

-----------------------------------------------------------------------------
(* GET /email: listAll asks for page after page inside one request.        *)

\* listPageBudget.
ListPageBudget == (MaxMessages + PageLimit - 1) \div PageLimit + 1

BeginEmail(c) ==
    /\ Begin(c, "email")
    /\ Go(c, [Idle EXCEPT !.op = "email", !.pc = "pages", !.left = ListPageBudget])
    /\ kept' = [kept EXCEPT ![c] = {}]
    /\ UNCHANGED <<now, held, store, key, audit>>

\* One round of the loop.  The store's own cursor, and no generation.
EmailPage(c) ==
    /\ At(c, "pages")
    /\ Watch(c)
    /\ LET cur == call[c].cur.id
           res == Page(c, cur)
           more == [call[c] EXCEPT !.rows = @ \o res.rows, !.left = @ - 1, !.to = gen,
                                   !.from = IF cur = 0 THEN gen ELSE @]
       IN IF res.next \in {0, cur} \/ call[c].left = 1
          THEN Answer(c, more, "ok")
          ELSE Go(c, [more EXCEPT !.cur.id = res.next])
    /\ UNCHANGED <<now, held, store, key, audit>>

-----------------------------------------------------------------------------
(* DeleteMessage and ClearMessages: three locked sections and the ring.    *)

\* deleteIn: the body, the query or If-Match may name a generation.
BeginDelete(c, op, id, expect) ==
    /\ Begin(c, op)
    /\ op \in {"delete", "clear"}
    /\ Go(c, [Idle EXCEPT !.op = op, !.pc = "match", !.target = id, !.expect = expect,
                          !.from = gen])
    /\ UNCHANGED <<now, held, store, key, audit, kept>>

\* What a client of REST or MCP may name: nothing, the last generation, this one.
Guards == {NoGuard, gen - 1, gen}

\* DELETE /email/:id and /email/all name no generation.
CompatDelete(c, op, id) == BeginDelete(c, op, id, NoGuard)

Bug_Expected(c) == TRUE

\* matchStoreGeneration.
Expected(c) == call[c].expect \in {NoGuard, gen}

MatchStep(c) ==
    /\ At(c, "match")
    /\ IF Expected(c)
       THEN Go(c, [call[c] EXCEPT !.pc = "remove"])
       ELSE Answer(c, call[c], "conflict")
    /\ UNCHANGED <<now, held, store, key, audit, kept>>

\* Delete answers ErrNotFound for a message that is gone; DeleteAll never.
Removable(c) == call[c].op = "clear" \/ call[c].target \in Inbox

\* Delete and DeleteAll: the generation counts every message removed.
RemoveStep(c) ==
    /\ At(c, "remove")
    /\ LET gone == IF call[c].op = "clear" THEN Inbox ELSE {call[c].target} \cap Inbox
       IN IF Removable(c)
          THEN /\ Becomes(Without(gone))
               /\ gen' = gen + Cardinality(gone)
               /\ Go(c, [call[c] EXCEPT !.pc = "note", !.to = gen'])
          ELSE /\ Answer(c, call[c], "notfound")
               /\ UNCHANGED <<msgs, gen, kept>>
    /\ UNCHANGED <<now, held, minted, epoch, key, audit>>

-----------------------------------------------------------------------------
(* Reset: the wipe and the event under App.mu, the hooks after it.         *)

Resetting == {c \in Callers : call[c].op = "reset" /\ call[c].pc \in {"note", "append"}}

BeginReset(c) ==
    /\ Begin(c, "reset")
    /\ Resetting = {}
    /\ epoch < MaxEpoch
    /\ epoch' = epoch + 1
    /\ gen' = gen + 1
    /\ msgs' = <<>>
    /\ kept' = [d \in Callers |-> {}]
    /\ Go(c, [Idle EXCEPT !.op = "reset", !.pc = "note", !.to = gen'])
    /\ UNCHANGED <<now, held, minted, key, audit>>

\* RotateCursors, a hook of the adapter the client talks to.
RotateCursors(c) ==
    /\ At(c, "rotate")
    /\ key' = key + 1
    /\ Answer(c, call[c], "ok")
    /\ UNCHANGED <<now, held, store, audit, kept>>

-----------------------------------------------------------------------------
(* The audit trail.                                                        *)

\* The event's StoreGeneration, read under the store's mutex.
Note(c) ==
    /\ At(c, "note")
    /\ Go(c, [call[c] EXCEPT !.pc = "append", !.from = gen, !.expect = NoGuard])
    /\ UNCHANGED <<now, held, store, key, audit, kept>>

Bug_Appended(ev) == IF Len(ring) < AuditMax THEN Append(ring, ev) ELSE ring

\* Ring.Append: the oldest falls off the front.
Appended(ev) ==
    LET all == Append(ring, ev)
    IN  IF Len(all) > AuditMax THEN Tail(all) ELSE all

\* recordAudit; then the answer, or a reset's hooks.
RecordAudit(c) ==
    /\ At(c, "append")
    /\ nextID < MaxEvents
    /\ nextID' = nextID + 1
    /\ ring' = Appended([id |-> nextID', op |-> call[c].op, message |-> call[c].target,
                         gen |-> call[c].from])
    /\ LET r == [call[c] EXCEPT !.event = nextID', !.pc = "rotate"]
       IN IF r.op = "reset" THEN Go(c, r) ELSE Answer(c, r, "ok")
    /\ UNCHANGED <<now, held, store, key, kept>>

\* Ring.List: newest first, at most AuditLimit.
AuditPage == SubSeq(Reverse(ring), 1, Min({AuditLimit, Len(ring)}))

\* QueryAudit, after which the client asks for one event of the page.
QueryAudit(c, j) ==
    /\ Begin(c, "audit")
    /\ j \in DOMAIN AuditPage
    /\ Go(c, [Idle EXCEPT !.op = "audit", !.pc = "get", !.target = AuditPage[j].id])
    /\ UNCHANGED <<now, held, store, key, audit, kept>>

\* Ring.Get.
GetAudit(c) ==
    /\ At(c, "get")
    /\ Answer(c, call[c], IF \E j \in DOMAIN ring : ring[j].id = call[c].target
                          THEN "ok" ELSE "notfound")
    /\ UNCHANGED <<now, held, store, key, audit, kept>>

-----------------------------------------------------------------------------
Mail == Tick \/ Receive \/ (\E h \in held : Mint(h) \/ Insert(h))

Mark == (\E id \in Inbox : MarkRead(id) \/ GetMessage(id)) \/ MarkAllRead

Listing(c) ==
    \/ \E unread \in BOOLEAN : BeginPages(c, unread)
    \/ DecodeCursor(c) \/ ListPage(c) \/ EncodeCursor(c)
    \/ BeginEmail(c) \/ EmailPage(c)

Deleting(c) ==
    \/ \E id \in 1..Len(minted) : \/ \E expect \in Guards : BeginDelete(c, "delete", id, expect)
                                 \/ CompatDelete(c, "delete", id)
    \/ \E expect \in Guards : BeginDelete(c, "clear", 0, expect)
    \/ CompatDelete(c, "clear", 0)
    \/ MatchStep(c) \/ RemoveStep(c)
    \/ BeginReset(c) \/ RotateCursors(c)
    \/ Note(c) \/ RecordAudit(c)

Auditing(c) == (\E j \in 1..AuditLimit : QueryAudit(c, j)) \/ GetAudit(c)

Next ==
    /\ UNCHANGED scene
    /\ Mail \/ Mark \/ \E c \in Callers : Listing(c) \/ Deleting(c) \/ Auditing(c)

Spec == Init /\ [][Next]_vars

-----------------------------------------------------------------------------
(* Properties.                                                             *)

\* The variables have their types, and the bounds of the inbox (store.maxMessages)
\* and of the audit ring hold.
TypeOK ==
    /\ scene \in Scenarios
    /\ now \in 0..MaxNow
    /\ held \subseteq [at : 0..MaxNow, id : 0..scene.mail, epoch : 1..MaxEpoch]
    /\ Inbox \subseteq 1..Len(minted)
    /\ \A id \in Inbox : msgs[id] \in [at : 0..MaxNow, read : BOOLEAN]
    /\ Len(minted) <= scene.mail
    /\ Cardinality(Inbox) <= MaxMessages
    /\ epoch \in 1..MaxEpoch
    /\ key \in 0..MaxEpoch
    /\ Len(ring) <= AuditMax
    /\ nextID \in 0..MaxEvents

Once(c) == IsInjective(call[c].rows)

Complete(c) == Once(c) /\ kept[c] \subseteq ToSet(call[c].rows)

\* A listing over REST or MCP that was never told cursor_stale has shown
\* every message that matched from its first page to its last, and none of
\* them twice, whatever arrived, was deleted, evicted, wiped or read between
\* its pages: the generation inside the cursor is enough, although the
\* position inside it is a message that may be gone.
PagesPartition ==
    \A c \in Callers : call[c].op = "page" /\ call[c].ans = "ok" => Complete(c)

\* GET /email, which tests no generation, is complete when no membership
\* change fell between its pages, and its budget of pages is enough.
QuietEmailComplete ==
    \A c \in Callers :
        call[c].op = "email" /\ call[c].ans = "ok" /\ call[c].from = call[c].to => Complete(c)

\* A deletion with expectedStoreGeneration only takes effect if that
\* generation was the store's at some moment of the request; a request that
\* was stale when it came in changes nothing.  (The test and the removal are
\* two locked sections, so it may be stale when it takes effect.)
GuardWasCurrent ==
    \A c \in Callers : At(c, "note") /\ call[c].expect # NoGuard =>
        call[c].from <= call[c].expect

\* A client that was answered ok finds its event by id until AuditMax later
\* events have been recorded, and an event that was on a page is missing
\* only for that reason.
AnsweredMeansAudited ==
    \A c \in Callers :
        /\ call[c].event # 0 =>
            \/ \E j \in DOMAIN ring : ring[j].id = call[c].event /\ ring[j].op = call[c].op
            \/ nextID - call[c].event >= AuditMax
        /\ call[c].op = "audit" /\ call[c].ans = "notfound" => nextID - call[c].target >= AuditMax
=============================================================================
