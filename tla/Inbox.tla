------------------------------- MODULE Inbox -------------------------------
(***************************************************************************)
(* What the inbox promises to those who deliver, read and administer mail, *)
(* without its mutex, order list, byte account, epochs, spill files or the *)
(* steps between them.                                                     *)
(*                                                                         *)
(* A delivery lands in one step or not at all, and only if no wipe came    *)
(* after its DATA; a Get answers for the inbox of the moment it answers;   *)
(* messages leave by a deletion, a wipe, or an eviction that takes the     *)
(* oldest and no more of them than the caps need.                          *)
(***************************************************************************)
EXTENDS Integers, FiniteSets

CONSTANTS Sessions,     \* SMTP sessions that deliver
          Readers,      \* calls of Get and List
          CapSet,       \* the caps an operator can install
          Sizes, Times, \* of the messages that arrive
          MayFail       \* TRUE: reading and writing of large parts may fail

VARIABLES msgs,         \* id -> receive time, size, read or not
          caps,
          mail,         \* per session: its delivery in progress
          look,         \* per reader: its Get or List in progress
          next          \* the next id

vars == <<msgs, caps, mail, look, next>>

Nothing == [id \in {} |-> id]
NoMail == [st |-> "none", valid |-> FALSE, id |-> 0, at |-> 0, size |-> 0]
NoLook == [op |-> "idle", page |-> {}, mark |-> FALSE, res |-> "none"]

Init == /\ msgs = Nothing
        /\ caps \in CapSet
        /\ mail = [s \in Sessions |-> NoMail]
        /\ look = [r \in Readers |-> NoLook]
        /\ next = 1

-----------------------------------------------------------------------------
Bytes(S) == Cardinality(UNION {{id} \X (1..msgs[id].size) : id \in S})

\* The messages S, with n more of b bytes, keep to the caps c.
Room(S, n, b, c) == /\ Cardinality(S) + n <= c.maxMessages
                    /\ Bytes(S) + b <= c.maxBytes

Older(a, b) == \/ msgs[a].at < msgs[b].at
               \/ msgs[a].at = msgs[b].at /\ a < b

\* E are the oldest messages, and as few as make that room: with the
\* youngest of them still there it would be too small.
OldestFew(E, n, b, c) ==
    LET rest == DOMAIN msgs \ E
    IN  /\ Room(rest, n, b, c)
        /\ \A a \in E, d \in rest : Older(a, d)
        /\ E # {} => \E y \in E : /\ \A a \in E \ {y} : Older(a, y)
                                  /\ ~Room(rest \cup {y}, n, b, c)

Without(E) == [id \in DOMAIN msgs \ E |-> msgs[id]]
Seen(S) == [id \in DOMAIN msgs |-> IF id \in S THEN [msgs[id] EXCEPT !.read = TRUE]
                                               ELSE msgs[id]]

-----------------------------------------------------------------------------
(* Delivery.                                                               *)

Begin(s) == /\ mail[s].st = "none"
            /\ mail' = [mail EXCEPT ![s] =
                          [NoMail EXCEPT !.st = "begun", !.valid = TRUE]]
            /\ UNCHANGED <<msgs, caps, look, next>>

\* The message gets its id; one above the caps is refused there and then.
Name(s, at, size) ==
    /\ mail[s].st = "begun"
    /\ mail' = [mail EXCEPT ![s] =
                  IF size > caps.maxBytes
                  THEN NoMail
                  ELSE [st |-> "named", valid |-> mail[s].valid, id |-> next,
                        at |-> at, size |-> size]]
    /\ next' = next + 1
    /\ UNCHANGED <<msgs, caps, look>>

Accept(s, E) ==
    /\ mail[s].st = "named" /\ mail[s].valid
    /\ mail' = [mail EXCEPT ![s] = NoMail]
    /\ msgs' = [id \in (DOMAIN msgs \ E) \cup {mail[s].id} |->
                  IF id = mail[s].id
                  THEN [at |-> mail[s].at, size |-> mail[s].size, read |-> FALSE]
                  ELSE msgs[id]]
    /\ UNCHANGED <<caps, look, next>>
    /\ OldestFew(E, 1, mail[s].size, caps)
    /\ E # {} => caps.fullPolicy = "evict_oldest"

\* There is no room for a message of b bytes, and the policy makes none.
Full(b) == \/ b > caps.maxBytes
           \/ caps.fullPolicy = "reject" /\ ~Room(DOMAIN msgs, 1, b, caps)

\* A refusal changes nothing, and has one of three reasons.
Refuse(s) == /\ mail[s].st = "named"
             /\ ~mail[s].valid \/ Full(mail[s].size) \/ MayFail
             /\ mail' = [mail EXCEPT ![s] = NoMail]
             /\ UNCHANGED <<msgs, caps, look, next>>

-----------------------------------------------------------------------------
(* Reading.                                                                *)

Answer(r, res) == look' = [look EXCEPT ![r] = [NoLook EXCEPT !.res = res]]

Get(r, id, mark) ==
    /\ look[r].op = "idle"
    /\ IF id \in DOMAIN msgs
       THEN look' = [look EXCEPT ![r] = [op |-> "get", page |-> {id}, mark |-> mark,
                                         res |-> "none"]]
       ELSE Answer(r, "notFound")
    /\ UNCHANGED <<msgs, caps, mail, next>>

List(r, page) ==
    /\ look[r].op = "idle"
    /\ look' = [look EXCEPT ![r] = [op |-> "list", page |-> page, mark |-> FALSE,
                                    res |-> "none"]]
    /\ UNCHANGED <<msgs, caps, mail, next>>

\* A Get answers with the message, which is still there, and marks it; or it
\* says that the message is not there, and it is not.
GetAnswers(r) ==
    /\ look[r].op = "get"
    /\ IF look[r].page \subseteq DOMAIN msgs
       THEN /\ Answer(r, "ok")
            /\ msgs' = IF look[r].mark THEN Seen(look[r].page) ELSE msgs
       ELSE /\ Answer(r, "notFound")
            /\ UNCHANGED msgs
    /\ UNCHANGED <<caps, mail, next>>

ListAnswers(r) == /\ look[r].op = "list"
                  /\ Answer(r, "ok")
                  /\ UNCHANGED <<msgs, caps, mail, next>>

\* A Get fails only if a large part cannot be read, a List also if one of
\* its messages left meanwhile.
ReadFails(r) == /\ \/ look[r].op # "idle" /\ MayFail
                   \/ look[r].op = "list" /\ ~(look[r].page \subseteq DOMAIN msgs)
                /\ Answer(r, "errSpill")
                /\ UNCHANGED <<msgs, caps, mail, next>>

-----------------------------------------------------------------------------
(* Administration.                                                         *)

Delete(E) == /\ msgs' = Without(E)
             /\ UNCHANGED <<caps, mail, look, next>>

MarkRead(S) == /\ msgs' = Seen(S)
               /\ UNCHANGED <<caps, mail, look, next>>

\* That the operator forced it, or has the policy for it, is not seen here.
ReplaceCaps(c, E) == /\ caps' = c
                     /\ msgs' = Without(E)
                     /\ UNCHANGED <<mail, look, next>>
                     /\ OldestFew(E, 0, 0, c)

\* A wipe also voids the deliveries in progress.
Reset(c) == /\ msgs' = Nothing
            /\ caps' = c
            /\ mail' = [s \in Sessions |-> [mail[s] EXCEPT !.valid = FALSE]]
            /\ UNCHANGED <<look, next>>

Restart(c) == /\ msgs' = Nothing
              /\ caps' = c
              /\ mail' = [s \in Sessions |-> NoMail]
              /\ look' = [r \in Readers |-> NoLook]
              /\ UNCHANGED next

-----------------------------------------------------------------------------
Deliver(s) == \/ Begin(s)
              \/ \E at \in Times, size \in Sizes : Name(s, at, size)
              \/ \E E \in SUBSET DOMAIN msgs : Accept(s, E)
              \/ Refuse(s)

Read(r) == \/ \E id \in 1..(next - 1), mark \in BOOLEAN : Get(r, id, mark)
           \/ \E page \in SUBSET DOMAIN msgs : List(r, page)
           \/ GetAnswers(r) \/ ListAnswers(r) \/ ReadFails(r)

Manage == \/ \E c \in CapSet : \/ \E E \in SUBSET DOMAIN msgs : ReplaceCaps(c, E)
                               \/ Reset(c) \/ Restart(c)
          \/ \E id \in DOMAIN msgs : Delete({id}) \/ MarkRead({id})
          \/ Delete(DOMAIN msgs) \/ MarkRead(DOMAIN msgs)

Next == \/ Manage
        \/ \E s \in Sessions : Deliver(s)
        \/ \E r \in Readers : Read(r)

Spec == Init /\ [][Next]_vars
=============================================================================
