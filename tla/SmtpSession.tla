----------------------------- MODULE SmtpSession -----------------------------
(***************************************************************************)
(* One SMTP session: session.run and the command handlers of               *)
(* internal/smtp/server, against a configuration snapshot that a live      *)
(* apply may replace at any moment and a store that may be reset.          *)
(*                                                                         *)
(* Every handler asks for the snapshot again (specNow) at its checks and   *)
(* again when it replies.  So a command is an action for its checks and    *)
(* its change of the session, and an action for its keyed reply, which     *)
(* re-reads the scripted behaviour; DATA and AUTH wait for the client in   *)
(* between.  A command that is refused, by a plain reply (503, 530, 501)   *)
(* or by a scripted error that keeps the session, changes nothing and is   *)
(* not an action.                                                          *)
(*                                                                         *)
(* Time is the session's age in units of a session timeout.  Before each   *)
(* read setIdle arms a deadline from the snapshot of that moment, so an    *)
(* apply that changes the timeout reaches the next read, not this one.     *)
(* The idle limits end a read earlier; the action End covers them.         *)
(*                                                                         *)
(* A transaction is a number, given by MAIL; a recipient is the number of  *)
(* the transaction it was given in.  Wording, parsing of paths and the     *)
(* EHLO keyword list are left out.                                         *)
(***************************************************************************)
EXTENDS Integers, Sequences

CONSTANTS
    Specs,      \* the SMTP parts of the snapshots an apply can install
    BodySizes,  \* sizes of message bodies
    MaxTxn,     \* bound: MAIL commands accepted in the session
    MaxEpoch,   \* bound: resets of the store during the session
    MaxAge      \* bound: the longest session timeout

\* Keys of the scripted replies; OTHER stands for NOOP, VRFY and UNKNOWN.
Verbs == {"GREETING", "HELO", "EHLO", "MAIL", "RCPT", "DATA", "DATA-END",
          "RSET", "AUTH", "STARTTLS", "OTHER"}

\* smtp.tls, smtp.auth, the limits, and smtp.behavior: drop is dropOnConnect,
\* fails the verbs with a 4xx or 5xx reply override, closes closeAfterVerb.
SMTPSpec == [starttls : BOOLEAN, required : BOOLEAN, plainLogin : BOOLEAN,
             maxBytes : Nat \ {0}, maxRcpt : Nat \ {0}, lifetime : 1..MaxAge,
             drop : BOOLEAN, fails : SUBSET Verbs, closes : SUBSET Verbs]

ASSUME SessionAssumption ==
    /\ MaxTxn \in Nat
    /\ MaxEpoch \in Nat \ {0}
    /\ MaxAge \in Nat
    /\ Specs \subseteq SMTPSpec
    /\ BodySizes \subseteq Nat

VARIABLES
    spec,       \* the live snapshot's SMTP part
    epoch,      \* the store's epoch
    stored,     \* messages this session has put in the inbox, in order
    pc,         \* where the session's goroutine is
    broken,     \* replies no longer reach the client
    age,        \* time since the session started
    deadline,   \* the armed read deadline, 0 before setIdle
    state,      \* greeting, helloed, mail, rcpt
    helo, tls, authed,
    from,       \* transaction of the accepted MAIL, 0 if none
    rcpt,       \* recipients
    answer,     \* the verb whose keyed reply is due
    data,       \* epoch and size limit captured by DATA
    txn,        \* MAIL commands accepted so far
    told,       \* the reply to the end of data the client has, per transaction
    authTls,    \* tls when AUTH succeeded
    body354     \* epoch when the client was told to send the body

env == <<spec, epoch, broken, age>>
channel == <<tls, authed, authTls>>
envelope == <<state, helo, from, rcpt>>
log == <<stored, told, txn>>
vars == <<env, channel, envelope, log, pc, deadline, answer, data, body354>>

NoData == [epoch |-> 0, max |-> 0]

Init == /\ spec \in Specs
        /\ epoch = 1
        /\ stored = <<>>
        /\ pc = "connect"
        /\ broken = FALSE
        /\ age = 0 /\ deadline = 0
        /\ state = "greeting" /\ helo = FALSE
        /\ tls = FALSE /\ authed = FALSE /\ authTls = FALSE
        /\ from = 0 /\ rcpt = <<>>
        /\ answer = "OTHER"
        /\ data = NoData /\ body354 = 0
        /\ txn = 0
        /\ told = [t \in 1..MaxTxn |-> "none"]

-----------------------------------------------------------------------------
(* Helpers.                                                                *)

\* applyErrorOverride sends the scripted error and the handler stops there.
Fails(v) == v \in spec.fails
Closes(v) == v \in spec.closes

\* tlsRequiredCleartext and policyOK.
Cleartext == spec.starttls /\ spec.required /\ ~tls
PolicyOK == ~Cleartext /\ (spec.plainLogin => authed)

\* The goroutine is in a read from the client.
Reading == pc \in {"command", "body", "auth", "handshake"}

\* The read returns before its deadline; the next one arms a new deadline.
ReadAt(l) == /\ pc = l
             /\ deadline # 0
             /\ age < deadline
             /\ deadline' = 0

\* A command line has been read and its handler takes the success path of v.
Accept(v) == ReadAt("command") /\ ~Fails(v)

\* The keyed reply to v is next.
Answer(v) == pc' = "reply" /\ answer' = v

\* After a write: the client may be gone, and the write may notice.
Continue(l) == pc' \in IF broken THEN {l, "ended"} ELSE {l}

\* The reply to the end of the data, if the client gets it.
Tell(r) == told' = IF broken THEN told ELSE [told EXCEPT ![from] = r]

Bug_ResetTxn == from' = 0 /\ UNCHANGED rcpt

ResetTxn == from' = 0 /\ rcpt' = <<>>

ResetToHelloed == /\ ResetTxn
                  /\ state' = IF helo THEN "helloed" ELSE "greeting"
                  /\ UNCHANGED helo

-----------------------------------------------------------------------------
(* Commands.                                                               *)

\* The start of run: dropOnConnect, or the greeting, or its scripted error.
Connect ==
    /\ pc = "connect"
    /\ IF spec.drop
       THEN pc' = "ended" /\ UNCHANGED answer
       ELSE IF Fails("GREETING")
            THEN Continue(IF Closes("GREETING") THEN "ended" ELSE "command")
                 /\ UNCHANGED answer
            ELSE Answer("GREETING")
    /\ UNCHANGED <<env, channel, envelope, log, deadline, data, body354>>

Bug_SetIdle ==
    /\ Reading
    /\ deadline = 0
    /\ deadline' = MaxAge + 1
    /\ UNCHANGED <<env, channel, envelope, log, pc, answer, data, body354>>

\* Before each read: the deadline is never after the session's lifetime.
SetIdle ==
    /\ Reading
    /\ deadline = 0
    /\ deadline' = spec.lifetime
    /\ UNCHANGED <<env, channel, envelope, log, pc, answer, data, body354>>

Hello(v) ==
    /\ Accept(v)
    /\ ResetTxn
    /\ helo' = TRUE
    /\ state' = "helloed"
    /\ Answer(v)
    /\ UNCHANGED <<env, channel, log, data, body354>>

Mail ==
    /\ Accept("MAIL")
    /\ state = "helloed"
    /\ PolicyOK
    /\ txn < MaxTxn
    /\ txn' = txn + 1
    /\ from' = txn'
    /\ rcpt' = <<>>
    /\ state' = "mail"
    /\ Answer("MAIL")
    /\ UNCHANGED <<env, channel, helo, stored, told, data, body354>>

Rcpt ==
    /\ Accept("RCPT")
    /\ state \in {"mail", "rcpt"}
    /\ PolicyOK
    /\ Len(rcpt) < spec.maxRcpt
    /\ rcpt' = Append(rcpt, from)
    /\ state' = "rcpt"
    /\ Answer("RCPT")
    /\ UNCHANGED <<env, channel, helo, from, log, data, body354>>

Rset ==
    /\ Accept("RSET")
    /\ ResetTxn
    /\ state' = IF state = "greeting" THEN "greeting" ELSE "helloed"
    /\ Answer("RSET")
    /\ UNCHANGED <<env, channel, helo, log, data, body354>>

\* NOOP, VRFY and unknown verbs: a keyed reply and no change.
Other ==
    /\ ReadAt("command")
    /\ Answer("OTHER")
    /\ UNCHANGED <<env, channel, envelope, log, data, body354>>

\* DATA, once the gate has granted the reservation (a refusal keeps the
\* transaction): the epoch is captured before the 354.
Data ==
    /\ Accept("DATA")
    /\ state = "rcpt"
    /\ rcpt # <<>>
    /\ PolicyOK
    /\ data' = [epoch |-> epoch, max |-> spec.maxBytes]
    /\ Answer("DATA")
    /\ UNCHANGED <<env, channel, envelope, log, body354>>

\* readData: one more line; the idle deadline is armed again.
BodyLine ==
    /\ ReadAt("body")
    /\ UNCHANGED <<env, channel, envelope, log, pc, answer, data, body354>>

\* readData got the terminating dot within the size limit.
BodyRead(size) ==
    /\ ReadAt("body")
    /\ size <= data.max
    /\ pc' = "dataEnd"
    /\ UNCHANGED <<env, channel, envelope, log, answer, data, body354>>

\* readData got the dot of too large a body, or a line that is too long: an
\* error reply, and the session goes on unless the discard budget is spent.
BodyRefused(size, keep) ==
    /\ ReadAt("body")
    /\ size <= data.max => keep
    /\ ResetToHelloed
    /\ data' = NoData
    /\ Tell("fail")
    /\ pc' = IF keep THEN "command" ELSE "ended"
    /\ UNCHANGED <<env, channel, stored, txn, answer, body354>>

\* After the dot: a scripted error for DATA-END discards the message.
DataEndOverride ==
    /\ pc = "dataEnd"
    /\ Fails("DATA-END")
    /\ ResetToHelloed
    /\ data' = NoData
    /\ Tell("fail")
    /\ Continue(IF Closes("DATA-END") THEN "ended" ELSE "command")
    /\ UNCHANGED <<env, channel, stored, txn, deadline, answer, body354>>

Bug_DataEndContinue ==
    /\ pc = "dataEnd"
    /\ ~Fails("DATA-END")
    /\ pc' = "insert"
    /\ data' = [data EXCEPT !.epoch = epoch]
    /\ UNCHANGED <<env, channel, envelope, log, deadline, answer, body354>>

DataEndContinue ==
    /\ pc = "dataEnd"
    /\ ~Fails("DATA-END")
    /\ pc' = "insert"
    /\ UNCHANGED <<env, channel, envelope, log, deadline, answer, data, body354>>

\* Insert accepts the message; its epoch test compares with DATA's capture.
InsertOK ==
    /\ pc = "insert"
    /\ data.epoch = epoch
    /\ stored' = Append(stored, [txn |-> from, rcpt |-> rcpt,
                                 begun |-> body354, epoch |-> epoch])
    /\ Answer("DATA-END")
    /\ UNCHANGED <<env, channel, envelope, told, txn, deadline, data, body354>>

Bug_InsertError ==
    /\ pc = "insert"
    /\ Answer("DATA-END")
    /\ UNCHANGED <<env, channel, envelope, log, deadline, data, body354>>

\* ErrStaleEpoch, ErrFull, ErrTooLarge or a spill failure: 451, 452 or 552.
InsertError ==
    /\ pc = "insert"
    /\ ResetToHelloed
    /\ data' = NoData
    /\ Tell("fail")
    /\ pc' = "command"
    /\ UNCHANGED <<env, channel, stored, txn, deadline, answer, body354>>

-----------------------------------------------------------------------------
(* AUTH and STARTTLS.                                                      *)

\* The checks of cmdAuth; the credentials come in this or in later lines.
AuthBegin ==
    /\ Accept("AUTH")
    /\ spec.plainLogin
    /\ ~Cleartext
    /\ state = "helloed"
    /\ ~authed
    /\ pc' = "auth"
    /\ UNCHANGED <<env, channel, envelope, log, answer, data, body354>>

\* finishAuth accepts the credentials.
AuthFinish ==
    /\ ReadAt("auth")
    /\ authed' = TRUE
    /\ authTls' = tls
    /\ Answer("AUTH")
    /\ UNCHANGED <<env, tls, envelope, log, data, body354>>

\* The exchange is cancelled, malformed, or the credentials are wrong.
AuthFails ==
    /\ ReadAt("auth")
    /\ Continue("command")
    /\ UNCHANGED <<env, channel, envelope, log, answer, data, body354>>

StartTLS ==
    /\ Accept("STARTTLS")
    /\ spec.starttls
    /\ ~tls
    /\ state = "helloed"
    /\ Answer("STARTTLS")
    /\ UNCHANGED <<env, channel, envelope, log, data, body354>>

Bug_ResetAfterTLS ==
    /\ ResetTxn
    /\ helo' = FALSE /\ tls' = TRUE
    /\ state' = "greeting"
    /\ UNCHANGED authed

\* resetAfterTLS: nothing said in the clear counts.
ResetAfterTLS ==
    /\ ResetTxn
    /\ helo' = FALSE /\ tls' = TRUE /\ authed' = FALSE
    /\ state' = "greeting"

\* The TLS handshake succeeds.
Handshake ==
    /\ ReadAt("handshake")
    /\ ResetAfterTLS
    /\ pc' = "command"
    /\ UNCHANGED <<env, authTls, log, answer, data, body354>>

-----------------------------------------------------------------------------
(* Replies, the end of the session, and its environment.                   *)

\* replyKeyed: the snapshot is read again for the override and closeAfter.
Reply ==
    /\ pc = "reply"
    /\ Continue(IF Closes(answer) THEN "ended"
                ELSE CASE answer = "DATA" -> "body"
                       [] answer = "STARTTLS" -> "handshake"
                       [] OTHER -> "command")
    /\ IF answer = "DATA-END"
       THEN /\ Tell(IF Fails("DATA-END") THEN "fail" ELSE "ok")
            /\ ResetToHelloed
            /\ data' = NoData
       ELSE UNCHANGED <<told, envelope, data>>
    /\ body354' = IF answer = "DATA" THEN epoch ELSE body354
    /\ UNCHANGED <<env, channel, stored, txn, deadline, answer>>

\* The session ends in a read: QUIT, a command line too long, a scripted error
\* that closes, a failed handshake, the connection gone, or a deadline.
End ==
    /\ Reading
    /\ pc' = "ended"
    /\ IF pc = "body"
       THEN ResetToHelloed /\ data' = NoData
       ELSE UNCHANGED <<envelope, data>>
    /\ UNCHANGED <<env, channel, log, deadline, answer, body354>>

\* The client goes away, or Shutdown closes the connection.
Disconnect ==
    /\ ~broken
    /\ pc # "ended"
    /\ broken' = TRUE
    /\ UNCHANGED <<spec, epoch, age, channel, envelope, log, pc, deadline, answer,
                   data, body354>>

Tick ==
    /\ pc # "ended"
    /\ age < MaxAge
    /\ age' = age + 1
    /\ UNCHANGED <<spec, epoch, broken, channel, envelope, log, pc, deadline, answer,
                   data, body354>>

\* A live apply or a reset swaps the snapshot.
Swap(s) ==
    /\ pc # "ended"
    /\ spec' = s
    /\ UNCHANGED <<epoch, broken, age, channel, envelope, log, pc, deadline, answer,
                   data, body354>>

\* ResetTo empties the inbox.
ResetStore ==
    /\ pc # "ended"
    /\ epoch < MaxEpoch
    /\ epoch' = epoch + 1
    /\ UNCHANGED <<spec, broken, age, channel, envelope, log, pc, deadline, answer,
                   data, body354>>

-----------------------------------------------------------------------------
\* The steps the session's goroutine takes without the client.
Run == \/ Connect \/ SetIdle \/ Reply \/ DataEndOverride \/ DataEndContinue
       \/ InsertOK \/ InsertError

\* The deadline of the read has passed.
TimeOut == deadline # 0 /\ age >= deadline /\ End

Client == \/ \E v \in {"HELO", "EHLO"} : Hello(v)
          \/ Mail \/ Rcpt \/ Rset \/ Other \/ Data \/ BodyLine
          \/ AuthBegin \/ AuthFinish \/ AuthFails \/ StartTLS \/ Handshake
          \/ \E size \in BodySizes : BodyRead(size)
          \/ \E size \in BodySizes, keep \in BOOLEAN : BodyRefused(size, keep)

Next == \/ Run \/ Client \/ End
        \/ Disconnect \/ Tick \/ ResetStore
        \/ \E s \in Specs : Swap(s)

Spec == Init /\ [][Next]_vars

\* The goroutine runs, time passes, and a deadline that has passed ends the
\* read.  The client owes nothing.
FairSpec == Spec /\ WF_vars(Run) /\ WF_vars(Tick) /\ WF_vars(TimeOut)

-----------------------------------------------------------------------------
(* Properties.                                                             *)

\* Type correctness: in particular a recipient always belongs to a MAIL.
TypeOK ==
    /\ spec \in Specs
    /\ epoch \in 1..MaxEpoch
    /\ age \in 0..MaxAge /\ deadline \in 0..MaxAge
    /\ pc \in {"connect", "command", "reply", "body", "dataEnd", "insert",
               "auth", "handshake", "ended"}
    /\ state \in {"greeting", "helloed", "mail", "rcpt"}
    /\ {broken, helo, tls, authed, authTls} \subseteq BOOLEAN
    /\ from \in 0..MaxTxn /\ txn \in 0..MaxTxn
    /\ rcpt \in Seq(1..MaxTxn)
    /\ answer \in Verbs
    /\ data \in [epoch : Nat, max : Nat] /\ body354 \in Nat
    /\ stored \in Seq([txn : 0..MaxTxn, rcpt : Seq(1..MaxTxn), begun : Nat, epoch : Nat])
    /\ told \in [1..MaxTxn -> {"none", "ok", "fail"}]

\* Recipients belong to the MAIL in progress; outside a transaction there are none.
EnvelopeOne ==
    /\ \A j \in 1..Len(rcpt) : rcpt[j] = from
    /\ state \in {"greeting", "helloed"} => rcpt = <<>> /\ from = 0
    /\ state = "rcpt" => rcpt # <<>>

\* A stored message has recipients, all of its own transaction, and no
\* transaction is stored twice.
StoredOne ==
    \A j \in 1..Len(stored) :
        /\ stored[j].rcpt # <<>>
        /\ \A n \in 1..Len(stored[j].rcpt) : stored[j].rcpt[n] = stored[j].txn
        /\ \A l \in 1..(j - 1) : stored[l].txn < stored[j].txn

\* The envelope never mixes transactions, whatever sequence of RSET, HELO,
\* STARTTLS and failed DATA led here (resetTxn, resetToHelloed), and so
\* what is stored is one transaction's, once, in the order of the MAILs.
OneTransaction == EnvelopeOne /\ StoredOne

\* The client has the success reply of cmdData only for a message that the
\* store accepted.
OKMeansStored ==
    \A t \in 1..MaxTxn :
        told[t] = "ok" => \E j \in 1..Len(stored) : stored[j].txn = t

\* AUTH given in the clear does not count after STARTTLS (resetAfterTLS).
AuthOnThisChannel == authed => authTls = tls

\* A message whose body the client was told to send before a reset does not
\* enter the emptied inbox: DATA captures the epoch before the 354.
BodyOfThisEpoch ==
    \A j \in 1..Len(stored) : stored[j].begun = stored[j].epoch

\* Every session ends: setIdle bounds it by the longest session timeout,
\* however busy the client is and whatever is applied meanwhile.
SessionEnds == <>(pc = "ended")

\* A 4xx or 5xx reply to the end of the data means that the message was not
\* inserted.
RefusedNotStored ==
    \A t \in 1..MaxTxn :
        told[t] = "fail" => \A j \in 1..Len(stored) : stored[j].txn # t
=============================================================================
