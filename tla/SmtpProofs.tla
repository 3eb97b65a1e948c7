------------------------------ MODULE SmtpProofs ------------------------------
(***************************************************************************)
(* Theorems about the SMTP server: about one session (SmtpSession), for    *)
(* every set of snapshots that an apply can install, and every number of   *)
(* transactions and resets; and about the listener with its admission gate *)
(* (SmtpServer), for every number of connections and all limits.           *)
(***************************************************************************)
EXTENDS SmtpSession, SmtpServer, FiniteSetTheorems, TLAPS

(* The session.                                                            *)

\* The goroutine is between the acceptance of DATA and the end of Insert.
InBody == pc \in {"body", "dataEnd", "insert"} \/ (pc = "reply" /\ answer = "DATA")

\* The message is stored and its reply is due.
Acknowledging == pc = "reply" /\ answer = "DATA-END"

\* A MAIL has a number, and a recipient list to be stored is not empty.
EnvelopeOpen ==
    /\ from <= txn
    /\ state \in {"mail", "rcpt"} => from # 0
    /\ InBody => state = "rcpt"

\* What is stored is older than the transaction in progress, or is it.
StoredBefore ==
    /\ \A j \in 1..Len(stored) :
          /\ stored[j].txn <= txn
          /\ from # 0 /\ ~Acknowledging => stored[j].txn < from
    /\ Acknowledging => \E j \in 1..Len(stored) : stored[j].txn = from

\* DATA captured its epoch before the 354, and epochs only grow.
EpochsInOrder ==
    /\ InBody => data.epoch <= epoch
    /\ pc \in {"body", "dataEnd", "insert"} => data.epoch <= body354 /\ body354 <= epoch

\* The inductive invariant.
SessionInv ==
    /\ TypeOK
    /\ EnvelopeOpen
    /\ StoredBefore
    /\ EpochsInOrder
    /\ OneTransaction
    /\ OKMeansStored
    /\ AuthOnThisChannel
    /\ BodyOfThisEpoch

-----------------------------------------------------------------------------
(* Types.                                                                  *)

LEMMA SpecType == TypeOK => spec.maxBytes \in Nat /\ spec.lifetime \in 1..MaxAge
  BY SessionAssumption DEF TypeOK, SMTPSpec

LEMMA NoDataType == NoData \in [epoch : Nat, max : Nat]
  BY DEF NoData

LEMMA TellType ==
    ASSUME TypeOK, NEW r \in {"ok", "fail"}, Tell(r)
    PROVE  told' \in [1..MaxTxn -> {"none", "ok", "fail"}]
  BY DEF TypeOK, Tell

\* What resetToHelloed leaves of the envelope.
LEMMA ResetType ==
    ASSUME TypeOK, ResetToHelloed
    PROVE  /\ state' \in {"greeting", "helloed"} /\ helo' = helo
           /\ from' = 0 /\ rcpt' = <<>>
           /\ 0 \in 0..MaxTxn
           /\ <<>> \in Seq(1..MaxTxn)
  BY SessionAssumption DEF TypeOK, ResetToHelloed, ResetTxn

\* Where the goroutine goes after a reply.
LEMMA ReplyPc ==
    ASSUME Reply
    PROVE  /\ pc = "reply"
           /\ pc' \in {"ended", "body", "handshake", "command"}
           /\ pc' = "body" => answer = "DATA"
           /\ UNCHANGED <<env, channel, stored, txn, deadline, answer>>
           /\ answer # "DATA-END" => UNCHANGED <<told, envelope, data>>
           /\ answer = "DATA-END" =>
                /\ ResetToHelloed /\ data' = NoData
                /\ \E r \in {"ok", "fail"} : Tell(r)
           /\ body354' = IF answer = "DATA" THEN epoch ELSE body354
  BY DEF Reply, Continue

\* A recipient has a transaction's number because its MAIL has one.
LEMMA TypeStep == TypeOK /\ EnvelopeOpen /\ [Next]_vars => TypeOK'
<1> SUFFICES ASSUME TypeOK, EnvelopeOpen, [Next]_vars PROVE TypeOK'
  OBVIOUS
<1> USE SessionAssumption
<1> USE DEF TypeOK, EnvelopeOpen, Verbs
<1>1. CASE Connect
  BY <1>1 DEF Connect, Fails, Closes, Answer, Continue, env, channel, envelope, log
<1>2. CASE SetIdle
  BY <1>2, SpecType DEF SetIdle, Reading, env, channel, envelope, log
<1>3. CASE Reply
  <2>1. told' \in [1..MaxTxn -> {"none", "ok", "fail"}]
    BY <1>3, ReplyPc, TellType
  <2>2. data' \in [epoch : Nat, max : Nat] /\ body354' \in Nat
    BY <1>3, ReplyPc, NoDataType
  <2>3. /\ state' \in {"greeting", "helloed", "mail", "rcpt"} /\ helo' = helo
        /\ from' \in 0..MaxTxn /\ rcpt' \in Seq(1..MaxTxn)
    BY <1>3, ReplyPc, ResetType DEF envelope
  <2>4. QED
    BY <1>3, <2>1, <2>2, <2>3, ReplyPc DEF env, channel
<1>4. CASE DataEndOverride
  BY <1>4, NoDataType, TellType, ResetType DEF DataEndOverride, Continue, env, channel, envelope, log
<1>5. CASE DataEndContinue
  BY <1>5 DEF DataEndContinue, env, channel, envelope, log
<1>6. CASE InsertOK
  BY <1>6 DEF InsertOK, Answer, env, channel, envelope, log
<1>7. CASE InsertError
  BY <1>7, NoDataType, TellType, ResetType DEF InsertError, env, channel, envelope, log
<1>8. CASE \E v \in {"HELO", "EHLO"} : Hello(v)
  BY <1>8 DEF Hello, Accept, ReadAt, ResetTxn, Answer, env, channel, envelope, log
<1>9. CASE Mail
  BY <1>9 DEF Mail, Accept, ReadAt, Answer, env, channel, envelope, log
<1>10. CASE Rcpt
  BY <1>10 DEF Rcpt, Accept, ReadAt, Answer, env, channel, envelope, log
<1>11. CASE Rset
  BY <1>11 DEF Rset, Accept, ReadAt, Answer, ResetTxn, env, channel, envelope, log
<1>12. CASE Other
  BY <1>12 DEF Other, ReadAt, Answer, env, channel, envelope, log
<1>13. CASE Data
  BY <1>13, SpecType DEF Data, Accept, ReadAt, Answer, env, channel, envelope, log
<1>14. CASE BodyLine
  BY <1>14 DEF BodyLine, ReadAt, env, channel, envelope, log
<1>15. CASE AuthBegin
  BY <1>15 DEF AuthBegin, Accept, ReadAt, env, channel, envelope, log
<1>16. CASE AuthFinish
  BY <1>16 DEF AuthFinish, ReadAt, Answer, env, channel, envelope, log
<1>17. CASE AuthFails
  BY <1>17 DEF AuthFails, ReadAt, Continue, env, channel, envelope, log
<1>18. CASE StartTLS
  BY <1>18 DEF StartTLS, Accept, ReadAt, Answer, env, channel, envelope, log
<1>19. CASE Handshake
  <2>1. /\ from' \in 0..MaxTxn /\ rcpt' \in Seq(1..MaxTxn)
        /\ state' = "greeting" /\ helo' = FALSE
    BY <1>19 DEF Handshake, ResetAfterTLS, ResetTxn
  <2>2. {broken', helo', tls', authed', authTls'} \subseteq BOOLEAN
    BY <1>19, <2>1 DEF Handshake, ResetAfterTLS, env
  <2>3. QED
    BY <1>19, <2>1, <2>2 DEF Handshake, ReadAt, env, log
<1>20. CASE \E size \in BodySizes : BodyRead(size)
  BY <1>20 DEF BodyRead, ReadAt, env, channel, envelope, log
<1>21. CASE \E size \in BodySizes, keep \in BOOLEAN : BodyRefused(size, keep)
  <2> PICK size \in BodySizes, keep \in BOOLEAN : BodyRefused(size, keep)
    BY <1>21
  <2>1. told' \in [1..MaxTxn -> {"none", "ok", "fail"}] /\ data' \in [epoch : Nat, max : Nat]
    BY NoDataType, TellType DEF BodyRefused
  <2>2. /\ state' \in {"greeting", "helloed", "mail", "rcpt"} /\ helo' = helo
        /\ from' \in 0..MaxTxn /\ rcpt' \in Seq(1..MaxTxn)
    BY ResetType DEF BodyRefused
  <2>3. deadline' \in 0..MaxAge /\ pc' \in {"command", "ended"}
    BY DEF BodyRefused, ReadAt
  <2>4. UNCHANGED <<env, channel, stored, txn, answer, body354>>
    BY DEF BodyRefused
  <2>5. QED
    BY <2>1, <2>2, <2>3, <2>4 DEF env, channel
<1>22. CASE End
  BY <1>22, NoDataType, ResetType DEF End, Reading, env, channel, envelope, log
<1>23. CASE Disconnect
  BY <1>23 DEF Disconnect, env, channel, envelope, log
<1>24. CASE Tick
  BY <1>24 DEF Tick, env, channel, envelope, log
<1>25. CASE ResetStore
  BY <1>25 DEF ResetStore, env, channel, envelope, log
<1>26. CASE \E s \in Specs : Swap(s)
  BY <1>26 DEF Swap, env, channel, envelope, log
<1>27. CASE UNCHANGED vars
  BY <1>27 DEF vars, env, channel, envelope, log
<1>28. QED
  BY <1>1, <1>2, <1>3, <1>4, <1>5, <1>6, <1>7, <1>8, <1>9, <1>10, <1>11,
     <1>12, <1>13, <1>14, <1>15, <1>16, <1>17, <1>18, <1>19, <1>20, <1>21,
     <1>22, <1>23, <1>24, <1>25, <1>26, <1>27
     DEF Next, Run, Client

-----------------------------------------------------------------------------
(* The envelope.                                                           *)

LEMMA EnvelopeStep ==
    ASSUME TypeOK, EnvelopeOpen, EnvelopeOne, [Next]_vars
    PROVE  EnvelopeOpen' /\ EnvelopeOne'
<1> USE SessionAssumption
<1> USE DEF TypeOK, EnvelopeOpen, EnvelopeOne, InBody
<1>1. CASE Connect
  BY <1>1 DEF Connect, Fails, Closes, Answer, Continue, env, channel, envelope, log
<1>2. CASE SetIdle
  BY <1>2 DEF SetIdle, Reading, env, channel, envelope, log
<1>3. CASE Reply
  <2>1. CASE answer = "DATA-END"
    BY <1>3, <2>1, ReplyPc, ResetType
  <2>2. CASE answer # "DATA-END"
    BY <1>3, <2>2, ReplyPc DEF envelope
  <2>3. QED
    BY <2>1, <2>2
<1>4. CASE DataEndOverride
  BY <1>4 DEF DataEndOverride, Fails, Closes, Continue, Tell, ResetToHelloed, ResetTxn, env, channel, envelope, log
<1>5. CASE DataEndContinue
  BY <1>5 DEF DataEndContinue, env, channel, envelope, log
<1>6. CASE InsertOK
  BY <1>6 DEF InsertOK, Answer, env, channel, envelope, log
<1>7. CASE InsertError
  BY <1>7 DEF InsertError, Tell, ResetToHelloed, ResetTxn, env, channel, envelope, log
<1>8. CASE \E v \in {"HELO", "EHLO"} : Hello(v)
  BY <1>8 DEF Hello, Accept, ReadAt, ResetTxn, Answer, env, channel, envelope, log
<1>9. CASE Mail
  BY <1>9 DEF Mail, Accept, ReadAt, Answer, env, channel, envelope, log
<1>10. CASE Rcpt
  BY <1>10 DEF Rcpt, Accept, ReadAt, Answer, env, channel, envelope, log
<1>11. CASE Rset
  BY <1>11 DEF Rset, Accept, ReadAt, Answer, ResetTxn, env, channel, envelope, log
<1>12. CASE Other
  BY <1>12 DEF Other, ReadAt, Answer, env, channel, envelope, log
<1>13. CASE Data
  BY <1>13 DEF Data, Accept, ReadAt, Answer, env, channel, envelope, log
<1>14. CASE BodyLine
  BY <1>14 DEF BodyLine, ReadAt, env, channel, envelope, log
<1>15. CASE AuthBegin
  BY <1>15 DEF AuthBegin, Accept, ReadAt, env, channel, envelope, log
<1>16. CASE AuthFinish
  BY <1>16 DEF AuthFinish, ReadAt, Answer, env, channel, envelope, log
<1>17. CASE AuthFails
  BY <1>17 DEF AuthFails, ReadAt, Continue, env, channel, envelope, log
<1>18. CASE StartTLS
  BY <1>18 DEF StartTLS, Accept, ReadAt, Answer, env, channel, envelope, log
<1>19. CASE Handshake
  BY <1>19 DEF Handshake, ReadAt, ResetAfterTLS, ResetTxn, env, channel, envelope, log
<1>20. CASE \E size \in BodySizes : BodyRead(size)
  BY <1>20 DEF BodyRead, ReadAt, env, channel, envelope, log
<1>21. CASE \E size \in BodySizes, keep \in BOOLEAN : BodyRefused(size, keep)
  BY <1>21 DEF BodyRefused, ReadAt, ResetToHelloed, ResetTxn, Tell, env, channel, envelope, log
<1>22. CASE End
  <2>1. CASE pc = "body"
    BY <1>22, <2>1, ResetType DEF End, log
  <2>2. CASE pc # "body"
    BY <1>22, <2>2 DEF End, Reading, envelope, log
  <2>3. QED
    BY <2>1, <2>2
<1>23. CASE Disconnect
  BY <1>23 DEF Disconnect, env, channel, envelope, log
<1>24. CASE Tick
  BY <1>24 DEF Tick, env, channel, envelope, log
<1>25. CASE ResetStore
  BY <1>25 DEF ResetStore, env, channel, envelope, log
<1>26. CASE \E s \in Specs : Swap(s)
  BY <1>26 DEF Swap, env, channel, envelope, log
<1>27. CASE UNCHANGED vars
  BY <1>27 DEF vars, env, channel, envelope, log
<1>28. QED
  BY <1>1, <1>2, <1>3, <1>4, <1>5, <1>6, <1>7, <1>8, <1>9, <1>10, <1>11,
     <1>12, <1>13, <1>14, <1>15, <1>16, <1>17, <1>18, <1>19, <1>20, <1>21,
     <1>22, <1>23, <1>24, <1>25, <1>26, <1>27
     DEF Next, Run, Client

-----------------------------------------------------------------------------
(* What is stored, and what the client is told of it.                      *)

\* A told reply is an old one, or that of the transaction in progress.
LEMMA TellOnly ==
    ASSUME TypeOK, NEW r \in {"ok", "fail"}, Tell(r)
    PROVE  \A t \in 1..MaxTxn : told'[t] # told[t] => t = from /\ told'[t] = r
  BY DEF TypeOK, Tell

\* A reply other than an acknowledgement leaves the claims about the store.
LEMMA FailKeeps ==
    ASSUME TypeOK, OKMeansStored, UNCHANGED stored, Tell("fail")
    PROVE  OKMeansStored'
<1> SUFFICES ASSUME NEW t \in 1..MaxTxn, told'[t] = "ok"
             PROVE  \E j \in 1..Len(stored') : stored'[j].txn = t
  BY DEF OKMeansStored
<1>1. told[t] = "ok"
  BY TellOnly
<1>2. QED
  BY <1>1 DEF OKMeansStored

LEMMA StoredType ==
    TypeOK => /\ txn \in Nat
              /\ \A j \in 1..Len(stored) : stored[j].txn \in Nat
<1> SUFFICES ASSUME TypeOK, NEW j \in 1..Len(stored) PROVE stored[j].txn \in Nat
  BY DEF TypeOK
<1> DEFINE R == [txn : 0..MaxTxn, rcpt : Seq(1..MaxTxn), begun : Nat, epoch : Nat]
<1>1. stored \in Seq(R)
  BY DEF TypeOK
<1>2. stored[j] \in R
  <2> HIDE DEF R
  <2> QED BY <1>1
<1>3. QED
  BY <1>2, SessionAssumption

\* A transaction that ends, or goes on, with nothing stored.
LEMMA ClosedKeeps ==
    ASSUME StoredBefore, StoredOne, stored' = stored, txn' = txn, ~Acknowledging',
           from' = 0 \/ (from' = from /\ ~Acknowledging)
    PROVE  StoredBefore' /\ StoredOne'
  BY DEF StoredBefore, StoredOne

\* InsertOK appends the transaction in progress, which is younger than all others.
LEMMA StoreStep ==
    ASSUME TypeOK, EnvelopeOpen, EnvelopeOne, StoredBefore, StoredOne, OKMeansStored, InsertOK
    PROVE  StoredBefore' /\ StoredOne' /\ OKMeansStored'
<1> DEFINE new == [txn |-> from, rcpt |-> rcpt, begun |-> body354, epoch |-> epoch]
<1>1. /\ stored' = Append(stored, new)
      /\ UNCHANGED <<envelope, told, txn>>
      /\ ~Acknowledging /\ Acknowledging'
  BY DEF InsertOK, Answer, Acknowledging
<1>2. /\ Len(stored') = Len(stored) + 1
      /\ stored'[Len(stored) + 1] = new
      /\ \A j \in 1..Len(stored) : stored'[j] = stored[j]
      /\ Len(stored) \in Nat
  BY <1>1 DEF TypeOK
<1>3. rcpt # <<>> /\ from # 0 /\ \A n \in 1..Len(rcpt) : rcpt[n] = from
  BY DEF InsertOK, EnvelopeOpen, EnvelopeOne, InBody, TypeOK
<1>4. \A j \in 1..Len(stored) : stored[j].txn < from /\ stored[j].txn <= txn
  BY <1>1, <1>3 DEF StoredBefore
<1>5. StoredBefore'
  <2>1. \A j \in 1..Len(stored') : stored'[j].txn <= txn'
    BY <1>1, <1>2, <1>4 DEF EnvelopeOpen
  <2>2. stored'[Len(stored) + 1].txn = from'
    BY <1>1, <1>2 DEF envelope
  <2>3. QED
    BY <1>1, <1>2, <2>1, <2>2 DEF StoredBefore
<1>6. StoredOne'
  <2> SUFFICES ASSUME NEW j \in 1..Len(stored')
               PROVE  /\ stored'[j].rcpt # <<>>
                      /\ \A n \in 1..Len(stored'[j].rcpt) : stored'[j].rcpt[n] = stored'[j].txn
                      /\ \A l \in 1..(j - 1) : stored'[l].txn < stored'[j].txn
    BY DEF StoredOne
  <2>1. CASE j \in 1..Len(stored)
    <3>1. stored'[j] = stored[j] /\ \A l \in 1..(j - 1) : stored'[l] = stored[l]
      BY <1>2, <2>1
    <3>2. QED
      BY <2>1, <3>1 DEF StoredOne
  <2>2. CASE j = Len(stored) + 1
    BY <1>2, <1>3, <1>4, <2>2
  <2>3. QED
    BY <1>2, <2>1, <2>2
<1>7. OKMeansStored'
  BY <1>1, <1>2 DEF OKMeansStored
<1>8. QED
  BY <1>5, <1>6, <1>7

\* The other steps leave the store alone; a reply to the end of the data tells
\* of the transaction that is stored.
LEMMA StoredStep ==
    ASSUME TypeOK, EnvelopeOpen, EnvelopeOne, StoredBefore, StoredOne, OKMeansStored, [Next]_vars
    PROVE  StoredBefore' /\ StoredOne' /\ OKMeansStored'
<1> USE SessionAssumption
<1> USE DEF TypeOK, EnvelopeOpen, InBody, Acknowledging, StoredBefore, StoredOne, OKMeansStored
<1>1. CASE Connect
  BY <1>1 DEF Connect, Fails, Closes, Answer, Continue, env, channel, envelope, log
<1>2. CASE SetIdle
  BY <1>2 DEF SetIdle, Reading, env, channel, envelope, log
<1>3. CASE Reply
  <2>1. stored' = stored /\ txn' = txn /\ ~Acknowledging'
    BY <1>3, ReplyPc
  <2>2. CASE answer = "DATA-END"
    <3>1. from' = 0
      BY <1>3, <2>2, ReplyPc, ResetType
    <3>2. \A t \in 1..MaxTxn : told'[t] # told[t] => t = from
      BY <1>3, <2>2, ReplyPc, TellOnly
    <3>3. \E j \in 1..Len(stored) : stored[j].txn = from
      BY <1>3, <2>2, ReplyPc
    <3>4. OKMeansStored'
      BY <2>1, <3>2, <3>3
    <3>5. QED
      BY <2>1, <3>1, <3>4, ClosedKeeps
  <2>3. CASE answer # "DATA-END"
    BY <1>3, <2>1, <2>3, ReplyPc DEF envelope
  <2>4. QED
    BY <2>2, <2>3
<1>4. CASE DataEndOverride
  <2>1. OKMeansStored'
    BY <1>4, FailKeeps DEF DataEndOverride
  <2>2. stored' = stored /\ txn' = txn /\ from' = 0 /\ ~Acknowledging'
    BY <1>4, ResetType DEF DataEndOverride, Continue
  <2>3. QED
    BY <2>1, <2>2, ClosedKeeps
<1>5. CASE DataEndContinue
  BY <1>5 DEF DataEndContinue, env, channel, envelope, log
<1>6. CASE InsertOK
  BY <1>6, StoreStep
<1>7. CASE InsertError
  <2>1. OKMeansStored'
    BY <1>7, FailKeeps DEF InsertError
  <2>2. QED
    BY <1>7, <2>1, ResetType, ClosedKeeps DEF InsertError
<1>8. CASE \E v \in {"HELO", "EHLO"} : Hello(v)
  BY <1>8 DEF Hello, Accept, ReadAt, ResetTxn, Answer, env, channel, envelope, log
<1>9. CASE Mail
  <2>1. /\ stored' = stored /\ told' = told /\ txn' = txn + 1 /\ from' = txn + 1
        /\ ~Acknowledging'
    BY <1>9 DEF Mail, Answer
  <2>2. txn \in Nat /\ \A j \in 1..Len(stored) : stored[j].txn \in Nat
    BY StoredType
  <2>3. StoredBefore'
    <3> HIDE DEF TypeOK
    <3> QED BY <2>1, <2>2
  <2>4. QED
    <3> HIDE DEF TypeOK, StoredBefore
    <3> QED BY <2>1, <2>3
<1>10. CASE Rcpt
  BY <1>10 DEF Rcpt, Accept, ReadAt, Answer, env, channel, envelope, log
<1>11. CASE Rset
  BY <1>11 DEF Rset, Accept, ReadAt, Answer, ResetTxn, env, channel, envelope, log
<1>12. CASE Other
  BY <1>12 DEF Other, ReadAt, Answer, env, channel, envelope, log
<1>13. CASE Data
  BY <1>13 DEF Data, Accept, ReadAt, Answer, env, channel, envelope, log
<1>14. CASE BodyLine
  BY <1>14 DEF BodyLine, ReadAt, env, channel, envelope, log
<1>15. CASE AuthBegin
  BY <1>15 DEF AuthBegin, Accept, ReadAt, env, channel, envelope, log
<1>16. CASE AuthFinish
  BY <1>16 DEF AuthFinish, ReadAt, Answer, env, channel, envelope, log
<1>17. CASE AuthFails
  BY <1>17 DEF AuthFails, ReadAt, Continue, env, channel, envelope, log
<1>18. CASE StartTLS
  BY <1>18 DEF StartTLS, Accept, ReadAt, Answer, env, channel, envelope, log
<1>19. CASE Handshake
  BY <1>19 DEF Handshake, ReadAt, ResetAfterTLS, ResetTxn, env, channel, envelope, log
<1>20. CASE \E size \in BodySizes : BodyRead(size)
  BY <1>20 DEF BodyRead, ReadAt, env, channel, envelope, log
<1>21. CASE \E size \in BodySizes, keep \in BOOLEAN : BodyRefused(size, keep)
  <2> PICK size \in BodySizes, keep \in BOOLEAN : BodyRefused(size, keep)
    BY <1>21
  <2>1. OKMeansStored'
    BY FailKeeps DEF BodyRefused
  <2>2. QED
    BY <2>1, ResetType DEF BodyRefused
<1>22. CASE End
  <2>1. from' \in {0, from} /\ stored' = stored /\ txn' = txn /\ told' = told
    BY <1>22, ResetType DEF End, envelope, log
  <2>2. ~Acknowledging /\ ~Acknowledging'
    BY <1>22 DEF End, Reading
  <2>3. StoredBefore' /\ StoredOne'
    <3> HIDE DEF TypeOK, StoredBefore, StoredOne, Acknowledging
    <3> QED BY <2>1, <2>2, ClosedKeeps
  <2>4. QED
    BY <2>1, <2>3
<1>23. CASE Disconnect
  BY <1>23 DEF Disconnect, env, channel, envelope, log
<1>24. CASE Tick
  BY <1>24 DEF Tick, env, channel, envelope, log
<1>25. CASE ResetStore
  BY <1>25 DEF ResetStore, env, channel, envelope, log
<1>26. CASE \E s \in Specs : Swap(s)
  BY <1>26 DEF Swap, env, channel, envelope, log
<1>27. CASE UNCHANGED vars
  BY <1>27 DEF vars, env, channel, envelope, log
<1>28. QED
  BY <1>1, <1>2, <1>3, <1>4, <1>5, <1>6, <1>7, <1>8, <1>9, <1>10, <1>11,
     <1>12, <1>13, <1>14, <1>15, <1>16, <1>17, <1>18, <1>19, <1>20, <1>21,
     <1>22, <1>23, <1>24, <1>25, <1>26, <1>27
     DEF Next, Run, Client

-----------------------------------------------------------------------------
(* Epochs, and the channel.                                                *)

LEMMA EpochStep ==
    ASSUME TypeOK, EpochsInOrder, BodyOfThisEpoch, [Next]_vars
    PROVE  EpochsInOrder' /\ BodyOfThisEpoch'
<1> USE SessionAssumption
<1> USE DEF TypeOK, EpochsInOrder, BodyOfThisEpoch, InBody
<1>1. CASE Connect
  BY <1>1 DEF Connect, Fails, Closes, Answer, Continue, env, channel, envelope, log
<1>2. CASE SetIdle
  BY <1>2 DEF SetIdle, Reading, env, channel, envelope, log
<1>3. CASE Reply
  <2>1. epoch' = epoch /\ stored' = stored
    BY <1>3, ReplyPc DEF env
  <2>2. EpochsInOrder'
    BY <1>3, <2>1, ReplyPc
  <2>3. QED
    BY <2>1, <2>2
<1>4. CASE DataEndOverride
  BY <1>4 DEF DataEndOverride, Fails, Closes, Continue, Tell, ResetToHelloed, ResetTxn, env, channel, envelope, log
<1>5. CASE DataEndContinue
  BY <1>5 DEF DataEndContinue, env, channel, envelope, log
<1>6. CASE InsertOK
  <2> DEFINE new == [txn |-> from, rcpt |-> rcpt, begun |-> body354, epoch |-> epoch]
  <2>1. body354 = epoch
    BY <1>6 DEF InsertOK
  <2>2. stored' = Append(stored, new) /\ new.begun = new.epoch
    BY <1>6, <2>1 DEF InsertOK
  <2>3. BodyOfThisEpoch'
    <3>1. new \in [txn : 0..MaxTxn, rcpt : Seq(1..MaxTxn), begun : Nat, epoch : Nat]
      OBVIOUS
    <3> HIDE DEF new
    <3>2. /\ Len(stored) \in Nat /\ Len(stored') = Len(stored) + 1
          /\ stored'[Len(stored) + 1] = new
          /\ \A j \in 1..Len(stored) : stored'[j] = stored[j]
      BY <2>2, <3>1
    <3>3. \A j \in 1..(Len(stored) + 1) : j = Len(stored) + 1 \/ j \in 1..Len(stored)
      <4> SUFFICES ASSUME NEW n \in Nat, n = Len(stored), NEW j \in 1..(n + 1), j # n + 1
                   PROVE  j \in 1..n
        BY <3>2
      <4> HIDE DEF TypeOK, EpochsInOrder, BodyOfThisEpoch, InBody
      <4> QED OBVIOUS
    <3>4. QED
      BY <2>2, <3>2, <3>3
  <2>4. EpochsInOrder'
    BY <1>6 DEF InsertOK, Answer
  <2>5. QED
    BY <2>3, <2>4
<1>7. CASE InsertError
  BY <1>7 DEF InsertError, Tell, ResetToHelloed, ResetTxn, env, channel, envelope, log
<1>8. CASE \E v \in {"HELO", "EHLO"} : Hello(v)
  BY <1>8 DEF Hello, Accept, ReadAt, ResetTxn, Answer, env, channel, envelope, log
<1>9. CASE Mail
  BY <1>9 DEF Mail, Accept, ReadAt, Answer, env, channel, envelope, log
<1>10. CASE Rcpt
  BY <1>10 DEF Rcpt, Accept, ReadAt, Answer, env, channel, envelope, log
<1>11. CASE Rset
  BY <1>11 DEF Rset, Accept, ReadAt, Answer, ResetTxn, env, channel, envelope, log
<1>12. CASE Other
  BY <1>12 DEF Other, ReadAt, Answer, env, channel, envelope, log
<1>13. CASE Data
  BY <1>13 DEF Data, Accept, ReadAt, Answer, env, channel, envelope, log
<1>14. CASE BodyLine
  BY <1>14 DEF BodyLine, ReadAt, env, channel, envelope, log
<1>15. CASE AuthBegin
  BY <1>15 DEF AuthBegin, Accept, ReadAt, env, channel, envelope, log
<1>16. CASE AuthFinish
  BY <1>16 DEF AuthFinish, ReadAt, Answer, env, channel, envelope, log
<1>17. CASE AuthFails
  BY <1>17 DEF AuthFails, ReadAt, Continue, env, channel, envelope, log
<1>18. CASE StartTLS
  BY <1>18 DEF StartTLS, Accept, ReadAt, Answer, env, channel, envelope, log
<1>19. CASE Handshake
  BY <1>19 DEF Handshake, ReadAt, ResetAfterTLS, ResetTxn, env, channel, envelope, log
<1>20. CASE \E size \in BodySizes : BodyRead(size)
  BY <1>20 DEF BodyRead, ReadAt, env, channel, envelope, log
<1>21. CASE \E size \in BodySizes, keep \in BOOLEAN : BodyRefused(size, keep)
  BY <1>21 DEF BodyRefused, ReadAt, ResetToHelloed, ResetTxn, Tell, env, channel, envelope, log
<1>22. CASE End
  BY <1>22 DEF End, Reading, ResetToHelloed, ResetTxn, env, channel, envelope, log
<1>23. CASE Disconnect
  BY <1>23 DEF Disconnect, env, channel, envelope, log
<1>24. CASE Tick
  BY <1>24 DEF Tick, env, channel, envelope, log
<1>25. CASE ResetStore
  BY <1>25 DEF ResetStore, env, channel, envelope, log
<1>26. CASE \E s \in Specs : Swap(s)
  BY <1>26 DEF Swap, env, channel, envelope, log
<1>27. CASE UNCHANGED vars
  BY <1>27 DEF vars, env, channel, envelope, log
<1>28. QED
  BY <1>1, <1>2, <1>3, <1>4, <1>5, <1>6, <1>7, <1>8, <1>9, <1>10, <1>11,
     <1>12, <1>13, <1>14, <1>15, <1>16, <1>17, <1>18, <1>19, <1>20, <1>21,
     <1>22, <1>23, <1>24, <1>25, <1>26, <1>27
     DEF Next, Run, Client

\* Only the handshake changes the channel, and it forgets the authentication.
LEMMA ChannelStep ==
    ASSUME TypeOK, AuthOnThisChannel, [Next]_vars
    PROVE  AuthOnThisChannel'
<1> USE DEF AuthOnThisChannel
<1>1. CASE Connect
  BY <1>1 DEF Connect, Fails, Closes, Answer, Continue, env, channel, envelope, log
<1>2. CASE SetIdle
  BY <1>2 DEF SetIdle, Reading, env, channel, envelope, log
<1>3. CASE Reply
  BY <1>3 DEF Reply, Fails, Closes, Continue, Tell, ResetToHelloed, ResetTxn, env, channel, envelope, log
<1>4. CASE DataEndOverride
  BY <1>4 DEF DataEndOverride, Fails, Closes, Continue, Tell, ResetToHelloed, ResetTxn, env, channel, envelope, log
<1>5. CASE DataEndContinue
  BY <1>5 DEF DataEndContinue, env, channel, envelope, log
<1>6. CASE InsertOK
  BY <1>6 DEF InsertOK, Answer, env, channel, envelope, log
<1>7. CASE InsertError
  BY <1>7 DEF InsertError, Tell, ResetToHelloed, ResetTxn, env, channel, envelope, log
<1>8. CASE \E v \in {"HELO", "EHLO"} : Hello(v)
  BY <1>8 DEF Hello, Accept, ReadAt, ResetTxn, Answer, env, channel, envelope, log
<1>9. CASE Mail
  BY <1>9 DEF Mail, Accept, ReadAt, Answer, env, channel, envelope, log
<1>10. CASE Rcpt
  BY <1>10 DEF Rcpt, Accept, ReadAt, Answer, env, channel, envelope, log
<1>11. CASE Rset
  BY <1>11 DEF Rset, Accept, ReadAt, Answer, ResetTxn, env, channel, envelope, log
<1>12. CASE Other
  BY <1>12 DEF Other, ReadAt, Answer, env, channel, envelope, log
<1>13. CASE Data
  BY <1>13 DEF Data, Accept, ReadAt, Answer, env, channel, envelope, log
<1>14. CASE BodyLine
  BY <1>14 DEF BodyLine, ReadAt, env, channel, envelope, log
<1>15. CASE AuthBegin
  BY <1>15 DEF AuthBegin, Accept, ReadAt, env, channel, envelope, log
<1>16. CASE AuthFinish
  BY <1>16 DEF AuthFinish, ReadAt, Answer, env, channel, envelope, log
<1>17. CASE AuthFails
  BY <1>17 DEF AuthFails, ReadAt, Continue, env, channel, envelope, log
<1>18. CASE StartTLS
  BY <1>18 DEF StartTLS, Accept, ReadAt, Answer, env, channel, envelope, log
<1>19. CASE Handshake
  BY <1>19 DEF Handshake, ReadAt, ResetAfterTLS, ResetTxn, env, channel, envelope, log
<1>20. CASE \E size \in BodySizes : BodyRead(size)
  BY <1>20 DEF BodyRead, ReadAt, env, channel, envelope, log
<1>21. CASE \E size \in BodySizes, keep \in BOOLEAN : BodyRefused(size, keep)
  BY <1>21 DEF BodyRefused, ReadAt, ResetToHelloed, ResetTxn, Tell, env, channel, envelope, log
<1>22. CASE End
  BY <1>22 DEF End, Reading, ResetToHelloed, ResetTxn, env, channel, envelope, log
<1>23. CASE Disconnect
  BY <1>23 DEF Disconnect, env, channel, envelope, log
<1>24. CASE Tick
  BY <1>24 DEF Tick, env, channel, envelope, log
<1>25. CASE ResetStore
  BY <1>25 DEF ResetStore, env, channel, envelope, log
<1>26. CASE \E s \in Specs : Swap(s)
  BY <1>26 DEF Swap, env, channel, envelope, log
<1>27. CASE UNCHANGED vars
  BY <1>27 DEF vars, env, channel, envelope, log
<1>28. QED
  BY <1>1, <1>2, <1>3, <1>4, <1>5, <1>6, <1>7, <1>8, <1>9, <1>10, <1>11,
     <1>12, <1>13, <1>14, <1>15, <1>16, <1>17, <1>18, <1>19, <1>20, <1>21,
     <1>22, <1>23, <1>24, <1>25, <1>26, <1>27
     DEF Next, Run, Client

-----------------------------------------------------------------------------
(* The theorems.                                                           *)

LEMMA SessionInitInv == Init => SessionInv
<1> SUFFICES ASSUME Init PROVE SessionInv
  OBVIOUS
<1> USE SessionAssumption
<1>1. TypeOK
  <2>1. stored \in Seq([txn : 0..MaxTxn, rcpt : Seq(1..MaxTxn), begun : Nat, epoch : Nat])
    BY DEF Init
  <2>2. rcpt \in Seq(1..MaxTxn) /\ told \in [1..MaxTxn -> {"none", "ok", "fail"}]
    BY DEF Init
  <2>3. /\ epoch \in 1..MaxEpoch
        /\ age \in 0..MaxAge /\ deadline \in 0..MaxAge
        /\ from \in 0..MaxTxn /\ txn \in 0..MaxTxn
    BY DEF Init
  <2>4. {broken, helo, tls, authed, authTls} \subseteq BOOLEAN
    BY Zenon DEF Init
  <2>5. data \in [epoch : Nat, max : Nat] /\ body354 \in Nat
    BY NoDataType DEF Init
  <2>6. QED
    BY <2>1, <2>2, <2>3, <2>4, <2>5 DEF Init, TypeOK, Verbs
<1>2. EnvelopeOpen /\ StoredBefore /\ EpochsInOrder
  BY DEF Init, EnvelopeOpen, StoredBefore, EpochsInOrder, InBody, Acknowledging
<1>3. OneTransaction /\ OKMeansStored /\ AuthOnThisChannel /\ BodyOfThisEpoch
  BY DEF Init, OneTransaction, EnvelopeOne, StoredOne, OKMeansStored, AuthOnThisChannel,
         BodyOfThisEpoch
<1>4. QED
  BY <1>1, <1>2, <1>3 DEF SessionInv

LEMMA SessionNextInv == SessionInv /\ [Next]_vars => SessionInv'
  BY TypeStep, EnvelopeStep, StoredStep, EpochStep, ChannelStep DEF SessionInv, OneTransaction

\* The session's inductive invariant holds in every reachable state.
THEOREM SessionInvariant == Spec => []SessionInv
  BY SessionInitInv, SessionNextInv, PTL DEF Spec

\* No sequence of commands, scripted replies and applies mixes two envelopes in
\* cmdData, or stores a transaction twice.
THEOREM EnvelopesNeverMix == Spec => []OneTransaction
  BY SessionInvariant, PTL DEF SessionInv

\* The 250 of cmdData is only ever sent for a message that Insert accepted.
THEOREM AcknowledgedIsStored == Spec => []OKMeansStored
  BY SessionInvariant, PTL DEF SessionInv

\* resetAfterTLS: authentication never carries over a STARTTLS.
THEOREM AuthStaysOnChannel == Spec => []AuthOnThisChannel
  BY SessionInvariant, PTL DEF SessionInv

\* A body sent before a reset never enters the emptied inbox, wherever between
\* DATA and Insert the reset falls.
THEOREM NoBodyCrossesReset == Spec => []BodyOfThisEpoch
  BY SessionInvariant, PTL DEF SessionInv

-----------------------------------------------------------------------------
(* The listener and the admission gate.                                    *)

Places == {"away", "accepted", "serve", "admit", "session", "command", "data", "close", "done",
           "gone"}

\* Connections that Server.wg counts.
Serving == {c \in Conns : at[c] \notin {"away", "accepted", "gone"}}

SessionsExact ==
    /\ sessions = Cardinality(Admitted)
    /\ \A a \in IPs : perIP[a] = Cardinality({c \in Admitted : IpOf[c] = a})

DataExact ==
    /\ inflight = Cardinality(InData)
    /\ reserved = Cardinality(ReservedBytes)
    /\ IsFiniteSet(ReservedBytes)

\* Server.wg counts the accept loop and the connections registered.
Tracked ==
    /\ wg = Cardinality(Serving) + IF acceptor \in {"accept", "got"} THEN 1 ELSE 0
    /\ acceptor = "got" => at[got] = "accepted"

\* The inductive invariant.
ServerInv == ServerTypeOK /\ SessionsExact /\ DataExact /\ Tracked

-----------------------------------------------------------------------------
(* Counting.                                                               *)

LEMMA Counting ==
    ASSUME NEW S, IsFiniteSet(S), NEW c
    PROVE  /\ Cardinality(S) \in Nat
           /\ c \in S => Cardinality(S \ {c}) = Cardinality(S) - 1 /\ Cardinality(S) >= 1
           /\ c \notin S => Cardinality(S \cup {c}) = Cardinality(S) + 1
<1>1. Cardinality(S) \in Nat
  BY FS_CardinalityType
<1>2. CASE c \in S
  <2>1. IsFiniteSet(S \ {c}) /\ Cardinality(S \ {c}) = Cardinality(S) - 1
    BY <1>2, FS_RemoveElement
  <2>2. Cardinality(S \ {c}) \in Nat
    BY <2>1, FS_CardinalityType
  <2>3. QED
    BY <1>1, <1>2, <2>1, <2>2
<1>3. CASE c \notin S
  BY <1>1, <1>3, FS_AddElement
<1>4. QED
  BY <1>2, <1>3

LEMMA ConnsCount ==
    /\ IsFiniteSet(Admitted) /\ IsFiniteSet(InData) /\ IsFiniteSet(Serving)
    /\ \A a : IsFiniteSet({c \in Admitted : IpOf[c] = a})
<1>1. IsFiniteSet(Conns)
  BY ServerAssumption
<1>2. /\ Admitted \subseteq Conns /\ InData \subseteq Conns /\ Serving \subseteq Conns
      /\ \A a : {c \in Admitted : IpOf[c] = a} \subseteq Conns
  BY DEF Admitted, InData, Serving
<1>3. QED
  BY <1>1, <1>2, FS_Subset

\* The goroutine of c goes on to x.
Goes(c, x) == at' = [at EXCEPT ![c] = x]

\* S' is S after c, which was in S or not, is in it or not.
Became(new, S, c, was, is) ==
    /\ was <=> c \in S
    /\ new = IF was THEN (IF is THEN S ELSE S \ {c}) ELSE (IF is THEN S \cup {c} ELSE S)

\* The sets a connection enters and leaves.
LEMMA Moved ==
    ASSUME ServerTypeOK, NEW c \in Conns, NEW x, Goes(c, x)
    PROVE  /\ Became(Admitted', Admitted, c, at[c] \in {"session", "command", "data"},
                     x \in {"session", "command", "data"})
           /\ Became(InData', InData, c, at[c] = "data", x = "data")
           /\ Became(Serving', Serving, c, at[c] \notin {"away", "accepted", "gone"},
                     x \notin {"away", "accepted", "gone"})
           /\ \A d \in Conns : at'[d] = IF d = c THEN x ELSE at[d]
           /\ x \in Places => at' \in [Conns -> Places]
<1>1. \A d \in Conns : at'[d] = IF d = c THEN x ELSE at[d]
  BY DEF ServerTypeOK, Goes
<1>2. \A d : /\ d \in Admitted' <=> IF d = c THEN x \in {"session", "command", "data"}
                                    ELSE d \in Admitted
             /\ d \in InData' <=> IF d = c THEN x = "data" ELSE d \in InData
             /\ d \in Serving' <=> IF d = c THEN x \notin {"away", "accepted", "gone"}
                                   ELSE d \in Serving
  BY <1>1 DEF Admitted, InData, Serving
<1>3. /\ c \in Admitted <=> at[c] \in {"session", "command", "data"}
      /\ c \in InData <=> at[c] = "data"
      /\ c \in Serving <=> at[c] \notin {"away", "accepted", "gone"}
  BY DEF Admitted, InData, Serving
<1>4. Became(Admitted', Admitted, c, at[c] \in {"session", "command", "data"},
             x \in {"session", "command", "data"})
  BY <1>2, <1>3 DEF Became
<1>5. Became(InData', InData, c, at[c] = "data", x = "data")
  BY <1>2, <1>3 DEF Became
<1>6. Became(Serving', Serving, c, at[c] \notin {"away", "accepted", "gone"},
             x \notin {"away", "accepted", "gone"})
  BY <1>2, <1>3 DEF Became
<1>7. x \in Places => at' \in [Conns -> Places]
  BY DEF ServerTypeOK, Goes, Places
<1>8. QED
  BY <1>1, <1>4, <1>5, <1>6, <1>7

LEMMA SessionsKept ==
    ASSUME SessionsExact, Admitted' = Admitted, UNCHANGED <<sessions, perIP>>
    PROVE  SessionsExact'
  BY DEF SessionsExact

LEMMA DataKept ==
    ASSUME DataExact, InData' = InData, \A c \in InData : reserve'[c] = reserve[c],
           UNCHANGED <<inflight, reserved>>
    PROVE  DataExact'
<1>1. ReservedBytes' = ReservedBytes
  BY DEF ReservedBytes
<1>2. QED
  BY <1>1 DEF DataExact

\* gate.acquire counts a connection that was not counted.
LEMMA AcquireExact ==
    ASSUME ServerTypeOK, SessionsExact, NEW c \in Conns, Acquire(c)
    PROVE  SessionsExact'
<1>1. Admitted' = Admitted \cup {c} /\ c \notin Admitted
  <2>1. at[c] = "admit" /\ Goes(c, "session")
    BY DEF Acquire, Goes
  <2>2. QED
    BY <2>1, Moved DEF Became
<1>2. sessions' = Cardinality(Admitted')
  BY <1>1, Counting, ConnsCount DEF SessionsExact, Acquire
<1>3. ASSUME NEW a \in IPs
      PROVE  perIP'[a] = Cardinality({d \in Admitted' : IpOf[d] = a})
  <2> DEFINE S == {d \in Admitted : IpOf[d] = a}
  <2>1. perIP[a] = Cardinality(S) /\ IsFiniteSet(S) /\ c \notin S
    BY <1>1, ConnsCount DEF SessionsExact
  <2>2. CASE IpOf[c] = a
    <3>1. {d \in Admitted' : IpOf[d] = a} = S \cup {c}
      BY <1>1, <2>2
    <3>2. Valid(c) /\ perIP'[a] = perIP[a] + 1
      BY <2>2, ServerAssumption DEF Valid, Acquire, ServerTypeOK
    <3> HIDE DEF S
    <3>3. QED
      BY <2>1, <3>1, <3>2, Counting
  <2>3. CASE IpOf[c] # a
    <3>1. {d \in Admitted' : IpOf[d] = a} = S
      BY <1>1, <2>3
    <3>2. perIP'[a] = perIP[a]
      BY <2>3 DEF Acquire, ServerTypeOK
    <3>3. QED
      BY <2>1, <3>1, <3>2
  <2>4. QED
    BY <2>2, <2>3
<1>4. QED
  BY <1>2, <1>3 DEF SessionsExact

\* gate.release: the floors at zero are not reached.
LEMMA ReleaseExact ==
    ASSUME ServerTypeOK, SessionsExact, NEW c \in Conns, Release(c)
    PROVE  SessionsExact'
<1>1. Admitted' = Admitted \ {c} /\ c \in Admitted
  <2>1. at[c] = "session" /\ Goes(c, "close")
    BY DEF Release, Goes
  <2>2. QED
    BY <2>1, Moved DEF Became
<1>2. sessions' = Cardinality(Admitted')
  <2>1. /\ Cardinality(Admitted) \in Nat /\ Cardinality(Admitted) >= 1
        /\ Cardinality(Admitted') = Cardinality(Admitted) - 1
    BY <1>1, Counting, ConnsCount
  <2>2. sessions' = Floor0(Cardinality(Admitted) - 1)
    BY DEF SessionsExact, Release
  <2>3. QED
    BY <2>1, <2>2 DEF Floor0
<1>3. ASSUME NEW a \in IPs
      PROVE  perIP'[a] = Cardinality({d \in Admitted' : IpOf[d] = a})
  <2> DEFINE S == {d \in Admitted : IpOf[d] = a}
  <2>1. perIP[a] = Cardinality(S) /\ IsFiniteSet(S)
    BY ConnsCount DEF SessionsExact
  <2>2. CASE IpOf[c] = a
    <3>1. {d \in Admitted' : IpOf[d] = a} = S \ {c} /\ c \in S
      BY <1>1, <2>2
    <3>2. Valid(c) /\ perIP'[a] = Floor0(perIP[a] - 1)
      BY <2>2, ServerAssumption DEF Valid, Release, ServerTypeOK
    <3> HIDE DEF S
    <3>3. /\ Cardinality(S) \in Nat /\ Cardinality(S) >= 1
          /\ Cardinality(S \ {c}) = Cardinality(S) - 1
      BY <2>1, <3>1, Counting
    <3>4. Floor0(Cardinality(S) - 1) = Cardinality(S) - 1
      BY <3>3 DEF Floor0
    <3>5. QED
      BY <2>1, <3>1, <3>2, <3>3, <3>4
  <2>3. CASE IpOf[c] # a
    <3>1. {d \in Admitted' : IpOf[d] = a} = S
      BY <1>1, <2>3
    <3>2. perIP'[a] = perIP[a]
      BY <2>3 DEF Release, ServerTypeOK
    <3>3. QED
      BY <2>1, <3>1, <3>2
  <2>4. QED
    BY <2>2, <2>3
<1>4. QED
  BY <1>2, <1>3 DEF SessionsExact

-----------------------------------------------------------------------------
(* Reservations.                                                           *)

\* The pairs of one connection.
Share(c, n) == {c} \X (1..n)

LEMMA ShareSize ==
    ASSUME NEW c, NEW n \in Nat
    PROVE  IsFiniteSet(Share(c, n)) /\ Cardinality(Share(c, n)) = n
<1>1. IsFiniteSet(1..n) /\ Cardinality(1..n) = n
  <2>1. 1 \in Int /\ n \in Int
    OBVIOUS
  <2>2. IsFiniteSet(1..n) /\ Cardinality(1..n) = IF 1 > n THEN 0 ELSE n - 1 + 1
    BY <2>1, FS_Interval
  <2>3. (IF 1 > n THEN 0 ELSE n - 1 + 1) = n
    OBVIOUS
  <2>4. QED
    BY <2>2, <2>3
<1>2. IsFiniteSet({c}) /\ Cardinality({c}) = 1
  BY FS_Singleton
<1>3. IsFiniteSet({c} \X (1..n)) /\ Cardinality({c} \X (1..n)) = 1 * n
  <2> SUFFICES ASSUME NEW S, NEW T, S = {c}, T = 1..n
               PROVE  IsFiniteSet(S \X T) /\ Cardinality(S \X T) = 1 * n
    OBVIOUS
  <2>1. IsFiniteSet(S) /\ Cardinality(S) = 1 /\ IsFiniteSet(T) /\ Cardinality(T) = n
    BY <1>1, <1>2
  <2>2. IsFiniteSet(S \X T) /\ Cardinality(S \X T) = Cardinality(S) * Cardinality(T)
    BY <2>1, FS_Product
  <2>3. QED
    BY <2>1, <2>2
<1>4. QED
  BY <1>3 DEF Share

\* Pairs of one connection beside those of the others.
LEMMA ShareBeside ==
    ASSUME NEW R, IsFiniteSet(R), NEW c, NEW n \in Nat, R \cap Share(c, n) = {}
    PROVE  /\ IsFiniteSet(R \cup Share(c, n))
           /\ Cardinality(R \cup Share(c, n)) = Cardinality(R) + n
           /\ Cardinality(R) \in Nat
<1>1. IsFiniteSet(Share(c, n)) /\ Cardinality(Share(c, n)) = n
  BY ShareSize
<1>2. Cardinality(R) \in Nat
  BY FS_CardinalityType
<1>3. /\ IsFiniteSet(R \cup Share(c, n))
      /\ Cardinality(R \cup Share(c, n)) =
           Cardinality(R) + Cardinality(Share(c, n)) - Cardinality(R \cap Share(c, n))
  BY <1>1, FS_Union
<1>4. Cardinality(R \cap Share(c, n)) = 0
  BY FS_EmptySet
<1>5. QED
  BY <1>1, <1>2, <1>3, <1>4

\* gate.reserveData counts a DATA that was not counted.
LEMMA ReserveExact ==
    ASSUME ServerTypeOK, DataExact, NEW c \in Conns, NEW d \in Declared, DataBegin(c, d),
           reserve'[c] \in Nat
    PROVE  DataExact'
<1>1. InData' = InData \cup {c} /\ c \notin InData
  <2>1. at[c] = "command" /\ Goes(c, "data")
    BY DEF DataBegin, Goes
  <2>2. QED
    BY <2>1, Moved DEF Became
<1>2. /\ inflight' = inflight + 1 /\ reserved' = reserved + reserve'[c]
      /\ \A e \in InData : reserve'[e] = reserve[e]
  BY <1>1 DEF DataBegin, ServerTypeOK, InData
<1>3. inflight' = Cardinality(InData')
  BY <1>1, <1>2, Counting, ConnsCount DEF DataExact
<1>4. ReservedBytes' = ReservedBytes \cup Share(c, reserve'[c])
  BY <1>1, <1>2 DEF ReservedBytes, Share
<1>5. ReservedBytes \cap Share(c, reserve'[c]) = {}
  BY <1>1 DEF ReservedBytes, Share
<1>6. QED
  <2> SUFFICES ASSUME NEW n \in Nat, n = reserve'[c], NEW R, R = ReservedBytes
               PROVE  DataExact'
    OBVIOUS
  <2>1. /\ IsFiniteSet(R \cup Share(c, n))
        /\ Cardinality(R \cup Share(c, n)) = Cardinality(R) + n
    BY <1>5, ShareBeside DEF DataExact
  <2>2. QED
    BY <1>2, <1>3, <1>4, <2>1 DEF DataExact

\* gate.releaseData gives back what this DATA reserved.
LEMMA DataEndExact ==
    ASSUME ServerTypeOK, DataExact, NEW c \in Conns, DataEnd(c)
    PROVE  DataExact'
<1>1. InData' = InData \ {c} /\ c \in InData
  <2>1. at[c] = "data" /\ Goes(c, "session")
    BY DEF DataEnd, Goes
  <2>2. QED
    BY <2>1, Moved DEF Became
<1>2. /\ inflight' = Floor0(inflight - 1) /\ reserved' = Floor0(reserved - reserve[c])
      /\ \A e \in InData' : reserve'[e] = reserve[e]
      /\ reserve[c] \in Nat
  BY <1>1 DEF DataEnd, ServerTypeOK, InData
<1>3. inflight' = Cardinality(InData')
  <2>1. /\ Cardinality(InData) \in Nat /\ Cardinality(InData) >= 1
        /\ Cardinality(InData') = Cardinality(InData) - 1
    BY <1>1, Counting, ConnsCount
  <2>2. QED
    BY <1>2, <2>1 DEF DataExact, Floor0
<1>4. ReservedBytes = ReservedBytes' \cup Share(c, reserve[c])
  BY <1>1, <1>2 DEF ReservedBytes, Share
<1>5. ReservedBytes' \cap Share(c, reserve[c]) = {}
  BY <1>1 DEF ReservedBytes, Share
<1>6. IsFiniteSet(ReservedBytes')
  BY <1>4, FS_Subset DEF DataExact
<1>7. QED
  <2> SUFFICES ASSUME NEW n \in Nat, n = reserve[c], NEW R, R = ReservedBytes'
               PROVE  DataExact'
    BY <1>2
  <2>1. Cardinality(ReservedBytes) = Cardinality(R) + n /\ Cardinality(R) \in Nat
    BY <1>4, <1>5, <1>6, ShareBeside
  <2>2. reserved' = Cardinality(R)
    BY <1>2, <2>1 DEF DataExact, Floor0
  <2>3. QED
    BY <1>3, <1>6, <2>2 DEF DataExact

-----------------------------------------------------------------------------
(* Types and goroutines.                                                   *)

LEMMA LimitsType ==
    ASSUME ServerTypeOK
    PROVE  /\ limits.message \in Nat /\ limits.message > 0
           /\ \A d \in Declared : ReserveBytes(d, limits.message) \in Nat
<1>1. limits.message \in Nat /\ limits.message > 0
  BY ServerAssumption DEF ServerTypeOK, Admission
<1>2. \A d \in Declared : d \in Nat
  BY ServerAssumption
<1>3. QED
  BY <1>1, <1>2 DEF ReserveBytes

\* The goroutines of the accept loop and of the connections.
LEMMA TrackedKept ==
    ASSUME ServerInv, Serving' = Serving, UNCHANGED <<wg, acceptor, got>>,
           acceptor = "got" => at'[got] = at[got]
    PROVE  Tracked'
  BY DEF ServerInv, Tracked

LEMMA FloorType == \A n \in Int : Floor0(n) \in Nat
  BY DEF Floor0

\* A goroutine's step that is neither its first nor its last.
LEMMA InsideStep ==
    ASSUME ServerInv, NEW c \in Conns, NEW x \in Places \ {"away", "accepted", "gone"},
           at[c] \notin {"away", "accepted", "gone"}, Goes(c, x),
           UNCHANGED <<wg, acceptor, got>>
    PROVE  Tracked' /\ at' \in [Conns -> Places]
<1>1. Serving' = Serving
  BY Moved DEF ServerInv, Became
<1>2. acceptor = "got" => at'[got] = at[got]
  BY Moved DEF ServerInv, ServerTypeOK, Tracked
<1>3. QED
  BY <1>1, <1>2, Moved, TrackedKept DEF ServerInv

LEMMA StartInv == ServerInv /\ Start => ServerInv'
<1> SUFFICES ASSUME ServerInv, Start PROVE ServerInv'
  OBVIOUS
<1>1. /\ Admitted' = Admitted /\ InData' = InData /\ Serving' = Serving
      /\ UNCHANGED <<gate, body, at>>
  BY DEF Start, Admitted, InData, Serving
<1>2. SessionsExact' /\ DataExact'
  BY <1>1, SessionsKept, DataKept DEF ServerInv, gate, body
<1>3. Cardinality(Serving) \in Nat
  BY ConnsCount, FS_CardinalityType
<1>4. Tracked' /\ wg' \in Nat
  BY <1>1, <1>3 DEF ServerInv, Tracked, Start
<1>5. ServerTypeOK'
  BY <1>4 DEF ServerInv, ServerTypeOK, Start, gate, body, shutdown
<1>6. QED
  BY <1>2, <1>4, <1>5 DEF ServerInv

LEMMA AcceptInv == \A c \in Conns : ServerInv /\ AcceptConn(c) => ServerInv'
<1> SUFFICES ASSUME NEW c \in Conns, ServerInv, AcceptConn(c) PROVE ServerInv'
  OBVIOUS
<1>1. at[c] = "away" /\ Goes(c, "accepted") /\ UNCHANGED <<gate, body>>
  BY DEF AcceptConn, Goes
<1>2. Admitted' = Admitted /\ InData' = InData /\ Serving' = Serving
  BY <1>1, Moved DEF ServerInv, Became
<1>3. SessionsExact' /\ DataExact'
  BY <1>1, <1>2, SessionsKept, DataKept DEF ServerInv, gate, body
<1>4. at'[c] = "accepted" /\ at' \in [Conns -> Places]
  BY <1>1, Moved DEF ServerInv, Places
<1>5. Tracked'
  BY <1>2, <1>4 DEF ServerInv, Tracked, AcceptConn
<1>6. ServerTypeOK'
  BY <1>4, ServerAssumption DEF ServerInv, ServerTypeOK, Places, AcceptConn, gate, body, shutdown
<1>7. QED
  BY <1>3, <1>5, <1>6 DEF ServerInv

LEMMA RegisterInv == ServerInv /\ Register => ServerInv'
<1> SUFFICES ASSUME ServerInv, Register PROVE ServerInv'
  OBVIOUS
<1>1. /\ got \in Conns /\ at[got] = "accepted" /\ Goes(got, "serve")
      /\ UNCHANGED <<gate, body>>
  BY DEF Goes, Register, ServerInv, Tracked, ServerTypeOK
<1>2. /\ Admitted' = Admitted /\ InData' = InData
      /\ Serving' = Serving \cup {got} /\ got \notin Serving
  BY <1>1, Moved DEF ServerInv, Became
<1>3. SessionsExact' /\ DataExact'
  BY <1>1, <1>2, SessionsKept, DataKept DEF ServerInv, gate, body
<1>4. Cardinality(Serving) \in Nat /\ Cardinality(Serving') = Cardinality(Serving) + 1
  BY <1>2, ConnsCount, Counting
<1>5. Tracked' /\ wg' \in Nat
  BY <1>4 DEF ServerInv, Tracked, Register
<1>6. at' \in [Conns -> Places] /\ conns' \subseteq Conns
  BY <1>1, Moved DEF ServerInv, ServerTypeOK, Places, Register
<1>7. ServerTypeOK'
  BY <1>5, <1>6, ServerAssumption
     DEF ServerInv, ServerTypeOK, Places, Register, gate, body, shutdown
<1>8. QED
  BY <1>3, <1>5, <1>7 DEF ServerInv

LEMMA TurnAwayInv == ServerInv /\ TurnAway => ServerInv'
<1> SUFFICES ASSUME ServerInv, TurnAway PROVE ServerInv'
  OBVIOUS
<1>1. /\ got \in Conns /\ at[got] = "accepted" /\ Goes(got, "gone")
      /\ UNCHANGED <<gate, body>>
  BY DEF Goes, TurnAway, ServerInv, Tracked, ServerTypeOK
<1>2. Admitted' = Admitted /\ InData' = InData /\ Serving' = Serving
  BY <1>1, Moved DEF ServerInv, Became
<1>3. SessionsExact' /\ DataExact'
  BY <1>1, <1>2, SessionsKept, DataKept DEF ServerInv, gate, body
<1>4. Cardinality(Serving) \in Nat
  BY ConnsCount, FS_CardinalityType
<1>5. Tracked' /\ wg' \in Nat
  BY <1>2, <1>4 DEF ServerInv, Tracked, TurnAway
<1>6. at' \in [Conns -> Places] /\ closed' \subseteq Conns
  BY <1>1, Moved DEF ServerInv, ServerTypeOK, Places, TurnAway
<1>7. ServerTypeOK'
  BY <1>5, <1>6, ServerAssumption
     DEF ServerInv, ServerTypeOK, Places, TurnAway, gate, body, shutdown
<1>8. QED
  BY <1>3, <1>5, <1>7 DEF ServerInv

\* Steps that move no connection and change no counter of the gate.
LEMMA OutsideInv ==
    ASSUME ServerInv,
           \/ AcceptStops \/ Shutdown \/ ShutdownBegin \/ GiveUp \/ UNCHANGED serverVars
           \/ \E l \in Admissions : Apply(l)
    PROVE  ServerInv'
<1>1. UNCHANGED <<at, read, sessions, perIP, inflight, reserved, reserve, room, buffered, got>>
  BY DEF AcceptStops, Shutdown, CloseListener, Drained, CloseConn, ShutdownBegin, GiveUp, Apply,
         serverVars, server, gate, body
<1>2. Admitted' = Admitted /\ InData' = InData /\ Serving' = Serving
  BY <1>1 DEF Admitted, InData, Serving
<1>3. SessionsExact' /\ DataExact'
  BY <1>1, <1>2, SessionsKept, DataKept DEF ServerInv
<1>4. Cardinality(Serving) \in Nat
  BY ConnsCount, FS_CardinalityType
<1>5. Tracked' /\ wg' \in Nat
  <2>1. CASE AcceptStops
    BY <1>1, <1>2, <1>4, <2>1 DEF ServerInv, Tracked, AcceptStops
  <2>2. CASE UNCHANGED <<wg, acceptor>>
    BY <1>1, <1>2, <2>2, TrackedKept DEF ServerInv, ServerTypeOK
  <2>3. QED
    BY <2>1, <2>2
       DEF Shutdown, CloseListener, Drained, CloseConn, ShutdownBegin, GiveUp, Apply, serverVars,
           server
<1>6. /\ limits' \in Admissions /\ acceptor' \in {"none", "accept", "got", "done"}
      /\ (acceptor' = "got") = (got' # None)
      /\ conns' \subseteq Conns /\ closed' \subseteq Conns /\ toClose' \subseteq Conns
      /\ stopping' \in {"no", "listener", "conns", "drained", "gaveUp"}
  BY <1>1
     DEF ServerInv, ServerTypeOK, AcceptStops, Shutdown, CloseListener, Drained, CloseConn,
         ShutdownBegin, GiveUp, Apply, serverVars, server, shutdown
<1>7. ServerTypeOK'
  BY <1>1, <1>5, <1>6 DEF ServerInv, ServerTypeOK
<1>8. QED
  BY <1>3, <1>5, <1>7 DEF ServerInv

\* Steps of a connection's goroutine that leave the gate alone.
LEMMA QuietInv ==
    ASSUME ServerInv, NEW c \in Conns,
           \/ ReadLimits(c) \/ Refuse(c) \/ ReadCommand(c) \/ OtherCommand(c) \/ Close(c)
    PROVE  ServerInv'
<1>1. PICK x \in Places \ {"away", "accepted", "gone"} :
          /\ Goes(c, x) /\ at[c] \notin {"away", "accepted", "gone"}
          /\ x # "data" /\ at[c] # "data"
          /\ x \in {"session", "command"} <=> at[c] \in {"session", "command"}
  <2>1. CASE ReadLimits(c)
    <3>1. at[c] = "serve" /\ Goes(c, "admit")
      BY <2>1 DEF ReadLimits, Goes
    <3>2. QED
      BY <3>1 DEF Places
  <2>2. CASE Refuse(c)
    <3>1. at[c] = "admit" /\ Goes(c, "close")
      BY <2>2 DEF Refuse, Goes
    <3>2. QED
      BY <3>1 DEF Places
  <2>3. CASE ReadCommand(c)
    <3>1. at[c] = "session" /\ Goes(c, "command")
      BY <2>3 DEF ReadCommand, Goes
    <3>2. QED
      BY <3>1 DEF Places
  <2>4. CASE OtherCommand(c)
    <3>1. at[c] = "command" /\ Goes(c, "session")
      BY <2>4 DEF OtherCommand, Goes
    <3>2. QED
      BY <3>1 DEF Places
  <2>5. CASE Close(c)
    <3>1. at[c] = "close" /\ Goes(c, "done")
      BY <2>5 DEF Close, Goes
    <3>2. QED
      BY <3>1 DEF Places
  <2>6. QED
    BY <2>1, <2>2, <2>3, <2>4, <2>5
<1>2. UNCHANGED <<limits, acceptor, got, stopped, wg, gate, body, shutdown>>
  BY DEF ReadLimits, Refuse, ReadCommand, OtherCommand, Close, server
<1>3. Admitted' = Admitted /\ InData' = InData
  BY <1>1, Moved DEF ServerInv, Became
<1>4. SessionsExact' /\ DataExact'
  BY <1>2, <1>3, SessionsKept, DataKept DEF ServerInv, gate, body
<1>5. Tracked' /\ at' \in [Conns -> Places]
  BY <1>1, <1>2, InsideStep DEF Goes
<1>6. /\ read' \in [Conns -> Admissions \cup {None}]
      /\ conns' \subseteq Conns /\ closed' \subseteq Conns
  BY DEF ServerInv, ServerTypeOK, ReadLimits, Refuse, ReadCommand, OtherCommand, Close, server
<1>7. ServerTypeOK'
  BY <1>2, <1>5, <1>6 DEF ServerInv, ServerTypeOK, Places, gate, body, shutdown
<1>8. QED
  BY <1>4, <1>5, <1>7 DEF ServerInv

LEMMA LineInv == \A c \in Conns : ServerInv /\ DataLine(c) => ServerInv'
<1> SUFFICES ASSUME NEW c \in Conns, ServerInv, DataLine(c) PROVE ServerInv'
  OBVIOUS
<1>1. UNCHANGED <<limits, server, at, read, closed, gate, reserve, room, shutdown>>
  BY DEF DataLine
<1>2. Admitted' = Admitted /\ InData' = InData /\ Serving' = Serving
  BY <1>1 DEF Admitted, InData, Serving
<1>3. SessionsExact' /\ DataExact' /\ Tracked'
  BY <1>1, <1>2, SessionsKept, DataKept, TrackedKept DEF ServerInv, gate, server
<1>4. buffered' \in [Conns -> Nat]
  BY DEF ServerInv, ServerTypeOK, DataLine
<1>5. ServerTypeOK'
  BY <1>1, <1>4 DEF ServerInv, ServerTypeOK, server, gate, shutdown
<1>6. QED
  BY <1>3, <1>5 DEF ServerInv

\* Counters per address are numbers.
LEMMA PerIPType ==
    ASSUME perIP \in [IPs -> Nat], NEW c \in Conns, Valid(c)
    PROVE  /\ [perIP EXCEPT ![IpOf[c]] = @ + 1] \in [IPs -> Nat]
           /\ [perIP EXCEPT ![IpOf[c]] = Floor0(@ - 1)] \in [IPs -> Nat]
<1>1. IpOf[c] \in IPs
  BY ServerAssumption DEF Valid
<1>2. perIP[IpOf[c]] + 1 \in Nat /\ Floor0(perIP[IpOf[c]] - 1) \in Nat
  BY <1>1, FloorType
<1>3. QED
  BY <1>1, <1>2

LEMMA AcquireInv == \A c \in Conns : ServerInv /\ Acquire(c) => ServerInv'
<1> SUFFICES ASSUME NEW c \in Conns, ServerInv, Acquire(c) PROVE ServerInv'
  OBVIOUS
<1>1. /\ at[c] = "admit" /\ Goes(c, "session")
      /\ UNCHANGED <<limits, server, closed, inflight, reserved, body, shutdown>>
  BY DEF Acquire, Goes
<1>2. InData' = InData
  BY <1>1, Moved DEF ServerInv, Became
<1>3. SessionsExact' /\ DataExact'
  BY <1>1, <1>2, AcquireExact, DataKept DEF ServerInv, body
<1>4. Tracked' /\ at' \in [Conns -> Places]
  BY <1>1, InsideStep DEF Places, server, Goes
<1>5. /\ read' \in [Conns -> Admissions \cup {None}]
      /\ sessions' \in Nat /\ perIP' \in [IPs -> Nat]
  <2>1. read' \in [Conns -> Admissions \cup {None}] /\ sessions' \in Nat
    BY DEF ServerInv, ServerTypeOK, Acquire
  <2>2. perIP' \in [IPs -> Nat]
    BY PerIPType DEF ServerInv, ServerTypeOK, Acquire
  <2>3. QED
    BY <2>1, <2>2
<1>6. ServerTypeOK'
  BY <1>1, <1>4, <1>5 DEF ServerInv, ServerTypeOK, Places, server, body, shutdown
<1>7. QED
  BY <1>3, <1>4, <1>6 DEF ServerInv

LEMMA ReleaseInv == \A c \in Conns : ServerInv /\ Release(c) => ServerInv'
<1> SUFFICES ASSUME NEW c \in Conns, ServerInv, Release(c) PROVE ServerInv'
  OBVIOUS
<1>1. /\ at[c] = "session" /\ Goes(c, "close")
      /\ UNCHANGED <<limits, server, read, closed, inflight, reserved, body, shutdown>>
  BY DEF Release, Goes
<1>2. InData' = InData
  BY <1>1, Moved DEF ServerInv, Became
<1>3. SessionsExact' /\ DataExact'
  BY <1>1, <1>2, ReleaseExact, DataKept DEF ServerInv, body
<1>4. Tracked' /\ at' \in [Conns -> Places]
  BY <1>1, InsideStep DEF Places, server, Goes
<1>5. sessions' \in Nat /\ perIP' \in [IPs -> Nat]
  <2>1. sessions' \in Nat
    BY FloorType DEF ServerInv, ServerTypeOK, Release
  <2>2. perIP' \in [IPs -> Nat]
    BY PerIPType DEF ServerInv, ServerTypeOK, Release
  <2>3. QED
    BY <2>1, <2>2
<1>6. ServerTypeOK'
  BY <1>1, <1>4, <1>5 DEF ServerInv, ServerTypeOK, Places, server, body, shutdown
<1>7. QED
  BY <1>3, <1>4, <1>6 DEF ServerInv

LEMMA DataBeginInv ==
    \A c \in Conns, d \in Declared : ServerInv /\ DataBegin(c, d) => ServerInv'
<1> SUFFICES ASSUME NEW c \in Conns, NEW d \in Declared, ServerInv, DataBegin(c, d)
             PROVE  ServerInv'
  OBVIOUS
<1>1. /\ at[c] = "command" /\ Goes(c, "data")
      /\ UNCHANGED <<limits, server, read, closed, sessions, perIP, buffered, shutdown>>
  BY DEF DataBegin, Goes
<1>2. Admitted' = Admitted
  BY <1>1, Moved DEF ServerInv, Became
<1>3. reserve' \in [Conns -> Nat] /\ room' \in [Conns -> Nat] /\ reserve'[c] \in Nat
  BY LimitsType DEF ServerInv, ServerTypeOK, DataBegin
<1>4. SessionsExact' /\ DataExact'
  BY <1>1, <1>2, <1>3, SessionsKept, ReserveExact DEF ServerInv
<1>5. Tracked' /\ at' \in [Conns -> Places]
  BY <1>1, InsideStep DEF Places, server, Goes
<1>6. inflight' \in Nat /\ reserved' \in Nat
  BY LimitsType DEF ServerInv, ServerTypeOK, DataBegin
<1>7. ServerTypeOK'
  BY <1>1, <1>3, <1>5, <1>6 DEF ServerInv, ServerTypeOK, Places, server, shutdown
<1>8. QED
  BY <1>4, <1>5, <1>7 DEF ServerInv

LEMMA DataEndInv == \A c \in Conns : ServerInv /\ DataEnd(c) => ServerInv'
<1> SUFFICES ASSUME NEW c \in Conns, ServerInv, DataEnd(c) PROVE ServerInv'
  OBVIOUS
<1>1. /\ at[c] = "data" /\ Goes(c, "session")
      /\ UNCHANGED <<limits, server, read, closed, sessions, perIP, shutdown>>
  BY DEF DataEnd, Goes
<1>2. Admitted' = Admitted
  BY <1>1, Moved DEF ServerInv, Became
<1>3. SessionsExact' /\ DataExact'
  BY <1>1, <1>2, SessionsKept, DataEndExact DEF ServerInv
<1>4. Tracked' /\ at' \in [Conns -> Places]
  BY <1>1, InsideStep DEF Places, server, Goes
<1>5. /\ reserve' \in [Conns -> Nat] /\ room' \in [Conns -> Nat] /\ buffered' \in [Conns -> Nat]
      /\ inflight' \in Nat /\ reserved' \in Nat
  BY FloorType DEF ServerInv, ServerTypeOK, DataEnd
<1>6. ServerTypeOK'
  BY <1>1, <1>4, <1>5 DEF ServerInv, ServerTypeOK, Places, server, shutdown
<1>7. QED
  BY <1>3, <1>4, <1>6 DEF ServerInv

LEMMA DoneInv == \A c \in Conns : ServerInv /\ Done(c) => ServerInv'
<1> SUFFICES ASSUME NEW c \in Conns, ServerInv, Done(c) PROVE ServerInv'
  OBVIOUS
<1>1. /\ at[c] = "done" /\ Goes(c, "gone") /\ wg' = wg - 1
      /\ UNCHANGED <<limits, acceptor, got, listening, conns, stopped, read, closed, gate, body,
                     shutdown>>
  BY DEF Done, Goes
<1>2. /\ Admitted' = Admitted /\ InData' = InData /\ Serving' = Serving \ {c} /\ c \in Serving
      /\ at' \in [Conns -> Places] /\ \A d \in Conns : d # c => at'[d] = at[d]
  BY <1>1, Moved DEF ServerInv, Became, Places
<1>3. SessionsExact' /\ DataExact'
  BY <1>1, <1>2, SessionsKept, DataKept DEF ServerInv, gate, body
<1>4. /\ Cardinality(Serving) \in Nat /\ Cardinality(Serving) >= 1
      /\ Cardinality(Serving') = Cardinality(Serving) - 1
  BY <1>2, ConnsCount, Counting
<1>5. Tracked' /\ wg' \in Nat
  BY <1>1, <1>2, <1>4 DEF ServerInv, Tracked, ServerTypeOK
<1>6. ServerTypeOK'
  BY <1>1, <1>2, <1>5 DEF ServerInv, ServerTypeOK, Places, gate, body, shutdown
<1>7. QED
  BY <1>3, <1>5, <1>6 DEF ServerInv

-----------------------------------------------------------------------------
LEMMA ServerInitInv == ServerInit => ServerInv
<1> SUFFICES ASSUME ServerInit PROVE ServerInv
  OBVIOUS
<1>1. Admitted = {} /\ InData = {} /\ Serving = {} /\ ReservedBytes = {}
  BY DEF ServerInit, Admitted, InData, Serving, ReservedBytes
<1>2. SessionsExact
  <2>1. \A a : {c \in Admitted : IpOf[c] = a} = {}
    BY <1>1
  <2>2. QED
    BY <1>1, <2>1, FS_EmptySet DEF SessionsExact, ServerInit
<1>3. DataExact
  BY <1>1, FS_EmptySet DEF DataExact, ServerInit
<1>4. Tracked
  BY <1>1, FS_EmptySet DEF Tracked, ServerInit
<1>5. ServerTypeOK
  BY DEF ServerTypeOK, ServerInit
<1>6. QED
  BY <1>2, <1>3, <1>4, <1>5 DEF ServerInv

LEMMA ServerNextInv == ServerInv /\ [ServerNext]_serverVars => ServerInv'
  BY StartInv, AcceptInv, RegisterInv, TurnAwayInv, OutsideInv, QuietInv, LineInv, AcquireInv,
     ReleaseInv, DataBeginInv, DataEndInv, DoneInv
     DEF ServerNext, Acceptor, Work

\* The inductive invariant of the listener and its admission gate.
THEOREM ServerInvariant == ServerSpec => []ServerInv
  BY ServerInitInv, ServerNextInv, PTL DEF ServerSpec

\* Every reachable state of the listener is well typed; Server.wg never goes
\* below zero.
THEOREM ServerTypeCorrect == ServerSpec => []ServerTypeOK
<1>1. ServerInv => ServerTypeOK
  BY DEF ServerInv
<1>2. QED
  BY <1>1, ServerInvariant, PTL

\* The counters of the admission gate are what the goroutines hold, on every
\* path through serveConn and cmdData: no slot and no reserved byte is leaked
\* or given back twice.
THEOREM GateAlwaysExact == ServerSpec => []GateExact
<1>1. ServerInv => GateExact
  BY DEF ServerInv, SessionsExact, DataExact, GateExact
<1>2. QED
  BY <1>1, ServerInvariant, PTL

===============================================================================
