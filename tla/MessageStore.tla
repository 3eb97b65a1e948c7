---------------------------- MODULE MessageStore ----------------------------
(***************************************************************************)
(* The inbox of LabMail: internal/store.Memory.                            *)
(*                                                                         *)
(* One mutex guards the index (byID, order), the byte account, the caps,   *)
(* the epoch and the generation.  File I/O happens outside that mutex:     *)
(* Insert writes its spill files to temporary names before it takes the    *)
(* lock, and Get and List read spill files after they release it.  So an   *)
(* action below is one locked section, or one file operation between two   *)
(* locked sections, and the calls of SMTP sessions (Inserters) and of the  *)
(* management API (Readers, and the one-section operations) interleave     *)
(* everywhere else.  Unlocked reads of maxBytes and spillDir see whatever  *)
(* the fields hold at that moment.                                         *)
(*                                                                         *)
(* A message is its ULID (a natural number: ulid.Make is external and      *)
(* unique), its receive time, its resident size and the parts that are     *)
(* large enough to spill (0 is the raw body, i+1 is attachment i).         *)
(* Channels of event subscribers and blocked Wait calls are the state of   *)
(* StoreEvents and StoreWait.                                              *)
(***************************************************************************)
EXTENDS Integers, Sequences, FiniteSets, FiniteSetsExt, SequencesExt

CONSTANTS
    Inserters,      \* SMTP sessions that call Insert
    Readers,        \* management calls of Get and List
    Dirs, NoDir,    \* spill directories; NoDir is the empty string
    OptionSet,      \* the Options a bootstrap file or a caps change can carry
    Sizes,          \* resident sizes of candidate messages
    Times,          \* receive times
    Parts,          \* parts of a message that may spill, 0 is the raw body
    FaultyParts,    \* parts whose files may fail to be made, renamed or read
    ConfigureMoves, \* TRUE: Configure may name another spill directory (its
                    \* only caller is a test, which does not)
    MaxId,          \* bound: messages ever prepared
    MaxEpoch        \* bound: wipes and resets in one process life

Policies == {"reject", "evict_oldest"}
Places == Dirs \cup {NoDir}
Options == [maxMessages : Nat \ {0}, maxBytes : Nat \ {0},
            fullPolicy : Policies, spillDir : Places]
AnyOptions == [maxMessages : Nat, maxBytes : Nat,
               fullPolicy : Policies, spillDir : Places]

\* normalizeOptions refuses caps that are not positive; every operation that
\* takes Options returns that error before it changes anything.
NormalOptions == {o \in OptionSet : o.maxMessages > 0 /\ o.maxBytes > 0}

ASSUME StoreAssumption ==
    /\ OptionSet \subseteq AnyOptions
    /\ NormalOptions # {}
    /\ Sizes \subseteq Nat
    /\ Times \subseteq Nat
    /\ Parts \subseteq Nat
    /\ NoDir \notin Dirs
    /\ FaultyParts \subseteq Parts
    /\ ConfigureMoves \in BOOLEAN
    /\ MaxId \in Nat
    /\ MaxEpoch \in Nat

VARIABLES
    opts,        \* maxMessages, maxBytes, fullPolicy, spillDir
    epoch,       \* bumped by ResetTo and Wipe
    generation,  \* bumped by every membership change
    evictions,   \* counter of evicted messages
    bytes,       \* the byte account
    byID,        \* id -> record
    order,       \* ids, oldest first
    disk,        \* the spill files that exist, in any directory
    nextId,      \* ULID source
    life,        \* first ULID of this process
    ins,         \* per SMTP session: the Insert call in progress
    rd           \* per reader: the Get or List call in progress

index == <<opts, epoch, generation, evictions, bytes, byID, order>>
vars == <<index, disk, nextId, life, ins, rd>>

File(d, id, p, t) == [dir |-> d, id |-> id, part |-> p, tmp |-> t]
Files == [dir : Places, id : Nat, part : Parts, tmp : BOOLEAN]

Record == [at : Nat, size : Nat, epoch : Nat, read : BOOLEAN,
           files : SUBSET Files]
JobEntry == [part : Parts, tmp : Places, final : Places]
InsertCall == [pc : {"idle", "data", "spill", "writing", "abort"},
               epoch : Nat, id : Nat, at : Nat, size : Nat,
               todo : SUBSET Parts, wdir : Places, job : SUBSET JobEntry]
ReadCall == [pc : {"idle", "get", "list", "missing", "recheck"},
             page : SUBSET Nat, mark : BOOLEAN, files : SUBSET Files,
             res : {"none", "ok", "notFound", "errSpill"}]

NoInsert == [pc |-> "idle", epoch |-> 0, id |-> 0, at |-> 0, size |-> 0,
             todo |-> {}, wdir |-> NoDir, job |-> {}]
NoRead == [pc |-> "idle", page |-> {}, mark |-> FALSE, files |-> {},
           res |-> "none"]

\* The empty map, as New and a wipe make it.
NoRecords == [id \in {} |-> id]

Init == /\ opts \in NormalOptions
        /\ epoch = 1
        /\ generation = 0
        /\ evictions = 0
        /\ byID = NoRecords
        /\ order = <<>>
        /\ bytes = 0
        /\ disk = {}
        /\ nextId = 1
        /\ life = 1
        /\ ins = [i \in Inserters |-> NoInsert]
        /\ rd = [r \in Readers |-> NoRead]

-----------------------------------------------------------------------------
(* The index: eviction, insertion in order, removal.                       *)

Floor0(n) == IF n < 0 THEN 0 ELSE n

\* The bytes that the members in S keep resident, and how many they are: the
\* sum of their sizes.
ResidentBytes(S) == UNION {{id} \X (1..byID[id].size) : id \in S}
Resident(S) == Cardinality(ResidentBytes(S))

\* The k oldest members, and the index and the byte account without them.
Oldest(k) == {order[j] : j \in 1..k}
Survivors(k) == DOMAIN byID \ Oldest(k)
BytesWithout(S) == Floor0(bytes - Resident(S))
FilesOf(S) == UNION {byID[id].files : id \in S}

Bug_Fits(k, cand) == /\ Cardinality(Survivors(k)) <= opts.maxMessages
                     /\ BytesWithout(Oldest(k)) + cand <= opts.maxBytes

\* fitsLocked, once the k oldest are gone.
Fits(k, cand) == /\ Cardinality(Survivors(k)) < opts.maxMessages
                 /\ BytesWithout(Oldest(k)) + cand <= opts.maxBytes

\* The evictions canAcceptLocked simulates and evictUntilFitsLocked performs
\* for a candidate: none if it fits, the shortest run of oldest members under
\* evict_oldest.  Empty means ErrFull, and then nothing has been evicted.
EvictionsToFit(cand) ==
    {k \in 0..Len(order) : /\ Fits(k, cand)
                           /\ \A j \in 0..(k - 1) : ~Fits(j, cand)
                           /\ k > 0 => opts.fullPolicy = "evict_oldest"}

\* occupancyOKLocked under the caps o, once the k oldest are gone.
UnderCaps(k, o) == /\ Cardinality(Survivors(k)) <= o.maxMessages
                   /\ BytesWithout(Oldest(k)) <= o.maxBytes

\* evictUntilUnderCapsLocked: the shortest run of oldest members to evict.
EvictionsToUnder(o) ==
    {k \in 0..Len(order) : /\ UnderCaps(k, o)
                           /\ \A j \in 0..(k - 1) : ~UnderCaps(j, o)}

Bug_IsPosition(s, pos, id, at) == pos = Len(s) + 1

\* insertOrderLocked puts id before the first member of s that is younger, by
\* receive time and then by id, or at the end: that is position pos.
IsPosition(s, pos, id, at) ==
    LET Younger(j) == \/ at < byID[s[j]].at
                      \/ at = byID[s[j]].at /\ id < s[j]
    IN  /\ pos \in 1..(Len(s) + 1)
        /\ \A j \in 1..(pos - 1) : ~Younger(j)
        /\ pos <= Len(s) => Younger(pos)

Bug_DroppedAll(S) == FilesOf(DOMAIN byID)

\* Spill files removeLocked unlinks (unlinkRecord) when it removes S; an id
\* that is not in the map changes nothing.
Dropped(S) == FilesOf(S \cap DOMAIN byID)

YoungerThan(k) == SubSeq(order, k + 1, Len(order))

\* removeLocked for every member of S: rest is the order without them, left
\* the byte account, n the number of members removed.
RemoveMembers(S, n, rest, left) ==
    /\ left = BytesWithout(S)
    /\ byID' = [id \in DOMAIN byID \ S |-> byID[id]]
    /\ order' = rest
    /\ bytes' = left
    /\ disk' = disk \ Dropped(S)
    /\ generation' = generation + n

-----------------------------------------------------------------------------
(* Insert, called by an SMTP session with the epoch of its DATA start.     *)

Tmp(i, e) == File(e.tmp, ins[i].id, e.part, TRUE)
Final(i, e) == File(e.final, ins[i].id, e.part, FALSE)
TmpFiles(i, J) == {Tmp(i, e) : e \in J}
FinalFiles(i, J) == {Final(i, e) : e \in J}

\* Epoch(): the session captures the epoch when DATA starts.
CaptureEpoch(i) ==
    /\ ins[i].pc = "idle"
    /\ ins' = [ins EXCEPT ![i] = [NoInsert EXCEPT !.pc = "data",
                                                  !.epoch = epoch]]
    /\ UNCHANGED <<index, disk, nextId, life, rd>>

\* Clone, parse, assign the ULID, and compare the candidate with maxBytes
\* (ErrTooLarge) without holding the lock.
InsertPrepare(i, at, size, parts) ==
    /\ ins[i].pc = "data"
    /\ nextId <= MaxId
    /\ nextId' = nextId + 1
    /\ IF size > opts.maxBytes
       THEN ins' = [ins EXCEPT ![i] = NoInsert]
       ELSE ins' = [ins EXCEPT ![i] =
              [@ EXCEPT !.pc = "spill", !.id = nextId,
                        !.at = at, !.size = size,
                        !.todo = IF opts.spillDir = NoDir THEN {} ELSE parts]]
    /\ UNCHANGED <<index, disk, life, rd>>

\* writeSpillTemps: os.WriteFile creates the next temporary file in the
\* directory spillDir names now, or fails to.
SpillBegin(i, p) ==
    /\ ins[i].pc = "spill"
    /\ p \in ins[i].todo
    /\ \A q \in ins[i].todo : p <= q
    /\ \/ /\ disk' = disk \cup {File(opts.spillDir, ins[i].id, p, TRUE)}
          /\ ins' = [ins EXCEPT ![i] = [@ EXCEPT !.pc = "writing",
                                                 !.wdir = opts.spillDir]]
       \/ /\ p \in FaultyParts
          /\ ins' = [ins EXCEPT ![i].pc = "abort"]
          /\ UNCHANGED disk
    /\ UNCHANGED <<index, nextId, life, rd>>

\* The write ends; the final name is joined from a second read of spillDir.
\* A failed write leaves its partial file behind, outside the job.
SpillEnd(i, p) ==
    /\ ins[i].pc = "writing"
    /\ p \in ins[i].todo
    /\ \A q \in ins[i].todo : p <= q
    /\ \/ ins' = [ins EXCEPT ![i] =
             [@ EXCEPT !.pc = "spill",
                       !.todo = ins[i].todo \ {p},
                       !.job = ins[i].job \cup
                                 {[part |-> p, tmp |-> ins[i].wdir,
                                   final |-> opts.spillDir]}]]
       \/ /\ p \in FaultyParts
          /\ ins' = [ins EXCEPT ![i].pc = "abort"]
    /\ UNCHANGED <<index, disk, nextId, life, rd>>

ReadyToCommit(i) == ins[i].pc = "spill" /\ ins[i].todo = {}

Bug_Fresh(i) == TRUE

\* The epoch test of Insert, under the lock.
Fresh(i) == ins[i].epoch = epoch

\* ErrStaleEpoch or ErrFull: nothing is renamed, nothing is evicted.
InsertReject(i) ==
    /\ ReadyToCommit(i)
    /\ ~Fresh(i) \/ EvictionsToFit(ins[i].size) = {}
    /\ ins' = [ins EXCEPT ![i].pc = "abort"]
    /\ UNCHANGED <<index, disk, nextId, life, rd>>

\* commitSpill fails at entry e: the entries renamed before it are unlinked
\* (unlinkRecord), the others stay in the job for unlinkSpillJob.
InsertRenameFails(i, e) ==
    /\ ReadyToCommit(i)
    /\ Fresh(i)
    /\ EvictionsToFit(ins[i].size) # {}
    /\ e \in ins[i].job
    /\ e.part \in FaultyParts \/ Tmp(i, e) \notin disk
    /\ LET done == {d \in ins[i].job : d.part < e.part}
       IN  /\ TmpFiles(i, done) \subseteq disk
           /\ disk' = disk \ TmpFiles(i, done)
           /\ ins' = [ins EXCEPT ![i] =
                         [@ EXCEPT !.pc = "abort",
                                   !.job = ins[i].job \ done]]
    /\ UNCHANGED <<index, nextId, life, rd>>

\* commitSpill, evictUntilFitsLocked, and the insertion in the index, in one
\* locked section.  k messages are evicted, left bytes remain, and the new
\* one takes position pos.
InsertCommit(i, k, left, pos) ==
    /\ ReadyToCommit(i)
    /\ Fresh(i)
    /\ k \in EvictionsToFit(ins[i].size)
    /\ left = BytesWithout(Oldest(k))
    /\ TmpFiles(i, ins[i].job) \subseteq disk
    /\ LET c == ins[i]
           rec == [at |-> c.at, size |-> c.size, epoch |-> c.epoch,
                   read |-> FALSE, files |-> FinalFiles(i, c.job)]
       IN  /\ byID' = [id \in Survivors(k) \cup {c.id} |->
                         IF id = c.id THEN rec ELSE byID[id]]
           /\ IsPosition(YoungerThan(k), pos, c.id, c.at)
           /\ order' = InsertAt(YoungerThan(k), pos, c.id)
           /\ bytes' = left + c.size
           /\ disk' = ((disk \ TmpFiles(i, c.job)) \ Dropped(Oldest(k)))
                        \cup FinalFiles(i, c.job)
    /\ generation' = generation + k + 1
    /\ evictions' = evictions + k
    /\ ins' = [ins EXCEPT ![i] = NoInsert]
    /\ UNCHANGED <<opts, epoch, nextId, life, rd>>

Bug_InsertAbort(i) ==
    /\ ins[i].pc = "abort"
    /\ ins' = [ins EXCEPT ![i] = NoInsert]
    /\ UNCHANGED <<index, disk, nextId, life, rd>>

\* The deferred unlinkSpillJob runs after the deferred unlock.
InsertAbort(i) ==
    /\ ins[i].pc = "abort"
    /\ disk' = disk \ TmpFiles(i, ins[i].job)
    /\ ins' = [ins EXCEPT ![i] = NoInsert]
    /\ UNCHANGED <<index, nextId, life, rd>>

-----------------------------------------------------------------------------
(* Get and List.                                                           *)

Return(r, res) == rd' = [rd EXCEPT ![r] = [NoRead EXCEPT !.res = res]]

\* First locked section of Get: ErrNotFound, or a snapshot of the record.
GetBegin(r, id, mark) ==
    /\ rd[r].pc = "idle"
    /\ IF id \in DOMAIN byID
       THEN rd' = [rd EXCEPT ![r] =
                     [pc |-> "get", page |-> {id}, mark |-> mark,
                      files |-> byID[id].files, res |-> "none"]]
       ELSE Return(r, "notFound")
    /\ UNCHANGED <<index, disk, nextId, life, ins>>

\* The locked section of List: the page the cursor, filter and limit select.
ListBegin(r, page) ==
    /\ rd[r].pc = "idle"
    /\ page \subseteq DOMAIN byID
    /\ rd' = [rd EXCEPT ![r] = [pc |-> "list", page |-> page, mark |-> FALSE,
                                files |-> FilesOf(page), res |-> "none"]]
    /\ UNCHANGED <<index, disk, nextId, life, ins>>

\* loadSpill of the snapshot, without the lock.  Get looks again when a file
\* is gone, List gives up.
Load(r) ==
    /\ rd[r].pc \in {"get", "list"}
    /\ \/ /\ rd[r].files \subseteq disk
          /\ IF rd[r].pc = "get"
             THEN rd' = [rd EXCEPT ![r].pc = "recheck"]
             ELSE Return(r, "ok")
       \/ /\ ~(rd[r].files \subseteq disk)
          /\ IF rd[r].pc = "get"
             THEN rd' = [rd EXCEPT ![r].pc = "missing"]
             ELSE Return(r, "errSpill")
       \/ /\ \E f \in rd[r].files : f.part \in FaultyParts
          /\ Return(r, "errSpill")
    /\ UNCHANGED <<index, disk, nextId, life, ins>>

StillMember(r) == rd[r].page \subseteq DOMAIN byID

\* Get after a file was gone: ErrSpill only if the message is still there.
GetMissing(r) ==
    /\ rd[r].pc = "missing"
    /\ Return(r, IF StillMember(r) THEN "errSpill" ELSE "notFound")
    /\ UNCHANGED <<index, disk, nextId, life, ins>>

\* Last locked section of Get: membership again, then the read bit.
GetFinish(r) ==
    /\ rd[r].pc = "recheck"
    /\ IF StillMember(r)
       THEN /\ Return(r, "ok")
            /\ byID' = [id \in DOMAIN byID |->
                          IF id \in rd[r].page /\ rd[r].mark
                          THEN [byID[id] EXCEPT !.read = TRUE]
                          ELSE byID[id]]
       ELSE /\ Return(r, "notFound")
            /\ UNCHANGED byID
    /\ UNCHANGED <<opts, epoch, generation, evictions, bytes, order,
                   disk, nextId, life, ins>>

-----------------------------------------------------------------------------
(* Operations that are one locked section.                                 *)

\* Delete of the message at position j of the order (ErrNotFound changes
\* nothing).
Delete(j, left) ==
    /\ RemoveMembers({order[j]}, 1, RemoveAt(order, j), left)
    /\ UNCHANGED <<opts, epoch, evictions, nextId, life, ins, rd>>

DeleteAll(left) ==
    /\ DOMAIN byID # {}
    /\ RemoveMembers(DOMAIN byID, Cardinality(DOMAIN byID), <<>>, left)
    /\ UNCHANGED <<opts, epoch, evictions, nextId, life, ins, rd>>

\* MarkRead of one member and MarkAllRead: generation stays.
MarkRead(S) ==
    /\ S \subseteq DOMAIN byID
    /\ byID' = [id \in DOMAIN byID |->
                  IF id \in S THEN [byID[id] EXCEPT !.read = TRUE]
                  ELSE byID[id]]
    /\ UNCHANGED <<opts, epoch, generation, evictions, bytes, order, disk,
                   nextId, life, ins, rd>>

\* Install new caps (ReplaceCaps keeps the spill directory, Configure does
\* not) unless the occupancy is over them and nothing permits to evict.
InstallCaps(o, mayEvict, k, left) ==
    /\ k \in EvictionsToUnder(o)
    /\ k > 0 => mayEvict
    /\ opts' = o
    /\ RemoveMembers(Oldest(k), k, YoungerThan(k), left)
    /\ evictions' = evictions + k
    /\ UNCHANGED <<epoch, nextId, life, ins, rd>>

ReplaceCaps(o, force, k, left) ==
    InstallCaps([o EXCEPT !.spillDir = opts.spillDir],
                force \/ o.fullPolicy = "evict_oldest", k, left)

Configure(o, k, left) ==
    /\ ConfigureMoves \/ o.spillDir = opts.spillDir
    /\ InstallCaps(o, o.fullPolicy = "evict_oldest", k, left)

\* unlinkAllSpill: what is left when directory d has been cleared.
UnlinkAllSpill(d) == IF d = NoDir THEN disk ELSE {f \in disk : f.dir # d}

Bug_ClearIndex == /\ byID' = NoRecords
                  /\ order' = <<>>
                  /\ bytes' = bytes

ClearIndex == /\ byID' = NoRecords
              /\ order' = <<>>
              /\ bytes' = 0

\* The wipe and the new options in one locked section.
ResetTo(o) ==
    /\ epoch < MaxEpoch
    /\ epoch' = epoch + 1
    /\ generation' = generation + 1
    /\ ClearIndex
    /\ disk' = UnlinkAllSpill(opts.spillDir)
    /\ opts' = o
    /\ UNCHANGED <<evictions, nextId, life, ins, rd>>

\* Wipe is the same with the options the store has.
Wipe == ResetTo(opts)

\* The process ends at any point and New starts another one on the files
\* that are left: an empty inbox, and prepareSpill clears its directory.
Restart(o) ==
    /\ nextId > life
    /\ opts' = o
    /\ epoch' = 1
    /\ generation' = 0
    /\ evictions' = 0
    /\ ClearIndex
    /\ disk' = UnlinkAllSpill(o.spillDir)
    /\ life' = nextId
    /\ ins' = [i \in Inserters |-> NoInsert]
    /\ rd' = [r \in Readers |-> NoRead]
    /\ UNCHANGED nextId

-----------------------------------------------------------------------------
InsertStep(i) ==
    \/ CaptureEpoch(i)
    \/ \E at \in Times, size \in Sizes, parts \in SUBSET Parts :
          InsertPrepare(i, at, size, parts)
    \/ \E p \in ins[i].todo : SpillBegin(i, p)
    \/ \E p \in ins[i].todo : SpillEnd(i, p)
    \/ InsertReject(i)
    \/ \E e \in ins[i].job : InsertRenameFails(i, e)
    \/ \E k \in 0..Len(order), left \in 0..bytes, pos \in 1..(Len(order) + 1) :
          InsertCommit(i, k, left, pos)
    \/ InsertAbort(i)

ReadStep(r) ==
    \/ \E id \in 1..(nextId - 1), mark \in BOOLEAN : GetBegin(r, id, mark)
    \/ \E page \in SUBSET DOMAIN byID : ListBegin(r, page)
    \/ Load(r)
    \/ GetMissing(r)
    \/ GetFinish(r)

AdminStep ==
    \/ \E j \in 1..Len(order), left \in 0..bytes : Delete(j, left)
    \/ \E left \in 0..bytes : DeleteAll(left)
    \/ \E id \in DOMAIN byID : MarkRead({id})
    \/ MarkRead(DOMAIN byID)
    \/ \E o \in NormalOptions, force \in BOOLEAN, k \in 0..Len(order),
          left \in 0..bytes : ReplaceCaps(o, force, k, left)
    \/ \E o \in NormalOptions, k \in 0..Len(order), left \in 0..bytes :
          Configure(o, k, left)
    \/ \E o \in NormalOptions : ResetTo(o)
    \/ Wipe
    \/ \E o \in NormalOptions : Restart(o)

Next == \/ \E i \in Inserters : InsertStep(i)
        \/ \E r \in Readers : ReadStep(r)
        \/ AdminStep

Spec == Init /\ [][Next]_vars

-----------------------------------------------------------------------------
(* Properties.                                                             *)

\* Type correctness.
TypeOK ==
    /\ opts \in Options
    /\ epoch \in Nat /\ generation \in Nat /\ evictions \in Nat
    /\ bytes \in Nat
    /\ byID = [id \in DOMAIN byID |-> byID[id]]
    /\ DOMAIN byID \subseteq Nat
    /\ \A id \in DOMAIN byID : byID[id] \in Record
    /\ order \in Seq(Nat)
    /\ disk \subseteq Files
    /\ nextId \in Nat \ {0} /\ life \in Nat
    /\ ins \in [Inserters -> InsertCall]
    /\ rd \in [Readers -> ReadCall]

\* The inbox never holds more messages or more bytes than its caps allow,
\* although Insert compares with maxBytes before it takes the lock and
\* replaceStoreCaps may shrink the caps under a running Insert.
CapsHeld ==
    /\ IsFiniteSet(DOMAIN byID)
    /\ Cardinality(DOMAIN byID) <= opts.maxMessages
    /\ bytes <= opts.maxBytes

\* The incremental byte account is the sum of what is resident: no path
\* charges twice, forgets to release, or hits the floor at zero.
BytesExact == bytes = Resident(DOMAIN byID)

\* order lists every member once, by receive time and then id, however the
\* receive times of concurrent sessions and their lock order differ.
OrderIsIndex ==
    /\ ToSet(order) = DOMAIN byID
    /\ \A j \in 1..Len(order) : \A l \in (j + 1)..Len(order) :
         LET a == byID[order[j]].at
             b == byID[order[l]].at
         IN  a < b \/ (a = b /\ order[j] < order[l])

\* The three accounts of membership agree after any mix of inserts, evictions,
\* deletes, cap changes and wipes: the map, the order and the bytes.
IndexExact == BytesExact /\ OrderIsIndex

\* After a wipe or a reset the inbox holds only messages whose DATA started
\* afterwards: an Insert in flight across it never lands.
CurrentEpochOnly == \A id \in DOMAIN byID : byID[id].epoch = epoch

\* Every spill file a member of the inbox records is on disk.
MembersReadable == FilesOf(DOMAIN byID) \subseteq disk

\* A temporary file of an Insert that can still be accepted is on disk, so
\* no concurrent operation makes its rename fail.
FreshTempsKept == \A i \in Inserters : Fresh(i) => TmpFiles(i, ins[i].job) \subseteq disk

\* The temporary files of Insert call i: written, or being written.
InFlight(i) ==
    TmpFiles(i, ins[i].job) \cup
      {File(ins[i].wdir, ins[i].id, p, TRUE) :
          p \in {q \in ins[i].todo : ins[i].pc = "writing"}}

\* No spill file of this process outlives what it belongs to: a final file
\* belongs to a member, a temporary one to an Insert in progress, and that
\* also when a later part of the message fails (a failed write may leave its
\* own partial file).
OwnedFiles ==
    \A f \in disk : f.id >= life =>
        IF f.tmp THEN f.part \in FaultyParts \/ \E i \in Inserters : f \in InFlight(i)
        ELSE f \in FilesOf(DOMAIN byID)

\* A Get whose spill file is gone asks about a message that is gone, so its
\* second look at the index never turns a concurrent delete into ErrSpill.
MissingMeansGone ==
    \A r \in Readers : rd[r].pc = "missing" => ~StillMember(r)

\* Eviction takes the oldest messages by receive time, and no more of them
\* than the caps and the new message need.
EvictionStep ==
    evictions' > evictions =>
       LET gone == DOMAIN byID \ DOMAIN byID'
           kept == DOMAIN byID \cap DOMAIN byID'
           Older(a, b) == \/ byID[a].at < byID[b].at
                          \/ byID[a].at = byID[b].at /\ a < b
       IN  /\ \A a \in gone, b \in kept : Older(a, b)
           /\ \E y \in gone :
                /\ \A a \in gone \ {y} : Older(a, y)
                /\ \/ Cardinality(DOMAIN byID') + 1 > opts'.maxMessages
                   \/ bytes' + byID[y].size > opts'.maxBytes

\* Every eviction is one of the above.
EvictsOldestAndFew == [][EvictionStep]_vars

CapsOf(o) == [maxMessages |-> o.maxMessages, maxBytes |-> o.maxBytes,
              fullPolicy |-> o.fullPolicy]

\* What a client can know of a member, of an Insert and of a read.
Shown(id) == [at |-> byID[id].at, size |-> byID[id].size, read |-> byID[id].read]

NoDelivery == [st |-> "none", valid |-> FALSE, id |-> 0, at |-> 0, size |-> 0]

Delivery(i) ==
    CASE ins[i].pc = "data" ->
           [NoDelivery EXCEPT !.st = "begun", !.valid = ins[i].epoch = epoch]
      [] ins[i].pc \in {"spill", "writing"} ->
           [st |-> "named", valid |-> ins[i].epoch = epoch,
            id |-> ins[i].id, at |-> ins[i].at, size |-> ins[i].size]
      [] OTHER -> NoDelivery

Looking(r) ==
    [op |-> IF rd[r].pc \in {"missing", "recheck"} THEN "get" ELSE rd[r].pc,
     page |-> rd[r].page, mark |-> rd[r].mark, res |-> rd[r].res]

Messages == [id \in DOMAIN byID |-> Shown(id)]
Deliveries == [i \in Inserters |-> Delivery(i)]
Reads == [r \in Readers |-> Looking(r)]

Promise == INSTANCE Inbox WITH
    Sessions <- Inserters, CapSet <- {CapsOf(o) : o \in NormalOptions},
    MayFail <- FaultyParts # {}, msgs <- Messages, caps <- CapsOf(opts),
    mail <- Deliveries, look <- Reads, next <- nextId

\* The locked sections and the file operations between them implement an
\* inbox whose operations are single steps.
ImplementsInbox == Promise!Spec
=============================================================================
