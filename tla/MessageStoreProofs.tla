------------------------- MODULE MessageStoreProofs -------------------------
(***************************************************************************)
(* Theorems about MessageStore, for every number of sessions and readers,  *)
(* every set of options and every bound.                                   *)
(***************************************************************************)
EXTENDS MessageStore, FiniteSetTheorems, NaturalsInduction, TLAPS

LEMMA NoInsertType == NoInsert \in InsertCall
  BY DEF NoInsert, InsertCall, Places

LEMMA NoReadType == NoRead \in ReadCall
  BY DEF NoRead, ReadCall

LEMMA NoRecordsFacts == DOMAIN NoRecords = {} /\ NoRecords = [id \in DOMAIN NoRecords |-> NoRecords[id]]
  BY DEF NoRecords

\* Inserting at a position, removing one, and dropping a prefix keep a
\* sequence of ids a sequence of ids.
LEMMA SeqOpsType ==
    ASSUME NEW s \in Seq(Nat), NEW id \in Nat
    PROVE  /\ \A p \in 1..(Len(s) + 1) : InsertAt(s, p, id) \in Seq(Nat)
           /\ \A p \in 1..Len(s) : RemoveAt(s, p) \in Seq(Nat)
           /\ \A k \in 0..Len(s) : SubSeq(s, k + 1, Len(s)) \in Seq(Nat)
  BY DEF InsertAt, RemoveAt

LEMMA NormalType == NormalOptions \subseteq Options
<1> SUFFICES ASSUME NEW o \in NormalOptions PROVE o \in Options
  OBVIOUS
<1>1. o \in AnyOptions /\ o.maxMessages > 0 /\ o.maxBytes > 0
  BY StoreAssumption DEF NormalOptions
<1>2. QED
  BY <1>1 DEF AnyOptions, Options

LEMMA FileType ==
    ASSUME NEW d \in Places, NEW id \in Nat, NEW p \in Parts, NEW t \in BOOLEAN
    PROVE  File(d, id, p, t) \in Files
  BY DEF File, Files

LEMMA SpillDirType == TypeOK => opts.spillDir \in Places
  BY DEF TypeOK, Options

LEMMA InsType ==
    ASSUME TypeOK, NEW i \in Inserters
    PROVE  /\ ins[i] \in InsertCall
           /\ ins[i].id \in Nat
           /\ ins[i].todo \subseteq Parts
           /\ ins[i].wdir \in Places
           /\ ins[i].job \subseteq JobEntry
           /\ ins[i].epoch \in Nat /\ ins[i].size \in Nat /\ ins[i].at \in Nat
  BY DEF TypeOK, InsertCall

\* Replacing one call by a well-typed one.
LEMMA InsUpdate ==
    ASSUME TypeOK, NEW i \in Inserters, NEW new \in InsertCall,
           ins' = [ins EXCEPT ![i] = new]
    PROVE  ins' \in [Inserters -> InsertCall]
  BY DEF TypeOK

LEMMA InsNew ==
    ASSUME TypeOK, NEW i \in Inserters, NEW new, ins' = [ins EXCEPT ![i] = new]
    PROVE  ins'[i] = new /\ \A j \in Inserters \ {i} : ins'[j] = ins[j]
  BY DEF TypeOK

LEMMA InitType == Init => TypeOK
<1> SUFFICES ASSUME Init PROVE TypeOK
  OBVIOUS
<1> USE StoreAssumption, NormalType
<1>1. ins \in [Inserters -> InsertCall] /\ rd \in [Readers -> ReadCall]
  BY NoInsertType, NoReadType DEF Init
<1>2. QED
  BY <1>1, NoRecordsFacts DEF Init, TypeOK

\* A step of an Insert call keeps the types.
LEMMA InsertStepType ==
    ASSUME TypeOK, NEW i \in Inserters, InsertStep(i)
    PROVE  TypeOK'
<1> USE StoreAssumption, NoInsertType
<1>1. CASE CaptureEpoch(i)
  <2>1. [NoInsert EXCEPT !.pc = "data", !.epoch = epoch] \in InsertCall
    BY DEF TypeOK, InsertCall
  <2>2. ins' \in [Inserters -> InsertCall]
    BY <1>1, <2>1 DEF CaptureEpoch, TypeOK
  <2>3. QED
    BY <1>1, <2>2 DEF CaptureEpoch, TypeOK, index
<1>2. CASE \E at \in Times, size \in Sizes, parts \in SUBSET Parts : InsertPrepare(i, at, size, parts)
  <2> PICK at \in Times, size \in Sizes, parts \in SUBSET Parts : InsertPrepare(i, at, size, parts)
    BY <1>2
  <2> DEFINE todo == IF opts.spillDir = NoDir THEN {} ELSE parts
             new == [ins[i] EXCEPT !.pc = "spill", !.id = nextId, !.at = at,
                                   !.size = size, !.todo = todo]
  <2>a. todo \in SUBSET Parts
    OBVIOUS
  <2>b. new \in InsertCall
    <3> HIDE DEF todo
    <3> QED BY <2>a DEF TypeOK, InsertCall
  <2>c. ins' = [ins EXCEPT ![i] = NoInsert] \/ ins' = [ins EXCEPT ![i] = new]
    BY DEF InsertPrepare
  <2>1. ins' \in [Inserters -> InsertCall]
    <3> HIDE DEF new
    <3> QED BY <2>b, <2>c DEF TypeOK
  <2>2. QED
    BY <2>1 DEF InsertPrepare, TypeOK, index
<1>3. CASE \E p \in ins[i].todo : SpillBegin(i, p)
  <2> PICK p \in ins[i].todo : SpillBegin(i, p)
    BY <1>3
  <2>0. p \in Parts /\ ins[i].id \in Nat
    BY DEF TypeOK, InsertCall
  <2> DEFINE new == [ins[i] EXCEPT !.pc = "writing", !.wdir = opts.spillDir]
             failed == [ins[i] EXCEPT !.pc = "abort"]
  <2>a. new \in InsertCall /\ failed \in InsertCall
    BY SpillDirType, InsType DEF InsertCall
  <2>b. \/ ins' = [ins EXCEPT ![i] = new]
        \/ ins' = [ins EXCEPT ![i] = failed]
    BY DEF SpillBegin
  <2>1. ins' \in [Inserters -> InsertCall]
    <3> HIDE DEF new, failed
    <3> QED BY <2>a, <2>b, InsUpdate
  <2>2. disk' \subseteq Files
    <3>1. File(opts.spillDir, ins[i].id, p, TRUE) \in Files
      BY <2>0, SpillDirType, FileType
    <3>2. QED
      BY <3>1 DEF SpillBegin, TypeOK
  <2>3. QED
    BY <2>1, <2>2 DEF SpillBegin, TypeOK, index
<1>4. CASE \E p \in ins[i].todo : SpillEnd(i, p)
  <2> PICK p \in ins[i].todo : SpillEnd(i, p)
    BY <1>4
  <2> DEFINE entry == [part |-> p, tmp |-> ins[i].wdir, final |-> opts.spillDir]
             new == [ins[i] EXCEPT !.pc = "spill", !.todo = ins[i].todo \ {p},
                                   !.job = ins[i].job \cup {entry}]
             failed == [ins[i] EXCEPT !.pc = "abort"]
  <2>0. entry \in JobEntry
    BY InsType, SpillDirType DEF JobEntry
  <2>a. new \in InsertCall /\ failed \in InsertCall
    <3> HIDE DEF entry
    <3> QED BY <2>0, InsType DEF InsertCall
  <2>b. \/ ins' = [ins EXCEPT ![i] = new]
        \/ ins' = [ins EXCEPT ![i] = failed]
    BY DEF SpillEnd
  <2>1. ins' \in [Inserters -> InsertCall]
    <3> HIDE DEF new, failed
    <3> QED BY <2>a, <2>b, InsUpdate
  <2>2. QED
    BY <2>1 DEF SpillEnd, TypeOK, index
<1>5. CASE InsertReject(i)
  <2>1. ins' \in [Inserters -> InsertCall]
    BY <1>5 DEF InsertReject, TypeOK, InsertCall
  <2>2. QED
    BY <1>5, <2>1 DEF InsertReject, TypeOK, index
<1>6. CASE \E e \in ins[i].job : InsertRenameFails(i, e)
  <2> PICK e \in ins[i].job : InsertRenameFails(i, e)
    BY <1>6
  <2>1. ins' \in [Inserters -> InsertCall]
    BY DEF InsertRenameFails, TypeOK, InsertCall
  <2>2. QED
    BY <2>1 DEF InsertRenameFails, TypeOK, index
<1>7. CASE \E k \in 0..Len(order), left \in 0..bytes, pos \in 1..(Len(order) + 1) :
             InsertCommit(i, k, left, pos)
  <2> PICK k \in 0..Len(order), left \in 0..bytes, pos \in 1..(Len(order) + 1) :
             InsertCommit(i, k, left, pos)
    BY <1>7
  <2> DEFINE rec == [at |-> ins[i].at, size |-> ins[i].size, epoch |-> ins[i].epoch,
                     read |-> FALSE, files |-> FinalFiles(i, ins[i].job)]
  <2>0. ins[i] \in InsertCall
    BY DEF TypeOK
  <2>1. ins' \in [Inserters -> InsertCall]
    BY DEF InsertCommit, TypeOK
  <2>2. FinalFiles(i, ins[i].job) \subseteq Files
    <3> SUFFICES ASSUME NEW e \in ins[i].job PROVE Final(i, e) \in Files
      BY DEF FinalFiles
    <3>1. e.final \in Places /\ e.part \in Parts /\ ins[i].id \in Nat
      BY InsType DEF JobEntry
    <3>2. QED
      BY <3>1, FileType DEF Final
  <2>3. rec \in Record
    BY <2>0, <2>2 DEF Record, InsertCall
  <2>4. byID' = [id \in Survivors(k) \cup {ins[i].id} |-> IF id = ins[i].id THEN rec ELSE byID[id]]
    BY DEF InsertCommit
  <2>5. /\ DOMAIN byID' = Survivors(k) \cup {ins[i].id}
        /\ byID' = [id \in DOMAIN byID' |-> byID'[id]]
    BY <2>4, Zenon
  <2>6. DOMAIN byID' \subseteq Nat /\ \A id \in DOMAIN byID' : byID'[id] \in Record
    BY <2>0, <2>3, <2>4, <2>5 DEF Survivors, TypeOK, InsertCall
  <2>7. order' \in Seq(Nat)
    <3>1. YoungerThan(k) \in Seq(Nat)
      BY SeqOpsType, <2>0 DEF YoungerThan, TypeOK, InsertCall
    <3>2. pos \in 1..(Len(YoungerThan(k)) + 1)
      BY DEF InsertCommit, IsPosition
    <3>3. ins[i].id \in Nat /\ order' = InsertAt(YoungerThan(k), pos, ins[i].id)
      BY <2>0 DEF InsertCommit, InsertCall
    <3>4. InsertAt(YoungerThan(k), pos, ins[i].id) \in Seq(Nat)
      BY SeqOpsType, <3>1, <3>2, <3>3, Zenon
    <3>5. QED
      BY <3>3, <3>4
  <2>8. bytes' \in Nat /\ generation' \in Nat /\ evictions' \in Nat
    <3>1. ins[i].size \in Nat /\ left \in Nat /\ k \in Nat
      BY InsType DEF TypeOK
    <3>2. /\ bytes' = left + ins[i].size
          /\ generation' = generation + k + 1
          /\ evictions' = evictions + k
      BY DEF InsertCommit
    <3>3. generation \in Nat /\ evictions \in Nat
      BY DEF TypeOK
    <3>4. bytes' \in Nat
      BY <3>1, <3>2
    <3>5. generation' \in Nat /\ evictions' \in Nat
      BY <3>1, <3>2, <3>3
    <3>6. QED
      BY <3>4, <3>5
  <2>9. disk' \subseteq Files
    BY <2>2 DEF InsertCommit, TypeOK
  <2>10. QED
    BY <2>1, <2>5, <2>6, <2>7, <2>8, <2>9 DEF InsertCommit, TypeOK
<1>8. CASE InsertAbort(i)
  <2>1. ins' \in [Inserters -> InsertCall]
    BY <1>8 DEF InsertAbort, TypeOK
  <2>2. QED
    BY <1>8, <2>1 DEF InsertAbort, TypeOK, index
<1>9. QED
  BY <1>1, <1>2, <1>3, <1>4, <1>5, <1>6, <1>7, <1>8 DEF InsertStep

LEMMA ReadUpdate ==
    ASSUME TypeOK, NEW r \in Readers, NEW new \in ReadCall,
           rd' = [rd EXCEPT ![r] = new]
    PROVE  rd' \in [Readers -> ReadCall]
  BY DEF TypeOK

LEMMA ReadType ==
    ASSUME TypeOK, NEW r \in Readers
    PROVE  /\ rd[r] \in ReadCall
           /\ \A pc \in {"get", "list", "missing", "recheck"} :
                [rd[r] EXCEPT !.pc = pc] \in ReadCall
  BY DEF TypeOK, ReadCall

LEMMA ReturnType ==
    ASSUME TypeOK, NEW r \in Readers,
           NEW res \in {"none", "ok", "notFound", "errSpill"}, Return(r, res)
    PROVE  rd' \in [Readers -> ReadCall]
<1>1. [NoRead EXCEPT !.res = res] \in ReadCall
  BY DEF NoRead, ReadCall
<1>2. QED
  BY <1>1, ReadUpdate DEF Return

LEMMA FilesOfType == TypeOK => FilesOf(DOMAIN byID) \subseteq Files
  BY DEF TypeOK, Record, FilesOf

\* Setting read bits keeps a map of records, with the same ids.
LEMMA MarkType ==
    ASSUME TypeOK, NEW S,
           byID' = [id \in DOMAIN byID |->
                      IF id \in S THEN [byID[id] EXCEPT !.read = TRUE] ELSE byID[id]]
    PROVE  /\ DOMAIN byID' = DOMAIN byID
           /\ byID' = [id \in DOMAIN byID' |-> byID'[id]]
           /\ \A id \in DOMAIN byID' :
                /\ byID'[id] \in Record
                /\ byID'[id].files = byID[id].files
                /\ byID'[id].epoch = byID[id].epoch
<1>1. DOMAIN byID' = DOMAIN byID /\ byID' = [id \in DOMAIN byID' |-> byID'[id]]
  BY Zenon
<1>2. ASSUME NEW id \in DOMAIN byID
      PROVE  LET new == [byID[id] EXCEPT !.read = TRUE]
             IN  new \in Record /\ new.files = byID[id].files /\ new.epoch = byID[id].epoch
  <2>1. byID[id] \in Record
    BY DEF TypeOK
  <2>2. QED
    BY <2>1 DEF Record
<1>3. ASSUME NEW id \in DOMAIN byID
      PROVE  \/ byID'[id] = byID[id]
             \/ byID'[id] = [byID[id] EXCEPT !.read = TRUE]
  OBVIOUS
<1>4. QED
  BY <1>1, <1>2, <1>3 DEF TypeOK

\* A step of Get or List keeps the types.
LEMMA ReadStepType ==
    ASSUME TypeOK, NEW r \in Readers, ReadStep(r)
    PROVE  TypeOK'
<1>1. CASE \E id \in 1..(nextId - 1), mark \in BOOLEAN : GetBegin(r, id, mark)
  <2> PICK id \in 1..(nextId - 1), mark \in BOOLEAN : GetBegin(r, id, mark)
    BY <1>1
  <2>1. rd' \in [Readers -> ReadCall]
    <3>1. CASE id \in DOMAIN byID
      <4> DEFINE new == [pc |-> "get", page |-> {id}, mark |-> mark,
                         files |-> byID[id].files, res |-> "none"]
      <4>1. byID[id].files \subseteq Files /\ id \in Nat
        BY <3>1 DEF TypeOK, Record
      <4>2. new \in ReadCall
        BY <4>1 DEF ReadCall
      <4>3. rd' = [rd EXCEPT ![r] = new]
        BY <3>1 DEF GetBegin
      <4> HIDE DEF new
      <4>4. QED
        BY <4>2, <4>3, ReadUpdate
    <3>2. CASE id \notin DOMAIN byID
      BY <3>2, ReturnType DEF GetBegin
    <3>3. QED
      BY <3>1, <3>2
  <2>2. QED
    BY <2>1 DEF GetBegin, TypeOK, index
<1>2. CASE \E page \in SUBSET DOMAIN byID : ListBegin(r, page)
  <2> PICK page \in SUBSET DOMAIN byID : ListBegin(r, page)
    BY <1>2
  <2> DEFINE new == [pc |-> "list", page |-> page, mark |-> FALSE,
                     files |-> FilesOf(page), res |-> "none"]
  <2>1. FilesOf(page) \subseteq Files /\ page \subseteq Nat
    BY FilesOfType DEF FilesOf, TypeOK
  <2>2. new \in ReadCall
    BY <2>1 DEF ReadCall
  <2>3. rd' = [rd EXCEPT ![r] = new]
    BY DEF ListBegin
  <2>4. rd' \in [Readers -> ReadCall]
    <3> HIDE DEF new
    <3> QED BY <2>2, <2>3, ReadUpdate
  <2>5. QED
    BY <2>4 DEF ListBegin, TypeOK, index
<1>3. CASE Load(r)
  <2>1. \/ \E pc \in {"missing", "recheck"} : rd' = [rd EXCEPT ![r] = [rd[r] EXCEPT !.pc = pc]]
        \/ \E res \in {"ok", "errSpill"} : Return(r, res)
    BY <1>3 DEF Load
  <2>2. rd' \in [Readers -> ReadCall]
    BY <2>1, ReadType, ReadUpdate, ReturnType
  <2>3. QED
    BY <1>3, <2>2 DEF Load, TypeOK, index
<1>4. CASE GetMissing(r)
  <2>1. \E res \in {"errSpill", "notFound"} : Return(r, res)
    BY <1>4 DEF GetMissing
  <2>2. rd' \in [Readers -> ReadCall]
    BY <2>1, ReturnType
  <2>3. QED
    BY <1>4, <2>2 DEF GetMissing, TypeOK, index
<1>5. CASE GetFinish(r)
  <2>1. \E res \in {"ok", "notFound"} : Return(r, res)
    BY <1>5 DEF GetFinish
  <2>2. rd' \in [Readers -> ReadCall]
    BY <2>1, ReturnType
  <2>3. /\ DOMAIN byID' = DOMAIN byID
        /\ byID' = [id \in DOMAIN byID' |-> byID'[id]]
        /\ \A id \in DOMAIN byID' : byID'[id] \in Record
    <3> DEFINE S == IF rd[r].mark THEN rd[r].page ELSE {}
    <3>1. CASE StillMember(r)
      <4>1. byID' = [id \in DOMAIN byID |->
                IF id \in S THEN [byID[id] EXCEPT !.read = TRUE] ELSE byID[id]]
        BY <1>5, <3>1 DEF GetFinish
      <4> HIDE DEF S
      <4>2. QED
        BY <4>1, MarkType
    <3>2. CASE ~StillMember(r)
      BY <1>5, <3>2 DEF GetFinish, TypeOK
    <3>3. QED
      BY <3>1, <3>2
  <2>4. QED
    BY <1>5, <2>2, <2>3 DEF GetFinish, TypeOK
<1>6. QED
  BY <1>1, <1>2, <1>3, <1>4, <1>5 DEF ReadStep

LEMMA RemoveType ==
    ASSUME TypeOK, NEW S, NEW n \in Nat, NEW rest \in Seq(Nat), NEW left \in 0..bytes,
           RemoveMembers(S, n, rest, left)
    PROVE  /\ bytes' \in Nat /\ generation' \in Nat /\ order' \in Seq(Nat)
           /\ disk' \subseteq Files
           /\ DOMAIN byID' = DOMAIN byID \ S
           /\ byID' = [id \in DOMAIN byID' |-> byID'[id]]
           /\ \A id \in DOMAIN byID' : byID'[id] = byID[id] /\ byID'[id] \in Record
<1>1. byID' = [id \in DOMAIN byID \ S |-> byID[id]]
  BY DEF RemoveMembers
<1>2. DOMAIN byID' = DOMAIN byID \ S /\ byID' = [id \in DOMAIN byID' |-> byID'[id]]
  BY <1>1, Zenon
<1>3. \A id \in DOMAIN byID' : byID'[id] = byID[id] /\ byID'[id] \in Record
  BY <1>1, <1>2 DEF TypeOK
<1>4. generation \in Nat /\ bytes \in Nat
  BY DEF TypeOK
<1>5. bytes' \in Nat /\ generation' \in Nat /\ order' \in Seq(Nat)
  BY <1>4 DEF RemoveMembers
<1>6. disk' \subseteq Files
  BY DEF RemoveMembers, TypeOK
<1>7. QED
  BY <1>2, <1>3, <1>5, <1>6

LEMMA InstallCapsType ==
    ASSUME TypeOK, NEW o \in Options, NEW may, NEW k \in 0..Len(order),
           NEW left \in 0..bytes, InstallCaps(o, may, k, left)
    PROVE  TypeOK'
<1>1. YoungerThan(k) \in Seq(Nat)
  BY SeqOpsType DEF YoungerThan, TypeOK
<1>2. k \in Nat
  BY DEF TypeOK
<1>3. RemoveMembers(Oldest(k), k, YoungerThan(k), left)
  BY DEF InstallCaps
<1>4. evictions' \in Nat
  BY <1>2 DEF InstallCaps, TypeOK
<1>5. QED
  BY <1>1, <1>2, <1>3, <1>4, RemoveType DEF InstallCaps, TypeOK

\* A management operation, a wipe or a restart keeps the types.
LEMMA AdminStepType ==
    ASSUME TypeOK, IsFiniteSet(DOMAIN byID), AdminStep
    PROVE  TypeOK'
<1> USE StoreAssumption, NormalType
<1>1. CASE \E j \in 1..Len(order), left \in 0..bytes : Delete(j, left)
  <2> PICK j \in 1..Len(order), left \in 0..bytes : Delete(j, left)
    BY <1>1
  <2>1. RemoveAt(order, j) \in Seq(Nat)
    BY SeqOpsType DEF TypeOK
  <2>2. RemoveMembers({order[j]}, 1, RemoveAt(order, j), left)
    BY DEF Delete
  <2>3. QED
    BY <2>1, <2>2, RemoveType DEF Delete, TypeOK
<1>2. CASE \E left \in 0..bytes : DeleteAll(left)
  <2> PICK left \in 0..bytes : DeleteAll(left)
    BY <1>2
  <2>1. Cardinality(DOMAIN byID) \in Nat /\ <<>> \in Seq(Nat)
    BY FS_CardinalityType
  <2>2. RemoveMembers(DOMAIN byID, Cardinality(DOMAIN byID), <<>>, left)
    BY DEF DeleteAll
  <2>3. QED
    BY <2>1, <2>2, RemoveType DEF DeleteAll, TypeOK
<1>3. CASE \E S : MarkRead(S)
  <2> PICK S : MarkRead(S)
    BY <1>3
  <2>1. byID' = [id \in DOMAIN byID |->
                   IF id \in S THEN [byID[id] EXCEPT !.read = TRUE] ELSE byID[id]]
    BY DEF MarkRead
  <2>2. QED
    BY <2>1, MarkType DEF MarkRead, TypeOK
<1>4. CASE \E o \in NormalOptions, force \in BOOLEAN, k \in 0..Len(order), left \in 0..bytes :
             ReplaceCaps(o, force, k, left)
  <2> PICK o \in NormalOptions, force \in BOOLEAN, k \in 0..Len(order), left \in 0..bytes :
             ReplaceCaps(o, force, k, left)
    BY <1>4
  <2> DEFINE new == [o EXCEPT !.spillDir = opts.spillDir]
  <2>1. new \in Options
    BY SpillDirType DEF Options
  <2>2. InstallCaps(new, force \/ o.fullPolicy = "evict_oldest", k, left)
    BY DEF ReplaceCaps
  <2> HIDE DEF new
  <2>3. QED
    BY <2>1, <2>2, InstallCapsType
<1>5. CASE \E o \in NormalOptions, k \in 0..Len(order), left \in 0..bytes : Configure(o, k, left)
  BY <1>5, InstallCapsType DEF Configure
<1>6. CASE \E o \in Options : ResetTo(o)
  BY <1>6, NoRecordsFacts DEF ResetTo, ClearIndex, UnlinkAllSpill, TypeOK
<1>7. CASE \E o \in NormalOptions : Restart(o)
  <2>1. ins' \in [Inserters -> InsertCall] /\ rd' \in [Readers -> ReadCall]
    BY <1>7, NoInsertType, NoReadType DEF Restart
  <2>2. QED
    BY <1>7, <2>1, NoRecordsFacts DEF Restart, ClearIndex, UnlinkAllSpill, TypeOK
<1>8. Wipe => \E o \in Options : ResetTo(o)
  BY DEF Wipe, TypeOK
<1>9. QED
  BY <1>1, <1>2, <1>3, <1>4, <1>5, <1>6, <1>7, <1>8 DEF AdminStep

-----------------------------------------------------------------------------
(***************************************************************************)
(* The inductive invariant.  CapsHeld, CurrentEpochOnly, MembersReadable,  *)
(* FreshTempsKept and MissingMeansGone are not inductive alone: a wipe     *)
(* makes no stale Insert fresh only if no captured epoch is ahead, an      *)
(* unlink spares the other calls only if ULIDs and file names do not       *)
(* collide, and a message a Get lost stays lost only if no Insert will     *)
(* publish its id again.                                                   *)
(***************************************************************************)

\* The Insert call of i has a ULID of its own.
Active(i) == ins[i].pc \in {"spill", "writing", "abort"}

EpochsBounded == \A i \in Inserters : ins[i].epoch <= epoch

IdsDistinct ==
    /\ \A id \in DOMAIN byID : id < nextId
    /\ \A i \in Inserters :
         /\ Active(i) => ins[i].id < nextId /\ ins[i].id \notin DOMAIN byID
         /\ ~Active(i) => ins[i].job = {} /\ ins[i].todo = {}
    /\ \A i, j \in Inserters :
         i # j /\ Active(i) /\ Active(j) => ins[i].id # ins[j].id

FilesNamed ==
    \A id \in DOMAIN byID : \A f \in byID[id].files : f.id = id /\ f.tmp = FALSE

\* A Get or List in progress asks for messages that were published.
ReadersSeePublished ==
    \A r \in Readers : rd[r].pc \in {"get", "list", "missing", "recheck"} =>
        /\ \A id \in rd[r].page :
             /\ id < nextId
             /\ \A i \in Inserters : Active(i) => ins[i].id # id
        /\ rd[r].pc \in {"get", "list"} /\ rd[r].page \subseteq DOMAIN byID
             => rd[r].files = FilesOf(rd[r].page)

\* The file an Insert that can still be accepted is writing is on disk.
FreshWriteKept ==
    \A i \in Inserters : Fresh(i) /\ ins[i].pc = "writing" =>
        \A p \in ins[i].todo : (\A q \in ins[i].todo : p <= q)
            => File(ins[i].wdir, ins[i].id, p, TRUE) \in disk

StoreInv ==
    /\ TypeOK
    /\ CapsHeld
    /\ CurrentEpochOnly
    /\ MembersReadable
    /\ FreshTempsKept
    /\ FreshWriteKept
    /\ MissingMeansGone
    /\ EpochsBounded
    /\ IdsDistinct
    /\ FilesNamed
    /\ ReadersSeePublished

LEMMA TmpNamed ==
    ASSUME NEW i, NEW J, NEW f \in TmpFiles(i, J)
    PROVE  f.id = ins[i].id /\ f.tmp = TRUE
<1>1. PICK e \in J : f = File(e.tmp, ins[i].id, e.part, TRUE)
  BY DEF TmpFiles, Tmp
<1>2. QED
  BY <1>1 DEF File

LEMMA FinalNamed ==
    ASSUME NEW i, NEW J, NEW f \in FinalFiles(i, J)
    PROVE  f.id = ins[i].id /\ f.tmp = FALSE
<1>1. PICK e \in J : f = File(e.final, ins[i].id, e.part, FALSE)
  BY DEF FinalFiles, Final
<1>2. QED
  BY <1>1 DEF File

LEMMA MemberNamed ==
    ASSUME FilesNamed, NEW S \in SUBSET DOMAIN byID, NEW f \in FilesOf(S)
    PROVE  f.tmp = FALSE /\ f.id \in S
  BY DEF FilesNamed, FilesOf

LEMMA InitStoreInv == Init => StoreInv
<1> SUFFICES ASSUME Init PROVE StoreInv
  OBVIOUS
<1>1. TypeOK
  BY InitType
<1>2. \A i \in Inserters : /\ ins[i].pc = "idle" /\ ins[i].epoch = 0
                           /\ ins[i].job = {} /\ ins[i].todo = {}
  BY DEF Init, NoInsert
<1>3. \A r \in Readers : rd[r].pc = "idle"
  BY DEF Init, NoRead
<1>4. DOMAIN byID = {}
  BY NoRecordsFacts DEF Init
<1>5. CapsHeld
  <2>1. Cardinality({}) = 0 /\ IsFiniteSet({})
    BY FS_EmptySet
  <2>2. bytes = 0 /\ opts.maxMessages \in Nat /\ opts.maxBytes \in Nat
    BY <1>1 DEF Init, TypeOK, Options
  <2>3. QED
    BY <1>4, <2>1, <2>2 DEF CapsHeld
<1>6. CurrentEpochOnly /\ MembersReadable /\ FilesNamed
  BY <1>4 DEF CurrentEpochOnly, MembersReadable, FilesNamed, FilesOf
<1>7. FreshTempsKept /\ FreshWriteKept
  BY <1>2 DEF FreshTempsKept, FreshWriteKept, TmpFiles
<1>8. EpochsBounded /\ IdsDistinct
  BY <1>2, <1>4 DEF EpochsBounded, IdsDistinct, Active, Init
<1>9. MissingMeansGone /\ ReadersSeePublished
  BY <1>3 DEF MissingMeansGone, ReadersSeePublished
<1>10. QED
  BY <1>1, <1>5, <1>6, <1>7, <1>8, <1>9 DEF StoreInv

\* What speaks only of the index and of the files survives any step that
\* leaves the index alone and removes no member's file.
LEMMA IndexKept ==
    ASSUME StoreInv, UNCHANGED index, FilesOf(DOMAIN byID) \cap disk \subseteq disk'
    PROVE  CapsHeld' /\ CurrentEpochOnly' /\ MembersReadable' /\ FilesNamed'
<1>1. UNCHANGED <<opts, epoch, bytes, byID>>
  BY DEF index
<1>2. QED
  BY <1>1 DEF StoreInv, CapsHeld, CurrentEpochOnly, MembersReadable, FilesNamed, FilesOf

\* What speaks of Insert calls survives any step that leaves them, the epoch
\* and the ULID source alone and removes no temporary file.
LEMMA CallsKept ==
    ASSUME StoreInv, UNCHANGED <<ins, epoch, nextId>>, DOMAIN byID' \subseteq DOMAIN byID,
           \A f \in disk : f.tmp = TRUE => f \in disk'
    PROVE  FreshTempsKept' /\ FreshWriteKept' /\ EpochsBounded' /\ IdsDistinct'
<1>1. FreshTempsKept'
  <2> SUFFICES ASSUME NEW i \in Inserters, Fresh(i)
               PROVE  TmpFiles(i, ins[i].job) \subseteq disk'
    BY DEF FreshTempsKept, Fresh, TmpFiles, Tmp
  <2>1. TmpFiles(i, ins[i].job) \subseteq disk
    BY DEF StoreInv, FreshTempsKept
  <2>2. QED
    BY <2>1, TmpNamed
<1>2. FreshWriteKept'
  BY DEF StoreInv, FreshWriteKept, Fresh, File
<1>3. EpochsBounded' /\ IdsDistinct'
  BY DEF StoreInv, EpochsBounded, IdsDistinct, Active
<1>4. QED
  BY <1>1, <1>2, <1>3

\* What speaks of Get calls survives any step that leaves them and the Insert
\* calls alone, adds no member and keeps the records of those it leaves.
LEMMA GetsKept ==
    ASSUME StoreInv, UNCHANGED <<rd, ins, nextId>>, DOMAIN byID' \subseteq DOMAIN byID,
           \A id \in DOMAIN byID' : byID'[id].files = byID[id].files
    PROVE  MissingMeansGone' /\ ReadersSeePublished'
<1>1. MissingMeansGone'
  BY DEF StoreInv, MissingMeansGone, StillMember
<1>2. ASSUME NEW S, S \subseteq DOMAIN byID' PROVE FilesOf(S)' = FilesOf(S)
  BY <1>2 DEF FilesOf
<1>3. ReadersSeePublished'
  <2> SUFFICES ASSUME NEW r \in Readers, rd[r].pc \in {"get", "list", "missing", "recheck"}
               PROVE  /\ \A id \in rd[r].page :
                           /\ id < nextId
                           /\ \A i \in Inserters : Active(i) => ins[i].id # id
                      /\ rd[r].pc \in {"get", "list"} /\ rd[r].page \subseteq DOMAIN byID'
                           => rd[r].files = FilesOf(rd[r].page)'
    BY DEF ReadersSeePublished, Active
  <2>1. QED
    BY <1>2 DEF StoreInv, ReadersSeePublished
<1>4. QED
  BY <1>1, <1>3

LEMMA DroppedNamed ==
    ASSUME FilesNamed, NEW S, NEW f \in Dropped(S)
    PROVE  f.tmp = FALSE /\ f.id \in S
<1>1. PICK id \in S \cap DOMAIN byID : f \in byID[id].files
  BY DEF Dropped, FilesOf
<1>2. QED
  BY <1>1 DEF FilesNamed

\* Removing members keeps everything but the types and the caps, and the
\* occupancy does not grow.
LEMMA RemoveInv ==
    ASSUME StoreInv, NEW S, NEW n \in Nat, NEW rest \in Seq(Nat), NEW left \in 0..bytes,
           RemoveMembers(S, n, rest, left), UNCHANGED <<epoch, nextId, ins, rd>>
    PROVE  /\ CurrentEpochOnly' /\ MembersReadable' /\ FilesNamed'
           /\ FreshTempsKept' /\ FreshWriteKept' /\ EpochsBounded' /\ IdsDistinct'
           /\ MissingMeansGone' /\ ReadersSeePublished'
           /\ IsFiniteSet(DOMAIN byID')
           /\ Cardinality(DOMAIN byID') <= Cardinality(DOMAIN byID)
           /\ bytes' <= bytes
<1>0. TypeOK /\ FilesNamed /\ IsFiniteSet(DOMAIN byID)
  BY DEF StoreInv, CapsHeld
<1>1. /\ DOMAIN byID' = DOMAIN byID \ S
      /\ \A id \in DOMAIN byID' : byID'[id] = byID[id]
  BY <1>0, RemoveType
<1>2. CurrentEpochOnly' /\ FilesNamed'
  BY <1>1 DEF StoreInv, CurrentEpochOnly, FilesNamed
<1>3. MembersReadable'
  <2> SUFFICES ASSUME NEW id \in DOMAIN byID', NEW f \in byID[id].files PROVE f \in disk'
    BY <1>1 DEF MembersReadable, FilesOf
  <2>1. f \in disk /\ f.id = id
    BY <1>0, <1>1 DEF StoreInv, MembersReadable, FilesOf, FilesNamed
  <2>2. f \notin Dropped(S)
    BY <1>0, <1>1, <2>1, DroppedNamed
  <2>3. QED
    BY <2>1, <2>2 DEF RemoveMembers
<1>4. \A f \in disk : f.tmp = TRUE => f \in disk'
  BY <1>0, DroppedNamed DEF RemoveMembers
<1>5. FreshTempsKept' /\ FreshWriteKept' /\ EpochsBounded' /\ IdsDistinct'
  BY <1>1, <1>4, CallsKept
<1>6. MissingMeansGone' /\ ReadersSeePublished'
  BY <1>1, GetsKept
<1>7. /\ IsFiniteSet(DOMAIN byID')
      /\ Cardinality(DOMAIN byID') <= Cardinality(DOMAIN byID)
  BY <1>0, <1>1, FS_Subset
<1>8. bytes' <= bytes
  BY <1>0 DEF RemoveMembers, TypeOK
<1>9. QED
  BY <1>2, <1>3, <1>5, <1>6, <1>7, <1>8

\* New caps are installed only together with the evictions they need.
LEMMA InstallCapsInv ==
    ASSUME StoreInv, NEW o \in Options, NEW may, NEW k \in 0..Len(order),
           NEW left \in 0..bytes, InstallCaps(o, may, k, left)
    PROVE  StoreInv'
<1>1. TypeOK
  BY DEF StoreInv
<1>2. TypeOK'
  BY <1>1, InstallCapsType
<1>3. YoungerThan(k) \in Seq(Nat) /\ k \in Nat
  BY <1>1, SeqOpsType DEF YoungerThan, TypeOK
<1>4. RemoveMembers(Oldest(k), k, YoungerThan(k), left) /\ UNCHANGED <<epoch, nextId, ins, rd>>
  BY DEF InstallCaps
<1>5. CapsHeld'
  <2>1. /\ Cardinality(Survivors(k)) <= o.maxMessages
        /\ left <= o.maxBytes
    BY <1>4 DEF InstallCaps, EvictionsToUnder, UnderCaps, RemoveMembers
  <2>2. DOMAIN byID' = Survivors(k) /\ bytes' = left /\ opts' = o
    BY <1>1, <1>3, <1>4, RemoveType DEF Survivors, RemoveMembers, InstallCaps
  <2>3. QED
    BY <1>3, <1>4, <2>1, <2>2, RemoveInv DEF CapsHeld
<1>6. QED
  BY <1>2, <1>3, <1>4, <1>5, RemoveInv DEF StoreInv

\* A management operation, a wipe or a restart preserves the invariant.
LEMMA AdminStepInv ==
    ASSUME StoreInv, AdminStep
    PROVE  StoreInv'
<1> USE StoreAssumption, NormalType
<1>a. TypeOK /\ IsFiniteSet(DOMAIN byID)
  BY DEF StoreInv, CapsHeld
<1>b. TypeOK'
  BY <1>a, AdminStepType
<1>c. ASSUME NEW S, NEW n \in Nat, NEW rest \in Seq(Nat), NEW left \in 0..bytes,
             RemoveMembers(S, n, rest, left), UNCHANGED <<opts, epoch, nextId, ins, rd>>
      PROVE  StoreInv'
  <2>1. CapsHeld'
    <3>1. /\ IsFiniteSet(DOMAIN byID') /\ opts' = opts
          /\ Cardinality(DOMAIN byID') <= Cardinality(DOMAIN byID)
          /\ bytes' <= bytes
      BY <1>c, RemoveInv
    <3>2. /\ Cardinality(DOMAIN byID) \in Nat /\ Cardinality(DOMAIN byID') \in Nat
          /\ bytes \in Nat /\ bytes' \in Nat
          /\ opts.maxMessages \in Nat /\ opts.maxBytes \in Nat
      BY <1>a, <1>b, <3>1, FS_CardinalityType DEF TypeOK, Options
    <3>3. Cardinality(DOMAIN byID) <= opts.maxMessages /\ bytes <= opts.maxBytes
      BY DEF StoreInv, CapsHeld
    <3>4. QED
      BY <3>1, <3>2, <3>3 DEF CapsHeld
  <2>2. QED
    BY <1>b, <1>c, <2>1, RemoveInv DEF StoreInv
<1>1. CASE \E j \in 1..Len(order), left \in 0..bytes : Delete(j, left)
  <2> PICK j \in 1..Len(order), left \in 0..bytes : Delete(j, left)
    BY <1>1
  <2>1. RemoveAt(order, j) \in Seq(Nat)
    BY <1>a, SeqOpsType DEF TypeOK
  <2>2. QED
    BY <1>c, <2>1 DEF Delete
<1>2. CASE \E left \in 0..bytes : DeleteAll(left)
  <2> PICK left \in 0..bytes : DeleteAll(left)
    BY <1>2
  <2>1. Cardinality(DOMAIN byID) \in Nat /\ <<>> \in Seq(Nat)
    BY <1>a, FS_CardinalityType
  <2>2. QED
    BY <1>c, <2>1 DEF DeleteAll
<1>3. CASE \E S : MarkRead(S)
  <2> PICK S : MarkRead(S)
    BY <1>3
  <2>0. UNCHANGED <<opts, epoch, bytes, disk, nextId, ins, rd>>
    BY DEF MarkRead
  <2>1. byID' = [id \in DOMAIN byID |->
                   IF id \in S THEN [byID[id] EXCEPT !.read = TRUE] ELSE byID[id]]
    BY DEF MarkRead
  <2>2. /\ DOMAIN byID' = DOMAIN byID
        /\ \A id \in DOMAIN byID' : /\ byID'[id].files = byID[id].files
                                     /\ byID'[id].epoch = byID[id].epoch
    BY <1>a, <2>1, MarkType
  <2>3. CapsHeld' /\ CurrentEpochOnly' /\ MembersReadable' /\ FilesNamed'
    BY <2>0, <2>2 DEF StoreInv, CapsHeld, CurrentEpochOnly, MembersReadable, FilesNamed, FilesOf
  <2>4. FreshTempsKept' /\ FreshWriteKept' /\ EpochsBounded' /\ IdsDistinct'
    BY <2>0, <2>2, CallsKept
  <2>5. MissingMeansGone' /\ ReadersSeePublished'
    BY <2>0, <2>2, GetsKept
  <2>6. QED
    BY <1>b, <2>3, <2>4, <2>5 DEF StoreInv
<1>4. CASE \E o \in NormalOptions, force \in BOOLEAN, k \in 0..Len(order), left \in 0..bytes :
             ReplaceCaps(o, force, k, left)
  <2> PICK o \in NormalOptions, force \in BOOLEAN, k \in 0..Len(order), left \in 0..bytes :
             ReplaceCaps(o, force, k, left)
    BY <1>4
  <2> DEFINE new == [o EXCEPT !.spillDir = opts.spillDir]
  <2>1. new \in Options
    BY <1>a, SpillDirType DEF Options
  <2>2. InstallCaps(new, force \/ o.fullPolicy = "evict_oldest", k, left)
    BY DEF ReplaceCaps
  <2> HIDE DEF new
  <2>3. QED
    BY <2>1, <2>2, InstallCapsInv
<1>5. CASE \E o \in NormalOptions, k \in 0..Len(order), left \in 0..bytes : Configure(o, k, left)
  BY <1>5, InstallCapsInv DEF Configure
<1>d. ASSUME DOMAIN byID' = {}, bytes' = 0
      PROVE  CapsHeld' /\ CurrentEpochOnly' /\ MembersReadable' /\ FilesNamed'
  <2>1. Cardinality(DOMAIN byID') = 0 /\ IsFiniteSet(DOMAIN byID')
    BY <1>d, FS_EmptySet
  <2>2. opts'.maxMessages \in Nat /\ opts'.maxBytes \in Nat
    BY <1>b DEF TypeOK, Options
  <2>3. CapsHeld'
    BY <1>d, <2>1, <2>2 DEF CapsHeld
  <2>4. QED
    BY <1>d, <2>3 DEF CurrentEpochOnly, MembersReadable, FilesNamed, FilesOf
<1>6. CASE \E o \in Options : ResetTo(o)
  <2>1. /\ DOMAIN byID' = {} /\ bytes' = 0 /\ epoch' = epoch + 1
        /\ UNCHANGED <<nextId, ins, rd>>
    BY <1>6, NoRecordsFacts DEF ResetTo, ClearIndex
  <2>2. ASSUME NEW i \in Inserters PROVE ins'[i].epoch < epoch'
    <3>1. ins[i].epoch <= epoch /\ ins[i].epoch \in Nat /\ epoch \in Nat
      BY <1>a, InsType DEF StoreInv, EpochsBounded, TypeOK
    <3>2. QED
      BY <2>1, <3>1
  <2>3. EpochsBounded' /\ FreshTempsKept' /\ FreshWriteKept'
    <3>1. \A i \in Inserters : ins'[i].epoch \in Nat /\ epoch' \in Nat
      BY <1>a, <1>b, <2>1, InsType DEF TypeOK
    <3>2. \A i \in Inserters : ins'[i].epoch <= epoch' /\ ins'[i].epoch # epoch'
      BY <2>2, <3>1
    <3>3. QED
      BY <3>2 DEF EpochsBounded, FreshTempsKept, FreshWriteKept, Fresh
  <2>4. IdsDistinct'
    BY <2>1 DEF StoreInv, IdsDistinct, Active
  <2>5. MissingMeansGone' /\ ReadersSeePublished'
    BY <2>1, GetsKept
  <2>6. QED
    BY <1>b, <1>d, <2>1, <2>3, <2>4, <2>5 DEF StoreInv
<1>7. CASE \E o \in NormalOptions : Restart(o)
  <2>1. DOMAIN byID' = {} /\ bytes' = 0 /\ epoch' = 1
    BY <1>7, NoRecordsFacts DEF Restart, ClearIndex
  <2>2. \A i \in Inserters : /\ ins'[i].pc = "idle" /\ ins'[i].epoch = 0
                             /\ ins'[i].job = {} /\ ins'[i].todo = {}
    BY <1>7 DEF Restart, NoInsert
  <2>3. \A r \in Readers : rd'[r].pc = "idle"
    BY <1>7 DEF Restart, NoRead
  <2>4. FreshTempsKept' /\ FreshWriteKept' /\ EpochsBounded' /\ IdsDistinct'
    <3>1. FreshTempsKept' /\ FreshWriteKept'
      BY <2>2 DEF FreshTempsKept, FreshWriteKept, TmpFiles
    <3>2. EpochsBounded'
      BY <2>1, <2>2 DEF EpochsBounded
    <3>3. IdsDistinct'
      BY <2>1, <2>2 DEF IdsDistinct, Active
    <3>4. QED
      BY <3>1, <3>2, <3>3
  <2>5. MissingMeansGone' /\ ReadersSeePublished'
    BY <2>3 DEF MissingMeansGone, ReadersSeePublished
  <2>6. QED
    BY <1>b, <1>d, <2>1, <2>4, <2>5 DEF StoreInv
<1>8. Wipe => \E o \in Options : ResetTo(o)
  BY <1>a DEF Wipe, TypeOK
<1>9. QED
  BY <1>1, <1>2, <1>3, <1>4, <1>5, <1>6, <1>7, <1>8 DEF AdminStep

\* A step of Get or List preserves the invariant.
LEMMA ReadStepInv ==
    ASSUME StoreInv, NEW r \in Readers, ReadStep(r)
    PROVE  StoreInv'
<1>a. TypeOK
  BY DEF StoreInv
<1>b. TypeOK'
  BY <1>a, ReadStepType
\* It suffices that the call of r keeps its part of the reader conjuncts.
<1>c. ASSUME UNCHANGED <<index, disk, nextId, ins>>,
             \A q \in Readers \ {r} : rd'[q] = rd[q],
             rd'[r].pc = "missing" => ~(rd'[r].page \subseteq DOMAIN byID),
             rd'[r].pc \in {"get", "list", "missing", "recheck"} =>
               /\ \A id \in rd'[r].page :
                    /\ id < nextId
                    /\ \A i \in Inserters : Active(i) => ins[i].id # id
               /\ rd'[r].pc \in {"get", "list"} /\ rd'[r].page \subseteq DOMAIN byID
                    => rd'[r].files = FilesOf(rd'[r].page)
      PROVE  StoreInv'
  <2>1. UNCHANGED <<epoch, byID>>
    BY <1>c DEF index
  <2>2. CapsHeld' /\ CurrentEpochOnly' /\ MembersReadable' /\ FilesNamed'
    BY <1>c, IndexKept
  <2>3. FreshTempsKept' /\ FreshWriteKept' /\ EpochsBounded' /\ IdsDistinct'
    BY <1>c, <2>1, CallsKept
  <2>4. MissingMeansGone'
    BY <1>c, <2>1 DEF StoreInv, MissingMeansGone, StillMember
  <2>5. ReadersSeePublished'
    <3> SUFFICES ASSUME NEW q \in Readers, rd'[q].pc \in {"get", "list", "missing", "recheck"}
                 PROVE  /\ \A id \in rd'[q].page :
                             /\ id < nextId
                             /\ \A i \in Inserters : Active(i) => ins[i].id # id
                        /\ rd'[q].pc \in {"get", "list"} /\ rd'[q].page \subseteq DOMAIN byID
                             => rd'[q].files = FilesOf(rd'[q].page)
      BY <1>c, <2>1 DEF ReadersSeePublished, Active, FilesOf
    <3>1. CASE q = r
      BY <1>c, <3>1
    <3>2. CASE q # r
      BY <1>c, <3>2 DEF StoreInv, ReadersSeePublished
    <3>3. QED
      BY <3>1, <3>2
  <2>6. QED
    BY <1>b, <2>2, <2>3, <2>4, <2>5 DEF StoreInv
<1>d. ASSUME NEW res, Return(r, res) PROVE rd'[r].pc = "idle" /\ \A q \in Readers \ {r} : rd'[q] = rd[q]
  BY <1>a, <1>d DEF Return, NoRead, TypeOK
<1>1. CASE \E id \in 1..(nextId - 1), mark \in BOOLEAN : GetBegin(r, id, mark)
  <2> PICK id \in 1..(nextId - 1), mark \in BOOLEAN : GetBegin(r, id, mark)
    BY <1>1
  <2>1. UNCHANGED <<index, disk, nextId, ins>>
    BY DEF GetBegin
  <2>2. CASE id \in DOMAIN byID
    <3>1. /\ rd'[r].pc \in {"get", "list"} /\ rd'[r].page = {id} /\ rd'[r].files = byID[id].files
          /\ \A q \in Readers \ {r} : rd'[q] = rd[q]
      BY <1>a, <2>2 DEF GetBegin, TypeOK
    <3>2. id < nextId /\ \A i \in Inserters : Active(i) => ins[i].id # id
      BY <2>2 DEF StoreInv, IdsDistinct
    <3>3. FilesOf({id}) = byID[id].files
      BY DEF FilesOf
    <3>4. QED
      BY <1>c, <2>1, <3>1, <3>2, <3>3
  <2>3. CASE id \notin DOMAIN byID
    BY <1>c, <1>d, <2>1, <2>3 DEF GetBegin
  <2>4. QED
    BY <2>2, <2>3
<1>2. CASE \E page \in SUBSET DOMAIN byID : ListBegin(r, page)
  <2> PICK page \in SUBSET DOMAIN byID : ListBegin(r, page)
    BY <1>2
  <2>1. UNCHANGED <<index, disk, nextId, ins>>
    BY DEF ListBegin
  <2>2. /\ rd'[r].pc = "list" /\ rd'[r].page = page /\ rd'[r].files = FilesOf(page)
        /\ \A q \in Readers \ {r} : rd'[q] = rd[q]
    BY <1>a DEF ListBegin, TypeOK
  <2>3. \A id \in page : id < nextId /\ \A i \in Inserters : Active(i) => ins[i].id # id
    BY DEF StoreInv, IdsDistinct
  <2>4. QED
    BY <1>c, <2>1, <2>2, <2>3
<1>3. CASE Load(r)
  <2>1. UNCHANGED <<index, disk, nextId, ins>>
    BY <1>3 DEF Load
  <2>2. CASE rd' = [rd EXCEPT ![r].pc = "recheck"] /\ rd[r].pc = "get"
    <3>1. /\ rd'[r].pc = "recheck" /\ rd'[r].page = rd[r].page
          /\ \A q \in Readers \ {r} : rd'[q] = rd[q]
      BY <1>a, <2>2 DEF TypeOK, ReadCall
    <3>2. \A id \in rd[r].page :
             id < nextId /\ \A i \in Inserters : Active(i) => ins[i].id # id
      BY <2>2 DEF StoreInv, ReadersSeePublished
    <3>3. QED
      BY <1>c, <2>1, <3>1, <3>2
  <2>3. CASE /\ rd' = [rd EXCEPT ![r].pc = "missing"] /\ rd[r].pc = "get"
             /\ ~(rd[r].files \subseteq disk)
    <3>1. /\ rd'[r].pc = "missing" /\ rd'[r].page = rd[r].page
          /\ \A q \in Readers \ {r} : rd'[q] = rd[q]
      BY <1>a, <2>3 DEF TypeOK, ReadCall
    <3>2. \A id \in rd[r].page :
             id < nextId /\ \A i \in Inserters : Active(i) => ins[i].id # id
      BY <2>3 DEF StoreInv, ReadersSeePublished
    <3>3. ~(rd[r].page \subseteq DOMAIN byID)
      <4> SUFFICES ASSUME rd[r].page \subseteq DOMAIN byID PROVE FALSE
        OBVIOUS
      <4>1. rd[r].files = FilesOf(rd[r].page)
        BY <2>3 DEF StoreInv, ReadersSeePublished
      <4>2. FilesOf(rd[r].page) \subseteq disk
        BY DEF StoreInv, MembersReadable, FilesOf
      <4>3. QED
        BY <2>3, <4>1, <4>2
    <3>4. QED
      BY <1>c, <2>1, <3>1, <3>2, <3>3
  <2>4. CASE \E res \in {"ok", "errSpill"} : Return(r, res)
    BY <1>c, <1>d, <2>1, <2>4
  <2>5. QED
    BY <1>3, <2>2, <2>3, <2>4 DEF Load
<1>4. CASE GetMissing(r)
  <2>1. UNCHANGED <<index, disk, nextId, ins>>
    BY <1>4 DEF GetMissing
  <2>2. \E res \in {"errSpill", "notFound"} : Return(r, res)
    BY <1>4 DEF GetMissing
  <2>3. QED
    BY <1>c, <1>d, <2>1, <2>2
<1>5. CASE GetFinish(r)
  <2>0. UNCHANGED <<opts, epoch, bytes, disk, nextId, ins>>
    BY <1>5 DEF GetFinish
  <2>1. \E res \in {"ok", "notFound"} : Return(r, res)
    BY <1>5 DEF GetFinish
  <2>2. rd'[r].pc = "idle" /\ \A q \in Readers \ {r} : rd'[q] = rd[q]
    BY <1>d, <2>1
  <2>3. /\ DOMAIN byID' = DOMAIN byID
        /\ \A id \in DOMAIN byID' : /\ byID'[id].files = byID[id].files
                                     /\ byID'[id].epoch = byID[id].epoch
    <3> DEFINE S == IF rd[r].mark THEN rd[r].page ELSE {}
    <3>1. CASE StillMember(r)
      <4>1. byID' = [id \in DOMAIN byID |->
                IF id \in S THEN [byID[id] EXCEPT !.read = TRUE] ELSE byID[id]]
        BY <1>5, <3>1 DEF GetFinish
      <4> HIDE DEF S
      <4>2. QED
        BY <1>a, <4>1, MarkType
    <3>2. CASE ~StillMember(r)
      BY <1>5, <3>2 DEF GetFinish
    <3>3. QED
      BY <3>1, <3>2
  <2>4. CapsHeld' /\ CurrentEpochOnly' /\ MembersReadable' /\ FilesNamed'
    BY <2>0, <2>3 DEF StoreInv, CapsHeld, CurrentEpochOnly, MembersReadable, FilesNamed, FilesOf
  <2>5. FreshTempsKept' /\ FreshWriteKept' /\ EpochsBounded' /\ IdsDistinct'
    BY <2>0, <2>3, CallsKept
  <2>6. MissingMeansGone'
    BY <2>2, <2>3 DEF StoreInv, MissingMeansGone, StillMember
  <2>7. ReadersSeePublished'
    <3> SUFFICES ASSUME NEW q \in Readers \ {r}, rd[q].pc \in {"get", "list", "missing", "recheck"}
                 PROVE  /\ \A id \in rd[q].page :
                             /\ id < nextId
                             /\ \A i \in Inserters : Active(i) => ins[i].id # id
                        /\ rd[q].pc \in {"get", "list"} /\ rd[q].page \subseteq DOMAIN byID'
                             => rd[q].files = FilesOf(rd[q].page)'
      BY <2>0, <2>2 DEF ReadersSeePublished, Active
    <3>1. rd[q].page \subseteq DOMAIN byID' => FilesOf(rd[q].page)' = FilesOf(rd[q].page)
      BY <2>2, <2>3 DEF FilesOf
    <3>2. QED
      BY <2>3, <3>1 DEF StoreInv, ReadersSeePublished
  <2>8. QED
    BY <1>b, <2>4, <2>5, <2>6, <2>7 DEF StoreInv
<1>6. QED
  BY <1>1, <1>2, <1>3, <1>4, <1>5 DEF ReadStep

\* A step of the Insert call of i that leaves the index alone, is not ahead of
\* the epoch, keeps its id or draws a new one, and keeps the files it and the
\* other calls still need.
LEMMA CallStep ==
    ASSUME StoreInv, TypeOK', NEW i \in Inserters,
           UNCHANGED <<index, rd>>, nextId' \in {nextId, nextId + 1},
           \A j \in Inserters \ {i} : ins'[j] = ins[j],
           \A f \in disk : f \in disk' \/ (Active(i) /\ f.tmp = TRUE /\ f.id = ins[i].id),
           ins'[i].epoch <= epoch,
           Active(i)' => \/ Active(i) /\ ins'[i].id = ins[i].id
                         \/ ins'[i].id = nextId /\ nextId' = nextId + 1,
           ~Active(i)' => ins'[i].job = {} /\ ins'[i].todo = {},
           Fresh(i)' => TmpFiles(i, ins[i].job)' \subseteq disk',
           Fresh(i)' /\ ins'[i].pc = "writing" =>
               \A p \in ins'[i].todo : (\A q \in ins'[i].todo : p <= q)
                   => File(ins'[i].wdir, ins'[i].id, p, TRUE) \in disk'
    PROVE  StoreInv'
<1>0. UNCHANGED <<opts, epoch, bytes, byID>> /\ nextId \in Nat /\ FilesNamed
  BY DEF index, StoreInv, TypeOK
<1>1. CapsHeld' /\ CurrentEpochOnly' /\ MembersReadable' /\ FilesNamed'
  <2>1. FilesOf(DOMAIN byID) \cap disk \subseteq disk'
    BY <1>0, MemberNamed
  <2>2. QED
    BY <2>1, IndexKept
<1>2. \A j \in Inserters \ {i} : Active(i) /\ Active(j) => ins[j].id # ins[i].id
  BY DEF StoreInv, IdsDistinct
<1>3. FreshTempsKept'
  <2> SUFFICES ASSUME NEW j \in Inserters, Fresh(j)'
               PROVE  TmpFiles(j, ins[j].job)' \subseteq disk'
    BY DEF FreshTempsKept
  <2>1. CASE j = i
    BY <2>1
  <2>2. CASE j # i
    <3>1. ins'[j] = ins[j] /\ Fresh(j)
      BY <1>0, <2>2 DEF Fresh
    <3>2. TmpFiles(j, ins[j].job)' = TmpFiles(j, ins[j].job)
      BY <3>1 DEF TmpFiles, Tmp
    <3>3. TmpFiles(j, ins[j].job) \subseteq disk
      BY <3>1 DEF StoreInv, FreshTempsKept
    <3>4. CASE Active(j)
      <4>1. ins[j].id # ins[i].id \/ ~Active(i)
        BY <1>2, <2>2, <3>4
      <4>2. ASSUME NEW f \in TmpFiles(j, ins[j].job) PROVE f \in disk'
        <5>1. f \in disk /\ f.id = ins[j].id
          BY <3>3, TmpNamed
        <5>2. QED
          BY <4>1, <5>1
      <4>3. QED
        BY <3>2, <4>2
    <3>5. CASE ~Active(j)
      BY <3>2, <3>5 DEF StoreInv, IdsDistinct, TmpFiles
    <3>6. QED
      BY <3>4, <3>5
  <2>3. QED
    BY <2>1, <2>2
<1>4. FreshWriteKept'
  <2> SUFFICES ASSUME NEW j \in Inserters, Fresh(j)', ins'[j].pc = "writing",
                      NEW p \in ins'[j].todo, \A q \in ins'[j].todo : p <= q
               PROVE  File(ins'[j].wdir, ins'[j].id, p, TRUE) \in disk'
    BY DEF FreshWriteKept
  <2>1. CASE j = i
    BY <2>1
  <2>2. CASE j # i
    <3>1. ins'[j] = ins[j] /\ Fresh(j) /\ Active(j)
      BY <1>0, <2>2 DEF Fresh, Active
    <3> DEFINE f == File(ins[j].wdir, ins[j].id, p, TRUE)
    <3>2. f \in disk
      BY <3>1 DEF StoreInv, FreshWriteKept
    <3>3. f.id = ins[j].id
      BY DEF File
    <3> HIDE DEF f
    <3>4. f \in disk'
      BY <1>2, <2>2, <3>1, <3>2, <3>3
    <3>5. QED
      BY <3>1, <3>4 DEF f
  <2>3. QED
    BY <2>1, <2>2
<1>5. EpochsBounded'
  BY <1>0 DEF StoreInv, EpochsBounded
<1>6. IdsDistinct'
  <2>0. /\ \A j \in Inserters : ins[j].id \in Nat
        /\ \A id \in DOMAIN byID : id \in Nat
    BY DEF StoreInv, TypeOK, InsertCall
  <2>1. \A id \in DOMAIN byID' : id < nextId'
    BY <1>0, <2>0 DEF StoreInv, IdsDistinct
  <2>2. \A j \in Inserters \ {i} : (Active(j)' <=> Active(j)) /\ ins'[j] = ins[j]
    BY DEF Active
  <2>3. \A j \in Inserters :
          /\ Active(j)' => ins'[j].id < nextId' /\ ins'[j].id \notin DOMAIN byID'
          /\ ~Active(j)' => ins'[j].job = {} /\ ins'[j].todo = {}
    <3> SUFFICES ASSUME NEW j \in Inserters
                 PROVE  /\ Active(j)' => ins'[j].id < nextId' /\ ins'[j].id \notin DOMAIN byID'
                        /\ ~Active(j)' => ins'[j].job = {} /\ ins'[j].todo = {}
      OBVIOUS
    <3>1. CASE j = i
      BY <1>0, <2>0, <3>1 DEF StoreInv, IdsDistinct
    <3>2. CASE j # i
      BY <1>0, <2>0, <2>2, <3>2 DEF StoreInv, IdsDistinct
    <3>3. QED
      BY <3>1, <3>2
  <2>4. \A j, l \in Inserters : j # l /\ Active(j)' /\ Active(l)' => ins'[j].id # ins'[l].id
    <3> SUFFICES ASSUME NEW j \in Inserters, NEW l \in Inserters, j # l, Active(j)', Active(l)'
                 PROVE  ins'[j].id # ins'[l].id
      OBVIOUS
    <3>1. CASE j # i /\ l # i
      BY <2>2, <3>1 DEF StoreInv, IdsDistinct
    <3>2. CASE j = i
      BY <1>0, <2>0, <2>2, <3>2 DEF StoreInv, IdsDistinct
    <3>3. CASE l = i
      BY <1>0, <2>0, <2>2, <3>3 DEF StoreInv, IdsDistinct
    <3>4. QED
      BY <3>1, <3>2, <3>3
  <2>5. QED
    BY <2>1, <2>3, <2>4 DEF IdsDistinct
<1>7. MissingMeansGone'
  BY <1>0 DEF StoreInv, MissingMeansGone, StillMember
<1>8. ReadersSeePublished'
  <2> SUFFICES ASSUME NEW r \in Readers, rd[r].pc \in {"get", "list", "missing", "recheck"}
               PROVE  /\ \A id \in rd[r].page :
                           /\ id < nextId'
                           /\ \A j \in Inserters : Active(j)' => ins'[j].id # id
                      /\ rd[r].pc \in {"get", "list"} /\ rd[r].page \subseteq DOMAIN byID'
                           => rd[r].files = FilesOf(rd[r].page)'
    BY DEF ReadersSeePublished
  <2>1. rd[r].pc \in {"get", "list"} /\ rd[r].page \subseteq DOMAIN byID'
           => rd[r].files = FilesOf(rd[r].page)'
    BY <1>0 DEF StoreInv, ReadersSeePublished, FilesOf
  <2>2. ASSUME NEW id \in rd[r].page
        PROVE  id < nextId' /\ \A j \in Inserters : Active(j)' => ins'[j].id # id
    <3>1. /\ id < nextId /\ id \in Nat
          /\ \A j \in Inserters : Active(j) => ins[j].id # id
      BY DEF StoreInv, ReadersSeePublished, TypeOK, ReadCall
    <3>2. \A j \in Inserters \ {i} : (Active(j)' <=> Active(j)) /\ ins'[j] = ins[j]
      BY DEF Active
    <3>3. id < nextId'
      BY <1>0, <3>1
    <3>4. \A j \in Inserters : Active(j)' => ins'[j].id # id
      BY <1>0, <3>1, <3>2
    <3>5. QED
      BY <3>3, <3>4
  <2>3. QED
    BY <2>1, <2>2
<1>9. QED
  BY <1>1, <1>3, <1>4, <1>5, <1>6, <1>7, <1>8 DEF StoreInv

\* The locked section that accepts a message preserves the invariant.
LEMMA InsertCommitInv ==
    ASSUME StoreInv, TypeOK', NEW i \in Inserters, NEW k \in 0..Len(order),
           NEW left \in 0..bytes, NEW pos, InsertCommit(i, k, left, pos)
    PROVE  StoreInv'
<1> DEFINE c == ins[i]
           rec == [at |-> c.at, size |-> c.size, epoch |-> c.epoch,
                   read |-> FALSE, files |-> FinalFiles(i, c.job)]
<1>0. /\ TypeOK /\ FilesNamed /\ IsFiniteSet(DOMAIN byID)
      /\ Active(i) /\ c.epoch = epoch /\ c.id \notin DOMAIN byID /\ c.id < nextId
      /\ UNCHANGED <<opts, epoch, nextId, rd>>
  BY DEF StoreInv, CapsHeld, InsertCommit, ReadyToCommit, Fresh, Active, IdsDistinct
<1>1. byID' = [id \in Survivors(k) \cup {c.id} |-> IF id = c.id THEN rec ELSE byID[id]]
  BY DEF InsertCommit
<1>2. DOMAIN byID' = Survivors(k) \cup {c.id}
  BY <1>1
<1>3. Survivors(k) \subseteq DOMAIN byID /\ Survivors(k) \cap Oldest(k) = {}
  BY DEF Survivors
<1>4. /\ byID'[c.id].files = FinalFiles(i, c.job) /\ byID'[c.id].epoch = epoch
      /\ \A id \in Survivors(k) : byID'[id] = byID[id]
  BY <1>0, <1>1, <1>3
<1>5. disk' = ((disk \ TmpFiles(i, c.job)) \ Dropped(Oldest(k))) \cup FinalFiles(i, c.job)
  BY DEF InsertCommit
<1>6. /\ ins'[i].pc = "idle" /\ ins'[i].epoch = 0 /\ ins'[i].job = {} /\ ins'[i].todo = {}
      /\ \A j \in Inserters \ {i} : ins'[j] = ins[j]
  BY <1>0 DEF InsertCommit, NoInsert, TypeOK
<1>7. CapsHeld'
  <2>1. /\ Cardinality(Survivors(k)) < opts.maxMessages
        /\ left + c.size <= opts.maxBytes
    BY DEF InsertCommit, EvictionsToFit, Fits
  <2>2. IsFiniteSet(Survivors(k))
    BY <1>0, <1>3, FS_Subset
  <2>3. c.id \notin Survivors(k)
    BY <1>0, <1>3
  <2>4. /\ IsFiniteSet(DOMAIN byID')
        /\ Cardinality(DOMAIN byID') = Cardinality(Survivors(k)) + 1
    BY <1>2, <2>2, <2>3, FS_AddElement
  <2>5. Cardinality(Survivors(k)) \in Nat /\ opts.maxMessages \in Nat
    BY <1>0, <2>2, FS_CardinalityType DEF TypeOK, Options
  <2>6. Cardinality(DOMAIN byID') <= opts.maxMessages
    BY <2>1, <2>4, <2>5
  <2>7. bytes' <= opts.maxBytes
    <3>1. bytes' = left + c.size
      BY DEF InsertCommit
    <3>2. QED
      BY <2>1, <3>1
  <2>8. QED
    BY <1>0, <2>4, <2>6, <2>7 DEF CapsHeld
<1>8. CurrentEpochOnly'
  BY <1>0, <1>2, <1>3, <1>4 DEF StoreInv, CurrentEpochOnly
<1>9. FilesNamed'
  <2> SUFFICES ASSUME NEW id \in DOMAIN byID', NEW f \in byID'[id].files
               PROVE  f.id = id /\ f.tmp = FALSE
    BY DEF FilesNamed
  <2>1. CASE id = c.id
    <3>1. f \in FinalFiles(i, ins[i].job)
      BY <1>4, <2>1
    <3>2. f.id = ins[i].id /\ f.tmp = FALSE
      BY <3>1, FinalNamed
    <3>3. QED
      BY <2>1, <3>2
  <2>2. CASE id # c.id
    BY <1>0, <1>2, <1>3, <1>4, <2>2 DEF FilesNamed
  <2>3. QED
    BY <2>1, <2>2
<1>10. MembersReadable'
  <2> SUFFICES ASSUME NEW id \in DOMAIN byID', NEW f \in byID'[id].files
               PROVE  f \in disk'
    BY DEF MembersReadable, FilesOf
  <2>1. CASE id = c.id
    BY <1>4, <1>5, <2>1
  <2>2. CASE id # c.id
    <3>1. id \in Survivors(k) /\ id \in DOMAIN byID /\ f \in byID[id].files
      BY <1>2, <1>3, <1>4, <2>2
    <3>2. f \in disk /\ f.id = id /\ f.tmp = FALSE
      BY <1>0, <3>1 DEF StoreInv, MembersReadable, FilesOf, FilesNamed
    <3>3. f \notin TmpFiles(i, c.job)
      BY <3>2, TmpNamed
    <3>4. f \notin Dropped(Oldest(k))
      BY <1>0, <1>3, <3>1, <3>2, DroppedNamed
    <3>5. QED
      BY <1>5, <3>2, <3>3, <3>4
  <2>3. QED
    BY <2>1, <2>2
<1>11. \A f \in disk : f.tmp = TRUE /\ f.id # c.id => f \in disk'
  <2>1. \A f \in TmpFiles(i, c.job) : f.id = c.id
    BY TmpNamed
  <2>2. \A f \in Dropped(Oldest(k)) : f.tmp = FALSE
    BY <1>0, DroppedNamed
  <2>3. QED
    BY <1>5, <2>1, <2>2
<1>12. \A j \in Inserters \ {i} : Active(j) => ins[j].id # c.id
  BY <1>0 DEF StoreInv, IdsDistinct
<1>13. FreshTempsKept'
  <2> SUFFICES ASSUME NEW j \in Inserters, Fresh(j)'
               PROVE  TmpFiles(j, ins[j].job)' \subseteq disk'
    BY DEF FreshTempsKept
  <2>1. CASE ins'[j].job = {}
    BY <2>1 DEF TmpFiles
  <2>2. CASE ins'[j].job # {}
    <3>1. j # i /\ ins'[j] = ins[j] /\ Fresh(j) /\ Active(j)
      BY <1>0, <1>6, <2>2 DEF Fresh, StoreInv, IdsDistinct
    <3>2. TmpFiles(j, ins[j].job)' = TmpFiles(j, ins[j].job)
      BY <3>1 DEF TmpFiles, Tmp
    <3>3. ASSUME NEW f \in TmpFiles(j, ins[j].job) PROVE f \in disk'
      <4>1. f \in disk
        BY <3>1 DEF StoreInv, FreshTempsKept
      <4>2. f.tmp = TRUE /\ f.id = ins[j].id
        BY TmpNamed
      <4>3. ins[j].id # c.id
        BY <1>12, <3>1
      <4>4. QED
        BY <1>11, <4>1, <4>2, <4>3
    <3>4. QED
      BY <3>2, <3>3
  <2>3. QED
    BY <2>1, <2>2
<1>14. FreshWriteKept'
  <2> SUFFICES ASSUME NEW j \in Inserters, Fresh(j)', ins'[j].pc = "writing",
                      NEW p \in ins'[j].todo, \A q \in ins'[j].todo : p <= q
               PROVE  File(ins'[j].wdir, ins'[j].id, p, TRUE) \in disk'
    BY DEF FreshWriteKept
  <2>1. j # i /\ ins'[j] = ins[j] /\ Fresh(j) /\ Active(j)
    BY <1>0, <1>6 DEF Fresh, Active
  <2> DEFINE f == File(ins[j].wdir, ins[j].id, p, TRUE)
  <2>2. f \in disk
    BY <2>1 DEF StoreInv, FreshWriteKept
  <2>3. f.id = ins[j].id /\ f.tmp = TRUE
    BY DEF File
  <2> HIDE DEF f
  <2>4. f \in disk'
    BY <1>11, <1>12, <2>1, <2>2, <2>3
  <2>5. QED
    BY <2>1, <2>4 DEF f
<1>15. EpochsBounded'
  <2>1. epoch \in Nat
    BY <1>0 DEF TypeOK
  <2>2. QED
    BY <1>0, <1>6, <2>1 DEF StoreInv, EpochsBounded
<1>16. IdsDistinct'
  <2>1. \A j \in Inserters : Active(j)' => j # i /\ Active(j) /\ ins'[j] = ins[j]
    BY <1>6 DEF Active
  <2>2. \A j \in Inserters : ~Active(j)' => ins'[j].job = {} /\ ins'[j].todo = {}
    BY <1>6 DEF StoreInv, IdsDistinct, Active
  <2>3. \A id \in DOMAIN byID' : id < nextId'
    BY <1>0, <1>2, <1>3 DEF StoreInv, IdsDistinct
  <2>4. \A j \in Inserters : Active(j)' => ins'[j].id < nextId' /\ ins'[j].id \notin DOMAIN byID'
    BY <1>0, <1>2, <1>3, <1>12, <2>1 DEF StoreInv, IdsDistinct
  <2>5. \A j, l \in Inserters : j # l /\ Active(j)' /\ Active(l)' => ins'[j].id # ins'[l].id
    BY <2>1 DEF StoreInv, IdsDistinct
  <2>6. QED
    BY <2>2, <2>3, <2>4, <2>5 DEF IdsDistinct
\* No Get in progress asks for the message that is published now.
<1>17. \A r \in Readers : rd[r].pc \in {"get", "list", "missing", "recheck"} => c.id \notin rd[r].page
  BY <1>0 DEF StoreInv, ReadersSeePublished
<1>18. MissingMeansGone'
  BY <1>0, <1>2, <1>3, <1>17 DEF StoreInv, MissingMeansGone, StillMember
<1>19. ReadersSeePublished'
  <2> SUFFICES ASSUME NEW r \in Readers, rd[r].pc \in {"get", "list", "missing", "recheck"}
               PROVE  /\ \A id \in rd[r].page :
                           /\ id < nextId
                           /\ \A j \in Inserters : Active(j)' => ins'[j].id # id
                      /\ rd[r].pc \in {"get", "list"} /\ rd[r].page \subseteq DOMAIN byID'
                           => rd[r].files = FilesOf(rd[r].page)'
    BY <1>0 DEF ReadersSeePublished
  <2>1. \A j \in Inserters : Active(j)' => Active(j) /\ ins'[j] = ins[j]
    BY <1>6 DEF Active
  <2>2. rd[r].page \subseteq DOMAIN byID' =>
          rd[r].page \subseteq DOMAIN byID /\ FilesOf(rd[r].page)' = FilesOf(rd[r].page)
    <3> SUFFICES ASSUME rd[r].page \subseteq DOMAIN byID'
                 PROVE  rd[r].page \subseteq DOMAIN byID /\ FilesOf(rd[r].page)' = FilesOf(rd[r].page)
      OBVIOUS
    <3>1. rd[r].page \subseteq Survivors(k)
      BY <1>2, <1>17
    <3>2. \A id \in rd[r].page : byID'[id] = byID[id]
      BY <1>4, <3>1
    <3>3. QED
      BY <1>0, <1>3, <3>1, <3>2 DEF FilesOf
  <2>3. QED
    BY <2>1, <2>2 DEF StoreInv, ReadersSeePublished
<1>20. QED
  BY <1>7, <1>8, <1>9, <1>10, <1>13, <1>14, <1>15, <1>16, <1>18, <1>19 DEF StoreInv

\* A step of an Insert call preserves the invariant.
LEMMA InsertStepInv ==
    ASSUME StoreInv, NEW i \in Inserters, InsertStep(i)
    PROVE  StoreInv'
<1> USE StoreAssumption
<1>a. /\ TypeOK /\ epoch \in Nat /\ ins[i].epoch <= epoch /\ ins[i].epoch \in Nat
      /\ (~Active(i) => ins[i].job = {} /\ ins[i].todo = {})
      /\ (Fresh(i) => TmpFiles(i, ins[i].job) \subseteq disk)
  BY InsType DEF StoreInv, TypeOK, EpochsBounded, IdsDistinct, FreshTempsKept
<1>b. TypeOK'
  BY <1>a, InsertStepType
<1>1. CASE CaptureEpoch(i)
  <2>1. /\ ins'[i].pc = "data" /\ ins'[i].epoch = epoch
        /\ ins'[i].job = {} /\ ins'[i].todo = {}
        /\ \A j \in Inserters \ {i} : ins'[j] = ins[j]
        /\ UNCHANGED <<index, disk, nextId, rd>>
    BY <1>1, <1>a DEF CaptureEpoch, NoInsert, TypeOK
  <2>2. TmpFiles(i, ins[i].job)' = {}
    BY <2>1 DEF TmpFiles
  <2>3. ~Active(i)' /\ ins'[i].epoch <= epoch
    BY <1>a, <2>1 DEF Active
  <2>4. QED
    BY <1>b, <2>1, <2>2, <2>3, CallStep
<1>2. CASE \E at \in Times, size \in Sizes, parts \in SUBSET Parts : InsertPrepare(i, at, size, parts)
  <2> PICK at \in Times, size \in Sizes, parts \in SUBSET Parts : InsertPrepare(i, at, size, parts)
    BY <1>2
  <2>1. /\ nextId' = nextId + 1 /\ UNCHANGED <<index, disk, rd>>
        /\ \A j \in Inserters \ {i} : ins'[j] = ins[j]
        /\ \/ /\ ins'[i].pc = "idle" /\ ins'[i].epoch = 0 /\ ins'[i].todo = {}
              /\ ins'[i].job = {}
           \/ /\ ins'[i].pc = "spill" /\ ins'[i].epoch = ins[i].epoch /\ ins'[i].id = nextId
              /\ ins'[i].job = ins[i].job
    <3> DEFINE todo == IF opts.spillDir = NoDir THEN {} ELSE parts
               new == [ins[i] EXCEPT !.pc = "spill", !.id = nextId, !.at = at,
                                     !.size = size, !.todo = todo]
    <3>1. ins' = [ins EXCEPT ![i] = NoInsert] \/ ins' = [ins EXCEPT ![i] = new]
      BY DEF InsertPrepare
    <3>2. /\ new.pc = "spill" /\ new.epoch = ins[i].epoch /\ new.id = nextId
          /\ new.job = ins[i].job
      <4> HIDE DEF todo
      <4> QED BY <1>a, InsType DEF InsertCall
    <3>3. /\ ins'[i] \in {NoInsert, new}
          /\ \A j \in Inserters \ {i} : ins'[j] = ins[j]
      <4> HIDE DEF new
      <4> QED BY <1>a, <3>1, InsNew
    <3>4. /\ NoInsert.pc = "idle" /\ NoInsert.epoch = 0 /\ NoInsert.todo = {}
          /\ NoInsert.job = {}
      BY DEF NoInsert
    <3>5. nextId' = nextId + 1 /\ UNCHANGED <<index, disk, rd>>
      BY DEF InsertPrepare
    <3>6. QED
      <4> HIDE DEF new
      <4> QED BY <3>2, <3>3, <3>4, <3>5
  <2>2. ins[i].job = {}
    BY <1>a DEF InsertPrepare, Active
  <2>3. TmpFiles(i, ins[i].job)' = {}
    BY <2>1, <2>2 DEF TmpFiles
  <2>4. ins'[i].epoch <= epoch
    BY <1>a, <2>1
  <2>5. /\ Active(i)' => ins'[i].id = nextId
        /\ ~Active(i)' => ins'[i].job = {} /\ ins'[i].todo = {}
    BY <2>1 DEF Active
  <2>6. QED
    BY <1>b, <2>1, <2>3, <2>4, <2>5, CallStep
<1>3. CASE \E p \in ins[i].todo : SpillBegin(i, p)
  <2> PICK p \in ins[i].todo : SpillBegin(i, p)
    BY <1>3
  <2>1. /\ Active(i) /\ Active(i)' /\ disk \subseteq disk' /\ UNCHANGED <<index, nextId, rd>>
        /\ ins'[i].epoch = ins[i].epoch /\ ins'[i].id = ins[i].id
        /\ ins'[i].job = ins[i].job /\ ins'[i].todo = ins[i].todo
        /\ \A j \in Inserters \ {i} : ins'[j] = ins[j]
    <3> DEFINE new == [ins[i] EXCEPT !.pc = "writing", !.wdir = opts.spillDir]
               failed == [ins[i] EXCEPT !.pc = "abort"]
    <3>1. ins' = [ins EXCEPT ![i] = new] \/ ins' = [ins EXCEPT ![i] = failed]
      BY DEF SpillBegin
    <3>2. \A c \in {new, failed} :
             /\ c.pc \in {"writing", "abort"} /\ c.epoch = ins[i].epoch
             /\ c.id = ins[i].id /\ c.job = ins[i].job /\ c.todo = ins[i].todo
      BY <1>a, InsType DEF InsertCall
    <3>3. /\ ins'[i] \in {new, failed}
          /\ \A j \in Inserters \ {i} : ins'[j] = ins[j]
      <4> HIDE DEF new, failed
      <4> QED BY <1>a, <3>1, InsNew
    <3>4. Active(i) /\ disk \subseteq disk' /\ UNCHANGED <<index, nextId, rd>>
      BY DEF SpillBegin, Active
    <3>5. QED
      <4> HIDE DEF new, failed
      <4> QED BY <3>2, <3>3, <3>4 DEF Active
  <2>2. ins'[i].pc = "writing" =>
          File(ins'[i].wdir, ins'[i].id, p, TRUE) \in disk'
    <3> DEFINE new == [ins[i] EXCEPT !.pc = "writing", !.wdir = opts.spillDir]
               failed == [ins[i] EXCEPT !.pc = "abort"]
    <3>1. \/ /\ ins' = [ins EXCEPT ![i] = new]
             /\ File(opts.spillDir, ins[i].id, p, TRUE) \in disk'
          \/ ins' = [ins EXCEPT ![i] = failed]
      BY DEF SpillBegin
    <3>2. new.wdir = opts.spillDir /\ failed.pc = "abort"
      BY <1>a, InsType DEF InsertCall
    <3> HIDE DEF new, failed
    <3>3. \/ ins'[i] = new /\ File(opts.spillDir, ins[i].id, p, TRUE) \in disk'
          \/ ins'[i] = failed
      BY <1>a, <3>1, InsNew
    <3>4. QED
      BY <2>1, <3>2, <3>3
  <2>3. \A q \in ins'[i].todo : (\A l \in ins'[i].todo : q <= l) => q = p
    <3>1. ins[i].todo \subseteq Nat /\ \A q \in ins[i].todo : p <= q
      BY <1>a, InsType DEF SpillBegin
    <3>2. QED
      BY <2>1, <3>1
  <2>4. Fresh(i)' => TmpFiles(i, ins[i].job)' \subseteq disk'
    BY <1>a, <2>1 DEF Fresh, TmpFiles, Tmp, index
  <2>5. QED
    BY <1>a, <1>b, <2>1, <2>2, <2>3, <2>4, CallStep
<1>4. CASE \E p \in ins[i].todo : SpillEnd(i, p)
  <2> PICK p \in ins[i].todo : SpillEnd(i, p)
    BY <1>4
  <2> DEFINE entry == [part |-> p, tmp |-> ins[i].wdir, final |-> opts.spillDir]
  <2>1. /\ Active(i) /\ Active(i)' /\ UNCHANGED <<index, disk, nextId, rd>>
        /\ ins'[i].epoch = ins[i].epoch /\ ins'[i].id = ins[i].id
        /\ ins'[i].pc # "writing"
        /\ \A j \in Inserters \ {i} : ins'[j] = ins[j]
        /\ ins'[i].job = ins[i].job \/ ins'[i].job = ins[i].job \cup {entry}
    <3> DEFINE new == [ins[i] EXCEPT !.pc = "spill", !.todo = ins[i].todo \ {p},
                                     !.job = ins[i].job \cup {entry}]
               failed == [ins[i] EXCEPT !.pc = "abort"]
    <3>1. ins' = [ins EXCEPT ![i] = new] \/ ins' = [ins EXCEPT ![i] = failed]
      BY DEF SpillEnd
    <3>2. \A c \in {new, failed} :
             /\ c.pc \in {"spill", "abort"} /\ c.epoch = ins[i].epoch
             /\ c.id = ins[i].id
             /\ c.job = ins[i].job \/ c.job = ins[i].job \cup {entry}
      <4> HIDE DEF entry
      <4> QED BY <1>a, InsType DEF InsertCall
    <3>3. /\ ins'[i] \in {new, failed}
          /\ \A j \in Inserters \ {i} : ins'[j] = ins[j]
      <4> HIDE DEF new, failed
      <4> QED BY <1>a, <3>1, InsNew
    <3>4. Active(i) /\ UNCHANGED <<index, disk, nextId, rd>>
      BY DEF SpillEnd, Active
    <3>5. QED
      <4> HIDE DEF new, failed, entry
      <4> QED BY <3>2, <3>3, <3>4 DEF Active
  <2>2. Fresh(i)' => TmpFiles(i, ins[i].job)' \subseteq disk'
    <3> SUFFICES ASSUME Fresh(i)', NEW e \in ins'[i].job
                 PROVE  File(e.tmp, ins[i].id, e.part, TRUE) \in disk
      BY <2>1 DEF TmpFiles, Tmp
    <3>1. Fresh(i)
      BY <2>1 DEF Fresh, index
    <3>2. CASE e \in ins[i].job
      BY <1>a, <3>1, <3>2 DEF TmpFiles, Tmp
    <3>3. CASE e = entry
      <4>1. ins[i].pc = "writing" /\ \A q \in ins[i].todo : p <= q
        BY DEF SpillEnd
      <4>2. File(ins[i].wdir, ins[i].id, p, TRUE) \in disk
        BY <3>1, <4>1 DEF StoreInv, FreshWriteKept
      <4>3. e.tmp = ins[i].wdir /\ e.part = p
        BY <3>3
      <4>4. QED
        BY <4>2, <4>3
    <3>4. QED
      BY <2>1, <3>2, <3>3
  <2>3. QED
    BY <1>a, <1>b, <2>1, <2>2, CallStep
<1>5. CASE InsertReject(i)
  <2>1. /\ Active(i) /\ Active(i)' /\ UNCHANGED <<index, disk, nextId, rd>>
        /\ ins'[i].epoch = ins[i].epoch /\ ins'[i].id = ins[i].id
        /\ ins'[i].pc # "writing" /\ ins'[i].job = ins[i].job
        /\ \A j \in Inserters \ {i} : ins'[j] = ins[j]
    BY <1>5, <1>a DEF InsertReject, ReadyToCommit, Active, TypeOK, InsertCall
  <2>2. Fresh(i)' => TmpFiles(i, ins[i].job)' \subseteq disk'
    BY <1>a, <2>1 DEF Fresh, TmpFiles, Tmp, index
  <2>3. QED
    BY <1>a, <1>b, <2>1, <2>2, CallStep
<1>6. CASE \E e \in ins[i].job : InsertRenameFails(i, e)
  <2> PICK e \in ins[i].job : InsertRenameFails(i, e)
    BY <1>6
  <2> DEFINE done == {d \in ins[i].job : d.part < e.part}
  <2>1. /\ Active(i) /\ Active(i)' /\ UNCHANGED <<index, nextId, rd>>
        /\ ins'[i].epoch = ins[i].epoch /\ ins'[i].id = ins[i].id
        /\ ins'[i].pc # "writing" /\ ins'[i].job = ins[i].job \ done
        /\ \A j \in Inserters \ {i} : ins'[j] = ins[j]
        /\ disk' = disk \ TmpFiles(i, done)
    BY <1>a DEF InsertRenameFails, ReadyToCommit, Active, TypeOK, InsertCall
  <2>2. \A f \in disk : f \in disk' \/ (f.tmp = TRUE /\ f.id = ins[i].id)
    <3> HIDE DEF done
    <3> QED BY <2>1, TmpNamed
  <2>3. Fresh(i)' => TmpFiles(i, ins[i].job)' \subseteq disk'
    <3> SUFFICES ASSUME Fresh(i)', NEW d \in ins[i].job \ done
                 PROVE  File(d.tmp, ins[i].id, d.part, TRUE) \in disk'
      BY <2>1 DEF TmpFiles, Tmp
    <3>1. Fresh(i)
      BY <2>1 DEF Fresh, index
    <3>2. File(d.tmp, ins[i].id, d.part, TRUE) \in disk
      BY <1>a, <3>1 DEF TmpFiles, Tmp
    <3>3. ASSUME NEW g \in done PROVE g.part # d.part
      <4>1. g.part \in Nat /\ d.part \in Nat /\ e.part \in Nat
        BY <1>a, InsType DEF JobEntry
      <4>2. g.part < e.part /\ ~(d.part < e.part)
        OBVIOUS
      <4>3. QED
        BY <4>1, <4>2
    <3>4. File(d.tmp, ins[i].id, d.part, TRUE) \notin TmpFiles(i, done)
      <4> HIDE DEF done
      <4> QED BY <3>3 DEF TmpFiles, Tmp, File
    <3>5. QED
      BY <2>1, <3>2, <3>4
  <2>4. QED
    BY <1>a, <1>b, <2>1, <2>2, <2>3, CallStep
<1>7. CASE \E k \in 0..Len(order), left \in 0..bytes, pos \in 1..(Len(order) + 1) :
             InsertCommit(i, k, left, pos)
  BY <1>7, <1>b, InsertCommitInv
<1>8. CASE InsertAbort(i)
  <2>1. /\ Active(i) /\ UNCHANGED <<index, nextId, rd>>
        /\ ins'[i].pc = "idle" /\ ins'[i].epoch = 0
        /\ ins'[i].job = {} /\ ins'[i].todo = {}
        /\ \A j \in Inserters \ {i} : ins'[j] = ins[j]
        /\ disk' = disk \ TmpFiles(i, ins[i].job)
    BY <1>8, <1>a DEF InsertAbort, NoInsert, Active, TypeOK
  <2>2. \A f \in disk : f \in disk' \/ (f.tmp = TRUE /\ f.id = ins[i].id)
    BY <2>1, TmpNamed
  <2>3. TmpFiles(i, ins[i].job)' = {} /\ ~Active(i)' /\ ins'[i].epoch <= epoch
    BY <1>a, <2>1 DEF TmpFiles, Active
  <2>4. QED
    BY <1>b, <2>1, <2>2, <2>3, CallStep
<1>9. QED
  BY <1>1, <1>2, <1>3, <1>4, <1>5, <1>6, <1>7, <1>8 DEF InsertStep

LEMMA StutterInv == StoreInv /\ UNCHANGED vars => StoreInv'
<1> SUFFICES ASSUME StoreInv, UNCHANGED vars PROVE StoreInv'
  OBVIOUS
<1>1. /\ UNCHANGED <<opts, epoch, generation, evictions, bytes, byID, order>>
      /\ UNCHANGED <<disk, nextId, life, ins, rd>> /\ UNCHANGED index
  BY DEF vars, index
<1>2. TypeOK'
  BY <1>1 DEF StoreInv, TypeOK
<1>3. CapsHeld' /\ CurrentEpochOnly' /\ MembersReadable' /\ FilesNamed'
  BY <1>1, IndexKept
<1>4. FreshTempsKept' /\ FreshWriteKept' /\ EpochsBounded' /\ IdsDistinct'
  BY <1>1, CallsKept
<1>5. MissingMeansGone' /\ ReadersSeePublished'
  BY <1>1, GetsKept
<1>6. QED
  BY <1>2, <1>3, <1>4, <1>5 DEF StoreInv

\* The inductive invariant of the store holds in every reachable state, for
\* any sessions, readers, options, I/O failures and bounds.
THEOREM StoreInvariant == Spec => []StoreInv
<1>1. Init => StoreInv
  BY InitStoreInv
<1>2. StoreInv /\ [Next]_vars => StoreInv'
  BY InsertStepInv, ReadStepInv, AdminStepInv, StutterInv DEF Next
<1>3. QED
  BY <1>1, <1>2, PTL DEF Spec

\* memory.go keeps its state well typed.
THEOREM TypeCorrect == Spec => []TypeOK
  BY StoreInvariant, PTL DEF StoreInv

\* Insert, ReplaceCaps and Configure never leave the inbox over its caps.
THEOREM CapsAlwaysHeld == Spec => []CapsHeld
  BY StoreInvariant, PTL DEF StoreInv

\* An Insert whose epoch was captured before a wipe or reset never lands.
THEOREM NoStaleMail == Spec => []CurrentEpochOnly
  BY StoreInvariant, PTL DEF StoreInv

\* Every spill file a member records exists, and the temporary files of an
\* Insert that can still be accepted exist, under every interleaving of
\* wipes, resets, evictions, deletes and failing I/O.
THEOREM SpillKept == Spec => [](MembersReadable /\ FreshTempsKept)
  BY StoreInvariant, PTL DEF StoreInv

\* Get blames the spill file only of a message that is still in the inbox.
THEOREM GetLooksTwice == Spec => []MissingMeansGone
  BY StoreInvariant, PTL DEF StoreInv

-----------------------------------------------------------------------------
(***************************************************************************)
(* The three accounts of membership.  The invariant is relative to         *)
(* StoreInv: an inserted id is new, so neither the order nor the byte      *)
(* account meets it twice.                                                 *)
(***************************************************************************)

\* a is older than b under the records f, by receive time and then id.
Before(f, a, b) == f[a].at < f[b].at \/ (f[a].at = f[b].at /\ a < b)

\* s is a list of n ids with receive times, from old to young.
Listed(f, s, n) == n \in Nat /\ \A j \in 1..n : s[j] \in Nat /\ f[s[j]].at \in Nat
Ascending(f, s, n) == \A j, l \in 1..n : j < l => Before(f, s[j], s[l])

\* t is s without its first k, without the one at p, or with id at p.
Shifted(s, k, t, m) == \A j \in 1..m : t[j] = s[j + k]
Spliced(s, p, t, m) == \A j \in 1..m : t[j] = IF j < p THEN s[j] ELSE s[j + 1]
Slotted(s, p, id, t, m) ==
    \A j \in 1..m : t[j] = IF j < p THEN s[j] ELSE IF j = p THEN id ELSE s[j - 1]

Among(x, s, n) == \E j \in 1..n : x = s[j]

LEMMA Glue ==
    ASSUME NEW a \in Seq(Nat), NEW b \in Seq(Nat)
    PROVE  /\ a \o b \in Seq(Nat) /\ Len(a \o b) = Len(a) + Len(b)
           /\ \A j \in 1..(Len(a) + Len(b)) :
                (a \o b)[j] = IF j <= Len(a) THEN a[j] ELSE b[j - Len(a)]
  OBVIOUS

\* What the operations on sequences do, position by position.
LEMMA SeqShapes ==
    ASSUME NEW s \in Seq(Nat), NEW id \in Nat
    PROVE  /\ Len(s) \in Nat
           /\ \A j \in 1..Len(s) : s[j] \in Nat
           /\ \A x : x \in ToSet(s) <=> Among(x, s, Len(s))
           /\ \A k \in 0..Len(s) :
                LET t == SubSeq(s, k + 1, Len(s))
                IN  /\ t \in Seq(Nat) /\ Len(t) = Len(s) - k /\ Shifted(s, k, t, Len(t))
           /\ \A p \in 1..Len(s) :
                LET t == RemoveAt(s, p)
                IN  /\ t \in Seq(Nat) /\ Len(t) = Len(s) - 1 /\ Spliced(s, p, t, Len(t))
           /\ \A p \in 1..(Len(s) + 1) :
                LET t == InsertAt(s, p, id)
                IN  /\ t \in Seq(Nat) /\ Len(t) = Len(s) + 1 /\ Slotted(s, p, id, t, Len(t))
<1>1. Len(s) \in Nat /\ \A j \in 1..Len(s) : s[j] \in Nat
  OBVIOUS
<1>2. ASSUME NEW x
      PROVE  x \in ToSet(s) <=> Among(x, s, Len(s))
  BY DEF ToSet, Among
<1>3. ASSUME NEW k \in 0..Len(s)
      PROVE  LET t == SubSeq(s, k + 1, Len(s))
             IN  /\ t \in Seq(Nat) /\ Len(t) = Len(s) - k
                 /\ \A j \in 1..(Len(s) - k) : t[j] = s[j + k]
  <2>1. SubSeq(s, k + 1, Len(s)) \in Seq(Nat) /\ Len(SubSeq(s, k + 1, Len(s))) = Len(s) - k
    OBVIOUS
  <2>2. ASSUME NEW j \in 1..(Len(s) - k) PROVE SubSeq(s, k + 1, Len(s))[j] = s[j + k]
    OBVIOUS
  <2>3. QED
    BY <2>1, <2>2, Zenon
<1>4. ASSUME NEW p \in 1..Len(s)
      PROVE  LET t == RemoveAt(s, p)
             IN  /\ t \in Seq(Nat) /\ Len(t) = Len(s) - 1
                 /\ \A j \in 1..(Len(s) - 1) : t[j] = IF j < p THEN s[j] ELSE s[j + 1]
  <2> DEFINE a == SubSeq(s, 1, p - 1)
             b == SubSeq(s, p + 1, Len(s))
             t == a \o b
  <2>1. /\ a \in Seq(Nat) /\ Len(a) = p - 1 /\ \A j \in 1..(p - 1) : a[j] = s[j]
    OBVIOUS
  <2>2. b \in Seq(Nat) /\ Len(b) = Len(s) - p /\ \A j \in 1..(Len(s) - p) : b[j] = s[j + p]
    BY <1>3
  <2>3. RemoveAt(s, p) = t
    BY DEF RemoveAt
  <2>4. /\ t \in Seq(Nat) /\ Len(t) = Len(a) + Len(b)
        /\ \A j \in 1..(Len(a) + Len(b)) : t[j] = IF j <= Len(a) THEN a[j] ELSE b[j - Len(a)]
    <3> HIDE DEF a, b
    <3> QED BY <2>1, <2>2, Glue
  <2> HIDE DEF a, b, t
  <2>5. Len(t) = Len(s) - 1
    BY <1>1, <2>1, <2>2, <2>4
  <2>6. ASSUME NEW j \in 1..(Len(s) - 1)
        PROVE  t[j] = IF j < p THEN s[j] ELSE s[j + 1]
    <3>1. CASE j < p
      <4>1. j \in 1..(p - 1) /\ j \in 1..(Len(a) + Len(b)) /\ j <= Len(a)
        BY <1>1, <2>1, <2>2, <3>1
      <4>2. t[j] = a[j] /\ a[j] = s[j]
        BY <2>1, <2>4, <4>1
      <4>3. QED
        BY <3>1, <4>2
    <3>2. CASE j >= p
      <4>1. /\ j - (p - 1) \in 1..(Len(s) - p) /\ j \in 1..(Len(a) + Len(b))
            /\ j - Len(a) = j - (p - 1) /\ ~(j <= Len(a))
        BY <1>1, <2>1, <2>2, <3>2
      <4>2. t[j] = b[j - (p - 1)]
        BY <2>4, <4>1
      <4>3. (j - (p - 1)) + p = j + 1
        BY <1>1
      <4>4. b[j - (p - 1)] = s[j + 1]
        BY <2>2, <4>1, <4>3
      <4>5. QED
        BY <1>1, <3>2, <4>2, <4>4
    <3>3. QED
      BY <1>1, <3>1, <3>2
  <2>7. QED
    BY <2>3, <2>4, <2>5, <2>6
<1>5. ASSUME NEW p \in 1..(Len(s) + 1)
      PROVE  LET t == InsertAt(s, p, id)
             IN  /\ t \in Seq(Nat) /\ Len(t) = Len(s) + 1
                 /\ \A j \in 1..(Len(s) + 1) :
                      t[j] = IF j < p THEN s[j] ELSE IF j = p THEN id ELSE s[j - 1]
  <2> DEFINE a == SubSeq(s, 1, p - 1)
             b == SubSeq(s, p, Len(s))
             c == a \o <<id>>
             t == c \o b
  <2>1. /\ a \in Seq(Nat) /\ Len(a) = p - 1 /\ \A j \in 1..(p - 1) : a[j] = s[j]
        /\ b \in Seq(Nat) /\ Len(b) = Len(s) - p + 1
        /\ \A j \in 1..(Len(s) - p + 1) : b[j] = s[j + p - 1]
    OBVIOUS
  <2>2. InsertAt(s, p, id) = t
    BY DEF InsertAt
  <2>3. c \in Seq(Nat) /\ Len(c) = p /\ \A j \in 1..p : c[j] = IF j < p THEN s[j] ELSE id
    <3> HIDE DEF a, b
    <3> QED BY <2>1
  <2>4. /\ t \in Seq(Nat) /\ Len(t) = Len(c) + Len(b)
        /\ \A j \in 1..(Len(c) + Len(b)) : t[j] = IF j <= Len(c) THEN c[j] ELSE b[j - Len(c)]
    <3> HIDE DEF b, c
    <3> QED BY <2>1, <2>3, Glue
  <2> HIDE DEF a, b, c, t
  <2>5. Len(t) = Len(s) + 1
    BY <1>1, <2>1, <2>3, <2>4
  <2>6. ASSUME NEW j \in 1..(Len(s) + 1)
        PROVE  t[j] = IF j < p THEN s[j] ELSE IF j = p THEN id ELSE s[j - 1]
    <3>1. CASE j <= p
      BY <1>1, <2>1, <2>3, <2>4, <3>1
    <3>2. CASE j > p
      <4>1. /\ j - p \in 1..(Len(s) - p + 1) /\ j \in 1..(Len(c) + Len(b))
            /\ ~(j <= Len(c))
        BY <1>1, <2>1, <2>3, <3>2
      <4>2. t[j] = b[j - p]
        BY <2>3, <2>4, <4>1
      <4>3. (j - p) + p - 1 = j - 1
        BY <1>1
      <4>4. b[j - p] = s[j - 1]
        BY <2>1, <4>1, <4>3
      <4>5. QED
        BY <1>1, <3>2, <4>2, <4>4
    <3>3. QED
      BY <1>1, <3>1, <3>2
  <2>7. QED
    BY <2>2, <2>4, <2>5, <2>6
<1>6. ASSUME NEW k \in 0..Len(s)
      PROVE  Shifted(s, k, SubSeq(s, k + 1, Len(s)), Len(SubSeq(s, k + 1, Len(s))))
  BY <1>3 DEF Shifted
<1>7. ASSUME NEW p \in 1..Len(s)
      PROVE  Spliced(s, p, RemoveAt(s, p), Len(RemoveAt(s, p)))
  BY <1>4 DEF Spliced
<1>8. ASSUME NEW p \in 1..(Len(s) + 1)
      PROVE  Slotted(s, p, id, InsertAt(s, p, id), Len(InsertAt(s, p, id)))
  BY <1>5 DEF Slotted
<1>9. QED
  BY <1>1, <1>2, <1>3, <1>4, <1>5, <1>6, <1>7, <1>8

LEMMA ListedOnce ==
    ASSUME NEW f, NEW s, NEW n, Listed(f, s, n), Ascending(f, s, n)
    PROVE  \A j, l \in 1..n : s[j] = s[l] => j = l
<1> SUFFICES ASSUME NEW j \in 1..n, NEW l \in 1..n, s[j] = s[l], j < l PROVE FALSE
  BY DEF Listed
<1> QED BY DEF Listed, Ascending, Before

\* An ordered list without its k oldest members.
LEMMA DropOldest ==
    ASSUME NEW f, NEW s, NEW n, Listed(f, s, n), Ascending(f, s, n),
           NEW k \in 0..n, NEW m, m = n - k, NEW t, Shifted(s, k, t, m)
    PROVE  /\ Listed(f, t, m) /\ Ascending(f, t, m)
           /\ \A x : Among(x, t, m) <=> Among(x, s, n) /\ ~Among(x, s, k)
<1>1. n \in Nat /\ \A j \in 1..m : t[j] = s[j + k]
  BY DEF Listed, Shifted
<1>2. Listed(f, t, m)
  BY <1>1 DEF Listed
<1>3. Ascending(f, t, m)
  BY <1>1 DEF Ascending
<1>4. ASSUME NEW x, Among(x, t, m)
      PROVE  Among(x, s, n) /\ ~Among(x, s, k)
  <2>1. PICK j \in 1..m : x = t[j]
    BY <1>4 DEF Among
  <2>2. j + k \in 1..n /\ x = s[j + k] /\ j + k > k
    BY <1>1, <2>1
  <2>3. QED
    BY <1>1, <2>2, ListedOnce DEF Among
<1>5. ASSUME NEW x, Among(x, s, n), ~Among(x, s, k)
      PROVE  Among(x, t, m)
  <2>1. PICK j \in 1..n : x = s[j]
    BY <1>5 DEF Among
  <2>2. j \notin 1..k
    BY <1>5, <2>1 DEF Among
  <2>3. j - k \in 1..m /\ t[j - k] = x
    BY <1>1, <2>1, <2>2
  <2>4. QED
    BY <2>3 DEF Among
<1>6. QED
  BY <1>2, <1>3, <1>4, <1>5

\* An ordered list without the member at position p.
LEMMA DropOne ==
    ASSUME NEW f, NEW s, NEW n, Listed(f, s, n), Ascending(f, s, n),
           NEW p \in 1..n, NEW m, m = n - 1, NEW t, Spliced(s, p, t, m)
    PROVE  /\ Ascending(f, t, m)
           /\ \A x : Among(x, t, m) <=> Among(x, s, n) /\ x # s[p]
<1>1. n \in Nat /\ \A j \in 1..m : t[j] = IF j < p THEN s[j] ELSE s[j + 1]
  BY DEF Listed, Spliced
<1>2. Ascending(f, t, m)
  <2> SUFFICES ASSUME NEW j \in 1..m, NEW l \in 1..m, j < l
               PROVE  Before(f, t[j], t[l])
    BY DEF Ascending
  <2>1. CASE l < p
    BY <1>1, <2>1 DEF Ascending
  <2>2. CASE l >= p /\ j < p
    BY <1>1, <2>2 DEF Ascending
  <2>3. CASE j >= p
    BY <1>1, <2>3 DEF Ascending
  <2>4. QED
    BY <1>1, <2>1, <2>2, <2>3
<1>4. ASSUME NEW x, Among(x, t, m)
      PROVE  Among(x, s, n) /\ x # s[p]
  <2>1. PICK j \in 1..m : x = t[j]
    BY <1>4 DEF Among
  <2>2. PICK l \in 1..n : x = s[l] /\ l # p
    <3>1. CASE j < p
      BY <1>1, <2>1, <3>1
    <3>2. CASE j >= p
      <4>1. j + 1 \in 1..n /\ x = s[j + 1] /\ j + 1 # p
        BY <1>1, <2>1, <3>2
      <4>2. QED
        BY <4>1
    <3>3. QED
      BY <1>1, <3>1, <3>2
  <2>3. QED
    BY <1>1, <2>2, ListedOnce DEF Among
<1>5. ASSUME NEW x, Among(x, s, n), x # s[p]
      PROVE  Among(x, t, m)
  <2>1. PICK j \in 1..n : x = s[j]
    BY <1>5 DEF Among
  <2>2. CASE j < p
    BY <1>1, <2>1, <2>2 DEF Among
  <2>3. CASE j > p
    <3>1. j - 1 \in 1..m /\ t[j - 1] = x
      BY <1>1, <2>1, <2>3
    <3>2. QED
      BY <3>1 DEF Among
  <2>4. QED
    BY <1>1, <1>5, <2>1, <2>2, <2>3
<1>6. QED
  BY <1>2, <1>4, <1>5

\* p is the place of id in s: before the first that is younger.
Placed(f, s, n, id, p) ==
    /\ \A j \in 1..(p - 1) : ~Before(f, id, s[j])
    /\ p <= n => Before(f, id, s[p])

\* insertOrderLocked: a new id goes before the first younger one.
LEMMA PutInOrder ==
    ASSUME NEW f, NEW s, NEW n, Listed(f, s, n), Ascending(f, s, n),
           NEW id \in Nat, ~Among(id, s, n), f[id].at \in Nat,
           NEW p \in 1..(n + 1),
           Placed(f, s, n, id, p), NEW m, m = n + 1, NEW t, Slotted(s, p, id, t, m)
    PROVE  /\ Ascending(f, t, m)
           /\ \A x : Among(x, t, m) <=> Among(x, s, n) \/ x = id
<1>1. /\ n \in Nat
      /\ \A j \in 1..m : t[j] = IF j < p THEN s[j] ELSE IF j = p THEN id ELSE s[j - 1]
  BY DEF Listed, Slotted
<1>2. \A j \in 1..(p - 1) : Before(f, s[j], id)
  <2> SUFFICES ASSUME NEW j \in 1..(p - 1) PROVE Before(f, s[j], id)
    OBVIOUS
  <2>1. j \in 1..n /\ s[j] \in Nat /\ s[j] # id /\ f[s[j]].at \in Nat
    BY <1>1 DEF Among, Listed
  <2>2. ~Before(f, id, s[j])
    BY DEF Placed
  <2>3. QED
    BY <2>1, <2>2 DEF Before
<1>3. \A j \in p..n : Before(f, id, s[j])
  <2> SUFFICES ASSUME NEW j \in p..n PROVE Before(f, id, s[j])
    OBVIOUS
  <2>1. /\ p \in 1..n /\ j \in 1..n /\ s[j] \in Nat /\ s[p] \in Nat
        /\ f[s[j]].at \in Nat /\ f[s[p]].at \in Nat
    BY <1>1 DEF Listed
  <2>2. Before(f, id, s[p])
    BY <2>1 DEF Placed
  <2>3. j = p \/ Before(f, s[p], s[j])
    BY <2>1 DEF Ascending
  <2>4. QED
    BY <2>1, <2>2, <2>3 DEF Before
<1>4. Ascending(f, t, m)
  <2> SUFFICES ASSUME NEW j \in 1..m, NEW l \in 1..m, j < l
               PROVE  Before(f, t[j], t[l])
    BY DEF Ascending
  <2>1. CASE l < p
    BY <1>1, <2>1 DEF Ascending
  <2>2. CASE l = p
    BY <1>1, <1>2, <2>2
  <2>3. CASE l > p /\ j = p
    BY <1>1, <1>3, <2>3
  <2>4. CASE l > p /\ j < p
    BY <1>1, <2>4 DEF Ascending
  <2>5. CASE j > p
    BY <1>1, <2>5 DEF Ascending
  <2>6. QED
    BY <1>1, <2>1, <2>2, <2>3, <2>4, <2>5
<1>5. ASSUME NEW x, Among(x, t, m)
      PROVE  Among(x, s, n) \/ x = id
  <2>1. PICK j \in 1..m : x = t[j]
    BY <1>5 DEF Among
  <2>2. CASE j < p
    BY <1>1, <2>1, <2>2 DEF Among
  <2>3. CASE j = p
    BY <1>1, <2>1, <2>3
  <2>4. CASE j > p
    <3>1. j - 1 \in 1..n /\ x = s[j - 1]
      BY <1>1, <2>1, <2>4
    <3>2. QED
      BY <3>1 DEF Among
  <2>5. QED
    BY <1>1, <2>2, <2>3, <2>4
<1>6. Among(id, t, m)
  <2>1. p \in 1..m /\ t[p] = id
    BY <1>1
  <2>2. QED
    BY <2>1 DEF Among
<1>7. ASSUME NEW x, Among(x, s, n) PROVE Among(x, t, m)
  <2>1. PICK j \in 1..n : x = s[j]
    BY <1>7 DEF Among
  <2>2. CASE j < p
    BY <1>1, <2>1, <2>2 DEF Among
  <2>3. CASE j >= p
    <3>1. j + 1 \in 1..m /\ t[j + 1] = x
      BY <1>1, <2>1, <2>3
    <3>2. QED
      BY <3>1 DEF Among
  <2>4. QED
    BY <1>1, <2>2, <2>3
<1>8. QED
  BY <1>4, <1>5, <1>6, <1>7

\* The bytes of the members of S under the records f.
BytesIn(f, S) == UNION {{id} \X (1..f[id].size) : id \in S}

LEMMA BytesPairs ==
    ASSUME NEW f, NEW S, NEW x
    PROVE  x \in BytesIn(f, S) <=> \E id \in S : x \in {id} \X (1..f[id].size)
  BY DEF BytesIn

\* The account without S, a set of members.
LEMMA BytesRemoved ==
    ASSUME NEW f, NEW D, NEW S \in SUBSET D, IsFiniteSet(BytesIn(f, D))
    PROVE  /\ IsFiniteSet(BytesIn(f, S)) /\ IsFiniteSet(BytesIn(f, D \ S))
           /\ Cardinality(BytesIn(f, S)) \in Nat
           /\ Cardinality(BytesIn(f, S)) <= Cardinality(BytesIn(f, D))
           /\ Cardinality(BytesIn(f, D \ S)) =
                Cardinality(BytesIn(f, D)) - Cardinality(BytesIn(f, S))
<1>1. BytesIn(f, S) \subseteq BytesIn(f, D)
  BY DEF BytesIn
<1>2. BytesIn(f, D \ S) = BytesIn(f, D) \ BytesIn(f, S)
  <2>1. ASSUME NEW x \in BytesIn(f, D \ S)
        PROVE  x \in BytesIn(f, D) \ BytesIn(f, S)
    <3>1. PICK id \in D \ S : x \in {id} \X (1..f[id].size)
      BY DEF BytesIn
    <3>2. \A jd \in S : x \notin {jd} \X (1..f[jd].size)
      BY <3>1
    <3>3. QED
      BY <3>1, <3>2, BytesPairs
  <2>2. ASSUME NEW x \in BytesIn(f, D) \ BytesIn(f, S)
        PROVE  x \in BytesIn(f, D \ S)
    BY BytesPairs
  <2>3. QED
    BY <2>1, <2>2
<1>3. /\ IsFiniteSet(BytesIn(f, S)) /\ Cardinality(BytesIn(f, S)) <= Cardinality(BytesIn(f, D))
  BY <1>1, FS_Subset
<1>4. BytesIn(f, D) \cap BytesIn(f, S) = BytesIn(f, S)
  BY <1>1
<1>5. /\ IsFiniteSet(BytesIn(f, D) \ BytesIn(f, S))
      /\ Cardinality(BytesIn(f, D) \ BytesIn(f, S)) =
           Cardinality(BytesIn(f, D)) - Cardinality(BytesIn(f, D) \cap BytesIn(f, S))
  BY FS_Difference
<1>6. QED
  BY <1>2, <1>3, <1>4, <1>5, FS_CardinalityType

\* Records that agree on the sizes agree on the bytes.
LEMMA BytesSame ==
    ASSUME NEW f, NEW g, NEW S, \A id \in S : f[id].size = g[id].size
    PROVE  BytesIn(f, S) = BytesIn(g, S)
  BY DEF BytesIn

LEMMA BytesOfOne ==
    ASSUME NEW f, NEW x, f[x].size \in Nat
    PROVE  IsFiniteSet(BytesIn(f, {x})) /\ Cardinality(BytesIn(f, {x})) = f[x].size
<1> DEFINE n == f[x].size
           T == 1..n
<1>1. BytesIn(f, {x}) = {x} \X T
  BY DEF BytesIn
<1>2. IsFiniteSet(T) /\ Cardinality(T) = n
  <2>1. n \in Nat /\ 1 \in Int /\ n \in Int
    OBVIOUS
  <2> HIDE DEF n
  <2>2. IsFiniteSet(1..n) /\ Cardinality(1..n) = IF 1 > n THEN 0 ELSE n - 1 + 1
    BY <2>1, FS_Interval
  <2>3. (IF 1 > n THEN 0 ELSE n - 1 + 1) = n
    BY <2>1
  <2>4. QED
    BY <2>2, <2>3
<1>3. IsFiniteSet({x}) /\ Cardinality({x}) = 1
  BY FS_Singleton
<1> HIDE DEF T
<1>4. IsFiniteSet({x} \X T) /\ Cardinality({x} \X T) = 1 * n
  BY <1>2, <1>3, FS_Product
<1>5. QED
  <2>1. 1 * n = n
    OBVIOUS
  <2>2. QED
    BY <1>1, <1>4, <2>1

\* A new message adds its size.
LEMMA BytesAdded ==
    ASSUME NEW f, NEW S, NEW x, x \notin S, f[x].size \in Nat, IsFiniteSet(BytesIn(f, S))
    PROVE  /\ IsFiniteSet(BytesIn(f, S \cup {x}))
           /\ Cardinality(BytesIn(f, S \cup {x})) = Cardinality(BytesIn(f, S)) + f[x].size
<1> DEFINE D == S \cup {x}
<1>1. BytesIn(f, D) = BytesIn(f, S) \cup BytesIn(f, {x})
  BY DEF BytesIn
<1>2. IsFiniteSet(BytesIn(f, {x})) /\ Cardinality(BytesIn(f, {x})) = f[x].size
  BY BytesOfOne
<1>3. IsFiniteSet(BytesIn(f, D))
  BY <1>1, <1>2, FS_Union
<1>4. S \in SUBSET D /\ D \ S = {x}
  OBVIOUS
<1> HIDE DEF D
<1>5. Cardinality(BytesIn(f, {x})) = Cardinality(BytesIn(f, D)) - Cardinality(BytesIn(f, S))
  BY <1>3, <1>4, BytesRemoved
<1>6. Cardinality(BytesIn(f, D)) \in Nat /\ Cardinality(BytesIn(f, S)) \in Nat
  BY <1>3, FS_CardinalityType
<1>7. QED
  BY <1>2, <1>3, <1>5, <1>6 DEF D

IndexInv == IndexExact /\ IsFiniteSet(ResidentBytes(DOMAIN byID))

LEMMA AscendingSame ==
    ASSUME NEW f, NEW g, NEW s, NEW n, Ascending(f, s, n),
           \A j \in 1..n : g[s[j]].at = f[s[j]].at
    PROVE  Ascending(g, s, n)
  BY DEF Ascending, Before

\* What the index says of the order, as the lemmas above have it, and back.
LEMMA OrderKnown ==
    ASSUME TypeOK, OrderIsIndex
    PROVE  /\ order \in Seq(Nat) /\ Len(order) \in Nat
           /\ Listed(byID, order, Len(order)) /\ Ascending(byID, order, Len(order))
           /\ \A x : x \in DOMAIN byID <=> Among(x, order, Len(order))
<1>1. order \in Seq(Nat)
  BY DEF TypeOK
<1>2. /\ Len(order) \in Nat /\ \A j \in 1..Len(order) : order[j] \in Nat
      /\ \A x : x \in ToSet(order) <=> Among(x, order, Len(order))
  BY <1>1, SeqShapes
<1>3. \A x : x \in DOMAIN byID <=> Among(x, order, Len(order))
  BY <1>2 DEF OrderIsIndex
<1>4. \A j \in 1..Len(order) : order[j] \in DOMAIN byID
  BY <1>3 DEF Among
<1>5. \A j \in 1..Len(order) : byID[order[j]].at \in Nat
  BY <1>4 DEF TypeOK, Record
<1>6. Ascending(byID, order, Len(order))
  <2> SUFFICES ASSUME NEW j \in 1..Len(order), NEW l \in 1..Len(order), j < l
               PROVE  Before(byID, order[j], order[l])
    BY DEF Ascending
  <2>1. l \in (j + 1)..Len(order)
    BY <1>2
  <2>2. QED
    BY <2>1 DEF OrderIsIndex, Before
<1>7. QED
  BY <1>1, <1>2, <1>3, <1>5, <1>6 DEF Listed

LEMMA OrderShown ==
    ASSUME NEW s \in Seq(Nat), order' = s, Ascending(byID', s, Len(s)),
           \A x : x \in DOMAIN byID' <=> Among(x, s, Len(s))
    PROVE  OrderIsIndex'
<1>1. Len(s) \in Nat /\ ToSet(s) = DOMAIN byID'
  BY SeqShapes
<1>2. ASSUME NEW j \in 1..Len(s), NEW l \in (j + 1)..Len(s)
      PROVE  Before(byID', s[j], s[l])
  <2>1. l \in 1..Len(s) /\ j < l
    BY <1>1
  <2>2. QED
    BY <2>1 DEF Ascending
<1>3. QED
  BY <1>1, <1>2 DEF OrderIsIndex, Before

\* The account without S, as removeLocked keeps it.
LEMMA AccountWithout ==
    ASSUME TypeOK, IndexInv, NEW S \in SUBSET DOMAIN byID
    PROVE  /\ IsFiniteSet(BytesIn(byID, DOMAIN byID \ S))
           /\ BytesWithout(S) = Cardinality(BytesIn(byID, DOMAIN byID \ S))
           /\ BytesWithout(S) \in Nat
           /\ Resident(S) \in Nat
           /\ bytes = BytesWithout(S) + Resident(S)
<1>1. bytes = Cardinality(BytesIn(byID, DOMAIN byID)) /\ IsFiniteSet(BytesIn(byID, DOMAIN byID))
  BY DEF IndexInv, IndexExact, BytesExact, Resident, ResidentBytes, BytesIn
<1>2. Resident(S) = Cardinality(BytesIn(byID, S))
  BY DEF Resident, ResidentBytes, BytesIn
<1>3. /\ Cardinality(BytesIn(byID, DOMAIN byID)) \in Nat
      /\ IsFiniteSet(BytesIn(byID, DOMAIN byID \ S))
      /\ Cardinality(BytesIn(byID, S)) \in Nat
      /\ Cardinality(BytesIn(byID, S)) <= Cardinality(BytesIn(byID, DOMAIN byID))
      /\ Cardinality(BytesIn(byID, DOMAIN byID \ S)) =
           Cardinality(BytesIn(byID, DOMAIN byID)) - Cardinality(BytesIn(byID, S))
  BY <1>1, BytesRemoved, FS_CardinalityType
<1>4. BytesWithout(S) = Cardinality(BytesIn(byID, DOMAIN byID)) - Cardinality(BytesIn(byID, S))
  BY <1>1, <1>2, <1>3 DEF BytesWithout, Floor0
<1>5. QED
  BY <1>1, <1>2, <1>3, <1>4

\* removeLocked of a set of members, with the order of the rest.
LEMMA RemoveIndex ==
    ASSUME TypeOK, IndexInv, NEW S \in SUBSET DOMAIN byID, NEW n, NEW left,
           NEW rest \in Seq(Nat), RemoveMembers(S, n, rest, left),
           Ascending(byID, rest, Len(rest)),
           \A x : Among(x, rest, Len(rest)) <=> x \in DOMAIN byID \ S
    PROVE  IndexInv'
<1> DEFINE R == DOMAIN byID \ S
<1>1. byID' = [id \in R |-> byID[id]] /\ order' = rest /\ bytes' = BytesWithout(S)
  BY DEF RemoveMembers
<1>2. DOMAIN byID' = R /\ \A id \in R : byID'[id] = byID[id]
  BY <1>1
<1>3. OrderIsIndex'
  <2>1. \A j \in 1..Len(rest) : rest[j] \in R
    BY DEF Among
  <2>2. Ascending(byID', rest, Len(rest))
    <3> SUFFICES ASSUME NEW g, g = byID' PROVE Ascending(g, rest, Len(rest))
      OBVIOUS
    <3> QED BY <1>2, <2>1, AscendingSame
  <2>3. QED
    BY <1>1, <1>2, <2>2, OrderShown
<1>4. BytesIn(byID', DOMAIN byID') = BytesIn(byID, R)
  <2>1. ASSUME NEW g, g = byID' PROVE BytesIn(g, R) = BytesIn(byID, R)
    <3> HIDE DEF R
    <3> QED BY <1>2, <2>1, BytesSame
  <2>2. QED
    <3> HIDE DEF R
    <3> QED BY <1>2, <2>1
<1>5. IsFiniteSet(BytesIn(byID, R)) /\ bytes' = Cardinality(BytesIn(byID, R))
  BY <1>1, AccountWithout
<1>6. BytesExact' /\ IsFiniteSet(ResidentBytes(DOMAIN byID))'
  <2>1. ResidentBytes(DOMAIN byID)' = BytesIn(byID', DOMAIN byID')
    BY DEF ResidentBytes, BytesIn
  <2>2. QED
    BY <1>4, <1>5, <2>1 DEF BytesExact, Resident
<1>7. QED
  BY <1>3, <1>6 DEF IndexInv, IndexExact

\* The k oldest are members, and dropping them keeps the order.
LEMMA OldestGone ==
    ASSUME TypeOK, OrderIsIndex, NEW k \in 0..Len(order)
    PROVE  /\ Oldest(k) \in SUBSET DOMAIN byID
           /\ YoungerThan(k) \in Seq(Nat)
           /\ Len(YoungerThan(k)) = Len(order) - k
           /\ Listed(byID, YoungerThan(k), Len(YoungerThan(k)))
           /\ Ascending(byID, YoungerThan(k), Len(YoungerThan(k)))
           /\ \A x : Among(x, YoungerThan(k), Len(YoungerThan(k))) <=> x \in Survivors(k)
<1>1. /\ order \in Seq(Nat) /\ Len(order) \in Nat
      /\ Listed(byID, order, Len(order)) /\ Ascending(byID, order, Len(order))
      /\ \A x : x \in DOMAIN byID <=> Among(x, order, Len(order))
  BY OrderKnown
<1>2. \A x : x \in Oldest(k) <=> Among(x, order, k)
  BY DEF Oldest, Among
<1>3. \A x : Among(x, order, k) => Among(x, order, Len(order))
  BY <1>1 DEF Among
<1> SUFFICES ASSUME NEW t, t = YoungerThan(k)
             PROVE  /\ t \in Seq(Nat) /\ Len(t) = Len(order) - k
                    /\ Listed(byID, t, Len(t))
                    /\ Ascending(byID, t, Len(t))
                    /\ \A x : Among(x, t, Len(t)) <=> x \in Survivors(k)
  BY <1>1, <1>2, <1>3
<1>4. /\ t \in Seq(Nat) /\ Len(t) = Len(order) - k /\ Shifted(order, k, t, Len(t))
  BY <1>1, SeqShapes DEF YoungerThan
<1>5. /\ Listed(byID, t, Len(t)) /\ Ascending(byID, t, Len(t))
      /\ \A x : Among(x, t, Len(t)) <=> Among(x, order, Len(order)) /\ ~Among(x, order, k)
  <2> SUFFICES ASSUME NEW f, f = byID, NEW s, s = order, NEW n, n = Len(order),
                      NEW m, m = Len(t)
               PROVE  /\ Listed(f, t, m) /\ Ascending(f, t, m)
                      /\ \A x : Among(x, t, m) <=> Among(x, s, n) /\ ~Among(x, s, k)
    OBVIOUS
  <2>1. /\ Listed(f, s, n) /\ Ascending(f, s, n) /\ k \in 0..n
        /\ m = n - k /\ Shifted(s, k, t, m)
    BY <1>1, <1>4
  <2>2. Listed(f, t, m)
    BY <2>1, DropOldest
  <2>3. Ascending(f, t, m)
    BY <2>1, DropOldest
  <2>4. ASSUME NEW x
        PROVE  Among(x, t, m) <=> Among(x, s, n) /\ ~Among(x, s, k)
    BY <2>1, DropOldest
  <2>5. QED
    BY <2>2, <2>3, <2>4
<1>6. QED
  BY <1>1, <1>2, <1>4, <1>5 DEF Survivors

\* Eviction of the k oldest in an apply of new caps.
LEMMA InstallCapsIndex ==
    ASSUME TypeOK, IndexInv, NEW o, NEW mayEvict, NEW k \in 0..Len(order), NEW left,
           InstallCaps(o, mayEvict, k, left)
    PROVE  IndexInv'
<1>1. RemoveMembers(Oldest(k), k, YoungerThan(k), left)
  BY DEF InstallCaps
<1>2. OrderIsIndex
  BY DEF IndexInv, IndexExact
<1>3. Survivors(k) = DOMAIN byID \ Oldest(k)
  BY DEF Survivors
<1>4. QED
  BY <1>1, <1>2, <1>3, OldestGone, RemoveIndex

LEMMA DeleteIndex ==
    ASSUME TypeOK, IndexInv, NEW p \in 1..Len(order), NEW left, Delete(p, left)
    PROVE  IndexInv'
<1>1. RemoveMembers({order[p]}, 1, RemoveAt(order, p), left)
  BY DEF Delete
<1>2. /\ order \in Seq(Nat) /\ Len(order) \in Nat
      /\ Listed(byID, order, Len(order)) /\ Ascending(byID, order, Len(order))
      /\ \A x : x \in DOMAIN byID <=> Among(x, order, Len(order))
  BY OrderKnown DEF IndexInv, IndexExact
<1>3. {order[p]} \in SUBSET DOMAIN byID
  BY <1>2 DEF Among
<1> SUFFICES ASSUME NEW t, t = RemoveAt(order, p) PROVE IndexInv'
  OBVIOUS
<1>4. t \in Seq(Nat) /\ Len(t) = Len(order) - 1 /\ Spliced(order, p, t, Len(t))
  BY <1>2, SeqShapes
<1>5. /\ Ascending(byID, t, Len(t))
      /\ \A x : Among(x, t, Len(t)) <=> Among(x, order, Len(order)) /\ x # order[p]
  <2> SUFFICES ASSUME NEW f, f = byID, NEW s, s = order, NEW n, n = Len(order),
                      NEW m, m = Len(t)
               PROVE  /\ Ascending(f, t, m)
                      /\ \A x : Among(x, t, m) <=> Among(x, s, n) /\ x # s[p]
    OBVIOUS
  <2>1. /\ Listed(f, s, n) /\ Ascending(f, s, n) /\ p \in 1..n
        /\ m = n - 1 /\ Spliced(s, p, t, m)
    BY <1>2, <1>4
  <2>2. Ascending(f, t, m)
    BY <2>1, DropOne
  <2>3. ASSUME NEW x
        PROVE  Among(x, t, m) <=> Among(x, s, n) /\ x # s[p]
    BY <2>1, DropOne
  <2>4. QED
    BY <2>2, <2>3
<1>6. \A x : Among(x, t, Len(t)) <=> x \in DOMAIN byID \ {order[p]}
  BY <1>2, <1>5
<1>7. QED
  BY <1>1, <1>3, <1>4, <1>5, <1>6, RemoveIndex

LEMMA EmptyList ==
    /\ <<>> \in Seq(Nat) /\ Len(<<>>) = 0
    /\ \A f : Ascending(f, <<>>, Len(<<>>))
    /\ \A x : ~Among(x, <<>>, Len(<<>>))
  BY DEF Ascending, Among

LEMMA DeleteAllIndex ==
    ASSUME TypeOK, IndexInv, NEW left, DeleteAll(left)
    PROVE  IndexInv'
<1>1. RemoveMembers(DOMAIN byID, Cardinality(DOMAIN byID), <<>>, left)
  BY DEF DeleteAll
<1>2. \A x : Among(x, <<>>, Len(<<>>)) <=> x \in DOMAIN byID \ DOMAIN byID
  BY EmptyList
<1>3. QED
  BY <1>1, <1>2, EmptyList, RemoveIndex

\* A wipe, and the start of a process.
LEMMA ClearedIndex ==
    ASSUME byID' = NoRecords, order' = <<>>, bytes' = 0
    PROVE  IndexInv'
<1>1. DOMAIN byID' = {}
  BY NoRecordsFacts
<1>2. OrderIsIndex'
  BY <1>1, EmptyList, OrderShown
<1>3. ResidentBytes(DOMAIN byID)' = {}
  BY <1>1 DEF ResidentBytes
<1>4. QED
  BY <1>2, <1>3, FS_EmptySet DEF IndexInv, IndexExact, BytesExact, Resident

\* Read bits are no part of the index.
LEMMA MarkIndex ==
    ASSUME TypeOK, IndexInv, UNCHANGED <<bytes, order>>, DOMAIN byID' = DOMAIN byID,
           \A id \in DOMAIN byID : byID'[id].at = byID[id].at /\ byID'[id].size = byID[id].size
    PROVE  IndexInv'
<1>1. /\ order \in Seq(Nat) /\ Ascending(byID, order, Len(order))
      /\ \A x : x \in DOMAIN byID <=> Among(x, order, Len(order))
  BY OrderKnown DEF IndexInv, IndexExact
<1>2. \A j \in 1..Len(order) : order[j] \in DOMAIN byID
  BY <1>1 DEF Among
<1>3. Ascending(byID', order, Len(order))
  <2> SUFFICES ASSUME NEW g, g = byID' PROVE Ascending(g, order, Len(order))
    OBVIOUS
  <2> QED BY <1>1, <1>2, AscendingSame
<1>4. OrderIsIndex'
  BY <1>1, <1>3, OrderShown
<1>5. ResidentBytes(DOMAIN byID)' = ResidentBytes(DOMAIN byID)
  <2>1. /\ ResidentBytes(DOMAIN byID)' = BytesIn(byID', DOMAIN byID)
        /\ ResidentBytes(DOMAIN byID) = BytesIn(byID, DOMAIN byID)
    BY DEF ResidentBytes, BytesIn
  <2> SUFFICES ASSUME NEW g, g = byID' PROVE BytesIn(g, DOMAIN byID) = BytesIn(byID, DOMAIN byID)
    BY <2>1
  <2> QED BY BytesSame
<1>6. QED
  BY <1>4, <1>5 DEF IndexInv, IndexExact, BytesExact, Resident

LEMMA MarkKeeps ==
    ASSUME TypeOK, NEW S,
           byID' = [id \in DOMAIN byID |->
                      IF id \in S THEN [byID[id] EXCEPT !.read = TRUE] ELSE byID[id]]
    PROVE  \A id \in DOMAIN byID : byID'[id].at = byID[id].at /\ byID'[id].size = byID[id].size
<1> SUFFICES ASSUME NEW id \in DOMAIN byID
             PROVE  byID'[id].at = byID[id].at /\ byID'[id].size = byID[id].size
  OBVIOUS
<1>1. byID[id] \in Record
  BY DEF TypeOK
<1>2. /\ [byID[id] EXCEPT !.read = TRUE].at = byID[id].at
      /\ [byID[id] EXCEPT !.read = TRUE].size = byID[id].size
  BY <1>1 DEF Record
<1>3. QED
  BY <1>2

\* The locked section of Insert: evictions, the new place, the new bytes.
LEMMA InsertCommitIndex ==
    ASSUME StoreInv, IndexInv, NEW i \in Inserters, NEW k \in 0..Len(order),
           NEW left, NEW pos, InsertCommit(i, k, left, pos)
    PROVE  IndexInv'
<1> DEFINE c == ins[i]
           R == Survivors(k)
           s == YoungerThan(k)
           t == InsertAt(s, pos, c.id)
<1>0. /\ TypeOK /\ OrderIsIndex /\ Active(i)
      /\ c.id \in Nat /\ c.at \in Nat /\ c.size \in Nat /\ c.id \notin DOMAIN byID
  BY InsType DEF StoreInv, IndexInv, IndexExact, InsertCommit, ReadyToCommit, Active, IdsDistinct
<1>1. /\ Oldest(k) \in SUBSET DOMAIN byID
      /\ s \in Seq(Nat) /\ Listed(byID, s, Len(s)) /\ Ascending(byID, s, Len(s))
      /\ \A x : Among(x, s, Len(s)) <=> x \in R
  BY <1>0, OldestGone
<1>2. /\ DOMAIN byID' = R \cup {c.id}
      /\ \A id \in R : byID'[id] = byID[id]
      /\ byID'[c.id].at = c.at /\ byID'[c.id].size = c.size
      /\ c.id \notin R
  <2>1. R \subseteq DOMAIN byID
    BY DEF Survivors
  <2>2. QED
    BY <1>0, <2>1 DEF InsertCommit
<1>3. /\ left = BytesWithout(Oldest(k)) /\ bytes' = left + c.size /\ order' = t
      /\ IsPosition(s, pos, c.id, c.at)
  BY DEF InsertCommit
<1>4. OrderIsIndex'
  <2> SUFFICES ASSUME NEW g, g = byID', NEW id, id = c.id, NEW q, q = s, NEW n, n = Len(s)
               PROVE  OrderIsIndex'
    OBVIOUS
  <2>1. \A j \in 1..n : q[j] \in R /\ g[q[j]] = byID[q[j]]
    BY <1>1, <1>2 DEF Among
  <2>2. Listed(g, q, n)
    BY <1>1, <2>1 DEF Listed
  <2>3. Ascending(g, q, n)
    BY <1>1, <2>1, AscendingSame
  <2>4. id \in Nat /\ g[id].at \in Nat /\ g[id].at = c.at /\ ~Among(id, q, n) /\ n \in Nat
    BY <1>0, <1>1, <1>2 DEF Listed
  <2>5. pos \in 1..(n + 1)
    BY <1>3 DEF IsPosition
  <2>6. \A j \in 1..(pos - 1) : ~Before(g, id, q[j])
    <3> SUFFICES ASSUME NEW j \in 1..(pos - 1) PROVE ~Before(g, id, q[j])
      OBVIOUS
    <3>1. j \in 1..n
      BY <2>4, <2>5
    <3>2. ~(c.at < byID[q[j]].at \/ (c.at = byID[q[j]].at /\ c.id < q[j]))
      BY <1>3 DEF IsPosition
    <3>3. QED
      BY <2>1, <2>4, <3>1, <3>2 DEF Before
  <2>7. pos <= n => Before(g, id, q[pos])
    <3> SUFFICES ASSUME pos <= n PROVE Before(g, id, q[pos])
      OBVIOUS
    <3>1. pos \in 1..n
      BY <2>4, <2>5
    <3>2. c.at < byID[q[pos]].at \/ (c.at = byID[q[pos]].at /\ c.id < q[pos])
      BY <1>3 DEF IsPosition
    <3>3. QED
      BY <2>1, <2>4, <3>1, <3>2 DEF Before
  <2>8. t \in Seq(Nat) /\ Len(t) = Len(s) + 1 /\ Slotted(s, pos, c.id, t, Len(t))
    <3> HIDE DEF s
    <3> QED BY <1>0, <1>1, <2>5, SeqShapes
  <2> HIDE DEF s, t, R, c
  <2> SUFFICES ASSUME NEW u, u = t, NEW m, m = Len(t) PROVE OrderIsIndex'
    OBVIOUS
  <2>p. Placed(g, q, n, id, pos)
    BY <2>6, <2>7 DEF Placed
  <2>9. u \in Seq(Nat) /\ m = n + 1 /\ Slotted(q, pos, id, u, m) /\ m = Len(u)
    BY <2>8
  <2>10. Ascending(g, u, m)
    BY <2>2, <2>3, <2>4, <2>5, <2>9, <2>p, PutInOrder
  <2>11. ASSUME NEW x
         PROVE  Among(x, u, m) <=> Among(x, q, n) \/ x = id
    BY <2>2, <2>3, <2>4, <2>5, <2>9, <2>p, PutInOrder
  <2>12. \A x : x \in DOMAIN byID' <=> Among(x, u, m)
    BY <1>1, <1>2, <2>11
  <2>13. QED
    BY <1>3, <2>9, <2>10, <2>12, OrderShown
<1>5. BytesExact' /\ IsFiniteSet(ResidentBytes(DOMAIN byID))'
  <2> HIDE DEF s, t, c
  <2>1. ResidentBytes(DOMAIN byID)' = BytesIn(byID', R \cup {c.id})
    BY <1>2 DEF ResidentBytes, BytesIn
  <2>2. /\ IsFiniteSet(BytesIn(byID, R)) /\ left = Cardinality(BytesIn(byID, R))
    BY <1>0, <1>1, <1>3, AccountWithout DEF Survivors
  <2> HIDE DEF R
  <2> SUFFICES ASSUME NEW g, g = byID', NEW id, id = c.id
               PROVE  /\ IsFiniteSet(BytesIn(g, R \cup {id}))
                      /\ bytes' = Cardinality(BytesIn(g, R \cup {id}))
    BY <2>1 DEF BytesExact, Resident
  <2>3. BytesIn(g, R) = BytesIn(byID, R)
    BY <1>2, BytesSame
  <2>4. id \notin R /\ g[id].size \in Nat /\ g[id].size = c.size
    BY <1>0, <1>2
  <2>5. /\ IsFiniteSet(BytesIn(g, R \cup {id}))
        /\ Cardinality(BytesIn(g, R \cup {id})) = Cardinality(BytesIn(g, R)) + g[id].size
    BY <2>2, <2>3, <2>4, BytesAdded
  <2>6. QED
    BY <1>3, <2>2, <2>3, <2>4, <2>5
<1>6. QED
  BY <1>4, <1>5 DEF IndexInv, IndexExact

\* Every step keeps the index exact.
LEMMA IndexStep == StoreInv /\ IndexInv /\ [Next]_vars => IndexInv'
<1> SUFFICES ASSUME StoreInv, IndexInv, [Next]_vars PROVE IndexInv'
  OBVIOUS
<1>0. TypeOK
  BY DEF StoreInv
<1>1. CASE UNCHANGED <<bytes, byID, order>>
  BY <1>1 DEF IndexInv, IndexExact, BytesExact, OrderIsIndex, Resident, ResidentBytes
<1>2. ASSUME NEW i \in Inserters, InsertStep(i) PROVE IndexInv'
  <2>1. CASE \E k \in 0..Len(order), left \in 0..bytes, pos \in 1..(Len(order) + 1) :
               InsertCommit(i, k, left, pos)
    BY <2>1, InsertCommitIndex, Zenon
  <2>2. \/ UNCHANGED <<bytes, byID, order>>
        \/ \E k \in 0..Len(order), left \in 0..bytes, pos \in 1..(Len(order) + 1) :
             InsertCommit(i, k, left, pos)
    BY <1>2 DEF InsertStep, CaptureEpoch, InsertPrepare, SpillBegin, SpillEnd, InsertReject,
                InsertRenameFails, InsertAbort, index
  <2>3. QED
    BY <1>1, <2>1, <2>2
<1>3. ASSUME NEW r \in Readers, ReadStep(r) PROVE IndexInv'
  <2>1. CASE GetFinish(r)
    <3>1. CASE UNCHANGED byID
      BY <1>1, <2>1, <3>1 DEF GetFinish
    <3>2. CASE byID' = [id \in DOMAIN byID |->
                          IF id \in rd[r].page /\ rd[r].mark
                          THEN [byID[id] EXCEPT !.read = TRUE] ELSE byID[id]]
      <4> DEFINE S == {id \in rd[r].page : rd[r].mark}
      <4>1. byID' = [id \in DOMAIN byID |->
                       IF id \in S THEN [byID[id] EXCEPT !.read = TRUE] ELSE byID[id]]
        BY <3>2
      <4> HIDE DEF S
      <4>2. DOMAIN byID' = DOMAIN byID
        BY <4>1
      <4>3. QED
        BY <1>0, <2>1, <4>1, <4>2, MarkKeeps, MarkIndex DEF GetFinish
    <3>3. QED
      BY <2>1, <3>1, <3>2 DEF GetFinish
  <2>2. GetFinish(r) \/ UNCHANGED <<bytes, byID, order>>
    BY <1>3 DEF ReadStep, GetBegin, ListBegin, Load, GetMissing, index
  <2>3. QED
    BY <1>1, <2>1, <2>2
<1>4. CASE AdminStep
  <2>1. CASE \E j \in 1..Len(order), left \in 0..bytes : Delete(j, left)
    BY <1>0, <2>1, DeleteIndex
  <2>2. CASE \E left \in 0..bytes : DeleteAll(left)
    BY <1>0, <2>2, DeleteAllIndex
  <2>3. CASE \E S : MarkRead(S)
    <3> PICK S : MarkRead(S)
      BY <2>3
    <3>1. /\ byID' = [id \in DOMAIN byID |->
                        IF id \in S THEN [byID[id] EXCEPT !.read = TRUE] ELSE byID[id]]
          /\ UNCHANGED <<bytes, order>>
      BY DEF MarkRead
    <3>2. DOMAIN byID' = DOMAIN byID
      BY <3>1
    <3>3. QED
      BY <1>0, <3>1, <3>2, MarkKeeps, MarkIndex
  <2>4. CASE \E o, mayEvict, left : \E k \in 0..Len(order) : InstallCaps(o, mayEvict, k, left)
    BY <1>0, <2>4, InstallCapsIndex
  <2>5. CASE \E o : ResetTo(o) \/ Restart(o)
    BY <2>5, ClearedIndex DEF ResetTo, Restart, ClearIndex
  <2>6. QED
    BY <1>4, <2>1, <2>2, <2>3, <2>4, <2>5 DEF AdminStep, ReplaceCaps, Configure, Wipe
<1>5. QED
  BY <1>1, <1>2, <1>3, <1>4 DEF Next, vars, index

LEMMA IndexInit == Init => IndexInv
<1> SUFFICES ASSUME Init PROVE IndexInv
  OBVIOUS
<1>1. byID = NoRecords /\ order = <<>> /\ bytes = 0 /\ DOMAIN byID = {}
  BY NoRecordsFacts DEF Init
<1>2. OrderIsIndex
  BY <1>1 DEF OrderIsIndex, ToSet
<1>3. ResidentBytes(DOMAIN byID) = {}
  BY <1>1 DEF ResidentBytes
<1>4. QED
  BY <1>1, <1>2, <1>3, FS_EmptySet DEF IndexInv, IndexExact, BytesExact, Resident

\* The map, the order and the byte account of memory.go agree in every
\* reachable state: bytes is the sum of the resident sizes and order lists
\* every member once, by receive time and then id.
THEOREM IndexAlwaysExact == Spec => []IndexExact
<1>1. Spec => []StoreInv
  BY StoreInvariant
<1>2. Init => IndexInv
  BY IndexInit
<1>3. StoreInv /\ IndexInv /\ [Next]_vars => IndexInv'
  BY IndexStep
<1>4. Spec => []IndexInv
  BY <1>1, <1>2, <1>3, PTL DEF Spec
<1>5. IndexInv => IndexExact
  BY DEF IndexInv
<1>6. QED
  BY <1>4, <1>5, PTL

\* The youngest of the k oldest, and what the caps saw without it.
LEMMA LastEvicted ==
    ASSUME TypeOK, CapsHeld, IndexInv, NEW k \in 1..Len(order)
    PROVE  /\ Oldest(k) = DOMAIN byID \ Survivors(k)
           /\ \A a \in Oldest(k), b \in Survivors(k) : Before(byID, a, b)
           /\ order[k] \in Oldest(k)
           /\ \A a \in Oldest(k) \ {order[k]} : Before(byID, a, order[k])
           /\ Survivors(k - 1) = Survivors(k) \cup {order[k]}
           /\ IsFiniteSet(Survivors(k)) /\ Cardinality(Survivors(k)) \in Nat
           /\ Cardinality(Survivors(k - 1)) = Cardinality(Survivors(k)) + 1
           /\ BytesWithout(Oldest(k)) \in Nat /\ byID[order[k]].size \in Nat
           /\ BytesWithout(Oldest(k - 1)) = BytesWithout(Oldest(k)) + byID[order[k]].size
<1> DEFINE y == order[k]
<1>1. /\ order \in Seq(Nat) /\ Len(order) \in Nat
      /\ Listed(byID, order, Len(order)) /\ Ascending(byID, order, Len(order))
      /\ \A x : x \in DOMAIN byID <=> Among(x, order, Len(order))
  BY OrderKnown DEF IndexInv, IndexExact
<1>2. \A j, l \in 1..Len(order) : order[j] = order[l] => j = l
  BY <1>1, ListedOnce
<1>3. \A j \in 1..Len(order) : order[j] \in DOMAIN byID
  BY <1>1 DEF Among
<1>4. Oldest(k) \subseteq DOMAIN byID /\ Oldest(k - 1) \subseteq DOMAIN byID /\ y \in Oldest(k)
  BY <1>1, <1>3 DEF Oldest
<1>5. \A a \in Oldest(k), b \in Survivors(k) : Before(byID, a, b)
  <2> SUFFICES ASSUME NEW a \in Oldest(k), NEW b \in Survivors(k) PROVE Before(byID, a, b)
    OBVIOUS
  <2>1. PICK j \in 1..k : a = order[j]
    BY DEF Oldest
  <2>2. PICK l \in 1..Len(order) : b = order[l]
    BY <1>1 DEF Survivors, Among
  <2>3. l \notin 1..k
    BY <2>2 DEF Survivors, Oldest
  <2>4. j \in 1..Len(order) /\ j < l
    BY <1>1, <2>3
  <2>5. QED
    BY <1>1, <2>1, <2>2, <2>4 DEF Ascending
<1>6. \A a \in Oldest(k) \ {y} : Before(byID, a, y)
  <2> SUFFICES ASSUME NEW a \in Oldest(k) \ {y} PROVE Before(byID, a, y)
    OBVIOUS
  <2>1. PICK j \in 1..k : a = order[j]
    BY DEF Oldest
  <2>2. j \in 1..Len(order) /\ j < k
    BY <1>1, <2>1
  <2>3. QED
    BY <1>1, <2>1, <2>2 DEF Ascending
<1>7. Survivors(k - 1) = Survivors(k) \cup {y} /\ y \notin Survivors(k)
  <2>1. Oldest(k) = Oldest(k - 1) \cup {y}
    BY <1>1 DEF Oldest
  <2>2. y \notin Oldest(k - 1)
    BY <1>1, <1>2 DEF Oldest
  <2>3. QED
    BY <1>4, <2>1, <2>2 DEF Survivors
<1>8. IsFiniteSet(Survivors(k)) /\ Cardinality(Survivors(k)) \in Nat
  <2>1. Survivors(k) \in SUBSET DOMAIN byID
    BY DEF Survivors
  <2>2. QED
    BY <2>1, FS_Subset, FS_CardinalityType DEF CapsHeld
<1>9. Cardinality(Survivors(k - 1)) = Cardinality(Survivors(k)) + 1
  BY <1>7, <1>8, FS_AddElement
<1>10. byID[y].size \in Nat
  BY <1>3 DEF TypeOK, Record
<1>11. /\ BytesWithout(Oldest(k)) = Cardinality(BytesIn(byID, Survivors(k)))
       /\ BytesWithout(Oldest(k - 1)) = Cardinality(BytesIn(byID, Survivors(k - 1)))
       /\ BytesWithout(Oldest(k)) \in Nat /\ IsFiniteSet(BytesIn(byID, Survivors(k)))
  BY <1>4, AccountWithout DEF Survivors
<1>12. BytesWithout(Oldest(k - 1)) = BytesWithout(Oldest(k)) + byID[y].size
  <2> SUFFICES ASSUME NEW f, f = byID, NEW x, x = y, NEW S, S = Survivors(k)
               PROVE  Cardinality(BytesIn(f, S \cup {x})) = Cardinality(BytesIn(f, S)) + f[x].size
    BY <1>7, <1>11
  <2>1. x \notin S /\ f[x].size \in Nat /\ IsFiniteSet(BytesIn(f, S))
    BY <1>7, <1>10, <1>11
  <2>2. QED
    BY <2>1, BytesAdded
<1>13. Oldest(k) = DOMAIN byID \ Survivors(k)
  BY <1>4 DEF Survivors
<1>14. QED
  BY <1>4, <1>5, <1>6, <1>7, <1>8, <1>9, <1>10, <1>11, <1>12, <1>13

\* k evictions that leave old members R, so many messages and so many bytes.
LEMMA EvictionSeen ==
    ASSUME TypeOK, CapsHeld, IndexInv, NEW k \in 1..Len(order),
           DOMAIN byID \cap DOMAIN byID' = Survivors(k),
           \/ Cardinality(DOMAIN byID') + 1 > opts'.maxMessages
           \/ bytes' + byID[order[k]].size > opts'.maxBytes
    PROVE  EvictionStep
<1>1. DOMAIN byID \ DOMAIN byID' = Oldest(k)
  BY LastEvicted
<1>2. QED
  BY <1>1, LastEvicted DEF EvictionStep, Before

LEMMA EvictionStepHolds ==
    ASSUME StoreInv, IndexInv, [Next]_vars
    PROVE  EvictionStep
<1> SUFFICES ASSUME evictions' > evictions PROVE EvictionStep
  BY DEF EvictionStep
<1>0. TypeOK /\ CapsHeld /\ evictions \in Nat /\ Len(order) \in Nat
  BY DEF StoreInv, TypeOK
<1>1. ASSUME NEW i \in Inserters, NEW k \in 0..Len(order), NEW left, NEW pos,
             InsertCommit(i, k, left, pos)
      PROVE  EvictionStep
  <2>1. /\ evictions' = evictions + k /\ k \in EvictionsToFit(ins[i].size)
        /\ DOMAIN byID' = Survivors(k) \cup {ins[i].id}
        /\ left = BytesWithout(Oldest(k)) /\ bytes' = left + ins[i].size /\ opts' = opts
    BY <1>1 DEF InsertCommit
  <2>2. k \in 1..Len(order)
    BY <1>0, <2>1
  <2>3. ins[i].id \notin DOMAIN byID /\ ins[i].size \in Nat
    BY <1>1, InsType DEF StoreInv, IdsDistinct, Active, InsertCommit, ReadyToCommit
  <2>4. Survivors(k) \subseteq DOMAIN byID
    BY DEF Survivors
  <2>5. ~Fits(k - 1, ins[i].size)
    BY <1>0, <2>1, <2>2 DEF EvictionsToFit
  <2>6. \/ Cardinality(Survivors(k)) + 1 >= opts.maxMessages
        \/ left + byID[order[k]].size + ins[i].size > opts.maxBytes
    <3>1. opts.maxMessages \in Nat /\ opts.maxBytes \in Nat
      BY <1>0 DEF TypeOK, Options
    <3>2. /\ Cardinality(Survivors(k)) \in Nat
          /\ Cardinality(Survivors(k - 1)) = Cardinality(Survivors(k)) + 1
          /\ left \in Nat /\ byID[order[k]].size \in Nat
          /\ BytesWithout(Oldest(k - 1)) = left + byID[order[k]].size
      BY <1>0, <2>1, <2>2, LastEvicted
    <3>3. \/ ~(Cardinality(Survivors(k - 1)) < opts.maxMessages)
          \/ ~(BytesWithout(Oldest(k - 1)) + ins[i].size <= opts.maxBytes)
      BY <2>5 DEF Fits
    <3>4. ins[i].size \in Nat
      BY <2>3
    <3>5. CASE ~(Cardinality(Survivors(k - 1)) < opts.maxMessages)
      BY <3>1, <3>2, <3>5
    <3>6. CASE ~(BytesWithout(Oldest(k - 1)) + ins[i].size <= opts.maxBytes)
      <4> HIDE DEF OldestGone
      <4>1. SUFFICES ASSUME NEW a, a = byID[order[k]].size, NEW b, b = ins[i].size,
                            NEW m, m = opts.maxBytes
                     PROVE  left + a + b > m
        OBVIOUS
      <4>2. a \in Nat /\ b \in Nat /\ m \in Nat /\ left \in Nat /\ ~((left + a) + b <= m)
        BY <3>1, <3>2, <3>4, <3>6, <4>1
      <4>3. QED
        BY <4>2
    <3>7. QED
      BY <3>3, <3>5, <3>6
  <2>7. Cardinality(DOMAIN byID') = Cardinality(Survivors(k)) + 1
    <3>1. IsFiniteSet(Survivors(k)) /\ ins[i].id \notin Survivors(k)
      BY <1>0, <2>2, <2>3, <2>4, LastEvicted
    <3>2. Cardinality(Survivors(k) \cup {ins[i].id}) = Cardinality(Survivors(k)) + 1
      BY <3>1, FS_AddElement
    <3>3. QED
      BY <2>1, <3>2
  <2>8. \/ Cardinality(DOMAIN byID') + 1 > opts'.maxMessages
        \/ bytes' + byID[order[k]].size > opts'.maxBytes
    <3>1. opts.maxMessages \in Nat /\ opts.maxBytes \in Nat
      BY <1>0 DEF TypeOK, Options
    <3>2. Cardinality(Survivors(k)) \in Nat /\ left \in Nat /\ byID[order[k]].size \in Nat
      BY <1>0, <2>1, <2>2, LastEvicted
    <3>3. CASE Cardinality(Survivors(k)) + 1 >= opts.maxMessages
      <4> SUFFICES ASSUME NEW c, c = Cardinality(Survivors(k)), NEW m, m = opts.maxMessages
                   PROVE  (c + 1) + 1 > m
        BY <2>1, <2>7
      <4>1. QED
        BY <3>1, <3>2, <3>3
    <3>4. CASE left + byID[order[k]].size + ins[i].size > opts.maxBytes
      <4> SUFFICES ASSUME NEW z, z = byID[order[k]].size, NEW n, n = ins[i].size,
                          NEW m, m = opts.maxBytes
                   PROVE  (left + n) + z > m
        BY <2>1
      <4>1. QED
        BY <2>3, <3>1, <3>2, <3>4
    <3>5. QED
      BY <2>6, <3>3, <3>4
  <2>9. DOMAIN byID \cap DOMAIN byID' = Survivors(k)
    BY <2>1, <2>3, <2>4
  <2>10. QED
    BY <1>0, <2>2, <2>8, <2>9, EvictionSeen
<1>2. ASSUME NEW o \in Options, NEW mayEvict, NEW k \in 0..Len(order), NEW left,
             InstallCaps(o, mayEvict, k, left)
      PROVE  EvictionStep
  <2>1. /\ evictions' = evictions + k /\ k \in EvictionsToUnder(o) /\ opts' = o
        /\ DOMAIN byID' = Survivors(k) /\ bytes' = BytesWithout(Oldest(k))
    BY <1>2 DEF InstallCaps, RemoveMembers, Survivors
  <2>2. k \in 1..Len(order)
    BY <1>0, <2>1
  <2>3. ~UnderCaps(k - 1, o)
    BY <1>0, <2>1, <2>2 DEF EvictionsToUnder
  <2>4. \/ Cardinality(DOMAIN byID') + 1 > opts'.maxMessages
        \/ bytes' + byID[order[k]].size > opts'.maxBytes
    <3>1. o.maxMessages \in Nat /\ o.maxBytes \in Nat
      BY DEF Options
    <3>2. /\ Cardinality(Survivors(k)) \in Nat
          /\ Cardinality(Survivors(k - 1)) = Cardinality(Survivors(k)) + 1
          /\ bytes' = BytesWithout(Oldest(k)) /\ bytes' \in Nat /\ byID[order[k]].size \in Nat
          /\ BytesWithout(Oldest(k - 1)) = bytes' + byID[order[k]].size
      BY <1>0, <2>1, <2>2, LastEvicted
    <3>3. \/ ~(Cardinality(Survivors(k - 1)) <= o.maxMessages)
          \/ ~(BytesWithout(Oldest(k - 1)) <= o.maxBytes)
      BY <2>3 DEF UnderCaps
    <3>4. CASE ~(Cardinality(Survivors(k - 1)) <= o.maxMessages)
      BY <2>1, <3>1, <3>2, <3>4
    <3>5. CASE ~(BytesWithout(Oldest(k - 1)) <= o.maxBytes)
      <4>1. SUFFICES ASSUME NEW a, a = byID[order[k]].size, NEW b, b = bytes',
                            NEW m, m = o.maxBytes
                     PROVE  b + a > m
        BY <2>1
      <4>2. a \in Nat /\ b \in Nat /\ m \in Nat /\ ~(b + a <= m)
        BY <3>1, <3>2, <3>5, <4>1
      <4>3. QED
        BY <4>2
    <3>6. QED
      BY <3>3, <3>4, <3>5
  <2>5. DOMAIN byID \cap DOMAIN byID' = Survivors(k)
    BY <2>1 DEF Survivors
  <2>6. QED
    BY <1>0, <2>2, <2>4, <2>5, EvictionSeen
<1>3. CASE UNCHANGED evictions \/ evictions' = 0
  BY <1>0, <1>3
<1>4. ASSUME NEW i \in Inserters, InsertStep(i) PROVE EvictionStep
  <2>1. \/ UNCHANGED evictions
        \/ \E k \in 0..Len(order), left \in 0..bytes, pos \in 1..(Len(order) + 1) :
             InsertCommit(i, k, left, pos)
    BY <1>4 DEF InsertStep, CaptureEpoch, InsertPrepare, SpillBegin, SpillEnd, InsertReject,
                InsertRenameFails, InsertAbort, index
  <2>2. QED
    BY <1>1, <1>3, <2>1, Zenon
<1>5. ASSUME NEW r \in Readers, ReadStep(r) PROVE EvictionStep
  <2>1. UNCHANGED evictions
    BY <1>5 DEF ReadStep, GetBegin, ListBegin, Load, GetMissing, GetFinish, index
  <2>2. QED
    BY <1>3, <2>1
<1>6. CASE AdminStep
  <2>1. CASE \E o \in NormalOptions, force \in BOOLEAN, k \in 0..Len(order), left \in 0..bytes :
               ReplaceCaps(o, force, k, left)
    <3> PICK o \in NormalOptions, force \in BOOLEAN, k \in 0..Len(order), left \in 0..bytes :
               ReplaceCaps(o, force, k, left)
      BY <2>1
    <3> DEFINE new == [o EXCEPT !.spillDir = opts.spillDir]
    <3>1. new \in Options
      BY <1>0, SpillDirType, NormalType DEF Options
    <3>2. InstallCaps(new, force \/ o.fullPolicy = "evict_oldest", k, left)
      BY DEF ReplaceCaps
    <3> HIDE DEF new
    <3>3. QED
      BY <1>2, <3>1, <3>2
  <2>2. CASE \E o \in NormalOptions, k \in 0..Len(order), left \in 0..bytes : Configure(o, k, left)
    BY <1>2, <2>2, NormalType DEF Configure
  <2>3. CASE \/ \E j \in 1..Len(order), left \in 0..bytes : Delete(j, left)
             \/ \E left \in 0..bytes : DeleteAll(left)
             \/ \E S : MarkRead(S)
             \/ \E o : ResetTo(o) \/ Restart(o)
    <3>1. UNCHANGED evictions \/ evictions' = 0
      BY <2>3 DEF Delete, DeleteAll, MarkRead, ResetTo, Restart
    <3>2. QED
      BY <1>3, <3>1
  <2>4. QED
    BY <1>6, <2>1, <2>2, <2>3 DEF AdminStep, Wipe
<1>7. CASE UNCHANGED vars
  BY <1>3, <1>7 DEF vars, index
<1>8. QED
  BY <1>4, <1>5, <1>6, <1>7 DEF Next

\* evictUntilFitsLocked and evictUntilUnderCapsLocked take the oldest
\* messages by receive time and id, and stop as soon as the caps permit.
THEOREM EvictionIsMinimal == Spec => EvictsOldestAndFew
<1>1. StoreInv /\ IndexInv /\ [Next]_vars => [EvictionStep]_vars
  BY EvictionStepHolds
<1>2. Spec => []StoreInv
  BY StoreInvariant
<1>3. Spec => []IndexInv
  BY <1>2, IndexInit, IndexStep, PTL DEF Spec
<1>4. QED
  BY <1>1, <1>2, <1>3, PTL DEF Spec, EvictsOldestAndFew

-----------------------------------------------------------------------------
(***************************************************************************)
(* The owners of spill files.  A wipe clears one directory, so that every  *)
(* member has its files there is part of the invariant, and that a job     *)
(* that may still be committed names it; a Configure that moved the        *)
(* directory would break both.                                             *)
(***************************************************************************)

\* A file has the id of a message that was prepared.
DiskOlder == \A f \in disk : f.id < nextId

\* A part that Insert call i has still to write has no temporary file, but
\* for the one that it is writing.
Unwritten(i) ==
    ins[i].pc \in {"spill", "writing"} =>
        \A f \in disk : f.tmp /\ f.id = ins[i].id /\ f.part \in ins[i].todo =>
            /\ ins[i].pc = "writing" /\ f.dir = ins[i].wdir
            /\ \A q \in ins[i].todo : f.part <= q

\* A call that may yet be accepted has its files where a wipe looks.
JobHere(i) ==
    Fresh(i) => /\ \A e \in ins[i].job : e.final = opts.spillDir
                /\ ins[i].job # {} \/ ins[i].todo # {} => opts.spillDir # NoDir

\* So have the members of the inbox.
FilesHere ==
    \A id \in DOMAIN byID : \A f \in byID[id].files : f.dir = opts.spillDir /\ f.dir # NoDir

OwnInv ==
    /\ OwnedFiles
    /\ DiskOlder
    /\ \A i \in Inserters : Unwritten(i) /\ JobHere(i)
    /\ FilesHere

LEMMA InFlightIs ==
    ASSUME NEW i \in Inserters, NEW f
    PROVE  f \in InFlight(i) <=>
             \/ f \in TmpFiles(i, ins[i].job)
             \/ ins[i].pc = "writing" /\ \E p \in ins[i].todo : f = File(ins[i].wdir, ins[i].id, p, TRUE)
  BY DEF InFlight

\* A step of Insert call i that leaves the index alone.
LEMMA CallOwns ==
    ASSUME StoreInv, OwnInv, NEW i \in Inserters,
           UNCHANGED <<opts, epoch, byID, life>>,
           \A j \in Inserters \ {i} : ins'[j] = ins[j],
           nextId' \in Nat, nextId' >= nextId,
           \A f \in disk' : f \in disk \/ (/\ Active(i) /\ f.id = ins[i].id
                                           /\ f.tmp /\ f \in InFlight(i)'),
           \A f \in disk \cap disk' :
              f \in InFlight(i) => f \in InFlight(i)' \/ f.part \in FaultyParts,
           Unwritten(i)', JobHere(i)'
    PROVE  OwnInv'
<1>0. TypeOK /\ nextId \in Nat /\ disk \subseteq Files
  BY DEF StoreInv, TypeOK
<1>1. \A j \in Inserters \ {i} : InFlight(j)' = InFlight(j)
  BY DEF InFlight, TmpFiles, Tmp
<1>2. OwnedFiles'
  <2> SUFFICES ASSUME NEW f \in disk', f.id >= life
               PROVE  IF f.tmp THEN f.part \in FaultyParts \/ \E j \in Inserters : f \in InFlight(j)'
                      ELSE f \in FilesOf(DOMAIN byID)
    BY DEF OwnedFiles, FilesOf
  <2>1. CASE f \notin disk
    BY <2>1
  <2>2. CASE f \in disk
    <3>1. IF f.tmp THEN f.part \in FaultyParts \/ \E j \in Inserters : f \in InFlight(j)
          ELSE f \in FilesOf(DOMAIN byID)
      BY <2>2 DEF OwnInv, OwnedFiles
    <3>2. QED
      BY <1>1, <2>2, <3>1
  <2>3. QED
    BY <2>1, <2>2
<1>3. DiskOlder'
  <2> SUFFICES ASSUME NEW f \in disk' PROVE f.id < nextId'
    BY DEF DiskOlder
  <2>1. CASE f \in disk
    <3>1. f.id \in Nat /\ f.id < nextId
      BY <1>0, <2>1 DEF OwnInv, DiskOlder, Files
    <3>2. QED
      BY <1>0, <3>1
  <2>2. CASE Active(i) /\ f.id = ins[i].id
    <3>1. ins[i].id < nextId /\ ins[i].id \in Nat
      BY <1>0, <2>2, InsType DEF StoreInv, IdsDistinct
    <3>2. QED
      BY <1>0, <2>2, <3>1
  <2>3. QED
    BY <2>1, <2>2
<1>4. ASSUME NEW j \in Inserters \ {i} PROVE Unwritten(j)' /\ JobHere(j)'
  <2>1. JobHere(j)'
    BY DEF OwnInv, JobHere, Fresh
  <2>2. Unwritten(j)'
    <3> SUFFICES ASSUME ins[j].pc \in {"spill", "writing"}, NEW f \in disk',
                        f.tmp, f.id = ins[j].id, f.part \in ins[j].todo
                 PROVE  /\ ins[j].pc = "writing" /\ f.dir = ins[j].wdir
                        /\ \A q \in ins[j].todo : f.part <= q
      BY DEF Unwritten
    <3>1. f \in disk
      BY DEF StoreInv, IdsDistinct, Active
    <3>2. QED
      BY <3>1 DEF OwnInv, Unwritten
  <2>3. QED
    BY <2>1, <2>2
<1>5. FilesHere'
  BY DEF OwnInv, FilesHere
<1>6. QED
  BY <1>2, <1>3, <1>4, <1>5 DEF OwnInv

\* The calls and the map stay, members may go with their files.
LEMMA MembersOwn ==
    ASSUME StoreInv, OwnInv, UNCHANGED <<epoch, nextId, life, ins>>,
           opts'.spillDir = opts.spillDir, disk' \subseteq disk,
           DOMAIN byID' \subseteq DOMAIN byID,
           \A id \in DOMAIN byID' : byID'[id].files = byID[id].files,
           \A f \in disk' : f \in FilesOf(DOMAIN byID) => f \in FilesOf(DOMAIN byID)'
    PROVE  OwnInv'
<1>1. \A i \in Inserters : InFlight(i)' = InFlight(i)
  BY DEF InFlight, TmpFiles, Tmp
<1>2. OwnedFiles'
  BY <1>1 DEF OwnInv, OwnedFiles
<1>3. DiskOlder' /\ FilesHere'
  BY DEF OwnInv, DiskOlder, FilesHere
<1>4. \A i \in Inserters : Unwritten(i)' /\ JobHere(i)'
  BY DEF OwnInv, Unwritten, JobHere, Fresh
<1>5. QED
  BY <1>2, <1>3, <1>4 DEF OwnInv

\* removeLocked unlinks the files of what it removes.
LEMMA RemoveOwns ==
    ASSUME StoreInv, OwnInv, UNCHANGED <<epoch, nextId, life, ins>>,
           opts'.spillDir = opts.spillDir,
           NEW S, NEW n, NEW rest, NEW left, RemoveMembers(S, n, rest, left)
    PROVE  OwnInv'
<1>1. /\ DOMAIN byID' = DOMAIN byID \ S /\ \A id \in DOMAIN byID \ S : byID'[id] = byID[id]
      /\ disk' = disk \ FilesOf(S \cap DOMAIN byID)
  BY DEF RemoveMembers, Dropped
<1>2. ASSUME NEW f \in disk', f \in FilesOf(DOMAIN byID) PROVE f \in FilesOf(DOMAIN byID)'
  <2>1. PICK id \in DOMAIN byID : f \in byID[id].files
    BY <1>2 DEF FilesOf
  <2>2. id \notin S
    BY <1>1, <2>1 DEF FilesOf
  <2>3. QED
    BY <1>1, <2>1, <2>2 DEF FilesOf
<1>3. QED
  BY <1>1, <1>2, MembersOwn

\* Only read bits change.
LEMMA MarkOwns ==
    ASSUME StoreInv, OwnInv, UNCHANGED <<opts, epoch, nextId, life, ins, disk>>,
           DOMAIN byID' = DOMAIN byID,
           \A id \in DOMAIN byID' : byID'[id].files = byID[id].files
    PROVE  OwnInv'
<1>1. FilesOf(DOMAIN byID)' = FilesOf(DOMAIN byID)
  BY DEF FilesOf
<1>2. QED
  BY <1>1, MembersOwn

\* A wipe: every member had its files in the directory that is cleared.
LEMMA ResetOwns ==
    ASSUME StoreInv, OwnInv, NEW o, ResetTo(o)
    PROVE  OwnInv'
<1>0. /\ UNCHANGED <<nextId, life, ins>> /\ epoch' = epoch + 1 /\ DOMAIN byID' = {}
      /\ disk' = UnlinkAllSpill(opts.spillDir) /\ disk' \subseteq disk
  BY NoRecordsFacts DEF ResetTo, ClearIndex, UnlinkAllSpill
<1>1. \A i \in Inserters : InFlight(i)' = InFlight(i)
  BY <1>0 DEF InFlight, TmpFiles, Tmp
<1>2. ASSUME NEW f \in disk', f \in FilesOf(DOMAIN byID) PROVE FALSE
  <2>1. f.dir = opts.spillDir /\ opts.spillDir # NoDir
    BY <1>2 DEF OwnInv, FilesHere, FilesOf
  <2>2. QED
    BY <1>0, <2>1 DEF UnlinkAllSpill
<1>3. OwnedFiles'
  BY <1>0, <1>1, <1>2 DEF OwnInv, OwnedFiles
<1>4. DiskOlder' /\ FilesHere'
  BY <1>0 DEF OwnInv, DiskOlder, FilesHere
<1>5. ASSUME NEW i \in Inserters PROVE Unwritten(i)' /\ JobHere(i)'
  <2>1. ~Fresh(i)'
    <3>1. ins[i].epoch <= epoch /\ ins[i].epoch \in Nat /\ epoch \in Nat
      BY InsType DEF StoreInv, EpochsBounded, TypeOK
    <3>2. QED
      BY <1>0, <3>1 DEF Fresh
  <2>2. QED
    BY <1>0, <2>1 DEF OwnInv, Unwritten, JobHere
<1>6. QED
  BY <1>3, <1>4, <1>5 DEF OwnInv

\* A new process owns nothing that an earlier one left.
LEMMA RestartOwns ==
    ASSUME StoreInv, OwnInv, NEW o, Restart(o)
    PROVE  OwnInv'
<1>0. /\ nextId' = nextId /\ life' = nextId /\ DOMAIN byID' = {} /\ disk' \subseteq disk
      /\ \A i \in Inserters : ins'[i] = NoInsert
  BY NoRecordsFacts DEF Restart, ClearIndex, UnlinkAllSpill
<1>1. \A f \in disk : f.id < nextId /\ f.id \in Nat /\ nextId \in Nat
  BY DEF OwnInv, DiskOlder, StoreInv, TypeOK, Files
<1>2. OwnedFiles'
  BY <1>0, <1>1 DEF OwnedFiles
<1>3. DiskOlder' /\ FilesHere'
  BY <1>0, <1>1 DEF DiskOlder, FilesHere
<1>4. \A i \in Inserters : Unwritten(i)' /\ JobHere(i)'
  BY <1>0 DEF Unwritten, JobHere, NoInsert
<1>5. QED
  BY <1>2, <1>3, <1>4 DEF OwnInv

\* A part is renamed, evictions drop their files, the rest stays owned.
LEMMA CommitOwns ==
    ASSUME StoreInv, OwnInv, NEW i \in Inserters, NEW k, NEW left, NEW pos,
           InsertCommit(i, k, left, pos)
    PROVE  OwnInv'
<1> DEFINE c == ins[i]
<1>0. /\ TypeOK /\ Active(i) /\ c.pc = "spill" /\ c.todo = {} /\ Fresh(i)
      /\ c.id \in Nat /\ c.id \notin DOMAIN byID /\ c.id < nextId /\ nextId \in Nat
  BY InsType DEF StoreInv, InsertCommit, ReadyToCommit, Active, IdsDistinct, TypeOK
<1>1. /\ DOMAIN byID' = Survivors(k) \cup {c.id}
      /\ \A id \in Survivors(k) : byID'[id] = byID[id]
      /\ byID'[c.id].files = FinalFiles(i, c.job)
      /\ disk' = ((disk \ TmpFiles(i, c.job)) \ Dropped(Oldest(k))) \cup FinalFiles(i, c.job)
      /\ UNCHANGED <<opts, epoch, nextId, life>>
  <2>1. c.id \notin Survivors(k)
    BY <1>0 DEF Survivors
  <2>2. QED
    BY <2>1 DEF InsertCommit
<1>2. ins'[i] = NoInsert /\ \A j \in Inserters \ {i} : ins'[j] = ins[j]
  BY <1>0, InsNew DEF InsertCommit
<1>3. ASSUME NEW f \in FinalFiles(i, c.job)
      PROVE  f.tmp = FALSE /\ f.id = c.id /\ f.dir = opts.spillDir /\ f.dir # NoDir
  <2>1. PICK e \in c.job : f = File(e.final, c.id, e.part, FALSE)
    BY DEF FinalFiles, Final
  <2>2. e.final = opts.spillDir /\ opts.spillDir # NoDir
    BY <1>0 DEF OwnInv, JobHere
  <2>3. QED
    BY <2>1, <2>2 DEF File
<1>4. \A j \in Inserters \ {i} : InFlight(j)' = InFlight(j)
  BY <1>2 DEF InFlight, TmpFiles, Tmp
<1>5. InFlight(i) = TmpFiles(i, c.job)
  BY <1>0, InFlightIs
<1>6. OwnedFiles'
  <2> SUFFICES ASSUME NEW f \in disk', f.id >= life
               PROVE  IF f.tmp THEN f.part \in FaultyParts \/ \E j \in Inserters : f \in InFlight(j)'
                      ELSE f \in FilesOf(DOMAIN byID)'
    BY <1>1 DEF OwnedFiles
  <2>1. CASE f \in FinalFiles(i, c.job)
    <3>1. f \in FilesOf(DOMAIN byID)'
      BY <1>1, <2>1 DEF FilesOf
    <3>2. QED
      BY <1>3, <2>1, <3>1
  <2>2. CASE f \notin FinalFiles(i, c.job)
    <3>1. f \in disk /\ f \notin TmpFiles(i, c.job) /\ f \notin Dropped(Oldest(k))
      BY <1>1, <2>2
    <3>2. IF f.tmp THEN f.part \in FaultyParts \/ \E j \in Inserters : f \in InFlight(j)
          ELSE f \in FilesOf(DOMAIN byID)
      BY <3>1 DEF OwnInv, OwnedFiles
    <3>3. CASE f.tmp
      BY <1>4, <1>5, <3>1, <3>2, <3>3
    <3>4. CASE ~f.tmp
      <4>1. PICK id \in DOMAIN byID : f \in byID[id].files
        BY <3>2, <3>4 DEF FilesOf
      <4>2. id \in Survivors(k)
        BY <3>1, <4>1 DEF Survivors, Dropped, FilesOf
      <4>3. f \in FilesOf(DOMAIN byID)'
        BY <1>1, <4>1, <4>2 DEF FilesOf
      <4>4. QED
        BY <3>4, <4>3
    <3>5. QED
      BY <3>3, <3>4
  <2>3. QED
    BY <2>1, <2>2
<1>7. DiskOlder'
  BY <1>0, <1>1, <1>3 DEF OwnInv, DiskOlder
<1>8. ASSUME NEW j \in Inserters PROVE Unwritten(j)' /\ JobHere(j)'
  <2>1. CASE j = i
    BY <1>2, <2>1 DEF Unwritten, JobHere, NoInsert
  <2>2. CASE j # i
    <3>1. ins'[j] = ins[j]
      BY <1>2, <2>2
    <3>2. JobHere(j)'
      BY <1>1, <3>1 DEF OwnInv, JobHere, Fresh
    <3>3. \A f \in disk' : f.tmp => f \in disk
      BY <1>1, <1>3
    <3>4. Unwritten(j)'
      BY <3>1, <3>3 DEF OwnInv, Unwritten
    <3>5. QED
      BY <3>2, <3>4
  <2>3. QED
    BY <2>1, <2>2
<1>9. FilesHere'
  <2> SUFFICES ASSUME NEW id \in DOMAIN byID', NEW f \in byID'[id].files
               PROVE  f.dir = opts.spillDir /\ f.dir # NoDir
    BY <1>1 DEF FilesHere
  <2>1. CASE id = c.id
    BY <1>1, <1>3, <2>1
  <2>2. CASE id \in Survivors(k)
    BY <1>1, <2>2 DEF OwnInv, FilesHere, Survivors
  <2>3. QED
    BY <1>1, <2>1, <2>2
<1>10. QED
  BY <1>6, <1>7, <1>8, <1>9 DEF OwnInv

\* A step of an Insert call keeps every file owned.
LEMMA InsertOwns ==
    ASSUME StoreInv, OwnInv, NEW i \in Inserters, InsertStep(i)
    PROVE  OwnInv'
<1>0. /\ TypeOK /\ nextId \in Nat /\ Unwritten(i) /\ JobHere(i)
      /\ ins[i].todo \subseteq Parts /\ Parts \subseteq Nat /\ opts.spillDir \in Places
      /\ ~Active(i) => ins[i].job = {} /\ ins[i].todo = {}
  BY InsType, SpillDirType, StoreAssumption DEF StoreInv, TypeOK, OwnInv, IdsDistinct
<1>i. ~Active(i) => InFlight(i) = {}
  BY <1>0, InFlightIs DEF TmpFiles
<1>1. CASE CaptureEpoch(i)
  <2>1. /\ ~Active(i) /\ UNCHANGED <<opts, epoch, byID, life, disk, nextId>>
        /\ ins'[i].pc = "data" /\ ins'[i].job = {} /\ ins'[i].todo = {}
        /\ \A j \in Inserters \ {i} : ins'[j] = ins[j]
    BY <1>0, <1>1 DEF CaptureEpoch, Active, NoInsert, TypeOK, index
  <2>2. Unwritten(i)' /\ JobHere(i)'
    BY <2>1 DEF Unwritten, JobHere
  <2>3. QED
    BY <1>0, <1>i, <2>1, <2>2, CallOwns
<1>2. CASE \E at \in Times, size \in Sizes, parts \in SUBSET Parts : InsertPrepare(i, at, size, parts)
  <2> PICK at \in Times, size \in Sizes, parts \in SUBSET Parts : InsertPrepare(i, at, size, parts)
    BY <1>2
  <2>1. /\ ~Active(i) /\ UNCHANGED <<opts, epoch, byID, life, disk>> /\ nextId' = nextId + 1
        /\ \A j \in Inserters \ {i} : ins'[j] = ins[j]
        /\ ins'[i].job = {}
        /\ \/ ins'[i].pc = "idle" /\ ins'[i].todo = {}
           \/ /\ ins'[i].pc = "spill" /\ ins'[i].id = nextId
              /\ ins'[i].todo # {} => opts.spillDir # NoDir
    <3> DEFINE new == [ins[i] EXCEPT !.pc = "spill", !.id = nextId, !.at = at, !.size = size,
                                     !.todo = IF opts.spillDir = NoDir THEN {} ELSE parts]
    <3>1. /\ ins[i].pc = "data" /\ nextId' = nextId + 1
          /\ ins' = [ins EXCEPT ![i] = NoInsert] \/ ins' = [ins EXCEPT ![i] = new]
          /\ UNCHANGED <<opts, epoch, byID, life, disk>>
      BY DEF InsertPrepare, index
    <3>2. /\ new.pc = "spill" /\ new.id = nextId /\ new.job = ins[i].job
          /\ new.todo # {} => opts.spillDir # NoDir
      BY <1>0, InsType DEF InsertCall
    <3> HIDE DEF new
    <3>3. /\ ins'[i] = NoInsert \/ ins'[i] = new
          /\ \A j \in Inserters \ {i} : ins'[j] = ins[j]
      BY <1>0, <3>1, InsNew
    <3>4. ~Active(i)
      BY <3>1 DEF Active
    <3>5. QED
      BY <1>0, <3>1, <3>2, <3>3, <3>4 DEF NoInsert
  <2>2. Unwritten(i)'
    <3>1. \A f \in disk : f.id # nextId
      BY <1>0 DEF OwnInv, DiskOlder, TypeOK, Files
    <3>2. QED
      BY <2>1, <3>1 DEF Unwritten
  <2>3. JobHere(i)'
    BY <2>1 DEF JobHere
  <2>4. nextId' \in Nat /\ nextId' >= nextId
    BY <1>0, <2>1
  <2>5. QED
    BY <1>i, <2>1, <2>2, <2>3, <2>4, CallOwns
<1>3. CASE \E p \in ins[i].todo : SpillBegin(i, p)
  <2> PICK p \in ins[i].todo : SpillBegin(i, p)
    BY <1>3
  <2> DEFINE new == File(opts.spillDir, ins[i].id, p, TRUE)
  <2>1. /\ ins[i].pc = "spill" /\ \A q \in ins[i].todo : p <= q
        /\ UNCHANGED <<opts, epoch, byID, life, nextId>> /\ Active(i)
        /\ \A j \in Inserters \ {i} : ins'[j] = ins[j]
        /\ ins'[i].job = ins[i].job /\ ins'[i].todo = ins[i].todo
        /\ ins'[i].id = ins[i].id /\ ins'[i].epoch = ins[i].epoch
        /\ \/ disk' = disk \cup {new} /\ ins'[i].pc = "writing" /\ ins'[i].wdir = opts.spillDir
           \/ disk' = disk /\ ins'[i].pc = "abort"
    <3> DEFINE ok == [ins[i] EXCEPT !.pc = "writing", !.wdir = opts.spillDir]
               bad == [ins[i] EXCEPT !.pc = "abort"]
    <3>1. /\ ins[i].pc = "spill" /\ \A q \in ins[i].todo : p <= q
          /\ UNCHANGED <<opts, epoch, byID, life, nextId>> /\ Active(i)
          /\ \/ disk' = disk \cup {new} /\ ins' = [ins EXCEPT ![i] = ok]
             \/ disk' = disk /\ ins' = [ins EXCEPT ![i] = bad]
      BY DEF SpillBegin, Active, index
    <3>2. /\ ok.pc = "writing" /\ ok.job = ins[i].job /\ ok.todo = ins[i].todo
          /\ ok.id = ins[i].id /\ ok.epoch = ins[i].epoch /\ ok.wdir = opts.spillDir
          /\ bad.pc = "abort" /\ bad.job = ins[i].job /\ bad.todo = ins[i].todo
          /\ bad.id = ins[i].id /\ bad.epoch = ins[i].epoch
      BY <1>0, InsType DEF InsertCall
    <3> HIDE DEF ok, bad, new
    <3>3. /\ \A j \in Inserters \ {i} : ins'[j] = ins[j]
          /\ \/ ins'[i] = ok /\ disk' = disk \cup {new}
             \/ ins'[i] = bad /\ disk' = disk
      BY <1>0, <3>1, InsNew
    <3>4. QED
      BY <3>1, <3>2, <3>3
  <2>2. new.dir = opts.spillDir /\ new.id = ins[i].id /\ new.part = p /\ new.tmp = TRUE
    BY DEF File
  <2>3. TmpFiles(i, ins[i].job)' = TmpFiles(i, ins[i].job)
    BY <2>1 DEF TmpFiles, Tmp
  <2>4. \A f \in InFlight(i) : f \in InFlight(i)'
    BY <2>1, <2>3 DEF InFlight
  <2>5. new \in disk' => new \in disk \/ new \in InFlight(i)'
    BY <2>1 DEF InFlight
  <2>6. Unwritten(i)'
    <3>1. \A f \in disk : f.tmp /\ f.id = ins[i].id => f.part \notin ins[i].todo
      BY <1>0, <2>1 DEF Unwritten
    <3> SUFFICES ASSUME ins'[i].pc \in {"spill", "writing"}, NEW f \in disk', f.tmp,
                        f.id = ins'[i].id, f.part \in ins'[i].todo
                 PROVE  /\ ins'[i].pc = "writing" /\ f.dir = ins'[i].wdir
                        /\ \A q \in ins'[i].todo : f.part <= q
      BY DEF Unwritten
    <3> HIDE DEF new
    <3>2. f \notin disk
      BY <2>1, <3>1
    <3>3. f = new /\ ins'[i].pc = "writing" /\ ins'[i].wdir = opts.spillDir
      BY <2>1, <3>2
    <3>4. QED
      BY <2>1, <2>2, <3>3
  <2>7. JobHere(i)'
    BY <1>0, <2>1 DEF JobHere, Fresh
  <2> HIDE DEF new
  <2>8. QED
    BY <1>0, <2>1, <2>2, <2>4, <2>5, <2>6, <2>7, CallOwns
<1>4. CASE \E p \in ins[i].todo : SpillEnd(i, p)
  <2> PICK p \in ins[i].todo : SpillEnd(i, p)
    BY <1>4
  <2> DEFINE e == [part |-> p, tmp |-> ins[i].wdir, final |-> opts.spillDir]
  <2>1. /\ ins[i].pc = "writing" /\ \A q \in ins[i].todo : p <= q
        /\ UNCHANGED <<opts, epoch, byID, life, nextId, disk>> /\ Active(i)
        /\ \A j \in Inserters \ {i} : ins'[j] = ins[j]
        /\ ins'[i].id = ins[i].id /\ ins'[i].epoch = ins[i].epoch
        /\ \/ /\ ins'[i].pc = "spill" /\ ins'[i].job = ins[i].job \cup {e}
              /\ ins'[i].todo = ins[i].todo \ {p}
           \/ /\ ins'[i].pc = "abort" /\ ins'[i].job = ins[i].job
              /\ ins'[i].todo = ins[i].todo /\ p \in FaultyParts
    <3> DEFINE new == [ins[i] EXCEPT !.pc = "spill", !.todo = ins[i].todo \ {p},
                                     !.job = ins[i].job \cup {e}]
               bad == [ins[i] EXCEPT !.pc = "abort"]
    <3>1. /\ ins[i].pc = "writing" /\ \A q \in ins[i].todo : p <= q
          /\ UNCHANGED <<opts, epoch, byID, life, nextId, disk>> /\ Active(i)
          /\ \/ ins' = [ins EXCEPT ![i] = new]
             \/ ins' = [ins EXCEPT ![i] = bad] /\ p \in FaultyParts
      BY DEF SpillEnd, Active, index
    <3>2. /\ new.pc = "spill" /\ new.job = ins[i].job \cup {e} /\ new.todo = ins[i].todo \ {p}
          /\ new.id = ins[i].id /\ new.epoch = ins[i].epoch
          /\ bad.pc = "abort" /\ bad.job = ins[i].job /\ bad.todo = ins[i].todo
          /\ bad.id = ins[i].id /\ bad.epoch = ins[i].epoch
      <4> HIDE DEF e
      <4> QED BY <1>0, InsType DEF InsertCall
    <3> HIDE DEF new, bad, e
    <3>3. /\ \A j \in Inserters \ {i} : ins'[j] = ins[j]
          /\ ins'[i] = new \/ (ins'[i] = bad /\ p \in FaultyParts)
      BY <1>0, <3>1, InsNew
    <3>4. QED
      BY <3>1, <3>2, <3>3
  <2>2. e.part = p /\ e.tmp = ins[i].wdir /\ e.final = opts.spillDir
    OBVIOUS
  <2> HIDE DEF e
  <2>3. ASSUME NEW f \in disk, f \in InFlight(i)
        PROVE  f \in InFlight(i)' \/ f.part \in FaultyParts
    <3>1. CASE f \in TmpFiles(i, ins[i].job)
      <4>1. PICK d \in ins[i].job : f = File(d.tmp, ins[i].id, d.part, TRUE)
        BY <3>1 DEF TmpFiles, Tmp
      <4>2. d \in ins'[i].job /\ f = File(d.tmp, ins'[i].id, d.part, TRUE)
        BY <2>1, <4>1
      <4>3. QED
        BY <4>2 DEF InFlight, TmpFiles, Tmp
    <3>2. CASE \E q \in ins[i].todo : f = File(ins[i].wdir, ins[i].id, q, TRUE)
      <4>1. PICK q \in ins[i].todo : f = File(ins[i].wdir, ins[i].id, q, TRUE)
        BY <3>2
      <4>2. f.part = q /\ f.tmp = TRUE /\ f.id = ins[i].id
        BY <4>1 DEF File
      <4>3. q <= p /\ p <= q /\ p \in Nat /\ q \in Nat
        BY <1>0, <2>1, <4>2 DEF Unwritten
      <4>4. q = p
        BY <4>3
      <4>5. CASE p \in FaultyParts
        BY <4>2, <4>4, <4>5
      <4>6. CASE ins'[i].job = ins[i].job \cup {e}
        <5>1. e \in ins'[i].job /\ f = File(e.tmp, ins'[i].id, e.part, TRUE)
          BY <2>1, <2>2, <4>1, <4>4, <4>6
        <5>2. QED
          BY <5>1 DEF InFlight, TmpFiles, Tmp
      <4>7. QED
        BY <2>1, <4>5, <4>6
    <3>3. QED
      BY <2>3, <3>1, <3>2, InFlightIs
  <2>4. Unwritten(i)'
    <3> SUFFICES ASSUME ins'[i].pc = "spill", NEW f \in disk, f.tmp, f.id = ins[i].id,
                        f.part \in ins[i].todo, f.part # p
                 PROVE  FALSE
      BY <2>1 DEF Unwritten
    <3>1. f.part <= p /\ p <= f.part /\ p \in Nat /\ f.part \in Nat
      BY <1>0, <2>1 DEF Unwritten
    <3>2. QED
      BY <3>1
  <2>5. JobHere(i)'
    BY <1>0, <2>1, <2>2 DEF JobHere, Fresh
  <2>6. QED
    BY <1>0, <2>1, <2>3, <2>4, <2>5, CallOwns
<1>5. CASE InsertReject(i)
  <2>1. /\ ins[i].pc = "spill" /\ UNCHANGED <<opts, epoch, byID, life, nextId, disk>>
        /\ \A j \in Inserters \ {i} : ins'[j] = ins[j]
        /\ ins'[i].pc = "abort" /\ ins'[i].job = ins[i].job /\ ins'[i].todo = ins[i].todo
        /\ ins'[i].id = ins[i].id /\ ins'[i].epoch = ins[i].epoch
    BY <1>0, <1>5, InsType DEF InsertReject, ReadyToCommit, TypeOK, InsertCall, index
  <2>2. InFlight(i)' = InFlight(i)
    BY <2>1 DEF InFlight, TmpFiles, Tmp
  <2>3. Unwritten(i)' /\ JobHere(i)'
    BY <1>0, <2>1 DEF Unwritten, JobHere, Fresh
  <2>4. QED
    BY <1>0, <2>1, <2>2, <2>3, CallOwns
<1>6. CASE \E e \in ins[i].job : InsertRenameFails(i, e)
  <2> PICK e \in ins[i].job : InsertRenameFails(i, e)
    BY <1>6
  <2> DEFINE done == {d \in ins[i].job : d.part < e.part}
  <2>1. /\ ins[i].pc = "spill" /\ UNCHANGED <<opts, epoch, byID, life, nextId>>
        /\ \A j \in Inserters \ {i} : ins'[j] = ins[j]
        /\ ins'[i].pc = "abort" /\ ins'[i].job = ins[i].job \ done
        /\ ins'[i].todo = ins[i].todo
        /\ ins'[i].id = ins[i].id /\ ins'[i].epoch = ins[i].epoch
        /\ disk' = disk \ TmpFiles(i, done)
    <3> DEFINE new == [ins[i] EXCEPT !.pc = "abort", !.job = ins[i].job \ done]
    <3>1. /\ ins[i].pc = "spill" /\ UNCHANGED <<opts, epoch, byID, life, nextId>>
          /\ ins' = [ins EXCEPT ![i] = new] /\ disk' = disk \ TmpFiles(i, done)
      BY DEF InsertRenameFails, ReadyToCommit, index
    <3> HIDE DEF done
    <3>2. /\ new.pc = "abort" /\ new.job = ins[i].job \ done /\ new.todo = ins[i].todo
          /\ new.id = ins[i].id /\ new.epoch = ins[i].epoch
      BY <1>0, InsType DEF InsertCall
    <3> HIDE DEF new
    <3>3. ins'[i] = new /\ \A j \in Inserters \ {i} : ins'[j] = ins[j]
      BY <1>0, <3>1, InsNew
    <3>4. QED
      BY <3>1, <3>2, <3>3
  <2> HIDE DEF done
  <2>2. ASSUME NEW f \in disk', f \in InFlight(i)
        PROVE  f \in InFlight(i)'
    <3>0. f \in TmpFiles(i, ins[i].job)
      BY <2>1, <2>2, InFlightIs
    <3>1. PICK d \in ins[i].job : f = File(d.tmp, ins[i].id, d.part, TRUE)
      BY <3>0 DEF TmpFiles, Tmp
    <3>2. d \notin done
      BY <2>1, <3>1 DEF TmpFiles, Tmp
    <3>3. d \in ins'[i].job /\ f = File(d.tmp, ins'[i].id, d.part, TRUE)
      BY <2>1, <3>1, <3>2
    <3>4. QED
      BY <3>3 DEF InFlight, TmpFiles, Tmp
  <2>3. Unwritten(i)' /\ JobHere(i)'
    BY <1>0, <2>1 DEF Unwritten, JobHere, Fresh
  <2>4. QED
    BY <1>0, <2>1, <2>2, <2>3, CallOwns
<1>7. CASE \E k \in 0..Len(order), left \in 0..bytes, pos \in 1..(Len(order) + 1) :
             InsertCommit(i, k, left, pos)
  BY <1>7, CommitOwns
<1>8. CASE InsertAbort(i)
  <2>1. /\ ins[i].pc = "abort" /\ UNCHANGED <<opts, epoch, byID, life, nextId>>
        /\ \A j \in Inserters \ {i} : ins'[j] = ins[j]
        /\ ins'[i].pc = "idle" /\ ins'[i].job = {} /\ ins'[i].todo = {}
        /\ disk' = disk \ TmpFiles(i, ins[i].job)
    BY <1>0, <1>8 DEF InsertAbort, NoInsert, TypeOK, index
  <2>2. InFlight(i) = TmpFiles(i, ins[i].job)
    BY <2>1, InFlightIs
  <2>3. Unwritten(i)' /\ JobHere(i)'
    BY <2>1 DEF Unwritten, JobHere
  <2>4. QED
    BY <1>0, <2>1, <2>2, <2>3, CallOwns
<1>9. QED
  BY <1>1, <1>2, <1>3, <1>4, <1>5, <1>6, <1>7, <1>8 DEF InsertStep

\* Every step keeps every file owned, if Configure does not move the files.
LEMMA OwnStep ==
    ASSUME StoreInv, OwnInv, ConfigureMoves = FALSE, [Next]_vars
    PROVE  OwnInv'
<1>0. TypeOK
  BY DEF StoreInv
<1>1. CASE UNCHANGED <<opts, epoch, byID, disk, nextId, life, ins>>
  BY <1>1, MarkOwns
<1>2. ASSUME NEW r \in Readers, ReadStep(r) PROVE OwnInv'
  <2>1. CASE GetFinish(r)
    <3>1. CASE UNCHANGED byID
      BY <1>1, <2>1, <3>1 DEF GetFinish
    <3>2. CASE byID' = [id \in DOMAIN byID |->
                          IF id \in rd[r].page /\ rd[r].mark
                          THEN [byID[id] EXCEPT !.read = TRUE] ELSE byID[id]]
      <4> DEFINE S == {id \in rd[r].page : rd[r].mark}
      <4>1. byID' = [id \in DOMAIN byID |->
                       IF id \in S THEN [byID[id] EXCEPT !.read = TRUE] ELSE byID[id]]
        BY <3>2
      <4> HIDE DEF S
      <4>2. QED
        BY <1>0, <2>1, <4>1, MarkType, MarkOwns DEF GetFinish
    <3>3. QED
      BY <2>1, <3>1, <3>2 DEF GetFinish
  <2>2. GetFinish(r) \/ UNCHANGED <<opts, epoch, byID, disk, nextId, life, ins>>
    BY <1>2 DEF ReadStep, GetBegin, ListBegin, Load, GetMissing, index
  <2>3. QED
    BY <1>1, <2>1, <2>2
<1>3. CASE AdminStep
  <2>1. CASE \E j \in 1..Len(order), left \in 0..bytes : Delete(j, left)
    BY <2>1, RemoveOwns DEF Delete
  <2>2. CASE \E left \in 0..bytes : DeleteAll(left)
    BY <2>2, RemoveOwns DEF DeleteAll
  <2>3. CASE \E S : MarkRead(S)
    BY <1>0, <2>3, MarkType, MarkOwns DEF MarkRead
  <2>4. CASE \E o \in NormalOptions, force \in BOOLEAN, k \in 0..Len(order), left \in 0..bytes :
               ReplaceCaps(o, force, k, left)
    <3> PICK o \in NormalOptions, force \in BOOLEAN, k \in 0..Len(order), left \in 0..bytes :
               ReplaceCaps(o, force, k, left)
      BY <2>4
    <3>1. [o EXCEPT !.spillDir = opts.spillDir].spillDir = opts.spillDir
      BY NormalType DEF Options
    <3>2. QED
      BY <3>1, RemoveOwns DEF ReplaceCaps, InstallCaps
  <2>5. CASE \E o \in NormalOptions, k \in 0..Len(order), left \in 0..bytes : Configure(o, k, left)
    BY <2>5, RemoveOwns DEF Configure, InstallCaps
  <2>6. CASE \E o : ResetTo(o)
    BY <2>6, ResetOwns
  <2>7. CASE \E o : Restart(o)
    BY <2>7, RestartOwns
  <2>8. QED
    BY <1>3, <2>1, <2>2, <2>3, <2>4, <2>5, <2>6, <2>7 DEF AdminStep, Wipe
<1>4. CASE \E i \in Inserters : InsertStep(i)
  BY <1>4, InsertOwns
<1>5. QED
  BY <1>1, <1>2, <1>3, <1>4 DEF Next, vars, index

LEMMA OwnInit == Init => OwnInv
<1> SUFFICES ASSUME Init PROVE OwnInv
  OBVIOUS
<1>1. disk = {} /\ DOMAIN byID = {} /\ \A i \in Inserters : ins[i] = NoInsert
  BY NoRecordsFacts DEF Init
<1>2. QED
  BY <1>1 DEF OwnInv, OwnedFiles, DiskOlder, Unwritten, JobHere, FilesHere, NoInsert

\* memory.go leaves no spill file without an owner: while the spill
\* directory moves only by resets and restarts, a final file belongs to a
\* member and a temporary one to an Insert in progress, or is the partial
\* file of a failed write.
THEOREM FilesAlwaysOwned ==
    ASSUME ConfigureMoves = FALSE
    PROVE  Spec => []OwnedFiles
<1>1. Init => OwnInv
  BY OwnInit
<1>2. StoreInv /\ OwnInv /\ [Next]_vars => OwnInv'
  BY OwnStep
<1>3. Spec => []StoreInv
  BY StoreInvariant
<1>4. Spec => []OwnInv
  BY <1>1, <1>2, <1>3, PTL DEF Spec
<1>5. OwnInv => OwnedFiles
  BY DEF OwnInv
<1>6. QED
  BY <1>4, <1>5, PTL

-----------------------------------------------------------------------------
(***************************************************************************)
(* The refinement: what clients can know of the store is an Inbox, whose   *)
(* operations are single steps.  The steps that only touch files, or look  *)
(* a second time, are stutters; the order list and the byte account are    *)
(* what makes "the oldest, and as few as needed" true.                     *)
(***************************************************************************)

LEMMA MessagesAre ==
    /\ DOMAIN Messages = DOMAIN byID
    /\ \A id \in DOMAIN byID : Messages[id] = Shown(id)
  BY DEF Messages

LEMMA ShownSame ==
    ASSUME UNCHANGED byID
    PROVE  Messages' = Messages
  BY DEF Messages, Shown

\* A step of one session, and of none.
LEMMA DeliveryMoves ==
    ASSUME NEW i \in Inserters, UNCHANGED epoch,
           \A j \in Inserters \ {i} : ins'[j] = ins[j]
    PROVE  Deliveries' = [Deliveries EXCEPT ![i] = Delivery(i)']
<1>1. \A j \in Inserters \ {i} : Delivery(j)' = Delivery(j)
  BY DEF Delivery
<1>2. QED
  BY <1>1 DEF Deliveries

LEMMA DeliveryStays ==
    ASSUME NEW i \in Inserters, UNCHANGED epoch,
           \A j \in Inserters \ {i} : ins'[j] = ins[j], Delivery(i)' = Delivery(i)
    PROVE  Deliveries' = Deliveries
  BY DeliveryMoves DEF Deliveries

LEMMA DeliveriesSame ==
    ASSUME UNCHANGED <<ins, epoch>>
    PROVE  Deliveries' = Deliveries
  BY DEF Deliveries, Delivery

\* A step of one reader, and of none.
LEMMA ReadMoves ==
    ASSUME NEW r \in Readers, \A q \in Readers \ {r} : rd'[q] = rd[q]
    PROVE  Reads' = [Reads EXCEPT ![r] = Looking(r)']
<1>1. \A q \in Readers \ {r} : Looking(q)' = Looking(q)
  BY DEF Looking
<1>2. QED
  BY <1>1 DEF Reads

LEMMA ReadsSame ==
    ASSUME UNCHANGED rd
    PROVE  Reads' = Reads
  BY DEF Reads, Looking

-----------------------------------------------------------------------------
(* The oldest, and as few as needed.                                       *)

\* The instance of Cardinality that Inbox brings is the usual one.
LEMMA PromisedCount ==
    ASSUME NEW S
    PROVE  Promise!Cardinality(S) = Cardinality(S)
  BY DEF Promise!Cardinality, Cardinality

LEMMA PromisedBytes ==
    ASSUME NEW S \in SUBSET DOMAIN byID
    PROVE  Promise!Bytes(S) = Cardinality(BytesIn(byID, S))
<1>1. \A id \in S : Messages[id].size = byID[id].size
  BY MessagesAre DEF Shown
<1>2. Promise!Bytes(S) = Cardinality(BytesIn(Messages, S))
  BY PromisedCount, Zenon DEF Promise!Bytes, BytesIn
<1>3. BytesIn(Messages, S) = BytesIn(byID, S)
  BY <1>1, BytesSame
<1>4. QED
  BY <1>2, <1>3

LEMMA PromisedOrder ==
    ASSUME NEW a \in DOMAIN byID, NEW b \in DOMAIN byID
    PROVE  Promise!Older(a, b) <=> Before(byID, a, b)
  BY MessagesAre DEF Promise!Older, Before, Shown

LEMMA PromisedRoom ==
    ASSUME TypeOK, IndexInv, NEW k \in 0..Len(order), NEW n, NEW b, NEW c
    PROVE  Promise!Room(Survivors(k), n, b, c) <=>
             /\ Cardinality(Survivors(k)) + n <= c.maxMessages
             /\ BytesWithout(Oldest(k)) + b <= c.maxBytes
<1>1. Survivors(k) \in SUBSET DOMAIN byID /\ Oldest(k) \in SUBSET DOMAIN byID
  BY OldestGone DEF Survivors, IndexInv, IndexExact
<1>2. BytesWithout(Oldest(k)) = Cardinality(BytesIn(byID, Survivors(k)))
  BY <1>1, AccountWithout DEF Survivors
<1>3. Promise!Bytes(Survivors(k)) = BytesWithout(Oldest(k))
  BY <1>1, <1>2, PromisedBytes
<1>4. QED
  BY <1>3, PromisedCount DEF Promise!Room

LEMMA ShortestRun ==
    ASSUME TypeOK, CapsHeld, IndexInv, NEW k \in 0..Len(order), NEW n, NEW b, NEW c,
           Promise!Room(Survivors(k), n, b, c),
           k > 0 => ~Promise!Room(Survivors(k - 1), n, b, c)
    PROVE  /\ Promise!OldestFew(Oldest(k), n, b, c)
           /\ Oldest(k) \in SUBSET DOMAIN Messages
           /\ Oldest(k) # {} => k > 0
<1>1. Oldest(k) \in SUBSET DOMAIN byID /\ Len(order) \in Nat
  BY OldestGone DEF IndexInv, IndexExact, TypeOK
<1>2. DOMAIN Messages \ Oldest(k) = Survivors(k)
  BY MessagesAre DEF Survivors
<1>3. Oldest(k) # {} => k > 0
  BY <1>1 DEF Oldest
<1>4. CASE k = 0
  <2>1. Oldest(k) = {}
    BY <1>4 DEF Oldest
  <2>2. QED
    BY <1>2, <2>1 DEF Promise!OldestFew
<1>5. CASE k # 0
  <2>1. k \in 1..Len(order)
    BY <1>1, <1>5
  <2>2. /\ \A a \in Oldest(k), d \in Survivors(k) : Promise!Older(a, d)
        /\ order[k] \in Oldest(k)
        /\ \A a \in Oldest(k) \ {order[k]} : Promise!Older(a, order[k])
    BY <1>1, <2>1, LastEvicted, PromisedOrder DEF Survivors
  <2>3. ~Promise!Room(Survivors(k) \cup {order[k]}, n, b, c)
    <3>1. Survivors(k - 1) = Survivors(k) \cup {order[k]}
      BY <2>1, LastEvicted
    <3>2. ~Promise!Room(Survivors(k - 1), n, b, c)
      BY <2>1
    <3> QED BY <3>1, <3>2, Zenon
  <2>4. QED
    BY <1>1, <1>2, <1>3, <2>2, <2>3, MessagesAre DEF Promise!OldestFew
<1>6. QED
  BY <1>4, <1>5

\* A set of naturals has a least one.
LEMMA LeastFit ==
    ASSUME NEW T, T \subseteq Nat, T # {}
    PROVE  \E x \in T : \A y \in T : x <= y
<1> DEFINE R == {ss \in Nat \X Nat : ss[1] < ss[2]}
<1>1. IsWellFoundedOn(R, Nat)
  BY NatLessThanWellFounded DEF OpToRel
<1>2. \E x \in T : \A y \in T : ~(<<y, x>> \in R)
  <2> HIDE DEF R
  <2> QED BY <1>1, WFMin
<1>3. PICK x \in T : \A y \in T : ~(<<y, x>> \in R)
  BY <1>2
<1>4. ASSUME NEW y \in T PROVE x <= y
  <2>1. x \in Nat /\ y \in Nat
    OBVIOUS
  <2>2. <<y, x>> \notin R
    BY <1>3
  <2>3. ASSUME y < x PROVE FALSE
    BY <2>1, <2>2, <2>3
  <2> QED BY <2>1, <2>3
<1>5. QED
  BY <1>4

\* An Insert that finds no run of evictions is refused for a good reason.
LEMMA NoneFits ==
    ASSUME TypeOK, CapsHeld, IndexInv, NEW b \in Nat, EvictionsToFit(b) = {}
    PROVE  Promise!Full(b)
<1>1. /\ opts \in Options /\ opts.maxMessages \in Nat \ {0} /\ opts.maxBytes \in Nat
      /\ opts.fullPolicy \in Policies /\ Len(order) \in Nat
  BY DEF TypeOK, Options
<1>2. /\ CapsOf(opts).maxMessages = opts.maxMessages /\ CapsOf(opts).maxBytes = opts.maxBytes
      /\ CapsOf(opts).fullPolicy = opts.fullPolicy
  BY DEF CapsOf
<1>3. CASE opts.fullPolicy = "reject"
  <2>1. ~Fits(0, b)
    BY <1>1 DEF EvictionsToFit
  <2>2. Survivors(0) = DOMAIN Messages
    BY MessagesAre DEF Survivors, Oldest
  <2>3. Cardinality(Survivors(0)) \in Nat
    BY <2>2, MessagesAre, FS_CardinalityType DEF CapsHeld
  <2>4. ~(Cardinality(Survivors(0)) + 1 <= opts.maxMessages /\ BytesWithout(Oldest(0)) + b <= opts.maxBytes)
    BY <1>1, <2>1, <2>3 DEF Fits
  <2>5. ~Promise!Room(Survivors(0), 1, b, CapsOf(opts))
    BY <1>1, <1>2, <2>4, PromisedRoom
  <2>6. QED
    BY <1>2, <1>3, <2>2, <2>5 DEF Promise!Full
<1>4. CASE opts.fullPolicy = "evict_oldest" /\ b <= opts.maxBytes
  <2> DEFINE T == {k \in 0..Len(order) : Fits(k, b)}
  <2>1. Len(order) \in T
    <3>1. Survivors(Len(order)) = {}
      <4>1. \A x : x \in DOMAIN byID <=> Among(x, order, Len(order))
        BY OrderKnown DEF IndexInv, IndexExact
      <4>2. QED
        BY <4>1 DEF Survivors, Oldest, Among
    <3>2. Cardinality(Survivors(Len(order))) = 0
      BY <3>1, FS_EmptySet
    <3>3. BytesWithout(Oldest(Len(order))) = 0
      <4>1. Oldest(Len(order)) \in SUBSET DOMAIN byID
        BY <1>1, OldestGone DEF IndexInv, IndexExact
      <4>2. BytesWithout(Oldest(Len(order))) = Cardinality(BytesIn(byID, {}))
        BY <3>1, <4>1, AccountWithout DEF Survivors
      <4>3. BytesIn(byID, {}) = {}
        BY DEF BytesIn
      <4>4. QED
        BY <4>2, <4>3, FS_EmptySet
    <3>4. QED
      BY <1>1, <1>4, <3>2, <3>3 DEF Fits
  <2>2. PICK k \in T : \A j \in T : k <= j
    <3>1. T \subseteq Nat
      BY <1>1
    <3> HIDE DEF T
    <3> QED BY <2>1, <3>1, LeastFit
  <2>3. \A j \in 0..(k - 1) : ~Fits(j, b)
    BY <1>1, <2>2
  <2>4. k \in EvictionsToFit(b)
    BY <1>4, <2>2, <2>3 DEF EvictionsToFit
  <2>5. QED
    BY <2>4
<1>5. CASE ~(b <= opts.maxBytes)
  BY <1>1, <1>2, <1>5 DEF Promise!Full
<1>6. QED
  BY <1>1, <1>3, <1>4, <1>5 DEF Policies

-----------------------------------------------------------------------------
(* The steps of an Insert.                                                 *)

\* Insert, up to the moment the message is accepted or refused.
LEMMA InsertBegins ==
    ASSUME TypeOK, NEW i \in Inserters, CaptureEpoch(i)
    PROVE  Promise!Begin(i)
<1>1. /\ ins[i].pc = "idle" /\ UNCHANGED <<index, nextId, rd>>
      /\ ins'[i] = [NoInsert EXCEPT !.pc = "data", !.epoch = epoch]
      /\ \A j \in Inserters \ {i} : ins'[j] = ins[j]
  BY InsNew DEF CaptureEpoch
<1>2. UNCHANGED <<opts, epoch, byID>>
  BY <1>1 DEF index
<1>3. Deliveries[i].st = "none"
  BY <1>1 DEF Deliveries, Delivery, NoDelivery
<1>4. Delivery(i)' = [Promise!NoMail EXCEPT !.st = "begun", !.valid = TRUE]
  <2>1. ins'[i].pc = "data" /\ ins'[i].epoch = epoch'
    BY <1>1, <1>2 DEF NoInsert
  <2>2. Delivery(i)' = [NoDelivery EXCEPT !.st = "begun", !.valid = TRUE]
    BY <2>1 DEF Delivery, NoDelivery
  <2>3. QED
    BY <2>2 DEF NoDelivery, Promise!NoMail
<1>5. Deliveries' = [Deliveries EXCEPT ![i] = Delivery(i)']
  BY <1>1, <1>2, DeliveryMoves
<1>6. Messages' = Messages /\ Reads' = Reads /\ CapsOf(opts)' = CapsOf(opts)
  BY <1>1, <1>2, ShownSame, ReadsSame
<1>7. QED
  BY <1>1, <1>3, <1>4, <1>5, <1>6 DEF Promise!Begin

LEMMA InsertNames ==
    ASSUME TypeOK, NEW i \in Inserters, NEW at, NEW size, NEW parts,
           InsertPrepare(i, at, size, parts)
    PROVE  Promise!Name(i, at, size)
<1> DEFINE new == [ins[i] EXCEPT !.pc = "spill", !.id = nextId, !.at = at, !.size = size,
                     !.todo = IF opts.spillDir = NoDir THEN {} ELSE parts]
<1>1. /\ ins[i].pc = "data" /\ nextId' = nextId + 1 /\ UNCHANGED <<index, rd>>
      /\ ins' = [ins EXCEPT ![i] = IF size > opts.maxBytes THEN NoInsert ELSE new]
  BY DEF InsertPrepare
<1>2. /\ ins'[i] = IF size > opts.maxBytes THEN NoInsert ELSE new
      /\ \A j \in Inserters \ {i} : ins'[j] = ins[j]
  <2> HIDE DEF new
  <2> QED BY <1>1, InsNew
<1>3. UNCHANGED <<opts, epoch, byID>> /\ CapsOf(opts).maxBytes = opts.maxBytes
  BY <1>1 DEF index, CapsOf
<1>4. Deliveries[i].st = "begun" /\ Deliveries[i].valid = (ins[i].epoch = epoch)
  BY <1>1 DEF Deliveries, Delivery, NoDelivery
<1>5. Delivery(i)' = IF size > opts.maxBytes
                     THEN Promise!NoMail
                     ELSE [st |-> "named", valid |-> Deliveries[i].valid, id |-> nextId,
                           at |-> at, size |-> size]
  <2>1. CASE size > opts.maxBytes
    BY <1>2, <2>1 DEF Delivery, NoInsert, NoDelivery, Promise!NoMail
  <2>2. CASE ~(size > opts.maxBytes)
    <3>1. /\ new.pc = "spill" /\ new.id = nextId /\ new.at = at /\ new.size = size
          /\ new.epoch = ins[i].epoch
      BY InsType DEF InsertCall
    <3> HIDE DEF new
    <3>2. ins'[i] = new
      BY <1>2, <2>2
    <3>3. QED
      BY <1>3, <1>4, <2>2, <3>1, <3>2 DEF Delivery
  <2>3. QED
    BY <2>1, <2>2
<1>6. Deliveries' = [Deliveries EXCEPT ![i] = Delivery(i)']
  BY <1>2, <1>3, DeliveryMoves
<1>7. Messages' = Messages /\ Reads' = Reads /\ CapsOf(opts)' = CapsOf(opts)
  BY <1>1, <1>3, ShownSame, ReadsSame
<1>8. QED
  BY <1>1, <1>3, <1>4, <1>5, <1>6, <1>7 DEF Promise!Name

\* A delivery that was named is refused when its session has nothing any more.
LEMMA Refused ==
    ASSUME TypeOK, NEW i \in Inserters, ins[i].pc \in {"spill", "writing"},
           ins' = [ins EXCEPT ![i] = ins'[i]], ins'[i].pc = "abort",
           UNCHANGED <<index, nextId, rd>>,
           \/ ins[i].epoch # epoch
           \/ Promise!Full(ins[i].size)
           \/ FaultyParts # {}
    PROVE  Promise!Refuse(i)
<1>1. UNCHANGED <<opts, epoch, byID>> /\ \A j \in Inserters \ {i} : ins'[j] = ins[j]
  BY DEF index, TypeOK
<1>2. /\ Deliveries[i].st = "named" /\ Deliveries[i].size = ins[i].size
      /\ Deliveries[i].valid = (ins[i].epoch = epoch)
  BY DEF Deliveries, Delivery
<1>3. Delivery(i)' = Promise!NoMail
  BY DEF Delivery, NoDelivery, Promise!NoMail
<1>4. Deliveries' = [Deliveries EXCEPT ![i] = Promise!NoMail]
  BY <1>1, <1>3, DeliveryMoves
<1>5. Messages' = Messages /\ Reads' = Reads /\ CapsOf(opts)' = CapsOf(opts)
  BY <1>1, ShownSame, ReadsSame
<1>6. QED
  BY <1>2, <1>4, <1>5 DEF Promise!Refuse

\* The locked section that accepts is the one step of the delivery.
LEMMA InsertAccepts ==
    ASSUME StoreInv, IndexInv, NEW i \in Inserters, NEW k \in 0..Len(order),
           NEW left, NEW pos, InsertCommit(i, k, left, pos)
    PROVE  Promise!Accept(i, Oldest(k)) /\ Oldest(k) \in SUBSET DOMAIN Messages
<1> DEFINE c == ins[i]
           rec == [at |-> c.at, size |-> c.size, epoch |-> c.epoch,
                   read |-> FALSE, files |-> FinalFiles(i, c.job)]
<1>0. TypeOK /\ CapsHeld /\ Len(order) \in Nat
  BY DEF StoreInv, TypeOK
<1>1. /\ c.pc = "spill" /\ c.epoch = epoch /\ k \in EvictionsToFit(c.size)
      /\ byID' = [id \in Survivors(k) \cup {c.id} |-> IF id = c.id THEN rec ELSE byID[id]]
      /\ ins' = [ins EXCEPT ![i] = NoInsert] /\ UNCHANGED <<opts, epoch, nextId, rd>>
  BY DEF InsertCommit, ReadyToCommit, Fresh
<1>2. /\ ins'[i] = NoInsert /\ \A j \in Inserters \ {i} : ins'[j] = ins[j]
  BY <1>0, <1>1, InsNew
<1>3. /\ Deliveries[i].st = "named" /\ Deliveries[i].valid = TRUE
      /\ Deliveries[i].id = c.id /\ Deliveries[i].at = c.at /\ Deliveries[i].size = c.size
  BY <1>1 DEF Deliveries, Delivery
<1>4. Deliveries' = [Deliveries EXCEPT ![i] = Promise!NoMail]
  <2>1. Delivery(i)' = Promise!NoMail
    BY <1>2 DEF Delivery, NoInsert, NoDelivery, Promise!NoMail
  <2>2. QED
    BY <1>1, <1>2, <2>1, DeliveryMoves
<1>5. c.size \in Nat /\ opts.maxMessages \in Nat /\ opts.maxBytes \in Nat
  BY <1>0, InsType DEF TypeOK, Options
<1>6. /\ Promise!Room(Survivors(k), 1, c.size, CapsOf(opts))
      /\ k > 0 => ~Promise!Room(Survivors(k - 1), 1, c.size, CapsOf(opts))
      /\ k > 0 => opts.fullPolicy = "evict_oldest"
  <2>1. /\ CapsOf(opts).maxMessages = opts.maxMessages /\ CapsOf(opts).maxBytes = opts.maxBytes
    BY DEF CapsOf
  <2>2. ASSUME NEW j \in 0..Len(order)
        PROVE  Fits(j, c.size) <=> Promise!Room(Survivors(j), 1, c.size, CapsOf(opts))
    <3>1. Cardinality(Survivors(j)) \in Nat
      <4>1. Survivors(j) \in SUBSET DOMAIN byID
        BY DEF Survivors
      <4>2. QED
        BY <1>0, <4>1, FS_Subset, FS_CardinalityType DEF CapsHeld
    <3>2. Cardinality(Survivors(j)) < opts.maxMessages
            <=> Cardinality(Survivors(j)) + 1 <= opts.maxMessages
      BY <1>5, <3>1
    <3>3. QED
      BY <1>0, <2>1, <3>2, PromisedRoom DEF Fits
  <2>3. Fits(k, c.size) /\ \A j \in 0..(k - 1) : ~Fits(j, c.size)
    BY <1>1 DEF EvictionsToFit
  <2>4. k > 0 => ~Fits(k - 1, c.size) /\ k - 1 \in 0..Len(order)
    BY <1>0, <2>3
  <2>5. k > 0 => opts.fullPolicy = "evict_oldest"
    BY <1>1 DEF EvictionsToFit
  <2>6. QED
    BY <2>2, <2>3, <2>4, <2>5
<1>7. /\ Promise!OldestFew(Oldest(k), 1, c.size, CapsOf(opts))
      /\ Oldest(k) \in SUBSET DOMAIN Messages
      /\ Oldest(k) # {} => CapsOf(opts).fullPolicy = "evict_oldest"
  <2>1. CapsOf(opts).fullPolicy = opts.fullPolicy
    BY DEF CapsOf
  <2> HIDE DEF c
  <2>2. QED
    BY <1>0, <1>5, <1>6, <2>1, ShortestRun
<1>8. Messages' = [id \in (DOMAIN Messages \ Oldest(k)) \cup {c.id} |->
                     IF id = c.id THEN [at |-> c.at, size |-> c.size, read |-> FALSE]
                                  ELSE Messages[id]]
  <2>1. DOMAIN Messages \ Oldest(k) = Survivors(k)
    BY MessagesAre DEF Survivors
  <2>2. DOMAIN byID' = Survivors(k) \cup {c.id}
    BY <1>1
  <2>3. \A id \in Survivors(k) \cup {c.id} :
          Shown(id)' = IF id = c.id THEN [at |-> c.at, size |-> c.size, read |-> FALSE]
                                    ELSE Messages[id]
    <3> SUFFICES ASSUME NEW id \in Survivors(k) \cup {c.id}
                 PROVE  Shown(id)' = IF id = c.id
                                     THEN [at |-> c.at, size |-> c.size, read |-> FALSE]
                                     ELSE Messages[id]
      OBVIOUS
    <3>1. CASE id = c.id
      <4>1. byID'[id] = rec
        BY <1>1, <3>1
      <4>2. QED
        BY <3>1, <4>1 DEF Shown
    <3>2. CASE id # c.id
      <4>1. byID'[id] = byID[id] /\ id \in DOMAIN byID
        BY <1>1, <3>2 DEF Survivors
      <4>2. QED
        BY <3>2, <4>1, MessagesAre DEF Shown
    <3>3. QED
      BY <3>1, <3>2
  <2>4. QED
    BY <2>1, <2>2, <2>3 DEF Messages
<1>9. Reads' = Reads /\ CapsOf(opts)' = CapsOf(opts)
  BY <1>1, ReadsSame
<1>10. QED
  BY <1>1, <1>3, <1>4, <1>7, <1>8, <1>9 DEF Promise!Accept

\* A step that changes nothing a client can know.
LEMMA Unseen ==
    ASSUME UNCHANGED <<byID, rd, nextId>>, CapsOf(opts)' = CapsOf(opts),
           Deliveries' = Deliveries
    PROVE  UNCHANGED Promise!vars
  BY ShownSame, ReadsSame DEF Promise!vars

LEMMA InsertPromised ==
    ASSUME StoreInv, IndexInv, NEW i \in Inserters, InsertStep(i)
    PROVE  Promise!Deliver(i) \/ UNCHANGED Promise!vars
<1> USE DEF Promise!Deliver
<1>0. TypeOK /\ CapsHeld /\ FreshTempsKept /\ ins[i].size \in Nat
  BY InsType DEF StoreInv
<1>1. CASE CaptureEpoch(i)
  BY <1>0, <1>1, InsertBegins
<1>2. CASE \E at \in Times, size \in Sizes, parts \in SUBSET Parts : InsertPrepare(i, at, size, parts)
  BY <1>0, <1>2, InsertNames
<1>3. CASE \E p \in ins[i].todo : SpillBegin(i, p) \/ SpillEnd(i, p)
  <2> PICK p \in ins[i].todo : SpillBegin(i, p) \/ SpillEnd(i, p)
    BY <1>3
  <2> DEFINE began == [ins[i] EXCEPT !.pc = "writing", !.wdir = opts.spillDir]
             ended == [ins[i] EXCEPT !.pc = "spill", !.todo = ins[i].todo \ {p},
                         !.job = ins[i].job \cup
                                   {[part |-> p, tmp |-> ins[i].wdir,
                                     final |-> opts.spillDir]}]
             failed == [ins[i] EXCEPT !.pc = "abort"]
  <2>1. /\ ins[i].pc \in {"spill", "writing"} /\ UNCHANGED <<index, nextId, rd>>
        /\ \/ ins' = [ins EXCEPT ![i] = began] \/ ins' = [ins EXCEPT ![i] = ended]
           \/ ins' = [ins EXCEPT ![i] = failed] /\ FaultyParts # {}
    BY DEF SpillBegin, SpillEnd
  <2>2. UNCHANGED <<opts, epoch, byID>>
    BY <2>1 DEF index
  <2>3. CASE ins' = [ins EXCEPT ![i] = began] \/ ins' = [ins EXCEPT ![i] = ended]
    <3>1. PICK new \in {began, ended} : ins' = [ins EXCEPT ![i] = new]
      BY <2>3
    <3>2. /\ new.pc \in {"spill", "writing"} /\ new.epoch = ins[i].epoch
          /\ new.id = ins[i].id /\ new.at = ins[i].at /\ new.size = ins[i].size
      BY <1>0, <3>1, InsType DEF InsertCall
    <3> HIDE DEF began, ended
    <3>3. ins'[i] = new /\ \A j \in Inserters \ {i} : ins'[j] = ins[j]
      BY <1>0, <3>1, InsNew
    <3>4. Delivery(i)' = Delivery(i)
      BY <2>1, <2>2, <3>2, <3>3 DEF Delivery
    <3>5. Deliveries' = Deliveries
      BY <2>2, <3>3, <3>4, DeliveryStays
    <3>6. QED
      BY <2>1, <2>2, <3>5, Unseen
  <2>4. CASE ins' = [ins EXCEPT ![i] = failed] /\ FaultyParts # {}
    <3>1. failed.pc = "abort"
      BY <1>0, InsType DEF InsertCall
    <3> HIDE DEF failed
    <3>2. ins'[i] = failed
      BY <1>0, <2>4, InsNew
    <3>3. QED
      BY <1>0, <2>1, <2>4, <3>1, <3>2, Refused
  <2>5. QED
    BY <2>1, <2>3, <2>4
<1>4. CASE InsertReject(i)
  <2> DEFINE failed == [ins[i] EXCEPT !.pc = "abort"]
  <2>1. /\ ins[i].pc = "spill" /\ ins' = [ins EXCEPT ![i] = failed]
        /\ UNCHANGED <<index, nextId, rd>>
        /\ ins[i].epoch # epoch \/ EvictionsToFit(ins[i].size) = {}
    BY <1>4 DEF InsertReject, ReadyToCommit, Fresh
  <2>2. failed.pc = "abort"
    BY <1>0, InsType DEF InsertCall
  <2> HIDE DEF failed
  <2>3. ins'[i] = failed
    BY <1>0, <2>1, InsNew
  <2>4. ins[i].epoch # epoch \/ Promise!Full(ins[i].size)
    BY <1>0, <2>1, NoneFits
  <2>5. QED
    BY <1>0, <2>1, <2>2, <2>3, <2>4, Refused
<1>5. CASE \E e \in ins[i].job : InsertRenameFails(i, e)
  <2> PICK e \in ins[i].job : InsertRenameFails(i, e)
    BY <1>5
  <2> DEFINE done == {d \in ins[i].job : d.part < e.part}
             failed == [ins[i] EXCEPT !.pc = "abort", !.job = ins[i].job \ done]
  <2>1. /\ ins[i].pc = "spill" /\ ins[i].epoch = epoch
        /\ ins' = [ins EXCEPT ![i] = failed] /\ UNCHANGED <<index, nextId, rd>>
        /\ e.part \in FaultyParts \/ Tmp(i, e) \notin disk
    BY DEF InsertRenameFails, ReadyToCommit, Fresh
  <2>2. failed.pc = "abort"
    <3> HIDE DEF done
    <3> QED BY <1>0, InsType DEF InsertCall
  <2> HIDE DEF failed
  <2>3. ins'[i] = failed
    BY <1>0, <2>1, InsNew
  <2>4. FaultyParts # {}
    <3>1. Tmp(i, e) \in TmpFiles(i, ins[i].job)
      BY DEF TmpFiles
    <3>2. Tmp(i, e) \in disk
      BY <1>0, <2>1, <3>1 DEF FreshTempsKept, Fresh
    <3>3. QED
      BY <2>1, <3>2
  <2>5. QED
    BY <1>0, <2>1, <2>2, <2>3, <2>4, Refused
<1>6. CASE \E k \in 0..Len(order), left \in 0..bytes, pos \in 1..(Len(order) + 1) :
              InsertCommit(i, k, left, pos)
  BY <1>6, InsertAccepts
<1>7. CASE InsertAbort(i)
  <2>1. /\ ins[i].pc = "abort" /\ ins' = [ins EXCEPT ![i] = NoInsert]
        /\ UNCHANGED <<index, nextId, rd>>
    BY <1>7 DEF InsertAbort
  <2>2. UNCHANGED <<opts, epoch, byID>>
    BY <2>1 DEF index
  <2>3. ins'[i] = NoInsert /\ \A j \in Inserters \ {i} : ins'[j] = ins[j]
    BY <1>0, <2>1, InsNew
  <2>4. Delivery(i)' = Delivery(i)
    BY <2>1, <2>3 DEF Delivery, NoInsert
  <2>5. Deliveries' = Deliveries
    BY <2>2, <2>3, <2>4, DeliveryStays
  <2>6. QED
    BY <2>1, <2>2, <2>5, Unseen
<1>8. QED
  BY <1>1, <1>2, <1>3, <1>4, <1>5, <1>6, <1>7 DEF InsertStep

-----------------------------------------------------------------------------
(* The steps of a Get or List.                                             *)

LEMMA RdNew ==
    ASSUME TypeOK, NEW r \in Readers, NEW new, rd' = [rd EXCEPT ![r] = new]
    PROVE  rd'[r] = new /\ \A q \in Readers \ {r} : rd'[q] = rd[q]
  BY DEF TypeOK

\* Two records that differ in one field.
LEMMA FieldSet ==
    ASSUME NEW f, NEW h, NEW d, NEW v, h = [x \in DOMAIN h |-> h[x]], DOMAIN f = DOMAIN h,
           h[d] = v, \A x \in DOMAIN h \ {d} : h[x] = f[x]
    PROVE  [f EXCEPT ![d] = v] = h
<1>1. \A x \in DOMAIN h : h[x] = IF x = d THEN v ELSE f[x]
  OBVIOUS
<1>2. [f EXCEPT ![d] = v] = [x \in DOMAIN h |-> IF x = d THEN v ELSE f[x]]
  OBVIOUS
<1>3. QED
  BY <1>1, <1>2

\* A call that returns is one whose client has its answer.
LEMMA ReadAnswers ==
    ASSUME TypeOK, NEW r \in Readers, NEW res, Return(r, res)
    PROVE  Promise!Answer(r, res)
<1>1. /\ rd'[r] = [NoRead EXCEPT !.res = res]
      /\ \A q \in Readers \ {r} : rd'[q] = rd[q]
  BY RdNew DEF Return
<1>2. Looking(r)' = [Promise!NoLook EXCEPT !.res = res]
  <2>1. /\ rd'[r].pc = "idle" /\ rd'[r].page = {} /\ rd'[r].mark = FALSE
        /\ rd'[r].res = res
    BY <1>1 DEF NoRead
  <2>2. Looking(r)' = [op |-> "idle", page |-> {}, mark |-> FALSE, res |-> res]
    BY <2>1 DEF Looking
  <2>3. QED
    <3> DEFINE h == [op |-> "idle", page |-> {}, mark |-> FALSE, res |-> res]
    <3>1. /\ DOMAIN h = {"op", "page", "mark", "res"} /\ h = [x \in DOMAIN h |-> h[x]]
          /\ h.op = "idle" /\ h.page = {} /\ h.mark = FALSE /\ h.res = res
      OBVIOUS
    <3>2. /\ DOMAIN Promise!NoLook = {"op", "page", "mark", "res"}
          /\ Promise!NoLook.op = "idle" /\ Promise!NoLook.page = {}
          /\ Promise!NoLook.mark = FALSE
      BY DEF Promise!NoLook
    <3>3. [Promise!NoLook EXCEPT !["res"] = res] = h
      <4> HIDE DEF h
      <4> QED BY <3>1, <3>2, FieldSet
    <3>4. QED
      BY <2>2, <3>3
<1>3. QED
  BY <1>1, <1>2, ReadMoves DEF Promise!Answer

\* What no step of a reader touches.
LEMMA OnlyReads ==
    ASSUME UNCHANGED <<opts, epoch, nextId, ins>>
    PROVE  UNCHANGED <<CapsOf(opts), Deliveries, nextId>>
  BY DeliveriesSame

\* Read bits change, and nothing else.
LEMMA MarksSeen ==
    ASSUME NEW S, byID' = [id \in DOMAIN byID |->
                             IF id \in S THEN [byID[id] EXCEPT !.read = TRUE] ELSE byID[id]],
           TypeOK
    PROVE  Messages' = Promise!Seen(S)
<1>1. DOMAIN byID' = DOMAIN byID
  OBVIOUS
<1>2. ASSUME NEW id \in DOMAIN byID
      PROVE  Shown(id)' = IF id \in S THEN [Shown(id) EXCEPT !.read = TRUE] ELSE Shown(id)
  <2>1. byID[id] \in Record /\ byID'[id] = IF id \in S THEN [byID[id] EXCEPT !.read = TRUE]
                                                       ELSE byID[id]
    BY DEF TypeOK
  <2>2. CASE id \in S
    <3>1. /\ byID'[id].at = byID[id].at /\ byID'[id].size = byID[id].size
          /\ byID'[id].read = TRUE
      BY <2>1, <2>2 DEF Record
    <3>2. QED
      BY <2>2, <3>1 DEF Shown
  <2>3. CASE id \notin S
    BY <2>1, <2>3 DEF Shown
  <2>4. QED
    BY <2>2, <2>3
<1>3. QED
  BY <1>1, <1>2, MessagesAre DEF Messages, Promise!Seen

LEMMA ReadPromised ==
    ASSUME StoreInv, NEW r \in Readers, ReadStep(r)
    PROVE  Promise!Read(r) \/ UNCHANGED Promise!vars
<1> USE DEF Promise!Read
<1>0. TypeOK /\ MissingMeansGone /\ ReadersSeePublished /\ MembersReadable
  BY DEF StoreInv
<1>1. CASE \E id \in 1..(nextId - 1), mark \in BOOLEAN : GetBegin(r, id, mark)
  <2> PICK id \in 1..(nextId - 1), mark \in BOOLEAN : GetBegin(r, id, mark)
    BY <1>1
  <2>1. rd[r].pc = "idle" /\ UNCHANGED <<opts, epoch, byID, nextId, ins>>
    BY DEF GetBegin, index
  <2>2. UNCHANGED <<Messages, CapsOf(opts), Deliveries, nextId>>
    BY <2>1, OnlyReads, ShownSame
  <2>3. Reads[r].op = "idle"
    BY <2>1 DEF Reads, Looking
  <2>4. CASE id \in DOMAIN byID
    <3> DEFINE new == [pc |-> "get", page |-> {id}, mark |-> mark,
                       files |-> byID[id].files, res |-> "none"]
    <3>1. rd' = [rd EXCEPT ![r] = new]
      BY <2>4 DEF GetBegin
    <3>2. rd'[r] = new /\ \A q \in Readers \ {r} : rd'[q] = rd[q]
      BY <1>0, <3>1, RdNew
    <3>3. Looking(r)' = [op |-> "get", page |-> {id}, mark |-> mark, res |-> "none"]
      BY <3>2 DEF Looking
    <3>4. Reads' = [Reads EXCEPT ![r] = Looking(r)']
      BY <3>2, ReadMoves
    <3>5. Promise!Get(r, id, mark)
      BY <2>2, <2>3, <2>4, <3>3, <3>4, MessagesAre DEF Promise!Get
    <3>6. QED
      BY <3>5
  <2>5. CASE id \notin DOMAIN byID
    <3>1. Promise!Answer(r, "notFound")
      BY <1>0, <2>5, ReadAnswers DEF GetBegin
    <3>2. Promise!Get(r, id, mark)
      BY <2>2, <2>3, <2>5, <3>1, MessagesAre DEF Promise!Get
    <3>3. QED
      BY <3>2
  <2>6. QED
    BY <2>4, <2>5
<1>2. CASE \E page \in SUBSET DOMAIN byID : ListBegin(r, page)
  <2> PICK page \in SUBSET DOMAIN byID : ListBegin(r, page)
    BY <1>2
  <2> DEFINE new == [pc |-> "list", page |-> page, mark |-> FALSE,
                     files |-> FilesOf(page), res |-> "none"]
  <2>1. rd[r].pc = "idle" /\ UNCHANGED <<opts, epoch, byID, nextId, ins>>
    BY DEF ListBegin, index
  <2>2. UNCHANGED <<Messages, CapsOf(opts), Deliveries, nextId>>
    BY <2>1, OnlyReads, ShownSame
  <2>3. Reads[r].op = "idle"
    BY <2>1 DEF Reads, Looking
  <2>4. rd'[r] = new /\ \A q \in Readers \ {r} : rd'[q] = rd[q]
    BY <1>0, RdNew DEF ListBegin
  <2>5. Looking(r)' = [op |-> "list", page |-> page, mark |-> FALSE, res |-> "none"]
    BY <2>4 DEF Looking
  <2>6. Reads' = [Reads EXCEPT ![r] = Looking(r)']
    BY <2>4, ReadMoves
  <2>7. Promise!List(r, page) /\ page \in SUBSET DOMAIN Messages
    BY <2>2, <2>3, <2>5, <2>6, MessagesAre DEF Promise!List
  <2>8. QED
    BY <2>7
<1>3. CASE Load(r)
  <2>1. rd[r].pc \in {"get", "list"} /\ UNCHANGED <<opts, epoch, byID, nextId, ins>>
    BY <1>3 DEF Load, index
  <2>2. UNCHANGED <<Messages, CapsOf(opts), Deliveries, nextId>>
    BY <2>1, OnlyReads, ShownSame
  <2>3. /\ Reads[r].op = rd[r].pc /\ Reads[r].page = rd[r].page
    BY <2>1 DEF Reads, Looking
  <2>4. CASE /\ rd[r].pc = "get"
             /\ \E pc \in {"missing", "recheck"} : rd' = [rd EXCEPT ![r].pc = pc]
    <3> PICK pc \in {"missing", "recheck"} : rd' = [rd EXCEPT ![r].pc = pc]
      BY <2>4
    <3> DEFINE new == [rd[r] EXCEPT !.pc = pc]
    <3>1. /\ new.pc = pc /\ new.page = rd[r].page /\ new.mark = rd[r].mark
          /\ new.res = rd[r].res
      BY <1>0, ReadType DEF ReadCall
    <3>2. rd' = [rd EXCEPT ![r] = new]
      OBVIOUS
    <3> HIDE DEF new
    <3>3. rd'[r] = new /\ \A q \in Readers \ {r} : rd'[q] = rd[q]
      BY <1>0, <3>2, RdNew
    <3>4. Looking(r)' = Looking(r)
      BY <2>4, <3>1, <3>3 DEF Looking
    <3>5. Reads' = [Reads EXCEPT ![r] = Looking(r)]
      BY <3>3, <3>4, ReadMoves
    <3>6. Reads' = Reads
      BY <3>5 DEF Reads
    <3>7. QED
      BY <2>2, <3>6 DEF Promise!vars
  <2>5. CASE rd[r].pc = "list" /\ Return(r, "ok")
    <3>1. Promise!ListAnswers(r)
      BY <1>0, <2>2, <2>3, <2>5, ReadAnswers DEF Promise!ListAnswers
    <3>2. QED
      BY <3>1
  <2>6. CASE rd[r].pc = "list" /\ ~(rd[r].files \subseteq disk) /\ Return(r, "errSpill")
    <3>1. ~(rd[r].page \subseteq DOMAIN byID)
      <4>1. ASSUME rd[r].page \subseteq DOMAIN byID PROVE FALSE
        <5>1. rd[r].files = FilesOf(rd[r].page)
          BY <1>0, <2>6, <4>1 DEF ReadersSeePublished
        <5>2. FilesOf(rd[r].page) \subseteq FilesOf(DOMAIN byID)
          BY <4>1 DEF FilesOf
        <5>3. QED
          BY <1>0, <2>6, <5>1, <5>2 DEF MembersReadable
      <4>2. QED
        BY <4>1
    <3>2. Promise!ReadFails(r)
      BY <1>0, <2>2, <2>3, <2>6, <3>1, ReadAnswers, MessagesAre DEF Promise!ReadFails
    <3>3. QED
      BY <3>2
  <2>7. CASE (\E f \in rd[r].files : f.part \in FaultyParts) /\ Return(r, "errSpill")
    <3>1. FaultyParts # {} /\ Reads[r].op # "idle"
      BY <2>1, <2>3, <2>7
    <3>2. Promise!ReadFails(r)
      BY <1>0, <2>2, <2>7, <3>1, ReadAnswers DEF Promise!ReadFails
    <3>3. QED
      BY <3>2
  <2>8. QED
    BY <1>3, <2>1, <2>4, <2>5, <2>6, <2>7 DEF Load
<1>4. CASE GetMissing(r)
  <2>1. rd[r].pc = "missing" /\ UNCHANGED <<opts, epoch, byID, nextId, ins>>
    BY <1>4 DEF GetMissing, index
  <2>2. UNCHANGED <<Messages, CapsOf(opts), Deliveries, nextId>>
    BY <2>1, OnlyReads, ShownSame
  <2>3. /\ Reads[r].op = "get" /\ Reads[r].page = rd[r].page
    BY <2>1 DEF Reads, Looking
  <2>4. ~(rd[r].page \subseteq DOMAIN byID)
    BY <1>0, <2>1 DEF MissingMeansGone, StillMember
  <2>5. Promise!Answer(r, "notFound")
    BY <1>0, <1>4, <2>4, ReadAnswers DEF GetMissing, StillMember
  <2>6. Promise!GetAnswers(r)
    BY <2>2, <2>3, <2>4, <2>5, MessagesAre DEF Promise!GetAnswers
  <2>7. QED
    BY <2>6
<1>5. CASE GetFinish(r)
  <2>1. rd[r].pc = "recheck" /\ UNCHANGED <<opts, epoch, nextId, ins>>
    BY <1>5 DEF GetFinish
  <2>2. UNCHANGED <<CapsOf(opts), Deliveries, nextId>>
    BY <2>1, OnlyReads
  <2>3. /\ Reads[r].op = "get" /\ Reads[r].page = rd[r].page /\ Reads[r].mark = rd[r].mark
    BY <2>1 DEF Reads, Looking
  <2>4. CASE rd[r].page \subseteq DOMAIN byID
    <3> DEFINE S == IF rd[r].mark THEN rd[r].page ELSE {}
    <3>1. Return(r, "ok")
      BY <1>5, <2>4 DEF GetFinish, StillMember
    <3>2. byID' = [id \in DOMAIN byID |->
                     IF id \in S THEN [byID[id] EXCEPT !.read = TRUE] ELSE byID[id]]
      BY <1>5, <2>4 DEF GetFinish, StillMember
    <3>3. Messages' = Promise!Seen(S)
      <4> HIDE DEF S
      <4> QED BY <1>0, <3>2, MarksSeen
    <3>4. ~rd[r].mark => Promise!Seen(S) = Messages
      BY DEF Promise!Seen, Messages
    <3>5. Promise!Answer(r, "ok")
      BY <1>0, <3>1, ReadAnswers
    <3>6. Messages' = IF Reads[r].mark THEN Promise!Seen(Reads[r].page) ELSE Messages
      BY <2>3, <3>3, <3>4
    <3>7. Promise!GetAnswers(r)
      BY <2>2, <2>3, <2>4, <3>5, <3>6, MessagesAre DEF Promise!GetAnswers
    <3>8. QED
      BY <3>7
  <2>5. CASE ~(rd[r].page \subseteq DOMAIN byID)
    <3>1. Return(r, "notFound") /\ UNCHANGED byID
      BY <1>5, <2>5 DEF GetFinish, StillMember
    <3>2. Promise!Answer(r, "notFound") /\ Messages' = Messages
      BY <1>0, <3>1, ReadAnswers, ShownSame
    <3>3. Promise!GetAnswers(r)
      BY <2>2, <2>3, <2>5, <3>2, MessagesAre DEF Promise!GetAnswers
    <3>4. QED
      BY <3>3
  <2>6. QED
    BY <2>4, <2>5
<1>6. QED
  BY <1>1, <1>2, <1>3, <1>4, <1>5 DEF ReadStep

-----------------------------------------------------------------------------
(* Administration.                                                         *)

\* The caps in force are among those an operator can install, whatever spill
\* directory they came with.
CapsOffered == \E o \in NormalOptions : CapsOf(opts) = CapsOf(o)

LEMMA CapsOfKept ==
    ASSUME NEW o, NEW d
    PROVE  CapsOf([o EXCEPT !.spillDir = d]) = CapsOf(o)
  BY DEF CapsOf

\* Removal of a set of members.
LEMMA RemovedMessages ==
    ASSUME NEW S, byID' = [id \in DOMAIN byID \ S |-> byID[id]]
    PROVE  Messages' = Promise!Without(S)
<1>1. \A id \in DOMAIN byID \ S : Shown(id)' = Shown(id)
  BY DEF Shown
<1>2. QED
  BY <1>1, MessagesAre DEF Messages, Promise!Without

LEMMA EmptiedMessages ==
    ASSUME byID' = NoRecords
    PROVE  Messages' = Promise!Nothing
<1>1. DOMAIN byID' = {}
  BY DEF NoRecords
<1>2. QED
  BY <1>1 DEF Messages, Promise!Nothing

LEMMA CapsPromised ==
    ASSUME StoreInv, IndexInv, NEW o, NEW may, NEW k \in 0..Len(order), NEW left,
           InstallCaps(o, may, k, left), NEW c, CapsOf(o) = c
    PROVE  /\ Promise!ReplaceCaps(c, Oldest(k))
           /\ Oldest(k) \in SUBSET DOMAIN Messages
<1>0. TypeOK /\ CapsHeld /\ Len(order) \in Nat
  BY DEF StoreInv, TypeOK
<1>1. /\ k \in EvictionsToUnder(o) /\ opts' = o
      /\ byID' = [id \in DOMAIN byID \ Oldest(k) |-> byID[id]]
      /\ UNCHANGED <<epoch, nextId, ins, rd>>
  BY DEF InstallCaps, RemoveMembers
<1>2. c.maxMessages = o.maxMessages /\ c.maxBytes = o.maxBytes
  BY DEF CapsOf
<1>3. ASSUME NEW j \in 0..Len(order)
      PROVE  UnderCaps(j, o) <=> Promise!Room(Survivors(j), 0, 0, c)
  <2>1. Cardinality(Survivors(j)) \in Nat
    <3>1. Survivors(j) \in SUBSET DOMAIN byID
      BY DEF Survivors
    <3>2. QED
      BY <1>0, <3>1, FS_Subset, FS_CardinalityType DEF CapsHeld
  <2>2. BytesWithout(Oldest(j)) \in Nat
    <3>1. Oldest(j) \in SUBSET DOMAIN byID
      BY <1>0, OldestGone DEF IndexInv, IndexExact
    <3>2. QED
      BY <1>0, <3>1, AccountWithout
  <2>3. Promise!Room(Survivors(j), 0, 0, c) <=>
          /\ Cardinality(Survivors(j)) + 0 <= c.maxMessages
          /\ BytesWithout(Oldest(j)) + 0 <= c.maxBytes
    BY <1>0, PromisedRoom
  <2>4. QED
    BY <1>2, <2>1, <2>2, <2>3 DEF UnderCaps
<1>4. UnderCaps(k, o) /\ \A j \in 0..(k - 1) : ~UnderCaps(j, o)
  BY <1>1 DEF EvictionsToUnder
<1>5. k > 0 => ~UnderCaps(k - 1, o) /\ k - 1 \in 0..Len(order)
  BY <1>0, <1>4
<1>6. /\ Promise!OldestFew(Oldest(k), 0, 0, c)
      /\ Oldest(k) \in SUBSET DOMAIN Messages
      /\ Oldest(k) # {} => k > 0
  <2>1. /\ Promise!Room(Survivors(k), 0, 0, c)
        /\ k > 0 => ~Promise!Room(Survivors(k - 1), 0, 0, c)
    BY <1>3, <1>4, <1>5
  <2>2. QED
    BY <1>0, <2>1, ShortestRun
<1>7. Messages' = Promise!Without(Oldest(k)) /\ CapsOf(opts)' = c
  BY <1>1, RemovedMessages
<1>8. Deliveries' = Deliveries /\ Reads' = Reads
  BY <1>1, DeliveriesSame, ReadsSame
<1>9. QED
  BY <1>1, <1>6, <1>7, <1>8 DEF Promise!ReplaceCaps

\* A wipe voids every delivery, as no captured epoch is ahead.
LEMMA WipePromised ==
    ASSUME StoreInv, NEW o, ResetTo(o)
    PROVE  Promise!Reset(CapsOf(o))
<1>1. /\ TypeOK /\ EpochsBounded
      /\ epoch' = epoch + 1 /\ byID' = NoRecords /\ opts' = o /\ UNCHANGED <<nextId, ins, rd>>
  BY DEF StoreInv, ResetTo, ClearIndex
<1>2. ASSUME NEW i \in Inserters
      PROVE  Delivery(i)' = [Deliveries[i] EXCEPT !.valid = FALSE]
  <2>1. ins[i].epoch # epoch'
    BY <1>1, InsType DEF EpochsBounded, TypeOK
  <2>2. Deliveries[i] = Delivery(i)
    BY DEF Deliveries
  <2> DEFINE h == Delivery(i)'
  <2>3. /\ DOMAIN Delivery(i) = {"st", "valid", "id", "at", "size"}
        /\ DOMAIN h = {"st", "valid", "id", "at", "size"} /\ h = [x \in DOMAIN h |-> h[x]]
        /\ h.valid = FALSE /\ h.st = Delivery(i).st /\ h.id = Delivery(i).id
        /\ h.at = Delivery(i).at /\ h.size = Delivery(i).size
    <3>1. CASE ins[i].pc = "data"
      BY <1>1, <2>1, <3>1 DEF Delivery, NoDelivery
    <3>2. CASE ins[i].pc \in {"spill", "writing"}
      BY <1>1, <2>1, <3>2 DEF Delivery
    <3>3. CASE ins[i].pc \notin {"data", "spill", "writing"}
      BY <1>1, <3>3 DEF Delivery, NoDelivery
    <3>4. QED
      BY <3>1, <3>2, <3>3
  <2>4. [Delivery(i) EXCEPT !["valid"] = FALSE] = h
    <3> HIDE DEF h
    <3> QED BY <2>3, FieldSet
  <2>5. QED
    BY <2>2, <2>4
<1>3. Deliveries' = [i \in Inserters |-> [Deliveries[i] EXCEPT !.valid = FALSE]]
  BY <1>2 DEF Deliveries
<1>4. QED
  BY <1>1, <1>3, EmptiedMessages, ReadsSame DEF Promise!Reset

LEMMA RestartPromised ==
    ASSUME NEW o, Restart(o)
    PROVE  Promise!Restart(CapsOf(o))
<1>1. /\ byID' = NoRecords /\ opts' = o /\ UNCHANGED nextId
      /\ ins' = [i \in Inserters |-> NoInsert] /\ rd' = [r \in Readers |-> NoRead]
  BY DEF Restart, ClearIndex
<1>2. \A i \in Inserters : Delivery(i)' = Promise!NoMail
  BY <1>1 DEF Delivery, NoInsert, NoDelivery, Promise!NoMail
<1>3. \A r \in Readers : Looking(r)' = Promise!NoLook
  BY <1>1 DEF Looking, NoRead, Promise!NoLook
<1>4. /\ Deliveries' = [i \in Inserters |-> Promise!NoMail]
      /\ Reads' = [r \in Readers |-> Promise!NoLook]
  BY <1>2, <1>3 DEF Deliveries, Reads
<1>5. QED
  BY <1>1, <1>4, EmptiedMessages DEF Promise!Restart

LEMMA DeletePromised ==
    ASSUME NEW S, NEW n, NEW rest, NEW left, RemoveMembers(S, n, rest, left),
           UNCHANGED <<opts, epoch, nextId, ins, rd>>
    PROVE  Promise!Delete(S)
<1>1. byID' = [id \in DOMAIN byID \ S |-> byID[id]]
  BY DEF RemoveMembers
<1>2. QED
  BY <1>1, RemovedMessages, DeliveriesSame, ReadsSame DEF Promise!Delete

LEMMA MarkPromised ==
    ASSUME TypeOK, NEW S, MarkRead(S)
    PROVE  Promise!MarkRead(S)
<1>1. Messages' = Promise!Seen(S)
  BY MarksSeen DEF MarkRead
<1>2. UNCHANGED <<opts, epoch, nextId, ins, rd>>
  BY DEF MarkRead
<1>3. QED
  BY <1>1, <1>2, DeliveriesSame, ReadsSame DEF Promise!MarkRead

LEMMA AdminPromised ==
    ASSUME StoreInv, IndexInv, CapsOffered, AdminStep
    PROVE  Promise!Manage
<1> DEFINE CapSet == {CapsOf(o) : o \in NormalOptions}
<1> USE DEF Promise!Manage
<1>0. TypeOK /\ DOMAIN Messages = DOMAIN byID
  BY MessagesAre DEF StoreInv
<1>1. CASE \E j \in 1..Len(order), left \in 0..bytes : Delete(j, left)
  <2> PICK j \in 1..Len(order), left \in 0..bytes : Delete(j, left)
    BY <1>1
  <2>1. order[j] \in DOMAIN Messages
    BY <1>0, OrderKnown DEF IndexInv, IndexExact, Among
  <2>2. Promise!Delete({order[j]})
    BY DeletePromised DEF Delete
  <2>3. QED
    BY <2>1, <2>2
<1>2. CASE \E left \in 0..bytes : DeleteAll(left)
  <2>1. Promise!Delete(DOMAIN byID)
    BY <1>2, DeletePromised DEF DeleteAll
  <2>2. QED
    BY <1>0, <2>1
<1>3. CASE \E id \in DOMAIN byID : MarkRead({id})
  BY <1>0, <1>3, MarkPromised
<1>4. CASE MarkRead(DOMAIN byID)
  BY <1>0, <1>4, MarkPromised
<1>5. CASE \E o \in NormalOptions, force \in BOOLEAN, k \in 0..Len(order),
              left \in 0..bytes : ReplaceCaps(o, force, k, left)
  <2> PICK o \in NormalOptions, force \in BOOLEAN, k \in 0..Len(order),
           left \in 0..bytes : ReplaceCaps(o, force, k, left)
    BY <1>5
  <2> DEFINE c == CapsOf(o)
  <2>1. c \in CapSet
    OBVIOUS
  <2>2. CapsOf([o EXCEPT !.spillDir = opts.spillDir]) = c
    BY CapsOfKept
  <2>3. InstallCaps([o EXCEPT !.spillDir = opts.spillDir],
                    force \/ o.fullPolicy = "evict_oldest", k, left)
    BY DEF ReplaceCaps
  <2>4. /\ Promise!ReplaceCaps(c, Oldest(k))
        /\ Oldest(k) \in SUBSET DOMAIN Messages
    <3> HIDE DEF c
    <3> QED BY <2>1, <2>2, <2>3, CapsPromised
  <2>5. QED
    BY <2>1, <2>4
<1>6. CASE \E o \in NormalOptions, k \in 0..Len(order), left \in 0..bytes :
              Configure(o, k, left)
  <2> PICK o \in NormalOptions, k \in 0..Len(order), left \in 0..bytes :
           Configure(o, k, left)
    BY <1>6
  <2> DEFINE c == CapsOf(o)
  <2>1. c \in CapSet
    OBVIOUS
  <2>2. InstallCaps(o, o.fullPolicy = "evict_oldest", k, left)
    BY DEF Configure
  <2>3. /\ Promise!ReplaceCaps(c, Oldest(k))
        /\ Oldest(k) \in SUBSET DOMAIN Messages
    <3>1. CapsOf(o) = c
      OBVIOUS
    <3> HIDE DEF c
    <3> QED BY <2>1, <2>2, <3>1, CapsPromised
  <2>4. QED
    BY <2>1, <2>3
<1>7. CASE (\E o \in NormalOptions : ResetTo(o)) \/ Wipe
  <2>1. PICK o : ResetTo(o) /\ CapsOf(o) \in CapSet
    BY <1>7 DEF Wipe, CapsOffered
  <2>2. Promise!Reset(CapsOf(o))
    BY <2>1, WipePromised
  <2>3. QED
    BY <2>1, <2>2
<1>8. CASE \E o \in NormalOptions : Restart(o)
  <2>1. PICK o \in NormalOptions : Restart(o)
    BY <1>8
  <2>2. Promise!Restart(CapsOf(o))
    BY <2>1, RestartPromised
  <2>3. QED
    BY <2>2
<1>9. QED
  BY <1>1, <1>2, <1>3, <1>4, <1>5, <1>6, <1>7, <1>8 DEF AdminStep

LEMMA CapsOfferedStep ==
    ASSUME CapsOffered, [Next]_vars
    PROVE  CapsOffered'
<1>1. CASE UNCHANGED opts
  BY <1>1 DEF CapsOffered
<1>2. ASSUME NEW o \in NormalOptions, CapsOf(opts') = CapsOf(o)
      PROVE  CapsOffered'
  BY <1>2 DEF CapsOffered
<1>3. ASSUME NEW o \in NormalOptions, opts' \in {o, opts, [o EXCEPT !.spillDir = opts.spillDir]}
      PROVE  CapsOffered'
  BY <1>1, <1>2, <1>3, CapsOfKept
<1>4. CASE \E i \in Inserters : InsertStep(i)
  <2>1. UNCHANGED opts
    <3>1. PICK i \in Inserters : InsertStep(i)
      BY <1>4
    <3>2. \/ CaptureEpoch(i) \/ InsertReject(i) \/ InsertAbort(i)
          \/ \E at, size, parts : InsertPrepare(i, at, size, parts)
          \/ \E p : SpillBegin(i, p) \/ SpillEnd(i, p)
          \/ \E e : InsertRenameFails(i, e)
          \/ \E k, left, pos : InsertCommit(i, k, left, pos)
      BY <3>1, Zenon DEF InsertStep
    <3>3. CASE CaptureEpoch(i) \/ InsertReject(i) \/ InsertAbort(i)
      BY <3>3 DEF CaptureEpoch, InsertReject, InsertAbort, index
    <3>4. ASSUME NEW at, NEW size, NEW parts, InsertPrepare(i, at, size, parts)
          PROVE  UNCHANGED opts
      BY <3>4 DEF InsertPrepare, index
    <3>5. ASSUME NEW p, SpillBegin(i, p) \/ SpillEnd(i, p)
          PROVE  UNCHANGED opts
      BY <3>5 DEF SpillBegin, SpillEnd, index
    <3>6. ASSUME NEW e, InsertRenameFails(i, e)
          PROVE  UNCHANGED opts
      BY <3>6 DEF InsertRenameFails, index
    <3>7. ASSUME NEW k, NEW left, NEW pos, InsertCommit(i, k, left, pos)
          PROVE  UNCHANGED opts
      BY <3>7 DEF InsertCommit
    <3>8. QED
      BY <3>2, <3>3, <3>4, <3>5, <3>6, <3>7
  <2>2. QED
    BY <1>1, <2>1
<1>5. CASE \E r \in Readers : ReadStep(r)
  <2>1. UNCHANGED opts
    BY <1>5 DEF ReadStep, GetBegin, ListBegin, Load, GetMissing, GetFinish, index
  <2>2. QED
    BY <1>1, <2>1
<1>6. CASE AdminStep
  <2>1. CASE \E S : MarkRead(S)
    BY <1>1, <2>1 DEF MarkRead
  <2>2. CASE \/ \E j \in 1..Len(order), left \in 0..bytes : Delete(j, left)
             \/ \E left \in 0..bytes : DeleteAll(left)
    BY <1>1, <2>2 DEF Delete, DeleteAll
  <2>3. CASE \E o \in NormalOptions, force \in BOOLEAN, k \in 0..Len(order),
                left \in 0..bytes : ReplaceCaps(o, force, k, left)
    BY <1>3, <2>3 DEF ReplaceCaps, InstallCaps
  <2>4. CASE \E o \in NormalOptions, k \in 0..Len(order), left \in 0..bytes :
                Configure(o, k, left)
    BY <1>3, <2>4 DEF Configure, InstallCaps
  <2>5. CASE Wipe \/ \E o \in NormalOptions : ResetTo(o) \/ Restart(o)
    BY <1>1, <1>3, <2>5 DEF Wipe, ResetTo, Restart
  <2>6. QED
    BY <1>6, <2>1, <2>2, <2>3, <2>4, <2>5 DEF AdminStep
<1>7. QED
  BY <1>1, <1>4, <1>5, <1>6 DEF Next, vars, index

LEMMA PromisedInit ==
    ASSUME Init
    PROVE  Promise!Init /\ CapsOffered
<1>1. /\ byID = NoRecords /\ opts \in NormalOptions /\ nextId = 1
      /\ ins = [i \in Inserters |-> NoInsert] /\ rd = [r \in Readers |-> NoRead]
  BY DEF Init
<1>2. Messages = Promise!Nothing
  BY <1>1 DEF Messages, NoRecords, Promise!Nothing
<1>3. \A i \in Inserters : Delivery(i) = Promise!NoMail
  BY <1>1 DEF Delivery, NoInsert, NoDelivery, Promise!NoMail
<1>4. \A r \in Readers : Looking(r) = Promise!NoLook
  BY <1>1 DEF Looking, NoRead, Promise!NoLook
<1>5. /\ Deliveries = [i \in Inserters |-> Promise!NoMail]
      /\ Reads = [r \in Readers |-> Promise!NoLook]
  BY <1>3, <1>4 DEF Deliveries, Reads
<1>6. QED
  BY <1>1, <1>2, <1>5 DEF Promise!Init, CapsOffered

LEMMA PromisedStep ==
    ASSUME StoreInv, IndexInv, CapsOffered, [Next]_vars
    PROVE  [Promise!Next]_Promise!vars
<1>1. CASE \E i \in Inserters : InsertStep(i)
  BY <1>1, InsertPromised DEF Promise!Next
<1>2. CASE \E r \in Readers : ReadStep(r)
  BY <1>2, ReadPromised DEF Promise!Next
<1>3. CASE AdminStep
  BY <1>3, AdminPromised DEF Promise!Next
<1>4. CASE UNCHANGED vars
  <2>1. UNCHANGED <<opts, epoch, byID, nextId, ins, rd>>
    BY <1>4 DEF vars, index
  <2>2. QED
    BY <2>1, OnlyReads, ShownSame, ReadsSame DEF Promise!vars
<1>5. QED
  BY <1>1, <1>2, <1>3, <1>4 DEF Next

\* The store implements the inbox: seen from outside, an Insert lands in one
\* step or not at all, a Get answers for one moment, every refusal and every
\* spill error has a reason, and members leave only by the operations that
\* remove them, the oldest first.
THEOREM StoreImplementsInbox == Spec => ImplementsInbox
<1>1. StoreInv /\ IndexInv /\ [Next]_vars => IndexInv'
  BY IndexStep
<1>2. CapsOffered /\ [Next]_vars => CapsOffered'
  BY CapsOfferedStep
<1>3. Init => Promise!Init /\ CapsOffered
  BY PromisedInit
<1>4. StoreInv /\ IndexInv /\ CapsOffered /\ [Next]_vars => [Promise!Next]_Promise!vars
  BY PromisedStep
<1>5. QED
  BY <1>1, <1>2, <1>3, <1>4, IndexInit, StoreInvariant, PTL
    DEF Spec, ImplementsInbox, Promise!Spec
=============================================================================
