--------------------------- MODULE OpProcessorProofs ---------------------------
(***************************************************************************)
(* The safety properties of OpProcessor for every set of devices, files    *)
(* and paths, every number of suffixes and every number of operations.     *)
(*                                                                         *)
(* A step of the processor either leaves everything but its answer alone   *)
(* or commits one operation, so most proofs look at the steps through      *)
(* StepCases; the properties of a file's row go through each handler.      *)
(***************************************************************************)
EXTENDS OpProcessor, VersionVectorsProofs, SequenceTheorems, WellFoundedInduction

-----------------------------------------------------------------------------
(***************************************************************************)
(* Types.                                                                  *)
(***************************************************************************)

\* The devices and the room's writer are writers.
LEMMA WriterType == Device \subseteq Writer /\ Collab \in Writer
BY OpProcessorAssumption

\* A nonempty set of naturals has a smallest element.
LEMMA SmallestOf ==
    ASSUME NEW T, T \subseteq Nat, T # {}
    PROVE  \E x \in T : \A y \in T : x <= y
<1> DEFINE R == {ss \in Nat \X Nat : ss[1] < ss[2]}
<1>1. IsWellFoundedOn(R, Nat)
  BY NatLessThanWellFounded, Zenon DEF OpToRel
<1> HIDE DEF R
<1>2. PICK x \in T : \A y \in T : <<y, x>> \notin R
  BY <1>1, WFMin
<1>3. ASSUME NEW y \in T
      PROVE  x <= y
  <2>1. x \in Nat /\ y \in Nat
    OBVIOUS
  <2>2. ~(y < x)
    BY <1>2, <2>1 DEF R
  <2> QED
    BY <2>1, <2>2
<1> QED
  BY <1>2, <1>3

\* uniquePath returns a path that no other live file has.
LEMMA UniquePathIsFree ==
    ASSUME NEW path \in Path, NEW f \in FileId, FreeNumbers(path, f) # {}
    PROVE  /\ UniquePath(path, f) \in Path
           /\ ~PathTaken(UniquePath(path, f), f)
           /\ \E n \in 1 .. SuffixLimit : UniquePath(path, f) = SuffixPath[path][n]
<1> DEFINE T == FreeNumbers(path, f)
           n == CHOOSE n \in T : \A m \in T : n <= m
<1>1. T \subseteq Nat
  BY OpProcessorAssumption DEF FreeNumbers
<1>2. \E k \in T : \A m \in T : k <= m
  BY <1>1, SmallestOf
<1>3. n \in T
  BY <1>2
<1>4. UniquePath(path, f) = SuffixPath[path][n]
  BY DEF UniquePath
<1>5. n \in 1 .. SuffixLimit /\ ~PathTaken(SuffixPath[path][n], f)
  BY <1>3 DEF FreeNumbers
<1> QED
  BY <1>4, <1>5, OpProcessorAssumption

LEMMA NoPathType == NoPath \in Path
BY OpProcessorAssumption DEF NoPath

LEMMA NewContentVVType ==
    ASSUME NEW op \in FileOp
    PROVE  NewContentVV(op) \in VersionVector
BY BumpType DEF NewContentVV, FileOp

\* A row of table files keeps its type under the handlers' changes.
LEMMA HandlerRowTypes ==
    ASSUME TypeOK, NEW id \in DOMAIN issued
    PROVE  LET op == issued[id]
               row == files[op.fileId]
           IN  /\ op \in FileOp
               /\ row \in StoredFile
               /\ Updated(op, id) \in StoredFile
               /\ \A path \in Path : NewStoredFile(op, id, path) \in StoredFile
               /\ \A c \in Nat : [row EXCEPT !.conflictId = c] \in StoredFile
               /\ \A path \in Path : Renamed(op, path) \in StoredFile
               /\ Deleted(op) \in StoredFile
               /\ \A path \in Path : Restored(op, id, path) \in StoredFile
<1> DEFINE op == issued[id]
           row == files[op.fileId]
<1>1. op \in FileOp /\ id \in Nat
  BY ElementOfSeq, LenProperties DEF TypeOK
<1>2. row \in StoredFile
  BY <1>1 DEF TypeOK, FileOp
<1>3. NewContentVV(op) \in VersionVector
  BY <1>1, NewContentVVType
<1>4. /\ Updated(op, id) \in StoredFile
      /\ \A c \in Nat : [row EXCEPT !.conflictId = c] \in StoredFile
      /\ Deleted(op) \in StoredFile
  BY <1>1, <1>2, <1>3 DEF Updated, Deleted, StoredFile
<1>5. RenameClock(op) \in PathClock /\ MakePathClock(1, op.deviceId) \in PathClock
  BY <1>1 DEF RenameClock, MakePathClock, PathClock, FileOp
<1>6. \A path \in Path : Renamed(op, path) \in StoredFile
  BY <1>2, <1>5 DEF Renamed, StoredFile
<1>7. \A path \in Path : NewStoredFile(op, id, path) \in StoredFile
  BY <1>1, <1>3, <1>5, EmptyVVType DEF NewStoredFile, StoredFile
<1>8. Join(row.deleteVV, NewContentVV(op)) \in VersionVector
  BY <1>2, <1>3, JoinType DEF StoredFile
<1>9. \A path \in Path : Restored(op, id, path) \in StoredFile
  <2>1. row.epoch + 1 \in Nat
    BY <1>2 DEF StoredFile
  <2>2. ASSUME NEW e \in Nat, NEW vv \in VersionVector, NEW path \in Path
        PROVE  [row EXCEPT !.path = path, !.contentVV = vv, !.content = id,
                           !.deleteVV = EmptyVV, !.deleted = FALSE,
                           !.epoch = e, !.conflictId = 0] \in StoredFile
    BY <1>1, <1>2, EmptyVVType DEF StoredFile
  <2> QED
    BY <1>8, <2>1, <2>2 DEF Restored
<1> QED
  BY <1>1, <1>2, <1>4, <1>6, <1>7, <1>9

-----------------------------------------------------------------------------
(***************************************************************************)
(* The steps.                                                              *)
(***************************************************************************)
AnswerStep ==
    /\ answer' \in Answer
    /\ UNCHANGED <<issued, standing, lastDeviceSeq, files, conflicts, log, nextSeq>>

IssueStep ==
    /\ \E op \in FileOp : issued' = Append(issued, op)
    /\ UNCHANGED <<standing, lastDeviceSeq, files, conflicts, log, nextSeq, answer>>

CommitStep ==
    \E id \in DOMAIN issued, seq \in Nat \ {0}, row \in StoredFile, c \in Nat :
        /\ Admitted(id, seq)
        /\ Commit(id, seq, row, c)
        /\ \/ UNCHANGED conflicts
           \/ \E r \in ConflictRecord : conflicts' = Append(conflicts, r)

LEMMA AcceptIsCommit ==
    ASSUME TypeOK, NEW id \in DOMAIN issued, NEW seq \in Nat \ {0},
           \/ AcceptCreate(id, seq)
           \/ AcceptUpdate(id, seq)
           \/ RaiseConflict(id, seq)
           \/ AcceptRename(id, seq)
           \/ AcceptLosingRename(id, seq)
           \/ AcceptDelete(id, seq)
           \/ AcceptRestore(id, seq)
    PROVE  CommitStep
<1> DEFINE op == issued[id]
           row == files[op.fileId]
<1>1. op \in FileOp /\ row \in StoredFile
  BY HandlerRowTypes
<1>2. op.newPath \in Path /\ op.fileId \in FileId
  BY <1>1 DEF FileOp
<1>3. CASE AcceptCreate(id, seq)
  <2>1. UniquePath(op.newPath, op.fileId) \in Path
    BY <1>2, <1>3, UniquePathIsFree DEF AcceptCreate
  <2>2. NewStoredFile(op, id, UniquePath(op.newPath, op.fileId)) \in StoredFile
    BY <2>1, HandlerRowTypes
  <2> QED
    BY <1>3, <2>2 DEF AcceptCreate, CommitStep
<1>4. CASE AcceptUpdate(id, seq)
  <2>1. Updated(op, id) \in StoredFile
    BY HandlerRowTypes
  <2> QED
    BY <1>4, <2>1 DEF AcceptUpdate, CommitStep
<1>5. CASE RaiseConflict(id, seq)
  <2>1. Len(conflicts) + 1 \in Nat
    BY LenProperties DEF TypeOK
  <2>2. [row EXCEPT !.conflictId = Len(conflicts) + 1] \in StoredFile
    BY <2>1, HandlerRowTypes
  <2>3. NewContentVV(op) \in VersionVector /\ id \in Nat
    BY <1>1, NewContentVVType, LenProperties DEF TypeOK
  <2>4. ConflictBetween(op, id) \in ConflictRecord
    BY <1>1, <1>2, <2>3, WriterType
       DEF ConflictBetween, ConflictRecord, StoredFile, ConflictStatus
  <2> QED
    BY <1>5, <2>1, <2>2, <2>4 DEF RaiseConflict, CommitStep
<1>6. CASE AcceptRename(id, seq)
  <2>1. UniquePath(op.newPath, op.fileId) \in Path
    BY <1>2, <1>6, UniquePathIsFree DEF AcceptRename
  <2>2. Renamed(op, UniquePath(op.newPath, op.fileId)) \in StoredFile
    BY <2>1, HandlerRowTypes
  <2> QED
    BY <1>6, <2>2 DEF AcceptRename, CommitStep
<1>7. CASE AcceptLosingRename(id, seq)
  BY <1>1, <1>7 DEF AcceptLosingRename, CommitStep
<1>8. CASE AcceptDelete(id, seq)
  <2>1. Deleted(op) \in StoredFile
    BY HandlerRowTypes
  <2> QED
    BY <1>8, <2>1 DEF AcceptDelete, CommitStep
<1>9. CASE AcceptRestore(id, seq)
  <2>1. UniquePath(op.newPath, op.fileId) \in Path
    BY <1>2, <1>9, UniquePathIsFree DEF AcceptRestore
  <2>2. Restored(op, id, UniquePath(op.newPath, op.fileId)) \in StoredFile
    BY <2>1, HandlerRowTypes
  <2> QED
    BY <1>9, <2>2 DEF AcceptRestore, CommitStep
<1> QED
  BY <1>3, <1>4, <1>5, <1>6, <1>7, <1>8, <1>9

LEMMA CodesType ==
    ASSUME NEW op, NEW seq
    PROVE  /\ SenderRefusal(op, seq) \in Codes \cup {""}
           /\ FileRefusal(op) \in Codes \cup {""}
           /\ HandlerRefusal(op) \in Codes \cup {""}
BY DEF SenderRefusal, FileRefusal, HandlerRefusal, Codes

LEMMA AcknowledgeType ==
    ASSUME NEW id \in Nat, NEW entry \in StoredOp, Acknowledge(id, entry)
    PROVE  answer' \in Answer
BY DEF Acknowledge, StoredOp, OpId, Answer

LEMMA ProcessCases ==
    ASSUME TypeOK, NEW id \in DOMAIN issued, NEW seq \in DeviceSeqs(id), Process(id, seq)
    PROVE  AnswerStep \/ CommitStep
<1>1. id \in Nat \ {0} /\ seq \in Nat \ {0}
  BY LenProperties, OpProcessorAssumption DEF TypeOK, DeviceSeqs
<1>2. \A i \in DOMAIN log : log[i] \in StoredOp
  BY ElementOfSeq, LenProperties DEF TypeOK
<1>3. CASE ReplayById(id)
  BY <1>1, <1>2, <1>3, AcknowledgeType DEF ReplayById, AnswerStep
<1>4. CASE ReplayBySeq(id, seq)
  BY <1>1, <1>2, <1>4, AcknowledgeType DEF ReplayBySeq, AnswerStep
<1>5. ASSUME NEW code \in Codes, Reject(id, code)
      PROVE  AnswerStep
  BY <1>1, <1>5 DEF Reject, Answer, AnswerStep
<1>6. CASE RefuseSender(id, seq)
  BY <1>5, <1>6, CodesType DEF RefuseSender
<1>7. CASE RefuseOp(id, seq)
  BY <1>5, <1>7, CodesType DEF RefuseOp
<1>8. CASE RefuseBlob(id, seq)
  BY <1>5, <1>8 DEF RefuseBlob, Codes
<1>9. ASSUME Fail(id)
      PROVE  AnswerStep
  BY <1>1, <1>9 DEF Fail, Answer, AnswerStep
<1>10. CASE FailOp(id, seq) \/ GiveUp(id)
  BY <1>9, <1>10 DEF FailOp, GiveUp
<1> QED
  BY <1>1, <1>3, <1>4, <1>6, <1>7, <1>8, <1>10, AcceptIsCommit DEF Process

LEMMA IssueCases ==
    ASSUME TypeOK, Issue
    PROVE  IssueStep
<1>1. ASSUME NEW f \in FileId
      PROVE  Known(f) \subseteq VersionVector
  <2>1. files[f].contentVV \in VersionVector
    BY <1>1 DEF TypeOK, StoredFile
  <2>2. \A i \in DOMAIN log : log[i].contentVV \in VersionVector
    <3>1. \A i \in DOMAIN log : log[i] \in StoredOp
      BY ElementOfSeq, LenProperties DEF TypeOK
    <3> QED
      BY <3>1 DEF StoredOp
  <2>3. Seen(f) \subseteq VersionVector
    BY <2>1, <2>2, EmptyVVType DEF Seen
  <2> QED
    BY <2>3, JoinType DEF Known
<1>2. ASSUME NEW w \in Writer, NEW f \in FileId, NEW kind \in Kinds,
             NEW base \in VersionVector, NEW path \in Path, NEW lamport \in Nat,
             IssueOp(w, f, kind, base, path, lamport)
      PROVE  IssueStep
  BY <1>2 DEF IssueOp, IssueStep, FileOp
<1>3. ASSUME NEW d \in Device, NEW f \in FileId, NEW k \in ContentKinds \cup {"delete"},
             NEW p \in Path, NEW base \in Known(f), IssueContent(d, f, k, base, p)
      PROVE  IssueStep
  BY <1>1, <1>2, <1>3, WriterType DEF IssueContent, Kinds
<1>4. ASSUME NEW d \in Device, NEW f \in FileId, NEW p \in Path,
             NEW l \in 1 .. MaxLamport, IssueRename(d, f, p, l)
      PROVE  IssueStep
  <2>1. l \in Nat
    BY OpProcessorAssumption
  <2> QED
    BY <1>2, <1>4, <2>1, WriterType, EmptyVVType DEF IssueRename, Kinds
<1>5. ASSUME NEW f \in FileId, NEW base \in Known(f), IssueCollab(f, base)
      PROVE  IssueStep
  BY <1>1, <1>2, <1>5, WriterType, NoPathType DEF IssueCollab, Kinds, ContentKinds
<1> QED
  BY <1>3, <1>4, <1>5 DEF Issue

\* Every step of the specification is of one of these shapes.
LEMMA StepCases ==
    ASSUME TypeOK, [Next]_vars
    PROVE  \/ AnswerStep
           \/ IssueStep
           \/ CommitStep
           \/ \E d \in Device, s \in Standing : SetStanding(d, s)
           \/ \E f \in FileId, b \in BOOLEAN : SetActive(f, b)
           \/ UNCHANGED vars
BY ProcessCases, IssueCases DEF Next, Environment

\* What a committed operation does to the log.
LEMMA CommitFacts ==
    ASSUME TypeOK, NEW id \in DOMAIN issued, NEW seq \in Nat \ {0},
           NEW row \in StoredFile, NEW c \in Nat,
           Commit(id, seq, row, c)
    PROVE  LET op == issued[id]
               new == log'[Len(log')]
           IN  /\ op \in FileOp
               /\ log' \in Seq(StoredOp)
               /\ Len(log) \in Nat
               /\ Len(log') = Len(log) + 1
               /\ DOMAIN log = 1 .. Len(log)
               /\ DOMAIN log' = 1 .. Len(log')
               /\ \A i \in DOMAIN log : log'[i] = log[i]
               /\ \A i \in DOMAIN log' : i \in DOMAIN log \/ i = Len(log')
               /\ Len(log') \in DOMAIN log' /\ Len(log') \notin DOMAIN log
               /\ DOMAIN log \subseteq DOMAIN log'
               /\ new \in StoredOp
               /\ new.seq = nextSeq /\ new.opId = id
               /\ new.deviceId = op.deviceId /\ new.deviceSeq = seq
               /\ new.fileId = op.fileId /\ new.kind = op.kind
               /\ new.contentVV = row.contentVV /\ new.conflictId = c
               /\ nextSeq' = nextSeq + 1
               /\ files' = [files EXCEPT ![op.fileId] = row]
               /\ issued' = issued
               /\ answer' \in Answer
               /\ answer'.type = "ack" /\ answer'.asked = id
               /\ answer'.opId = id /\ answer'.vaultSeq = nextSeq
<1> DEFINE op == issued[id]
           entry == [seq |-> nextSeq, opId |-> id, deviceId |-> op.deviceId,
                     deviceSeq |-> seq, fileId |-> op.fileId, kind |-> op.kind,
                     contentVV |-> row.contentVV, conflictId |-> c]
<1>1. op \in FileOp /\ id \in Nat \ {0}
  BY ElementOfSeq, LenProperties DEF TypeOK
<1>2. entry \in StoredOp
  BY <1>1 DEF TypeOK, FileOp, StoredFile, StoredOp, OpId
<1>3. log' = Append(log, entry) /\ Acknowledge(id, entry)
  BY DEF Commit
<1>4. log \in Seq(StoredOp)
  BY DEF TypeOK
<1>5. /\ log' \in Seq(StoredOp)
      /\ Len(log') = Len(log) + 1
      /\ \A i \in 1 .. Len(log) : log'[i] = log[i]
      /\ log'[Len(log) + 1] = entry
  BY <1>2, <1>3, <1>4, AppendProperties
<1>6. answer' \in Answer
  BY <1>1, <1>2, <1>3, AcknowledgeType
<1> HIDE DEF entry
<1>7. /\ Len(log) \in Nat
      /\ DOMAIN log = 1 .. Len(log)
      /\ DOMAIN log' = 1 .. Len(log')
  BY <1>4, <1>5, LenProperties
<1>8. /\ answer'.type = "ack" /\ answer'.asked = id
      /\ answer'.opId = id /\ answer'.vaultSeq = nextSeq
  BY <1>3 DEF Acknowledge, entry
<1>9. /\ entry.seq = nextSeq /\ entry.opId = id
      /\ entry.deviceId = op.deviceId /\ entry.deviceSeq = seq
      /\ entry.fileId = op.fileId /\ entry.kind = op.kind
      /\ entry.contentVV = row.contentVV /\ entry.conflictId = c
  BY DEF entry
<1>10. /\ \A i \in DOMAIN log' : i \in DOMAIN log \/ i = Len(log')
       /\ Len(log') \in DOMAIN log' /\ Len(log') \notin DOMAIN log
       /\ DOMAIN log \subseteq DOMAIN log'
  BY <1>5, <1>7
<1>11. files' = [files EXCEPT ![op.fileId] = row] /\ nextSeq' = nextSeq + 1 /\ issued' = issued
  BY DEF Commit
<1> HIDE DEF op
<1> QED
  BY <1>1, <1>2, <1>5, <1>6, <1>7, <1>8, <1>9, <1>10, <1>11 DEF op

-----------------------------------------------------------------------------
(***************************************************************************)
(* The type invariant.                                                     *)
(***************************************************************************)
LEMMA InitTypeOK == Init => TypeOK
<1> SUFFICES ASSUME Init PROVE TypeOK
  OBVIOUS
<1>1. Absent \in StoredFile
  BY WriterType, NoPathType, EmptyVVType
     DEF Absent, StoredFile, PathClock, MakePathClock
<1>2. Quiet \in Answer
  BY DEF Quiet, Answer
<1> QED
  BY <1>1, <1>2, EmptySeq, OpProcessorAssumption DEF Init, TypeOK

LEMMA NextTypeOK == TypeOK /\ [Next]_vars => TypeOK'
<1> SUFFICES ASSUME TypeOK, [Next]_vars PROVE TypeOK'
  OBVIOUS
<1>1. CASE AnswerStep
  BY <1>1 DEF AnswerStep, TypeOK
<1>2. CASE IssueStep
  BY <1>2, AppendProperties DEF IssueStep, TypeOK
<1>3. CASE CommitStep
  <2>1. PICK id \in DOMAIN issued, seq \in Nat \ {0}, row \in StoredFile, c \in Nat :
            /\ Commit(id, seq, row, c)
            /\ \/ UNCHANGED conflicts
               \/ \E r \in ConflictRecord : conflicts' = Append(conflicts, r)
    BY <1>3 DEF CommitStep
  <2>2. conflicts' \in Seq(ConflictRecord)
    <3>1. \A r \in ConflictRecord : Append(conflicts, r) \in Seq(ConflictRecord)
      BY AppendProperties DEF TypeOK
    <3> QED
      BY <2>1, <3>1 DEF TypeOK
  <2>3. issued[id] \in FileOp
    BY ElementOfSeq, LenProperties DEF TypeOK
  <2>4. lastDeviceSeq' \in [Device -> Nat]
    BY <2>1, <2>3 DEF Commit, TypeOK
  <2>5. nextSeq' \in Nat /\ issued' \in Seq(FileOp) /\ standing' \in [Device -> Standing]
    BY <2>1 DEF Commit, TypeOK
  <2>6. files' \in [FileId -> StoredFile]
    BY <2>1, <2>3 DEF Commit, TypeOK
  <2>7. log' \in Seq(StoredOp) /\ answer' \in Answer
    BY <2>1, CommitFacts
  <2> QED
    BY <2>2, <2>4, <2>5, <2>6, <2>7 DEF TypeOK
<1>4. CASE \E d \in Device, s \in Standing : SetStanding(d, s)
  BY <1>4 DEF SetStanding, TypeOK
<1>5. CASE \E f \in FileId, b \in BOOLEAN : SetActive(f, b)
  <2>1. PICK f \in FileId, b \in BOOLEAN : SetActive(f, b)
    BY <1>5
  <2>2. [files[f] EXCEPT !.active = b] \in StoredFile
    BY <2>1 DEF TypeOK, StoredFile
  <2>3. files' = [files EXCEPT ![f] = [files[f] EXCEPT !.active = b]]
    BY <2>1 DEF SetActive
  <2>4. files' \in [FileId -> StoredFile]
    BY <2>2, <2>3 DEF TypeOK
  <2> QED
    BY <2>1, <2>4 DEF SetActive, TypeOK
<1>6. CASE UNCHANGED vars
  BY <1>6 DEF vars, TypeOK
<1> QED
  BY <1>1, <1>2, <1>3, <1>4, <1>5, <1>6, StepCases

\* The rows, the log and the answers of the processor have the types of the
\* tables and messages they stand for, whatever arrives.
THEOREM TypeCorrect == Spec => []TypeOK
BY InitTypeOK, NextTypeOK, PTL DEF Spec

-----------------------------------------------------------------------------
(***************************************************************************)
(* The log.                                                                *)
(***************************************************************************)

\* Every row of the log is an operation that its sender has issued.
LogFromIssued ==
    \A i \in DOMAIN log :
        /\ log[i].opId \in DOMAIN issued
        /\ log[i].deviceId = issued[log[i].opId].deviceId

LEMMA InitLogFromIssued == Init => LogFromIssued
BY EmptySeq DEF Init, LogFromIssued

LEMMA IssueKeepsIssued ==
    ASSUME TypeOK, IssueStep
    PROVE  /\ DOMAIN issued \subseteq DOMAIN issued'
           /\ \A i \in DOMAIN issued : issued'[i] = issued[i]
<1>1. PICK op \in FileOp : issued' = Append(issued, op)
  BY DEF IssueStep
<1>2. /\ issued' \in Seq(FileOp)
      /\ Len(issued') = Len(issued) + 1
      /\ \A i \in 1 .. Len(issued) : issued'[i] = issued[i]
  BY <1>1, AppendProperties DEF TypeOK
<1>3. /\ Len(issued) \in Nat
      /\ DOMAIN issued = 1 .. Len(issued)
      /\ DOMAIN issued' = 1 .. Len(issued')
  BY <1>2, LenProperties DEF TypeOK
<1> QED
  BY <1>2, <1>3

LEMMA NextLogFromIssued == TypeOK /\ LogFromIssued /\ [Next]_vars => LogFromIssued'
<1> SUFFICES ASSUME TypeOK, LogFromIssued, [Next]_vars PROVE LogFromIssued'
  OBVIOUS
<1>1. CASE IssueStep
  BY <1>1, IssueKeepsIssued DEF IssueStep, LogFromIssued
<1>2. CASE CommitStep
  <2>1. PICK id \in DOMAIN issued, seq \in Nat \ {0}, row \in StoredFile, c \in Nat :
            Commit(id, seq, row, c)
    BY <1>2 DEF CommitStep
  <2>2. ASSUME NEW i \in DOMAIN log'
        PROVE  /\ log'[i].opId \in DOMAIN issued
               /\ log'[i].deviceId = issued[log'[i].opId].deviceId
    <3>1. CASE i \in DOMAIN log
      <4>1. log'[i] = log[i]
        BY <2>1, <3>1, CommitFacts
      <4> QED
        BY <3>1, <4>1 DEF LogFromIssued
    <3>2. CASE i = Len(log')
      <4>1. log'[i].opId = id /\ log'[i].deviceId = issued[id].deviceId
        BY <2>1, <3>2, CommitFacts
      <4> QED
        BY <4>1
    <3>3. i \in DOMAIN log \/ i = Len(log')
      BY <2>1, <2>2, CommitFacts
    <3> QED
      BY <3>1, <3>2, <3>3
  <2>3. issued' = issued
    BY <2>1 DEF Commit
  <2> QED
    BY <2>2, <2>3 DEF LogFromIssued
<1> QED
  BY <1>1, <1>2, StepCases
     DEF AnswerStep, SetStanding, SetActive, vars, LogFromIssued

LEMMA NextAcceptedOnce ==
    TypeOK /\ AcceptedOnceInOrder /\ [Next]_vars => AcceptedOnceInOrder'
<1> SUFFICES ASSUME TypeOK, AcceptedOnceInOrder, [Next]_vars
             PROVE  AcceptedOnceInOrder'
  OBVIOUS
<1>1. CASE CommitStep
  <2>1. PICK id \in DOMAIN issued, seq \in Nat \ {0}, row \in StoredFile, c \in Nat :
            Admitted(id, seq) /\ Commit(id, seq, row, c)
    BY <1>1 DEF CommitStep
  <2>2. \A i \in DOMAIN log : log[i].opId # id
    BY <2>1 DEF Admitted, Logged
  <2>3. /\ \A k \in DOMAIN log : log'[k] = log[k]
        /\ \A k \in DOMAIN log' : k \in DOMAIN log \/ k = Len(log')
    BY <2>1, CommitFacts
  <2>4. /\ log'[Len(log')].opId = id /\ log'[Len(log')].seq = nextSeq
        /\ nextSeq' = nextSeq + 1 /\ Len(log') = Len(log) + 1 /\ Len(log) \in Nat
    BY <2>1, CommitFacts
  <2>5. nextSeq' = Len(log') + 1 /\ nextSeq = Len(log')
    BY <2>4 DEF AcceptedOnceInOrder
  <2>6. \A i \in DOMAIN log' : log'[i].seq = i
    BY <2>3, <2>4, <2>5 DEF AcceptedOnceInOrder
  <2>7. \A i, j \in DOMAIN log' : log'[i].opId = log'[j].opId => i = j
    BY <2>2, <2>3, <2>4 DEF AcceptedOnceInOrder
  <2> QED
    BY <2>5, <2>6, <2>7 DEF AcceptedOnceInOrder
<1> QED
  BY <1>1, StepCases
     DEF AnswerStep, IssueStep, SetStanding, SetActive, vars, AcceptedOnceInOrder

\* docs/spec-core-protocol.md S1: one operation per vaultSeq, no gap, and no
\* operation accepted twice, for any number of devices and retransmissions.
THEOREM AcceptedOnce == Spec => []AcceptedOnceInOrder
<1>1. Init => AcceptedOnceInOrder
  BY EmptySeq DEF Init, AcceptedOnceInOrder
<1> QED
  BY <1>1, TypeCorrect, NextAcceptedOnce, PTL DEF Spec

LEMMA NextDeviceStream ==
    TypeOK /\ DeviceStreamContiguous /\ [Next]_vars => DeviceStreamContiguous'
<1> SUFFICES ASSUME TypeOK, DeviceStreamContiguous, [Next]_vars
             PROVE  DeviceStreamContiguous'
  OBVIOUS
<1>1. CASE CommitStep
  <2>1. PICK id \in DOMAIN issued, seq \in Nat \ {0}, row \in StoredFile, c \in Nat :
            Admitted(id, seq) /\ Commit(id, seq, row, c)
    BY <1>1 DEF CommitStep
  <2> DEFINE w == issued[id].deviceId
             new == log'[Len(log')]
  <2>2. /\ \A k \in DOMAIN log : log'[k] = log[k]
        /\ \A k \in DOMAIN log' : k \in DOMAIN log \/ k = Len(log')
        /\ new.deviceId = w /\ new.deviceSeq = seq
        /\ Len(log') = Len(log) + 1 /\ Len(log) \in Nat
        /\ DOMAIN log = 1 .. Len(log) /\ DOMAIN log' = 1 .. Len(log')
    BY <2>1, CommitFacts
  <2>3. \A k \in DOMAIN log : log[k].deviceSeq \in Nat
    <3>1. \A k \in DOMAIN log : log[k] \in StoredOp
      BY ElementOfSeq, LenProperties DEF TypeOK
    <3> QED
      BY <3>1 DEF StoredOp
  <2>4. ASSUME NEW d \in Device
        PROVE  /\ \A i \in DOMAIN log' :
                      log'[i].deviceId = d => log'[i].deviceSeq \in 1 .. lastDeviceSeq'[d]
               /\ \A i, j \in DOMAIN log' :
                      log'[i].deviceId = d /\ log'[j].deviceId = d /\ i < j
                          => log'[i].deviceSeq < log'[j].deviceSeq
               /\ \A n \in 1 .. lastDeviceSeq'[d] :
                      \E i \in DOMAIN log' : log'[i].deviceId = d /\ log'[i].deviceSeq = n
    <3>1. lastDeviceSeq[d] \in Nat
      BY DEF TypeOK
    <3>2. /\ \A i \in DOMAIN log :
                 log[i].deviceId = d => log[i].deviceSeq \in 1 .. lastDeviceSeq[d]
          /\ \A i, j \in DOMAIN log :
                 log[i].deviceId = d /\ log[j].deviceId = d /\ i < j
                     => log[i].deviceSeq < log[j].deviceSeq
          /\ \A n \in 1 .. lastDeviceSeq[d] :
                 \E i \in DOMAIN log : log[i].deviceId = d /\ log[i].deviceSeq = n
      BY DEF DeviceStreamContiguous
    <3>3. CASE w = d
      <4>1. seq = lastDeviceSeq[d] + 1 /\ lastDeviceSeq'[d] = seq
        BY <2>1, <3>3, OpProcessorAssumption
           DEF Admitted, SenderAdmitted, Synthetic, Commit, TypeOK
      <4>2. \A i \in DOMAIN log' :
                log'[i].deviceId = d => log'[i].deviceSeq \in 1 .. lastDeviceSeq'[d]
        BY <2>2, <3>1, <3>2, <4>1
      <4>3. \A i, j \in DOMAIN log' :
                log'[i].deviceId = d /\ log'[j].deviceId = d /\ i < j
                    => log'[i].deviceSeq < log'[j].deviceSeq
        <5>1. ASSUME NEW i \in DOMAIN log', NEW j \in DOMAIN log',
                     log'[i].deviceId = d, log'[j].deviceId = d, i < j
              PROVE  log'[i].deviceSeq < log'[j].deviceSeq
          <6>1. i \in DOMAIN log
            BY <2>2, <5>1
          <6>2. CASE j \in DOMAIN log
            BY <2>2, <3>2, <5>1, <6>1, <6>2
          <6>3. CASE j = Len(log')
            <7>1. log[i].deviceSeq \in 1 .. lastDeviceSeq[d]
              BY <2>2, <3>2, <5>1, <6>1
            <7> QED
              BY <2>2, <3>1, <4>1, <6>1, <6>3, <7>1
          <6> QED
            BY <2>2, <5>1, <6>2, <6>3
        <5> QED
          BY <5>1
      <4>4. ASSUME NEW n \in 1 .. lastDeviceSeq'[d]
            PROVE  \E i \in DOMAIN log' : log'[i].deviceId = d /\ log'[i].deviceSeq = n
        <5>1. CASE n = seq
          BY <2>2, <3>3, <5>1
        <5>2. CASE n # seq
          <6>1. n \in 1 .. lastDeviceSeq[d]
            BY <3>1, <4>1, <5>2
          <6>2. PICK i \in DOMAIN log : log[i].deviceId = d /\ log[i].deviceSeq = n
            BY <3>2, <6>1
          <6> QED
            BY <2>2, <6>2
        <5> QED
          BY <5>1, <5>2
      <4> QED
        BY <4>2, <4>3, <4>4
    <3>4. CASE w # d
      <4>1. lastDeviceSeq'[d] = lastDeviceSeq[d]
        BY <2>1, <3>4 DEF Commit, TypeOK
      <4>2. \A i \in DOMAIN log' : log'[i].deviceId = d => i \in DOMAIN log
        BY <2>2, <3>4
      <4>3. ASSUME NEW n \in 1 .. lastDeviceSeq[d]
            PROVE  \E i \in DOMAIN log' : log'[i].deviceId = d /\ log'[i].deviceSeq = n
        <5>1. PICK i \in DOMAIN log : log[i].deviceId = d /\ log[i].deviceSeq = n
          BY <3>2
        <5> QED
          BY <2>2, <5>1
      <4> QED
        BY <2>2, <3>2, <4>1, <4>2, <4>3
    <3> QED
      BY <3>3, <3>4
  <2> QED
    BY <2>4 DEF DeviceStreamContiguous
<1> QED
  BY <1>1, StepCases
     DEF AnswerStep, IssueStep, SetStanding, SetActive, vars, DeviceStreamContiguous

\* docs/spec-core-protocol.md S1: the numbers of a device's accepted operations
\* are 1, 2, ... in the order of acceptance, whatever arrives.
THEOREM DeviceStream == Spec => []DeviceStreamContiguous
<1>1. Init => DeviceStreamContiguous
  BY EmptySeq DEF Init, DeviceStreamContiguous
<1> QED
  BY <1>1, TypeCorrect, NextDeviceStream, PTL DEF Spec

-----------------------------------------------------------------------------
(***************************************************************************)
(* The answers.                                                            *)
(***************************************************************************)
AnswerInv ==
    /\ AnswerTruthful
    /\ answer.type = "ack" => answer.asked \in DOMAIN issued

LEMMA ProcessAnswerInv ==
    ASSUME TypeOK, AcceptedOnceInOrder, LogFromIssued,
           NEW id \in DOMAIN issued, NEW seq \in DeviceSeqs(id), Process(id, seq), AnswerStep
    PROVE  AnswerInv'
<1>1. \A i \in DOMAIN log : log[i].seq = i
  BY DEF AcceptedOnceInOrder
<1>2. log' = log /\ issued' = issued
  BY DEF AnswerStep
<1>3. ASSUME NEW i \in DOMAIN log, Acknowledge(id, log[i]),
             log[i].deviceId = issued[id].deviceId
      PROVE  AnswerInv'
  <2>1. /\ answer'.type = "ack" /\ answer'.vaultSeq = i
        /\ answer'.opId = log[i].opId /\ answer'.asked = id
    BY <1>1, <1>3 DEF Acknowledge
  <2> QED
    BY <1>2, <1>3, <2>1 DEF AnswerInv, AnswerTruthful
<1>4. CASE ReplayById(id)
  BY <1>3, <1>4 DEF ReplayById, LogFromIssued
<1>5. CASE ReplayBySeq(id, seq)
  BY <1>3, <1>5 DEF ReplayBySeq
<1>6. ASSUME NEW code, Reject(id, code), ~Logged(id)
      PROVE  AnswerInv'
  <2>1. answer'.type = "reject" /\ answer'.asked = id
    BY <1>6 DEF Reject
  <2> QED
    BY <1>2, <1>6, <2>1 DEF AnswerInv, AnswerTruthful, Logged
<1>7. CASE RefuseSender(id, seq) \/ RefuseOp(id, seq) \/ RefuseBlob(id, seq)
  BY <1>6, <1>7 DEF RefuseSender, RefuseOp, RefuseBlob
<1>8. CASE FailOp(id, seq) \/ GiveUp(id)
  <2>1. answer'.type = "error"
    BY <1>8 DEF FailOp, GiveUp, Fail
  <2> QED
    BY <2>1 DEF AnswerInv, AnswerTruthful
<1>10. CASE \/ AcceptCreate(id, seq) \/ AcceptUpdate(id, seq) \/ RaiseConflict(id, seq)
            \/ AcceptRename(id, seq) \/ AcceptLosingRename(id, seq)
            \/ AcceptDelete(id, seq) \/ AcceptRestore(id, seq)
  <2>1. nextSeq' = nextSeq + 1
    BY <1>10 DEF AcceptCreate, AcceptUpdate, RaiseConflict, AcceptRename,
                 AcceptLosingRename, AcceptDelete, AcceptRestore, Commit
  <2>2. nextSeq' = nextSeq /\ nextSeq \in Nat
    BY DEF AnswerStep, TypeOK
  <2> QED
    BY <2>1, <2>2
<1> QED
  BY <1>4, <1>5, <1>7, <1>8, <1>10 DEF Process

LEMMA NextAnswerInv ==
    ASSUME TypeOK, AcceptedOnceInOrder, LogFromIssued, AnswerInv, [Next]_vars
    PROVE  AnswerInv'
<1>1. CASE IssueStep
  <2>1. answer' = answer /\ log' = log
    BY <1>1 DEF IssueStep
  <2>2. /\ DOMAIN issued \subseteq DOMAIN issued'
        /\ \A i \in DOMAIN issued : issued'[i] = issued[i]
    BY <1>1, IssueKeepsIssued
  <2> QED
    BY <2>1, <2>2 DEF AnswerInv, AnswerTruthful, Logged
<1>2. CASE CommitStep
  <2>1. PICK id \in DOMAIN issued, seq \in Nat \ {0}, row \in StoredFile, c \in Nat :
            Commit(id, seq, row, c)
    BY <1>2 DEF CommitStep
  <2>2. /\ answer'.type = "ack" /\ answer'.asked = id /\ answer'.opId = id
        /\ answer'.vaultSeq = Len(log')
        /\ Len(log') \in DOMAIN log'
        /\ log'[Len(log')].opId = id
        /\ log'[Len(log')].deviceId = issued[id].deviceId
        /\ issued' = issued
    BY <2>1, CommitFacts DEF AcceptedOnceInOrder
  <2> QED
    BY <2>2 DEF AnswerInv, AnswerTruthful
<1>3. CASE \E id \in DOMAIN issued : \E seq \in DeviceSeqs(id) : Process(id, seq)
  <2>0. PICK id \in DOMAIN issued : \E seq \in DeviceSeqs(id) : Process(id, seq)
    BY <1>3
  <2>1. PICK seq \in DeviceSeqs(id) : Process(id, seq)
    BY <2>0
  <2>2. AnswerStep \/ CommitStep
    BY <2>1, ProcessCases
  <2> QED
    BY <1>2, <2>1, <2>2, ProcessAnswerInv
<1>4. CASE Issue
  BY <1>1, <1>4, IssueCases
<1>5. CASE Environment \/ UNCHANGED vars
  BY <1>5 DEF Environment, SetStanding, SetActive, vars, AnswerInv, AnswerTruthful, Logged
<1> QED
  BY <1>3, <1>4, <1>5 DEF Next

\* An acknowledgement names an accepted operation of the same sender under its
\* vaultSeq; a reject never answers an operation that has been accepted, so the
\* outbox of the sender drops nothing that the log holds.
THEOREM AnswersTruthful == Spec => []AnswerTruthful
<1>1. Init => LogFromIssued
  BY InitLogFromIssued
<1>2. Init => AnswerInv
  <2> SUFFICES ASSUME Init PROVE AnswerInv
    OBVIOUS
  <2>1. answer.type = "none"
    BY DEF Init, Quiet
  <2> QED
    BY <2>1 DEF AnswerInv, AnswerTruthful
<1>3. Spec => []LogFromIssued
  BY <1>1, TypeCorrect, NextLogFromIssued, PTL DEF Spec
<1>4. TypeOK /\ AcceptedOnceInOrder /\ LogFromIssued /\ AnswerInv /\ [Next]_vars => AnswerInv'
  BY NextAnswerInv
<1>5. Spec => []AnswerInv
  BY <1>2, <1>3, <1>4, TypeCorrect, AcceptedOnce, PTL DEF Spec
<1>6. AnswerInv => AnswerTruthful
  BY DEF AnswerInv
<1> QED
  BY <1>5, <1>6, PTL

-----------------------------------------------------------------------------
(***************************************************************************)
(* The rows of files: one step per handler.                                *)
(***************************************************************************)
Accept(id, seq) ==
    \/ AcceptCreate(id, seq)
    \/ AcceptUpdate(id, seq)
    \/ RaiseConflict(id, seq)
    \/ AcceptRename(id, seq)
    \/ AcceptLosingRename(id, seq)
    \/ AcceptDelete(id, seq)
    \/ AcceptRestore(id, seq)

AcceptStep == \E id \in DOMAIN issued, seq \in Nat \ {0} : Accept(id, seq)

\* A row loses or gains nothing but its lease.
LeaseStep ==
    \E f \in FileId, b \in BOOLEAN :
        /\ files' = [files EXCEPT ![f].active = b]
        /\ UNCHANGED <<conflicts, log>>

LEMMA FileStepCases ==
    ASSUME TypeOK, [Next]_vars
    PROVE  AcceptStep \/ LeaseStep \/ UNCHANGED <<files, conflicts, log>>
<1>1. CASE \E id \in DOMAIN issued : \E seq \in DeviceSeqs(id) : Process(id, seq)
  <2>0. PICK id \in DOMAIN issued : \E seq \in DeviceSeqs(id) : Process(id, seq)
    BY <1>1
  <2>1. PICK seq \in DeviceSeqs(id) : Process(id, seq)
    BY <2>0
  <2>2. seq \in Nat \ {0}
    BY LenProperties, OpProcessorAssumption DEF TypeOK, DeviceSeqs
  <2>3. CASE Accept(id, seq)
    BY <2>2, <2>3 DEF AcceptStep
  <2>4. CASE ~Accept(id, seq)
    BY <2>1, <2>4
       DEF Process, Accept, ReplayById, ReplayBySeq, RefuseSender, RefuseOp,
           RefuseBlob, Reject, FailOp, GiveUp, Fail
  <2> QED
    BY <2>3, <2>4
<1>2. CASE Issue
  BY <1>2, IssueCases DEF IssueStep
<1>3. CASE Environment
  BY <1>3 DEF Environment, SetStanding, SetActive, LeaseStep
<1>4. CASE UNCHANGED vars
  BY <1>4 DEF vars
<1> QED
  BY <1>1, <1>2, <1>3, <1>4 DEF Next

\* A lease step keeps every other field of every row.
LEMMA LeaseFacts ==
    ASSUME TypeOK, LeaseStep, NEW f \in FileId
    PROVE  /\ files'[f].exists = files[f].exists
           /\ files'[f].deleted = files[f].deleted
           /\ files'[f].path = files[f].path
           /\ files'[f].pathClock = files[f].pathClock
           /\ files'[f].content = files[f].content
           /\ files'[f].contentVV = files[f].contentVV
           /\ files'[f].conflictId = files[f].conflictId
<1>1. PICK g \in FileId, b \in BOOLEAN : files' = [files EXCEPT ![g].active = b]
  BY DEF LeaseStep
<1>2. files[f] \in StoredFile /\ files[g] \in StoredFile /\ f \in DOMAIN files
  BY DEF TypeOK
<1>3. CASE f = g
  <2>1. files'[f] = [files[f] EXCEPT !.active = b]
    BY <1>1, <1>2, <1>3
  <2> QED
    BY <1>2, <2>1 DEF StoredFile
<1>4. CASE f # g
  BY <1>1, <1>2, <1>4
<1> QED
  BY <1>3, <1>4

LEMMA OperationTypes ==
    ASSUME TypeOK, NEW id \in DOMAIN issued
    PROVE  /\ issued[id] \in FileOp
           /\ issued[id].fileId \in FileId
           /\ issued[id].newPath \in Path
           /\ files[issued[id].fileId] \in StoredFile
           /\ NewContentVV(issued[id]) \in VersionVector
<1>1. issued[id] \in FileOp /\ files[issued[id].fileId] \in StoredFile
  BY HandlerRowTypes
<1> QED
  BY <1>1, NewContentVVType DEF FileOp

\* The path of a row that lives after the operation is no other live file's.
LEMMA AcceptedPathFree ==
    ASSUME TypeOK, LivePathsUnique,
           NEW id \in DOMAIN issued, NEW seq \in Nat \ {0}, Accept(id, seq)
    PROVE  \E row \in StoredFile :
               /\ files' = [files EXCEPT ![issued[id].fileId] = row]
               /\ row.exists /\ ~row.deleted => ~PathTaken(row.path, issued[id].fileId)
<1> DEFINE op == issued[id]
           f == op.fileId
           old == files[f]
<1>1. f \in FileId /\ op.newPath \in Path /\ old \in StoredFile
  BY OperationTypes
<1>2. old.exists /\ ~old.deleted => ~PathTaken(old.path, f)
  BY <1>1 DEF LivePathsUnique, PathTaken, Live
<1>3. CASE AcceptCreate(id, seq)
  <2>1. /\ UniquePath(op.newPath, f) \in Path
        /\ ~PathTaken(UniquePath(op.newPath, f), f)
    BY <1>1, <1>3, UniquePathIsFree DEF AcceptCreate
  <2>2. NewStoredFile(op, id, UniquePath(op.newPath, f)) \in StoredFile
    BY <2>1, HandlerRowTypes
  <2>3. NewStoredFile(op, id, UniquePath(op.newPath, f)).path = UniquePath(op.newPath, f)
    BY DEF NewStoredFile
  <2> QED
    BY <1>3, <2>1, <2>2, <2>3 DEF AcceptCreate, Commit
<1>4. CASE AcceptUpdate(id, seq)
  <2>1. Updated(op, id) \in StoredFile
    BY HandlerRowTypes
  <2>2. Updated(op, id).path = old.path
    BY <1>1 DEF Updated, StoredFile
  <2>3. ~PathTaken(old.path, f)
    BY <1>4 DEF AcceptUpdate, PathFree
  <2> QED
    BY <1>4, <2>1, <2>2, <2>3 DEF AcceptUpdate, Commit
<1>5. CASE RaiseConflict(id, seq)
  <2> DEFINE row == [old EXCEPT !.conflictId = Len(conflicts) + 1]
  <2>1. row \in StoredFile
    <3>1. Len(conflicts) + 1 \in Nat
      BY LenProperties DEF TypeOK
    <3> QED
      BY <3>1, HandlerRowTypes
  <2>2. row.path = old.path /\ row.exists = old.exists /\ row.deleted = old.deleted
    BY <1>1 DEF StoredFile
  <2>3. files' = [files EXCEPT ![f] = row]
    BY <1>5 DEF RaiseConflict, Commit
  <2> QED
    BY <1>2, <2>1, <2>2, <2>3
<1>6. CASE AcceptRename(id, seq)
  <2>1. /\ UniquePath(op.newPath, f) \in Path
        /\ ~PathTaken(UniquePath(op.newPath, f), f)
    BY <1>1, <1>6, UniquePathIsFree DEF AcceptRename
  <2>2. Renamed(op, UniquePath(op.newPath, f)) \in StoredFile
    BY <2>1, HandlerRowTypes
  <2>3. Renamed(op, UniquePath(op.newPath, f)).path = UniquePath(op.newPath, f)
    BY <1>1 DEF Renamed, StoredFile
  <2> QED
    BY <1>6, <2>1, <2>2, <2>3 DEF AcceptRename, Commit
<1>7. CASE AcceptLosingRename(id, seq)
  BY <1>1, <1>2, <1>7 DEF AcceptLosingRename, Commit
<1>8. CASE AcceptDelete(id, seq)
  <2>1. Deleted(op) \in StoredFile
    BY HandlerRowTypes
  <2>2. Deleted(op).deleted
    BY <1>1 DEF Deleted, StoredFile
  <2>3. files' = [files EXCEPT ![f] = Deleted(op)]
    BY <1>8 DEF AcceptDelete, Commit
  <2> QED
    BY <2>1, <2>2, <2>3
<1>9. CASE AcceptRestore(id, seq)
  <2>1. /\ UniquePath(op.newPath, f) \in Path
        /\ ~PathTaken(UniquePath(op.newPath, f), f)
    BY <1>1, <1>9, UniquePathIsFree DEF AcceptRestore
  <2>2. Restored(op, id, UniquePath(op.newPath, f)) \in StoredFile
    BY <2>1, HandlerRowTypes
  <2>3. Restored(op, id, UniquePath(op.newPath, f)).path = UniquePath(op.newPath, f)
    BY <1>1 DEF Restored, StoredFile
  <2> QED
    BY <1>9, <2>1, <2>2, <2>3 DEF AcceptRestore, Commit
<1> QED
  BY <1>3, <1>4, <1>5, <1>6, <1>7, <1>8, <1>9 DEF Accept

LEMMA NextLivePaths == TypeOK /\ LivePathsUnique /\ [Next]_vars => LivePathsUnique'
<1> SUFFICES ASSUME TypeOK, LivePathsUnique, [Next]_vars PROVE LivePathsUnique'
  OBVIOUS
<1>1. CASE AcceptStep
  <2>1. PICK id \in DOMAIN issued, seq \in Nat \ {0} : Accept(id, seq)
    BY <1>1 DEF AcceptStep
  <2> DEFINE h == issued[id].fileId
  <2>2. PICK row \in StoredFile :
            /\ files' = [files EXCEPT ![h] = row]
            /\ row.exists /\ ~row.deleted => ~PathTaken(row.path, h)
    BY <2>1, AcceptedPathFree
  <2>3. h \in FileId /\ files \in [FileId -> StoredFile]
    BY OperationTypes DEF TypeOK
  <2>4. files'[h] = row /\ \A g \in FileId \ {h} : files'[g] = files[g]
    BY <2>2, <2>3
  <2> HIDE DEF h
  <2> QED
    BY <2>2, <2>3, <2>4 DEF LivePathsUnique, Live, PathTaken
<1>2. CASE LeaseStep
  BY <1>2, LeaseFacts DEF LivePathsUnique, Live
<1>3. CASE UNCHANGED <<files, conflicts, log>>
  BY <1>3 DEF LivePathsUnique, Live
<1> QED
  BY <1>1, <1>2, <1>3, FileStepCases

\* Index files_live_path is never the first to find out: no two live files share
\* a path, for any number of files and of suffixes.
THEOREM LivePaths == Spec => []LivePathsUnique
<1>1. Init => LivePathsUnique
  BY DEF Init, Absent, LivePathsUnique, Live
<1> QED
  BY <1>1, TypeCorrect, NextLivePaths, PTL DEF Spec

-----------------------------------------------------------------------------
(***************************************************************************)
(* Conflicts.                                                              *)
(***************************************************************************)

\* An operation that raises no conflict leaves a waiting one alone: it changes
\* content only where none waits.
LEMMA AcceptKeepsFrozen ==
    ASSUME TypeOK, FrozenByItsConflict,
           NEW id \in DOMAIN issued, NEW seq \in Nat \ {0},
           Accept(id, seq), ~RaiseConflict(id, seq)
    PROVE  LET f == issued[id].fileId
           IN  /\ conflicts' = conflicts
               /\ \E row \in StoredFile :
                     /\ files' = [files EXCEPT ![f] = row]
                     /\ row.conflictId = files[f].conflictId
                     /\ \/ row.conflictId = 0
                        \/ /\ row.content = files[f].content
                           /\ row.contentVV = files[f].contentVV
<1> DEFINE op == issued[id]
           f == op.fileId
           old == files[f]
<1>1. f \in FileId /\ op.newPath \in Path /\ old \in StoredFile
  BY OperationTypes
<1>2. ASSUME Admitted(id, seq), op.kind \in ContentKinds
      PROVE  old.conflictId = 0
  BY <1>2 DEF Admitted, FileAdmits
<1>3. CASE AcceptCreate(id, seq)
  <2>1. UniquePath(op.newPath, f) \in Path
    BY <1>1, <1>3, UniquePathIsFree DEF AcceptCreate
  <2>2. NewStoredFile(op, id, UniquePath(op.newPath, f)) \in StoredFile
    BY <2>1, HandlerRowTypes
  <2>3. NewStoredFile(op, id, UniquePath(op.newPath, f)).conflictId = 0
    BY DEF NewStoredFile
  <2>4. old.conflictId = 0
    BY <1>2, <1>3 DEF AcceptCreate, IsCreate, ContentKinds
  <2> QED
    BY <1>3, <2>2, <2>3, <2>4 DEF AcceptCreate, Commit
<1>4. CASE AcceptUpdate(id, seq)
  <2>1. Updated(op, id) \in StoredFile
    BY HandlerRowTypes
  <2>2. Updated(op, id).conflictId = 0
    BY <1>1 DEF Updated, StoredFile
  <2>3. old.conflictId = 0
    BY <1>2, <1>4 DEF AcceptUpdate, IsUpdate, ContentKinds
  <2> QED
    BY <1>4, <2>1, <2>2, <2>3 DEF AcceptUpdate, Commit
<1>5. CASE AcceptRename(id, seq)
  <2>1. UniquePath(op.newPath, f) \in Path
    BY <1>1, <1>5, UniquePathIsFree DEF AcceptRename
  <2> DEFINE row == Renamed(op, UniquePath(op.newPath, f))
  <2>2. row \in StoredFile
    BY <2>1, HandlerRowTypes
  <2>3. /\ row.conflictId = old.conflictId
        /\ row.content = old.content
        /\ row.contentVV = old.contentVV
    BY <1>1 DEF Renamed, StoredFile
  <2>4. files' = [files EXCEPT ![f] = row] /\ conflicts' = conflicts
    BY <1>5 DEF AcceptRename, Commit
  <2> QED
    BY <2>2, <2>3, <2>4
<1>6. CASE AcceptLosingRename(id, seq)
  BY <1>1, <1>6 DEF AcceptLosingRename, Commit
<1>7. CASE AcceptDelete(id, seq)
  <2>1. Deleted(op) \in StoredFile
    BY HandlerRowTypes
  <2>2. /\ Deleted(op).conflictId = old.conflictId
        /\ Deleted(op).content = old.content
        /\ Deleted(op).contentVV = old.contentVV
    BY <1>1 DEF Deleted, StoredFile
  <2>3. files' = [files EXCEPT ![f] = Deleted(op)] /\ conflicts' = conflicts
    BY <1>7 DEF AcceptDelete, Commit
  <2> QED
    BY <2>1, <2>2, <2>3
<1>8. CASE AcceptRestore(id, seq)
  <2>1. UniquePath(op.newPath, f) \in Path
    BY <1>1, <1>8, UniquePathIsFree DEF AcceptRestore
  <2> DEFINE row == Restored(op, id, UniquePath(op.newPath, f))
  <2>2. row \in StoredFile
    BY <2>1, HandlerRowTypes
  <2>3. row.conflictId = 0
    BY <1>1 DEF Restored, StoredFile
  <2>4. old.conflictId = 0
    BY <1>2, <1>8 DEF AcceptRestore, ContentKinds
  <2>5. files' = [files EXCEPT ![f] = row] /\ conflicts' = conflicts
    BY <1>8 DEF AcceptRestore, Commit
  <2> QED
    BY <2>2, <2>3, <2>4, <2>5
<1> QED
  BY <1>3, <1>4, <1>5, <1>6, <1>7, <1>8 DEF Accept

\* The new conflict is the only open one of its file, and names its content.
LEMMA RaiseFreezes ==
    ASSUME TypeOK, FrozenByItsConflict,
           NEW id \in DOMAIN issued, NEW seq \in Nat \ {0}, RaiseConflict(id, seq)
    PROVE  FrozenByItsConflict'
<1> DEFINE op == issued[id]
           f == op.fileId
           c == Len(conflicts) + 1
           new == ConflictBetween(op, id)
           row == [files[f] EXCEPT !.conflictId = c]
<1>1. f \in FileId /\ files[f] \in StoredFile /\ NewContentVV(op) \in VersionVector
  BY OperationTypes
<1>2. files[f].conflictId = 0
  BY DEF RaiseConflict, Admitted, FileAdmits, IsUpdate, ContentKinds
<1>3. files' = [files EXCEPT ![f] = row] /\ conflicts' = Append(conflicts, new)
  BY DEF RaiseConflict, Commit
<1>4. new \in ConflictRecord
  BY <1>1, WriterType, OperationTypes, LenProperties
     DEF ConflictBetween, ConflictRecord, StoredFile, ConflictStatus, TypeOK
<1>5. /\ conflicts' \in Seq(ConflictRecord)
      /\ Len(conflicts') = c
      /\ \A i \in 1 .. Len(conflicts) : conflicts'[i] = conflicts[i]
      /\ conflicts'[c] = new
  BY <1>3, <1>4, AppendProperties DEF TypeOK
<1>6. /\ Len(conflicts) \in Nat
      /\ DOMAIN conflicts = 1 .. Len(conflicts)
      /\ DOMAIN conflicts' = 1 .. c
  BY <1>5, LenProperties DEF TypeOK
<1>7. /\ new.fileId = f /\ new.status = "open"
      /\ new.ours = files[f].content /\ new.oursVV = files[f].contentVV
  BY DEF ConflictBetween
<1>8. /\ row.conflictId = c /\ row.content = files[f].content
      /\ row.contentVV = files[f].contentVV
  BY <1>1 DEF StoredFile
<1>9. files'[f] = row /\ \A g \in FileId \ {f} : files'[g] = files[g]
  BY <1>1, <1>3 DEF TypeOK
<1> HIDE DEF row, new, c, f
<1>10. ASSUME NEW g \in FileId, files'[g].conflictId # 0
       PROVE  /\ files'[g].conflictId \in DOMAIN conflicts'
              /\ LET k == conflicts'[files'[g].conflictId]
                 IN  /\ k.fileId = g
                     /\ k.status # "resolved"
                     /\ k.ours = files'[g].content
                     /\ k.oursVV = files'[g].contentVV
  <2>1. CASE g = f
    <3>1. files'[g] = row /\ conflicts'[c] = new /\ c \in DOMAIN conflicts'
      BY <1>5, <1>6, <1>9, <2>1 DEF c
    <3> QED
      BY <1>7, <1>8, <2>1, <3>1
  <2>2. CASE g # f
    <3>1. files'[g] = files[g] /\ files[g].conflictId \in DOMAIN conflicts
      BY <1>9, <1>10, <2>2 DEF FrozenByItsConflict
    <3>2. /\ conflicts'[files[g].conflictId] = conflicts[files[g].conflictId]
          /\ files[g].conflictId \in DOMAIN conflicts'
      BY <1>5, <1>6, <3>1 DEF c
    <3> QED
      BY <1>10, <3>1, <3>2 DEF FrozenByItsConflict
  <2> QED
    BY <2>1, <2>2
<1>11. ASSUME NEW k \in DOMAIN conflicts', conflicts'[k].status # "resolved"
       PROVE  files'[conflicts'[k].fileId].conflictId = k
  <2>1. CASE k = c
    BY <1>5, <1>7, <1>8, <1>9, <2>1
  <2>2. CASE k # c
    <3>1. k \in DOMAIN conflicts /\ conflicts'[k] = conflicts[k]
      BY <1>5, <1>6, <1>11, <2>2 DEF c
    <3>2. files[conflicts[k].fileId].conflictId = k /\ k # 0
      BY <1>6, <1>11, <3>1 DEF FrozenByItsConflict
    <3>3. conflicts[k].fileId \in FileId
      <4>1. conflicts[k] \in ConflictRecord
        BY <1>6, <3>1, ElementOfSeq DEF TypeOK
      <4> QED
        BY <4>1 DEF ConflictRecord
    <3>4. conflicts[k].fileId # f
      BY <1>2, <3>2
    <3> QED
      BY <1>9, <3>1, <3>2, <3>3, <3>4
  <2> QED
    BY <2>1, <2>2
<1> QED
  BY <1>10, <1>11 DEF FrozenByItsConflict

LEMMA NextFrozen == TypeOK /\ FrozenByItsConflict /\ [Next]_vars => FrozenByItsConflict'
<1> SUFFICES ASSUME TypeOK, FrozenByItsConflict, [Next]_vars
             PROVE  FrozenByItsConflict'
  OBVIOUS
<1>1. \A k \in DOMAIN conflicts : conflicts[k].fileId \in FileId
  <2>1. \A k \in DOMAIN conflicts : conflicts[k] \in ConflictRecord
    BY ElementOfSeq, LenProperties DEF TypeOK
  <2> QED
    BY <2>1 DEF ConflictRecord
<1>2. ASSUME conflicts' = conflicts,
             \A g \in FileId :
                 /\ files'[g].conflictId = files[g].conflictId
                 /\ files[g].conflictId # 0 => /\ files'[g].content = files[g].content
                                               /\ files'[g].contentVV = files[g].contentVV
      PROVE  FrozenByItsConflict'
  BY <1>1, <1>2 DEF FrozenByItsConflict
<1>3. CASE AcceptStep
  <2>1. PICK id \in DOMAIN issued, seq \in Nat \ {0} : Accept(id, seq)
    BY <1>3 DEF AcceptStep
  <2>2. CASE RaiseConflict(id, seq)
    BY <2>2, RaiseFreezes
  <2>3. CASE ~RaiseConflict(id, seq)
    <3> DEFINE f == issued[id].fileId
    <3>1. PICK row \in StoredFile :
              /\ conflicts' = conflicts
              /\ files' = [files EXCEPT ![f] = row]
              /\ row.conflictId = files[f].conflictId
              /\ \/ row.conflictId = 0
                 \/ /\ row.content = files[f].content
                    /\ row.contentVV = files[f].contentVV
      BY <2>1, <2>3, AcceptKeepsFrozen
    <3>2. f \in FileId /\ files \in [FileId -> StoredFile]
      BY OperationTypes DEF TypeOK
    <3>3. files'[f] = row /\ \A g \in FileId \ {f} : files'[g] = files[g]
      BY <3>1, <3>2
    <3> HIDE DEF f
    <3> QED
      BY <1>2, <3>1, <3>3
  <2> QED
    BY <2>2, <2>3
<1>4. CASE LeaseStep
  <2>1. conflicts' = conflicts
    BY <1>4 DEF LeaseStep
  <2> QED
    BY <1>2, <1>4, <2>1, LeaseFacts
<1>5. CASE UNCHANGED <<files, conflicts, log>>
  BY <1>2, <1>5
<1> QED
  BY <1>3, <1>4, <1>5, FileStepCases

\* docs/spec-core-protocol.md S7: a conflict freezes the content of its file, and
\* a file has one open conflict at most, for any number of devices and files.
THEOREM ConflictFreezes == Spec => []FrozenByItsConflict
<1>1. Init => FrozenByItsConflict
  BY EmptySeq DEF Init, Absent, FrozenByItsConflict
<1> QED
  BY <1>1, TypeCorrect, NextFrozen, PTL DEF Spec

-----------------------------------------------------------------------------
(***************************************************************************)
(* Content never goes back.                                                *)
(***************************************************************************)
MonotoneStep ==
    \A f \in FileId :
        \/ ~files[f].exists
        \/ Dominates(files'[f].contentVV, files[f].contentVV)
        \/ log'[Len(log')].kind = "create" /\ files[f].deleted
        \/ log'[Len(log')].kind = "restore"

LEMMA AcceptMonotone ==
    ASSUME TypeOK, NEW id \in DOMAIN issued, NEW seq \in Nat \ {0}, Accept(id, seq)
    PROVE  MonotoneStep
<1> DEFINE op == issued[id]
           h == op.fileId
           old == files[h]
<1>1. h \in FileId /\ op.newPath \in Path /\ old \in StoredFile
      /\ files \in [FileId -> StoredFile]
  BY OperationTypes DEF TypeOK
<1>2. \A g \in FileId : Dominates(files[g].contentVV, files[g].contentVV)
  <2>1. \A g \in FileId : files[g].contentVV \in VersionVector
    BY DEF TypeOK, StoredFile
  <2> QED
    BY <2>1, DominatesPartialOrder
<1>3. ASSUME NEW row \in StoredFile, NEW c \in Nat, Commit(id, seq, row, c),
             \/ ~old.exists
             \/ Dominates(row.contentVV, old.contentVV)
             \/ op.kind = "create" /\ old.deleted
             \/ op.kind = "restore"
      PROVE  MonotoneStep
  <2>1. files' = [files EXCEPT ![h] = row] /\ log'[Len(log')].kind = op.kind
    BY <1>3, CommitFacts
  <2>2. files'[h] = row /\ \A g \in FileId \ {h} : files'[g] = files[g]
    BY <1>1, <2>1
  <2> QED
    BY <1>2, <1>3, <2>1, <2>2 DEF MonotoneStep
<1>4. CASE AcceptCreate(id, seq)
  <2>1. UniquePath(op.newPath, h) \in Path
    BY <1>1, <1>4, UniquePathIsFree DEF AcceptCreate
  <2>2. NewStoredFile(op, id, UniquePath(op.newPath, h)) \in StoredFile
    BY <2>1, HandlerRowTypes
  <2>3. ~old.exists \/ (op.kind = "create" /\ old.deleted)
    BY <1>4 DEF AcceptCreate, IsCreate, Live
  <2> QED
    BY <1>3, <1>4, <2>2, <2>3 DEF AcceptCreate
<1>5. CASE AcceptUpdate(id, seq)
  <2>1. Updated(op, id) \in StoredFile
    BY HandlerRowTypes
  <2>2. Updated(op, id).contentVV = NewContentVV(op)
    BY <1>1 DEF Updated, StoredFile
  <2>3. Dominates(Updated(op, id).contentVV, old.contentVV)
    BY <1>5, <2>2 DEF AcceptUpdate, Adopts
  <2> QED
    BY <1>3, <1>5, <2>1, <2>3 DEF AcceptUpdate
<1>6. CASE RaiseConflict(id, seq)
  <2> DEFINE row == [old EXCEPT !.conflictId = Len(conflicts) + 1]
  <2>1. Len(conflicts) + 1 \in Nat
    BY LenProperties DEF TypeOK
  <2>2. row \in StoredFile
    BY <2>1, HandlerRowTypes
  <2>3. row.contentVV = old.contentVV
    BY <1>1 DEF StoredFile
  <2>4. Dominates(row.contentVV, old.contentVV)
    BY <1>1, <1>2, <2>3
  <2>5. Commit(id, seq, row, Len(conflicts) + 1)
    BY <1>6 DEF RaiseConflict
  <2> QED
    BY <1>3, <2>1, <2>2, <2>4, <2>5
<1>7. CASE AcceptRename(id, seq)
  <2>1. UniquePath(op.newPath, h) \in Path
    BY <1>1, <1>7, UniquePathIsFree DEF AcceptRename
  <2> DEFINE row == Renamed(op, UniquePath(op.newPath, h))
  <2>2. row \in StoredFile
    BY <2>1, HandlerRowTypes
  <2>3. row.contentVV = old.contentVV
    BY <1>1 DEF Renamed, StoredFile
  <2>4. Dominates(row.contentVV, old.contentVV)
    BY <1>1, <1>2, <2>3
  <2>5. Commit(id, seq, row, 0)
    BY <1>7 DEF AcceptRename
  <2> QED
    BY <1>3, <2>2, <2>4, <2>5
<1>8. CASE AcceptLosingRename(id, seq)
  BY <1>1, <1>2, <1>3, <1>8 DEF AcceptLosingRename
<1>9. CASE AcceptDelete(id, seq)
  <2>1. Deleted(op) \in StoredFile
    BY HandlerRowTypes
  <2>2. Deleted(op).contentVV = old.contentVV
    BY <1>1 DEF Deleted, StoredFile
  <2>3. Dominates(Deleted(op).contentVV, old.contentVV)
    BY <1>1, <1>2, <2>2
  <2> QED
    BY <1>3, <1>9, <2>1, <2>3 DEF AcceptDelete
<1>10. CASE AcceptRestore(id, seq)
  <2>1. UniquePath(op.newPath, h) \in Path
    BY <1>1, <1>10, UniquePathIsFree DEF AcceptRestore
  <2>2. Restored(op, id, UniquePath(op.newPath, h)) \in StoredFile
    BY <2>1, HandlerRowTypes
  <2> QED
    BY <1>3, <1>10, <2>2 DEF AcceptRestore
<1> QED
  BY <1>4, <1>5, <1>6, <1>7, <1>8, <1>9, <1>10 DEF Accept

LEMMA NextMonotone == TypeOK /\ [Next]_vars => MonotoneStep
<1> SUFFICES ASSUME TypeOK, [Next]_vars PROVE MonotoneStep
  OBVIOUS
<1>1. \A g \in FileId : Dominates(files[g].contentVV, files[g].contentVV)
  <2>1. \A g \in FileId : files[g].contentVV \in VersionVector
    BY DEF TypeOK, StoredFile
  <2> QED
    BY <2>1, DominatesPartialOrder
<1>2. CASE AcceptStep
  BY <1>2, AcceptMonotone DEF AcceptStep
<1>3. CASE LeaseStep
  BY <1>1, <1>3, LeaseFacts DEF MonotoneStep
<1>4. CASE UNCHANGED <<files, conflicts, log>>
  BY <1>1, <1>4 DEF MonotoneStep
<1> QED
  BY <1>2, <1>3, <1>4, FileStepCases

\* docs/detailed-design.md section 2: no content is replaced by content that does
\* not dominate it, except by a create over a tombstone and by a restore.
THEOREM ContentMonotone == Spec => ContentVVMonotone
<1>1. TypeOK /\ [Next]_vars => MonotoneStep
  BY NextMonotone
<1>2. MonotoneStep =>
        \A f \in FileId :
          \/ ~files[f].exists
          \/ Dominates(files'[f].contentVV, files[f].contentVV)
          \/ log'[Len(log')].kind = "create" /\ files[f].deleted
          \/ log'[Len(log')].kind = "restore"
  BY DEF MonotoneStep
<1> QED
  BY <1>1, <1>2, TypeCorrect, PTL DEF Spec, ContentVVMonotone

-----------------------------------------------------------------------------
(***************************************************************************)
(* Renames.  The log says which files live, and so which creates are       *)
(* births; a step adds at most one entry, after all the others.            *)
(***************************************************************************)

\* A content operation that raised no conflict and that no delete follows.
Alive(f) ==
    \E k \in LogOf(f, ContentKinds) :
        log[k].conflictId = 0 /\ \A d \in LogOf(f, {"delete"}) : ~(k < d)

LogTellsLife == \A f \in FileId : Live(f) <=> Alive(f)

\* What an accepted operation does to the life, the path clock and the path of
\* its file.
LEMMA AcceptNames ==
    ASSUME TypeOK, NEW id \in DOMAIN issued, NEW seq \in Nat \ {0}, Accept(id, seq)
    PROVE  LET op == issued[id]
               old == files[op.fileId]
           IN  \E row \in StoredFile, c \in Nat :
                  /\ Commit(id, seq, row, c)
                  /\ row.exists
                  /\ \/ op.kind \in ContentKinds /\ c = 0 /\ ~row.deleted
                     \/ op.kind \in ContentKinds /\ c # 0 /\ old.exists /\ row.deleted = old.deleted
                     \/ op.kind = "rename" /\ row.deleted = old.deleted
                     \/ op.kind = "delete" /\ row.deleted
                  /\ \/ /\ IsCreate(op)
                        /\ row.pathClock = MakePathClock(1, op.deviceId)
                     \/ /\ ~IsCreate(op) /\ old.exists
                        /\ \/ /\ op.kind = "rename"
                              /\ PathClockWins(RenameClock(op), old.pathClock)
                              /\ row.pathClock = RenameClock(op)
                              /\ \E n \in 1 .. SuffixLimit : row.path = SuffixPath[op.newPath][n]
                           \/ /\ op.kind = "rename"
                              /\ ~PathClockWins(RenameClock(op), old.pathClock)
                              /\ row = old
                           \/ /\ op.kind = "restore"
                              /\ row.pathClock = old.pathClock
                              /\ \E n \in 1 .. SuffixLimit : row.path = SuffixPath[op.newPath][n]
                           \/ /\ op.kind \in {"create", "update", "delete"}
                              /\ row.pathClock = old.pathClock
                              /\ row.path = old.path
<1> DEFINE op == issued[id]
           old == files[op.fileId]
           path == UniquePath(op.newPath, op.fileId)
<1>1. op.fileId \in FileId /\ op.newPath \in Path /\ old \in StoredFile
  BY OperationTypes
<1>2. ASSUME FreeNumbers(op.newPath, op.fileId) # {}
      PROVE  path \in Path /\ \E n \in 1 .. SuffixLimit : path = SuffixPath[op.newPath][n]
  BY <1>1, <1>2, UniquePathIsFree
<1>3. CASE AcceptCreate(id, seq)
  <2>1. NewStoredFile(op, id, path) \in StoredFile
    BY <1>2, <1>3, HandlerRowTypes DEF AcceptCreate
  <2>2. /\ NewStoredFile(op, id, path).exists /\ ~NewStoredFile(op, id, path).deleted
        /\ NewStoredFile(op, id, path).pathClock = MakePathClock(1, op.deviceId)
    BY DEF NewStoredFile
  <2>3. IsCreate(op) /\ op.kind \in ContentKinds /\ Commit(id, seq, NewStoredFile(op, id, path), 0)
    BY <1>3 DEF AcceptCreate, IsCreate, ContentKinds
  <2> QED
    BY <2>1, <2>2, <2>3
<1>4. CASE AcceptUpdate(id, seq)
  <2>1. Updated(op, id) \in StoredFile
    BY HandlerRowTypes
  <2>2. /\ Updated(op, id).exists = old.exists /\ ~Updated(op, id).deleted
        /\ Updated(op, id).pathClock = old.pathClock /\ Updated(op, id).path = old.path
    BY <1>1 DEF Updated, StoredFile
  <2>3. /\ ~IsCreate(op) /\ old.exists /\ op.kind \in {"create", "update"}
        /\ op.kind \in ContentKinds
        /\ Commit(id, seq, Updated(op, id), 0)
    BY <1>4 DEF AcceptUpdate, IsUpdate, IsCreate, Live, ContentKinds
  <2> QED
    BY <2>1, <2>2, <2>3
<1>5. CASE RaiseConflict(id, seq)
  <2> DEFINE c == Len(conflicts) + 1
             row == [old EXCEPT !.conflictId = c]
  <2>1. c \in Nat /\ c # 0
    BY LenProperties DEF TypeOK
  <2>2. /\ row \in StoredFile /\ row.exists = old.exists /\ row.deleted = old.deleted
        /\ row.pathClock = old.pathClock /\ row.path = old.path
    BY <1>1, <2>1, HandlerRowTypes DEF StoredFile
  <2>3. /\ ~IsCreate(op) /\ old.exists /\ op.kind \in {"create", "update"}
        /\ op.kind \in ContentKinds
        /\ Commit(id, seq, row, c)
    BY <1>5 DEF RaiseConflict, IsUpdate, IsCreate, Live, ContentKinds
  <2> HIDE DEF row, c
  <2> QED
    BY <2>1, <2>2, <2>3
<1>6. CASE AcceptRename(id, seq)
  <2>1. Renamed(op, path) \in StoredFile
    BY <1>2, <1>6, HandlerRowTypes DEF AcceptRename
  <2>2. /\ Renamed(op, path).exists = old.exists /\ Renamed(op, path).deleted = old.deleted
        /\ Renamed(op, path).pathClock = RenameClock(op) /\ Renamed(op, path).path = path
    BY <1>1 DEF Renamed, StoredFile
  <2>3. /\ ~IsCreate(op) /\ old.exists /\ op.kind = "rename"
        /\ PathClockWins(RenameClock(op), old.pathClock)
        /\ Commit(id, seq, Renamed(op, path), 0)
        /\ FreeNumbers(op.newPath, op.fileId) # {}
    BY <1>6 DEF AcceptRename, RenameWins, IsCreate
  <2> QED
    BY <1>2, <2>1, <2>2, <2>3
<1>7. CASE AcceptLosingRename(id, seq)
  BY <1>1, <1>7 DEF AcceptLosingRename, IsCreate
<1>8. CASE AcceptDelete(id, seq)
  <2>1. Deleted(op) \in StoredFile
    BY HandlerRowTypes
  <2>2. /\ Deleted(op).exists = old.exists /\ Deleted(op).deleted
        /\ Deleted(op).pathClock = old.pathClock /\ Deleted(op).path = old.path
    BY <1>1 DEF Deleted, StoredFile
  <2>3. /\ ~IsCreate(op) /\ old.exists /\ op.kind = "delete" /\ Commit(id, seq, Deleted(op), 0)
    BY <1>8 DEF AcceptDelete, IsCreate
  <2> QED
    BY <2>1, <2>2, <2>3
<1>9. CASE AcceptRestore(id, seq)
  <2>1. Restored(op, id, path) \in StoredFile
    BY <1>2, <1>9, HandlerRowTypes DEF AcceptRestore
  <2>2. /\ Restored(op, id, path).exists = old.exists /\ ~Restored(op, id, path).deleted
        /\ Restored(op, id, path).pathClock = old.pathClock
        /\ Restored(op, id, path).path = path
    BY <1>1 DEF Restored, StoredFile
  <2>3. /\ ~IsCreate(op) /\ old.exists /\ op.kind = "restore" /\ op.kind \in ContentKinds
        /\ Commit(id, seq, Restored(op, id, path), 0)
        /\ FreeNumbers(op.newPath, op.fileId) # {}
    BY <1>9 DEF AcceptRestore, IsCreate, ContentKinds
  <2> QED
    BY <1>2, <2>1, <2>2, <2>3
<1> QED
  BY <1>3, <1>4, <1>5, <1>6, <1>7, <1>8, <1>9 DEF Accept

\* The new entry of the log is the last one of its file and of its kind.
LEMMA CommitLogOf ==
    ASSUME TypeOK, NEW id \in DOMAIN issued, NEW seq \in Nat \ {0},
           NEW row \in StoredFile, NEW c \in Nat, Commit(id, seq, row, c),
           NEW f, NEW K
    PROVE  LET op == issued[id]
               n == Len(log')
           IN  /\ n \in Nat /\ LogOf(f, K) \subseteq Nat
               /\ \A i \in LogOf(f, K) : i < n /\ log'[i] = log[i]
               /\ op.fileId = f /\ op.kind \in K => LogOf(f, K)' = LogOf(f, K) \cup {n}
               /\ op.fileId # f \/ op.kind \notin K => LogOf(f, K)' = LogOf(f, K)
<1> DEFINE op == issued[id]
           n == Len(log')
<1>1. /\ Len(log) \in Nat /\ n = Len(log) + 1
      /\ DOMAIN log = 1 .. Len(log) /\ DOMAIN log' = 1 .. n
      /\ \A i \in DOMAIN log : log'[i] = log[i]
      /\ log'[n].fileId = op.fileId /\ log'[n].kind = op.kind
  BY CommitFacts
<1>2. LogOf(f, K) = {i \in DOMAIN log : log[i].fileId = f /\ log[i].kind \in K}
  BY DEF LogOf
<1>3. LogOf(f, K)' = {i \in DOMAIN log' : log'[i].fileId = f /\ log'[i].kind \in K}
  BY DEF LogOf
<1> HIDE DEF n, op
<1>4. /\ n \in Nat /\ LogOf(f, K) \subseteq Nat
      /\ \A i \in LogOf(f, K) : i < n /\ log'[i] = log[i]
  BY <1>1, <1>2
<1>5. \A i \in DOMAIN log' : i \in DOMAIN log \/ i = n
  BY <1>1
<1>6. n \in DOMAIN log' /\ n \notin DOMAIN log /\ DOMAIN log \subseteq DOMAIN log'
  BY <1>1
<1>7. op.fileId = f /\ op.kind \in K => LogOf(f, K)' = LogOf(f, K) \cup {n}
  BY <1>1, <1>2, <1>3, <1>5, <1>6
<1>8. op.fileId # f \/ op.kind \notin K => LogOf(f, K)' = LogOf(f, K)
  BY <1>1, <1>2, <1>3, <1>5, <1>6
<1> QED
  BY <1>4, <1>7, <1>8 DEF n, op

\* The creates that are births stay so; a new one is one if its file does not live.
LEMMA CommitBirths ==
    ASSUME TypeOK, NEW id \in DOMAIN issued, NEW seq \in Nat \ {0},
           NEW row \in StoredFile, NEW c \in Nat, Commit(id, seq, row, c), NEW f
    PROVE  LET op == issued[id]
               n == Len(log')
           IN  /\ Births(f) \subseteq LogOf(f, {"create"})
               /\ op.fileId = f /\ op.kind = "create" /\ ~Alive(f)
                    => Births(f)' = Births(f) \cup {n}
               /\ op.fileId # f \/ op.kind # "create" \/ Alive(f)
                    => Births(f)' = Births(f)
<1> DEFINE op == issued[id]
           n == Len(log')
           C == LogOf(f, {"create"})
           K == LogOf(f, ContentKinds)
           D == LogOf(f, {"delete"})
           Last(i) == \A k \in K : k < i /\ log[k].conflictId = 0 => \E d \in D : k < d /\ d < i
           LastNew(i) == \A k \in K' : k < i /\ log'[k].conflictId = 0 => \E d \in D' : k < d /\ d < i
<1>1. /\ n \in Nat /\ C \subseteq Nat /\ K \subseteq Nat /\ D \subseteq Nat
      /\ \A i \in C : i < n
      /\ \A i \in K : i < n /\ log'[i] = log[i]
      /\ \A i \in D : i < n
      /\ K' = K \cup {n} \/ K' = K
      /\ D' = D \cup {n} \/ D' = D
      /\ op.fileId = f /\ op.kind = "create" => C' = C \cup {n} /\ D' = D
      /\ op.fileId # f \/ op.kind # "create" => C' = C
  BY CommitLogOf
<1>2. Births(f) = {i \in C : Last(i)}
  BY DEF Births
<1>3. Births(f)' = {i \in C' : LastNew(i)}
  BY DEF Births
<1>4. Alive(f) <=> \E k \in K : log[k].conflictId = 0 /\ \A d \in D : ~(k < d)
  BY DEF Alive
<1> HIDE DEF n, op, C, K, D
<1>5. ASSUME NEW i \in Nat, i <= n
      PROVE  LastNew(i) <=> Last(i)
  <2>1. \A k \in K' : k < i => k \in K
    BY <1>1, <1>5
  <2>2. \A d \in D' : d < i => d \in D
    BY <1>1, <1>5
  <2>3. K \subseteq K' /\ D \subseteq D'
    BY <1>1
  <2> QED
    BY <1>1, <2>1, <2>2, <2>3
<1>6. Last(n) <=> ~Alive(f)
  BY <1>1, <1>4
<1> HIDE DEF Last, LastNew
<1>7. \A i \in C : LastNew(i) <=> Last(i)
  BY <1>1, <1>5
<1>8. LastNew(n) <=> ~Alive(f)
  BY <1>1, <1>5, <1>6
<1>9. ASSUME op.fileId = f, op.kind = "create", ~Alive(f)
      PROVE  Births(f)' = Births(f) \cup {n}
  BY <1>1, <1>2, <1>3, <1>7, <1>8, <1>9
<1>10. ASSUME op.fileId # f \/ op.kind # "create" \/ Alive(f)
       PROVE  Births(f)' = Births(f)
  BY <1>1, <1>2, <1>3, <1>7, <1>8, <1>10
<1> QED
  BY <1>2, <1>9, <1>10 DEF n, op, C

LEMMA AcceptLife ==
    ASSUME TypeOK, LogTellsLife, NEW id \in DOMAIN issued, NEW seq \in Nat \ {0},
           Accept(id, seq)
    PROVE  LogTellsLife'
<1> DEFINE op == issued[id]
           h == op.fileId
           n == Len(log')
<1>1. PICK row \in StoredFile, c \in Nat :
          /\ Commit(id, seq, row, c)
          /\ row.exists
          /\ \/ op.kind \in ContentKinds /\ c = 0 /\ ~row.deleted
             \/ /\ op.kind \in ContentKinds /\ c # 0
                /\ files[h].exists /\ row.deleted = files[h].deleted
             \/ op.kind = "rename" /\ row.deleted = files[h].deleted
             \/ op.kind = "delete" /\ row.deleted
          /\ IsCreate(op) \/ files[h].exists
          /\ IsCreate(op) => ~Live(h)
  BY AcceptNames DEF IsCreate
<1>2. /\ h \in FileId /\ files \in [FileId -> StoredFile]
      /\ files' = [files EXCEPT ![h] = row]
      /\ log'[n].conflictId = c
  BY <1>1, CommitFacts, OperationTypes DEF TypeOK
<1>3. files'[h] = row /\ \A g \in FileId \ {h} : files'[g] = files[g]
  BY <1>2
<1>4. ASSUME NEW f \in FileId
      PROVE  Live(f)' <=> Alive(f)'
  <2> DEFINE K == LogOf(f, ContentKinds)
             D == LogOf(f, {"delete"})
  <2>1. /\ n \in Nat /\ K \subseteq Nat /\ D \subseteq Nat
        /\ \A i \in K : i < n /\ log'[i] = log[i]
        /\ \A i \in D : i < n
        /\ h = f /\ op.kind \in ContentKinds => K' = K \cup {n}
        /\ h # f \/ op.kind \notin ContentKinds => K' = K
        /\ h = f /\ op.kind = "delete" => D' = D \cup {n}
        /\ h # f \/ op.kind # "delete" => D' = D
    BY <1>1, CommitLogOf
  <2>2. /\ Alive(f) <=> \E k \in K : log[k].conflictId = 0 /\ \A d \in D : ~(k < d)
        /\ Alive(f)' <=> \E k \in K' : log'[k].conflictId = 0 /\ \A d \in D' : ~(k < d)
    BY DEF Alive
  <2>3. Live(f) <=> Alive(f)
    BY DEF LogTellsLife
  <2>4. /\ Live(f) <=> files[f].exists /\ ~files[f].deleted
        /\ Live(f)' <=> files'[f].exists /\ ~files'[f].deleted
    BY DEF Live
  <2> HIDE DEF K, D, n, h
  <2>5. CASE f # h
    <3>1. Alive(f)' <=> Alive(f)
      BY <2>1, <2>2, <2>5
    <3> QED
      BY <1>3, <2>3, <2>4, <2>5, <3>1
  <2>6. CASE f = h /\ op.kind \in ContentKinds /\ c = 0 /\ ~row.deleted
    <3>1. K' = K \cup {n} /\ D' = D
      BY <2>1, <2>6 DEF ContentKinds
    <3>2. n \in K' /\ log'[n].conflictId = 0
      BY <1>2, <2>6, <3>1
    <3>3. \A d \in D : d \in Nat /\ ~(n < d)
      BY <2>1
    <3>4. Alive(f)'
      BY <2>2, <3>1, <3>2, <3>3
    <3> QED
      BY <1>1, <1>3, <2>4, <2>6, <3>4
  <2>7. CASE /\ f = h /\ op.kind \in ContentKinds /\ c # 0
             /\ files[h].exists /\ row.deleted = files[h].deleted
    <3>1. K' = K \cup {n} /\ D' = D
      BY <2>1, <2>7 DEF ContentKinds
    <3>2. Alive(f)' <=> Alive(f)
      BY <1>2, <2>1, <2>2, <2>7, <3>1
    <3> QED
      BY <1>1, <1>3, <2>3, <2>4, <2>7, <3>2
  <2>8. CASE f = h /\ op.kind = "rename" /\ row.deleted = files[h].deleted
    <3>1. K' = K /\ D' = D
      BY <2>1, <2>8 DEF ContentKinds
    <3>2. Alive(f)' <=> Alive(f)
      BY <2>1, <2>2, <3>1
    <3>3. files[h].exists
      BY <1>1, <2>8 DEF IsCreate
    <3> QED
      BY <1>1, <1>3, <2>3, <2>4, <2>8, <3>2, <3>3
  <2>9. CASE f = h /\ op.kind = "delete" /\ row.deleted
    <3>1. K' = K /\ D' = D \cup {n}
      BY <2>1, <2>9 DEF ContentKinds
    <3>2. ~Alive(f)'
      BY <2>1, <2>2, <3>1
    <3> QED
      BY <1>3, <2>4, <2>9, <3>2
  <2> QED
    BY <1>1, <2>5, <2>6, <2>7, <2>8, <2>9
<1> QED
  BY <1>4 DEF LogTellsLife

\* The operations since the last birth gain the new one, or a birth empties them.
LEMMA CommitSinceBirth ==
    ASSUME TypeOK, LogFromIssued, NEW id \in DOMAIN issued, NEW seq \in Nat \ {0},
           NEW row \in StoredFile, NEW c \in Nat, Commit(id, seq, row, c),
           NEW f, NEW kind, kind # "create"
    PROVE  LET op == issued[id]
               n == Len(log')
           IN  /\ Births(f)' = Births(f) =>
                     /\ BirthClocks(f)' = BirthClocks(f)
                     /\ op.fileId = f /\ op.kind = kind
                          => SinceBirth(f, kind)' = SinceBirth(f, kind) \cup {op}
                     /\ op.fileId # f \/ op.kind # kind
                          => SinceBirth(f, kind)' = SinceBirth(f, kind)
               /\ op.fileId = f /\ op.kind = "create" /\ Births(f)' = Births(f) \cup {n} =>
                     /\ BirthClocks(f)' = {MakePathClock(1, op.deviceId)}
                     /\ SinceBirth(f, kind)' = {}
<1> DEFINE op == issued[id]
           n == Len(log')
           B == Births(f)
           K == LogOf(f, {kind})
           Later == {j \in K : \A k \in B : k < j}
           LaterNew == {j \in K' : \A k \in B' : k < j}
           Latest == {j \in B : \A k \in B : k <= j}
           LatestNew == {j \in B' : \A k \in B' : k <= j}
<1>1. /\ n \in Nat /\ K \subseteq Nat
      /\ \A i \in K : i < n /\ log'[i] = log[i] /\ log[i].opId \in DOMAIN issued
      /\ op.fileId = f /\ op.kind = kind => K' = K \cup {n}
      /\ op.fileId # f \/ op.kind # kind => K' = K
  <2>1. \A i \in K : log[i].opId \in DOMAIN issued
    BY DEF LogOf, LogFromIssued
  <2>2. /\ n \in Nat /\ K \subseteq Nat
        /\ \A i \in K : i < n /\ log'[i] = log[i]
        /\ op.fileId = f /\ op.kind \in {kind} => K' = K \cup {n}
        /\ op.fileId # f \/ op.kind \notin {kind} => K' = K
    BY CommitLogOf
  <2> HIDE DEF n, K, op
  <2> QED
    BY <2>1, <2>2
<1>2. B \subseteq Nat /\ \A i \in B : i < n /\ log'[i] = log[i]
  <2>1. B \subseteq LogOf(f, {"create"})
    BY CommitBirths
  <2> QED
    BY <2>1, CommitLogOf
<1>3. log'[n].opId = id /\ log'[n].deviceId = op.deviceId /\ issued' = issued
  BY CommitFacts
<1>4. /\ SinceBirth(f, kind) = {issued[log[i].opId] : i \in Later}
      /\ SinceBirth(f, kind)' = {issued'[log'[i].opId] : i \in LaterNew}
      /\ BirthClocks(f) = {MakePathClock(1, log[i].deviceId) : i \in Latest}
      /\ BirthClocks(f)' = {MakePathClock(1, log'[i].deviceId) : i \in LatestNew}
  BY DEF SinceBirth, BirthClocks
<1> HIDE DEF n, B, K
<1>5. ASSUME B' = B
      PROVE  /\ {MakePathClock(1, log'[i].deviceId) : i \in LatestNew}
                  = {MakePathClock(1, log[i].deviceId) : i \in Latest}
             /\ op.fileId = f /\ op.kind = kind
                  => {issued'[log'[i].opId] : i \in LaterNew}
                       = {issued[log[i].opId] : i \in Later} \cup {op}
             /\ op.fileId # f \/ op.kind # kind
                  => {issued'[log'[i].opId] : i \in LaterNew} = {issued[log[i].opId] : i \in Later}
  <2>1. LatestNew = Latest /\ \A i \in Latest : log'[i] = log[i]
    BY <1>2, <1>5
  <2>2. \A i \in Later : log'[i] = log[i]
    BY <1>1
  <2>3. CASE op.fileId = f /\ op.kind = kind
    <3>1. LaterNew = Later \cup {n}
      BY <1>1, <1>2, <1>5, <2>3
    <3> HIDE DEF Later, LaterNew, Latest, LatestNew
    <3>2. issued'[log'[n].opId] = op
      BY <1>3
    <3>3. \A i \in Later : issued'[log'[i].opId] = issued[log[i].opId]
      BY <1>3, <2>2
    <3>4. {issued'[log'[i].opId] : i \in LaterNew} = {issued[log[i].opId] : i \in Later} \cup {op}
      BY <3>1, <3>2, <3>3
    <3> QED
      BY <2>1, <2>3, <3>4
  <2>4. CASE op.fileId # f \/ op.kind # kind
    <3>1. LaterNew = Later
      BY <1>1, <1>5, <2>4
    <3> HIDE DEF Later, LaterNew, Latest, LatestNew
    <3> QED
      BY <1>3, <2>1, <2>2, <2>4, <3>1
  <2> QED
    BY <2>3, <2>4
<1>6. ASSUME op.fileId = f, op.kind = "create", B' = B \cup {n}
      PROVE  /\ {MakePathClock(1, log'[i].deviceId) : i \in LatestNew}
                  = {MakePathClock(1, op.deviceId)}
             /\ {issued'[log'[i].opId] : i \in LaterNew} = {}
  <2>1. LatestNew = {n}
    <3>1. \A j \in B' : j \in Nat /\ j <= n
      <4>1. n \in Nat /\ B' = B \cup {n}
        BY <1>1, <1>6
      <4>2. \A j \in B : j \in Nat /\ j < n
        BY <1>2
      <4> HIDE DEF LatestNew, LaterNew, Latest, Later
      <4> QED
        BY <4>1, <4>2
    <3>2. n \in LatestNew
      BY <1>6, <3>1
    <3>3. \A j \in LatestNew : n <= j /\ j \in B'
      BY <1>6
    <3> HIDE DEF LatestNew
    <3>4. \A j \in LatestNew : j = n
      BY <1>1, <3>1, <3>3
    <3> QED
      BY <3>2, <3>4
  <2>2. LaterNew = {}
    <3>1. K' = K
      BY <1>1, <1>6
    <3>2. \A j \in K : ~(n < j)
      BY <1>1
    <3> QED
      BY <1>6, <3>1, <3>2
  <2> QED
    BY <1>3, <2>1, <2>2
<1> QED
  BY <1>4, <1>5, <1>6 DEF B, n

\* NotAfter is the order whose strict part PathClockWins is.
LEMMA ClockOrder ==
    ASSUME NEW a \in PathClock, NEW b \in PathClock, NEW c \in PathClock
    PROVE  /\ NotAfter(a, a)
           /\ PathClockWins(a, b) => NotAfter(b, a)
           /\ ~PathClockWins(a, b) => NotAfter(a, b)
           /\ NotAfter(a, b) /\ NotAfter(b, c) => NotAfter(a, c)
<1>1. /\ a.lamport \in Nat /\ b.lamport \in Nat /\ c.lamport \in Nat
      /\ a.deviceId \in Nat /\ b.deviceId \in Nat /\ c.deviceId \in Nat
  BY WriterAssumption DEF PathClock
<1> QED
  BY <1>1 DEF NotAfter, PathClockWins

LEMMA ClockTypes ==
    ASSUME TypeOK, LogFromIssued, NEW f
    PROVE  /\ \A op \in SinceBirth(f, "rename") : RenameClock(op) \in PathClock
           /\ BirthClocks(f) \subseteq PathClock
<1>1. \A i \in DOMAIN log : log[i].opId \in DOMAIN issued /\ log[i].deviceId \in Writer
  <2>1. \A i \in DOMAIN log : log[i] \in StoredOp
    BY ElementOfSeq, LenProperties DEF TypeOK
  <2> QED
    BY <2>1 DEF LogFromIssued, StoredOp
<1>2. \A id \in DOMAIN issued : issued[id] \in FileOp
  BY OperationTypes
<1>3. \A op \in FileOp : RenameClock(op) \in PathClock
  BY DEF RenameClock, MakePathClock, PathClock, FileOp
<1>4. SinceBirth(f, "rename") \subseteq FileOp
  BY <1>1, <1>2 DEF SinceBirth, LogOf
<1>5. BirthClocks(f) \subseteq PathClock
  BY <1>1 DEF BirthClocks, Births, LogOf, MakePathClock, PathClock
<1> QED
  BY <1>3, <1>4, <1>5

\* The clause of LargestRenameWins about one file.
RenameWinsOf(f) ==
    LET renames == SinceBirth(f, "rename")
        kept == files[f].pathClock
        winners == {op \in renames : RenameClock(op) = kept}
    IN  /\ \A op \in renames : NotAfter(RenameClock(op), kept)
        /\ \A clock \in BirthClocks(f) : NotAfter(clock, kept)
        /\ files[f].exists /\ kept \notin BirthClocks(f) =>
               /\ winners # {}
               /\ \E op \in winners \cup SinceBirth(f, "restore"), n \in 1 .. SuffixLimit :
                      files[f].path = SuffixPath[op.newPath][n]

LEMMA AcceptRenameWinsOf ==
    ASSUME TypeOK, LogFromIssued, LogTellsLife, NEW f \in FileId, RenameWinsOf(f),
           NEW id \in DOMAIN issued, NEW seq \in Nat \ {0}, Accept(id, seq)
    PROVE  RenameWinsOf(f)'
<1> DEFINE op == issued[id]
           h == op.fileId
           n == Len(log')
           old == files[f]
           R == SinceBirth(f, "rename")
           S == SinceBirth(f, "restore")
           B == BirthClocks(f)
<1>1. PICK row \in StoredFile, c \in Nat :
          /\ Commit(id, seq, row, c)
          /\ row.exists
          /\ \/ /\ IsCreate(op)
                /\ row.pathClock = MakePathClock(1, op.deviceId)
             \/ /\ ~IsCreate(op) /\ files[h].exists
                /\ \/ /\ op.kind = "rename"
                      /\ PathClockWins(RenameClock(op), files[h].pathClock)
                      /\ row.pathClock = RenameClock(op)
                      /\ \E k \in 1 .. SuffixLimit : row.path = SuffixPath[op.newPath][k]
                   \/ /\ op.kind = "rename"
                      /\ ~PathClockWins(RenameClock(op), files[h].pathClock)
                      /\ row = files[h]
                   \/ /\ op.kind = "restore"
                      /\ row.pathClock = files[h].pathClock
                      /\ \E k \in 1 .. SuffixLimit : row.path = SuffixPath[op.newPath][k]
                   \/ /\ op.kind \in {"create", "update", "delete"}
                      /\ row.pathClock = files[h].pathClock
                      /\ row.path = files[h].path
  BY AcceptNames
<1>2. /\ h \in FileId /\ files' = [files EXCEPT ![h] = row] /\ op \in FileOp
      /\ files \in [FileId -> StoredFile] /\ files[f] \in StoredFile
  BY <1>1, CommitFacts, OperationTypes DEF TypeOK
<1>3. files'[h] = row /\ \A g \in FileId \ {h} : files'[g] = files[g]
  BY <1>2
<1>4. /\ \A k \in FileOp : k.kind = "rename" => RenameClock(k) \in PathClock
      /\ old.pathClock \in PathClock
      /\ \A r \in R : RenameClock(r) \in PathClock
      /\ B \subseteq PathClock
      /\ MakePathClock(1, op.deviceId) \in PathClock
  BY <1>2, ClockTypes DEF RenameClock, MakePathClock, PathClock, FileOp, StoredFile
<1>5. /\ \A r \in R : NotAfter(RenameClock(r), old.pathClock)
      /\ \A clock \in B : NotAfter(clock, old.pathClock)
      /\ old.exists /\ old.pathClock \notin B =>
             /\ \E r \in R : RenameClock(r) = old.pathClock
             /\ \E r \in {r \in R : RenameClock(r) = old.pathClock} \cup S, k \in 1 .. SuffixLimit :
                    old.path = SuffixPath[r.newPath][k]
  BY DEF RenameWinsOf
<1>6. SUFFICES
        /\ \A r \in R' : NotAfter(RenameClock(r), files'[f].pathClock)
        /\ \A clock \in B' : NotAfter(clock, files'[f].pathClock)
        /\ files'[f].exists /\ files'[f].pathClock \notin B' =>
             /\ \E r \in R' : RenameClock(r) = files'[f].pathClock
             /\ \E r \in {r \in R' : RenameClock(r) = files'[f].pathClock} \cup S',
                   k \in 1 .. SuffixLimit :
                    files'[f].path = SuffixPath[r.newPath][k]
  BY DEF RenameWinsOf
<1>7. /\ Births(f)' = Births(f) =>
            /\ B' = B
            /\ h = f /\ op.kind = "rename" => R' = R \cup {op}
            /\ h # f \/ op.kind # "rename" => R' = R
            /\ h = f /\ op.kind = "restore" => S' = S \cup {op}
            /\ h # f \/ op.kind # "restore" => S' = S
      /\ h = f /\ op.kind = "create" /\ Births(f)' = Births(f) \cup {n} =>
            B' = {MakePathClock(1, op.deviceId)} /\ R' = {}
  BY <1>1, CommitSinceBirth
<1>8. /\ h = f /\ op.kind = "create" /\ ~Alive(f) => Births(f)' = Births(f) \cup {n}
      /\ h # f \/ op.kind # "create" \/ Alive(f) => Births(f)' = Births(f)
  BY <1>1, CommitBirths
<1>9. h = f => (IsCreate(op) <=> op.kind = "create" /\ ~Alive(f))
  BY DEF IsCreate, LogTellsLife
<1>10. \A a \in PathClock, b \in PathClock, k \in PathClock :
            /\ NotAfter(a, a)
            /\ PathClockWins(a, b) => NotAfter(b, a)
            /\ ~PathClockWins(a, b) => NotAfter(a, b)
            /\ NotAfter(a, b) /\ NotAfter(b, k) => NotAfter(a, k)
  BY ClockOrder
<1>11. CASE h # f
  <2>1. files'[f] = files[f]
    BY <1>3, <1>11
  <2>2. B' = B /\ R' = R /\ S' = S
    BY <1>7, <1>8, <1>11
  <2> HIDE DEF R, S, B
  <2> QED
    BY <1>5, <2>1, <2>2
<1>12. CASE h = f /\ IsCreate(op)
  <2>1. B' = {MakePathClock(1, op.deviceId)} /\ R' = {}
    BY <1>7, <1>8, <1>9, <1>12
  <2>2. files'[f].pathClock = MakePathClock(1, op.deviceId)
    BY <1>1, <1>3, <1>12
  <2> HIDE DEF R, S, B
  <2> QED
    BY <1>4, <1>10, <2>1, <2>2
<1>13. CASE h = f /\ ~IsCreate(op)
  <2>1. B' = B /\ files'[f] = row /\ old.exists
    BY <1>1, <1>3, <1>7, <1>8, <1>9, <1>13
  <2>2. /\ op.kind = "rename" => R' = R \cup {op}
        /\ op.kind # "rename" => R' = R
        /\ op.kind = "restore" => S' = S \cup {op}
        /\ op.kind # "restore" => S' = S
    BY <1>7, <1>8, <1>9, <1>13
  <2> HIDE DEF R, S, B, h
  <2>3. CASE /\ op.kind = "rename"
             /\ PathClockWins(RenameClock(op), old.pathClock)
             /\ row.pathClock = RenameClock(op)
             /\ \E k \in 1 .. SuffixLimit : row.path = SuffixPath[op.newPath][k]
    <3>1. RenameClock(op) \in PathClock /\ NotAfter(old.pathClock, RenameClock(op))
      BY <1>2, <1>4, <1>10, <2>3
    <3>2. \A r \in R' : NotAfter(RenameClock(r), row.pathClock)
      BY <1>4, <1>5, <1>10, <2>2, <2>3, <3>1
    <3>3. \A clock \in B' : NotAfter(clock, row.pathClock)
      BY <1>4, <1>5, <1>10, <2>1, <2>3, <3>1
    <3>4. op \in R'
      BY <2>2, <2>3
    <3> QED
      BY <2>1, <2>3, <3>2, <3>3, <3>4
  <2>4. CASE /\ op.kind = "rename"
             /\ ~PathClockWins(RenameClock(op), old.pathClock)
             /\ row = old
    <3>1. NotAfter(RenameClock(op), old.pathClock)
      BY <1>2, <1>4, <1>10, <2>4
    <3>2. R' = R \cup {op} /\ S' = S
      BY <2>2, <2>4
    <3> QED
      BY <1>5, <2>1, <2>4, <3>1, <3>2
  <2>5. CASE /\ op.kind = "restore"
             /\ row.pathClock = old.pathClock
             /\ \E k \in 1 .. SuffixLimit : row.path = SuffixPath[op.newPath][k]
    <3>1. R' = R /\ op \in S'
      BY <2>2, <2>5
    <3> QED
      BY <1>5, <2>1, <2>5, <3>1
  <2>6. CASE /\ op.kind \in {"create", "update", "delete"}
             /\ row.pathClock = old.pathClock
             /\ row.path = old.path
    <3>1. R' = R /\ S' = S
      BY <2>2, <2>6
    <3> QED
      BY <1>5, <2>1, <2>6, <3>1
  <2> QED
    BY <1>1, <1>13, <2>3, <2>4, <2>5, <2>6
<1> QED
  BY <1>11, <1>12, <1>13

LEMMA KeepsIssued ==
    ASSUME TypeOK, [Next]_vars
    PROVE  \A i \in DOMAIN issued : issued'[i] = issued[i]
<1>1. CASE IssueStep
  BY <1>1, IssueKeepsIssued
<1> QED
  BY <1>1, StepCases DEF AnswerStep, CommitStep, Commit, SetStanding, SetActive, vars

\* A step that accepts nothing changes neither the log nor what it says.
LEMMA SameLogSameRenames ==
    ASSUME TypeOK, LogFromIssued, [Next]_vars, log' = log, NEW f
    PROVE  /\ Alive(f)' <=> Alive(f)
           /\ BirthClocks(f)' = BirthClocks(f)
           /\ \A kind : SinceBirth(f, kind)' = SinceBirth(f, kind)
<1>1. \A K : LogOf(f, K)' = LogOf(f, K)
  BY DEF LogOf
<1>2. Births(f)' = Births(f)
  BY <1>1 DEF Births
<1>3. ASSUME NEW kind
      PROVE  SinceBirth(f, kind)' = SinceBirth(f, kind)
  <2> DEFINE Later == {j \in LogOf(f, {kind}) : \A k \in Births(f) : k < j}
  <2>1. Later' = Later
    BY <1>1, <1>2
  <2>2. \A i \in Later : issued'[log[i].opId] = issued[log[i].opId]
    BY KeepsIssued DEF LogOf, LogFromIssued
  <2>3. /\ SinceBirth(f, kind) = {issued[log[i].opId] : i \in Later}
        /\ SinceBirth(f, kind)' = {issued'[log'[i].opId] : i \in Later'}
    BY DEF SinceBirth
  <2> HIDE DEF Later
  <2> QED
    BY <2>1, <2>2, <2>3
<1> QED
  BY <1>1, <1>2, <1>3 DEF Alive, BirthClocks

LEMMA NextLogTellsLife ==
    TypeOK /\ LogFromIssued /\ LogTellsLife /\ [Next]_vars => LogTellsLife'
<1> SUFFICES ASSUME TypeOK, LogFromIssued, LogTellsLife, [Next]_vars
             PROVE  LogTellsLife'
  OBVIOUS
<1>1. CASE AcceptStep
  BY <1>1, AcceptLife DEF AcceptStep
<1>2. ASSUME LeaseStep \/ UNCHANGED <<files, conflicts, log>>, NEW f \in FileId
      PROVE  Live(f)' <=> Alive(f)'
  <2>1. /\ log' = log
        /\ files'[f].exists = files[f].exists /\ files'[f].deleted = files[f].deleted
    BY <1>2, LeaseFacts DEF LeaseStep
  <2> QED
    BY <2>1, SameLogSameRenames DEF Live, LogTellsLife
<1> QED
  BY <1>1, <1>2, FileStepCases DEF LogTellsLife

LEMMA NextLargestRename ==
    TypeOK /\ LogFromIssued /\ LogTellsLife /\ LargestRenameWins /\ [Next]_vars
        => LargestRenameWins'
<1> SUFFICES ASSUME TypeOK, LogFromIssued, LogTellsLife, LargestRenameWins, [Next]_vars,
                    NEW f \in FileId
             PROVE  RenameWinsOf(f)'
  BY DEF LargestRenameWins, RenameWinsOf
<1>1. RenameWinsOf(f)
  BY DEF LargestRenameWins, RenameWinsOf
<1>2. CASE AcceptStep
  BY <1>1, <1>2, AcceptRenameWinsOf DEF AcceptStep
<1>3. CASE LeaseStep \/ UNCHANGED <<files, conflicts, log>>
  <2>1. /\ log' = log
        /\ files'[f].exists = files[f].exists /\ files'[f].path = files[f].path
        /\ files'[f].pathClock = files[f].pathClock
    BY <1>3, LeaseFacts DEF LeaseStep
  <2>2. /\ BirthClocks(f)' = BirthClocks(f)
        /\ SinceBirth(f, "rename")' = SinceBirth(f, "rename")
        /\ SinceBirth(f, "restore")' = SinceBirth(f, "restore")
    BY <2>1, SameLogSameRenames
  <2> QED
    BY <1>1, <2>1, <2>2 DEF RenameWinsOf
<1> QED
  BY <1>2, <1>3, FileStepCases

\* Whatever the number of devices, files and operations, and whatever the order in
\* which the server accepts renames: a file keeps the largest path clock among
\* the renames accepted since it was last created and that creation, and the name
\* that the rename with this clock, or a later restore, asked for.
THEOREM RenamesOrdered == Spec => []LargestRenameWins
<1>1. Init => LogTellsLife /\ LargestRenameWins
  <2> SUFFICES ASSUME Init, NEW f \in FileId
               PROVE  (Live(f) <=> Alive(f)) /\ RenameWinsOf(f)
    BY DEF LogTellsLife, LargestRenameWins, RenameWinsOf
  <2>1. \A K : LogOf(f, K) = {}
    BY EmptySeq DEF Init, LogOf
  <2>2. Births(f) = {} /\ ~Alive(f)
    BY <2>1 DEF Births, Alive
  <2>3. BirthClocks(f) = {} /\ \A kind : SinceBirth(f, kind) = {}
    BY <2>1, <2>2 DEF BirthClocks, SinceBirth
  <2>4. ~files[f].exists
    BY DEF Init, Absent
  <2> QED
    BY <2>2, <2>3, <2>4 DEF Live, RenameWinsOf
<1>2. Spec => []LogFromIssued
  BY TypeCorrect, InitLogFromIssued, NextLogFromIssued, PTL DEF Spec
<1> QED
  BY <1>1, <1>2, TypeCorrect, NextLogTellsLife, NextLargestRename, PTL DEF Spec
==============================================================================
