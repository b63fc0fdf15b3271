----------------------------- MODULE OpProcessor -----------------------------
(***************************************************************************)
(* The server's acceptance of file operations for one vault:               *)
(* packages/server/src/engine/op-processor.ts on the PostgreSQL store      *)
(* (db/pg-op-store.ts and the unique indexes of db/migrations).            *)
(*                                                                         *)
(* OpProcessor.process runs in one serializable transaction, retried on a  *)
(* serialization failure (db/pool.ts), so each way it can end is one       *)
(* action: the stored answer of an operation already accepted, a refusal   *)
(* that changes nothing, the acceptance of the operation, or an error      *)
(* that rolls the transaction back.                                        *)
(*                                                                         *)
(* Devices hand in operations over connections that drop and reconnect, so *)
(* an issued operation may arrive never, once or many times, in any order. *)
(* A device's outbox renumbers the operations it still holds after a       *)
(* reject and after a force-pull (OutboxManager.removeAndReindex and       *)
(* discardUnsent), so the same operation may arrive under another          *)
(* deviceSeq; module Outbox says which numbers it really uses.             *)
(***************************************************************************)
EXTENDS VersionVectors, Sequences, FiniteSets

CONSTANTS
    Device,        \* the devices registered for the vault
    Collab,        \* the synthetic writer "collab:<fileId>" of a file's room
    FileId,        \* the file identifiers clients have made up
    Path,          \* the paths, up to case folding
    IllegalPath,   \* those of them that normalizePath throws on
    SuffixLimit,   \* uniquePath tries this many names (9998 in the code)
    SuffixPath,    \* suffixPath: SuffixPath[path][n] is path with number n in it
    ClientKinds,   \* the kinds of operation the devices issue
    Standing,      \* the standings a device may be given
    RoomId,        \* the files a room may be opened for
    MaxOps,        \* bound: operations issued
    MaxPending,    \* bound: operations issued and not accepted
    MaxLamport     \* bound: the Lamport time of a rename

ASSUME OpProcessorAssumption ==
    /\ Writer = Device \cup {Collab}
    /\ Collab \notin Device
    /\ IllegalPath \subseteq Path
    /\ Path # {}
    /\ SuffixLimit \in Nat \ {0}
    /\ SuffixPath \in [Path -> [1 .. SuffixLimit -> Path]]
    /\ \A p \in Path : SuffixPath[p][1] = p
    /\ "writer" \in Standing
    /\ Standing \subseteq {"writer", "viewer", "revoked"}
    /\ RoomId \subseteq FileId
    /\ ClientKinds \subseteq {"create", "update", "rename", "delete", "restore"}
    /\ MaxOps \in Nat
    /\ MaxPending \in Nat
    /\ MaxLamport \in Nat

VARIABLES
    issued,         \* the operations clients and rooms have issued; the index
                    \* of an operation is its opId
    standing,       \* devices.revoked and vault_members.role, per device
    lastDeviceSeq,  \* devices.last_device_seq
    files,          \* the rows of table files
    conflicts,      \* the rows of table conflicts; the index is conflict_id
    log,            \* the rows of table file_ops
    nextSeq,        \* vaults.next_seq
    answer          \* what the last call of process returned

vars == <<issued, standing, lastDeviceSeq, files, conflicts, log, nextSeq, answer>>

-----------------------------------------------------------------------------
(***************************************************************************)
(* Data.                                                                   *)
(***************************************************************************)
ContentKinds == {"create", "update", "restore"}
Kinds == ContentKinds \cup {"rename", "delete"}

OpId == Nat \ {0}

\* baseContentVV is the version the issuer bumps: what it had seen of the
\* content.  makeDeleteOp leaves it out and process never reads it.
FileOp ==
    [deviceId : Writer, fileId : FileId, kind : Kinds,
     baseContentVV : VersionVector, newPath : Path, lamport : Nat]

NewContentVV(op) == Bump(op.baseContentVV, op.deviceId)

\* content stands for the content hash: the opId that brought the content,
\* 0 for none.  No two operations bring the same content.
\* conflictId 0 is null.  deleteVV is EmptyVV where the column is null: the
\* only reader joins it with another vector.  active stands for
\* active_lease_until > now().
StoredFile ==
    [exists : BOOLEAN, path : Path, pathClock : PathClock,
     contentVV : VersionVector, content : Nat, deleteVV : VersionVector,
     deleted : BOOLEAN, epoch : Nat, conflictId : Nat, active : BOOLEAN]

ConflictStatus == {"open", "claimed", "resolved"}

\* claimedBy is Collab, which never claims, where the column is null.
ConflictRecord ==
    [fileId : FileId, status : ConflictStatus, claimedBy : Writer,
     ours : Nat, theirs : Nat, oursVV : VersionVector, theirsVV : VersionVector]

StoredOp ==
    [seq : Nat, opId : OpId, deviceId : Writer, deviceSeq : Nat, fileId : FileId,
     kind : Kinds, contentVV : VersionVector, conflictId : Nat]

Codes == {"DEVICE_REVOKED", "FORBIDDEN", "STALE", "SEQ_GAP", "BLOB_MISSING",
          "FILE_ACTIVE", "CONFLICT_PENDING", "NOT_FOUND", "ILLEGAL_PATH"}

\* asked is the opId of the request, opId the one the answer names.
Answer ==
    [type : {"none", "ack", "reject", "error"}, asked : Nat, opId : Nat,
     vaultSeq : Nat, conflictId : Nat, code : Codes \cup {"", "INTERNAL"}]

Quiet == [type |-> "none", asked |-> 0, opId |-> 0, vaultSeq |-> 0,
          conflictId |-> 0, code |-> ""]

NoPath == CHOOSE p \in Path : TRUE

Absent ==
    [exists |-> FALSE, path |-> NoPath, pathClock |-> MakePathClock(0, Collab),
     contentVV |-> EmptyVV, content |-> 0, deleteVV |-> EmptyVV,
     deleted |-> TRUE, epoch |-> 0, conflictId |-> 0, active |-> FALSE]

Init ==
    /\ issued = << >>
    /\ standing = [d \in Device |-> "writer"]
    /\ lastDeviceSeq = [d \in Device |-> 0]
    /\ files = [f \in FileId |-> Absent]
    /\ conflicts = << >>
    /\ log = << >>
    /\ nextSeq = 1
    /\ answer = Quiet

-----------------------------------------------------------------------------
(***************************************************************************)
(* What the issuers do.                                                    *)
(***************************************************************************)

\* The versions of f's content a client can have observed through the log, a
\* manifest page or a resolved conflict; a client that lost its index has none.
Seen(f) ==
    {EmptyVV, files[f].contentVV}
        \cup {log[i].contentVV : i \in {j \in DOMAIN log : log[j].fileId = f}}

\* A forced operation joins the version of the local index with the
\* manifest's, the flush of a room joins those of its participants.
Known(f) == {Join(a, b) : a, b \in Seen(f)}

IssueOp(w, f, kind, base, path, lamport) ==
    /\ Len(issued) < MaxOps
    /\ Len(issued) - Len(log) < MaxPending
    /\ issued' = Append(issued,
           [deviceId |-> w, fileId |-> f, kind |-> kind, baseContentVV |-> base,
            newPath |-> path, lamport |-> lamport])
    /\ UNCHANGED <<standing, lastDeviceSeq, files, conflicts, log, nextSeq, answer>>

\* makeContentOp, makeForcedContentOp and makeDeleteOp of a device, and the
\* restore operation of the protocol.  A device deletes or restores a file it
\* has seen.
IssueContent(d, f, kind, base, path) ==
    /\ kind \in ClientKinds \ {"rename"}
    /\ base \in Known(f)
    /\ kind \in {"delete", "restore"} => base # EmptyVV
    /\ IssueOp(d, f, kind, base, path, 0)

\* makeRenameOp of a device; a rename carries no version of the content.
IssueRename(d, f, path, lamport) ==
    /\ "rename" \in ClientKinds
    /\ IssueOp(d, f, "rename", EmptyVV, path, lamport)

\* The flush of a closing room and the restore of a history version: an
\* update in the name of collab:<fileId>.
IssueCollab(f, base) ==
    /\ f \in RoomId
    /\ files[f].exists
    /\ base \in Known(f)
    /\ IssueOp(Collab, f, "update", base, NoPath, 0)

\* An administrator revokes a device or changes its user's role.
SetStanding(d, s) ==
    /\ standing[d] # s
    /\ standing' = [standing EXCEPT ![d] = s]
    /\ UNCHANGED <<issued, lastDeviceSeq, files, conflicts, log, nextSeq, answer>>

\* A room takes the lease of a file, or its lease ends.
SetActive(f, b) ==
    /\ f \in RoomId
    /\ files[f].exists
    /\ files[f].active # b
    /\ files' = [files EXCEPT ![f].active = b]
    /\ UNCHANGED <<issued, standing, lastDeviceSeq, conflicts, log, nextSeq, answer>>

-----------------------------------------------------------------------------
(***************************************************************************)
(* OpProcessor.process.                                                    *)
(***************************************************************************)
Logged(id) == \E i \in DOMAIN log : log[i].opId = id

Synthetic(op) == op.deviceId = Collab

Live(f) == files[f].exists /\ ~files[f].deleted

\* The path of another live file, compared case-folded.
PathTaken(path, f) ==
    \E g \in FileId \ {f} : Live(g) /\ files[g].path = path

FreeNumbers(path, f) ==
    {n \in 1 .. SuffixLimit : ~PathTaken(SuffixPath[path][n], f)}

\* Mutant of UniquePath: the desired path, taken or not.
UniquePathAsDesired(path, f) == path

UniquePath(path, f) ==
    LET numbers == FreeNumbers(path, f)
    IN  SuffixPath[path][CHOOSE n \in numbers : \A m \in numbers : n <= m]

Acknowledge(id, entry) ==
    answer' = [type |-> "ack", asked |-> id, opId |-> entry.opId,
               vaultSeq |-> entry.seq, conflictId |-> entry.conflictId, code |-> ""]

\* The operation was accepted before: its stored result, whatever the sender.
ReplayById(id) ==
    /\ \E i \in DOMAIN log : log[i].opId = id /\ Acknowledge(id, log[i])
    /\ UNCHANGED <<issued, standing, lastDeviceSeq, files, conflicts, log, nextSeq>>

\* The operation is new but its number is used: the result of whichever
\* operation used the number.
ReplayBySeq(id, seq) ==
    LET op == issued[id] IN
    /\ ~Logged(id)
    /\ ~Synthetic(op)
    /\ standing[op.deviceId] = "writer"
    /\ seq <= lastDeviceSeq[op.deviceId]
    /\ \E i \in DOMAIN log :
           /\ log[i].deviceId = op.deviceId
           /\ log[i].deviceSeq = seq
           /\ Acknowledge(id, log[i])
    /\ UNCHANGED <<issued, standing, lastDeviceSeq, files, conflicts, log, nextSeq>>

\* Mutant of SenderAdmitted: a gap in the numbers is let through.
SenderAdmittedWithGap(op, seq) ==
    ~Synthetic(op) => standing[op.deviceId] = "writer" /\ seq > lastDeviceSeq[op.deviceId]

\* The checks on the sender: a room's writer has none.
SenderAdmitted(op, seq) ==
    ~Synthetic(op) => /\ standing[op.deviceId] = "writer"
                      /\ seq = lastDeviceSeq[op.deviceId] + 1

\* Mutant of FileAdmits: a waiting conflict does not freeze the content.
FileAdmitsConflicted(op) ==
    op.kind \in ContentKinds => Synthetic(op) \/ ~files[op.fileId].active

\* The checks on the file: content is the room's while a room holds it, and
\* frozen while a conflict waits.
FileAdmits(op) ==
    op.kind \in ContentKinds =>
        /\ Synthetic(op) \/ ~files[op.fileId].active
        /\ files[op.fileId].conflictId = 0

PathLegal(op) == op.kind = "delete" \/ Synthetic(op) \/ op.newPath \notin IllegalPath

\* Mutant of Admitted: the opId is not looked up.
AdmittedAgain(id, seq) ==
    /\ SenderAdmitted(issued[id], seq)
    /\ PathLegal(issued[id])
    /\ FileAdmits(issued[id])

\* process gets as far as the handler of the operation's kind.
Admitted(id, seq) ==
    /\ ~Logged(id)
    /\ SenderAdmitted(issued[id], seq)
    /\ PathLegal(issued[id])
    /\ FileAdmits(issued[id])

-----------------------------------------------------------------------------
(***************************************************************************)
(* The end of an accepted operation: lines 45 to 53.  conflictId is that   *)
(* of the conflict the operation has raised, 0 if none.                    *)
(***************************************************************************)
Commit(id, seq, row, conflictId) ==
    LET op == issued[id]
        entry == [seq |-> nextSeq, opId |-> id, deviceId |-> op.deviceId,
                  deviceSeq |-> seq, fileId |-> op.fileId, kind |-> op.kind,
                  contentVV |-> row.contentVV, conflictId |-> conflictId]
    IN  /\ nextSeq' = nextSeq + 1
        /\ files' = [files EXCEPT ![op.fileId] = row]
        /\ log' = Append(log, entry)
        /\ lastDeviceSeq' = IF Synthetic(op) THEN lastDeviceSeq
                            ELSE [lastDeviceSeq EXCEPT ![op.deviceId] = seq]
        /\ Acknowledge(id, entry)
        /\ UNCHANGED <<issued, standing>>

\* applyUpdate also serves a create of a file that lives.
IsUpdate(op) ==
    \/ op.kind = "update" /\ files[op.fileId].exists
    \/ op.kind = "create" /\ Live(op.fileId)

IsCreate(op) == op.kind = "create" /\ ~Live(op.fileId)

\* Mutant of NewStoredFile: the conflict of the new row is left undefined.
NewStoredFileWithoutConflict(op, id, path) ==
    [exists |-> TRUE, path |-> path, pathClock |-> MakePathClock(1, op.deviceId),
     contentVV |-> NewContentVV(op), content |-> id, deleteVV |-> EmptyVV,
     deleted |-> FALSE, epoch |-> 0, active |-> FALSE]

\* applyCreate: a new row, also over the tombstone of a deleted file.
NewStoredFile(op, id, path) ==
    [exists |-> TRUE, path |-> path, pathClock |-> MakePathClock(1, op.deviceId),
     contentVV |-> NewContentVV(op), content |-> id, deleteVV |-> EmptyVV,
     deleted |-> FALSE, epoch |-> 0, conflictId |-> 0, active |-> FALSE]

AcceptCreate(id, seq) ==
    LET op == issued[id] IN
    /\ Admitted(id, seq)
    /\ IsCreate(op)
    /\ FreeNumbers(op.newPath, op.fileId) # {}
    /\ Commit(id, seq, NewStoredFile(op, id, UniquePath(op.newPath, op.fileId)), 0)
    /\ UNCHANGED conflicts

\* applyUpdate: the content replaces what it dominates.  A deleted file comes
\* back under the path it had, which the unique index may refuse.
Updated(op, id) ==
    [files[op.fileId] EXCEPT !.contentVV = NewContentVV(op), !.content = id,
                             !.deleted = FALSE, !.conflictId = 0]

\* Mutant of Adopts: only concurrent content is kept out.
AdoptsUnlessConcurrent(op) ==
    ~IsConcurrent(NewContentVV(op), files[op.fileId].contentVV)

Adopts(op) == Dominates(NewContentVV(op), files[op.fileId].contentVV)

\* The unique index files_live_path.
PathFree(f) == ~PathTaken(files[f].path, f)

AcceptUpdate(id, seq) ==
    LET op == issued[id] IN
    /\ Admitted(id, seq)
    /\ IsUpdate(op)
    /\ Adopts(op)
    /\ PathFree(op.fileId)
    /\ Commit(id, seq, Updated(op, id), 0)
    /\ UNCHANGED conflicts

\* Mutant of ConflictBetween: the base of the rejected content, not its version.
ConflictBetweenBases(op, id) ==
    [fileId |-> op.fileId, status |-> "open", claimedBy |-> Collab,
     ours |-> files[op.fileId].content, theirs |-> id,
     oursVV |-> files[op.fileId].contentVV, theirsVV |-> op.baseContentVV]

\* applyUpdate: concurrent content raises a conflict and leaves the content.
ConflictBetween(op, id) ==
    [fileId |-> op.fileId, status |-> "open", claimedBy |-> Collab,
     ours |-> files[op.fileId].content, theirs |-> id,
     oursVV |-> files[op.fileId].contentVV, theirsVV |-> NewContentVV(op)]

RaiseConflict(id, seq) ==
    LET op == issued[id]
        c == Len(conflicts) + 1
    IN  /\ Admitted(id, seq)
        /\ IsUpdate(op)
        /\ IsConcurrent(NewContentVV(op), files[op.fileId].contentVV)
        /\ conflicts' = Append(conflicts, ConflictBetween(op, id))
        /\ Commit(id, seq, [files[op.fileId] EXCEPT !.conflictId = c], c)

\* applyRename: the larger path clock wins; a rename that loses is accepted
\* and changes nothing.
RenameClock(op) == MakePathClock(op.lamport, op.deviceId)

RenameWins(op) ==
    /\ op.kind = "rename"
    /\ files[op.fileId].exists
    /\ PathClockWins(RenameClock(op), files[op.fileId].pathClock)

Renamed(op, path) ==
    [files[op.fileId] EXCEPT !.path = path, !.pathClock = RenameClock(op)]

AcceptRename(id, seq) ==
    LET op == issued[id] IN
    /\ Admitted(id, seq)
    /\ RenameWins(op)
    /\ FreeNumbers(op.newPath, op.fileId) # {}
    /\ Commit(id, seq, Renamed(op, UniquePath(op.newPath, op.fileId)), 0)
    /\ UNCHANGED conflicts

AcceptLosingRename(id, seq) ==
    LET op == issued[id] IN
    /\ Admitted(id, seq)
    /\ op.kind = "rename"
    /\ files[op.fileId].exists
    /\ ~PathClockWins(RenameClock(op), files[op.fileId].pathClock)
    /\ Commit(id, seq, files[op.fileId], 0)
    /\ UNCHANGED conflicts

\* applyDelete: no clock is compared.
Deleted(op) ==
    LET row == files[op.fileId]
    IN  [row EXCEPT !.deleted = TRUE, !.deleteVV = row.contentVV]

AcceptDelete(id, seq) ==
    LET op == issued[id] IN
    /\ Admitted(id, seq)
    /\ op.kind = "delete"
    /\ files[op.fileId].exists
    /\ Commit(id, seq, Deleted(op), 0)
    /\ UNCHANGED conflicts

\* applyRestore, whether or not the file is deleted.
Restored(op, id, path) ==
    LET row == files[op.fileId]
    IN  [row EXCEPT !.path = path,
                    !.contentVV = Join(row.deleteVV, NewContentVV(op)),
                    !.content = id, !.deleteVV = EmptyVV, !.deleted = FALSE,
                    !.epoch = row.epoch + 1, !.conflictId = 0]

AcceptRestore(id, seq) ==
    LET op == issued[id] IN
    /\ Admitted(id, seq)
    /\ op.kind = "restore"
    /\ files[op.fileId].exists
    /\ FreeNumbers(op.newPath, op.fileId) # {}
    /\ Commit(id, seq, Restored(op, id, UniquePath(op.newPath, op.fileId)), 0)
    /\ UNCHANGED conflicts

-----------------------------------------------------------------------------
(***************************************************************************)
(* The other ends of process.                                              *)
(***************************************************************************)

\* The first check on the sender that fails, "" if none does.
SenderRefusal(op, seq) ==
    CASE Synthetic(op)                            -> ""
      [] standing[op.deviceId] = "revoked"        -> "DEVICE_REVOKED"
      [] standing[op.deviceId] = "viewer"         -> "FORBIDDEN"
      [] seq > lastDeviceSeq[op.deviceId] + 1     -> "SEQ_GAP"
      [] seq < lastDeviceSeq[op.deviceId] + 1     -> "STALE"
      [] OTHER                                    -> ""

FileRefusal(op) ==
    CASE op.kind \notin ContentKinds              -> ""
      [] ~Synthetic(op) /\ files[op.fileId].active -> "FILE_ACTIVE"
      [] files[op.fileId].conflictId # 0          -> "CONFLICT_PENDING"
      [] OTHER                                    -> ""

HandlerRefusal(op) ==
    LET row == files[op.fileId]
        needsName == IsCreate(op) \/ RenameWins(op) \/ op.kind = "restore"
    IN  CASE op.kind # "create" /\ ~row.exists -> "NOT_FOUND"
          [] IsUpdate(op) /\ StrictlyDominates(row.contentVV, NewContentVV(op)) -> "STALE"
          [] needsName /\ FreeNumbers(op.newPath, op.fileId) = {} -> "ILLEGAL_PATH"
          [] OTHER -> ""

\* A stored result is returned instead of STALE when the number has one.
NumberUsed(op, seq) ==
    \E i \in DOMAIN log : log[i].deviceId = op.deviceId /\ log[i].deviceSeq = seq

Reject(id, code) ==
    /\ answer' = [type |-> "reject", asked |-> id, opId |-> id, vaultSeq |-> 0,
                  conflictId |-> 0, code |-> code]
    /\ UNCHANGED <<issued, standing, lastDeviceSeq, files, conflicts, log, nextSeq>>

\* Mutant of RefuseSender: the sender is checked before the opId is looked up.
RefuseSenderFirst(id, seq) ==
    LET op == issued[id]
        code == SenderRefusal(op, seq)
    IN  /\ code # ""
        /\ code = "STALE" => ~NumberUsed(op, seq)
        /\ Reject(id, code)

\* The checks on the sender answer outside the try block.
RefuseSender(id, seq) ==
    LET op == issued[id]
        code == SenderRefusal(op, seq)
    IN  /\ ~Logged(id)
        /\ code # ""
        /\ code = "STALE" => ~NumberUsed(op, seq)
        /\ Reject(id, code)

\* A SyncError of validatePayload, of the freeze checks or of a handler is
\* caught inside the transaction, which then commits nothing of the operation.
RefuseOp(id, seq) ==
    LET op == issued[id]
        code == IF FileRefusal(op) # "" THEN FileRefusal(op) ELSE HandlerRefusal(op)
    IN  /\ ~Logged(id)
        /\ SenderAdmitted(op, seq)
        /\ PathLegal(op)
        /\ code # ""
        /\ Reject(id, code)

\* The blob an operation refers to is not verified (yet): the blob store has
\* its own life, so here this may happen to any content operation of a device.
RefuseBlob(id, seq) ==
    LET op == issued[id] IN
    /\ ~Logged(id)
    /\ SenderAdmitted(op, seq)
    /\ PathLegal(op)
    /\ op.kind \in ContentKinds
    /\ ~Synthetic(op)
    /\ Reject(id, "BLOB_MISSING")

Fail(id) ==
    /\ answer' = [type |-> "error", asked |-> id, opId |-> 0, vaultSeq |-> 0,
                  conflictId |-> 0, code |-> "INTERNAL"]
    /\ UNCHANGED <<issued, standing, lastDeviceSeq, files, conflicts, log, nextSeq>>

\* Anything but a SyncError rolls the transaction back, and the connection
\* answers {t: 'error'} without an opId: normalizePath throws a
\* PathValidationError, and the unique index files_live_path refuses the row
\* of a deleted file that comes back where another file now lives.
FailOp(id, seq) ==
    LET op == issued[id] IN
    /\ ~Logged(id)
    /\ SenderAdmitted(op, seq)
    /\ \/ ~PathLegal(op)
       \/ /\ FileAdmits(op)
          /\ IsUpdate(op)
          /\ Adopts(op)
          /\ ~PathFree(op.fileId)
    /\ Fail(id)

\* The third serialization failure in a row: withTx gives up.
GiveUp(id) == Fail(id)

\* The numbers an operation may arrive under.  A room's writer numbers its
\* operations by epoch or request, one number for each.
DeviceSeqs(id) == IF Synthetic(issued[id]) THEN {id} ELSE 1 .. MaxOps

Process(id, seq) ==
    \/ ReplayById(id)
    \/ ReplayBySeq(id, seq)
    \/ AcceptCreate(id, seq)
    \/ AcceptUpdate(id, seq)
    \/ RaiseConflict(id, seq)
    \/ AcceptRename(id, seq)
    \/ AcceptLosingRename(id, seq)
    \/ AcceptDelete(id, seq)
    \/ AcceptRestore(id, seq)
    \/ RefuseSender(id, seq)
    \/ RefuseOp(id, seq)
    \/ RefuseBlob(id, seq)
    \/ FailOp(id, seq)
    \/ GiveUp(id)

Issue ==
    \/ \E d \in Device, f \in FileId, k \in ContentKinds \cup {"delete"}, p \in Path :
          \E base \in Known(f) : IssueContent(d, f, k, base, p)
    \/ \E d \in Device, f \in FileId, p \in Path, l \in 1 .. MaxLamport :
          IssueRename(d, f, p, l)
    \/ \E f \in FileId : \E base \in Known(f) : IssueCollab(f, base)

Environment ==
    \/ \E d \in Device, s \in Standing : SetStanding(d, s)
    \/ \E f \in FileId, b \in BOOLEAN : SetActive(f, b)

Next ==
    \/ Issue
    \/ Environment
    \/ \E id \in DOMAIN issued : \E seq \in DeviceSeqs(id) : Process(id, seq)

Spec == Init /\ [][Next]_vars

-----------------------------------------------------------------------------
(***************************************************************************)
(* Properties.                                                             *)
(***************************************************************************)

TypeOK ==
    /\ issued \in Seq(FileOp)
    /\ standing \in [Device -> Standing]
    /\ lastDeviceSeq \in [Device -> Nat]
    /\ files \in [FileId -> StoredFile]
    /\ conflicts \in Seq(ConflictRecord)
    /\ log \in Seq(StoredOp)
    /\ nextSeq \in Nat
    /\ answer \in Answer

\* docs/spec-core-protocol.md S1: one accepted operation per vaultSeq, without
\* gap, in the order of acceptance; no operation is accepted twice, however
\* often and under whatever number it is sent again.
AcceptedOnceInOrder ==
    /\ nextSeq = Len(log) + 1
    /\ \A i \in DOMAIN log : log[i].seq = i
    /\ \A i, j \in DOMAIN log : log[i].opId = log[j].opId => i = j

\* docs/spec-core-protocol.md S1: the operations accepted from a device carry
\* the numbers 1, 2, ... without a gap and in the order of acceptance, and
\* devices.last_device_seq is the last of them.
DeviceStreamContiguous ==
    \A d \in Device :
        /\ \A i \in DOMAIN log :
               log[i].deviceId = d => log[i].deviceSeq \in 1 .. lastDeviceSeq[d]
        /\ \A i, j \in DOMAIN log :
               log[i].deviceId = d /\ log[j].deviceId = d /\ i < j
                   => log[i].deviceSeq < log[j].deviceSeq
        /\ \A n \in 1 .. lastDeviceSeq[d] :
               \E i \in DOMAIN log : log[i].deviceId = d /\ log[i].deviceSeq = n

\* Index files_live_path: whatever creates, renames, deletes, restores and
\* revivals by update do, no two live files share a path.
LivePathsUnique ==
    \A f, g \in FileId :
        Live(f) /\ Live(g) /\ files[f].path = files[g].path => f = g

\* docs/spec-core-protocol.md S7: a file with a conflict is frozen.  It keeps the
\* content and the version the conflict calls "ours", no second conflict is
\* opened for it, and no conflict is left open that its file does not name.
FrozenByItsConflict ==
    /\ \A f \in FileId : files[f].conflictId # 0 =>
          /\ files[f].conflictId \in DOMAIN conflicts
          /\ LET c == conflicts[files[f].conflictId]
             IN  /\ c.fileId = f
                 /\ c.status # "resolved"
                 /\ c.ours = files[f].content
                 /\ c.oursVV = files[f].contentVV
    /\ \A c \in DOMAIN conflicts :
          conflicts[c].status # "resolved" => files[conflicts[c].fileId].conflictId = c

\* The two sides of a conflict are an accepted content and the content of the
\* operation that raised it, neither of which has seen the other.
ConflictSidesConcurrent ==
    \A c \in DOMAIN conflicts :
        /\ IsConcurrent(conflicts[c].oursVV, conflicts[c].theirsVV)
        /\ \E i \in DOMAIN log : log[i].conflictId = c /\ log[i].opId = conflicts[c].theirs
        /\ \A i \in DOMAIN log : log[i].opId = conflicts[c].ours => log[i].conflictId < c

\* docs/detailed-design.md section 2: content replaces content it dominates.
\* Whatever arrives in whatever order, a file's version never goes back, except
\* where a create takes over a tombstone and where a restore brings content back.
ContentVVMonotone ==
    [][\A f \in FileId :
          \/ ~files[f].exists
          \/ Dominates(files'[f].contentVV, files[f].contentVV)
          \/ log'[Len(log')].kind = "create" /\ files[f].deleted
          \/ log'[Len(log')].kind = "restore"]_vars

\* docs/detailed-design.md:58: whatever the order in which renames are accepted,
\* the largest path clock among them and the file's creation is the one the
\* file keeps, and its path is the one the rename with that clock asked for, or a
\* restore.
LogOf(f, kinds) == {i \in DOMAIN log : log[i].fileId = f /\ log[i].kind \in kinds}

\* The creates that found no live file: any other is an update.
Births(f) ==
    {i \in LogOf(f, {"create"}) :
        \A k \in LogOf(f, ContentKinds) : k < i /\ log[k].conflictId = 0 =>
            \E d \in LogOf(f, {"delete"}) : k < d /\ d < i}

BirthClocks(f) ==
    {MakePathClock(1, log[i].deviceId) : i \in {j \in Births(f) : \A k \in Births(f) : k <= j}}

SinceBirth(f, kind) ==
    {issued[log[i].opId] : i \in {j \in LogOf(f, {kind}) : \A k \in Births(f) : k < j}}

NotAfter(a, b) ==
    a.lamport < b.lamport \/ (a.lamport = b.lamport /\ a.deviceId <= b.deviceId)

LargestRenameWins ==
    \A f \in FileId :
        LET renames == SinceBirth(f, "rename")
            kept == files[f].pathClock
            winners == {op \in renames : RenameClock(op) = kept}
        IN  /\ \A op \in renames : NotAfter(RenameClock(op), kept)
            /\ \A clock \in BirthClocks(f) : NotAfter(clock, kept)
            /\ files[f].exists /\ kept \notin BirthClocks(f) =>
                   /\ winners # {}
                   /\ \E op \in winners \cup SinceBirth(f, "restore"), n \in 1 .. SuffixLimit :
                          files[f].path = SuffixPath[op.newPath][n]

\* An acknowledgement names an accepted operation of the same sender with the
\* vaultSeq it was accepted under, and a reject, after which the outbox drops the
\* operation, never answers an operation that has been accepted.
AnswerTruthful ==
    /\ answer.type = "ack" =>
          /\ answer.vaultSeq \in DOMAIN log
          /\ log[answer.vaultSeq].opId = answer.opId
          /\ log[answer.vaultSeq].deviceId = issued[answer.asked].deviceId
    /\ answer.type = "reject" => ~Logged(answer.asked)
=============================================================================
