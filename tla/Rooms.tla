-------------------------------- MODULE Rooms --------------------------------
(***************************************************************************)
(* The realtime room of one file: packages/server/src/engine/              *)
(* room-manager.ts on the PostgreSQL store of engine/yjs.ts, with          *)
(* engine/yjs-gc.ts, and the operations of one device that reach the file  *)
(* meanwhile: it edits, renames or deletes it (op-processor.ts; module     *)
(* OpProcessor has the whole of that).                                     *)
(*                                                                         *)
(* A handler of the room holds its lock from the first to the last of its  *)
(* statements; todo is what the one that holds it has left.  Operations,   *)
(* the collection of old snapshots, timers, a statement that fails and a   *)
(* server that stops come between any two statements.  The statements of   *)
(* one handler that nobody else can come between with an effect are one    *)
(* step: saveRoom and the getFile after it.                                *)
(*                                                                         *)
(* A text is the set of the marks typed into it.  A Y.Doc is the set of    *)
(* its items and the set of those deleted; typing a text anew makes new    *)
(* items, so a text that is inserted twice is there twice.  The updates    *)
(* are to the text the server reads (module YjsSession: the plugin types   *)
(* into another).  A refusal (no participant, old epoch, deleted file,     *)
(* rate limit) changes nothing here and is no step.  compact and           *)
(* sweepExpired are called by nobody.                                      *)
(***************************************************************************)
EXTENDS VersionVectors, FiniteSets, Sequences

CONSTANTS
    Device,         \* the devices that may take part
    Collab,         \* the writer collab:<fileId> of the flushes
    Editor,         \* the device that edits the file by operations
    SnapshotEvery,  \* YJS_SNAPSHOT_EVERY_UPDATES
    Retained,       \* YJS_HISTORY_RETAINED_VERSIONS
    MaxEpoch,       \* bound: activations
    MaxUpdates,     \* bound: updates that are stored
    MaxOps,         \* bound: operations of Editor
    MaxRestores,    \* bound: history versions restored
    MaxFaults,      \* bound: failed statements and stops of the server
    MaxDisturbances \* bound: the last three together

ASSUME RoomsAssumption ==
    /\ Writer = {Collab, Editor}
    /\ SnapshotEvery \in Nat \ {0}
    /\ Retained \in Nat
    /\ {MaxEpoch, MaxUpdates, MaxOps, MaxRestores, MaxFaults, MaxDisturbances}
         \subseteq Nat

VARIABLES
    file,          \* the row of the file in files
    flushed,       \* the epochs whose flush is in file_ops: they give its opId
    roomRow,       \* the row in yjs_rooms
    snapshots,     \* the rows of yjs_snapshots, by epoch
    updates,       \* the rows of yjs_updates
    history,       \* the rows of yjs_snapshot_history, oldest first
    room,          \* RuntimeRoom.persisted and whether state is not closed
    doc,           \* RuntimeRoom.doc
    participants,  \* RuntimeRoom.participants
    joinedVV,      \* what each of them had of the file when it joined
    armed,         \* is closingTimer set?
    fired,         \* does its callback wait for the lock?
    deleting,      \* does closeDeleted wait for the lock?
    job,           \* the handler that holds the lock
    todo,          \* the statements it has left
    held,          \* the row of the file it has read
    restoring,     \* the restoreHistoryVersion under way
    acked,         \* the yjs_ack that have been sent
    typed, ops, restores, faults

fileVars == <<file, flushed>>
store == <<roomRow, snapshots, updates, history>>
members == <<participants, joinedVV>>
timers == <<armed, fired, deleting>>
lock == <<job, todo, held>>
counters == <<typed, ops, restores, faults>>
roomsVars == <<fileVars, store, room, doc, members, timers, lock, restoring, acked, counters>>

-----------------------------------------------------------------------------
(***************************************************************************)
(* Data.                                                                   *)
(***************************************************************************)
Mark == 0 .. MaxUpdates + MaxOps

\* An item: the mark, who made it ("seed", "typed", "restored") and which time.
Item == Mark \X {"seed", "typed", "restored"} \X Nat

Doc == [items : SUBSET Item, deleted : SUBSET Item]

EmptyDoc == [items |-> {}, deleted |-> {}]

Text(d) == {i[1] : i \in d.items \ d.deleted}

\* Y.applyUpdate: what has been merged already makes no difference.
Merged(d, u) == [items |-> d.items \cup u.items, deleted |-> d.deleted \cup u.deleted]

Inserted(text, how, n) == [items |-> {<<m, how, n>> : m \in text}, deleted |-> {}]

\* lease is active_lease_until > now(); renamed stands for the path.
FileRow ==
    [text : SUBSET Mark, vv : VersionVector, deleted : BOOLEAN, renamed : BOOLEAN,
     conflict : BOOLEAN, lease : BOOLEAN]

NoSnapshot == [there |-> FALSE, doc |-> EmptyDoc, through |-> 0]

SnapshotOf(d, through) == [there |-> TRUE, doc |-> d, through |-> through]

\* lease: leaseUntil is null, to come or past.  snapshot and through are those
\* of the last one captured.  open is false where state is closed.
EmptyRoom ==
    [epoch |-> 0, active |-> FALSE, lease |-> "none", base |-> EmptyVV, nextSeq |-> 1,
     snapshot |-> NoSnapshot, open |-> FALSE]

\* The columns of yjs_rooms; the snapshot has a table of its own.
Persisted(r) ==
    [epoch |-> r.epoch, active |-> r.active, lease |-> r.lease, base |-> r.base,
     nextSeq |-> r.nextSeq]

\* device and vv are those of the one who joins.
Idle == [kind |-> "none", device |-> CHOOSE d \in Device : TRUE, vv |-> EmptyVV,
         update |-> EmptyDoc]

NewFile ==
    [text |-> {0}, vv |-> [EmptyVV EXCEPT ![Editor] = 1], deleted |-> FALSE,
     renamed |-> FALSE, conflict |-> FALSE, lease |-> FALSE]

NotRestoring == [stage |-> "none", text |-> {}, vv |-> EmptyVV]

RoomsInit ==
    /\ file = NewFile
    /\ flushed = {}
    /\ roomRow = Persisted(EmptyRoom)
    /\ snapshots = [e \in 0 .. MaxEpoch |-> NoSnapshot]
    /\ updates = {}
    /\ history = <<>>
    /\ room = EmptyRoom
    /\ doc = EmptyDoc
    /\ participants = {}
    /\ joinedVV = [d \in Device |-> EmptyVV]
    /\ armed = FALSE /\ fired = FALSE /\ deleting = FALSE
    /\ job = Idle /\ todo = <<>> /\ held = NewFile
    /\ restoring = NotRestoring
    /\ acked = {}
    /\ typed = 0 /\ ops = 0 /\ restores = 0 /\ faults = 0

Free == todo = <<>>

MayDisturb == ops + restores + faults < MaxDisturbances

-----------------------------------------------------------------------------
(***************************************************************************)
(* OpProcessor.process, as far as a room meets it.                         *)
(***************************************************************************)
Admits == ~file.lease /\ ~file.conflict

\* applyUpdate: the content is replaced, also of a deleted file, or a conflict
\* is raised.
Updated(text, vv) ==
    IF Dominates(vv, file.vv)
    THEN [file EXCEPT !.text = text, !.vv = vv, !.deleted = FALSE]
    ELSE [file EXCEPT !.conflict = TRUE]

\* It is neither refused because of a conflict nor as STALE.
Acceptable(vv) ==
    /\ ~file.conflict
    /\ Dominates(vv, file.vv) \/ IsConcurrent(vv, file.vv)

\* Editor has seen the file; what it types is a new mark.
UpdateByOp ==
    /\ Admits
    /\ ~file.deleted
    /\ file' = Updated(file.text \cup {MaxUpdates + ops + 1}, Bump(file.vv, Editor))
    /\ UNCHANGED deleting

RenameByOp ==
    /\ file' = [file EXCEPT !.renamed = ~@]
    /\ UNCHANGED deleting

\* The answer goes out, then the connection's handler calls closeDeleted.
DeleteByOp ==
    /\ ~file.deleted
    /\ file' = [file EXCEPT !.deleted = TRUE]
    /\ deleting' = TRUE

FileOp ==
    /\ ops < MaxOps /\ MayDisturb
    /\ ops' = ops + 1
    /\ UpdateByOp \/ RenameByOp \/ DeleteByOp
    /\ UNCHANGED <<flushed, store, room, doc, members, armed, fired, lock, restoring,
                   acked, typed, restores, faults>>

-----------------------------------------------------------------------------
(***************************************************************************)
(* The statements of the handlers.                                         *)
(***************************************************************************)
Comes(statement) == todo # <<>> /\ Head(todo) = statement

Go(rest) == todo' = rest /\ job' = IF rest = <<>> THEN Idle ELSE job

GoOn == Go(Tail(todo))

\* The first half of saveRuntime.
SaveRoom ==
    /\ Comes("saveRoom")
    /\ roomRow' = Persisted(room)
    /\ held' = file
    /\ GoOn
    /\ UNCHANGED <<fileVars, snapshots, updates, history, room, doc, members, timers,
                   restoring, acked, counters>>

\* Mutant of RowToSave: the lease is not taken away with the room.
RowToSaveLeased == [held EXCEPT !.lease = (room.lease = "live") \/ @]

RowToSave == [held EXCEPT !.lease = room.active /\ room.lease = "live"]

\* What the handler does at once when saveRuntime is done: the answer to the
\* sender of an update (the others are sent it too), or the end of demoteLocked
\* and closeWithoutFlush, whose second look at the row finds no lease.
Answered == IF job.kind = "update" THEN
                acked \cup {[epoch |-> room.epoch, seq |-> room.nextSeq - 1,
                             items |-> job.update.items]}
            ELSE acked

Finish ==
    IF job.kind \in {"demote", "delete"}
    THEN /\ participants' = {}
         /\ joinedVV' = [d \in Device |-> EmptyVV]
         /\ room' = [room EXCEPT !.open = FALSE]
    ELSE UNCHANGED <<members, room>>

\* The second half: the whole row, as it was read.
SaveFile ==
    /\ Comes("saveFile")
    /\ file' = RowToSave
    /\ held' = NewFile
    /\ acked' = Answered
    /\ Finish
    /\ GoOn
    /\ UNCHANGED <<flushed, store, doc, timers, restoring, counters>>

Captured == SnapshotOf(doc, room.nextSeq - 1)

\* saveSnapshot, both of its rows.
StoreSnapshot(snapshot) ==
    /\ snapshots' = [snapshots EXCEPT ![room.epoch] = snapshot]
    /\ history' = Append(history, [epoch |-> room.epoch, seq |-> snapshot.through,
                                   text |-> Text(snapshot.doc)])

\* captureSnapshot; the flush of a closing room is behind it.
CaptureSnapshot ==
    /\ Comes("captureSnapshot")
    /\ StoreSnapshot(Captured)
    /\ room' = IF job.kind = "demote"
               THEN [room EXCEPT !.snapshot = Captured, !.active = FALSE, !.lease = "none"]
               ELSE [room EXCEPT !.snapshot = Captured]
    /\ GoOn
    /\ UNCHANGED <<fileVars, roomRow, updates, doc, members, timers, held, restoring,
                   acked, counters>>

\* The last statement of activate; promote goes on to its own saveRuntime.
ActivationSnapshot ==
    /\ Comes("activationSnapshot")
    /\ StoreSnapshot(room.snapshot)
    /\ room' = [room EXCEPT !.open = TRUE, !.lease = "live"]
    /\ armed' = FALSE
    /\ GoOn
    /\ UNCHANGED <<fileVars, roomRow, updates, doc, members, fired, deleting, held,
                   restoring, acked, counters>>

\* INSERT ... ON CONFLICT DO NOTHING on (file_id, room_epoch, seq).
Stored(update) ==
    IF \E u \in updates : u.epoch = room.epoch /\ u.seq = room.nextSeq THEN updates
    ELSE updates \cup {[epoch |-> room.epoch, seq |-> room.nextSeq, update |-> update]}

Cadence == room.nextSeq % SnapshotEvery = 0

\* appendUpdate, and only then the document in memory.
AppendUpdate ==
    /\ Comes("appendUpdate")
    /\ updates' = Stored(job.update)
    /\ doc' = Merged(doc, job.update)
    /\ room' = [room EXCEPT !.nextSeq = @ + 1,
                            !.lease = IF job.kind = "update" THEN "live" ELSE @]
    /\ Go(IF job.kind = "update" /\ Cadence
          THEN <<"captureSnapshot">> \o Tail(todo) ELSE Tail(todo))
    /\ UNCHANGED <<fileVars, roomRow, snapshots, history, members, timers, held, restoring,
                   acked, counters>>

\* Mutant of FlushText: what the last snapshot has.
FlushTextOfSnapshot == Text(room.snapshot.doc)

FlushText == Text(doc)

FlushVV ==
    LET known(w) == {room.base[w]} \cup {joinedVV[d][w] : d \in participants}
    IN  Bump([w \in Writer |-> CHOOSE n \in known(w) : \A k \in known(w) : k <= n], Collab)

\* process of the flush: its opId is that of the epoch, so a second flush of an
\* epoch is answered with the result of the first.
Flush ==
    /\ Comes("process")
    /\ IF room.epoch \in flushed
       THEN UNCHANGED fileVars
       ELSE /\ Acceptable(FlushVV)
            /\ file' = Updated(FlushText, FlushVV)
            /\ flushed' = flushed \cup {room.epoch}
    /\ GoOn
    /\ UNCHANGED <<store, room, doc, members, timers, held, restoring, acked, counters>>

\* The error ends the handler: the room stays open, and no timer is set.
FlushRefused ==
    /\ Comes("process")
    /\ room.epoch \notin flushed
    /\ ~Acceptable(FlushVV)
    /\ Go(<<>>)
    /\ UNCHANGED <<fileVars, store, room, doc, members, timers, held, restoring, acked,
                   counters>>

\* The participant is entered; joinedVV is that of the row promote has read.
JoinRoom ==
    /\ Comes("join")
    /\ participants' = participants \cup {job.device}
    /\ joinedVV' = [joinedVV EXCEPT ![job.device] = job.vv]
    /\ GoOn
    /\ UNCHANGED <<fileVars, store, room, doc, timers, held, restoring, acked, counters>>

Statement ==
    \/ SaveRoom \/ SaveFile \/ CaptureSnapshot \/ ActivationSnapshot \/ AppendUpdate
    \/ Flush \/ FlushRefused \/ JoinRoom

-----------------------------------------------------------------------------
(***************************************************************************)
(* The handlers: up to their first statement.                              *)
(***************************************************************************)
SaveRuntime == <<"saveRoom", "saveFile">>

Begin(kind, statements) ==
    /\ Free
    /\ job' = [Idle EXCEPT !.kind = kind]
    /\ todo' = statements

\* Mutant of FirstDoc: the text of the file is put in whether there is a snapshot or not.
FirstDocSeeded ==
    Merged(room.snapshot.doc, Inserted(file.text, "seed", room.epoch))

FirstDoc ==
    IF room.snapshot.there THEN room.snapshot.doc
    ELSE Inserted(file.text, "seed", room.epoch)

\* promote of a room that is closed, with the first half of activate.
PromoteClosed(d) ==
    /\ ~file.deleted
    /\ ~room.active \/ ~room.open
    /\ room.epoch < MaxEpoch
    /\ doc' = FirstDoc
    /\ room' = [epoch |-> room.epoch + 1, active |-> TRUE, lease |-> "live", base |-> file.vv,
                nextSeq |-> 1, snapshot |-> SnapshotOf(FirstDoc, 0), open |-> room.open]
    /\ Free
    /\ job' = [Idle EXCEPT !.kind = "promote", !.device = d, !.vv = file.vv]
    /\ todo' = SaveRuntime \o <<"activationSnapshot">> \o SaveRuntime \o <<"join">>
    /\ UNCHANGED <<fileVars, store, members, timers, held, restoring, acked, counters>>

\* promote of a room that is open: its closing is called off.
PromoteOpen(d) ==
    /\ ~file.deleted
    /\ room.active /\ room.open
    /\ d \notin participants
    /\ room' = [room EXCEPT !.lease = "live"]
    /\ armed' = FALSE
    /\ Free
    /\ job' = [Idle EXCEPT !.kind = "promote", !.device = d, !.vv = file.vv]
    /\ todo' = SaveRuntime \o <<"join">>
    /\ UNCHANGED <<fileVars, store, doc, members, fired, deleting, held, restoring, acked,
                   counters>>

\* rejectIfStale and requireParticipant let it through.
Serves(d) == room.active /\ room.open /\ d \in participants

HandleUpdate(d) ==
    /\ Serves(d)
    /\ typed < MaxUpdates
    /\ typed' = typed + 1
    /\ Free
    /\ job' = [Idle EXCEPT !.kind = "update", !.update = Inserted({typed + 1}, "typed", 0)]
    /\ todo' = <<"appendUpdate">> \o SaveRuntime
    /\ UNCHANGED <<fileVars, store, room, doc, members, timers, held, restoring, acked,
                   ops, restores, faults>>

Heartbeat(d) ==
    /\ Serves(d)
    /\ room.lease = "lapsed"    \* one in time makes no difference
    /\ room' = [room EXCEPT !.lease = "live"]
    /\ Begin("heartbeat", SaveRuntime)
    /\ UNCHANGED <<fileVars, store, doc, members, timers, held, restoring, acked, counters>>

\* Mutant of ScheduleClosing: not while the lease has lapsed.
ScheduleClosingLeased(left) == armed' = (armed \/ (left = {} /\ room.lease = "live"))

\* scheduleClosingIfEmpty.
ScheduleClosing(left) == armed' = (armed \/ (left = {} /\ room.active))

\* leave, or disconnect when a socket of the device closes.
Leave(d) ==
    /\ Free
    /\ d \in participants
    /\ participants' = participants \ {d}
    /\ joinedVV' = [joinedVV EXCEPT ![d] = EmptyVV]
    /\ ScheduleClosing(participants \ {d})
    /\ UNCHANGED <<fileVars, store, room, doc, fired, deleting, lock, restoring, acked, counters>>

TimerFires ==
    /\ armed
    /\ armed' = FALSE
    /\ fired' = TRUE
    /\ UNCHANGED <<fileVars, store, room, doc, members, deleting, lock, restoring, acked, counters>>

DemoteLocked ==
    Begin("demote", <<"process", "captureSnapshot">> \o SaveRuntime)

\* The callback of the timer has the lock.
CloseEmpty ==
    /\ fired
    /\ fired' = FALSE
    /\ Free
    /\ IF participants = {} /\ room.active THEN DemoteLocked ELSE UNCHANGED <<job, todo>>
    /\ UNCHANGED <<fileVars, store, room, doc, members, armed, deleting, held, restoring,
                   acked, counters>>

\* The message demote, which names no epoch, of any device; and closeAll.
Demote ==
    /\ room.active
    /\ DemoteLocked
    /\ UNCHANGED <<fileVars, store, room, doc, members, timers, held, restoring, acked, counters>>

ClosesDeleted == room.active

CloseDeleted ==
    /\ deleting
    /\ deleting' = FALSE
    /\ Free
    /\ IF ClosesDeleted
       THEN /\ room' = [room EXCEPT !.active = FALSE, !.lease = "none"]
            /\ Begin("delete", SaveRuntime)
       ELSE UNCHANGED <<room, job, todo>>
    /\ UNCHANGED <<fileVars, store, doc, members, armed, fired, held, restoring, acked, counters>>

\* restoreHistoryVersion reads the file and the version before it has the lock.
RestoreHistoryVersion ==
    /\ restoring.stage = "none"
    /\ restores < MaxRestores /\ MayDisturb
    /\ restores' = restores + 1
    /\ ~file.deleted
    /\ \E i \in 1 .. Len(history) :
         restoring' = [stage |-> "read", text |-> history[i].text, vv |-> file.vv]
    /\ UNCHANGED <<fileVars, store, room, doc, members, timers, lock, acked, typed, ops, faults>>

\* Its operation, which is refused when the file is in conflict.
RestoreProcess ==
    /\ restoring.stage = "read"
    /\ LET vv == Bump(restoring.vv, Collab)
       IN  IF Acceptable(vv)
           THEN /\ file' = Updated(restoring.text, vv)
                /\ restoring' = [restoring EXCEPT !.stage = "processed"]
           ELSE /\ UNCHANGED file
                /\ restoring' = NotRestoring
    /\ UNCHANGED <<flushed, store, room, doc, members, timers, lock, acked, counters>>

\* replaceDocText as an update, in a room that is open or not.
RestoreLocked ==
    /\ restoring.stage = "processed"
    /\ restoring' = NotRestoring
    /\ Free
    /\ job' = [Idle EXCEPT !.kind = "restore",
                 !.update = [Inserted(restoring.text, "restored", restores)
                               EXCEPT !.deleted = doc.items]]
    /\ todo' = <<"appendUpdate", "captureSnapshot">> \o SaveRuntime
    /\ UNCHANGED <<fileVars, store, room, doc, members, timers, held, acked, counters>>

Handler ==
    \/ \E d \in Device :
         PromoteClosed(d) \/ PromoteOpen(d) \/ HandleUpdate(d) \/ Heartbeat(d) \/ Leave(d)
    \/ TimerFires \/ CloseEmpty \/ Demote \/ CloseDeleted
    \/ RestoreHistoryVersion \/ RestoreProcess \/ RestoreLocked

-----------------------------------------------------------------------------
(***************************************************************************)
(* Time, the collection of old rows, and failures.                         *)
(***************************************************************************)
Lapsed(r) == IF r.lease = "live" THEN [r EXCEPT !.lease = "lapsed"] ELSE r

\* active_lease_until passes: of the row, and of the room, which nobody looks at.
LeaseLapses ==
    /\ Free
    /\ room.lease = "live"
    /\ room' = Lapsed(room)
    /\ roomRow' = Lapsed(roomRow)
    /\ file' = [file EXCEPT !.lease = FALSE]
    /\ UNCHANGED <<flushed, snapshots, updates, history, doc, members, timers, lock,
                   restoring, acked, counters>>

IsCurrent(v) ==
    v.epoch = roomRow.epoch /\ snapshots[v.epoch].there /\ snapshots[v.epoch].through = v.seq

\* selectYjsHistoryRetention: the current ones, and the newest of the others.
Kept ==
    LET current == {i \in 1 .. Len(history) : IsCurrent(history[i])}
        others == 1 .. Len(history) \ current
    IN  current \cup {i \in others : Cardinality({j \in others : j > i}) < Retained}

PruneHistory ==
    /\ Kept # 1 .. Len(history)
    /\ history' = [i \in 1 .. Cardinality(Kept) |->
                     history[CHOOSE k \in Kept : Cardinality({j \in Kept : j <= k}) = i]]
    /\ UNCHANGED <<fileVars, roomRow, snapshots, updates, room, doc, members, timers, lock,
                   restoring, acked, counters>>

\* Mutant of Superseded: an update that a snapshot of any epoch is past.
SupersededAnyEpoch(u) == \E e \in DOMAIN snapshots : snapshots[e].there /\ u.seq <= snapshots[e].through

Superseded(u) == snapshots[u.epoch].there /\ u.seq <= snapshots[u.epoch].through

PruneSuperseded ==
    /\ snapshots' = [e \in DOMAIN snapshots |->
                       IF e < roomRow.epoch THEN NoSnapshot ELSE snapshots[e]]
    /\ updates' = {u \in updates : ~(u.epoch >= roomRow.epoch /\ Superseded(u))}
    /\ <<snapshots, updates>>' # <<snapshots, updates>>
    /\ UNCHANGED <<fileVars, roomRow, history, room, doc, members, timers, lock, restoring,
                   acked, counters>>

\* What loadRuntime reads: the row, its snapshot, and the updates since.
Loaded ==
    LET snapshot == snapshots[roomRow.epoch]
        since == {u \in updates : u.epoch = roomRow.epoch /\ u.seq > snapshot.through}
    IN  [items |-> snapshot.doc.items \cup UNION {u.update.items : u \in since},
         deleted |-> snapshot.doc.deleted \cup UNION {u.update.deleted : u \in since}]

\* The server stops and starts: connections, timers and what runs are gone.
Crash ==
    /\ faults < MaxFaults /\ MayDisturb
    /\ faults' = faults + 1
    /\ doc' = Loaded
    /\ room' = [epoch |-> roomRow.epoch, active |-> roomRow.active, lease |-> roomRow.lease,
                base |-> roomRow.base, nextSeq |-> roomRow.nextSeq,
                snapshot |-> snapshots[roomRow.epoch], open |-> roomRow.active]
    /\ participants' = {}
    /\ joinedVV' = [d \in Device |-> EmptyVV]
    /\ armed' = FALSE /\ fired' = FALSE /\ deleting' = FALSE
    /\ job' = Idle /\ todo' = <<>> /\ held' = NewFile
    /\ restoring' = NotRestoring
    /\ UNCHANGED <<fileVars, store, acked, typed, ops, restores>>

\* A statement of the lock holder fails; what it has done stays done.
Fail ==
    /\ faults < MaxFaults /\ MayDisturb
    /\ ~Free
    /\ faults' = faults + 1
    /\ job' = Idle /\ todo' = <<>> /\ held' = NewFile
    /\ UNCHANGED <<fileVars, store, room, doc, members, timers, restoring, acked, typed, ops,
                   restores>>

Next ==
    \/ FileOp \/ Statement \/ Handler
    \/ LeaseLapses \/ PruneHistory \/ PruneSuperseded \/ Crash \/ Fail

Init == RoomsInit

Spec == Init /\ [][Next]_roomsVars

\* Statements end, timers fire, and the lock is handed on in the order it is asked for.
FairSpec == Spec /\ WF_roomsVars(Statement) /\ WF_roomsVars(TimerFires) /\ SF_roomsVars(CloseEmpty)
-----------------------------------------------------------------------------
(***************************************************************************)
(* Properties.                                                             *)
(***************************************************************************)
\* An update that was acknowledged stays in the room's document through one
\* restart or one failed statement: what appendUpdate, the snapshots, the row of
\* the room and the collection keep is enough to load it again.
AcknowledgedServed ==
    faults <= 1 =>
        \A a \in acked : a.epoch = room.epoch => a.items \subseteq doc.items

\* Without a failure the store has at any time what the document in memory has,
\* the update just being appended included: nothing hangs on the memory of the server.
StoreHasDocument ==
    (faults = 0 /\ room.active /\ roomRow.epoch = room.epoch /\ snapshots[room.epoch].there)
        => Loaded.items = doc.items

\* Two acknowledged updates of an epoch never carry the same number.
NumbersIdentifyUpdates ==
    \A a, b \in acked : a.epoch = b.epoch /\ a.seq = b.seq => a = b

\* What a restart or a failed statement leaves is the room as the devices know it.
RoomSurvives == AcknowledgedServed /\ StoreHasDocument /\ NumbersIdentifyUpdates

\* A room's text is never in the document twice, though it is put in anew on
\* activation, on a restored version and on a restart.  (After several failures an
\* epoch may be given a second time, with rows of its first use still there.)
TextNotDoubled ==
    faults <= 1 => \A i, j \in doc.items \ doc.deleted : i[1] = j[1] => i = j

\* While no handler runs, operations are refused exactly if the room has a lease.
LeaseFollowsRoom ==
    (Free /\ faults = 0) => file.lease = (room.active /\ room.lease = "live")

\* A file that was deleted has no open room once closeDeleted has had its turn.
DeletedFileHasNoRoom ==
    (Free /\ faults = 0 /\ ~deleting /\ file.deleted) => ~room.active

\* The room and the row of its file agree whenever the lock is free.
RoomAgreesWithFile == LeaseFollowsRoom /\ DeletedFileHasNoRoom

\* A flush brings to the file every update that the room acknowledged and nobody
\* deleted, also one that no snapshot has yet.
FlushCarriesAcknowledged ==
    [][flushed' # flushed =>
         \A a \in acked : (a.epoch = room.epoch /\ faults <= 1 /\ ~file'.conflict) =>
           {i[1] : i \in a.items \ doc.deleted} \subseteq file'.text]_roomsVars

\* A room everybody has left is closed, so that its text reaches the file, unless
\* somebody comes back, the flush is refused or something fails.
EmptyRoomCloses ==
    (room.active /\ participants = {})
        ~> ~room.active \/ participants # {} \/ ~Acceptable(FlushVV) \/ faults > 0
=============================================================================
