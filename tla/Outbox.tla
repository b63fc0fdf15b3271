-------------------------------- MODULE Outbox --------------------------------
(***************************************************************************)
(* The outbox of one device, its connections and the server's end of them: *)
(* apps/plugin/src/sync/outbox.ts, the sending half of sync/engine.ts,     *)
(* sync/transport.ts, and dispatch in packages/server/src/ws/server.ts.    *)
(*                                                                         *)
(* What the server makes of an operation that comes under the next number  *)
(* is decided elsewhere (OpProcessor); here it is any of Verdicts, and an  *)
(* operation may be decided differently when it comes again.               *)
(*                                                                         *)
(* Handlers of the plugin save the index and go on when it is saved; other *)
(* handlers run in between.  Saves reach the disk in the order in which    *)
(* they were begun.  A connection is FIFO; when it drops, what has reached *)
(* the server is still processed there, and answers are lost.              *)
(***************************************************************************)
EXTENDS Naturals, Sequences, FiniteSets

CONSTANTS
    Verdicts,    \* what the server may answer to an operation in sequence
    Failing,     \* the operations it answers with an error that has no opId
    Users,       \* bound: who uses the plugin, each with the operations issued and the
                 \* restarts, and whether force-push and force-pull are run
    MaxOps,      \* bound: operations issued by any of them
    MaxLinks     \* bound: connections opened; the last one does not drop

ASSUME OutboxAssumption ==
    /\ Verdicts \subseteq {"accept", "conflict", "refuse", "retry"}
    /\ Failing \subseteq 1 .. MaxOps
    /\ MaxOps \in Nat
    /\ Users \subseteq [forces : BOOLEAN, ops : 0 .. MaxOps, restarts : Nat]
    /\ MaxLinks \in Nat \ {0}

VARIABLES
    issued,      \* how many operations have been made up; they are 1 .. issued
    memory,      \* the OutboxManager: status and number of each operation
    disk,        \* the outbox in the index file
    saving,      \* the saves under way, each with what its handler does next
    phase,       \* of the transport, with the handshake of the engine
    link,        \* the number of the newest connection
    pending,     \* SyncTransport.pendingMessages
    arriving,    \* per connection, the messages on their way to the server
    replies,     \* the answers on their way back on the newest connection
    stream,      \* the accepted operations of the device; the index is deviceSeq
    forcing,     \* is ForceSyncRunner.forcePush running?
    forced,      \* the operation pushForced is busy with, or 0
    waiter,      \* is it in forceWaiters?
    crashes,
    user         \* one of Users, from beginning to end

outboxVars == <<issued, memory, disk, saving, phase, link, pending, arriving,
                replies, stream, forcing, forced, waiter, crashes>>
client == <<memory, saving, forced, waiter>>
network == <<phase, link, pending, arriving, replies>>

Op == 1 .. MaxOps

\* The last three are the statuses of an operation that is not in the map.
Status == {"queued", "inflight", "conflicted", "rejected", "unborn", "acked", "dropped"}

Manager ==
    [status : [Op -> Status], number : [Op -> 0 .. MaxOps], next : 1 .. MaxOps + 1]

Present(m) == {o \in Op : m.status[o] \in {"queued", "inflight", "conflicted", "rejected"}}

Retryable(m) == {o \in Op : m.status[o] \in {"queued", "inflight"}}

Accepted == {stream[i].op : i \in DOMAIN stream}

NewManager ==
    [status |-> [o \in Op |-> "unborn"], number |-> [o \in Op |-> 0], next |-> 1]

Init ==
    /\ user \in Users
    /\ issued = 0
    /\ memory = NewManager
    /\ disk = NewManager
    /\ saving = <<>>
    /\ phase = "down"
    /\ link = 0
    /\ pending = <<>>
    /\ arriving = [n \in 1 .. MaxLinks |-> <<>>]
    /\ replies = <<>>
    /\ stream = <<>>
    /\ forcing = FALSE
    /\ forced = 0
    /\ waiter = FALSE
    /\ crashes = 0

-----------------------------------------------------------------------------
(***************************************************************************)
(* OutboxManager.                                                          *)
(***************************************************************************)

Enqueued(m, o) ==
    [status |-> [m.status EXCEPT ![o] = "queued"],
     number |-> [m.number EXCEPT ![o] = m.next],
     next |-> m.next + 1]

WithStatus(m, o, s) ==
    IF o \in Present(m) THEN [m EXCEPT !.status[o] = s] ELSE m

\* Mutant of Acknowledged: whatever is in flight is taken for the one meant.
AcknowledgedInflight(m, r) ==
    [m EXCEPT !.status = [o \in Op |-> IF m.status[o] = "inflight" THEN "acked" ELSE m.status[o]]]

\* ack and conflict: the second keeps the operation in the map.
Acknowledged(m, r) ==
    WithStatus(m, r.op, IF r.type = "ack" THEN "acked" ELSE "conflicted")

\* Mutant of RemovedAndReindexed: the numbers of the others stay.
RemovedOnly(m, o) == WithStatus(m, o, "dropped")

RemovedAndReindexed(m, o) ==
    IF o \notin Present(m) THEN m
    ELSE [status |-> [m.status EXCEPT ![o] = "dropped"],
          number |-> [p \in Op |->
                         IF p \in Present(m) /\ m.number[p] > m.number[o]
                         THEN m.number[p] - 1 ELSE m.number[p]],
          next |-> m.next - 1]

\* Mutant of Requeued: the operation goes to the end of the queue.
RequeuedLast(m, o) ==
    IF o \in Present(m) THEN Enqueued(RemovedAndReindexed(m, o), o) ELSE m

\* reject that is not terminal.
Requeued(m, o) == WithStatus(m, o, "queued")

IsLast(m, o) == o \in Present(m) /\ m.number[o] = m.next - 1

RolledBack(m, o) == [m EXCEPT !.status[o] = "dropped", !.next = m.next - 1]

Queued(m) == {o \in Op : m.status[o] = "queued"}

LowestQueued(m) ==
    CHOOSE n \in {m.number[o] : o \in Queued(m)} : \A o \in Queued(m) : n <= m.number[o]

MayDiscard(m) ==
    /\ Queued(m) # {}
    /\ \A o \in Present(m) \ Queued(m) :
          m.status[o] # "inflight" /\ m.number[o] <= LowestQueued(m)

Discarded(m) ==
    [m EXCEPT !.status = [o \in Op |-> IF o \in Queued(m) THEN "dropped" ELSE m.status[o]],
              !.next = LowestQueued(m)]

\* The constructor, from the index file.
Loaded(d) ==
    LET numbers == {d.number[o] : o \in Present(d)}
        above == {n \in 1 .. MaxOps + 1 : \A k \in numbers : k < n}
    IN  IF d.next \in above THEN d
        ELSE [d EXCEPT !.next = CHOOSE n \in above : \A k \in above : n <= k]

-----------------------------------------------------------------------------
(***************************************************************************)
(* Sending.                                                                *)
(***************************************************************************)

\* persistOutbox; the handler goes on with what comes after the await.
Save(m, then, o) == Append(saving, [outbox |-> m, then |-> then, op |-> o])

\* SyncTransport.send of an operation: the number is that of the moment at which
\* the message is written.
Sent(n, o, m) == [arriving EXCEPT ![n] = Append(@, [op |-> o, number |-> m.number[o]])]

Transmit(o, m) ==
    IF phase = "closing"
    THEN pending' = Append(pending, o) /\ UNCHANGED arriving
    ELSE arriving' = Sent(link, o, m) /\ UNCHANGED pending

\* The transport is ready (it learns late that its socket is closing) and the
\* handshake was completed.
WriteReady == phase \in {"ready", "closing"}

Lowest(S, m) == CHOOSE o \in S : \A p \in S : m.number[o] <= m.number[p]

\* Mutant of Candidates: the next operation does not wait for the last.
CandidatesEager(m) == IF Queued(m) # {} THEN Queued(m) ELSE Retryable(m)

\* Mutant of Candidates: what is in flight is not sent again.
CandidatesOnce(m) == IF Retryable(m) = Queued(m) THEN Queued(m) ELSE {}

\* The operations flushOutbox chooses the first of.
Candidates(m) ==
    LET inflight == Retryable(m) \ Queued(m)
    IN  IF inflight # {} THEN inflight ELSE Queued(m)

\* What flushOutbox sends: an operation or none.
Chosen(m, ready) ==
    IF ready /\ Candidates(m) # {} THEN {Lowest(Candidates(m), m)} ELSE {}

Flushed(m, ready) ==
    [m EXCEPT !.status = [o \in Op |->
        IF o \in Chosen(m, ready) THEN "inflight" ELSE m.status[o]]]

\* markInflight is saved, and nobody waits for it.
FlushSaves(m, ready) ==
    IF Flushed(m, ready) = m THEN <<>>
    ELSE <<[outbox |-> Flushed(m, ready), then |-> "nothing", op |-> 0]>>

\* flushOutbox.
Flush(ready) ==
    /\ memory' = Flushed(memory, ready)
    /\ IF Chosen(memory, ready) = {}
       THEN UNCHANGED <<pending, arriving>>
       ELSE \A o \in Chosen(memory, ready) : Transmit(o, memory)

-----------------------------------------------------------------------------
(***************************************************************************)
(* The plugin.                                                             *)
(***************************************************************************)

\* enqueueLocalChange up to its await.
EnqueueLocalChange ==
    LET m == Enqueued(memory, issued + 1) IN
    /\ issued < user.ops
    /\ issued' = issued + 1
    /\ memory' = m
    /\ saving' = Save(m, "flush", 0)
    /\ UNCHANGED <<disk, network, stream, forcing, forced, waiter, crashes>>

\* handleAck up to its await.
HandleAck ==
    /\ replies # <<>>
    /\ Head(replies).type \in {"ack", "conflict"}
    /\ LET r == Head(replies)
           m == Acknowledged(memory, r)
       IN  /\ memory' = m
           /\ saving' = Save(m, "flush", r.op)
    /\ replies' = Tail(replies)
    /\ UNCHANGED <<issued, disk, phase, link, pending, arriving, stream, forcing,
                   forced, waiter, crashes>>

\* What pushForced does when its operation was not consumed.
Unforced(m, o) == IF IsLast(m, o) THEN RolledBack(m, o) ELSE WithStatus(m, o, "rejected")

\* handleReject when pushForced waits for the answer: there is no flush.
HandleForcedReject ==
    /\ replies # <<>>
    /\ Head(replies).type \in {"refuse", "retry"}
    /\ waiter /\ Head(replies).op = forced
    /\ memory' = Unforced(memory, forced)
    /\ saving' = Save(memory', "nothing", 0)
    /\ replies' = Tail(replies)
    /\ forced' = 0 /\ waiter' = FALSE /\ forcing' = FALSE
    /\ UNCHANGED <<issued, disk, phase, link, pending, arriving, stream, crashes>>

\* handleReject otherwise.
HandleReject ==
    /\ replies # <<>>
    /\ Head(replies).type \in {"refuse", "retry"}
    /\ ~(waiter /\ Head(replies).op = forced)
    /\ LET r == Head(replies)
           m == IF r.type = "retry" THEN Requeued(memory, r.op)
                ELSE RemovedAndReindexed(memory, r.op)
       IN  /\ memory' = m
           /\ saving' = Save(m, "flush", 0)
    /\ replies' = Tail(replies)
    /\ UNCHANGED <<issued, disk, phase, link, pending, arriving, stream, forcing,
                   forced, waiter, crashes>>

SaveLands(then) ==
    /\ saving # <<>>
    /\ Head(saving).then = then
    /\ disk' = Head(saving).outbox
    /\ UNCHANGED <<issued, phase, link, replies, stream, crashes>>

Saved ==
    /\ SaveLands("nothing")
    /\ saving' = Tail(saving)
    /\ UNCHANGED <<memory, pending, arriving, forcing, forced, waiter>>

\* The rest of a handler: if pushForced waits for this acknowledgement it ends, and
\* saves the outbox once more.
SavedThenFlush ==
    LET answered == waiter /\ Head(saving).op = forced
    IN  /\ SaveLands("flush")
        /\ Flush(WriteReady)
        /\ saving' = Tail(saving) \o FlushSaves(memory, WriteReady)
                        \o (IF answered
                            THEN <<[outbox |-> memory', then |-> "nothing", op |-> 0]>>
                            ELSE <<>>)
        /\ forced' = IF answered THEN 0 ELSE forced
        /\ waiter' = (waiter /\ ~answered)
        /\ forcing' = (forcing /\ ~(answered /\ memory.status[forced] = "conflicted"))

-----------------------------------------------------------------------------
(***************************************************************************)
(* Force-push and force-pull.                                              *)
(***************************************************************************)

\* forcePush starts with an empty outbox; a handler of the watcher that is already
\* running may add to it.
StartForcePush ==
    /\ user.forces
    /\ WriteReady
    /\ ~forcing
    /\ Present(memory) = {}
    /\ forcing' = TRUE
    /\ UNCHANGED <<issued, disk, client, network, stream, crashes>>

EndForcePush ==
    /\ forcing
    /\ forced = 0
    /\ forcing' = FALSE
    /\ UNCHANGED <<issued, disk, client, network, stream, crashes>>

\* pushForced up to its first await.
PushForced ==
    LET m == Enqueued(memory, issued + 1) IN
    /\ forcing
    /\ forced = 0
    /\ issued < user.ops
    /\ issued' = issued + 1
    /\ memory' = m
    /\ saving' = Save(m, "send", issued + 1)
    /\ forced' = issued + 1
    /\ UNCHANGED <<disk, network, stream, forcing, waiter, crashes>>

\* It sends its operation, whatever else is queued or in flight.
SavedThenSend ==
    LET m == WithStatus(memory, forced, "inflight")
    IN  /\ SaveLands("send")
        /\ WriteReady
        /\ memory' = m
        /\ Transmit(forced, m)
        /\ waiter' = TRUE
        /\ saving' = Tail(saving)
        /\ UNCHANGED <<forcing, forced>>

SavedThenNotReady ==
    LET m == Unforced(memory, forced)
    IN  /\ SaveLands("send")
        /\ ~WriteReady
        /\ memory' = m
        /\ saving' = Append(Tail(saving), [outbox |-> m, then |-> "nothing", op |-> 0])
        /\ forced' = 0 /\ forcing' = FALSE
        /\ UNCHANGED <<pending, arriving, waiter>>

\* After 30 s the operation is left in flight.
ForceTimesOut ==
    /\ waiter
    /\ waiter' = FALSE /\ forced' = 0 /\ forcing' = FALSE
    /\ saving' = Save(memory, "nothing", 0)
    /\ UNCHANGED <<issued, memory, disk, network, stream, crashes>>

\* forcePull throws the local operations away that were not sent.
DiscardUnsent ==
    /\ user.forces
    /\ WriteReady
    /\ ~forcing
    /\ MayDiscard(memory)
    /\ memory' = Discarded(memory)
    /\ saving' = Save(memory', "nothing", 0)
    /\ UNCHANGED <<issued, disk, network, stream, forcing, forced, waiter, crashes>>

-----------------------------------------------------------------------------
(***************************************************************************)
(* Connections and restarts.                                               *)
(***************************************************************************)

\* onopen: hello (left out) and the messages that were waiting.
Connect ==
    /\ phase = "down"
    /\ link' = link + 1
    /\ phase' = "open"
    /\ arriving' = [arriving EXCEPT ![link + 1] =
                       [i \in DOMAIN pending |->
                           [op |-> pending[i], number |-> memory.number[pending[i]]]]]
    /\ pending' = <<>>
    /\ UNCHANGED <<issued, disk, client, replies, stream, forcing, crashes>>

\* finishHandshake, when the client has caught up.
FinishHandshake ==
    /\ phase = "open"
    /\ phase' = "ready"
    /\ Flush(TRUE)
    /\ saving' = saving \o FlushSaves(memory, TRUE)
    /\ UNCHANGED <<issued, disk, link, replies, stream, forcing, forced, waiter, crashes>>

\* The connection breaks: part of what was sent has not arrived.  The socket is
\* closing, which the transport learns later.
Drop ==
    /\ phase \in {"open", "ready"}
    /\ link < MaxLinks
    /\ phase' = IF phase = "ready" THEN "closing" ELSE "down"
    /\ \E k \in 0 .. Len(arriving[link]) :
          arriving' = [arriving EXCEPT ![link] = SubSeq(@, 1, k)]
    /\ replies' = <<>>
    /\ UNCHANGED <<issued, disk, client, link, pending, stream, forcing, crashes>>

\* onclose.  pause() and a server that stops look the same.
SocketClosed ==
    /\ phase = "closing"
    /\ phase' = "down"
    /\ UNCHANGED <<issued, disk, client, link, pending, arriving, replies, stream,
                   forcing, crashes>>

\* The plugin stops and is started again.
Restart ==
    /\ crashes < user.restarts
    /\ link < MaxLinks
    /\ crashes' = crashes + 1
    /\ memory' = Loaded(disk)
    /\ saving' = <<>>
    /\ phase' = "down"
    /\ pending' = <<>>
    /\ IF phase \in {"open", "ready"}
       THEN \E k \in 0 .. Len(arriving[link]) :
               arriving' = [arriving EXCEPT ![link] = SubSeq(@, 1, k)]
       ELSE UNCHANGED arriving
    /\ replies' = <<>>
    /\ forcing' = FALSE /\ forced' = 0 /\ waiter' = FALSE
    /\ UNCHANGED <<issued, disk, link, stream>>

-----------------------------------------------------------------------------
(***************************************************************************)
(* The server: dispatch of file_op, one message of a connection at a time. *)
(***************************************************************************)

\* What is sent on an old connection nobody reads.
Reply(n, answers) ==
    replies' = IF n = link /\ phase \in {"open", "ready"} THEN replies \o answers ELSE replies

InSequence(m) == m.op \notin Accepted /\ m.number = Len(stream) + 1

AnswerTo(entry) ==
    <<[type |-> IF entry.conflict THEN "conflict" ELSE "ack", op |-> entry.op]>>

\* The operation, or the number, is known: the stored result.
ServeKnown(n, m) ==
    /\ \/ m.op \in Accepted
       \/ m.number \in DOMAIN stream
    /\ LET i == IF m.op \in Accepted
                THEN CHOOSE k \in DOMAIN stream : stream[k].op = m.op
                ELSE m.number
       IN  Reply(n, AnswerTo(stream[i]))
    /\ UNCHANGED stream

ServeGap(n, m) ==
    /\ m.op \notin Accepted
    /\ m.number > Len(stream) + 1
    /\ Reply(n, <<[type |-> "retry", op |-> m.op]>>)
    /\ UNCHANGED stream

ServeAccept(n, m) ==
    /\ InSequence(m)
    /\ m.op \notin Failing
    /\ \E c \in BOOLEAN :
          /\ (IF c THEN "conflict" ELSE "accept") \in Verdicts
          /\ stream' = Append(stream, [op |-> m.op, conflict |-> c])
          /\ Reply(n, AnswerTo([op |-> m.op, conflict |-> c]))

\* FILE_ACTIVE and STALE, after which the outbox tries again, or any other code.
ServeReject(n, m) ==
    /\ InSequence(m)
    /\ m.op \notin Failing
    /\ \E type \in Verdicts \cap {"refuse", "retry"} :
          Reply(n, <<[type |-> type, op |-> m.op]>>)
    /\ UNCHANGED stream

\* errorToWire: the error does not say which operation it is about, and the plugin
\* only shows it.
ServeFailing(n, m) ==
    /\ InSequence(m)
    /\ m.op \in Failing
    /\ UNCHANGED <<replies, stream>>

Serve(n) ==
    /\ arriving[n] # <<>>
    /\ LET m == Head(arriving[n]) IN
          \/ ServeKnown(n, m)
          \/ ServeGap(n, m)
          \/ ServeAccept(n, m)
          \/ ServeReject(n, m)
          \/ ServeFailing(n, m)
    /\ arriving' = [arriving EXCEPT ![n] = Tail(@)]
    /\ UNCHANGED <<issued, disk, client, phase, link, pending, forcing, crashes>>

-----------------------------------------------------------------------------
Plugin ==
    \/ HandleAck
    \/ HandleForcedReject
    \/ HandleReject
    \/ Saved
    \/ SavedThenFlush
    \/ SavedThenSend
    \/ SavedThenNotReady

User ==
    \/ EnqueueLocalChange
    \/ StartForcePush
    \/ PushForced
    \/ EndForcePush
    \/ DiscardUnsent
    \/ ForceTimesOut

Links == Connect \/ FinishHandshake \/ SocketClosed

Faults == Drop \/ Restart

Next ==
    \/ Plugin
    \/ User
    \/ Links
    \/ Faults
    \/ \E n \in 1 .. MaxLinks : Serve(n)

Spec == Init /\ [][Next /\ UNCHANGED user]_<<outboxVars, user>>

ServeNewest == \E n \in 1 .. MaxLinks : n = link /\ Serve(n)

\* Handlers run to their end, the plugin reconnects, and the server works through
\* what arrives on a connection that is up.
FairSpec ==
    /\ Spec
    /\ WF_outboxVars(Plugin)
    /\ WF_outboxVars(Links)
    /\ WF_outboxVars(ServeNewest)
-----------------------------------------------------------------------------
(***************************************************************************)
(* Properties.                                                             *)
(***************************************************************************)

\* docs/spec-core-protocol.md S1, "the client fills the gap first": it never leaves
\* one.  Whatever is on its way, also from before a reconnect or a restart, has a
\* number the server has seen or the next one.
NeverAhead ==
    \A n \in 1 .. MaxLinks : \A i \in DOMAIN arriving[n] :
        arriving[n][i].number <= Len(stream) + 1

\* What OutboxManager says of an operation is true: when it has left the map by an
\* acknowledgement, or is kept as conflicted, the server has accepted it that way.
\* This holds across restarts, duplicate answers and answers to other operations.
AcknowledgedIsAccepted ==
    \A o \in Op : memory.status[o] \in {"acked", "conflicted"} =>
        \E i \in DOMAIN stream :
            /\ stream[i].op = o
            /\ stream[i].conflict = (memory.status[o] = "conflicted")

\* docs/spec-core-protocol.md S1: device_seq has no hole.  Every number above those
\* the server has seen and below nextDeviceSeq belongs to exactly one operation
\* that is going to be sent, in memory and on the disk.
Contiguous(m) ==
    \A k \in Len(stream) + 1 .. m.next - 1 :
        Cardinality({o \in Retryable(m) : m.number[o] = k}) = 1

NumbersContiguous == user.forces \/ (Contiguous(memory) /\ Contiguous(disk))

\* What has been enqueued and saved is accepted and acknowledged in the end, although
\* connections drop and handlers interleave: when the server refuses nothing and the
\* plugin is not restarted.
EventuallyAccepted ==
    \A o \in Op : o \in Retryable(disk) ~>
        memory.status[o] \in {"acked", "conflicted"} \/ crashes > 0

\* The operations the server may still accept: they are in the outbox, in a copy of
\* it that is or may come on the disk, or on their way.
MayArrive(o) ==
    \/ o \in Retryable(memory) \cup Retryable(disk)
    \/ \E i \in DOMAIN saving : o \in Retryable(saving[i].outbox)
    \/ \E i \in DOMAIN pending : pending[i] = o
    \/ \E n \in 1 .. MaxLinks : \E i \in DOMAIN arriving[n] : arriving[n][i].op = o

\* A force-push sends past the queue: the channel is that of a user who runs none.
Delivery == INSTANCE OrderedDelivery WITH
    waiting <- IF user.forces THEN {}
               ELSE {o \in 1 .. issued : MayArrive(o) /\ \A p \in Accepted : p < o},
    delivered <- IF user.forces THEN <<>> ELSE [i \in DOMAIN stream |-> stream[i].op],
    submitted <- IF user.forces THEN 0 ELSE issued

\* The outbox and the server together deliver in order and at most once.
DeliversInOrder == Delivery!Spec
=============================================================================
