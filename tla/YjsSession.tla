------------------------------ MODULE YjsSession ------------------------------
(***************************************************************************)
(* The realtime sessions of the plugins that have one file open, and the   *)
(* room they meet in: apps/plugin/src/sync/yjs-session.ts as main.ts       *)
(* drives it, over their connections, and what room-manager.ts answers.    *)
(* What the room stores, and its closing, are in module Rooms.             *)
(*                                                                         *)
(* A connection is FIFO both ways.  When it breaks, the device notices at  *)
(* once and may be back before the server does, and what had arrived is    *)
(* still handled there.  What is sent while there is no connection waits   *)
(* for the next one.                                                       *)
(*                                                                         *)
(* A Y.Doc is the set of its items: <<m, e>> is the mark m, put in in      *)
(* epoch e.  Mark 0 is the text the server has put in.                     *)
(***************************************************************************)
EXTENDS Naturals, FiniteSets, Sequences, Functions

CONSTANTS
    Device,       \* the devices
    Author,       \* those whose user types
    MaxEpochs,    \* bound: activations of the room
    MaxMarks,     \* bound: marks typed
    MaxOpens,     \* bound: files opened, for each device
    MaxBreaks,    \* bound: connections that break
    MaxSkips,     \* bound: messages not sent because the socket is too full
    MaxStrays,    \* bound: promotes whose room_state nobody waits for
    MaxTroubles   \* bound: the last three together

ASSUME YjsSessionAssumption ==
    /\ Author \subseteq Device
    /\ {MaxEpochs, MaxMarks, MaxOpens, MaxBreaks, MaxSkips, MaxStrays, MaxTroubles}
         \subseteq Nat

VARIABLES
    session,     \* YjsSessionManager.sessions of each device, for the file
    wants,       \* is the file the active one (main.ts activeFileId)?
    opening,     \* does openFile wait for room_state?
    leaving,     \* leaveFile, which waits for outstanding updates
    online,      \* is the connection up?
    sent,        \* per device, the messages to the server
    received,    \* per device, the messages from the server
    late,        \* per device, what came on the connection that broke
    closing,     \* the devices whose broken connection the server has not noticed
    shared,      \* the room: epoch, whether it is open, document, the epoch's updates
    sink,        \* the connection of each participant
    filed,       \* the text the last flush brought to the file
    confirmed,   \* the items of the updates taken for acknowledged
    mixed,       \* history: was a session made with answers to another one of its epoch,
                 \* for updates numbered like its own, still to come?
    marks, opens, breaks, skips, strays

sessionVars ==
    <<session, wants, opening, leaving, online, sent, received, late, closing, shared, sink,
      filed, confirmed, mixed, marks, opens, breaks, skips, strays>>
user == <<wants, opens>>
wire == <<online, late, closing>>
served == <<shared, sink, filed>>
answered == <<confirmed, mixed>>
limits == <<marks, opens, breaks, skips, strays>>

-----------------------------------------------------------------------------
(***************************************************************************)
(* Data.                                                                   *)
(***************************************************************************)
Items == (0 .. MaxMarks) \X (1 .. MaxEpochs)

\* Which of the texts of a Y.Doc an item is in: the server reads and writes
\* "obsidian"; the plugin, whose main.ts names none, "content".
TextName(item) == IF item[1] = 0 THEN "obsidian" ELSE "content"

TextOf(name, items) == {i[1] : i \in {k \in items : TextName(k) = name}}

\* session.text.toString().
Shown(s) == TextOf("content", s.doc)

NoSession ==
    [open |-> FALSE, epoch |-> 0, doc |-> {}, lastSeq |-> 0, ackedText |-> {},
     outstanding |-> {}, nextUpdateId |-> 1]

NotLeaving == [on |-> FALSE, epoch |-> 0, awaited |-> {}]

SessionsInit ==
    /\ session = [d \in Device |-> NoSession]
    /\ wants = [d \in Device |-> FALSE]
    /\ opening = [d \in Device |-> FALSE]
    /\ leaving = [d \in Device |-> NotLeaving]
    /\ online = [d \in Device |-> TRUE]
    /\ sent = [d \in Device |-> <<>>]
    /\ received = [d \in Device |-> <<>>]
    /\ late = [d \in Device |-> <<>>]
    /\ closing = {}
    /\ shared = [epoch |-> 0, open |-> FALSE, doc |-> {}, log |-> <<>>]
    /\ sink = [d \in Device |-> "none"]
    /\ filed = {0}
    /\ confirmed = {} /\ mixed = FALSE
    /\ marks = 0 /\ opens = [d \in Device |-> 0] /\ breaks = 0 /\ skips = 0 /\ strays = 0

troubles == breaks + skips + strays

Send(d, messages) == sent' = [sent EXCEPT ![d] = @ \o messages]

-----------------------------------------------------------------------------
(***************************************************************************)
(* The user, and main.ts.                                                  *)
(***************************************************************************)
\* activateRealtimeFile(the file), with openFile up to its await.
OpenFile(d) ==
    /\ ~wants[d] \/ (~session[d].open /\ ~opening[d])
    /\ opens[d] < MaxOpens
    /\ opens' = [opens EXCEPT ![d] = @ + 1]
    /\ wants' = [wants EXCEPT ![d] = TRUE]
    /\ IF session[d].open
       THEN UNCHANGED <<opening, sent>>
       ELSE /\ opening' = [opening EXCEPT ![d] = TRUE]
            /\ Send(d, <<[t |-> "promote"]>>)
    /\ UNCHANGED <<session, leaving, wire, received, served, answered, marks, breaks, skips,
                   strays>>

\* leaveFile up to its await.
Leaving(s) ==
    [on |-> s.open, epoch |-> s.epoch, awaited |-> {u.id : u \in s.outstanding}]

\* activateRealtimeFile(another file).
LeaveFile(d) ==
    /\ wants[d]
    /\ ~leaving[d].on
    /\ wants' = [wants EXCEPT ![d] = FALSE]
    /\ leaving' = [leaving EXCEPT ![d] = Leaving(session[d])]
    /\ UNCHANGED <<session, opening, wire, sent, received, served, answered, limits>>

\* Mutant of LeaveFileEnds: the room is left only when everything was acknowledged.
LeaveFileEndsQuietly(d) ==
    LET told == \A u \in session[d].outstanding : u.id \notin leaving[d].awaited IN
    /\ leaving[d].on
    /\ IF told THEN Send(d, <<[t |-> "leave", epoch |-> leaving[d].epoch]>>) ELSE UNCHANGED sent
    /\ session' = [session EXCEPT ![d] = NoSession]
    /\ leaving' = [leaving EXCEPT ![d] = NotLeaving]
    /\ UNCHANGED <<wants, opening, wire, received, served, answered, limits>>

\* Its rest: the acknowledgements are there, or did not come in ackTimeoutMs.  The
\* session that is destroyed is the one there is now.
LeaveFileEnds(d) ==
    /\ leaving[d].on
    /\ Send(d, <<[t |-> "leave", epoch |-> leaving[d].epoch]>>)
    /\ session' = [session EXCEPT ![d] = NoSession]
    /\ leaving' = [leaving EXCEPT ![d] = NotLeaving]
    /\ UNCHANGED <<wants, opening, wire, received, served, answered, limits>>

\* waitFor gives up; the room_state may still come.
OpenTimesOut(d) ==
    /\ opening[d]
    /\ strays < MaxStrays /\ troubles < MaxTroubles
    /\ strays' = strays + 1
    /\ opening' = [opening EXCEPT ![d] = FALSE]
    /\ wants' = [wants EXCEPT ![d] = FALSE]
    /\ UNCHANGED <<session, leaving, wire, sent, received, served, answered, marks, opens,
                   breaks, skips>>

\* sendLocalUpdate.
WithUpdate(s, items) ==
    [s EXCEPT !.doc = s.doc \cup items,
              !.outstanding = s.outstanding \cup {[id |-> s.nextUpdateId, items |-> items]},
              !.nextUpdateId = s.nextUpdateId + 1]

UpdateMessage(s, items) ==
    [t |-> "update", epoch |-> s.epoch, id |-> s.nextUpdateId, items |-> items]

\* The editor is bound to the session.
Type(d) ==
    LET typed == {<<marks + 1, session[d].epoch>>} IN
    /\ d \in Author
    /\ wants[d] /\ session[d].open
    /\ marks < MaxMarks
    /\ marks' = marks + 1
    /\ session' = [session EXCEPT ![d] = WithUpdate(@, typed)]
    /\ Send(d, <<UpdateMessage(session[d], typed)>>)
    /\ UNCHANGED <<user, opening, leaving, wire, received, served, answered, breaks, skips,
                   strays>>

\* SyncEngine.promote, when an operation on the file was refused with FILE_ACTIVE.
EnginePromotes(d) ==
    /\ strays < MaxStrays /\ troubles < MaxTroubles
    /\ shared.open
    /\ strays' = strays + 1
    /\ Send(d, <<[t |-> "promote"]>>)
    /\ UNCHANGED <<session, user, opening, leaving, wire, received, served, answered, marks,
                   breaks, skips>>

-----------------------------------------------------------------------------
(***************************************************************************)
(* The messages of the server.                                             *)
(***************************************************************************)
Receives(d, type) ==
    /\ received[d] # <<>>
    /\ Head(received[d]).t = type
    /\ received' = [received EXCEPT ![d] = Tail(@)]

Seeded(m) ==
    [NoSession EXCEPT !.open = TRUE, !.epoch = m.epoch, !.doc = m.doc,
                      !.ackedText = TextOf("content", m.doc)]

\* Mutant of Carried: what is unacknowledged is typed again without a look at the new text.
CarriedBlindly(s, m) ==
    IF s.outstanding = {} THEN {} ELSE (Shown(s) \ s.ackedText) \X {m.epoch}

\* What of the old session's text is put into the new one: what threeWayMerge
\* finds in ours only, if anything is outstanding.
Carried(s, m) ==
    IF s.outstanding = {} THEN {}
    ELSE ((Shown(s) \ s.ackedText) \ TextOf("content", m.doc)) \X {m.epoch}

\* Are updates of this epoch, or answers to them, still under way?
ToCome(d, epoch) ==
    \/ \E m \in Range(sent[d]) \cup Range(late[d]) : m.t = "update" /\ m.epoch = epoch
    \/ \E m \in Range(received[d]) : m.t = "ack" /\ m.epoch = epoch

\* handleRoomState, and what of openFile is behind it.
HandleRoomState(d) ==
    /\ Receives(d, "state")
    /\ LET m == Head(received[d])
           s == session[d]
           carried == Carried(s, m)
           next == IF s.open /\ s.epoch = m.epoch THEN s
                   ELSE IF carried = {} THEN Seeded(m)
                   ELSE WithUpdate(Seeded(m), carried)
       IN  /\ session' = [session EXCEPT ![d] = next]
           /\ IF next.epoch # s.epoch /\ carried # {}
              THEN Send(d, <<UpdateMessage(Seeded(m), carried)>>)
              ELSE UNCHANGED sent
           /\ leaving' = IF opening[d] /\ ~wants[d] /\ ~leaving[d].on
                         THEN [leaving EXCEPT ![d] = Leaving(next)] ELSE leaving
           /\ mixed' = (mixed \/ (next # s /\ ToCome(d, m.epoch)))
    /\ opening' = [opening EXCEPT ![d] = FALSE]
    /\ UNCHANGED <<user, wire, served, confirmed, marks, breaks, skips, strays>>

SyncMessage(s) == [t |-> "sync", epoch |-> s.epoch, have |-> s.doc]

\* Is m for the session, in the epoch it is in?
Concerns(s, m) == s.open /\ m.epoch = s.epoch

\* handleYjsUpdate: the update is old, shows a gap, or is applied.
HandleYjsUpdate(d) ==
    /\ Receives(d, "update")
    /\ LET m == Head(received[d])
           s == session[d]
           applied == s.doc \cup m.items
       IN  IF ~Concerns(s, m) \/ m.seq <= s.lastSeq THEN UNCHANGED <<session, sent>>
           ELSE IF s.lastSeq > 0 /\ m.seq > s.lastSeq + 1
           THEN Send(d, <<SyncMessage(s)>>) /\ UNCHANGED session
           ELSE /\ session' = [session EXCEPT ![d] =
                     [s EXCEPT !.doc = applied, !.lastSeq = m.seq,
                               !.ackedText = TextOf("content", applied)]]
                /\ UNCHANGED sent
    /\ UNCHANGED <<user, opening, leaving, wire, served, answered, marks, breaks, skips, strays>>

\* Mutant of Acknowledges: the next one in sequence is taken for old.
AcknowledgesNewer(s, m) == {u \in s.outstanding : u.id = m.id /\ m.seq > s.lastSeq + 1}

Acknowledges(s, m) == {u \in s.outstanding : u.id = m.id}

\* handleAck.
HandleYjsAck(d) ==
    /\ Receives(d, "ack")
    /\ LET m == Head(received[d])
           s == session[d]
           for == Acknowledges(s, m)
           seen == [s EXCEPT !.lastSeq = IF m.seq > s.lastSeq THEN m.seq ELSE s.lastSeq]
       IN  IF ~Concerns(s, m) THEN UNCHANGED <<session, confirmed>>
           ELSE /\ session' = [session EXCEPT ![d] =
                     IF for = {} THEN seen
                     ELSE [seen EXCEPT !.outstanding = s.outstanding \ for, !.ackedText = Shown(s)]]
                /\ confirmed' = confirmed \cup UNION {u.items : u \in for}
    /\ UNCHANGED <<user, opening, leaving, wire, sent, served, mixed, marks, breaks, skips,
                   strays>>

\* handleRoomClosed.  The reason epoch_stale is for a participant of a room that is
\* not open: there is none.
HandleRoomClosed(d) ==
    /\ Receives(d, "closed")
    /\ session' = IF Concerns(session[d], Head(received[d]))
                  THEN [session EXCEPT ![d] = NoSession] ELSE session
    /\ UNCHANGED <<user, opening, leaving, wire, sent, served, answered, marks, breaks, skips,
                   strays>>

-----------------------------------------------------------------------------
(***************************************************************************)
(* The room.                                                               *)
(***************************************************************************)
\* What d is sent, on the connection it has entered the room with.
Told(d, to, messages) == IF to = "live" THEN [received EXCEPT ![d] = @ \o messages] ELSE received

StateMessage(r) == [t |-> "state", epoch |-> r.epoch, doc |-> r.doc]

\* Mutant of Activated: the text of the file is put in again.
ActivatedAnew ==
    [epoch |-> shared.epoch + 1, open |-> TRUE, log |-> <<>>, doc |-> {<<0, shared.epoch + 1>>}]

Activated ==
    [epoch |-> shared.epoch + 1, open |-> TRUE, log |-> <<>>,
     doc |-> IF shared.epoch = 0 THEN {<<0, 1>>} ELSE shared.doc]

\* promote, come on a connection that is up ("live") or not ("dead").
ServePromote(d, from) ==
    /\ shared.open \/ shared.epoch < MaxEpochs
    /\ shared' = IF shared.open THEN shared ELSE Activated
    /\ sink' = [sink EXCEPT ![d] = from]
    /\ received' = Told(d, from, <<StateMessage(shared')>>)
    /\ UNCHANGED <<filed, skips>>

\* rejectIfStale: the answer, which only a participant gets.
ServeStale(d) ==
    /\ received' = IF shared.open THEN Told(d, sink[d], <<StateMessage(shared)>>) ELSE received
    /\ UNCHANGED <<served, skips>>

\* Not for this epoch, or NOT_PARTICIPANT, which the plugin only shows.
IsStale(m) == ~shared.open \/ m.epoch # shared.epoch

\* handleUpdate: the acknowledgement, and the relay to the others, but not to those
\* whose socket is too full.
ServeUpdate(d, m) ==
    LET seq == Len(shared.log) + 1
        ack == [t |-> "ack", epoch |-> shared.epoch, id |-> m.id, seq |-> seq]
        relay == [t |-> "update", epoch |-> shared.epoch, seq |-> seq, items |-> m.items]
        reached == {r \in Device : sink[r] = "live"}
    IN  /\ shared' = [shared EXCEPT !.doc = shared.doc \cup m.items,
                                     !.log = Append(shared.log, m.items)]
        /\ \E full \in SUBSET reached :
             /\ skips + Cardinality(full) <= MaxSkips
             /\ troubles + Cardinality(full) <= MaxTroubles
             /\ skips' = skips + Cardinality(full)
             /\ received' = [r \in Device |->
                  IF r \notin reached \ full THEN received[r]
                  ELSE Append(received[r], IF r = d THEN ack ELSE relay)]
        /\ UNCHANGED <<sink, filed>>

\* handleSync.
ServeSync(d, m) ==
    /\ received' = Told(d, sink[d],
         <<[t |-> "update", epoch |-> shared.epoch, seq |-> Len(shared.log),
            items |-> shared.doc \ m.have]>>)
    /\ UNCHANGED <<served, skips>>

\* leave.
ServeLeave(d) ==
    /\ sink' = [sink EXCEPT ![d] = "none"]
    /\ UNCHANGED <<shared, filed, received, skips>>

Serve(d, m, from) ==
    IF m.t = "promote" THEN ServePromote(d, from)
    ELSE IF IsStale(m) THEN ServeStale(d)
    ELSE IF sink[d] = "none" THEN UNCHANGED <<served, received, skips>>
    ELSE \/ m.t = "update" /\ ServeUpdate(d, m)
         \/ m.t = "sync" /\ ServeSync(d, m)
         \/ m.t = "leave" /\ ServeLeave(d)

ServeNext(d) ==
    /\ online[d]
    /\ sent[d] # <<>>
    /\ Serve(d, Head(sent[d]), "live")
    /\ sent' = [sent EXCEPT ![d] = Tail(@)]
    /\ UNCHANGED <<session, user, opening, leaving, wire, answered, marks, breaks, strays>>

\* The queue of a connection goes on when it is closed.
ServeLate(d) ==
    /\ late[d] # <<>>
    /\ Serve(d, Head(late[d]), "dead")
    /\ late' = [late EXCEPT ![d] = Tail(@)]
    /\ UNCHANGED <<session, user, opening, leaving, online, closing, sent, answered, marks,
                   breaks, strays>>

\* demoteLocked, when everybody has left or somebody asks for it.
CloseRoom ==
    /\ shared.open
    /\ shared.epoch < MaxEpochs
    /\ shared' = [shared EXCEPT !.open = FALSE]
    /\ filed' = TextOf("obsidian", shared.doc)
    /\ sink' = [d \in Device |-> "none"]
    /\ received' = [d \in Device |->
         IF sink[d] = "live" THEN Append(received[d], [t |-> "closed", epoch |-> shared.epoch])
         ELSE received[d]]
    /\ UNCHANGED <<session, user, opening, leaving, wire, sent, answered, marks, breaks, skips,
                   strays>>

-----------------------------------------------------------------------------
(***************************************************************************)
(* Connections.                                                            *)
(***************************************************************************)
Break(d) ==
    /\ breaks < MaxBreaks /\ troubles < MaxTroubles
    /\ online[d]
    /\ breaks' = breaks + 1
    /\ online' = [online EXCEPT ![d] = FALSE]
    /\ \E n \in 0 .. Len(sent[d]) : late' = [late EXCEPT ![d] = @ \o SubSeq(sent[d], 1, n)]
    /\ sent' = [sent EXCEPT ![d] = <<>>]
    /\ received' = [received EXCEPT ![d] = <<>>]
    /\ sink' = [sink EXCEPT ![d] = IF @ = "live" THEN "dead" ELSE @]
    /\ closing' = closing \cup {d}
    /\ UNCHANGED <<session, user, opening, leaving, shared, filed, answered, marks, skips,
                   strays>>

\* The handshake is through: handleTransportOpen.
Reconnect(d) ==
    /\ ~online[d]
    /\ online' = [online EXCEPT ![d] = TRUE]
    /\ IF session[d].open THEN Send(d, <<SyncMessage(session[d])>>) ELSE UNCHANGED sent
    /\ UNCHANGED <<session, user, opening, leaving, received, late, closing, served, answered,
                   marks, breaks, skips, strays>>

\* The close event: disconnect(deviceId), which asks for no connection.
NoticeBreak(d) ==
    /\ d \in closing
    /\ closing' = closing \ {d}
    /\ sink' = [sink EXCEPT ![d] = "none"]
    /\ UNCHANGED <<session, user, opening, leaving, online, sent, received, late, shared, filed,
                   answered, marks, breaks, skips, strays>>

-----------------------------------------------------------------------------
Handle(d) ==
    HandleRoomState(d) \/ HandleYjsUpdate(d) \/ HandleYjsAck(d) \/ HandleRoomClosed(d)

SessionsNext ==
    \/ \E d \in Device :
         \/ OpenFile(d) \/ LeaveFile(d) \/ LeaveFileEnds(d) \/ OpenTimesOut(d) \/ Type(d)
         \/ EnginePromotes(d)
         \/ Handle(d)
         \/ ServeNext(d) \/ ServeLate(d)
         \/ Break(d) \/ Reconnect(d) \/ NoticeBreak(d)
    \/ CloseRoom

Progress == \E d \in Device : Handle(d) \/ ServeNext(d) \/ LeaveFileEnds(d)

\* Messages arrive and are handled, and leaveFile comes to its end.
SessionsSpec == SessionsInit /\ [][SessionsNext]_sessionVars /\ WF_sessionVars(Progress)
-----------------------------------------------------------------------------
(***************************************************************************)
(* Properties.                                                             *)
(***************************************************************************)
\* An update a session no longer waits for is in the document of the room.  Update
\* ids start again with every session (handleRoomState), so it takes that no session
\* is made while answers to another one of the same epoch are still to come.
ConfirmedIsServed == ~mixed => confirmed \subseteq shared.doc

\* What is carried into the room's next epoch is not there twice, though the device
\* cannot know whether it had arrived.
CarriedOnce == \A i, j \in shared.doc : i[1] = j[1] => i = j

\* No update is stored twice: what a session is sent it does not send on.
LoggedOnce ==
    \A i, j \in DOMAIN shared.log : i # j => shared.log[i] \cap shared.log[j] = {}

\* Nothing comes twice, by a new epoch or by a relay.
NothingTwice == CarriedOnce /\ LoggedOnce

\* No connection has broken, no socket was too full, no room_state came unasked for.
Calm == troubles = 0

\* As long as it is calm, a session comes to have all that its room has.
InTouch ==
    []<>(\/ \A d \in Device :
              session[d].open /\ session[d].epoch = shared.epoch
                  => shared.doc \subseteq session[d].doc
         \/ ~Calm)

\* Then, too, an update is acknowledged, unless its session ends.
UpdatesConfirmed ==
    []<>((\A d \in Device : session[d].outstanding = {}) \/ ~Calm)

\* A session and its room come to have the same, both ways.
SessionsConverge == InTouch /\ UpdatesConfirmed

\* And a room that nobody has open is left by all, so that it is closed and flushed.
EveryoneLeaves ==
    []<>((\E d \in Device : wants[d]) \/ (\A d \in Device : sink[d] = "none") \/ ~Calm)

\* docs/spec-core-protocol.md S3: when a room is closed, its text becomes the
\* content of the file.
TypedReachesFile ==
    (~shared.open /\ shared.epoch > 0) => {i[1] : i \in confirmed} \subseteq filed
=============================================================================
