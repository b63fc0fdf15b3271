------------------------------- MODULE Watcher -------------------------------
(***************************************************************************)
(* From what happens in the vault to operations: VaultWatcher and          *)
(* planReconciliation (apps/plugin/src/watcher), with makeContentOp and    *)
(* applyOp of the engine.  No note is open in a Yjs session and no file is *)
(* ignored.  Operations end in the outbox; what becomes of them is in      *)
(* module Outbox.  Of other devices only new contents come.                *)
(***************************************************************************)
EXTENDS Order, SequencesExt, FiniteSetsExt

CONSTANTS
    NotePath,
    NoteText,
    NoteFile,   \* ids of the files that may be in the index
    MaxEdits,   \* bounds: what the user does, restarts, contents from others
    MaxRestarts,
    MaxRemote,
    MaxEvents   \* bound: the last two together

ASSUME WatcherAssumption ==
    /\ NotePath \cup NoteText \cup NoteFile \subseteq Nat \ {0}
    /\ IsFiniteSet(NotePath) /\ IsFiniteSet(NoteFile)
    /\ MaxEdits \in Nat /\ {MaxRestarts, MaxRemote, MaxEvents} \subseteq Nat

None == 0

VARIABLES
    note,      \* the text at each path of the vault
    wrote,     \* history: the version of the last text an operation put at a path
    tracked,   \* the local index: path, text and version of each file
    drafted,   \* history: the id and the text of the last content operation from a path
    phase,     \* of the plugin: down, starting, scanned, up
    scan,      \* the vault as reconcile has hashed it
    waiting,   \* queued: the paths the timer is for
    walks,     \* flushes and reconciliations under way
    incoming,  \* an operation that is written and not yet in the index
    unsaid,    \* history: paths with an edit that is in no operation yet
    missed,    \* history: those of them that nothing is going to look at
    edits, restarts, remote

watchVars == <<note, wrote, tracked, drafted, phase, scan, waiting, walks, incoming,
               unsaid, missed, edits, restarts, remote>>

Walk == 1..2
NotWalking == [todo |-> <<>>, file |-> None, base |-> 0]
Untracked == [path |-> None, text |-> None, version |-> 0]
NothingIncoming == [file |-> None, path |-> None, text |-> None]

Entries(index) == {f \in NoteFile : index[f] # Untracked}

NewId == Max(NoteFile) + 1

HasEntry(p) == \E f \in Entries(tracked) : tracked[f].path = p

\* index.byPath; a path without an entry gets a new id.
IdFor(p) == IF HasEntry(p) THEN CHOOSE f \in Entries(tracked) : tracked[f].path = p ELSE NewId

BaseFor(p) == IF HasEntry(p) THEN tracked[IdFor(p)].version ELSE 0

\* The ids of the operations from a path, a second new one standing for all further ones.
WithId(ids, f) == ids \cup {IF f = NewId /\ NewId \in ids THEN NewId + 1 ELSE f}

\* The plugin starts: on any vault, which is then left alone, or on one with a single
\* note, which the user goes on working in.
WatchInit ==
    /\ note \in [NotePath -> NoteText \cup {None}]
    /\ \E index \in [NoteFile -> {Untracked} \cup
                        [path : NotePath, text : NoteText, version : {0}]] :
          /\ \A f, g \in NoteFile :
                (f # g /\ index[f].path = index[g].path) => index[f] = Untracked
          /\ tracked = index
    /\ edits \in {0, MaxEdits}
    /\ edits = 0 =>
          LET first == [path |-> Min(NotePath), text |-> Min(NoteText), version |-> 0]
          IN  /\ tracked = [f \in NoteFile |-> IF f = Min(NoteFile) THEN first ELSE Untracked]
              /\ note = [p \in NotePath |-> IF p = first.path THEN first.text ELSE None]
    /\ phase = "starting"
    /\ restarts = IF edits = 0 THEN 0 ELSE MaxRestarts
    /\ remote = IF edits = 0 THEN 0 ELSE MaxRemote
    /\ wrote = [p \in NotePath |-> 0]
    /\ drafted = [p \in NotePath |-> [ids |-> {}, text |-> None]]
    /\ scan = note
    /\ waiting = {} /\ unsaid = {} /\ missed = {}
    /\ walks = [w \in Walk |-> NotWalking]
    /\ incoming = NothingIncoming

Hears == phase # "down"

\* A file event of the vault: queuePath.
Queue(p) == waiting' = IF Hears THEN waiting \cup {p} ELSE waiting

-----------------------------------------------------------------------------
(***************************************************************************)
(* The user.                                                               *)
(***************************************************************************)
Edit(p, t) ==
    /\ edits < MaxEdits /\ note[p] # t
    /\ note' = [note EXCEPT ![p] = t]
    /\ unsaid' = unsaid \cup {p}
    /\ edits' = edits + 1
    /\ Queue(p)
    /\ UNCHANGED <<wrote, tracked, drafted, phase, scan, walks, incoming, missed, restarts,
                   remote>>

\* handleDelete only sends; what was deleted has nothing to say any more.
Erase(p) ==
    /\ edits < MaxEdits /\ note[p] # None
    /\ note' = [note EXCEPT ![p] = None]
    /\ unsaid' = unsaid \ {p}
    /\ missed' = missed \ {p}
    /\ drafted' = [drafted EXCEPT ![p] = [ids |-> {}, text |-> None]]
    /\ edits' = edits + 1
    /\ UNCHANGED <<wrote, tracked, phase, scan, waiting, walks, incoming, restarts, remote>>

\* handleRename: a note that is in the index is renamed and not read; another one is
\* sent from its new path.
Move(p, q) ==
    /\ edits < MaxEdits /\ note[p] # None /\ note[q] = None
    /\ note' = [note EXCEPT ![q] = note[p], ![p] = None]
    /\ wrote' = [wrote EXCEPT ![q] = Max({wrote[p], wrote[q]})]
    /\ drafted' = [drafted EXCEPT ![q] = drafted[p], ![p] = [ids |-> {}, text |-> None]]
    /\ unsaid' = IF p \in unsaid THEN (unsaid \ {p}) \cup {q} ELSE unsaid
    /\ IF ~Hears \/ HasEntry(p)
       THEN /\ missed' = (missed \ {p}) \cup {r \in {q} : p \in unsaid /\ Hears}
            /\ UNCHANGED walks
       ELSE /\ \E w \in Walk :
                  /\ walks[w] = NotWalking
                  /\ walks' = [walks EXCEPT ![w].todo = <<[kind |-> "sync", path |-> q]>>]
            /\ missed' = missed \ {p}
    /\ edits' = edits + 1
    /\ UNCHANGED <<tracked, phase, scan, waiting, incoming, restarts, remote>>

-----------------------------------------------------------------------------
(***************************************************************************)
(* Operations of other devices: the text is written, then the index.       *)
(***************************************************************************)
\* Mutant of RemoteWrites: the index first, the text later.
RemoteWritesIndexFirst(f, t) ==
    /\ phase = "up" /\ incoming = NothingIncoming
    /\ remote < MaxRemote /\ restarts + remote < MaxEvents
    /\ f \in Entries(tracked)
    /\ tracked' = [tracked EXCEPT ![f].text = t, ![f].version = remote + 1]
    /\ incoming' = [file |-> f, path |-> tracked[f].path, text |-> t]
    /\ remote' = remote + 1
    /\ UNCHANGED <<note, wrote, drafted, phase, scan, waiting, walks, unsaid, missed, edits,
                   restarts>>

RemoteWrites(f, t) ==
    /\ phase = "up" /\ incoming = NothingIncoming
    /\ remote < MaxRemote /\ restarts + remote < MaxEvents
    /\ f \in Entries(tracked)
    /\ LET p == tracked[f].path
       IN  /\ note' = [note EXCEPT ![p] = t]
           /\ wrote' = [wrote EXCEPT ![p] = remote + 1]
           /\ incoming' = [file |-> f, path |-> p, text |-> t]
           /\ Queue(p)
    /\ remote' = remote + 1
    /\ UNCHANGED <<tracked, drafted, phase, scan, walks, unsaid, missed, edits, restarts>>

RemoteIndexed ==
    /\ incoming # NothingIncoming
    /\ tracked' = [tracked EXCEPT ![incoming.file] =
                     [path |-> incoming.path, text |-> incoming.text,
                      version |-> remote]]
    /\ incoming' = NothingIncoming
    /\ UNCHANGED <<note, wrote, drafted, phase, scan, waiting, walks, unsaid, missed, edits,
                   restarts, remote>>

-----------------------------------------------------------------------------
(***************************************************************************)
(* Flushes.                                                                *)
(***************************************************************************)
Jobs(kind, paths) ==
    LET order == Ascending(paths)
    IN  [i \in DOMAIN order |-> [kind |-> kind, path |-> order[i]]]

Flush(w) ==
    /\ Hears /\ waiting # {} /\ walks[w] = NotWalking
    /\ walks' = [walks EXCEPT ![w].todo = Jobs("sync", waiting)]
    /\ waiting' = {}
    /\ UNCHANGED <<note, wrote, tracked, drafted, phase, scan, incoming, unsaid, missed,
                   edits, restarts, remote>>

Rest(w) == [walks EXCEPT ![w] = [NotWalking EXCEPT !.todo = Tail(walks[w].todo)]]

\* syncPath up to the first await: the id and the base of the operation.
SyncStarts(w) ==
    /\ walks[w].todo # <<>> /\ walks[w].file = None
    /\ LET job == Head(walks[w].todo)
       IN  /\ job.kind = "sync"
           /\ walks' = IF note[job.path] = None THEN Rest(w)
                       ELSE [walks EXCEPT
                               ![w].file = IdFor(job.path),
                               ![w].base = BaseFor(job.path)]
    /\ UNCHANGED <<note, wrote, tracked, drafted, phase, scan, waiting, incoming, unsaid,
                   missed, edits, restarts, remote>>

\* The text is read and the operation enqueued.  If it cannot be read the walk ends.
SyncEnds(w) ==
    /\ walks[w].file # None
    /\ LET p == Head(walks[w].todo).path
           rest == {Tail(walks[w].todo)[i] : i \in DOMAIN Tail(walks[w].todo)}
       IN  IF note[p] = None
           THEN /\ walks' = [walks EXCEPT ![w] = NotWalking]
                /\ missed' = missed \cup {q \in unsaid :
                                 \E job \in rest : job.kind = "sync" /\ job.path = q}
                /\ UNCHANGED <<drafted, unsaid>>
           ELSE /\ drafted' = [drafted EXCEPT ![p] = [ids |-> WithId(@.ids, walks[w].file),
                                                     text |-> note[p]]]
                /\ unsaid' = unsaid \ {p}
                /\ missed' = missed \ {p}
                /\ walks' = Rest(w)
    /\ UNCHANGED <<note, wrote, tracked, phase, scan, waiting, incoming, edits, restarts, remote>>

\* A rename or a deletion that reconcile has planned.
Planned(w) ==
    /\ walks[w].todo # <<>> /\ Head(walks[w].todo).kind \in {"rename", "delete"}
    /\ walks' = Rest(w)
    /\ UNCHANGED <<note, wrote, tracked, drafted, phase, scan, waiting, incoming, unsaid,
                   missed, edits, restarts, remote>>

-----------------------------------------------------------------------------
(***************************************************************************)
(* reconcile, at the start.                                                *)
(***************************************************************************)
Stop ==
    /\ phase # "down" /\ restarts < MaxRestarts /\ restarts + remote < MaxEvents
    /\ phase' = "down"
    /\ restarts' = restarts + 1
    /\ waiting' = {} /\ missed' = {}
    /\ walks' = [w \in Walk |-> NotWalking]
    /\ incoming' = NothingIncoming
    /\ UNCHANGED <<note, wrote, tracked, drafted, scan, unsaid, edits, remote>>

Start ==
    /\ phase = "down"
    /\ phase' = "starting"
    /\ UNCHANGED <<note, wrote, tracked, drafted, scan, waiting, walks, incoming, unsaid,
                   missed, edits, restarts, remote>>

Scan ==
    /\ phase = "starting"
    /\ phase' = "scanned"
    /\ scan' = note
    /\ UNCHANGED <<note, wrote, tracked, drafted, waiting, walks, incoming, unsaid, missed,
                   edits, restarts, remote>>

Missing == {f \in Entries(tracked) : scan[tracked[f].path] = None}
Appearing == {p \in NotePath : scan[p] # None /\ ~HasEntry(p)}

\* Mutant of Renames: a missing file is matched with every path that has its text.
RenamesOfAll ==
    {[kind |-> "rename", file |-> x[1], path |-> x[2]] :
        x \in {y \in Missing \X Appearing : tracked[y[1]].text = scan[y[2]]}}

\* Path by path, the first missing file with that text that is not taken.
Renames ==
    LET Match(taken, p) ==
          LET free == {f \in Missing : /\ tracked[f].text = scan[p]
                                       /\ \A r \in taken : r.file # f}
          IN  taken \cup {[kind |-> "rename", file |-> Min(free), path |-> p] : f \in
                             {g \in {0} : free # {}}}
    IN  FoldLeft(Match, {}, Ascending(Appearing))

Creates == {p \in Appearing : \A r \in Renames : r.path # p}
Deletes == {f \in Missing : \A r \in Renames : r.file # f}

\* Mutant of Updates: what the index has is up to date.
UpdatesNothing == {}

Updates == {tracked[f].path : f \in {g \in Entries(tracked) \ Missing :
                                       scan[tracked[g].path] # tracked[g].text}}

ById(jobs) == SortedBy(jobs, [job \in jobs |-> job.file])

Reconcile ==
    /\ phase = "scanned"
    /\ phase' = "up"
    /\ \E w \in Walk :
          /\ walks[w] = NotWalking
          /\ walks' = [walks EXCEPT ![w].todo =
                 ById(Renames) \o Jobs("sync", Creates) \o Jobs("sync", Updates)
                   \o ById({[kind |-> "delete", file |-> f] : f \in Deletes})]
    /\ LET agreed == {p \in NotePath \ waiting :
                        /\ scan[p] = note[p]
                        /\ \/ \E r \in Renames : r.path = p
                           \/ \E f \in Entries(tracked) : /\ tracked[f].path = p
                                                       /\ tracked[f].text = note[p]}
           told == {p \in agreed : drafted[p].text \in {None, note[p]}}
       IN  /\ unsaid' = unsaid \ told
           /\ missed' = missed \cup (unsaid \cap (agreed \ told))
    /\ UNCHANGED <<note, wrote, tracked, drafted, scan, waiting, incoming, edits, restarts,
                   remote>>

-----------------------------------------------------------------------------
WatchNext ==
    \/ \E p \in NotePath : (\E t \in NoteText : Edit(p, t)) \/ Erase(p)
    \/ \E p, q \in NotePath : Move(p, q)
    \/ \E f \in NoteFile : (\E t \in NoteText : RemoteWrites(f, t))
    \/ RemoteIndexed
    \/ \E w \in Walk : Flush(w) \/ SyncStarts(w) \/ SyncEnds(w) \/ Planned(w)
    \/ Stop \/ Start \/ Scan \/ Reconcile

\* What the event loop and the timer do of themselves.
WatchProgress ==
    \/ RemoteIndexed \/ Start \/ Scan \/ Reconcile
    \/ \E w \in Walk : Flush(w) \/ SyncStarts(w) \/ SyncEnds(w) \/ Planned(w)

WatchSpec == WatchInit /\ [][WatchNext]_watchVars /\ WF_watchVars(WatchProgress)
-----------------------------------------------------------------------------
(***************************************************************************)
(* Properties.                                                             *)
(***************************************************************************)
\* spec-core-protocol.md:52: an edit becomes an operation, whatever flush or event it
\* meets and also when the program stops before; except one whose note is renamed while
\* it waits, one that a walk drops because an earlier file cannot be read, and one that
\* takes back what was sent before a restart.
EditsAreSaid == \A p \in NotePath : p \in unsaid ~> (p \notin unsaid \/ p \in missed)

\* An operation that claims to be made on a version of another device is made from a
\* text at least as new: applyOp writes first, makeContentOp reads the base first.
BaseWasWritten ==
    \A w \in Walk : walks[w].file # None => walks[w].base <= wrote[Head(walks[w].todo).path]

\* spec-core-protocol.md:68: what reconcile plans turns what the index says into what
\* the vault has; no file is renamed twice, and none is deleted while its text appears
\* as that of a new note.
PlanExplainsVault ==
    LET After(f) == IF \E r \in Renames : r.file = f
                    THEN (CHOOSE r \in Renames : r.file = f).path ELSE tracked[f].path
        Kept == Entries(tracked) \ Deletes
    IN  phase = "scanned" =>
          /\ \A p \in NotePath \ (Creates \cup Updates) :
                {scan[p]} \ {None} = {tracked[f].text : f \in {g \in Kept : After(g) = p}}
          /\ \A f, g \in Kept : After(f) = After(g) => f = g
          /\ Cardinality({r.file : r \in Renames}) = Cardinality(Renames)
          /\ \A f \in Deletes, p \in Creates : tracked[f].text # scan[p]

\* spec-core-protocol.md:62: a note has one id from its creation on.
OneIdPerNote == \A p \in NotePath : Cardinality(drafted[p].ids) <= 1
=============================================================================
