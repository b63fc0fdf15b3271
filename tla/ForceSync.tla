------------------------------ MODULE ForceSync ------------------------------
(***************************************************************************)
(* Force-push and force-pull: ForceSyncRunner with the plans of            *)
(* force-sync.ts, in apps/plugin/src/sync.  They begin with an empty       *)
(* outbox, no conflict and no session, and the user leaves the vault alone *)
(* meanwhile; what other devices send reaches the server, and this device  *)
(* after the run.  What pushForced does to the outbox is in module Outbox. *)
(*                                                                         *)
(* A path stands for all that fold to it.  An operation supersedes a       *)
(* content when it was made for the version the server has of it.          *)
(***************************************************************************)
EXTENDS Order, Sequences, FiniteSetsExt

CONSTANTS
    KnownFile,   \* files that the vault or the index may have at the start
    FreshFile,   \* ids for new ones; a run that needs more stops
    ForcePath,
    ForceContent,
    MaxOthers    \* bound: operations of other devices during a run

ASSUME ForceAssumption ==
    /\ KnownFile \cup FreshFile \cup ForcePath \cup ForceContent \subseteq Nat \ {0}
    /\ KnownFile \cap FreshFile = {}
    /\ IsFiniteSet(KnownFile) /\ IsFiniteSet(FreshFile) /\ IsFiniteSet(ForcePath)
    /\ MaxOthers \in Nat

Absent == 0
AnotherName == 0   \* a path with a suffix

ForceFile == KnownFile \cup FreshFile

VARIABLES
    mine,      \* what the vault has at each path
    entries,   \* the path of each file in the local index
    theirs,    \* the rows of the server: content, path, version
    force,     \* the runner: where it is, what is to be done, what the manifest listed
    fetched,   \* device.downloadedHashes
    unseen,    \* history: the files others have written since the manifest was read
    cycle,     \* history: an adoption dropped the entry of another
    others

forceVars == <<mine, entries, theirs, force, fetched, unseen, cycle, others>>

Live(rows) == {f \in ForceFile : rows[f].content # Absent}

FileAt(rows, p) == {f \in Live(rows) : rows[f].path = p}

\* byPath
EntryAt(index, p) == {f \in ForceFile : index[f] = p}

NoRow == [content |-> Absent, path |-> AnotherName, version |-> 0]

NotForcing == [at |-> "idle", todo |-> <<>>, listed |-> [f \in ForceFile |-> NoRow]]

ForceInit ==
    /\ mine \in [ForcePath -> ForceContent \cup {Absent}]
    /\ \E known \in [KnownFile -> ForcePath \cup {Absent}] :
          /\ \A f, g \in KnownFile : (known[f] = known[g] /\ f # g) => known[f] = Absent
          /\ entries = [f \in ForceFile |-> IF f \in KnownFile THEN known[f] ELSE Absent]
    /\ \E rows \in [KnownFile -> {NoRow} \cup
                       [content : ForceContent, path : ForcePath, version : {1}]] :
          /\ \A f, g \in KnownFile :
                (rows[f].path = rows[g].path /\ f # g) => rows[f] = NoRow
          /\ theirs = [f \in ForceFile |-> IF f \in KnownFile THEN rows[f] ELSE NoRow]
    /\ force = NotForcing
    /\ fetched = {}
    /\ unseen = {}
    /\ cycle = FALSE
    /\ others = 0

-----------------------------------------------------------------------------
(***************************************************************************)
(* Operations at the server.                                               *)
(***************************************************************************)
\* uniquePath
PathFor(p) == IF FileAt(theirs, p) = {} THEN p ELSE AnotherName

Put(f, p, c) ==
    theirs' = [theirs EXCEPT ![f] =
                 [content |-> c, version |-> theirs[f].version + 1,
                  path |-> IF f \in Live(theirs) THEN theirs[f].path ELSE PathFor(p)]]

Running == {"pushing", "push", "pulling", "pull"}

OtherDevice ==
    /\ force.at \in Running /\ others < MaxOthers
    /\ others' = others + 1
    /\ \E f \in KnownFile, p \in ForcePath, c \in ForceContent :
          /\ f \in Live(theirs) => p = theirs[f].path /\ c # theirs[f].content
          /\ Put(f, p, c)
          /\ unseen' = IF force.at \in {"push", "pull"} THEN unseen \cup {f} ELSE unseen
    /\ UNCHANGED <<mine, entries, force, fetched, cycle>>

-----------------------------------------------------------------------------
(***************************************************************************)
(* forcePush.                                                              *)
(***************************************************************************)
Here == {p \in ForcePath : mine[p] # Absent}

\* The file the index has at a path, of which the snapshot was taken.
Tracked(p) == EntryAt(entries, p)

\* Mutant of Adoptions: a path that is not tracked yet stays so.
AdoptionsOfTracked(rows) ==
    {p \in Here : FileAt(rows, p) # {} /\ Tracked(p) # {} /\ Tracked(p) # FileAt(rows, p)}

Adoptions(rows) == {p \in Here : FileAt(rows, p) # {} /\ Tracked(p) # FileAt(rows, p)}

\* The entry a path had goes, and the remote file's moves to it, path after path: what
\* becomes of the entry of a file is up to the last path that it was or is now the file of.
AdoptedAll(rows) ==
    LET Rounds(f) == {p \in Adoptions(rows) : f \in Tracked(p) \cup FileAt(rows, p)}
        After(f, last) == IF f \in FileAt(rows, last) THEN last ELSE Absent
    IN  [f \in ForceFile |->
            IF Rounds(f) = {} THEN entries[f] ELSE After(f, Max(Rounds(f)))]

ByPath(actions) == SortedBy(actions, [action \in actions |-> action.path])

\* planForcePush: updates and creations, then deletions.  The id of a new file is
\* chosen when it is put; the one of a file the server has elsewhere is not taken again.
PutAt(rows, p) ==
    IF FileAt(rows, p) # {}
    THEN LET f == CHOOSE g \in FileAt(rows, p) : TRUE
         IN  [kind |-> "put", path |-> p, file |-> f, seen |-> rows[f].version]
    ELSE [kind |-> "put", path |-> p, seen |-> 0,
          file |-> IF Tracked(p) \subseteq Live(rows) THEN Absent
                   ELSE CHOOSE f \in Tracked(p) : TRUE]

PutActions(rows) ==
    {PutAt(rows, p) : p \in {q \in Here : \A f \in FileAt(rows, q) : rows[f].content # mine[q]}}

DeleteActions(rows) ==
    {[kind |-> "delete", path |-> rows[f].path, file |-> f, seen |-> 0] :
        f \in {g \in Live(rows) : rows[g].path \notin Here}}

PushPlan(rows) == ByPath(PutActions(rows)) \o ByPath(DeleteActions(rows))

BeginForce(kind) ==
    /\ force.at = "idle"
    /\ force' = [force EXCEPT !.at = kind]
    /\ UNCHANGED <<mine, entries, theirs, fetched, unseen, cycle, others>>

ListForPush ==
    /\ force.at = "pushing"
    /\ force' = [at |-> "push", todo |-> PushPlan(theirs), listed |-> theirs]
    /\ entries' = AdoptedAll(theirs)
    /\ cycle' = (\E p, q \in Adoptions(theirs) : p < q /\ Tracked(q) = FileAt(theirs, p))
    /\ UNCHANGED <<mine, theirs, fetched, unseen, others>>

\* Mutant of Supersedes: the operation is made for whatever the server has.
SupersedesAnything(action, f) == TRUE

\* newContentVV dominates; a dead or new file has nothing to supersede.
Supersedes(action, f) == f \notin Live(theirs) \/ action.seen = theirs[f].version

UnusedIds == {f \in FreshFile : theirs[f].version = 0 /\ entries[f] = Absent}

\* One action of the plan, through to its acknowledgement.
PushNext ==
    /\ force.at = "push" /\ force.todo # <<>>
    /\ LET action == Head(force.todo)
           f == IF action.file = Absent THEN Min(UnusedIds) ELSE action.file
       IN  /\ action.file = Absent => UnusedIds # {}
           /\ IF action.kind = "delete"
              THEN /\ theirs' = [theirs EXCEPT ![f].content = Absent]
                   /\ entries' = [entries EXCEPT ![f] = Absent]
                   /\ force' = [force EXCEPT !.todo = Tail(@)]
              ELSE IF Supersedes(action, f)
              THEN /\ Put(f, action.path, mine[action.path])
                   /\ entries' = [entries EXCEPT ![f] = action.path]
                   /\ force' = [force EXCEPT !.todo = Tail(@)]
              ELSE \* acknowledged with a conflict
                   /\ force' = [force EXCEPT !.at = "failed"]
                   /\ UNCHANGED <<theirs, entries>>
    /\ UNCHANGED <<mine, fetched, unseen, cycle, others>>

Finish(from, to) ==
    /\ force.at = from /\ force.todo = <<>>
    /\ force' = [force EXCEPT !.at = to]
    /\ UNCHANGED <<mine, entries, theirs, fetched, unseen, cycle, others>>

-----------------------------------------------------------------------------
(***************************************************************************)
(* forcePull.                                                              *)
(***************************************************************************)
\* planForcePullStrays
Strays(rows) == {p \in Here : FileAt(rows, p) = {}}

WriteActions(rows) ==
    {[kind |-> "write", path |-> rows[f].path, file |-> f] :
        f \in {g \in Live(rows) : rows[g].path # AnotherName}}

TrashActions(rows) == {[kind |-> "trash", path |-> p, file |-> Absent] : p \in Strays(rows)}

\* The manifest's entries in order, then the paths that are not in it.
PullPlan(rows) == ByPath(WriteActions(rows)) \o ByPath(TrashActions(rows))

ListForPull ==
    /\ force.at = "pulling"
    /\ force' = [at |-> "pull", todo |-> PullPlan(theirs), listed |-> theirs]
    /\ fetched' = {}
    /\ UNCHANGED <<mine, entries, theirs, unseen, cycle, others>>

\* applyManifestEntry, or the removal of a stray.
PullNext ==
    /\ force.at = "pull" /\ force.todo # <<>>
    /\ LET action == Head(force.todo)
           p == action.path
           c == force.listed[action.file].content
       IN  IF action.kind = "trash"
           THEN /\ mine' = [mine EXCEPT ![p] = Absent]
                /\ entries' = [f \in ForceFile |-> IF f \in Tracked(p) THEN Absent ELSE entries[f]]
                /\ force' = [force EXCEPT !.todo = Tail(@)]
                /\ UNCHANGED fetched
           ELSE IF c \in fetched /\ mine[p] \notin {Absent, c}
           THEN \* the file there is read as the content of that hash
                /\ force' = [force EXCEPT !.at = "failed"]
                /\ UNCHANGED <<mine, entries, fetched>>
           ELSE /\ mine' = [mine EXCEPT ![p] = c]
                /\ entries' = [entries EXCEPT ![action.file] = p]
                /\ fetched' = fetched \cup {c}
                /\ force' = [force EXCEPT !.todo = Tail(@)]
    /\ UNCHANGED <<theirs, unseen, cycle, others>>

-----------------------------------------------------------------------------
ForceNext ==
    \/ BeginForce("pushing") \/ BeginForce("pulling")
    \/ ListForPush \/ PushNext \/ Finish("push", "pushed")
    \/ ListForPull \/ PullNext \/ Finish("pull", "pulled")
    \/ OtherDevice

ForceSpec == ForceInit /\ [][ForceNext]_forceVars
-----------------------------------------------------------------------------
(***************************************************************************)
(* Properties.                                                             *)
(***************************************************************************)
Contents(rows) == [p \in ForcePath |-> {rows[f].content : f \in FileAt(rows, p)}]

OfVault == [p \in ForcePath |-> {mine[p]} \ {Absent}]

\* force-runner.ts:66: after a force-push that has succeeded, and that nobody has come
\* into, the server has what the vault has and nothing besides, and the index knows
\* under which ids, unless two files had changed places.
PushMirrors ==
    (force.at = "pushed" /\ unseen = {}) =>
        /\ Contents(theirs) = OfVault
        /\ \A f \in Live(theirs) : theirs[f].path # AnotherName
        /\ cycle \/ \A p \in Here : EntryAt(entries, p) = FileAt(theirs, p)

\* A force-push overwrites what it has seen: what others have written since it read
\* the manifest stays, unless the manifest had the file, at a path this vault has not.
UnseenStays ==
    [][\A f \in unseen : (force.at = "push" /\ theirs'[f] # theirs[f] /\ others' = others)
          => f \in Live(force.listed) /\ force.listed[f].path \notin Here]_forceVars

\* force-runner.ts:125: after a force-pull that has succeeded the vault has what the
\* manifest listed and nothing besides.  It fails only for a content listed twice.
PullMirrors ==
    /\ force.at = "pulled" => OfVault = Contents(force.listed)
    /\ (force.at = "failed" /\ fetched # {}) =>
          \E f, g \in Live(force.listed) :
             f # g /\ force.listed[f].content = force.listed[g].content

\* A forced run that succeeds leaves vault and server alike.
ForcedRunMirrors == PushMirrors /\ PullMirrors
=============================================================================
