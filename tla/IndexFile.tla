------------------------------ MODULE IndexFile ------------------------------
(***************************************************************************)
(* The local index on disk: save and load of LocalIndexStore               *)
(* (apps/plugin/src/localindex).  Handlers save without waiting for each   *)
(* other.  The adapter does one call after the other in the order in which *)
(* they are made; its rename refuses a destination that exists.            *)
(***************************************************************************)
EXTENDS Naturals, Sequences

CONSTANTS
    MaxSaves,     \* bounds: saves, each of a newer snapshot, and crashes
    MaxCrashesOfIndex

ASSUME IndexFileAssumption == MaxSaves \in Nat /\ MaxCrashesOfIndex \in Nat

NoFile == 0
Torn == MaxSaves + 1  \* a file that was being written when the plugin ended

VARIABLES
    snapshot,  \* the number of the snapshot in memory
    calls,     \* the adapter's queue: call, and the snapshot the save is of
    next,      \* the snapshot in .next
    file,      \* the one in the index file
    loaded,    \* whether the plugin runs, or could not load
    returned,  \* history: the newest snapshot whose save has returned
    ended      \* crashes

indexVars == <<snapshot, calls, next, file, loaded, returned, ended>>

IndexInit ==
    /\ snapshot = 0 /\ calls = <<>>
    /\ next = NoFile /\ file = NoFile
    /\ loaded = TRUE /\ returned = 0 /\ ended = 0

\* The index changes and is saved: the text is made at once.
SaveIndex ==
    /\ loaded /\ snapshot < MaxSaves
    /\ snapshot' = snapshot + 1
    /\ calls' = Append(calls, [call |-> "writeNext", of |-> snapshot + 1])
    /\ UNCHANGED <<next, file, loaded, returned, ended>>

Call == Head(calls)
Then(call) == calls' = Append(Tail(calls), [call |-> call, of |-> Call.of])
NowReturned == returned' = IF Call.of > returned THEN Call.of ELSE returned

WriteNext ==
    /\ calls # <<>> /\ Call.call = "writeNext"
    /\ next' = Call.of
    /\ Then("rename")
    /\ UNCHANGED <<snapshot, file, loaded, returned, ended>>

\* Mutant of RenameNext: a destination that exists is as good.
RenameOrLeave ==
    /\ calls # <<>> /\ Call.call = "rename"
    /\ IF file = NoFile /\ next # NoFile
       THEN file' = next /\ next' = NoFile
       ELSE UNCHANGED <<file, next>>
    /\ calls' = Tail(calls)
    /\ NowReturned
    /\ UNCHANGED <<snapshot, loaded, ended>>

RenameNext ==
    /\ calls # <<>> /\ Call.call = "rename"
    /\ IF file # NoFile
       THEN Then("write") /\ UNCHANGED <<next, file, returned>>
       ELSE /\ next # NoFile
            /\ file' = next /\ next' = NoFile
            /\ calls' = Tail(calls)
            /\ NowReturned
    /\ UNCHANGED <<snapshot, loaded, ended>>

\* The fallback writes the file itself.
WriteFile ==
    /\ calls # <<>> /\ Call.call = "write"
    /\ file' = Call.of
    /\ Then("remove")
    /\ UNCHANGED <<snapshot, next, loaded, returned, ended>>

\* cleanupTemp: a file that is missing is as good.
RemoveNext ==
    /\ calls # <<>> /\ Call.call = "remove"
    /\ next' = NoFile
    /\ calls' = Tail(calls)
    /\ NowReturned
    /\ UNCHANGED <<snapshot, file, loaded, ended>>

\* The plugin ends, perhaps in the middle of the adapter's call, and loads the index.
CrashAndLoad ==
    /\ loaded /\ ended < MaxCrashesOfIndex
    /\ ended' = ended + 1
    /\ calls' = <<>>
    /\ \/ file' = file
       \/ calls # <<>> /\ Call.call = "write" /\ file' = Torn
    /\ loaded' = (file' # Torn)
    /\ snapshot' = IF file' = Torn THEN snapshot ELSE file'
    /\ UNCHANGED <<next, returned>>

IndexNext ==
    SaveIndex \/ WriteNext \/ RenameNext \/ WriteFile \/ RemoveNext \/ CrashAndLoad

IndexSpec == IndexInit /\ [][IndexNext]_indexVars
-----------------------------------------------------------------------------
(***************************************************************************)
(* Properties.                                                             *)
(***************************************************************************)
\* What a save that has returned has written is in the file, or something newer, whatever
\* saves overlap and also after a crash; unless the file was torn.
ReturnedIsKept == file >= returned
=============================================================================
