--------------------------- MODULE ConflictService ---------------------------
(***************************************************************************)
(* Claiming, releasing and resolving the conflicts of a vault, together    *)
(* with the operations that raise them:                                    *)
(* packages/server/src/engine/conflict.ts beside op-processor.ts.          *)
(*                                                                         *)
(* claim and resolve run in a serializable transaction each.  release does *)
(* not: it reads and checks the conflict, then sets it by compare-and-set, *)
(* and other requests come in between.  The requests of one connection are *)
(* served in turn, but a device that has reconnected may still have one    *)
(* running on its old connection.  A refusal changes nothing and is left   *)
(* out.                                                                    *)
(***************************************************************************)
EXTENDS OpProcessor

VARIABLE releasing   \* per device, the conflict a release of it has checked, or 0

conflictVars == <<vars, releasing>>

ConflictInit == Init /\ releasing = [d \in Device |-> 0]

-----------------------------------------------------------------------------
\* requireConflictAccess looks at the user's role and not at the device.
MayWrite(d) == standing[d] # "viewer"

\* compareAndSetConflict with the status and claimant that were read.
Holds(c, d) == conflicts[c].status = "claimed" /\ conflicts[c].claimedBy = d

MayClaim(c, d) == conflicts[c].status = "open" \/ Holds(c, d)

Claim(d, c) ==
    /\ MayWrite(d)
    /\ MayClaim(c, d)
    /\ conflicts' = [conflicts EXCEPT ![c].status = "claimed", ![c].claimedBy = d]
    /\ UNCHANGED <<issued, standing, lastDeviceSeq, files, log, nextSeq, answer, releasing>>

\* release up to its last await.
BeginRelease(d, c) ==
    /\ releasing[d] = 0
    /\ MayWrite(d)
    /\ Holds(c, d)
    /\ releasing' = [releasing EXCEPT ![d] = c]
    /\ UNCHANGED vars

\* Mutant of Released: the record is saved whatever has become of it.
ReleasedBlindly(d, c) ==
    [conflicts EXCEPT ![c].status = "open", ![c].claimedBy = Collab]

\* The compare-and-set of release; when it fails the device gets an error.
Released(d, c) ==
    IF Holds(c, d)
    THEN [conflicts EXCEPT ![c].status = "open", ![c].claimedBy = Collab]
    ELSE conflicts

EndRelease(d) ==
    /\ releasing[d] # 0
    /\ conflicts' = Released(d, releasing[d])
    /\ releasing' = [releasing EXCEPT ![d] = 0]
    /\ UNCHANGED <<issued, standing, lastDeviceSeq, files, log, nextSeq, answer>>

\* conflictResolvedVV of the plugin, which joins the sides it was shown.
ResolvedVV(c, d) == Bump(Join(conflicts[c].oursVV, conflicts[c].theirsVV), d)

\* Mutant of ResolutionVV: the side that was in conflict is forgotten.
ResolutionVVOfOurs(c, d) == Bump(conflicts[c].oursVV, d)

ResolutionVV(c, d) ==
    Bump(Join(Join(conflicts[c].oursVV, conflicts[c].theirsVV), ResolvedVV(c, d)), d)

\* The content of a resolution: one of the sides, or a merge, which is new.
Resolutions(c) == {conflicts[c].ours, conflicts[c].theirs, MaxOps + c}

\* The file row of a resolution: also a deleted file lives again, under the path
\* it had.  deleteVV, the path clock and the epoch stay.
ResolvedRow(f, vv, content) ==
    [files[f] EXCEPT !.contentVV = vv, !.content = content,
                     !.conflictId = 0, !.deleted = FALSE]

\* resolve.  Nothing is appended to the log and no vaultSeq is taken.  When the
\* index files_live_path refuses the row the transaction is rolled back.
Resolve(d, c, content) ==
    LET f == conflicts[c].fileId IN
    /\ MayWrite(d)
    /\ Holds(c, d)
    /\ PathFree(f)
    /\ conflicts' = [conflicts EXCEPT ![c].status = "resolved"]
    /\ files' = [files EXCEPT ![f] = ResolvedRow(f, ResolutionVV(c, d), content)]
    /\ UNCHANGED <<issued, standing, lastDeviceSeq, log, nextSeq, answer, releasing>>

Serve ==
    \/ \E id \in DOMAIN issued : \E seq \in DeviceSeqs(id) : Process(id, seq) /\ UNCHANGED releasing
    \/ \E d \in Device : EndRelease(d)

ConflictNext ==
    \/ Next /\ UNCHANGED releasing
    \/ \E d \in Device, c \in DOMAIN conflicts :
          \/ Claim(d, c)
          \/ BeginRelease(d, c)
          \/ \E content \in Resolutions(c) : Resolve(d, c, content)
    \/ \E d \in Device : EndRelease(d)

ConflictSpec == ConflictInit /\ [][ConflictNext]_conflictVars
-----------------------------------------------------------------------------
(***************************************************************************)
(* Properties.                                                             *)
(***************************************************************************)

\* docs/spec-core-protocol.md:232: a resolution dominates both sides, so neither
\* can be accepted again or raise the conflict anew; and what it replaces is the
\* side the resolver was shown, whatever was sent while it made up its mind.
ResolutionSupersedesBoth ==
    [][\A c \in DOMAIN conflicts :
          conflicts[c].status # "resolved" /\ conflicts'[c].status = "resolved" =>
              LET f == conflicts[c].fileId IN
              /\ files[f].content = conflicts[c].ours
              /\ files[f].contentVV = conflicts[c].oursVV
              /\ StrictlyDominates(files'[f].contentVV, conflicts[c].oursVV)
              /\ StrictlyDominates(files'[f].contentVV, conflicts[c].theirsVV)]_conflictVars

\* docs/spec-core-protocol.md:225: a claim keeps the other devices out.  It ends
\* by a resolution of its holder or by a release its holder asked for.
ClaimIsExclusive ==
    [][\A c \in DOMAIN conflicts, d \in Device :
          Holds(c, d) /\ conflicts'[c] # conflicts[c] =>
              /\ conflicts'[c].status \in {"open", "resolved"}
              /\ conflicts'[c].status = "open" => releasing[d] = c
              /\ conflicts'[c].status = "resolved" => conflicts'[c].claimedBy = d]_conflictVars

\* A conflict that is resolved stays so: a release that was checked before the
\* resolution does not open it again.
ResolvedIsFinal ==
    [][\A c \in DOMAIN conflicts :
          conflicts[c].status = "resolved" => conflicts'[c] = conflicts[c]]_conflictVars

\* Nobody takes a conflict from its holder, nor opens one that is resolved.
ConflictIsSettledOnce == ClaimIsExclusive /\ ResolvedIsFinal
=============================================================================
