------------------------ MODULE ConflictServiceProofs ------------------------
(***************************************************************************)
(* The promises of the conflict service, for every number of devices,      *)
(* files, operations and conflicts, while operations keep arriving.        *)
(*                                                                         *)
(* A step is one of OpProcessor's, about which OpProcessorProofs has what  *)
(* is needed, or one of the four of the service, which change no more than *)
(* one conflict and the row of its file.                                   *)
(***************************************************************************)
EXTENDS ConflictService, OpProcessorProofs

-----------------------------------------------------------------------------
(***************************************************************************)
(* Types and steps.                                                        *)
(***************************************************************************)
ConflictTypeOK ==
    /\ TypeOK
    /\ releasing \in [Device -> 0 .. Len(conflicts)]

ServiceStep ==
    \/ \E d \in Device, c \in DOMAIN conflicts :
          \/ Claim(d, c)
          \/ BeginRelease(d, c)
          \/ \E content \in Resolutions(c) : Resolve(d, c, content)
    \/ \E d \in Device : EndRelease(d)

LEMMA ConflictStepCases ==
    ASSUME [ConflictNext]_conflictVars
    PROVE  ([Next]_vars /\ UNCHANGED releasing) \/ ServiceStep
BY DEF ConflictNext, conflictVars, ServiceStep

LEMMA ConflictsType ==
    ASSUME TypeOK
    PROVE  /\ Len(conflicts) \in Nat
           /\ DOMAIN conflicts = 1 .. Len(conflicts)
           /\ \A c \in DOMAIN conflicts :
                 /\ conflicts[c] \in ConflictRecord
                 /\ conflicts[c].fileId \in FileId
                 /\ conflicts[c].ours \in Nat /\ conflicts[c].theirs \in Nat
                 /\ conflicts[c].oursVV \in VersionVector
                 /\ conflicts[c].theirsVV \in VersionVector
<1>1. Len(conflicts) \in Nat /\ DOMAIN conflicts = 1 .. Len(conflicts)
  BY LenProperties DEF TypeOK
<1>2. \A c \in DOMAIN conflicts : conflicts[c] \in ConflictRecord
  BY <1>1, ElementOfSeq DEF TypeOK
<1> QED
  BY <1>1, <1>2 DEF ConflictRecord

\* A step of the service rewrites the status and the claimant of one conflict.
Rewritten(c, s, w) ==
    conflicts' = [conflicts EXCEPT ![c].status = s, ![c].claimedBy = w]

LEMMA RewrittenConflict ==
    ASSUME TypeOK, NEW c \in DOMAIN conflicts, NEW s \in ConflictStatus, NEW w \in Writer,
           Rewritten(c, s, w)
    PROVE  /\ conflicts' \in Seq(ConflictRecord)
           /\ Len(conflicts') = Len(conflicts)
           /\ DOMAIN conflicts' = DOMAIN conflicts
           /\ \A k \in DOMAIN conflicts : k # c => conflicts'[k] = conflicts[k]
           /\ conflicts'[c].status = s /\ conflicts'[c].claimedBy = w
           /\ \A k \in DOMAIN conflicts :
                 /\ conflicts'[k].fileId = conflicts[k].fileId
                 /\ conflicts'[k].ours = conflicts[k].ours
                 /\ conflicts'[k].theirs = conflicts[k].theirs
                 /\ conflicts'[k].oursVV = conflicts[k].oursVV
                 /\ conflicts'[k].theirsVV = conflicts[k].theirsVV
           /\ conflicts[c].status = s /\ conflicts[c].claimedBy = w
                 => conflicts'[c] = conflicts[c]
<1> DEFINE r == [conflicts[c] EXCEPT !.status = s, !.claimedBy = w]
<1>1. conflicts[c] \in ConflictRecord /\ c \in 1 .. Len(conflicts)
  BY ConflictsType
<1>2. r \in ConflictRecord
  BY <1>1 DEF ConflictRecord
<1>3. conflicts' = [conflicts EXCEPT ![c] = r]
  BY DEF Rewritten
<1>4. /\ r.fileId = conflicts[c].fileId /\ r.ours = conflicts[c].ours
      /\ r.theirs = conflicts[c].theirs /\ r.oursVV = conflicts[c].oursVV
      /\ r.theirsVV = conflicts[c].theirsVV
      /\ r.status = s /\ r.claimedBy = w
      /\ conflicts[c].status = s /\ conflicts[c].claimedBy = w => r = conflicts[c]
  BY <1>1 DEF ConflictRecord
<1> HIDE DEF r
<1>5. /\ conflicts' \in Seq(ConflictRecord)
      /\ Len(conflicts') = Len(conflicts)
      /\ \A j \in 1 .. Len(conflicts) : conflicts'[j] = IF j = c THEN r ELSE conflicts[j]
  <2> DEFINE t == [conflicts EXCEPT ![c] = r]
  <2>1. conflicts \in Seq(ConflictRecord)
    BY DEF TypeOK
  <2>2. /\ t \in Seq(ConflictRecord)
        /\ Len(t) = Len(conflicts)
        /\ \A j \in 1 .. Len(conflicts) : t[j] = IF j = c THEN r ELSE conflicts[j]
    BY <1>1, <1>2, <2>1, ExceptSeq
  <2> QED
    BY <1>3, <2>2
<1>6. DOMAIN conflicts' = DOMAIN conflicts /\ DOMAIN conflicts = 1 .. Len(conflicts)
  BY <1>3, ConflictsType
<1> QED
  BY <1>4, <1>5, <1>6

\* What the four steps do to the conflicts and to the files.
ClaimShape(d, c) ==
    /\ MayClaim(c, d)
    /\ conflicts' = [conflicts EXCEPT ![c].status = "claimed", ![c].claimedBy = d]
    /\ files' = files

ReleaseShape(d, c) ==
    /\ Holds(c, d) /\ releasing[d] = c
    /\ conflicts' = [conflicts EXCEPT ![c].status = "open", ![c].claimedBy = Collab]
    /\ files' = files

ResolveShape(d, c) ==
    /\ Holds(c, d)
    /\ conflicts' = [conflicts EXCEPT ![c].status = "resolved", ![c].claimedBy = d]
    /\ \E content \in Resolutions(c) :
          files' = [files EXCEPT ![conflicts[c].fileId] =
                       ResolvedRow(conflicts[c].fileId, ResolutionVV(c, d), content)]

LEMMA ServiceShapes ==
    ASSUME ConflictTypeOK, ServiceStep
    PROVE  /\ UNCHANGED <<issued, standing, lastDeviceSeq, log, nextSeq, answer>>
           /\ \/ UNCHANGED <<conflicts, files>>
              \/ \E d \in Device, c \in DOMAIN conflicts :
                    ClaimShape(d, c) \/ ReleaseShape(d, c) \/ ResolveShape(d, c)
<1>1. ASSUME NEW d \in Device, NEW c \in DOMAIN conflicts, Claim(d, c)
      PROVE  ClaimShape(d, c)
  BY <1>1 DEF Claim, ClaimShape
<1>2. ASSUME NEW d \in Device, EndRelease(d), conflicts' # conflicts
      PROVE  \E c \in DOMAIN conflicts : ReleaseShape(d, c)
  <2>1. releasing[d] \in DOMAIN conflicts
    BY <1>2, ConflictsType DEF EndRelease, ConflictTypeOK
  <2> QED
    BY <1>2, <2>1 DEF EndRelease, Released, ReleaseShape
<1>3. ASSUME NEW d \in Device, NEW c \in DOMAIN conflicts, NEW content \in Resolutions(c),
             Resolve(d, c, content)
      PROVE  ResolveShape(d, c)
  <2>1. conflicts' = [conflicts EXCEPT ![c] = [conflicts[c] EXCEPT !.status = "resolved"]]
    BY <1>3 DEF Resolve
  <2>2. conflicts[c].claimedBy = d /\ conflicts[c] \in ConflictRecord
    BY <1>3, ConflictsType DEF Resolve, Holds, ConflictTypeOK
  <2>3. [conflicts[c] EXCEPT !.status = "resolved"]
          = [conflicts[c] EXCEPT !.status = "resolved", !.claimedBy = d]
    BY <2>2 DEF ConflictRecord
  <2>4. conflicts' = [conflicts EXCEPT ![c].status = "resolved", ![c].claimedBy = d]
    BY <2>1, <2>3
  <2> QED
    BY <1>3, <2>4 DEF Resolve, ResolveShape
<1>4. UNCHANGED <<issued, standing, lastDeviceSeq, log, nextSeq, answer>>
  BY DEF ServiceStep, Claim, BeginRelease, EndRelease, Resolve, vars
<1>5. ASSUME NEW d \in Device, NEW c \in DOMAIN conflicts, BeginRelease(d, c)
      PROVE  UNCHANGED <<conflicts, files>>
  BY <1>5 DEF BeginRelease, vars
<1>6. ASSUME NEW d \in Device, EndRelease(d)
      PROVE  files' = files
  BY <1>6 DEF EndRelease
<1> QED
  BY <1>1, <1>2, <1>3, <1>4, <1>5, <1>6 DEF ServiceStep

\* The version of a resolution is above both sides of its conflict.
LEMMA ResolutionFacts ==
    ASSUME TypeOK, NEW d \in Device, NEW c \in DOMAIN conflicts
    PROVE  /\ ResolutionVV(c, d) \in VersionVector
           /\ StrictlyDominates(ResolutionVV(c, d), conflicts[c].oursVV)
           /\ StrictlyDominates(ResolutionVV(c, d), conflicts[c].theirsVV)
<1> DEFINE ours == conflicts[c].oursVV
           theirs == conflicts[c].theirsVV
<1>1. ours \in VersionVector /\ theirs \in VersionVector /\ d \in Writer
  BY ConflictsType, WriterType
<1>2. ResolvedVV(c, d) \in VersionVector
  BY <1>1, JoinType, BumpType DEF ResolvedVV
<1>3. ResolutionVV(c, d) \in VersionVector
  <2>1. Join(Join(ours, theirs), ResolvedVV(c, d)) \in VersionVector
    BY <1>1, <1>2, JoinType
  <2> QED
    BY <1>1, <2>1, BumpType DEF ResolutionVV
<1> QED
  BY <1>1, <1>2, <1>3, ResolutionDominatesBothSides DEF ResolutionVV

\* The row of a resolution, and that no other row changes.
LEMMA ResolvedFiles ==
    ASSUME TypeOK, NEW d \in Device, NEW c \in DOMAIN conflicts, ResolveShape(d, c)
    PROVE  LET f == conflicts[c].fileId
           IN  /\ f \in FileId
               /\ files' \in [FileId -> StoredFile]
               /\ files'[f].conflictId = 0
               /\ files'[f].content \in Resolutions(c)
               /\ files'[f].contentVV = ResolutionVV(c, d)
               /\ \A g \in FileId \ {f} : files'[g] = files[g]
<1> DEFINE f == conflicts[c].fileId
<1>1. f \in FileId /\ files[f] \in StoredFile /\ files \in [FileId -> StoredFile]
  BY ConflictsType DEF TypeOK
<1>2. PICK content \in Resolutions(c) :
          files' = [files EXCEPT ![f] = ResolvedRow(f, ResolutionVV(c, d), content)]
  BY DEF ResolveShape
<1> DEFINE row == ResolvedRow(f, ResolutionVV(c, d), content)
<1>3. content \in Nat
  BY ConflictsType, OpProcessorAssumption DEF Resolutions
<1>4. ResolutionVV(c, d) \in VersionVector
  BY ResolutionFacts
<1>5. /\ row \in StoredFile /\ row.conflictId = 0 /\ row.content = content
      /\ row.contentVV = ResolutionVV(c, d)
  BY <1>1, <1>3, <1>4 DEF ResolvedRow, StoredFile
<1> HIDE DEF f, row
<1>6. /\ files' \in [FileId -> StoredFile]
      /\ files'[f] = row
      /\ \A g \in FileId \ {f} : files'[g] = files[g]
  BY <1>1, <1>2, <1>5 DEF row
<1> QED
  BY <1>1, <1>5, <1>6 DEF f

LEMMA InitConflictTypeOK == ConflictInit => ConflictTypeOK
<1> SUFFICES ASSUME ConflictInit PROVE ConflictTypeOK
  OBVIOUS
<1>1. TypeOK
  BY InitTypeOK DEF ConflictInit
<1>2. Len(conflicts) \in Nat
  BY <1>1, ConflictsType
<1> QED
  BY <1>1, <1>2 DEF ConflictInit, ConflictTypeOK

LEMMA ServiceTypeOK ==
    ASSUME ConflictTypeOK, ServiceStep
    PROVE  TypeOK' /\ Len(conflicts') = Len(conflicts)
<1>1. TypeOK
  BY DEF ConflictTypeOK
<1>2. UNCHANGED <<issued, standing, lastDeviceSeq, log, nextSeq, answer>>
  BY ServiceShapes
<1>3. CASE UNCHANGED <<conflicts, files>>
  BY <1>1, <1>2, <1>3 DEF TypeOK
<1>4. ASSUME NEW d \in Device, NEW c \in DOMAIN conflicts,
             ClaimShape(d, c) \/ ReleaseShape(d, c) \/ ResolveShape(d, c)
      PROVE  TypeOK' /\ Len(conflicts') = Len(conflicts)
  <2>1. \E s \in ConflictStatus, w \in Writer : Rewritten(c, s, w)
    <3>1. /\ "claimed" \in ConflictStatus /\ "open" \in ConflictStatus
          /\ "resolved" \in ConflictStatus /\ d \in Writer /\ Collab \in Writer
      BY WriterType DEF ConflictStatus
    <3>2. \/ Rewritten(c, "claimed", d) \/ Rewritten(c, "open", Collab)
          \/ Rewritten(c, "resolved", d)
      BY <1>4 DEF ClaimShape, ReleaseShape, ResolveShape, Rewritten
    <3> QED
      BY <3>1, <3>2
  <2>2. conflicts' \in Seq(ConflictRecord) /\ Len(conflicts') = Len(conflicts)
    BY <1>1, <2>1, RewrittenConflict
  <2>3. files' \in [FileId -> StoredFile]
    <3>1. CASE files' = files
      BY <1>1, <3>1 DEF TypeOK
    <3>2. CASE ResolveShape(d, c)
      BY <1>1, <3>2, ResolvedFiles
    <3> QED
      BY <1>4, <3>1, <3>2 DEF ClaimShape, ReleaseShape
  <2> QED
    BY <1>1, <1>2, <2>2, <2>3 DEF TypeOK
<1> QED
  BY <1>3, <1>4, ServiceShapes

\* The conflicts are kept in order, and their number never falls.
LEMMA ProcessorConflicts ==
    ASSUME TypeOK, [Next]_vars
    PROVE  conflicts' = conflicts \/ \E r \in ConflictRecord : conflicts' = Append(conflicts, r)
BY StepCases
   DEF AnswerStep, IssueStep, CommitStep, SetStanding, SetActive, vars

LEMMA GrownConflicts ==
    ASSUME TypeOK, [Next]_vars
    PROVE  /\ Len(conflicts') \in Nat /\ Len(conflicts') >= Len(conflicts)
           /\ DOMAIN conflicts \subseteq DOMAIN conflicts'
           /\ \A c \in DOMAIN conflicts : conflicts'[c] = conflicts[c]
<1>1. CASE conflicts' = conflicts
  BY <1>1, ConflictsType
<1>2. ASSUME NEW r \in ConflictRecord, conflicts' = Append(conflicts, r)
      PROVE  /\ Len(conflicts') \in Nat /\ Len(conflicts') >= Len(conflicts)
             /\ DOMAIN conflicts \subseteq DOMAIN conflicts'
             /\ \A c \in DOMAIN conflicts : conflicts'[c] = conflicts[c]
  <2>1. conflicts \in Seq(ConflictRecord)
    BY DEF TypeOK
  <2>2. /\ conflicts' \in Seq(ConflictRecord)
        /\ Len(conflicts') = Len(conflicts) + 1
        /\ \A i \in 1 .. Len(conflicts) : conflicts'[i] = conflicts[i]
    BY <1>2, <2>1, AppendProperties
  <2>3. DOMAIN conflicts' = 1 .. Len(conflicts')
    BY <2>2, LenProperties
  <2> QED
    BY <2>2, <2>3, ConflictsType
<1> QED
  BY <1>1, <1>2, ProcessorConflicts

LEMMA NextConflictTypeOK ==
    ConflictTypeOK /\ [ConflictNext]_conflictVars => ConflictTypeOK'
<1> SUFFICES ASSUME ConflictTypeOK, [ConflictNext]_conflictVars
             PROVE  ConflictTypeOK'
  OBVIOUS
<1>1. TypeOK /\ Len(conflicts) \in Nat
  BY ConflictsType DEF ConflictTypeOK
<1>2. CASE [Next]_vars /\ UNCHANGED releasing
  <2>1. Len(conflicts') \in Nat /\ Len(conflicts') >= Len(conflicts)
    BY <1>1, <1>2, GrownConflicts
  <2>2. TypeOK'
    BY <1>1, <1>2, NextTypeOK
  <2>3. releasing' \in [Device -> 0 .. Len(conflicts')]
    BY <1>1, <1>2, <2>1 DEF ConflictTypeOK
  <2> QED
    BY <2>2, <2>3 DEF ConflictTypeOK
<1>3. CASE ServiceStep
  <2>1. TypeOK' /\ Len(conflicts') = Len(conflicts)
    BY <1>3, ServiceTypeOK
  <2>2. releasing' \in [Device -> 0 .. Len(conflicts)]
    <3>1. \A c \in DOMAIN conflicts : c \in 0 .. Len(conflicts)
      BY <1>1, ConflictsType
    <3>2. \/ releasing' = releasing
          \/ \E d \in Device, c \in DOMAIN conflicts : releasing' = [releasing EXCEPT ![d] = c]
          \/ \E d \in Device : releasing' = [releasing EXCEPT ![d] = 0]
      BY <1>3 DEF ServiceStep, Claim, BeginRelease, EndRelease, Resolve
    <3> QED
      BY <1>1, <3>1, <3>2 DEF ConflictTypeOK
  <2> QED
    BY <2>1, <2>2 DEF ConflictTypeOK
<1> QED
  BY <1>2, <1>3, ConflictStepCases

\* The tables keep their types when conflicts are claimed, released and resolved
\* while operations arrive.
THEOREM ConflictTypeCorrect == ConflictSpec => []ConflictTypeOK
BY InitConflictTypeOK, NextConflictTypeOK, PTL DEF ConflictSpec

-----------------------------------------------------------------------------
(***************************************************************************)
(* A file with a conflict is frozen.                                       *)
(***************************************************************************)

\* The file of a conflict that is not resolved names it.
LEMMA NamedByItsFile ==
    ASSUME TypeOK, FrozenByItsConflict, NEW c \in DOMAIN conflicts,
           conflicts[c].status # "resolved"
    PROVE  LET f == conflicts[c].fileId
           IN  /\ f \in FileId
               /\ files[f].conflictId = c
               /\ files[f].content = conflicts[c].ours
               /\ files[f].contentVV = conflicts[c].oursVV
<1>1. conflicts[c].fileId \in FileId /\ c # 0
  BY ConflictsType
<1> QED
  BY <1>1 DEF FrozenByItsConflict

LEMMA ServiceFrozen ==
    ASSUME ConflictTypeOK, FrozenByItsConflict, ServiceStep
    PROVE  FrozenByItsConflict'
<1>1. TypeOK
  BY DEF ConflictTypeOK
<1>2. \A k \in DOMAIN conflicts : conflicts[k].fileId \in FileId /\ k # 0
  BY <1>1, ConflictsType
<1>3. CASE UNCHANGED <<conflicts, files>>
  BY <1>3 DEF FrozenByItsConflict
<1>4. ASSUME NEW d \in Device, NEW c \in DOMAIN conflicts, NEW s \in {"open", "claimed"},
             NEW w \in Writer, conflicts[c].status # "resolved", files' = files,
             Rewritten(c, s, w)
      PROVE  FrozenByItsConflict'
  <2>1. /\ DOMAIN conflicts' = DOMAIN conflicts
        /\ \A k \in DOMAIN conflicts : k # c => conflicts'[k] = conflicts[k]
        /\ conflicts'[c].status = s
        /\ \A k \in DOMAIN conflicts :
              /\ conflicts'[k].fileId = conflicts[k].fileId
              /\ conflicts'[k].ours = conflicts[k].ours
              /\ conflicts'[k].oursVV = conflicts[k].oursVV
    <3>1. s \in ConflictStatus
      BY DEF ConflictStatus
    <3> QED
      BY <1>1, <1>4, <3>1, RewrittenConflict
  <2>2. \A k \in DOMAIN conflicts :
            conflicts'[k].status = "resolved" <=> conflicts[k].status = "resolved"
    BY <1>4, <2>1
  <2> QED
    BY <1>4, <2>1, <2>2 DEF FrozenByItsConflict
<1>5. ASSUME NEW d \in Device, NEW c \in DOMAIN conflicts, ResolveShape(d, c)
      PROVE  FrozenByItsConflict'
  <2> DEFINE f == conflicts[c].fileId
  <2>1. /\ f \in FileId
        /\ files'[f].conflictId = 0
        /\ \A g \in FileId \ {f} : files'[g] = files[g]
    BY <1>1, <1>5, ResolvedFiles
  <2>2. files[f].conflictId = c
    BY <1>1, <1>5, NamedByItsFile DEF ResolveShape, Holds
  <2>3. /\ DOMAIN conflicts' = DOMAIN conflicts
        /\ \A k \in DOMAIN conflicts : k # c => conflicts'[k] = conflicts[k]
        /\ conflicts'[c].status = "resolved"
    <3>1. "resolved" \in ConflictStatus /\ d \in Writer
      BY WriterType DEF ConflictStatus
    <3>2. Rewritten(c, "resolved", d)
      BY <1>5 DEF ResolveShape, Rewritten
    <3> QED
      BY <1>1, <3>1, <3>2, RewrittenConflict
  <2>4. ASSUME NEW g \in FileId, files'[g].conflictId # 0
        PROVE  /\ files'[g].conflictId \in DOMAIN conflicts'
               /\ LET k == conflicts'[files'[g].conflictId]
                  IN  /\ k.fileId = g
                      /\ k.status # "resolved"
                      /\ k.ours = files'[g].content
                      /\ k.oursVV = files'[g].contentVV
    <3>1. g # f /\ files'[g] = files[g]
      BY <2>1, <2>4
    <3>2. files[g].conflictId \in DOMAIN conflicts /\ files[g].conflictId # c
      BY <2>4, <3>1 DEF FrozenByItsConflict
    <3> HIDE DEF f
    <3> QED
      BY <2>3, <2>4, <3>1, <3>2 DEF FrozenByItsConflict
  <2>5. ASSUME NEW k \in DOMAIN conflicts', conflicts'[k].status # "resolved"
        PROVE  files'[conflicts'[k].fileId].conflictId = k
    <3>1. k # c /\ k \in DOMAIN conflicts /\ conflicts'[k] = conflicts[k]
      BY <2>3, <2>5
    <3>2. files[conflicts[k].fileId].conflictId = k
      BY <2>5, <3>1 DEF FrozenByItsConflict
    <3>3. conflicts[k].fileId \in FileId /\ conflicts[k].fileId # f
      BY <1>2, <2>2, <3>1, <3>2
    <3> HIDE DEF f
    <3> QED
      BY <2>1, <3>1, <3>2, <3>3
  <2> QED
    BY <2>4, <2>5 DEF FrozenByItsConflict
<1>6. ASSUME NEW d \in Device, NEW c \in DOMAIN conflicts,
             ClaimShape(d, c) \/ ReleaseShape(d, c)
      PROVE  FrozenByItsConflict'
  <2>1. conflicts[c].status # "resolved" /\ files' = files
    BY <1>6 DEF ClaimShape, ReleaseShape, MayClaim, Holds
  <2>2. d \in Writer /\ Collab \in Writer
    BY WriterType
  <2>3. Rewritten(c, "claimed", d) \/ Rewritten(c, "open", Collab)
    BY <1>6 DEF ClaimShape, ReleaseShape, Rewritten
  <2> QED
    BY <1>4, <2>1, <2>2, <2>3
<1> QED
  BY <1>3, <1>5, <1>6, ServiceShapes

LEMMA NextServiceFrozen ==
    ConflictTypeOK /\ FrozenByItsConflict /\ [ConflictNext]_conflictVars
        => FrozenByItsConflict'
BY ConflictStepCases, NextFrozen, ServiceFrozen DEF ConflictTypeOK

\* docs/spec-core-protocol.md S7: also while conflicts are claimed, released and
\* resolved, a file is frozen exactly as long as its conflict is not resolved.
THEOREM FrozenUntilResolved == ConflictSpec => []FrozenByItsConflict
<1>1. ConflictInit => FrozenByItsConflict
  BY EmptySeq DEF ConflictInit, Init, Absent, FrozenByItsConflict
<1> QED
  BY <1>1, ConflictTypeCorrect, NextServiceFrozen, PTL DEF ConflictSpec

-----------------------------------------------------------------------------
(***************************************************************************)
(* Resolutions and claims.                                                 *)
(***************************************************************************)
SupersedeStep ==
    \A c \in DOMAIN conflicts :
        conflicts[c].status # "resolved" /\ conflicts'[c].status = "resolved" =>
            LET f == conflicts[c].fileId IN
            /\ files[f].content = conflicts[c].ours
            /\ files[f].contentVV = conflicts[c].oursVV
            /\ StrictlyDominates(files'[f].contentVV, conflicts[c].oursVV)
            /\ StrictlyDominates(files'[f].contentVV, conflicts[c].theirsVV)

ExclusiveStep ==
    \A c \in DOMAIN conflicts, d \in Device :
        Holds(c, d) /\ conflicts'[c] # conflicts[c] =>
            /\ conflicts'[c].status \in {"open", "resolved"}
            /\ conflicts'[c].status = "open" => releasing[d] = c
            /\ conflicts'[c].status = "resolved" => conflicts'[c].claimedBy = d

FinalStep ==
    \A c \in DOMAIN conflicts :
        conflicts[c].status = "resolved" => conflicts'[c] = conflicts[c]

\* All three hold of a step because it rewrites one conflict, of which its device
\* has the claim or which is open.
LEMMA NextSettles ==
    ConflictTypeOK /\ FrozenByItsConflict /\ [ConflictNext]_conflictVars
        => SupersedeStep /\ ExclusiveStep /\ FinalStep
<1> SUFFICES ASSUME ConflictTypeOK, FrozenByItsConflict, [ConflictNext]_conflictVars
             PROVE  SupersedeStep /\ ExclusiveStep /\ FinalStep
  OBVIOUS
<1>1. TypeOK
  BY DEF ConflictTypeOK
<1>2. ASSUME \A c \in DOMAIN conflicts : conflicts'[c] = conflicts[c]
      PROVE  SupersedeStep /\ ExclusiveStep /\ FinalStep
  BY <1>2 DEF SupersedeStep, ExclusiveStep, FinalStep
<1>3. CASE [Next]_vars
  BY <1>1, <1>2, <1>3, GrownConflicts
<1>4. ASSUME NEW d \in Device, NEW k \in DOMAIN conflicts, ClaimShape(d, k)
      PROVE  SupersedeStep /\ ExclusiveStep /\ FinalStep
  <2>1. /\ \A c \in DOMAIN conflicts : c # k => conflicts'[c] = conflicts[c]
        /\ conflicts'[k].status = "claimed"
        /\ Holds(k, d) => conflicts'[k] = conflicts[k]
    <3>1. "claimed" \in ConflictStatus /\ d \in Writer
      BY WriterType DEF ConflictStatus
    <3>2. Rewritten(k, "claimed", d)
      BY <1>4 DEF ClaimShape, Rewritten
    <3>3. /\ \A c \in DOMAIN conflicts : c # k => conflicts'[c] = conflicts[c]
          /\ conflicts'[k].status = "claimed"
          /\ conflicts[k].status = "claimed" /\ conflicts[k].claimedBy = d
                => conflicts'[k] = conflicts[k]
      BY <1>1, <3>1, <3>2, RewrittenConflict
    <3> QED
      BY <3>3 DEF Holds
  <2>2. conflicts[k].status = "open" \/ Holds(k, d)
    BY <1>4 DEF ClaimShape, MayClaim
  <2> QED
    BY <2>1, <2>2 DEF SupersedeStep, ExclusiveStep, FinalStep, Holds
<1>5. ASSUME NEW d \in Device, NEW k \in DOMAIN conflicts, ReleaseShape(d, k)
      PROVE  SupersedeStep /\ ExclusiveStep /\ FinalStep
  <2>1. /\ \A c \in DOMAIN conflicts : c # k => conflicts'[c] = conflicts[c]
        /\ conflicts'[k].status = "open"
    <3>1. "open" \in ConflictStatus /\ Collab \in Writer
      BY WriterType DEF ConflictStatus
    <3>2. Rewritten(k, "open", Collab)
      BY <1>5 DEF ReleaseShape, Rewritten
    <3> QED
      BY <1>1, <3>1, <3>2, RewrittenConflict
  <2>2. Holds(k, d) /\ releasing[d] = k
    BY <1>5 DEF ReleaseShape
  <2> QED
    BY <2>1, <2>2 DEF SupersedeStep, ExclusiveStep, FinalStep, Holds
<1>6. ASSUME NEW d \in Device, NEW k \in DOMAIN conflicts, ResolveShape(d, k)
      PROVE  SupersedeStep /\ ExclusiveStep /\ FinalStep
  <2>1. /\ \A c \in DOMAIN conflicts : c # k => conflicts'[c] = conflicts[c]
        /\ conflicts'[k].status = "resolved" /\ conflicts'[k].claimedBy = d
    <3>1. "resolved" \in ConflictStatus /\ d \in Writer
      BY WriterType DEF ConflictStatus
    <3>2. Rewritten(k, "resolved", d)
      BY <1>6 DEF ResolveShape, Rewritten
    <3> QED
      BY <1>1, <3>1, <3>2, RewrittenConflict
  <2>2. Holds(k, d)
    BY <1>6 DEF ResolveShape
  <2>3. LET f == conflicts[k].fileId IN
            /\ files[f].content = conflicts[k].ours
            /\ files[f].contentVV = conflicts[k].oursVV
    BY <1>1, <2>2, NamedByItsFile DEF Holds
  <2>4. files'[conflicts[k].fileId].contentVV = ResolutionVV(k, d)
    BY <1>1, <1>6, ResolvedFiles
  <2>5. /\ StrictlyDominates(ResolutionVV(k, d), conflicts[k].oursVV)
        /\ StrictlyDominates(ResolutionVV(k, d), conflicts[k].theirsVV)
    BY <1>1, ResolutionFacts
  <2>6. SupersedeStep
    BY <2>1, <2>3, <2>4, <2>5 DEF SupersedeStep
  <2> QED
    BY <2>1, <2>2, <2>6 DEF ExclusiveStep, FinalStep, Holds
<1>7. CASE UNCHANGED <<conflicts, files>>
  BY <1>2, <1>7
<1> QED
  BY <1>3, <1>4, <1>5, <1>6, <1>7, ConflictStepCases, ServiceShapes

\* docs/spec-core-protocol.md:232: what a resolution replaces is the side the resolver
\* was shown, and its version is above both sides, for any number of devices.
THEOREM ResolutionsSupersede == ConflictSpec => ResolutionSupersedesBoth
<1>1. ConflictTypeOK /\ FrozenByItsConflict /\ [ConflictNext]_conflictVars => SupersedeStep
  BY NextSettles
<1>2. SupersedeStep =>
        \A c \in DOMAIN conflicts :
          conflicts[c].status # "resolved" /\ conflicts'[c].status = "resolved" =>
              LET f == conflicts[c].fileId IN
              /\ files[f].content = conflicts[c].ours
              /\ files[f].contentVV = conflicts[c].oursVV
              /\ StrictlyDominates(files'[f].contentVV, conflicts[c].oursVV)
              /\ StrictlyDominates(files'[f].contentVV, conflicts[c].theirsVV)
  BY DEF SupersedeStep
<1> QED
  BY <1>1, <1>2, ConflictTypeCorrect, FrozenUntilResolved, PTL
     DEF ConflictSpec, ResolutionSupersedesBoth

\* docs/spec-core-protocol.md:225: a claim keeps all other devices out, and a conflict
\* that is resolved stays so, also when a release was checked before.
THEOREM ConflictsSettleOnce == ConflictSpec => ConflictIsSettledOnce
<1>1. ConflictTypeOK /\ FrozenByItsConflict /\ [ConflictNext]_conflictVars
        => ExclusiveStep /\ FinalStep
  BY NextSettles
<1>2. ExclusiveStep =>
        \A c \in DOMAIN conflicts, d \in Device :
          Holds(c, d) /\ conflicts'[c] # conflicts[c] =>
              /\ conflicts'[c].status \in {"open", "resolved"}
              /\ conflicts'[c].status = "open" => releasing[d] = c
              /\ conflicts'[c].status = "resolved" => conflicts'[c].claimedBy = d
  BY DEF ExclusiveStep
<1>3. FinalStep =>
        \A c \in DOMAIN conflicts :
          conflicts[c].status = "resolved" => conflicts'[c] = conflicts[c]
  BY DEF FinalStep
<1>4. ConflictSpec => ClaimIsExclusive
  BY <1>1, <1>2, ConflictTypeCorrect, FrozenUntilResolved, PTL
     DEF ConflictSpec, ClaimIsExclusive
<1>5. ConflictSpec => ResolvedIsFinal
  BY <1>1, <1>3, ConflictTypeCorrect, FrozenUntilResolved, PTL
     DEF ConflictSpec, ResolvedIsFinal
<1> QED
  BY <1>4, <1>5 DEF ConflictIsSettledOnce

\* A resolution is above the content it replaces, because that is its "ours".
LEMMA NextServiceMonotone ==
    ConflictTypeOK /\ FrozenByItsConflict /\ [ConflictNext]_conflictVars => MonotoneStep
<1> SUFFICES ASSUME ConflictTypeOK, FrozenByItsConflict, [ConflictNext]_conflictVars
             PROVE  MonotoneStep
  OBVIOUS
<1>1. TypeOK
  BY DEF ConflictTypeOK
<1>2. \A f \in FileId : Dominates(files[f].contentVV, files[f].contentVV)
  <2>1. \A f \in FileId : files[f].contentVV \in VersionVector
    BY <1>1 DEF TypeOK, StoredFile
  <2> QED
    BY <2>1, DominatesPartialOrder
<1>3. CASE [Next]_vars
  BY <1>1, <1>3, NextMonotone
<1>4. CASE files' = files
  BY <1>2, <1>4 DEF MonotoneStep
<1>5. ASSUME NEW d \in Device, NEW c \in DOMAIN conflicts, ResolveShape(d, c)
      PROVE  MonotoneStep
  <2> DEFINE h == conflicts[c].fileId
  <2>1. /\ files'[h].contentVV = ResolutionVV(c, d)
        /\ \A g \in FileId \ {h} : files'[g] = files[g]
    BY <1>1, <1>5, ResolvedFiles
  <2>2. files[h].contentVV = conflicts[c].oursVV
    BY <1>1, <1>5, NamedByItsFile DEF ResolveShape, Holds
  <2>3. Dominates(ResolutionVV(c, d), conflicts[c].oursVV)
    BY <1>1, ResolutionFacts DEF StrictlyDominates
  <2> HIDE DEF h
  <2> QED
    BY <1>2, <2>1, <2>2, <2>3 DEF MonotoneStep
<1> QED
  BY <1>3, <1>4, <1>5, ConflictStepCases, ServiceShapes DEF ClaimShape, ReleaseShape

\* docs/detailed-design.md section 2: no operation and no resolution takes the version
\* of a file back, for any number of devices and conflicts.
THEOREM ResolvedContentMonotone == ConflictSpec => ContentVVMonotone
<1>1. ConflictTypeOK /\ FrozenByItsConflict /\ [ConflictNext]_conflictVars => MonotoneStep
  BY NextServiceMonotone
<1>2. MonotoneStep =>
        \A f \in FileId :
          \/ ~files[f].exists
          \/ Dominates(files'[f].contentVV, files[f].contentVV)
          \/ log'[Len(log')].kind = "create" /\ files[f].deleted
          \/ log'[Len(log')].kind = "restore"
  BY DEF MonotoneStep
<1> QED
  BY <1>1, <1>2, ConflictTypeCorrect, FrozenUntilResolved, PTL
     DEF ConflictSpec, ContentVVMonotone

-----------------------------------------------------------------------------
(***************************************************************************)
(* The two sides of a conflict.                                            *)
(***************************************************************************)

\* A content that no operation accepted later brings: that of an operation in the
\* log, none, or the merge of a resolution.
Settled(entries, content) ==
    \/ \E i \in DOMAIN entries : entries[i].opId = content
    \/ content = 0
    \/ content > MaxOps

SidesInv ==
    /\ Len(issued) <= MaxOps
    /\ \A i \in DOMAIN log : log[i].conflictId <= Len(conflicts)
    /\ \A f \in FileId : Settled(log, files[f].content)
    /\ \A c \in DOMAIN conflicts : Settled(log, conflicts[c].ours)
    /\ ConflictSidesConcurrent

\* The content an accepted operation leaves is the old one or its own; only one
\* that raises a conflict changes the conflicts, and its row names the new one.
LEMMA AcceptContent ==
    ASSUME TypeOK, NEW id \in DOMAIN issued, NEW seq \in Nat \ {0}, Accept(id, seq)
    PROVE  \E row \in StoredFile, c \in Nat :
              /\ Admitted(id, seq)
              /\ Commit(id, seq, row, c)
              /\ row.content \in {files[issued[id].fileId].content, id}
              /\ \/ conflicts' = conflicts /\ c = 0
                 \/ /\ c = Len(conflicts) + 1
                    /\ conflicts' = Append(conflicts, ConflictBetween(issued[id], id))
                    /\ IsConcurrent(NewContentVV(issued[id]),
                                    files[issued[id].fileId].contentVV)
<1> DEFINE op == issued[id]
           old == files[op.fileId]
<1>1. op.fileId \in FileId /\ op.newPath \in Path /\ old \in StoredFile
  BY OperationTypes
<1>2. CASE AcceptCreate(id, seq)
  <2> DEFINE path == UniquePath(op.newPath, op.fileId)
  <2>1. NewStoredFile(op, id, path) \in StoredFile
    <3>1. path \in Path
      BY <1>1, <1>2, UniquePathIsFree DEF AcceptCreate
    <3> QED
      BY <3>1, HandlerRowTypes
  <2>2. NewStoredFile(op, id, path).content = id
    BY DEF NewStoredFile
  <2> QED
    BY <1>2, <2>1, <2>2 DEF AcceptCreate
<1>3. CASE AcceptUpdate(id, seq)
  <2>1. Updated(op, id) \in StoredFile
    BY HandlerRowTypes
  <2>2. Updated(op, id).content = id
    BY <1>1 DEF Updated, StoredFile
  <2> QED
    BY <1>3, <2>1, <2>2 DEF AcceptUpdate
<1>4. CASE RaiseConflict(id, seq)
  <2> DEFINE c == Len(conflicts) + 1
             row == [old EXCEPT !.conflictId = c]
  <2>1. c \in Nat
    BY ConflictsType
  <2>2. row \in StoredFile /\ row.content = old.content
    BY <1>1, <2>1, HandlerRowTypes DEF StoredFile
  <2>3. /\ Admitted(id, seq) /\ Commit(id, seq, row, c)
        /\ conflicts' = Append(conflicts, ConflictBetween(op, id))
        /\ IsConcurrent(NewContentVV(op), old.contentVV)
    BY <1>4 DEF RaiseConflict
  <2> HIDE DEF row
  <2> QED
    BY <2>1, <2>2, <2>3
<1>5. CASE AcceptRename(id, seq)
  <2> DEFINE path == UniquePath(op.newPath, op.fileId)
  <2>1. Renamed(op, path) \in StoredFile
    <3>1. path \in Path
      BY <1>1, <1>5, UniquePathIsFree DEF AcceptRename
    <3> QED
      BY <3>1, HandlerRowTypes
  <2>2. Renamed(op, path).content = old.content
    BY <1>1 DEF Renamed, StoredFile
  <2> QED
    BY <1>5, <2>1, <2>2 DEF AcceptRename
<1>6. CASE AcceptLosingRename(id, seq)
  BY <1>1, <1>6 DEF AcceptLosingRename
<1>7. CASE AcceptDelete(id, seq)
  <2>1. Deleted(op) \in StoredFile
    BY HandlerRowTypes
  <2>2. Deleted(op).content = old.content
    BY <1>1 DEF Deleted, StoredFile
  <2> QED
    BY <1>7, <2>1, <2>2 DEF AcceptDelete
<1>8. CASE AcceptRestore(id, seq)
  <2> DEFINE path == UniquePath(op.newPath, op.fileId)
  <2>1. Restored(op, id, path) \in StoredFile
    <3>1. path \in Path
      BY <1>1, <1>8, UniquePathIsFree DEF AcceptRestore
    <3> QED
      BY <3>1, HandlerRowTypes
  <2>2. Restored(op, id, path).content = id
    BY <1>1 DEF Restored, StoredFile
  <2> QED
    BY <1>8, <2>1, <2>2 DEF AcceptRestore
<1> QED
  BY <1>2, <1>3, <1>4, <1>5, <1>6, <1>7, <1>8 DEF Accept

\* An operation is issued while there are fewer than MaxOps.
LEMMA IssueBounded ==
    ASSUME TypeOK, [Next]_vars, Len(issued) <= MaxOps
    PROVE  Len(issued') <= MaxOps
<1>1. Len(issued) \in Nat /\ MaxOps \in Nat
  BY LenProperties, OpProcessorAssumption DEF TypeOK
<1>2. CASE Issue
  <2>1. Len(issued) < MaxOps
    BY <1>2 DEF Issue, IssueContent, IssueRename, IssueCollab, IssueOp
  <2>2. PICK op \in FileOp : issued' = Append(issued, op)
    BY <1>2, IssueCases DEF IssueStep
  <2>3. Len(issued') = Len(issued) + 1
    BY <2>2, AppendProperties DEF TypeOK
  <2> QED
    BY <1>1, <2>1, <2>3
<1>3. CASE issued' = issued
  BY <1>3
<1>4. CASE \E id \in DOMAIN issued : \E seq \in DeviceSeqs(id) : Process(id, seq)
  <2>1. issued' = issued
    BY <1>4, ProcessCases DEF AnswerStep, CommitStep, Commit
  <2> QED
    BY <1>3, <2>1
<1> QED
  BY <1>2, <1>3, <1>4 DEF Next, Environment, SetStanding, SetActive, vars

LEMMA AcceptSides ==
    ASSUME TypeOK, SidesInv, NEW id \in DOMAIN issued, NEW seq \in Nat \ {0}, Accept(id, seq)
    PROVE  SidesInv'
<1> DEFINE f == issued[id].fileId
           new == ConflictBetween(issued[id], id)
           n == Len(log')
<1>1. PICK row \in StoredFile, c \in Nat :
              /\ Admitted(id, seq)
              /\ Commit(id, seq, row, c)
              /\ row.content \in {files[f].content, id}
              /\ \/ conflicts' = conflicts /\ c = 0
                 \/ /\ c = Len(conflicts) + 1
                    /\ conflicts' = Append(conflicts, new)
                    /\ IsConcurrent(NewContentVV(issued[id]), files[f].contentVV)
  BY AcceptContent
<1>2. /\ \A i \in DOMAIN log : log'[i] = log[i]
      /\ \A i \in DOMAIN log' : i \in DOMAIN log \/ i = n
      /\ n \in DOMAIN log' /\ DOMAIN log \subseteq DOMAIN log'
      /\ log'[n].opId = id /\ log'[n].conflictId = c
      /\ files' = [files EXCEPT ![f] = row] /\ issued' = issued
  BY <1>1, CommitFacts
<1>3. f \in FileId /\ files \in [FileId -> StoredFile] /\ files[f] \in StoredFile
  BY OperationTypes DEF TypeOK
<1>4. files'[f] = row /\ \A g \in FileId \ {f} : files'[g] = files[g]
  BY <1>2, <1>3
<1>5. id \in 1 .. MaxOps /\ ~Settled(log, id)
  <2>1. id \in 1 .. Len(issued) /\ Len(issued) \in Nat /\ MaxOps \in Nat
    BY LenProperties, OpProcessorAssumption DEF TypeOK
  <2>2. Len(issued) <= MaxOps /\ ~Logged(id)
    BY <1>1 DEF SidesInv, Admitted
  <2> QED
    BY <2>1, <2>2 DEF Settled, Logged
<1>6. \A x : Settled(log, x) => Settled(log', x)
  BY <1>2 DEF Settled
<1>7. Settled(log', id)
  BY <1>2 DEF Settled
<1>8. \A i \in DOMAIN log : log[i].conflictId \in Nat
  <2>1. \A i \in DOMAIN log : log[i] \in StoredOp
    BY ElementOfSeq, LenProperties DEF TypeOK
  <2> QED
    BY <2>1 DEF StoredOp
<1> HIDE DEF f, n, Settled
<1>9. \A g \in FileId : Settled(log', files'[g].content)
  <2>1. \A g \in FileId : Settled(log, files[g].content)
    BY DEF SidesInv
  <2>2. files'[f].content = files[f].content \/ files'[f].content = id
    BY <1>1, <1>4
  <2> QED
    BY <1>3, <1>4, <1>6, <1>7, <2>1, <2>2
<1>10. ASSUME NEW k \in DOMAIN conflicts
       PROVE  /\ Settled(log', conflicts[k].ours)
              /\ IsConcurrent(conflicts[k].oursVV, conflicts[k].theirsVV)
              /\ \E i \in DOMAIN log' :
                    log'[i].conflictId = k /\ log'[i].opId = conflicts[k].theirs
              /\ \A i \in DOMAIN log' :
                    log'[i].opId = conflicts[k].ours => log'[i].conflictId < k
  <2>1. /\ Settled(log, conflicts[k].ours)
        /\ IsConcurrent(conflicts[k].oursVV, conflicts[k].theirsVV)
        /\ \E i \in DOMAIN log : log[i].conflictId = k /\ log[i].opId = conflicts[k].theirs
        /\ \A i \in DOMAIN log : log[i].opId = conflicts[k].ours => log[i].conflictId < k
    BY DEF SidesInv, ConflictSidesConcurrent
  <2>2. log'[n].opId # conflicts[k].ours
    BY <1>2, <1>5, <2>1
  <2>3. Settled(log', conflicts[k].ours)
    BY <1>6, <2>1
  <2> QED
    BY <1>2, <2>1, <2>2, <2>3
<1>11. CASE conflicts' = conflicts /\ c = 0
  <2>1. \A i \in DOMAIN log' : log'[i].conflictId <= Len(conflicts')
    BY <1>2, <1>11, ConflictsType DEF SidesInv
  <2>2. Len(issued') <= MaxOps
    BY <1>2 DEF SidesInv
  <2> QED
    BY <1>9, <1>10, <1>11, <2>1, <2>2 DEF SidesInv, ConflictSidesConcurrent
<1>12. CASE /\ c = Len(conflicts) + 1
            /\ conflicts' = Append(conflicts, new)
            /\ IsConcurrent(NewContentVV(issued[id]), files[f].contentVV)
  <2>1. new \in ConflictRecord
    <3>1. /\ files[f].content \in Nat /\ files[f].contentVV \in VersionVector
      BY <1>3 DEF StoredFile
    <3>2. f \in FileId /\ NewContentVV(issued[id]) \in VersionVector
      BY <1>3, OperationTypes
    <3>3. id \in Nat /\ Collab \in Writer /\ "open" \in ConflictStatus
      BY WriterType, LenProperties DEF ConflictStatus, TypeOK
    <3> QED
      BY <3>1, <3>2, <3>3 DEF ConflictBetween, ConflictRecord, f
  <2>2. /\ conflicts' \in Seq(ConflictRecord)
        /\ Len(conflicts') = c
        /\ \A i \in 1 .. Len(conflicts) : conflicts'[i] = conflicts[i]
        /\ conflicts'[c] = new
    BY <1>12, <2>1, AppendProperties DEF TypeOK
  <2>3. /\ Len(conflicts) \in Nat
        /\ DOMAIN conflicts = 1 .. Len(conflicts)
        /\ DOMAIN conflicts' = 1 .. c
    BY <2>2, LenProperties, ConflictsType
  <2>4. /\ new.ours = files[f].content /\ new.oursVV = files[f].contentVV
        /\ new.theirs = id /\ new.theirsVV = NewContentVV(issued[id])
    BY DEF ConflictBetween, f
  <2>5. \A k \in DOMAIN conflicts' :
            k = c \/ (k \in DOMAIN conflicts /\ conflicts'[k] = conflicts[k])
    BY <1>12, <2>2, <2>3
  <2>6. \A i \in DOMAIN log' : log'[i].conflictId <= Len(conflicts')
    BY <1>2, <1>8, <1>12, <2>2, <2>3 DEF SidesInv
  <2>7. Settled(log, files[f].content)
    BY <1>3 DEF SidesInv
  <2>8. /\ Settled(log', new.ours)
        /\ IsConcurrent(new.oursVV, new.theirsVV)
        /\ \E i \in DOMAIN log' : log'[i].conflictId = c /\ log'[i].opId = new.theirs
        /\ \A i \in DOMAIN log' : log'[i].opId = new.ours => log'[i].conflictId < c
    <3>1. Settled(log', new.ours)
      BY <1>6, <2>4, <2>7
    <3>2. IsConcurrent(new.oursVV, new.theirsVV)
      BY <1>12, <2>4 DEF IsConcurrent
    <3>3. log'[n].conflictId = c /\ log'[n].opId = new.theirs
      BY <1>2, <2>4
    <3>4. log'[n].opId # new.ours
      BY <1>2, <1>5, <2>4, <2>7
    <3>5. \A i \in DOMAIN log : log'[i].conflictId < c
      BY <1>2, <1>8, <1>12, <2>3 DEF SidesInv
    <3> QED
      BY <1>2, <3>1, <3>2, <3>3, <3>4, <3>5
  <2>9. Len(issued') <= MaxOps
    BY <1>2 DEF SidesInv
  <2> HIDE DEF new
  <2>10. \A k \in DOMAIN conflicts' :
            /\ Settled(log', conflicts'[k].ours)
            /\ IsConcurrent(conflicts'[k].oursVV, conflicts'[k].theirsVV)
            /\ \E i \in DOMAIN log' :
                   log'[i].conflictId = k /\ log'[i].opId = conflicts'[k].theirs
            /\ \A i \in DOMAIN log' :
                   log'[i].opId = conflicts'[k].ours => log'[i].conflictId < k
    BY <1>10, <2>2, <2>5, <2>8
  <2> QED
    BY <1>9, <2>6, <2>9, <2>10 DEF SidesInv, ConflictSidesConcurrent
<1> QED
  BY <1>1, <1>11, <1>12

\* The content of a resolution is one of the sides or a merge, which are settled; no
\* other step of the service changes content or sides.
LEMMA ServiceSides ==
    ASSUME ConflictTypeOK, SidesInv, ServiceStep
    PROVE  SidesInv'
<1>1. TypeOK
  BY DEF ConflictTypeOK
<1>2. log' = log /\ issued' = issued
  BY ServiceShapes
<1>3. CASE UNCHANGED <<conflicts, files>>
  BY <1>2, <1>3 DEF SidesInv, ConflictSidesConcurrent, Settled
<1>4. ASSUME NEW d \in Device, NEW c \in DOMAIN conflicts,
             ClaimShape(d, c) \/ ReleaseShape(d, c) \/ ResolveShape(d, c)
      PROVE  SidesInv'
  <2>1. \E s \in ConflictStatus, w \in Writer : Rewritten(c, s, w)
    <3>1. /\ "claimed" \in ConflictStatus /\ "open" \in ConflictStatus
          /\ "resolved" \in ConflictStatus /\ d \in Writer /\ Collab \in Writer
      BY WriterType DEF ConflictStatus
    <3>2. \/ Rewritten(c, "claimed", d) \/ Rewritten(c, "open", Collab)
          \/ Rewritten(c, "resolved", d)
      BY <1>4 DEF ClaimShape, ReleaseShape, ResolveShape, Rewritten
    <3> QED
      BY <3>1, <3>2
  <2>2. /\ Len(conflicts') = Len(conflicts)
        /\ DOMAIN conflicts' = DOMAIN conflicts
        /\ \A k \in DOMAIN conflicts :
                 /\ conflicts'[k].ours = conflicts[k].ours
                 /\ conflicts'[k].theirs = conflicts[k].theirs
                 /\ conflicts'[k].oursVV = conflicts[k].oursVV
                 /\ conflicts'[k].theirsVV = conflicts[k].theirsVV
    BY <1>1, <2>1, RewrittenConflict
  <2>3. \A g \in FileId : Settled(log, files'[g].content)
    <3>1. CASE files' = files
      BY <3>1 DEF SidesInv
    <3>2. CASE ResolveShape(d, c)
      <4> DEFINE f == conflicts[c].fileId
      <4>1. /\ files'[f].content \in Resolutions(c)
            /\ \A g \in FileId \ {f} : files'[g] = files[g]
        BY <1>1, <3>2, ResolvedFiles
      <4>2. Settled(log, conflicts[c].ours)
        BY DEF SidesInv
      <4>3. Settled(log, conflicts[c].theirs)
        BY DEF SidesInv, ConflictSidesConcurrent, Settled
      <4>4. MaxOps + c > MaxOps
        BY <1>1, ConflictsType, OpProcessorAssumption
      <4>5. Settled(log, files'[f].content)
        BY <4>1, <4>2, <4>3, <4>4 DEF Resolutions, Settled
      <4> HIDE DEF f
      <4> QED
        BY <4>1, <4>5 DEF SidesInv
    <3> QED
      BY <1>4, <3>1, <3>2 DEF ClaimShape, ReleaseShape
  <2> QED
    BY <1>2, <2>2, <2>3 DEF SidesInv, ConflictSidesConcurrent
<1> QED
  BY <1>3, <1>4, ServiceShapes

LEMMA NextSides ==
    ConflictTypeOK /\ SidesInv /\ [ConflictNext]_conflictVars => SidesInv'
<1> SUFFICES ASSUME ConflictTypeOK, SidesInv, [ConflictNext]_conflictVars
             PROVE  SidesInv'
  OBVIOUS
<1>1. TypeOK
  BY DEF ConflictTypeOK
<1>2. CASE ServiceStep
  BY <1>2, ServiceSides
<1>3. CASE [Next]_vars
  <2>1. Len(issued') <= MaxOps
    BY <1>1, <1>3, IssueBounded DEF SidesInv
  <2>2. CASE AcceptStep
    BY <1>1, <2>2, AcceptSides DEF AcceptStep
  <2>3. CASE LeaseStep
    <3>1. \A f \in FileId : files'[f].content = files[f].content
      BY <1>1, <2>3, LeaseFacts
    <3> QED
      BY <2>1, <2>3, <3>1 DEF LeaseStep, SidesInv, ConflictSidesConcurrent
  <2>4. CASE UNCHANGED <<files, conflicts, log>>
    BY <2>1, <2>4 DEF SidesInv, ConflictSidesConcurrent
  <2> QED
    BY <1>1, <1>3, <2>2, <2>3, <2>4, FileStepCases
<1> QED
  BY <1>2, <1>3, ConflictStepCases

\* docs/spec-core-protocol.md S7: the sides of a conflict are two contents neither of
\* which has seen the other, the second that of the operation that raised it and the
\* first one that came before, for any number of devices, operations and resolutions.
THEOREM SidesConcurrent == ConflictSpec => []ConflictSidesConcurrent
<1>1. ConflictInit => SidesInv
  <2> SUFFICES ASSUME ConflictInit PROVE SidesInv
    OBVIOUS
  <2>1. Len(issued) = 0 /\ DOMAIN log = {} /\ DOMAIN conflicts = {} /\ 0 <= MaxOps
    BY EmptySeq, OpProcessorAssumption DEF ConflictInit, Init
  <2>2. \A f \in FileId : files[f].content = 0
    BY DEF ConflictInit, Init, Absent
  <2> QED
    BY <2>1, <2>2 DEF SidesInv, ConflictSidesConcurrent, Settled
<1>2. SidesInv => ConflictSidesConcurrent
  BY DEF SidesInv
<1> QED
  BY <1>1, <1>2, ConflictTypeCorrect, NextSides, PTL DEF ConflictSpec
==============================================================================
