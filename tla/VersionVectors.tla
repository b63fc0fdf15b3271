--------------------------- MODULE VersionVectors ---------------------------
(***************************************************************************)
(* The clocks of packages/shared/src/clock: version vectors order the      *)
(* versions of a file's content by causality, path clocks order renames    *)
(* by "last writer wins".                                                  *)
(*                                                                         *)
(* The code keeps a version vector as a sparse map and reads an absent     *)
(* entry as 0, so a vector is a total function here.  Device identifiers   *)
(* are compared as strings; a writer is a natural number, whose order is   *)
(* the order of the strings.                                               *)
(***************************************************************************)
EXTENDS Integers

\* Everybody who may bump a counter: the devices of the vault and the
\* synthetic writer collab:<fileId> of the file at hand.
CONSTANT Writer

ASSUME WriterAssumption == Writer \subseteq Nat

VersionVector == [Writer -> Nat]

EmptyVV == [w \in Writer |-> 0]

Bump(vv, w) == [vv EXCEPT ![w] = @ + 1]

Join(a, b) == [w \in Writer |-> IF b[w] > a[w] THEN b[w] ELSE a[w]]

Dominates(a, b) == \A w \in Writer : a[w] >= b[w]

StrictlyDominates(a, b) == Dominates(a, b) /\ ~Dominates(b, a)

IsConcurrent(a, b) == ~Dominates(a, b) /\ ~Dominates(b, a)

-----------------------------------------------------------------------------
PathClock == [lamport : Nat, deviceId : Writer]

MakePathClock(lamport, w) == [lamport |-> lamport, deviceId |-> w]

\* Mutant of PathClockWins: a tie in lamport is not broken.
PathClockWinsNoTieBreak(candidate, current) ==
    candidate.lamport > current.lamport

PathClockWins(candidate, current) ==
    \/ candidate.lamport > current.lamport
    \/ /\ candidate.lamport = current.lamport
       /\ candidate.deviceId > current.deviceId

ObserveLamport(observedMax, incoming) ==
    IF incoming.lamport > observedMax THEN incoming.lamport ELSE observedMax

NextLamport(observedMax) == observedMax + 1
=============================================================================
