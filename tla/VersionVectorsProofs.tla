------------------------- MODULE VersionVectorsProofs -------------------------
(***************************************************************************)
(* What the clocks promise, for every set of writers: version vectors are  *)
(* partially ordered, Join is their least upper bound, Bump goes strictly  *)
(* up, and path clocks are totally ordered.                                *)
(***************************************************************************)
EXTENDS VersionVectors, TLAPS

LEMMA EmptyVVType == EmptyVV \in VersionVector
BY DEF EmptyVV, VersionVector

LEMMA BumpType ==
    ASSUME NEW vv \in VersionVector, NEW w \in Writer
    PROVE  Bump(vv, w) \in VersionVector
BY DEF Bump, VersionVector

LEMMA JoinType ==
    ASSUME NEW a \in VersionVector, NEW b \in VersionVector
    PROVE  Join(a, b) \in VersionVector
BY DEF Join, VersionVector

\* clock/version-vector.ts dominates: a partial order on the vectors.
THEOREM DominatesPartialOrder ==
    ASSUME NEW a \in VersionVector, NEW b \in VersionVector, NEW c \in VersionVector
    PROVE  /\ Dominates(a, a)
           /\ Dominates(a, b) /\ Dominates(b, c) => Dominates(a, c)
           /\ Dominates(a, b) /\ Dominates(b, a) => a = b
<1>1. \A w \in Writer : a[w] \in Nat /\ b[w] \in Nat /\ c[w] \in Nat
  BY DEF VersionVector
<1>2. Dominates(a, a)
  <2>1. ASSUME NEW w \in Writer
        PROVE  a[w] >= a[w]
    BY <1>1
  <2> QED
    BY <2>1 DEF Dominates
<1>3. ASSUME Dominates(a, b), Dominates(b, c)
      PROVE  Dominates(a, c)
  <2>1. ASSUME NEW w \in Writer
        PROVE  a[w] >= c[w]
    <3>1. a[w] >= b[w] /\ b[w] >= c[w]
      BY <1>3 DEF Dominates
    <3> QED
      BY <1>1, <3>1
  <2> QED
    BY <2>1 DEF Dominates
<1>4. ASSUME Dominates(a, b), Dominates(b, a)
      PROVE  a = b
  <2>1. ASSUME NEW w \in Writer
        PROVE  a[w] = b[w]
    <3>1. a[w] >= b[w] /\ b[w] >= a[w]
      BY <1>4 DEF Dominates
    <3> QED
      BY <1>1, <3>1
  <2> QED
    BY <2>1 DEF VersionVector
<1> QED
  BY <1>2, <1>3, <1>4

\* clock/version-vector.ts join: the least vector that dominates both.
THEOREM JoinIsLeastUpperBound ==
    ASSUME NEW a \in VersionVector, NEW b \in VersionVector
    PROVE  /\ Dominates(Join(a, b), a)
           /\ Dominates(Join(a, b), b)
           /\ \A c \in VersionVector :
                 Dominates(c, a) /\ Dominates(c, b) => Dominates(c, Join(a, b))
BY DEF Dominates, Join, VersionVector

\* clock/version-vector.ts bump: strictly above, and concurrent with nothing below.
THEOREM BumpStrictlyDominates ==
    ASSUME NEW a \in VersionVector, NEW w \in Writer
    PROVE  StrictlyDominates(Bump(a, w), a)
BY DEF StrictlyDominates, Dominates, Bump, VersionVector

\* engine/conflict.ts:82: the version of a resolution, join of both sides and of
\* what the resolver sends, bumped by the resolver, is strictly above both sides,
\* so the content it brings is concurrent with neither.
THEOREM ResolutionDominatesBothSides ==
    ASSUME NEW ours \in VersionVector, NEW theirs \in VersionVector,
           NEW sent \in VersionVector, NEW w \in Writer
    PROVE  LET vv == Bump(Join(Join(ours, theirs), sent), w)
           IN  StrictlyDominates(vv, ours) /\ StrictlyDominates(vv, theirs)
<1> DEFINE sides == Join(ours, theirs)
           all == Join(sides, sent)
           vv == Bump(all, w)
<1>1. /\ sides \in VersionVector
      /\ all \in VersionVector
      /\ vv \in VersionVector
  BY JoinType, BumpType
<1>2. Dominates(all, ours) /\ Dominates(all, theirs)
  <2>1. Dominates(sides, ours) /\ Dominates(sides, theirs)
    BY JoinIsLeastUpperBound
  <2>2. Dominates(all, sides)
    BY <1>1, JoinIsLeastUpperBound
  <2> QED
    BY <1>1, <2>1, <2>2, DominatesPartialOrder
<1>3. StrictlyDominates(vv, all)
  BY <1>1, BumpStrictlyDominates
<1>4. ASSUME NEW x \in VersionVector, Dominates(all, x)
      PROVE  StrictlyDominates(vv, x)
  <2>1. Dominates(vv, x)
    BY <1>1, <1>3, <1>4, DominatesPartialOrder DEF StrictlyDominates
  <2>2. ~Dominates(x, vv)
    BY <1>1, <1>3, <1>4, DominatesPartialOrder DEF StrictlyDominates
  <2> QED
    BY <2>1, <2>2 DEF StrictlyDominates
<1> QED
  BY <1>2, <1>4

\* clock/lamport.ts comparePathClock: two path clocks are equal or exactly one
\* wins, so renames have the same winner on every replica.
THEOREM PathClockWinsTotalOrder ==
    ASSUME NEW a \in PathClock, NEW b \in PathClock, NEW c \in PathClock
    PROVE  /\ ~PathClockWins(a, a)
           /\ PathClockWins(a, b) => ~PathClockWins(b, a)
           /\ PathClockWins(a, b) /\ PathClockWins(b, c) => PathClockWins(a, c)
           /\ a = b \/ PathClockWins(a, b) \/ PathClockWins(b, a)
<1>1. /\ a.lamport \in Nat /\ b.lamport \in Nat /\ c.lamport \in Nat
      /\ a.deviceId \in Nat /\ b.deviceId \in Nat /\ c.deviceId \in Nat
  BY WriterAssumption DEF PathClock
<1>2. a.lamport = b.lamport /\ a.deviceId = b.deviceId => a = b
  BY DEF PathClock
<1> QED
  BY <1>1, <1>2 DEF PathClockWins
===============================================================================
