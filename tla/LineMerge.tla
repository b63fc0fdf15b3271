------------------------------ MODULE LineMerge ------------------------------
(***************************************************************************)
(* threeWayMerge of apps/plugin/src/sync/yjs-session.ts: what becomes of a *)
(* note that has changed in a session and in the log since both agreed.    *)
(* A text is the sequence of its lines, of which there is always one.      *)
(***************************************************************************)
EXTENDS Integers, SequencesExt

CONSTANTS
    OurLine, TheirLine,  \* the lines of the two sides, as natural numbers
    MaxLines             \* bound: lines of a text

ASSUME LineMergeAssumption == (OurLine \cup TheirLine) \subseteq Nat /\ MaxLines \in Nat \ {0}

VARIABLES
    sides,   \* [base, ours, theirs]
    merged   \* the result, or none yet

mergeVars == <<sides, merged>>

\* The markers around what is left to the user.
LocalMark == -1
Divider == -2
ServerMark == -3

-----------------------------------------------------------------------------
\* The length of a longest common subsequence of a from i and b from j.
Common(a, b) ==
    LET common[i \in 1 .. Len(a) + 1, j \in 1 .. Len(b) + 1] ==
            IF i > Len(a) \/ j > Len(b) THEN 0
            ELSE IF a[i] = b[j] THEN common[i + 1, j + 1] + 1
            ELSE IF common[i + 1, j] >= common[i, j + 1] THEN common[i + 1, j]
            ELSE common[i, j + 1]
    IN  common

\* Mutant of Matching: a line is matched with its first copy behind.
FirstMatching(a, b) ==
    LET pairs == {<<i, j>> \in (DOMAIN a) \X (DOMAIN b) : a[i] = b[j]}
    IN  {p \in pairs : \A q \in pairs : q[1] = p[1] => q[2] >= p[2]}

\* lcsPairs.
Matching(a, b) ==
    LET pairs[i \in 1 .. Len(a) + 1, j \in 1 .. Len(b) + 1] ==
            IF i > Len(a) \/ j > Len(b) THEN {}
            ELSE IF a[i] = b[j] THEN {<<i, j>>} \cup pairs[i + 1, j + 1]
            ELSE IF Common(a, b)[i + 1, j] >= Common(a, b)[i, j + 1] THEN pairs[i + 1, j]
            ELSE pairs[i, j + 1]
    IN  pairs[1, 1]

\* The base lines that both sides have kept, each with its places, and the two ends.
Anchors(s) ==
    LET ours == Matching(s.base, s.ours)
        theirs == Matching(s.base, s.theirs)
        kept == {a \in (DOMAIN s.base) \X (DOMAIN s.ours) \X (DOMAIN s.theirs) :
                   <<a[1], a[2]>> \in ours /\ <<a[1], a[3]>> \in theirs}
    IN  <<<<0, 0, 0>>>> \o SetToSortSeq(kept, LAMBDA a, b : a[1] < b[1])
          \o <<<<Len(s.base) + 1, Len(s.ours) + 1, Len(s.theirs) + 1>>>>

\* Mutant of Settled: where both sides have changed the first one wins.
SettledOurs(base, ours, theirs) ==
    [lines |-> IF ours = base THEN theirs ELSE ours, conflict |-> FALSE]

\* emit: what becomes of the lines between two anchors.
Settled(base, ours, theirs) ==
    IF ours = theirs \/ theirs = base THEN [lines |-> ours, conflict |-> FALSE]
    ELSE IF ours = base THEN [lines |-> theirs, conflict |-> FALSE]
    ELSE [lines |-> <<LocalMark>> \o ours \o <<Divider>> \o theirs \o <<ServerMark>>,
          conflict |-> TRUE]

ThreeWayMerge(s) ==
    LET anchors == Anchors(s)
        Between(text, k, side) == SubSeq(text, anchors[k][side] + 1, anchors[k + 1][side] - 1)
        pieces == [k \in 1 .. Len(anchors) - 1 |->
                     Settled(Between(s.base, k, 1), Between(s.ours, k, 2), Between(s.theirs, k, 3))]
        Kept(k) == IF k = Len(pieces) THEN <<>> ELSE <<s.base[anchors[k + 1][1]]>>
    IN  [text |-> FlattenSeq([k \in DOMAIN pieces |-> pieces[k].lines \o Kept(k)]),
         conflict |-> \E k \in DOMAIN pieces : pieces[k].conflict]

-----------------------------------------------------------------------------
TextOf(lines) == UNION {[1 .. n -> lines] : n \in 1 .. MaxLines}

NotMerged == [text |-> <<>>, conflict |-> FALSE]

\* The lines of the base are numbered in the order in which they come.
Numbered(text) == \A i \in DOMAIN text : text[i] <= 1 \/ \E j \in 1 .. i - 1 : text[j] = text[i] - 1

MergeInit ==
    /\ sides \in [base : {t \in TextOf(OurLine \cap TheirLine) : Numbered(t)},
                  ours : TextOf(OurLine), theirs : TextOf(TheirLine)]
    /\ merged = NotMerged

Merge ==
    /\ merged = NotMerged
    /\ merged' = ThreeWayMerge(sides)
    /\ UNCHANGED sides

MergeSpec == MergeInit /\ [][Merge]_mergeVars
-----------------------------------------------------------------------------
(***************************************************************************)
(* Properties.                                                             *)
(***************************************************************************)
Picked(text, lines) == SelectSeq(text, LAMBDA line : line \in lines)

\* The lines that a side alone has written.
OwnLines(side, other) == ToSet(sides[side]) \ (ToSet(sides.base) \cup ToSet(sides[other]))

HasMerged == merged # NotMerged

\* yjs-session.ts:404: what either side has written is never dropped, nor doubled, nor
\* put into another order, within conflict markers or without.
NothingWrittenIsLost ==
    HasMerged => \A p \in {<<"ours", "theirs">>, <<"theirs", "ours">>} :
                Picked(merged.text, OwnLines(p[1], p[2])) = Picked(sides[p[1]], OwnLines(p[1], p[2]))

\* A side that has not changed leaves the text to the other; and what one side has only
\* inserted keeps nothing of what the other has changed from happening.
OneSidedChangesApply ==
    HasMerged => \A p \in {<<"ours", "theirs">>, <<"theirs", "ours">>} :
                LET mine == sides[p[1]]
                    new == OwnLines(p[1], p[2])
                IN  /\ mine = sides.base => merged = [text |-> sides[p[2]], conflict |-> FALSE]
                    /\ (~merged.conflict /\ Picked(mine, ToSet(mine) \ new) = sides.base)
                         => Picked(merged.text, ToSet(merged.text) \ new) = sides[p[2]]

\* Two devices that merge the same change from either side come to the same text, or
\* both are asked.
MergeIsFair ==
    HasMerged => LET other == ThreeWayMerge([base |-> sides.base, ours |-> sides.theirs,
                                        theirs |-> sides.ours])
            IN  merged.conflict = other.conflict /\ (merged.conflict \/ merged.text = other.text)

\* The merge does justice to either side.
MergeDoesJustice == OneSidedChangesApply /\ MergeIsFair
=============================================================================
