----------------------------- MODULE PartsProofs -----------------------------
(***************************************************************************)
(* The safety properties of parts that stand by themselves, for every      *)
(* value of their bounds: the index file, the tokens, the lockout of       *)
(* logins, the message window, the uploads of a blob, the watcher of the   *)
(* vault, forced runs.                                                     *)
(***************************************************************************)
EXTENDS IndexFile, Tokens, Limits, Blobs, Watcher, ForceSync, SequenceTheorems,
        FiniteSetTheorems, WellFoundedInduction, TLAPS

-----------------------------------------------------------------------------
(***************************************************************************)
(* The index file.                                                         *)
(***************************************************************************)
\* How far a save has come whose next call this is.
Stage(c) ==
    CASE c.call = "writeNext" -> 1 [] c.call = "rename" -> 2
      [] c.call = "write" -> 3 [] c.call = "remove" -> 4

AdapterCall == [call : {"writeNext", "rename", "write", "remove"}, of : 1 .. MaxSaves]

IndexTypeOK ==
    /\ snapshot \in 0 .. MaxSaves /\ calls \in Seq(AdapterCall)
    /\ next \in 0 .. MaxSaves /\ file \in 0 .. Torn
    /\ loaded \in BOOLEAN /\ returned \in 0 .. MaxSaves

\* What has not returned is newer than what has.
Numbered ==
    \A i \in 1 .. Len(calls) : returned < calls[i].of /\ calls[i].of <= snapshot

\* An older save has come as far as a newer one, and farther if it is behind it.
OlderAhead ==
    \A i, j \in 1 .. Len(calls) : i < j =>
        \/ calls[i].of < calls[j].of /\ Stage(calls[i]) >= Stage(calls[j])
        \/ calls[i].of > calls[j].of /\ Stage(calls[i]) < Stage(calls[j])

\* What the calls that are made have left in the index file and in .next.
MadeBy(c, inFile, inNext) ==
    /\ Stage(c) >= 3 => inFile # NoFile
    /\ Stage(c) = 4 => inFile >= c.of
    /\ Stage(c) = 2 /\ inFile = NoFile => inNext >= c.of

CallsMade == \A i \in 1 .. Len(calls) : MadeBy(calls[i], file, next)

IndexInv ==
    /\ IndexTypeOK /\ Numbered /\ OlderAhead /\ CallsMade
    /\ file >= returned
    /\ file = Torn => ~loaded
    /\ ~loaded => calls = <<>>
    /\ loaded => snapshot >= returned

LEMMA TailOf ==
    ASSUME NEW S, NEW q \in Seq(S), q # <<>>
    PROVE  /\ Tail(q) \in Seq(S) /\ Len(Tail(q)) = Len(q) - 1
           /\ Len(q) \in Nat \ {0} /\ Head(q) = q[1]
           /\ \A i \in 1 .. Len(q) : q[i] \in S
           /\ \A i \in 1 .. Len(q) - 1 : i + 1 \in 1 .. Len(q) /\ Tail(q)[i] = q[i + 1]
<1>1. Len(q) \in Nat /\ Len(q) # 0 /\ Len(q) > 0
  BY EmptySeq, LenProperties
<1>2. Tail(q) \in Seq(S) /\ Len(Tail(q)) = Len(q) - 1
  BY <1>1, HeadTailProperties
<1>3. \A i \in 1 .. Len(q) : q[i] \in S
  BY ElementOfSeq
<1>4. \A i \in 1 .. Len(q) - 1 : Tail(q)[i] = q[i + 1]
  BY <1>1, <1>2, HeadTailProperties
<1>5. \A i \in 1 .. Len(q) - 1 : i + 1 \in 1 .. Len(q)
  BY <1>1
<1>6. Head(q) = q[1]
  BY <1>1
<1> QED
  BY <1>1, <1>2, <1>3, <1>4, <1>5, <1>6

\* A call is answered with the next one of its save.
LEMMA Rotated ==
    ASSUME NEW S, NEW q \in Seq(S), q # <<>>, NEW e \in S
    PROVE  /\ Append(Tail(q), e) \in Seq(S) /\ Len(Append(Tail(q), e)) = Len(q)
           /\ \A i \in 1 .. Len(q) :
                 \/ Append(Tail(q), e)[i] = e /\ i = Len(q)
                 \/ i + 1 \in 1 .. Len(q) /\ Append(Tail(q), e)[i] = q[i + 1]
<1> DEFINE n == Len(q)
           u == Tail(q)
           r == Append(u, e)
<1>1. n \in Nat \ {0} /\ u \in Seq(S) /\ Len(u) = n - 1
  BY TailOf
<1>2. \A i \in 1 .. n - 1 : u[i] = q[i + 1]
  BY TailOf
<1> HIDE DEF n, u
<1>3. r \in Seq(S) /\ Len(r) = Len(u) + 1
  BY <1>1, AppendProperties
<1>4. (\A i \in 1 .. Len(u) : r[i] = u[i]) /\ r[Len(u) + 1] = e
  BY <1>1, AppendProperties
<1> HIDE DEF r
<1>5. ASSUME NEW i \in 1 .. n
      PROVE  (r[i] = e /\ i = n) \/ (i + 1 \in 1 .. n /\ r[i] = q[i + 1])
  <2>1. i = n \/ (i \in 1 .. n - 1 /\ i + 1 \in 1 .. n)
    BY <1>1
  <2>2. Len(u) + 1 = n /\ 1 .. Len(u) = 1 .. n - 1
    BY <1>1
  <2>3. (\A k \in 1 .. n - 1 : r[k] = u[k]) /\ r[n] = e
    BY <1>4, <2>2
  <2>4. CASE i = n
    BY <2>3, <2>4
  <2>5. CASE i \in 1 .. n - 1 /\ i + 1 \in 1 .. n
    <3>1. r[i] = u[i] /\ u[i] = q[i + 1]
      BY <1>2, <2>3, <2>5, Zenon
    <3> QED
      BY <2>5, <3>1, Zenon
  <2> QED
    BY <2>1, <2>4, <2>5, Zenon
<1>6. Len(r) = n
  BY <1>1, <1>3
<1> QED
  BY <1>3, <1>5, <1>6 DEF r, u, n

LEMMA StageValues ==
    ASSUME NEW c \in AdapterCall
    PROVE  /\ Stage(c) \in 1 .. 4 /\ c.of \in Nat /\ c.of \in 1 .. MaxSaves
           /\ c.call = "writeNext" => Stage(c) = 1
           /\ c.call = "rename" => Stage(c) = 2
           /\ c.call = "write" => Stage(c) = 3
           /\ c.call = "remove" => Stage(c) = 4
<1>1. c.of \in 1 .. MaxSaves /\ c.of \in Nat
  BY IndexFileAssumption DEF AdapterCall
<1>2. c.call \in {"writeNext", "rename", "write", "remove"}
  BY DEF AdapterCall
<1> QED
  BY <1>1, <1>2 DEF Stage

\* The queue after the call at its head is answered with e.
AnsweredWith(e) ==
    /\ calls' \in Seq(AdapterCall) /\ Len(calls') = Len(calls)
    /\ \A i \in 1 .. Len(calls) :
          \/ calls'[i] = e /\ i = Len(calls)
          \/ i + 1 \in 1 .. Len(calls) /\ calls'[i] = calls[i + 1]

\* The queue after the save at its head has returned.
LeftBySave ==
    /\ calls' \in Seq(AdapterCall) /\ Len(calls') = Len(calls) - 1
    /\ \A i \in 1 .. Len(calls') :
          i + 1 \in 1 .. Len(calls) /\ calls'[i] = calls[i + 1]

LEMMA QueueHead ==
    ASSUME IndexTypeOK, calls # <<>>
    PROVE  /\ Len(calls) \in Nat \ {0} /\ Call = calls[1] /\ 1 \in 1 .. Len(calls)
           /\ Call \in AdapterCall
           /\ \A i \in 1 .. Len(calls) :
                 /\ calls[i] \in AdapterCall /\ Stage(calls[i]) \in 1 .. 4
                 /\ calls[i].of \in Nat /\ calls[i].of \in 1 .. MaxSaves
<1>1. calls \in Seq(AdapterCall)
  BY DEF IndexTypeOK
<1>2. Len(calls) \in Nat \ {0}
  BY <1>1, TailOf
<1>3. Call = calls[1]
  BY <1>1, TailOf DEF Call
<1>4. \A i \in 1 .. Len(calls) : calls[i] \in AdapterCall
  BY <1>1, TailOf
<1>5. 1 \in 1 .. Len(calls)
  BY <1>2
<1> QED
  BY <1>2, <1>3, <1>4, <1>5, StageValues

LEMMA ThenAnswers ==
    ASSUME IndexTypeOK, calls # <<>>, NEW name, Then(name),
           name \in {"writeNext", "rename", "write", "remove"}
    PROVE  /\ AnsweredWith([call |-> name, of |-> Call.of])
           /\ [call |-> name, of |-> Call.of] \in AdapterCall
<1> DEFINE e == [call |-> name, of |-> Call.of]
<1>1. calls \in Seq(AdapterCall)
  BY DEF IndexTypeOK
<1>2. Call.of \in 1 .. MaxSaves
  BY QueueHead DEF AdapterCall
<1>3. e \in AdapterCall
  BY <1>2 DEF AdapterCall
<1>4. calls' = Append(Tail(calls), e)
  BY DEF Then
<1> HIDE DEF e
<1>5. AnsweredWith(e)
  BY <1>1, <1>3, <1>4, Rotated DEF AnsweredWith
<1> QED
  BY <1>3, <1>5 DEF e

LEMMA TailLeaves ==
    ASSUME IndexTypeOK, calls # <<>>, calls' = Tail(calls)
    PROVE  LeftBySave
<1>1. calls \in Seq(AdapterCall)
  BY DEF IndexTypeOK
<1>2. calls' \in Seq(AdapterCall) /\ Len(calls') = Len(calls) - 1
  BY <1>1, TailOf
<1>3. \A i \in 1 .. Len(calls) - 1 : i + 1 \in 1 .. Len(calls) /\ Tail(calls)[i] = calls[i + 1]
  BY <1>1, TailOf
<1> QED
  BY <1>2, <1>3, Zenon DEF LeftBySave

\* It stays in order when the next call is one stage on.
LEMMA AnswerKeepsOrder ==
    ASSUME IndexTypeOK, Numbered, OlderAhead, calls # <<>>,
           NEW e \in AdapterCall, e.of = Call.of, Stage(e) = Stage(Call) + 1,
           AnsweredWith(e), UNCHANGED <<snapshot, returned>>
    PROVE  Numbered' /\ OlderAhead'
<1>1. Len(calls') = Len(calls)
  BY DEF AnsweredWith
<1>2. /\ Len(calls) \in Nat \ {0} /\ Call = calls[1] /\ 1 \in 1 .. Len(calls)
      /\ \A i \in 1 .. Len(calls) : Stage(calls[i]) \in 1 .. 4 /\ calls[i].of \in Nat
  BY QueueHead
<1>3. \A i \in 1 .. Len(calls) :
         \/ calls'[i] = e /\ i = Len(calls)
         \/ i + 1 \in 1 .. Len(calls) /\ calls'[i] = calls[i + 1]
  BY DEF AnsweredWith
<1>4. Numbered'
  BY <1>1, <1>2, <1>3 DEF Numbered
<1>5. ASSUME NEW i \in 1 .. Len(calls), NEW j \in 1 .. Len(calls), i < j
      PROVE  \/ calls'[i].of < calls'[j].of /\ Stage(calls'[i]) >= Stage(calls'[j])
             \/ calls'[i].of > calls'[j].of /\ Stage(calls'[i]) < Stage(calls'[j])
  <2>1. i + 1 \in 1 .. Len(calls) /\ calls'[i] = calls[i + 1]
    BY <1>2, <1>3, <1>5
  <2>2. CASE calls'[j] = e
    <3>1. \/ calls[1].of < calls[i + 1].of /\ Stage(calls[1]) >= Stage(calls[i + 1])
          \/ calls[1].of > calls[i + 1].of /\ Stage(calls[1]) < Stage(calls[i + 1])
      BY <1>2, <2>1 DEF OlderAhead
    <3> QED
      BY <1>2, <2>1, <2>2, <3>1
  <2>3. CASE j + 1 \in 1 .. Len(calls) /\ calls'[j] = calls[j + 1]
    <3>1. i + 1 < j + 1
      BY <1>2, <1>5
    <3> QED
      BY <2>1, <2>3, <3>1 DEF OlderAhead
  <2> QED
    BY <1>3, <2>2, <2>3
<1>6. OlderAhead'
  BY <1>1, <1>5 DEF OlderAhead
<1> QED
  BY <1>4, <1>6

\* The one at the head is the oldest of those that have come as far, so that what is
\* left when it returns is newer.
LEMMA ReturnKeepsOrder ==
    ASSUME IndexTypeOK, Numbered, OlderAhead, calls # <<>>, LeftBySave,
           NowReturned, UNCHANGED snapshot,
           \A i \in 1 .. Len(calls) : Stage(calls[i]) <= Stage(Call)
    PROVE  Numbered' /\ OlderAhead' /\ returned' = Call.of
<1>1. returned \in Nat
  BY IndexFileAssumption DEF IndexTypeOK
<1>2. /\ Len(calls) \in Nat \ {0} /\ Call = calls[1] /\ 1 \in 1 .. Len(calls)
      /\ \A i \in 1 .. Len(calls) : Stage(calls[i]) \in 1 .. 4 /\ calls[i].of \in Nat
  BY QueueHead
<1>3. /\ Len(calls') = Len(calls) - 1
      /\ \A i \in 1 .. Len(calls') :
            i + 1 \in 1 .. Len(calls) /\ calls'[i] = calls[i + 1]
  BY DEF LeftBySave
<1>4. returned' = Call.of
  BY <1>1, <1>2 DEF NowReturned, Numbered
<1>5. ASSUME NEW i \in 1 .. Len(calls), 1 < i
      PROVE  Call.of < calls[i].of
  <2>1. \/ calls[1].of < calls[i].of /\ Stage(calls[1]) >= Stage(calls[i])
        \/ calls[1].of > calls[i].of /\ Stage(calls[1]) < Stage(calls[i])
    BY <1>2, <1>5 DEF OlderAhead
  <2> QED
    BY <1>2, <2>1
<1>6. Numbered'
  <2>1. ASSUME NEW i \in 1 .. Len(calls')
        PROVE  returned' < calls'[i].of /\ calls'[i].of <= snapshot'
    <3>1. i + 1 \in 1 .. Len(calls) /\ calls'[i] = calls[i + 1] /\ 1 < i + 1
      BY <1>2, <1>3
    <3> QED
      BY <1>4, <1>5, <3>1 DEF Numbered
  <2> QED
    BY <2>1 DEF Numbered
<1>7. OlderAhead'
  <2>1. ASSUME NEW i \in 1 .. Len(calls'), NEW j \in 1 .. Len(calls'), i < j
        PROVE  \/ calls'[i].of < calls'[j].of /\ Stage(calls'[i]) >= Stage(calls'[j])
               \/ calls'[i].of > calls'[j].of /\ Stage(calls'[i]) < Stage(calls'[j])
    <3>1. i + 1 < j + 1
      BY <1>2, <1>3, <2>1
    <3>2. /\ i + 1 \in 1 .. Len(calls) /\ calls'[i] = calls[i + 1]
          /\ j + 1 \in 1 .. Len(calls) /\ calls'[j] = calls[j + 1]
      BY <1>3
    <3> QED
      BY <3>1, <3>2 DEF OlderAhead
  <2> QED
    BY <2>1 DEF OlderAhead
<1> QED
  BY <1>4, <1>6, <1>7

\* How the save at the head and another compare.
LEMMA HeadAndOther ==
    ASSUME IndexTypeOK, OlderAhead, calls # <<>>, NEW i \in 1 .. Len(calls)
    PROVE  \/ calls[i] = Call
           \/ Call.of < calls[i].of /\ Stage(Call) >= Stage(calls[i])
           \/ Call.of > calls[i].of /\ Stage(Call) < Stage(calls[i])
BY QueueHead DEF OlderAhead

\* After an answer, a call is one that was there before or the answer itself.
LEMMA MadeAfterAnswer ==
    ASSUME NEW e, AnsweredWith(e), MadeBy(e, file', next'),
           \A i \in 1 .. Len(calls) : MadeBy(calls[i], file', next')
    PROVE  CallsMade'
<1>1. Len(calls') = Len(calls)
  BY DEF AnsweredWith
<1>2. \A i \in 1 .. Len(calls) : MadeBy(calls'[i], file', next')
  BY DEF AnsweredWith
<1> QED
  BY <1>1, <1>2 DEF CallsMade

LEMMA MadeAfterReturn ==
    ASSUME LeftBySave, \A i \in 1 .. Len(calls) : MadeBy(calls[i], file', next')
    PROVE  CallsMade'
BY DEF LeftBySave, CallsMade

LEMMA WriteNextKeeps ==
    ASSUME IndexInv, WriteNext
    PROVE  IndexInv'
<1> DEFINE e == [call |-> "rename", of |-> Call.of]
<1>1. IndexTypeOK /\ Numbered /\ OlderAhead /\ CallsMade /\ calls # <<>>
  BY DEF IndexInv, WriteNext
<1>2. AnsweredWith(e) /\ e \in AdapterCall
  BY <1>1, ThenAnswers DEF WriteNext
<1>3. Call \in AdapterCall /\ Stage(Call) = 1 /\ Stage(e) = 2 /\ e.of = Call.of
  BY <1>1, QueueHead DEF WriteNext, Stage
<1>4. Numbered' /\ OlderAhead'
  <2> HIDE DEF e
  <2> QED
    BY <1>1, <1>2, <1>3, AnswerKeepsOrder DEF WriteNext
<1>5. next' = Call.of /\ UNCHANGED <<snapshot, file, loaded, returned>>
  BY DEF WriteNext
<1>6. ASSUME NEW i \in 1 .. Len(calls)
      PROVE  MadeBy(calls[i], file', next')
  <2>1. /\ calls[i] \in AdapterCall /\ Stage(calls[i]) \in 1 .. 4 /\ calls[i].of \in Nat
        /\ Call.of \in Nat
    BY <1>1, QueueHead
  <2>2. \/ calls[i] = Call
        \/ Call.of < calls[i].of /\ Stage(Call) >= Stage(calls[i])
        \/ Call.of > calls[i].of /\ Stage(Call) < Stage(calls[i])
    BY <1>1, HeadAndOther
  <2>3. MadeBy(calls[i], file, next)
    BY <1>1 DEF CallsMade
  <2> QED
    BY <1>3, <1>5, <2>1, <2>2, <2>3 DEF MadeBy
<1>7. MadeBy(e, file', next')
  BY <1>1, <1>3, <1>5, QueueHead DEF MadeBy
<1>8. CallsMade'
  <2> HIDE DEF e
  <2> QED
    BY <1>2, <1>6, <1>7, MadeAfterAnswer
<1>9. calls' \in Seq(AdapterCall) /\ next' \in 0 .. MaxSaves
  BY <1>1, <1>2, <1>5, QueueHead DEF AnsweredWith
<1>10. loaded
  BY <1>1 DEF IndexInv
<1> QED
  BY <1>1, <1>4, <1>5, <1>8, <1>9, <1>10 DEF IndexInv, IndexTypeOK

LEMMA WriteFileKeeps ==
    ASSUME IndexInv, WriteFile
    PROVE  IndexInv'
<1> DEFINE e == [call |-> "remove", of |-> Call.of]
<1>1. IndexTypeOK /\ Numbered /\ OlderAhead /\ CallsMade /\ calls # <<>>
  BY DEF IndexInv, WriteFile
<1>2. AnsweredWith(e) /\ e \in AdapterCall
  BY <1>1, ThenAnswers DEF WriteFile
<1>3. Call \in AdapterCall /\ Stage(Call) = 3 /\ Stage(e) = 4 /\ e.of = Call.of
  BY <1>1, QueueHead DEF WriteFile, Stage
<1>4. Numbered' /\ OlderAhead'
  <2> HIDE DEF e
  <2> QED
    BY <1>1, <1>2, <1>3, AnswerKeepsOrder DEF WriteFile
<1>5. file' = Call.of /\ UNCHANGED <<snapshot, next, loaded, returned>>
  BY DEF WriteFile
<1>6. Call.of \in 1 .. MaxSaves /\ Call.of \in Nat /\ returned < Call.of
  BY <1>1, QueueHead DEF Numbered
<1>7. ASSUME NEW i \in 1 .. Len(calls)
      PROVE  MadeBy(calls[i], file', next')
  <2>1. Stage(calls[i]) \in 1 .. 4 /\ calls[i].of \in Nat
    BY <1>1, QueueHead
  <2>2. \/ calls[i] = Call
        \/ Call.of < calls[i].of /\ Stage(Call) >= Stage(calls[i])
        \/ Call.of > calls[i].of /\ Stage(Call) < Stage(calls[i])
    BY <1>1, HeadAndOther
  <2> QED
    BY <1>3, <1>5, <1>6, <2>1, <2>2 DEF MadeBy, NoFile
<1>8. MadeBy(e, file', next')
  BY <1>3, <1>5, <1>6 DEF MadeBy, NoFile
<1>9. CallsMade'
  <2> HIDE DEF e
  <2> QED
    BY <1>2, <1>7, <1>8, MadeAfterAnswer
<1>10. calls' \in Seq(AdapterCall)
  BY <1>2 DEF AnsweredWith
<1>11. loaded /\ MaxSaves \in Nat /\ returned \in Nat
  BY <1>1, IndexFileAssumption DEF IndexInv, IndexTypeOK
<1>12. IndexTypeOK'
  BY <1>1, <1>5, <1>6, <1>10, <1>11 DEF IndexTypeOK, Torn
<1> QED
  BY <1>4, <1>5, <1>6, <1>9, <1>11, <1>12 DEF IndexInv, Torn

LEMMA RenameNextKeeps ==
    ASSUME IndexInv, RenameNext
    PROVE  IndexInv'
<1>1. /\ IndexTypeOK /\ Numbered /\ OlderAhead /\ CallsMade /\ calls # <<>>
      /\ loaded /\ MaxSaves \in Nat /\ returned \in Nat /\ next \in Nat
  BY IndexFileAssumption DEF IndexInv, IndexTypeOK, RenameNext
<1>2. Call \in AdapterCall /\ Stage(Call) = 2 /\ UNCHANGED <<snapshot, loaded>>
  BY <1>1, QueueHead DEF RenameNext, Stage
<1>3. Call.of \in 1 .. MaxSaves /\ Call.of \in Nat /\ returned < Call.of
  BY <1>1, QueueHead DEF Numbered
<1>4. CASE file # NoFile
  <2> DEFINE e == [call |-> "write", of |-> Call.of]
  <2>1. Then("write") /\ UNCHANGED <<next, file, returned>>
    BY <1>4 DEF RenameNext
  <2>2. AnsweredWith(e) /\ e \in AdapterCall
    BY <1>1, <2>1, ThenAnswers
  <2>3. Stage(e) = 3 /\ e.of = Call.of
    BY DEF Stage
  <2>4. MadeBy(e, file', next')
    BY <1>4, <2>1, <2>3 DEF MadeBy
  <2> HIDE DEF e
  <2>5. Numbered' /\ OlderAhead'
    BY <1>1, <1>2, <2>1, <2>2, <2>3, AnswerKeepsOrder
  <2>6. CallsMade'
    BY <1>1, <2>1, <2>2, <2>4, MadeAfterAnswer DEF CallsMade
  <2>7. calls' \in Seq(AdapterCall)
    BY <2>2 DEF AnsweredWith
  <2> QED
    BY <1>1, <1>2, <2>1, <2>5, <2>6, <2>7 DEF IndexInv, IndexTypeOK
<1>5. CASE file = NoFile
  <2>1. /\ next # NoFile /\ file' = next /\ next' = NoFile
        /\ calls' = Tail(calls) /\ NowReturned
    BY <1>5 DEF RenameNext
  <2>2. ASSUME NEW i \in 1 .. Len(calls)
        PROVE  Stage(calls[i]) <= 2 /\ MadeBy(calls[i], file', next')
    <3>1. MadeBy(calls[i], file, next) /\ Stage(calls[i]) \in 1 .. 4
      BY <1>1, QueueHead DEF CallsMade
    <3> QED
      BY <1>5, <2>1, <3>1 DEF MadeBy, NoFile
  <2>3. LeftBySave
    BY <1>1, <2>1, TailLeaves
  <2>4. Numbered' /\ OlderAhead' /\ returned' = Call.of
    BY <1>1, <1>2, <2>1, <2>2, <2>3, ReturnKeepsOrder
  <2>5. CallsMade'
    BY <2>2, <2>3, MadeAfterReturn
  <2>6. file' >= returned' /\ file' \in 0 .. MaxSaves
    <3>1. MadeBy(Call, file, next)
      BY <1>1, QueueHead DEF CallsMade
    <3> QED
      BY <1>1, <1>2, <1>3, <1>5, <2>1, <2>4, <3>1 DEF MadeBy, IndexTypeOK
  <2>7. snapshot' >= returned'
    BY <1>1, <1>2, <2>4, QueueHead DEF Numbered
  <2>8. calls' \in Seq(AdapterCall)
    BY <2>3 DEF LeftBySave
  <2>9. IndexTypeOK'
    BY <1>1, <1>2, <1>3, <2>1, <2>4, <2>6, <2>8 DEF IndexTypeOK, Torn, NoFile
  <2> QED
    BY <1>1, <1>2, <2>4, <2>5, <2>6, <2>7, <2>9 DEF IndexInv, Torn
<1> QED
  BY <1>4, <1>5

LEMMA RemoveNextKeeps ==
    ASSUME IndexInv, RemoveNext
    PROVE  IndexInv'
<1>1. /\ IndexTypeOK /\ Numbered /\ OlderAhead /\ CallsMade /\ calls # <<>>
      /\ loaded /\ MaxSaves \in Nat /\ returned \in Nat
  BY IndexFileAssumption DEF IndexInv, IndexTypeOK, RemoveNext
<1>2. Call \in AdapterCall /\ Stage(Call) = 4 /\ UNCHANGED <<snapshot, file, loaded>>
  BY <1>1, QueueHead DEF RemoveNext, Stage
<1>3. Call.of \in 1 .. MaxSaves /\ Call.of \in Nat /\ MadeBy(Call, file, next)
  BY <1>1, QueueHead DEF CallsMade
<1>4. next' = NoFile /\ calls' = Tail(calls) /\ NowReturned
  BY DEF RemoveNext
<1>5. ASSUME NEW i \in 1 .. Len(calls)
      PROVE  Stage(calls[i]) <= 4 /\ MadeBy(calls[i], file', next')
  <2>1. MadeBy(calls[i], file, next) /\ Stage(calls[i]) \in 1 .. 4
    BY <1>1, QueueHead DEF CallsMade
  <2> QED
    BY <1>2, <1>3, <2>1 DEF MadeBy
<1>6. LeftBySave
  BY <1>1, <1>4, TailLeaves
<1>7. Numbered' /\ OlderAhead' /\ returned' = Call.of
  BY <1>1, <1>2, <1>4, <1>5, <1>6, ReturnKeepsOrder
<1>8. CallsMade'
  BY <1>5, <1>6, MadeAfterReturn
<1>9. file' >= returned'
  BY <1>2, <1>3, <1>7 DEF MadeBy
<1>10. snapshot' >= returned'
  BY <1>1, <1>2, <1>7, QueueHead DEF Numbered
<1>11. calls' \in Seq(AdapterCall)
  BY <1>6 DEF LeftBySave
<1>12. IndexTypeOK'
  <2>1. next' \in 0 .. MaxSaves /\ returned' \in 0 .. MaxSaves
    BY <1>1, <1>3, <1>4, <1>7 DEF NoFile
  <2> QED
    BY <1>1, <1>2, <1>11, <2>1 DEF IndexTypeOK
<1> QED
  BY <1>1, <1>2, <1>7, <1>8, <1>9, <1>10, <1>12 DEF IndexInv

LEMMA SaveIndexKeeps ==
    ASSUME IndexInv, SaveIndex
    PROVE  IndexInv'
<1> DEFINE e == [call |-> "writeNext", of |-> snapshot + 1]
           n == Len(calls)
<1>1. /\ IndexTypeOK /\ Numbered /\ OlderAhead /\ CallsMade /\ loaded
      /\ snapshot \in Nat /\ returned \in Nat /\ MaxSaves \in Nat /\ snapshot < MaxSaves
      /\ snapshot >= returned
      /\ snapshot' = snapshot + 1 /\ UNCHANGED <<next, file, loaded, returned>>
      /\ calls \in Seq(AdapterCall)
  BY IndexFileAssumption DEF IndexInv, IndexTypeOK, SaveIndex
<1>2. e \in AdapterCall /\ Stage(e) = 1 /\ e.of = snapshot + 1
  BY <1>1 DEF AdapterCall, Stage
<1>3. calls' = Append(calls, e)
  BY DEF SaveIndex
<1>4. n \in Nat
  BY <1>1, LenProperties
<1> HIDE DEF e, n
<1>5. calls' \in Seq(AdapterCall) /\ Len(calls') = n + 1 /\ calls'[n + 1] = e
      /\ (\A i \in 1 .. n : calls'[i] = calls[i])
  BY <1>1, <1>2, <1>3, AppendProperties DEF n
<1>6. ASSUME NEW i \in 1 .. n + 1
      PROVE  (i = n + 1 /\ calls'[i] = e) \/ (i \in 1 .. n /\ calls'[i] = calls[i])
  BY <1>4, <1>5
<1>7. \A i \in 1 .. n : /\ Stage(calls[i]) \in 1 .. 4 /\ calls[i].of \in Nat
                        /\ returned < calls[i].of /\ calls[i].of <= snapshot
                        /\ MadeBy(calls[i], file, next)
  <2>1. \A i \in 1 .. n : calls[i] \in AdapterCall
    BY <1>1, ElementOfSeq DEF n
  <2> QED
    BY <1>1, <2>1, StageValues DEF Numbered, CallsMade, n
<1>8. Numbered'
  BY <1>1, <1>2, <1>5, <1>6, <1>7 DEF Numbered
<1>9. OlderAhead'
  <2>1. ASSUME NEW i \in 1 .. n + 1, NEW j \in 1 .. n + 1, i < j
        PROVE  \/ calls'[i].of < calls'[j].of /\ Stage(calls'[i]) >= Stage(calls'[j])
               \/ calls'[i].of > calls'[j].of /\ Stage(calls'[i]) < Stage(calls'[j])
    <3>1. i \in 1 .. n /\ calls'[i] = calls[i]
      BY <1>4, <1>6, <2>1
    <3>2. CASE calls'[j] = e
      BY <1>1, <1>2, <1>7, <3>1, <3>2
    <3>3. CASE j \in 1 .. n /\ calls'[j] = calls[j]
      BY <1>1, <2>1, <3>1, <3>3 DEF OlderAhead, n
    <3> QED
      BY <1>6, <3>2, <3>3
  <2> QED
    BY <1>5, <2>1 DEF OlderAhead
<1>10. CallsMade'
  <2>1. MadeBy(e, file, next)
    BY <1>2 DEF MadeBy
  <2> QED
    BY <1>1, <1>5, <1>6, <1>7, <2>1 DEF CallsMade
<1>11. IndexTypeOK'
  BY <1>1, <1>5 DEF IndexTypeOK
<1> QED
  BY <1>1, <1>8, <1>9, <1>10, <1>11 DEF IndexInv

LEMMA CrashAndLoadKeeps ==
    ASSUME IndexInv, CrashAndLoad
    PROVE  IndexInv'
<1>1. /\ IndexTypeOK /\ loaded /\ snapshot \in 0 .. MaxSaves /\ returned \in 0 .. MaxSaves
      /\ MaxSaves \in Nat /\ file \in 0 .. Torn /\ file >= returned /\ file # Torn
  BY IndexFileAssumption DEF IndexInv, IndexTypeOK, CrashAndLoad
<1>2. calls' = <<>> /\ (file' = file \/ file' = Torn) /\ loaded' = (file' # Torn)
      /\ UNCHANGED <<next, returned>> /\ snapshot' = IF file' = Torn THEN snapshot ELSE file'
  BY DEF CrashAndLoad
<1>3. calls' \in Seq(AdapterCall) /\ Len(calls') = 0
  BY <1>2, EmptySeq
<1>4. Numbered' /\ OlderAhead' /\ CallsMade'
  BY <1>3 DEF Numbered, OlderAhead, CallsMade
<1>5. IndexTypeOK'
  BY <1>1, <1>2, <1>3 DEF IndexTypeOK, Torn
<1>6. file' >= returned' /\ snapshot' \in {snapshot, file}
  BY <1>1, <1>2 DEF Torn
<1>7. loaded => snapshot >= returned
  BY DEF IndexInv
<1>8. snapshot' >= returned'
  BY <1>1, <1>2, <1>6, <1>7 DEF Torn
<1> QED
  BY <1>2, <1>4, <1>5, <1>6, <1>8 DEF IndexInv

LEMMA IndexStays ==
    IndexInv /\ UNCHANGED indexVars => IndexInv'
BY DEF IndexInv, indexVars, IndexTypeOK, Numbered, OlderAhead, CallsMade

\* LocalIndexStore: what a save that has returned has written is in the index file, or
\* something newer, for any number of saves that overlap and of crashes.
THEOREM ReturnedSavesKept == IndexSpec => []ReturnedIsKept
<1>1. IndexInit => IndexInv
  <2> SUFFICES ASSUME IndexInit PROVE IndexInv
    OBVIOUS
  <2>2. calls \in Seq(AdapterCall) /\ Len(calls) = 0
    BY EmptySeq DEF IndexInit
  <2>3. Numbered /\ OlderAhead /\ CallsMade
    BY <2>2 DEF Numbered, OlderAhead, CallsMade
  <2>4. IndexTypeOK /\ file # Torn
    BY <2>2, IndexFileAssumption DEF IndexInit, IndexTypeOK, NoFile, Torn
  <2> QED
    BY <2>3, <2>4 DEF IndexInit, IndexInv, NoFile
<1>2. IndexInv /\ [IndexNext]_indexVars => IndexInv'
  BY SaveIndexKeeps, WriteNextKeeps, RenameNextKeeps, WriteFileKeeps, RemoveNextKeeps,
     CrashAndLoadKeeps, IndexStays DEF IndexNext
<1>3. IndexInv => ReturnedIsKept
  BY DEF IndexInv, ReturnedIsKept
<1> QED
  BY <1>1, <1>2, <1>3, PTL DEF IndexSpec

-----------------------------------------------------------------------------
(***************************************************************************)
(* The tokens.                                                             *)
(***************************************************************************)
RequestRow ==
    [at : {"none", "sent", "read", "refused", "answered", "saving", "done"},
     token : Token \cup {NoToken}, next : Token \cup {NoToken}]

TokensTypeOK ==
    /\ valid \subseteq Issued /\ fresh \subseteq Issued
    /\ deviceOf \in [Token -> Nat]
    /\ refreshes \in [Request -> RequestRow]
    /\ held \in Issued /\ saved \in Issued
    /\ asking \in Request \cup {NoRequest}
    /\ severed \in BOOLEAN

\* A request has been made with a token that was issued, and is answered with one.
RequestsOK ==
    \A r \in Request :
        /\ refreshes[r].at # "none" => refreshes[r].token \in Issued
        /\ refreshes[r].at \in {"answered", "saving"} => refreshes[r].next \in Issued

Devices == {deviceOf[t] : t \in Issued}

DevicesNumbered == \E n \in Nat : Devices = 1 .. n

\* The server may still replace the request's token.
Pending(r) == refreshes[r].at \in {"sent", "read"}

\* While nothing was lost: nobody but the request that is waited for can take the
\* plugin's token away, or its successor.
SessionOK ==
    /\ \A r \in Request : (r # asking /\ Pending(r)) => refreshes[r].token # held
    /\ asking = NoRequest => held = saved /\ held \in valid
    /\ asking # NoRequest =>
        /\ refreshes[asking].at \in {"sent", "read", "answered", "saving"}
        /\ Pending(asking) => refreshes[asking].token = held /\ held \in valid
        /\ refreshes[asking].at = "answered" =>
              /\ refreshes[asking].next \in valid
              /\ \A r \in Request : Pending(r) => refreshes[r].token # refreshes[asking].next
        /\ refreshes[asking].at = "saving" => held \in valid

TokensInv ==
    /\ TokensTypeOK /\ RequestsOK /\ DevicesNumbered /\ OneValidPerDevice
    /\ severed \/ SessionOK

\* A nonempty set of naturals has a smallest element.
LEMMA LeastOf ==
    ASSUME NEW T, T \subseteq Nat, T # {}
    PROVE  \E x \in T : \A y \in T : x <= y
<1> DEFINE R == {ss \in Nat \X Nat : ss[1] < ss[2]}
<1>1. IsWellFoundedOn(R, Nat)
  BY NatLessThanWellFounded, Zenon DEF OpToRel
<1> HIDE DEF R
<1>2. PICK x \in T : \A y \in T : <<y, x>> \notin R
  BY <1>1, WFMin
<1>3. ASSUME NEW y \in T
      PROVE  x <= y
  <2>1. x \in Nat /\ y \in Nat
    OBVIOUS
  <2>2. ~(y < x)
    BY <1>2, <2>1 DEF R
  <2> QED
    BY <2>1, <2>2
<1> QED
  BY <1>2, <1>3

\* The token that is issued next is a new one.
LEMMA NextTokenIsNew ==
    ASSUME deviceOf \in [Token -> Nat], Issued # Token
    PROVE  NextToken \in Token \ Issued
<1>1. Token \ Issued \subseteq Nat /\ Token \ Issued # {}
  BY DEF Issued, Token
<1>2. \E t \in Token \ Issued : \A u \in Token \ Issued : t <= u
  BY <1>1, LeastOf
<1> QED
  BY <1>2 DEF NextToken

\* Issuing a token.
LEMMA TokenIssued ==
    ASSUME TokensTypeOK, DevicesNumbered, NEW device \in Nat \ {0}, NewTokens(device)
    PROVE  \E t \in Token \ Issued :
              /\ t = NextToken
              /\ Issued' = Issued \cup {t} /\ fresh' \subseteq Issued'
              /\ deviceOf' \in [Token -> Nat]
              /\ deviceOf'[t] = device
              /\ \A u \in Issued : u # t /\ deviceOf'[u] = deviceOf[u]
              /\ Devices' = Devices \cup {device}
<1>1. deviceOf \in [Token -> Nat] /\ fresh \subseteq Issued
  BY DEF TokensTypeOK
<1>2. PICK t \in Token \ Issued : t = NextToken
  BY <1>1, NextTokenIsNew DEF NewTokens
<1>3. deviceOf' = [deviceOf EXCEPT ![t] = device] /\ fresh' = fresh \cup {t}
  BY <1>2 DEF NewTokens
<1>4. deviceOf' \in [Token -> Nat] /\ deviceOf'[t] = device
      /\ \A u \in Token \ {t} : deviceOf'[u] = deviceOf[u]
  BY <1>1, <1>3
<1>5. Issued' = Issued \cup {t}
  BY <1>1, <1>4 DEF Issued
<1>6. \A u \in Issued : u # t /\ deviceOf'[u] = deviceOf[u]
  BY <1>4 DEF Issued
<1>7. Devices' = Devices \cup {device}
  BY <1>4, <1>5, <1>6 DEF Devices
<1> QED
  BY <1>1, <1>2, <1>3, <1>4, <1>5, <1>6, <1>7

\* A request takes a step and everything else stands still.
LEMMA RequestMovesTo ==
    ASSUME refreshes \in [Request -> RequestRow], NEW r \in Request, NEW at,
           at \in {"none", "sent", "read", "refused", "answered", "saving", "done"},
           refreshes' = [refreshes EXCEPT ![r].at = at]
    PROVE  /\ refreshes' \in [Request -> RequestRow]
           /\ refreshes'[r].at = at /\ refreshes'[r].next = refreshes[r].next
           /\ refreshes'[r].token = refreshes[r].token
           /\ \A q \in Request \ {r} : refreshes'[q] = refreshes[q]
BY DEF RequestRow

\* The tokens and the devices stay as they are.
LEMMA TokensStay ==
    ASSUME TokensInv, UNCHANGED <<valid, deviceOf>>
    PROVE  Issued' = Issued /\ Devices' = Devices /\ DevicesNumbered' /\ OneValidPerDevice'
<1>1. Issued' = Issued
  BY DEF Issued
<1>2. Devices' = Devices
  BY <1>1 DEF Devices
<1> QED
  BY <1>1, <1>2 DEF TokensInv, DevicesNumbered, OneValidPerDevice

LEMMA ReadTokenKeeps ==
    ASSUME TokensInv, NEW r \in Request, ReadToken(r)
    PROVE  TokensInv'
<1> DEFINE at == IF refreshes[r].token \in valid THEN "read" ELSE "refused"
<1>1. TokensTypeOK /\ RequestsOK /\ refreshes[r].at = "sent"
      /\ UNCHANGED <<valid, deviceOf, fresh, held, saved, asking, severed>>
  BY DEF TokensInv, ReadToken
<1>2. /\ refreshes' \in [Request -> RequestRow]
      /\ refreshes'[r].at = at /\ refreshes'[r].next = refreshes[r].next
      /\ refreshes'[r].token = refreshes[r].token
      /\ \A q \in Request \ {r} : refreshes'[q] = refreshes[q]
  <2>1. at \in {"none", "sent", "read", "refused", "answered", "saving", "done"}
    OBVIOUS
  <2>2. refreshes' = [refreshes EXCEPT ![r].at = at]
    BY DEF ReadToken
  <2> HIDE DEF at
  <2> QED
    BY <1>1, <2>1, <2>2, RequestMovesTo DEF TokensTypeOK
<1>3. Issued' = Issued /\ DevicesNumbered' /\ OneValidPerDevice'
  BY <1>1, TokensStay
<1>4. TokensTypeOK' /\ RequestsOK'
  BY <1>1, <1>2, <1>3 DEF TokensTypeOK, RequestsOK
<1>5. ASSUME SessionOK
      PROVE  SessionOK'
  <2>1. r = asking => at = "read"
    BY <1>1, <1>5 DEF SessionOK, Pending, Request, NoRequest
  <2>2. \A q \in Request : Pending(q)' => Pending(q) /\ refreshes'[q].token = refreshes[q].token
    BY <1>1, <1>2 DEF Pending
  <2>3. \A q \in Request : q = asking => q # NoRequest
    BY DEF Request, NoRequest
  <2>4. asking # NoRequest => asking \in Request
    BY <1>1 DEF TokensTypeOK
  <2>5. asking # NoRequest =>
           /\ asking = r => refreshes'[asking].at = "read"
           /\ asking # r => refreshes'[asking] = refreshes[asking]
    BY <1>2, <2>1, <2>4
  <2> QED
    BY <1>1, <1>2, <1>5, <2>2, <2>4, <2>5 DEF SessionOK, Pending
<1> QED
  BY <1>1, <1>3, <1>4, <1>5 DEF TokensInv

LEMMA ReplaceTokenKeeps ==
    ASSUME TokensInv, NEW r \in Request, ReplaceToken(r)
    PROVE  TokensInv'
<1>1. TokensTypeOK /\ RequestsOK /\ refreshes[r].at = "read" /\ DevicesNumbered
      /\ OneValidPerDevice /\ UNCHANGED <<held, saved, asking, severed>>
  BY DEF TokensInv, ReplaceToken
<1>2. /\ refreshes \in [Request -> RequestRow] /\ refreshes[r].token \in Issued
      /\ valid \subseteq Issued
  BY <1>1 DEF TokensTypeOK, RequestsOK
<1>3. CASE StillValid(r)
  <2> DEFINE old == refreshes[r].token
             device == deviceOf[old]
  <2>1. device \in Nat \ {0} /\ old \in valid /\ device \in Devices
    BY <1>1, <1>2, <1>3 DEF StillValid, TokensTypeOK, Issued, Devices
  <2>2. NewTokens(device) /\ valid' = (valid \ {old}) \cup {NextToken}
    BY <1>3 DEF ReplaceToken
  <2>3. old \in Issued
    BY <1>2
  <2> HIDE DEF old, device
  <2>4. PICK t \in Token \ Issued :
              /\ t = NextToken
              /\ Issued' = Issued \cup {t} /\ fresh' \subseteq Issued'
              /\ deviceOf' \in [Token -> Nat]
              /\ deviceOf'[t] = device
              /\ \A u \in Issued : u # t /\ deviceOf'[u] = deviceOf[u]
              /\ Devices' = Devices \cup {device}
    BY <1>1, <2>1, <2>2, TokenIssued
  <2>5. valid' = (valid \ {old}) \cup {t}
    BY <2>2, <2>4
  <2>6. /\ refreshes' \in [Request -> RequestRow]
        /\ refreshes'[r].at = "answered" /\ refreshes'[r].next = t
        /\ refreshes'[r].token = refreshes[r].token
        /\ \A q \in Request \ {r} : refreshes'[q] = refreshes[q]
    <3>1. refreshes' = [refreshes EXCEPT ![r].at = "answered", ![r].next = t]
      BY <1>3, <2>4 DEF ReplaceToken
    <3>2. t \in Token \cup {NoToken}
      OBVIOUS
    <3>3. "answered" \in {"none", "sent", "read", "refused", "answered", "saving", "done"}
      OBVIOUS
    <3>4. refreshes \in [Request -> RequestRow]
      BY <1>2
    <3> QED
      BY <3>1, <3>2, <3>3, <3>4 DEF RequestRow
  <2>7. TokensTypeOK' /\ RequestsOK'
    BY <1>1, <1>2, <2>4, <2>5, <2>6 DEF TokensTypeOK, RequestsOK
  <2>8. DevicesNumbered'
    BY <1>1, <2>1, <2>4 DEF DevicesNumbered
  <2>9. OneValidPerDevice'
    <3>1. device = deviceOf[old]
      BY DEF device
    <3> QED
      BY <1>1, <1>2, <2>1, <2>4, <2>5, <3>1 DEF OneValidPerDevice
  <2>10. ASSUME SessionOK
         PROVE  SessionOK'
    <3>1. held \in Issued /\ (asking # NoRequest => asking \in Request)
      BY <1>1 DEF TokensTypeOK
    <3>2. r # asking => old # held
      BY <1>1, <2>10 DEF SessionOK, Pending, old
    <3>3. \A q \in Request : Pending(q)' => /\ q # r /\ Pending(q)
                                           /\ refreshes'[q] = refreshes[q]
                                           /\ refreshes[q].token \in Issued
      BY <1>1, <2>6 DEF Pending, RequestsOK
    <3>4. \A q \in Request : (q # asking /\ Pending(q)') => refreshes'[q].token # held
      BY <2>10, <3>3 DEF SessionOK
    <3>5. asking = NoRequest => held \in valid'
      <4>1. asking = NoRequest => r # asking /\ held \in valid
        BY <2>10 DEF SessionOK, Request, NoRequest
      <4> QED
        BY <2>5, <3>2, <4>1
    <3>6. CASE asking = r
      <4>1. \A q \in Request : Pending(q)' => refreshes'[q].token # t
        BY <2>4, <3>3
      <4> QED
        BY <1>1, <2>5, <2>6, <2>10, <3>4, <3>5, <3>6, <4>1 DEF SessionOK, Pending
    <3>7. CASE asking # r
      <4>1. (asking # NoRequest /\ refreshes[asking].at = "answered") =>
               refreshes[asking].next # old
        BY <1>1, <2>10, <3>1, <3>7 DEF SessionOK, Pending, old
      <4>2. asking # NoRequest => refreshes'[asking] = refreshes[asking]
        BY <2>6, <3>1, <3>7
      <4>3. (asking # NoRequest /\ refreshes[asking].at = "answered") =>
               refreshes[asking].next \in valid'
        BY <2>5, <2>10, <4>1 DEF SessionOK
      <4>4. held \in valid => held \in valid'
        BY <2>5, <3>2, <3>7
      <4>5. \A q \in Request : Pending(q)' => Pending(q) /\ refreshes'[q].token = refreshes[q].token
        BY <3>3
      <4> QED
        BY <1>1, <2>10, <3>4, <3>5, <4>2, <4>3, <4>4, <4>5 DEF SessionOK, Pending
    <3> QED
      BY <3>6, <3>7
  <2> QED
    BY <1>1, <2>7, <2>8, <2>9, <2>10 DEF TokensInv
<1>4. CASE ~StillValid(r)
  <2>1. UNCHANGED <<valid, deviceOf, fresh>> /\ refreshes' = [refreshes EXCEPT ![r].at = "refused"]
    BY <1>4 DEF ReplaceToken
  <2>2. /\ refreshes' \in [Request -> RequestRow]
        /\ refreshes'[r].at = "refused" /\ refreshes'[r].next = refreshes[r].next
        /\ refreshes'[r].token = refreshes[r].token
        /\ \A q \in Request \ {r} : refreshes'[q] = refreshes[q]
    BY <1>2, <2>1, RequestMovesTo
  <2>3. Issued' = Issued /\ DevicesNumbered' /\ OneValidPerDevice'
    BY <2>1, TokensStay
  <2>4. TokensTypeOK' /\ RequestsOK'
    BY <1>1, <2>1, <2>2, <2>3 DEF TokensTypeOK, RequestsOK
  <2>5. ASSUME SessionOK
        PROVE  SessionOK'
    <3>1. r # asking
      BY <1>1, <1>4, <2>5 DEF SessionOK, Pending, StillValid, Request, NoRequest
    <3>2. asking # NoRequest => refreshes'[asking] = refreshes[asking]
      BY <1>1, <2>2, <3>1 DEF TokensTypeOK
    <3>3. \A q \in Request : Pending(q)' => Pending(q) /\ refreshes'[q].token = refreshes[q].token
      BY <2>2 DEF Pending
    <3>4. \A q \in Request : (q # asking /\ Pending(q)') => refreshes'[q].token # held
      BY <2>5, <3>3 DEF SessionOK
    <3>5. asking # NoRequest /\ refreshes[asking].at = "answered" =>
             \A q \in Request : Pending(q)' => refreshes'[q].token # refreshes[asking].next
      BY <2>5, <3>3 DEF SessionOK
    <3>6. valid' = valid
      BY <2>1
    <3> QED
      BY <1>1, <2>5, <3>2, <3>4, <3>5, <3>6 DEF SessionOK, Pending
  <2> QED
    BY <1>1, <2>3, <2>4, <2>5 DEF TokensInv
<1> QED
  BY <1>3, <1>4

\* Where the requests and the rows stand still, the session is all that can change.
LEMMA OnlyTheSession ==
    ASSUME TokensInv, UNCHANGED <<valid, deviceOf, fresh, refreshes>>,
           held' \in Issued, saved' \in Issued, asking' \in Request \cup {NoRequest},
           severed' \in BOOLEAN, severed' \/ SessionOK'
    PROVE  TokensInv'
<1>1. Issued' = Issued /\ DevicesNumbered' /\ OneValidPerDevice'
  BY TokensStay
<1> QED
  BY <1>1 DEF TokensInv, TokensTypeOK, RequestsOK

LEMMA SessionSame ==
    ASSUME SessionOK, UNCHANGED <<valid, refreshes, held, saved, asking>>
    PROVE  SessionOK'
BY DEF SessionOK, Pending

LEMMA ExpireKeeps ==
    ASSUME TokensInv, Expire
    PROVE  TokensInv'
<1>1. Issued' = Issued /\ DevicesNumbered' /\ OneValidPerDevice'
  BY TokensStay DEF Expire
<1>2. SessionOK => SessionOK'
  BY SessionSame DEF Expire
<1> QED
  BY <1>1, <1>2 DEF TokensInv, TokensTypeOK, RequestsOK, Expire

LEMMA HelloKeeps ==
    ASSUME TokensInv, Hello
    PROVE  TokensInv'
<1>1. TokensTypeOK /\ RequestsOK /\ UNCHANGED <<valid, deviceOf, fresh, held, saved, severed>>
  BY DEF TokensInv, Hello
<1>2. Issued' = Issued /\ DevicesNumbered' /\ OneValidPerDevice'
  BY <1>1, TokensStay
<1>3. CASE UNCHANGED <<refreshes, asking>>
  <2>1. SessionOK => SessionOK'
    BY <1>1, <1>3, SessionSame
  <2> QED
    BY <1>1, <1>2, <1>3, <2>1 DEF TokensInv, TokensTypeOK, RequestsOK
<1>4. CASE ~UNCHANGED <<refreshes, asking>>
  <2>1. asking = NoRequest
    BY <1>4 DEF Hello, Ask
  <2>2. PICK r \in Request :
            /\ refreshes[r].at = "none"
            /\ refreshes' = [refreshes EXCEPT ![r].at = "sent", ![r].token = held]
            /\ asking' = r
    BY <1>4 DEF Hello, Ask
  <2>3. held \in Token /\ held \in Issued
    BY <1>1 DEF TokensTypeOK, Issued
  <2>4. refreshes \in [Request -> RequestRow]
    BY <1>1 DEF TokensTypeOK
  <2>5. /\ refreshes' \in [Request -> RequestRow]
        /\ refreshes'[r].at = "sent" /\ refreshes'[r].token = held
        /\ \A q \in Request \ {r} : refreshes'[q] = refreshes[q]
    BY <2>2, <2>3, <2>4 DEF RequestRow
  <2>6. TokensTypeOK' /\ RequestsOK'
    BY <1>1, <1>2, <2>2, <2>3, <2>5 DEF TokensTypeOK, RequestsOK
  <2>7. ASSUME SessionOK
        PROVE  SessionOK'
    <3>1. held \in valid
      BY <2>1, <2>7 DEF SessionOK
    <3>2. \A q \in Request \ {r} : Pending(q)' => refreshes'[q].token # held
      BY <2>1, <2>5, <2>7 DEF SessionOK, Pending, Request, NoRequest
    <3>3. r # NoRequest
      BY DEF Request, NoRequest
    <3> QED
      BY <1>1, <2>2, <2>5, <3>1, <3>2, <3>3 DEF SessionOK, Pending
  <2> QED
    BY <1>1, <1>2, <2>6, <2>7 DEF TokensInv
<1> QED
  BY <1>3, <1>4

LEMMA ReceiveKeeps ==
    ASSUME TokensInv, NEW r \in Request, Receive(r)
    PROVE  TokensInv'
<1>1. /\ TokensTypeOK /\ RequestsOK /\ r = asking /\ refreshes[r].at = "answered"
      /\ held' = refreshes[r].next
      /\ UNCHANGED <<valid, deviceOf, fresh, saved, asking, severed>>
  BY DEF TokensInv, Receive
<1>2. Issued' = Issued /\ DevicesNumbered' /\ OneValidPerDevice'
  BY <1>1, TokensStay
<1>3. /\ refreshes' \in [Request -> RequestRow]
      /\ refreshes'[r].at = "saving" /\ refreshes'[r].next = refreshes[r].next
      /\ refreshes'[r].token = refreshes[r].token
      /\ \A q \in Request \ {r} : refreshes'[q] = refreshes[q]
  <2>1. refreshes' = [refreshes EXCEPT ![r].at = "saving"]
    BY DEF Receive
  <2> QED
    BY <1>1, <2>1, RequestMovesTo DEF TokensTypeOK
<1>4. TokensTypeOK' /\ RequestsOK'
  BY <1>1, <1>2, <1>3 DEF TokensTypeOK, RequestsOK
<1>5. ASSUME SessionOK
      PROVE  SessionOK'
  <2>1. r # NoRequest
    BY DEF Request, NoRequest
  <2>2. held' \in valid /\ \A q \in Request : Pending(q) => refreshes[q].token # held'
    BY <1>1, <1>5, <2>1 DEF SessionOK
  <2>3. \A q \in Request : Pending(q)' => Pending(q) /\ refreshes'[q].token = refreshes[q].token
    BY <1>3 DEF Pending
  <2> QED
    BY <1>1, <1>3, <2>1, <2>2, <2>3 DEF SessionOK, Pending
<1> QED
  BY <1>1, <1>2, <1>4, <1>5 DEF TokensInv

LEMMA SaveAndRestartKeeps ==
    ASSUME TokensInv, NEW r \in Request, SaveAndRestart(r)
    PROVE  TokensInv'
<1>1. /\ TokensTypeOK /\ RequestsOK /\ r = asking /\ refreshes[r].at = "saving"
      /\ saved' = held /\ asking' = NoRequest
      /\ UNCHANGED <<valid, deviceOf, fresh, held, severed>>
  BY DEF TokensInv, SaveAndRestart
<1>2. Issued' = Issued /\ DevicesNumbered' /\ OneValidPerDevice'
  BY <1>1, TokensStay
<1>3. /\ refreshes' \in [Request -> RequestRow]
      /\ refreshes'[r].at = "done" /\ refreshes'[r].next = refreshes[r].next
      /\ refreshes'[r].token = refreshes[r].token
      /\ \A q \in Request \ {r} : refreshes'[q] = refreshes[q]
  <2>1. refreshes' = [refreshes EXCEPT ![r].at = "done"]
    BY DEF SaveAndRestart
  <2> QED
    BY <1>1, <2>1, RequestMovesTo DEF TokensTypeOK
<1>4. TokensTypeOK' /\ RequestsOK'
  BY <1>1, <1>2, <1>3 DEF TokensTypeOK, RequestsOK
<1>5. ASSUME SessionOK
      PROVE  SessionOK'
  <2>1. r # NoRequest
    BY DEF Request, NoRequest
  <2>2. held \in valid
    BY <1>1, <1>5, <2>1 DEF SessionOK
  <2>3. \A q \in Request : Pending(q)' => /\ q # r /\ Pending(q)
                                         /\ refreshes'[q].token = refreshes[q].token
    BY <1>3 DEF Pending
  <2>4. \A q \in Request : Pending(q)' => refreshes'[q].token # held
    BY <1>1, <1>5, <2>3 DEF SessionOK
  <2> QED
    BY <1>1, <2>2, <2>4 DEF SessionOK, Pending
<1> QED
  BY <1>1, <1>2, <1>4, <1>5 DEF TokensInv

\* The server refuses a request only after an answer has been lost.
LEMMA RefusedKeeps ==
    ASSUME TokensInv, NEW r \in Request, Refused(r)
    PROVE  TokensInv'
<1>1. /\ TokensTypeOK /\ RequestsOK /\ r = asking /\ refreshes[r].at = "refused"
      /\ asking' = NoRequest
      /\ UNCHANGED <<valid, deviceOf, fresh, held, saved, severed>>
  BY DEF TokensInv, Refused
<1>2. Issued' = Issued /\ DevicesNumbered' /\ OneValidPerDevice'
  BY <1>1, TokensStay
<1>3. /\ refreshes' \in [Request -> RequestRow]
      /\ refreshes'[r].at = "done" /\ refreshes'[r].token = refreshes[r].token
      /\ \A q \in Request \ {r} : refreshes'[q] = refreshes[q]
  <2>1. refreshes' = [refreshes EXCEPT ![r].at = "done"]
    BY DEF Refused
  <2> QED
    BY <1>1, <2>1, RequestMovesTo DEF TokensTypeOK
<1>4. TokensTypeOK' /\ RequestsOK'
  BY <1>1, <1>2, <1>3 DEF TokensTypeOK, RequestsOK
<1>5. ~SessionOK
  BY <1>1 DEF SessionOK, Request, NoRequest
<1> QED
  BY <1>1, <1>2, <1>4, <1>5 DEF TokensInv

LEMMA LoginKeeps ==
    ASSUME TokensInv, Login
    PROVE  TokensInv'
<1>1. TokensTypeOK /\ RequestsOK /\ DevicesNumbered /\ OneValidPerDevice
      /\ asking = NoRequest /\ severed' = FALSE /\ UNCHANGED <<refreshes, asking>>
  BY DEF TokensInv, Login
<1>2. PICK n \in Nat : Devices = 1 .. n
  BY <1>1 DEF DevicesNumbered
<1>3. Cardinality(Devices) = n
  <2>1. 1 \in Int /\ n \in Int
    OBVIOUS
  <2>2. Cardinality(1 .. n) = IF 1 > n THEN 0 ELSE n - 1 + 1
    BY <2>1, FS_Interval
  <2> QED
    BY <1>2, <2>2
<1>4. NewTokens(n + 1)
  BY <1>3 DEF Login, Devices
<1>5. PICK t \in Token \ Issued :
              /\ t = NextToken
              /\ Issued' = Issued \cup {t} /\ fresh' \subseteq Issued'
              /\ deviceOf' \in [Token -> Nat]
              /\ deviceOf'[t] = n + 1
              /\ \A u \in Issued : u # t /\ deviceOf'[u] = deviceOf[u]
              /\ Devices' = Devices \cup {n + 1}
  BY <1>1, <1>4, TokenIssued
<1>6. valid' = valid \cup {t} /\ held' = t /\ saved' = t
  BY <1>5 DEF Login
<1>7. TokensTypeOK' /\ RequestsOK'
  BY <1>1, <1>5, <1>6 DEF TokensTypeOK, RequestsOK
<1>8. DevicesNumbered'
  BY <1>2, <1>5 DEF DevicesNumbered
<1>9. OneValidPerDevice'
  <2>1. \A u \in valid : u \in Issued /\ deviceOf[u] \in 1 .. n
    BY <1>1, <1>2 DEF TokensTypeOK, Devices
  <2>2. \A u \in valid : u \in Issued /\ deviceOf[u] # n + 1
    BY <2>1
  <2> QED
    BY <1>1, <1>5, <1>6, <2>2 DEF OneValidPerDevice
<1>10. SessionOK'
  <2>1. \A r \in Request : Pending(r)' => refreshes'[r].token \in Issued
    BY <1>1 DEF RequestsOK, Pending
  <2> QED
    BY <1>1, <1>5, <1>6, <2>1 DEF SessionOK
<1> QED
  BY <1>1, <1>7, <1>8, <1>9, <1>10 DEF TokensInv

LEMMA PluginMishapsKeep ==
    ASSUME TokensInv, Drop \/ CrashPlugin \/ \E r \in Request : Lose(r)
    PROVE  TokensInv'
<1>1. held \in Issued /\ saved \in Issued /\ asking \in Request \cup {NoRequest}
      /\ severed \in BOOLEAN /\ (severed \/ SessionOK)
  BY DEF TokensInv, TokensTypeOK
<1>2. CASE Drop
  <2>1. SessionOK => SessionOK'
    BY <1>2, SessionSame DEF Drop
  <2> QED
    BY <1>1, <1>2, <2>1, OnlyTheSession DEF Drop
<1>3. CASE CrashPlugin
  <2>1. UNCHANGED <<valid, deviceOf, fresh, refreshes, saved>> /\ held' = saved
        /\ asking' = NoRequest /\ severed' = (severed \/ asking # NoRequest)
    BY <1>3 DEF CrashPlugin
  <2>2. severed' \in BOOLEAN
    BY <2>1
  <2>3. severed' \/ SessionOK'
    <3>1. CASE severed \/ asking # NoRequest
      BY <2>1, <3>1
    <3>2. CASE ~severed /\ asking = NoRequest
      BY <1>1, <2>1, <3>2 DEF SessionOK, Pending
    <3> QED
      BY <3>1, <3>2
  <2> QED
    BY <1>1, <2>1, <2>2, <2>3, OnlyTheSession
<1>4. CASE \E r \in Request : Lose(r)
  BY <1>1, <1>4, OnlyTheSession DEF Lose
<1> QED
  BY <1>2, <1>3, <1>4

\* AuthService.refresh with replaceRefreshToken, and refreshSession of the plugin: of the
\* tokens of a device one at most is valid, and the plugin has it or is about to get it,
\* unless an answer was lost; for any number of requests that race.
THEOREM TokenHeld == TokensSpec => []OneTokenHeld
<1>1. TokensInit => TokensInv
  <2> SUFFICES ASSUME TokensInit PROVE TokensInv
    OBVIOUS
  <2>1. 1 \in Token /\ Issued = {1}
    BY TokensAssumption DEF TokensInit, Issued, Token
  <2>2. DevicesNumbered
    <3>1. Devices = 1 .. 1
      BY <2>1 DEF TokensInit, Devices
    <3> QED
      BY <3>1 DEF DevicesNumbered
  <2>3. TokensTypeOK
    BY <2>1 DEF TokensInit, TokensTypeOK, RequestRow
  <2>4. RequestsOK /\ OneValidPerDevice /\ SessionOK
    BY <2>1 DEF TokensInit, RequestsOK, OneValidPerDevice, SessionOK, Pending
  <2> QED
    BY <2>2, <2>3, <2>4 DEF TokensInv
<1>2. TokensInv /\ [TokensNext]_tokenVars => TokensInv'
  <2> SUFFICES ASSUME TokensInv, [TokensNext]_tokenVars PROVE TokensInv'
    OBVIOUS
  <2>1. CASE UNCHANGED tokenVars
    <3>1. SessionOK => SessionOK'
      BY <2>1, SessionSame DEF tokenVars
    <3> QED
      BY <2>1, <3>1, OnlyTheSession DEF tokenVars, TokensInv, TokensTypeOK
  <2>2. CASE TokensNext
    BY <2>2, ExpireKeeps, HelloKeeps, LoginKeeps, PluginMishapsKeep, ReadTokenKeeps,
       ReplaceTokenKeeps, ReceiveKeeps, SaveAndRestartKeeps, RefusedKeeps DEF TokensNext
  <2> QED
    BY <2>1, <2>2
<1>3. TokensInv => OneTokenHeld
  <2>1. SessionOK => NeverLockedOut
    BY DEF SessionOK, NeverLockedOut, Pending
  <2> QED
    BY <2>1 DEF TokensInv, OneTokenHeld, NeverLockedOut
<1> QED
  BY <1>1, <1>2, <1>3, PTL DEF TokensSpec

-----------------------------------------------------------------------------
(***************************************************************************)
(* Sums, as Within adds them up.                                           *)
(***************************************************************************)
Total(f, S) == FoldFunctionOnSet(LAMBDA a, b : a + b, 0, f, S)

\* What is true of a set when it is true of all smaller ones is true of every finite set.
LEMMA BySize ==
    ASSUME NEW S, IsFiniteSet(S), NEW Good,
           \A T \in SUBSET S :
              (\A U \in SUBSET S : Cardinality(U) < Cardinality(T) => U \in Good) => T \in Good
    PROVE  SUBSET S \subseteq Good
<1> DEFINE sizes == {Cardinality(T) : T \in (SUBSET S) \ Good}
<1>1. \A T \in SUBSET S : Cardinality(T) \in Nat
  BY FS_Subset, FS_CardinalityType
<1>2. sizes = {}
  <2> SUFFICES ASSUME sizes # {}
               PROVE  FALSE
    OBVIOUS
  <2>1. sizes \subseteq Nat
    BY <1>1
  <2> HIDE DEF sizes
  <2>2. PICK n \in sizes : \A m \in sizes : n <= m
    BY <2>1, LeastOf
  <2>3. PICK T \in (SUBSET S) \ Good : n = Cardinality(T)
    BY <2>2 DEF sizes
  <2>4. ASSUME NEW U \in SUBSET S, Cardinality(U) < Cardinality(T), U \notin Good
        PROVE  FALSE
    <3>1. Cardinality(U) \in sizes
      BY <2>4 DEF sizes
    <3>2. Cardinality(T) <= Cardinality(U)
      BY <2>2, <2>3, <3>1
    <3> QED
      BY <1>1, <2>3, <2>4, <3>2
  <2> QED
    BY <2>3, <2>4
<1> QED
  BY <1>2

Pick(s) == CHOOSE x \in s : TRUE

\* g is what a fold over the subsets of S computes.
IsFold(f, S, g) ==
    g = [s \in SUBSET S |-> IF s = {} THEN 0 ELSE f[Pick(s)] + g[s \ {Pick(s)}]]

LEMMA PickIn ==
    ASSUME NEW s, s # {}
    PROVE  Pick(s) \in s
BY Zenon DEF Pick

LEMMA Smaller ==
    ASSUME NEW S, IsFiniteSet(S), NEW T \in SUBSET S, NEW x \in T
    PROVE  /\ T \ {x} \in SUBSET S /\ IsFiniteSet(T) /\ IsFiniteSet(T \ {x})
           /\ Cardinality(T) \in Nat /\ Cardinality(T \ {x}) = Cardinality(T) - 1
           /\ Cardinality(T \ {x}) < Cardinality(T)
<1>1. IsFiniteSet(T) /\ Cardinality(T) \in Nat
  BY FS_Subset, FS_CardinalityType
<1>2. IsFiniteSet(T \ {x}) /\ Cardinality(T \ {x}) = Cardinality(T) - 1
  BY <1>1, FS_RemoveElement
<1> QED
  BY <1>1, <1>2

FoldsUpTo(f, S, n, g) ==
    \A s \in SUBSET S : Cardinality(s) <= n =>
        g[s] = IF s = {} THEN 0 ELSE f[Pick(s)] + g[s \ {Pick(s)}]

LEMMA FoldExists ==
    ASSUME NEW f, NEW S, IsFiniteSet(S)
    PROVE  \E g : IsFold(f, S, g)
<1> DEFINE Bad == {n \in Nat : ~\E g : FoldsUpTo(f, S, n, g)}
<1>1. \A T \in SUBSET S : Cardinality(T) \in Nat /\ IsFiniteSet(T)
  BY FS_Subset, FS_CardinalityType
<1>2. 0 \notin Bad
  <2> DEFINE g == [s \in SUBSET S |-> 0]
  <2>1. ASSUME NEW s \in SUBSET S, Cardinality(s) <= 0
        PROVE  g[s] = IF s = {} THEN 0 ELSE f[Pick(s)] + g[s \ {Pick(s)}]
    <3>1. s = {}
      BY <1>1, <2>1, FS_EmptySet
    <3> QED
      BY <3>1
  <2>2. FoldsUpTo(f, S, 0, g)
    BY <2>1, Zenon DEF FoldsUpTo
  <2> QED
    BY <2>2
<1>3. ASSUME NEW n \in Nat, n \notin Bad
      PROVE  n + 1 \notin Bad
  <2>1. PICK g : FoldsUpTo(f, S, n, g)
    BY <1>3
  <2> DEFINE body(s) == IF s = {} THEN 0 ELSE f[Pick(s)] + g[s \ {Pick(s)}]
             h == [s \in SUBSET S |-> IF Cardinality(s) <= n THEN g[s] ELSE body(s)]
  <2>2. ASSUME NEW s \in SUBSET S, Cardinality(s) <= n + 1
        PROVE  h[s] = IF s = {} THEN 0 ELSE f[Pick(s)] + h[s \ {Pick(s)}]
    <3>1. h[s] = body(s)
      BY <2>1 DEF FoldsUpTo
    <3>2. CASE s = {}
      BY <3>1, <3>2
    <3>3. CASE s # {}
      <4>1. Pick(s) \in s
        BY <3>3, PickIn
      <4>2. s \ {Pick(s)} \in SUBSET S /\ Cardinality(s \ {Pick(s)}) = Cardinality(s) - 1
            /\ Cardinality(s) \in Nat
        BY <4>1, Smaller
      <4>3. Cardinality(s \ {Pick(s)}) <= n
        BY <2>2, <4>2
      <4>4. h[s \ {Pick(s)}] = g[s \ {Pick(s)}]
        BY <4>2, <4>3
      <4> QED
        BY <3>1, <3>3, <4>4
    <3> QED
      BY <3>2, <3>3
  <2> HIDE DEF h
  <2>3. FoldsUpTo(f, S, n + 1, h)
    BY <2>2, Zenon DEF FoldsUpTo
  <2> QED
    BY <2>3
<1>4. Bad = {}
  <2> SUFFICES ASSUME Bad # {}
               PROVE  FALSE
    OBVIOUS
  <2>1. Bad \subseteq Nat
    OBVIOUS
  <2> HIDE DEF Bad
  <2>2. PICK m \in Bad : \A k \in Bad : m <= k
    BY <2>1, LeastOf
  <2>3. m \in Nat /\ m # 0
    BY <1>2, <2>1, <2>2
  <2>4. m - 1 \in Nat /\ m - 1 \notin Bad /\ (m - 1) + 1 = m
    BY <2>2, <2>3
  <2> QED
    BY <1>3, <2>2, <2>4
<1>5. PICK g : FoldsUpTo(f, S, Cardinality(S), g)
  BY <1>1, <1>4
<1> DEFINE h == [s \in SUBSET S |-> g[s]]
<1>6. ASSUME NEW s \in SUBSET S
      PROVE  h[s] = IF s = {} THEN 0 ELSE f[Pick(s)] + h[s \ {Pick(s)}]
  <2>1. Cardinality(s) <= Cardinality(S)
    BY <1>1, FS_Subset
  <2>2. g[s] = IF s = {} THEN 0 ELSE f[Pick(s)] + g[s \ {Pick(s)}]
    BY <1>5, <2>1 DEF FoldsUpTo
  <2>3. s \ {Pick(s)} \in SUBSET S
    OBVIOUS
  <2> QED
    BY <2>2, <2>3
<1>7. h = [s \in SUBSET S |-> h[s]]
  OBVIOUS
<1> HIDE DEF h
<1>8. IsFold(f, S, h)
  BY <1>6, <1>7 DEF IsFold
<1> QED
  BY <1>8

LEMMA FoldStep ==
    ASSUME NEW f, NEW S, NEW g, IsFold(f, S, g), NEW s \in SUBSET S
    PROVE  g[s] = IF s = {} THEN 0 ELSE f[Pick(s)] + g[s \ {Pick(s)}]
<1>1. g = [t \in SUBSET S |-> IF t = {} THEN 0 ELSE f[Pick(t)] + g[t \ {Pick(t)}]]
  BY DEF IsFold
<1> QED
  BY <1>1

\* A fold over a set and one over a larger set agree where both are.
LEMMA FoldsAgree ==
    ASSUME NEW f, NEW S, IsFiniteSet(S), NEW T \in SUBSET S,
           NEW g, IsFold(f, S, g), NEW h, IsFold(f, T, h)
    PROVE  h[T] = g[T]
<1> DEFINE Good == {U \in SUBSET T : h[U] = g[U]}
<1>1. IsFiniteSet(T)
  BY FS_Subset
<1>2. ASSUME NEW U \in SUBSET T,
             \A V \in SUBSET T : Cardinality(V) < Cardinality(U) => V \in Good
      PROVE  U \in Good
  <2>1. /\ h[U] = IF U = {} THEN 0 ELSE f[Pick(U)] + h[U \ {Pick(U)}]
        /\ g[U] = IF U = {} THEN 0 ELSE f[Pick(U)] + g[U \ {Pick(U)}]
    BY FoldStep
  <2>2. CASE U = {}
    BY <2>1, <2>2
  <2>3. CASE U # {}
    <3>1. Pick(U) \in U
      BY <2>3, PickIn
    <3>2. U \ {Pick(U)} \in SUBSET T /\ Cardinality(U \ {Pick(U)}) < Cardinality(U)
      BY <1>1, <3>1, Smaller
    <3>3. h[U \ {Pick(U)}] = g[U \ {Pick(U)}]
      BY <1>2, <3>2
    <3> QED
      BY <2>1, <2>3, <3>3
  <2> QED
    BY <2>2, <2>3
<1> HIDE DEF Good
<1>3. SUBSET T \subseteq Good
  BY <1>1, <1>2, BySize
<1>4. T \in Good
  BY <1>3
<1> QED
  BY <1>4 DEF Good

LEMMA TotalFolds ==
    ASSUME NEW f, NEW S, IsFiniteSet(S)
    PROVE  \E g : IsFold(f, S, g) /\ Total(f, S) = g[S]
<1> DEFINE g == CHOOSE h : h = [s \in SUBSET S |-> IF s = {} THEN 0
                                  ELSE LET x == CHOOSE y \in s : TRUE IN f[x] + h[s \ {x}]]
<1>1. Total(f, S) = g[S]
  BY DEF Total, FoldFunctionOnSet, MapThenFoldSet
<1>2. \E h : h = [s \in SUBSET S |-> IF s = {} THEN 0
                                  ELSE LET x == CHOOSE y \in s : TRUE IN f[x] + h[s \ {x}]]
  <2>1. \E h : IsFold(f, S, h)
    BY FoldExists
  <2> QED
    BY <2>1, Zenon DEF IsFold, Pick
<1>3. g = [s \in SUBSET S |-> IF s = {} THEN 0
                                  ELSE LET x == CHOOSE y \in s : TRUE IN f[x] + g[s \ {x}]]
  BY <1>2, Zenon
<1> HIDE DEF g
<1>4. IsFold(f, S, g)
  BY <1>3, Zenon DEF IsFold, Pick
<1> QED
  BY <1>1, <1>4

LEMMA TotalStep ==
    ASSUME NEW f, NEW S, IsFiniteSet(S)
    PROVE  /\ S = {} => Total(f, S) = 0
           /\ S # {} => Total(f, S) = f[Pick(S)] + Total(f, S \ {Pick(S)})
<1>1. PICK g : IsFold(f, S, g) /\ Total(f, S) = g[S]
  BY TotalFolds
<1>2. g[S] = IF S = {} THEN 0 ELSE f[Pick(S)] + g[S \ {Pick(S)}]
  <2>1. S \in SUBSET S
    OBVIOUS
  <2> QED
    BY <1>1, <2>1, Zenon DEF IsFold
<1>3. IsFiniteSet(S \ {Pick(S)}) /\ S \ {Pick(S)} \in SUBSET S
  BY FS_Subset
<1>4. PICK h : IsFold(f, S \ {Pick(S)}, h) /\ Total(f, S \ {Pick(S)}) = h[S \ {Pick(S)}]
  BY <1>3, TotalFolds
<1>5. h[S \ {Pick(S)}] = g[S \ {Pick(S)}]
  BY <1>1, <1>3, <1>4, FoldsAgree
<1> QED
  BY <1>1, <1>2, <1>4, <1>5
LEMMA TotalType ==
    ASSUME NEW D, NEW f \in [D -> Nat], NEW S \in SUBSET D, IsFiniteSet(S)
    PROVE  Total(f, S) \in Nat
<1> DEFINE Good == {T \in SUBSET S : Total(f, T) \in Nat}
<1>1. ASSUME NEW T \in SUBSET S,
             \A U \in SUBSET S : Cardinality(U) < Cardinality(T) => U \in Good
      PROVE  T \in Good
  <2>1. IsFiniteSet(T)
    BY FS_Subset
  <2>2. CASE T = {}
    <3>1. Total(f, T) = 0
      BY <2>1, <2>2, TotalStep
    <3> QED
      BY <3>1
  <2>3. CASE T # {}
    <3>1. Pick(T) \in T
      BY <2>3, PickIn
    <3>2. T \ {Pick(T)} \in SUBSET S /\ Cardinality(T \ {Pick(T)}) < Cardinality(T)
      BY <3>1, Smaller
    <3>3. Total(f, T \ {Pick(T)}) \in Nat
      BY <1>1, <3>2
    <3>4. f[Pick(T)] \in Nat
      BY <3>1
    <3>5. Total(f, T) = f[Pick(T)] + Total(f, T \ {Pick(T)})
      BY <2>1, <2>3, TotalStep
    <3>6. Total(f, T) \in Nat
      BY <3>3, <3>4, <3>5
    <3> QED
      BY <3>6
  <2> QED
    BY <2>2, <2>3
<1> HIDE DEF Good
<1>2. SUBSET S \subseteq Good
  BY <1>1, BySize
<1>3. S \in Good
  BY <1>2
<1> QED
  BY <1>3 DEF Good

\* The order does not matter: any element may be added first.
LEMMA TotalRemove ==
    ASSUME NEW D, NEW f \in [D -> Nat], NEW S \in SUBSET D, IsFiniteSet(S), NEW x \in S
    PROVE  Total(f, S) = f[x] + Total(f, S \ {x})
<1> DEFINE Holds(T) == \A y \in T : Total(f, T) = f[y] + Total(f, T \ {y})
           Good == {T \in SUBSET S : Holds(T)}
<1>1. ASSUME NEW T \in SUBSET S,
             \A U \in SUBSET S : Cardinality(U) < Cardinality(T) => U \in Good
      PROVE  T \in Good
  <2>1. ASSUME NEW y \in T
        PROVE  Total(f, T) = f[y] + Total(f, T \ {y})
    <3> DEFINE z == Pick(T)
               Ty == T \ {y}
               Tz == T \ {z}
               R == T \ {y, z}
    <3>1. z \in T
      BY PickIn
    <3>2. IsFiniteSet(T) /\ Total(f, T) = f[z] + Total(f, Tz)
      BY FS_Subset, TotalStep
    <3> HIDE DEF z
    <3>3. CASE y = z
      BY <3>2, <3>3
    <3>4. CASE y # z
      <4>1. /\ Ty \in SUBSET S /\ Cardinality(Ty) < Cardinality(T)
            /\ Tz \in SUBSET S /\ Cardinality(Tz) < Cardinality(T)
        BY <3>1, Smaller
      <4>2. y \in Tz /\ z \in Ty /\ Tz \ {y} = R /\ Ty \ {z} = R
        BY <3>1, <3>4
      <4>3. Holds(Ty) /\ Holds(Tz)
        BY <1>1, <4>1
      <4>4. Total(f, Tz) = f[y] + Total(f, R) /\ Total(f, Ty) = f[z] + Total(f, R)
        BY <4>2, <4>3
      <4>5. Total(f, R) \in Nat
        <5>1. R \in SUBSET D /\ IsFiniteSet(R)
          BY <3>2, FS_Subset
        <5> QED
          BY <5>1, TotalType
      <4>6. f[y] \in Nat /\ f[z] \in Nat
        BY <3>1
      <4> HIDE DEF Ty, Tz, R
      <4>7. Total(f, T) = f[y] + Total(f, Ty)
        BY <3>2, <4>4, <4>5, <4>6
      <4> QED
        BY <4>7 DEF Ty
    <3> QED
      BY <3>3, <3>4
  <2> QED
    BY <2>1
<1> HIDE DEF Good
<1>2. SUBSET S \subseteq Good
  BY <1>1, BySize
<1>3. S \in Good
  BY <1>2
<1> QED
  BY <1>3 DEF Good

\* Sums of the same numbers are the same.
LEMMA TotalSame ==
    ASSUME NEW f, NEW g, NEW S, IsFiniteSet(S), \A x \in S : f[x] = g[x]
    PROVE  Total(f, S) = Total(g, S)
<1> DEFINE Good == {T \in SUBSET S : Total(f, T) = Total(g, T)}
<1>1. ASSUME NEW T \in SUBSET S,
             \A U \in SUBSET S : Cardinality(U) < Cardinality(T) => U \in Good
      PROVE  T \in Good
  <2>1. IsFiniteSet(T)
    BY FS_Subset
  <2>2. CASE T = {}
    BY <2>1, <2>2, TotalStep
  <2>3. CASE T # {}
    <3>1. Pick(T) \in T
      BY <2>3, PickIn
    <3>2. T \ {Pick(T)} \in SUBSET S /\ Cardinality(T \ {Pick(T)}) < Cardinality(T)
      BY <3>1, Smaller
    <3>3. Total(f, T \ {Pick(T)}) = Total(g, T \ {Pick(T)})
      BY <1>1, <3>2
    <3>4. f[Pick(T)] = g[Pick(T)]
      BY <3>1
    <3>5. /\ Total(f, T) = f[Pick(T)] + Total(f, T \ {Pick(T)})
          /\ Total(g, T) = g[Pick(T)] + Total(g, T \ {Pick(T)})
      BY <2>1, <2>3, TotalStep
    <3>6. Total(f, T) = Total(g, T)
      BY <3>3, <3>4, <3>5
    <3> QED
      BY <3>6
  <2> QED
    BY <2>2, <2>3
<1> HIDE DEF Good
<1>2. SUBSET S \subseteq Good
  BY <1>1, BySize
<1>3. S \in Good
  BY <1>2
<1> QED
  BY <1>3 DEF Good

LEMMA TotalZero ==
    ASSUME NEW f, NEW S, IsFiniteSet(S), \A x \in S : f[x] = 0
    PROVE  Total(f, S) = 0
<1> DEFINE Good == {T \in SUBSET S : Total(f, T) = 0}
<1>1. ASSUME NEW T \in SUBSET S,
             \A U \in SUBSET S : Cardinality(U) < Cardinality(T) => U \in Good
      PROVE  T \in Good
  <2>1. IsFiniteSet(T)
    BY FS_Subset
  <2>2. CASE T = {}
    BY <2>1, <2>2, TotalStep
  <2>3. CASE T # {}
    <3>1. Pick(T) \in T
      BY <2>3, PickIn
    <3>2. T \ {Pick(T)} \in SUBSET S /\ Cardinality(T \ {Pick(T)}) < Cardinality(T)
      BY <3>1, Smaller
    <3>3. Total(f, T \ {Pick(T)}) = 0
      BY <1>1, <3>2
    <3>4. f[Pick(T)] = 0
      BY <3>1
    <3>5. Total(f, T) = f[Pick(T)] + Total(f, T \ {Pick(T)})
      BY <2>1, <2>3, TotalStep
    <3>6. Total(f, T) = 0
      BY <3>3, <3>4, <3>5
    <3> QED
      BY <3>6
  <2> QED
    BY <2>2, <2>3
<1> HIDE DEF Good
<1>2. SUBSET S \subseteq Good
  BY <1>1, BySize
<1>3. S \in Good
  BY <1>2
<1> QED
  BY <1>3 DEF Good

\* A sum in two parts.
LEMMA TotalParts ==
    ASSUME NEW D, NEW f \in [D -> Nat], NEW S \in SUBSET D, IsFiniteSet(S), NEW A \in SUBSET S
    PROVE  Total(f, S) = Total(f, A) + Total(f, S \ A)
<1> DEFINE Good == {T \in SUBSET A : Total(f, S) = Total(f, T) + Total(f, S \ T)}
<1>0. IsFiniteSet(A)
  BY FS_Subset
<1>1. ASSUME NEW T \in SUBSET A,
             \A U \in SUBSET A : Cardinality(U) < Cardinality(T) => U \in Good
      PROVE  T \in Good
  <2>1. IsFiniteSet(T) /\ T \in SUBSET S
    BY <1>0, FS_Subset
  <2>2. CASE T = {}
    <3>1. Total(f, T) = 0 /\ S \ T = S /\ Total(f, S) \in Nat
      BY <2>1, <2>2, TotalStep, TotalType
    <3>2. Total(f, S) = Total(f, T) + Total(f, S \ T)
      BY <3>1
    <3> QED
      BY <3>2
  <2>3. CASE T # {}
    <3> DEFINE x == Pick(T)
               U == T \ {x}
    <3>1. x \in T
      BY <2>3, PickIn
    <3>2. U \in SUBSET A /\ Cardinality(U) < Cardinality(T) /\ IsFiniteSet(U)
      BY <1>0, <3>1, Smaller
    <3> HIDE DEF x
    <3>3. Total(f, S) = Total(f, U) + Total(f, S \ U)
      BY <1>1, <3>2
    <3>4. Total(f, T) = f[x] + Total(f, U)
      BY <2>1, <3>1, TotalRemove
    <3>5. Total(f, S \ U) = f[x] + Total(f, S \ T)
      <4>1. x \in S \ U /\ (S \ U) \ {x} = S \ T
        BY <2>1, <3>1
      <4>2. S \ U \in SUBSET D /\ IsFiniteSet(S \ U)
        BY FS_Subset
      <4> QED
        BY <4>1, <4>2, TotalRemove
    <3>6. f[x] \in Nat /\ Total(f, U) \in Nat /\ Total(f, S \ T) \in Nat
      <4>1. U \in SUBSET D /\ S \ T \in SUBSET D /\ IsFiniteSet(S \ T)
        BY FS_Subset
      <4> QED
        BY <2>1, <3>1, <3>2, <4>1, TotalType
    <3> HIDE DEF U
    <3>7. Total(f, S) = Total(f, T) + Total(f, S \ T)
      BY <3>3, <3>4, <3>5, <3>6
    <3> QED
      BY <3>7
  <2> QED
    BY <2>2, <2>3
<1> HIDE DEF Good
<1>2. SUBSET A \subseteq Good
  BY <1>0, <1>1, BySize
<1>3. A \in Good
  BY <1>2
<1> QED
  BY <1>3 DEF Good

LEMMA TotalOfPart ==
    ASSUME NEW D, NEW f \in [D -> Nat], NEW S \in SUBSET D, IsFiniteSet(S), NEW A \in SUBSET S
    PROVE  Total(f, A) \in Nat /\ Total(f, S) \in Nat /\ Total(f, A) <= Total(f, S)
<1>1. A \in SUBSET D /\ IsFiniteSet(A) /\ S \ A \in SUBSET D /\ IsFiniteSet(S \ A)
  BY FS_Subset
<1>2. Total(f, A) \in Nat /\ Total(f, S) \in Nat /\ Total(f, S \ A) \in Nat
  BY <1>1, TotalType
<1>3. Total(f, S) = Total(f, A) + Total(f, S \ A)
  BY TotalParts
<1> QED
  BY <1>2, <1>3

\* The ticks of the clock, and the stretches of them that Within adds up over.
Ticks == 0..MaxClock

Stretch(t, length) == {u \in t..(t + length - 1) : u <= MaxClock}

LEMMA TicksFinite ==
    ASSUME NEW S \in SUBSET Ticks
    PROVE  IsFiniteSet(S)
<1>1. 0 \in Int /\ MaxClock \in Int
  BY LimitsAssumption
<1>2. IsFiniteSet(0..MaxClock)
  BY <1>1, FS_Interval
<1> QED
  BY <1>2, FS_Subset DEF Ticks

LEMMA WithinIsTotal ==
    ASSUME NEW counts, NEW t, NEW length
    PROVE  Within(counts, t, length) = Total(counts, Stretch(t, length))
BY Zenon DEF Within, Total, Stretch

LEMMA StretchIn ==
    ASSUME NEW t \in Ticks, NEW length \in Nat
    PROVE  /\ Stretch(t, length) \in SUBSET Ticks /\ IsFiniteSet(Stretch(t, length))
           /\ \A u : u \in Stretch(t, length) <=> u \in Ticks /\ t <= u /\ u < t + length
<1>1. MaxClock \in Nat
  BY LimitsAssumption
<1>2. \A u : u \in Stretch(t, length) <=> u \in Ticks /\ t <= u /\ u < t + length
  BY <1>1 DEF Stretch, Ticks
<1>3. Stretch(t, length) \in SUBSET Ticks
  BY <1>2
<1> QED
  BY <1>2, <1>3, TicksFinite

Grown(f, x, k, g) ==
    /\ f \in [Ticks -> Nat] /\ g \in [Ticks -> Nat] /\ x \in Ticks /\ k \in Nat
    /\ \A y \in Ticks : g[y] = IF y = x THEN f[x] + k ELSE f[y]

\* One number grows, and every sum that has it by as much.
LEMMA CountGrows ==
    ASSUME NEW f, NEW g, NEW x, NEW k, Grown(f, x, k, g), NEW S \in SUBSET Ticks
    PROVE  Total(g, S) = IF x \in S THEN Total(f, S) + k ELSE Total(f, S)
<1> USE DEF Grown
<1>0. IsFiniteSet(S) /\ IsFiniteSet(S \ {x}) /\ S \ {x} \in SUBSET Ticks
  BY TicksFinite
<1>1. CASE x \in S
  <2>1. Total(g, S \ {x}) = Total(f, S \ {x})
    <3>1. \A y \in S \ {x} : g[y] = f[y]
      OBVIOUS
    <3> QED
      BY <1>0, <3>1, TotalSame
  <2>2. Total(f, S) = f[x] + Total(f, S \ {x})
    BY <1>0, <1>1, TotalRemove
  <2>3. Total(g, S) = g[x] + Total(g, S \ {x})
    BY <1>0, <1>1, TotalRemove
  <2>4. g[x] = f[x] + k /\ f[x] \in Nat /\ Total(f, S \ {x}) \in Nat
    BY <1>0, TotalType
  <2> QED
    BY <1>1, <2>1, <2>2, <2>3, <2>4
<1>2. CASE x \notin S
  <2>1. \A y \in S : g[y] = f[y]
    BY <1>2
  <2>2. Total(g, S) = Total(f, S)
    BY <1>0, <2>1, TotalSame
  <2> QED
    BY <1>2, <2>2
<1> QED
  BY <1>1, <1>2

-----------------------------------------------------------------------------
(***************************************************************************)
(* The lockout of logins.                                                  *)
(***************************************************************************)
\* The failures of the record are among those that failed in its window.
FailuresCounted ==
    /\ logins.startedAt \in 0..clock
    /\ logins.failures <= Total(failed, Stretch(logins.startedAt, LoginWindow))

LoginsInv ==
    /\ clock \in Ticks /\ failed \in [Ticks -> Nat]
    /\ logins \in [startedAt : Int, failures : Nat, lockedUntil : Nat]
    /\ logins = NoLogins \/ FailuresCounted
    /\ logins.lockedUntil > 0 => logins.failures >= MaxFailures

LEMMA LoginsSame ==
    ASSUME LoginsInv, logins' = logins, failed' = failed, clock' \in Ticks, clock <= clock'
    PROVE  LoginsInv'
<1>1. clock \in Int /\ clock' \in Int
  BY LimitsAssumption DEF LoginsInv, Ticks
<1>2. FailuresCounted => FailuresCounted'
  BY <1>1 DEF FailuresCounted
<1> QED
  BY <1>2 DEF LoginsInv, NoLogins

LEMMA NoLoginsKept ==
    ASSUME logins' = NoLogins, failed' \in [Ticks -> Nat], clock' \in Ticks
    PROVE  LoginsInv'
<1>1. LoginWindow \in Nat
  BY LimitsAssumption
<1>2. NoLogins \in [startedAt : Int, failures : Nat, lockedUntil : Nat] /\ NoLogins.lockedUntil = 0
  BY <1>1 DEF NoLogins
<1>3. NoLogins' = NoLogins
  BY DEF NoLogins
<1> QED
  BY <1>2, <1>3 DEF LoginsInv

LEMMA LoginFailsKeeps ==
    ASSUME LoginsInv, LoginFails
    PROVE  LoginsInv'
<1> DEFINE r == Record
           after == [r EXCEPT
                      !.failures = @ + 1,
                      !.lockedUntil = IF r.failures + 1 >= MaxFailures
                                      THEN clock + LoginLockout ELSE @]
<1>1. /\ LoginWindow \in Nat \ {0} /\ LoginLockout \in Nat /\ MaxFailures \in Nat \ {0}
      /\ MaxClock \in Nat
  BY LimitsAssumption
<1>2. clock \in Nat /\ clock <= MaxClock /\ clock \in Ticks
  BY <1>1 DEF LoginsInv, Ticks
<1>3. failed \in [Ticks -> Nat] /\ logins \in [startedAt : Int, failures : Nat, lockedUntil : Nat]
  BY DEF LoginsInv
<1>4. r \in [startedAt : Int, failures : Nat, lockedUntil : Nat]
  BY <1>2, <1>3 DEF Record
<1>5. /\ r.startedAt \in 0..clock /\ clock < r.startedAt + LoginWindow
      /\ r.failures <= Total(failed, Stretch(r.startedAt, LoginWindow))
  <2>1. CASE clock - logins.startedAt >= LoginWindow
    <3>1. r.startedAt = clock /\ r.failures = 0
      BY <2>1 DEF Record
    <3>2. Total(failed, Stretch(clock, LoginWindow)) \in Nat
      BY <1>1, <1>2, <1>3, StretchIn, TotalType
    <3> QED
      BY <1>1, <1>2, <3>1, <3>2
  <2>2. CASE ~(clock - logins.startedAt >= LoginWindow)
    <3>1. r = logins
      BY <2>2 DEF Record
    <3>2. logins # NoLogins
      <4>1. NoLogins.startedAt = 0 - LoginWindow
        BY DEF NoLogins
      <4> QED
        BY <1>1, <1>2, <2>2, <4>1
    <3>3. FailuresCounted
      BY <3>2 DEF LoginsInv
    <3>4. logins.startedAt \in 0..clock /\ clock < logins.startedAt + LoginWindow
      BY <1>1, <1>2, <1>3, <2>2, <3>3 DEF FailuresCounted
    <3> QED
      BY <3>1, <3>3, <3>4 DEF FailuresCounted
  <2> QED
    BY <2>1, <2>2
<1>6. r.lockedUntil > 0 => r.failures >= MaxFailures
  BY <1>1 DEF LoginsInv, Record
<1> HIDE DEF r
<1>7. /\ after \in [startedAt : Int, failures : Nat, lockedUntil : Nat]
      /\ after.startedAt = r.startedAt /\ after.failures = r.failures + 1
      /\ after.lockedUntil = IF r.failures + 1 >= MaxFailures
                            THEN clock + LoginLockout ELSE r.lockedUntil
  <2> DEFINE until == IF r.failures + 1 >= MaxFailures THEN clock + LoginLockout ELSE r.lockedUntil
  <2>1. until \in Nat
    BY <1>1, <1>2, <1>4
  <2>2. after = [r EXCEPT !.failures = @ + 1, !.lockedUntil = until]
    OBVIOUS
  <2> HIDE DEF until, after
  <2>3. /\ after \in [startedAt : Int, failures : Nat, lockedUntil : Nat]
        /\ after.startedAt = r.startedAt /\ after.failures = r.failures + 1
        /\ after.lockedUntil = until
    <3>1. r.failures + 1 \in Nat
      BY <1>4
    <3>2. after = [startedAt |-> r.startedAt, failures |-> r.failures + 1, lockedUntil |-> until]
      BY <1>4, <2>2
    <3> QED
      BY <1>4, <2>1, <3>1, <3>2
  <2> QED
    BY <2>3 DEF until
<1>8. logins' = after /\ failed' = [failed EXCEPT ![clock] = @ + 1] /\ clock' = clock
  BY DEF LoginFails, after, r
<1> HIDE DEF after
<1>9. failed' \in [Ticks -> Nat]
      /\ \A S \in SUBSET Ticks :
            Total(failed', S) = IF clock \in S THEN Total(failed, S) + 1 ELSE Total(failed, S)
  <2>1. failed' \in [Ticks -> Nat]
        /\ \A y \in Ticks : failed'[y] = IF y = clock THEN failed[clock] + 1 ELSE failed[y]
    BY <1>2, <1>3, <1>8
  <2>2. Grown(failed, clock, 1, failed')
    BY <1>2, <1>3, <2>1 DEF Grown
  <2> QED
    BY <2>1, <2>2, CountGrows
<1>10. logins'.failures <= Total(failed', Stretch(logins'.startedAt, LoginWindow))
  <2> DEFINE S == Stretch(r.startedAt, LoginWindow)
  <2>1. r.startedAt \in Ticks
    BY <1>1, <1>2, <1>5 DEF Ticks
  <2>2. S \in SUBSET Ticks /\ IsFiniteSet(S) /\ clock \in S
    BY <1>1, <1>2, <1>5, <2>1, StretchIn
  <2>3. Total(failed, S) \in Nat
    BY <1>3, <2>2, TotalType
  <2>4. Total(failed', S) = Total(failed, S) + 1
    BY <1>9, <2>2
  <2>5. r.failures <= Total(failed, S) /\ r.failures \in Nat
    BY <1>4, <1>5
  <2> HIDE DEF S
  <2>6. r.failures + 1 <= Total(failed', S)
    BY <2>3, <2>4, <2>5
  <2> QED
    BY <1>7, <1>8, <2>6 DEF S
<1>11. FailuresCounted'
  BY <1>5, <1>7, <1>8, <1>10 DEF FailuresCounted
<1>12. after.lockedUntil > 0 => after.failures >= MaxFailures
  BY <1>1, <1>2, <1>4, <1>6, <1>7
<1> QED
  BY <1>2, <1>7, <1>8, <1>9, <1>11, <1>12 DEF LoginsInv

\* check, recordFailure and recordSuccess: who is refused a login without its password
\* being looked at has failed as often as that within one window, and none of the logins
\* has succeeded since; for every length of the window and of the lockout.
THEOREM LocksForCause == LimitsSpec => []LockedForCause
<1>1. LimitsInit => LoginsInv
  <2> SUFFICES ASSUME LimitsInit PROVE LoginsInv
    OBVIOUS
  <2>1. MaxClock \in Nat /\ LoginWindow \in Nat
    BY LimitsAssumption
  <2>2. clock \in Ticks /\ failed \in [Ticks -> Nat]
    BY <2>1 DEF LimitsInit, Ticks
  <2>3. logins = NoLogins
    BY DEF LimitsInit
  <2>4. NoLogins \in [startedAt : Int, failures : Nat, lockedUntil : Nat] /\ NoLogins.lockedUntil = 0
    BY <2>1 DEF NoLogins
  <2> QED
    BY <2>2, <2>3, <2>4 DEF LoginsInv
<1>2. LoginsInv /\ [LimitsNext]_limitVars => LoginsInv'
  <2> SUFFICES ASSUME LoginsInv, [LimitsNext]_limitVars PROVE LoginsInv'
    OBVIOUS
  <2>0. clock \in Ticks /\ clock \in Int /\ MaxClock \in Nat
    BY LimitsAssumption DEF LoginsInv, Ticks
  <2>1. CASE Tick
    <3>1. clock' \in Ticks /\ clock <= clock' /\ logins' = logins /\ failed' = failed
      BY <2>0, <2>1 DEF Tick, Ticks
    <3> QED
      BY <3>1, LoginsSame
  <2>2. CASE Message \/ UNCHANGED limitVars
    <3>1. clock' = clock /\ logins' = logins /\ failed' = failed
      BY <2>2 DEF Message, limitVars
    <3> QED
      BY <2>0, <3>1, LoginsSame
  <2>3. CASE AskLogin
    <3>1. clock' = clock /\ failed' = failed /\ logins' \in {logins, NoLogins}
      BY <2>3 DEF AskLogin
    <3>2. failed' \in [Ticks -> Nat]
      BY <3>1 DEF LoginsInv
    <3> QED
      BY <2>0, <3>1, <3>2, LoginsSame, NoLoginsKept
  <2>4. CASE LoginFails
    BY <2>4, LoginFailsKeeps
  <2>5. CASE LoginSucceeds
    <3>1. clock' = clock /\ logins' = NoLogins /\ failed' \in [Ticks -> Nat]
      BY <2>5 DEF LoginSucceeds, Ticks
    <3> QED
      BY <2>0, <3>1, NoLoginsKept
  <2> QED
    BY <2>1, <2>2, <2>3, <2>4, <2>5 DEF LimitsNext, MessagesNext, LoginsNext
<1>3. LoginsInv => LockedForCause
  <2> SUFFICES ASSUME LoginsInv, ~LoginAllowed
               PROVE  \E t \in 0..MaxClock : Within(failed, t, LoginWindow) >= MaxFailures
    BY DEF LockedForCause
  <2>1. MaxClock \in Nat /\ MaxFailures \in Nat \ {0} /\ LoginWindow \in Nat
    BY LimitsAssumption
  <2>2. clock \in Nat /\ logins.lockedUntil \in Nat /\ logins.lockedUntil > clock
        /\ logins.failures \in Nat
    BY <2>1 DEF LoginsInv, LoginAllowed, Ticks
  <2>3. logins.failures >= MaxFailures
    BY <2>2 DEF LoginsInv
  <2>4. logins # NoLogins
    BY <2>1, <2>3 DEF NoLogins
  <2>5. FailuresCounted
    BY <2>4 DEF LoginsInv
  <2>6. logins.startedAt \in 0..MaxClock
    BY <2>1, <2>2, <2>5 DEF FailuresCounted, LoginsInv, Ticks
  <2>7. Within(failed, logins.startedAt, LoginWindow) >= logins.failures
    <3>1. Total(failed, Stretch(logins.startedAt, LoginWindow)) \in Nat
      BY <2>1, <2>6, StretchIn, TotalType DEF LoginsInv, Ticks
    <3> QED
      BY <2>2, <2>5, <3>1, WithinIsTotal DEF FailuresCounted
  <2>8. Within(failed, logins.startedAt, LoginWindow) \in Nat
    BY <2>1, <2>6, StretchIn, TotalType, WithinIsTotal DEF LoginsInv, Ticks
  <2>9. Within(failed, logins.startedAt, LoginWindow) >= MaxFailures
    BY <2>1, <2>2, <2>3, <2>7, <2>8
  <2> QED
    BY <2>6, <2>9
<1> QED
  BY <1>1, <1>2, <1>3, PTL DEF LimitsSpec

-----------------------------------------------------------------------------
(***************************************************************************)
(* The message window.                                                     *)
(***************************************************************************)
\* What a sender was told last is the end of the window there is, or past.
WindowInv ==
    /\ clock \in Nat /\ retryAt \in Int
    /\ bucket \in [startedAt : Int, count : Nat] /\ bucket.startedAt <= clock
    /\ retryAt <= bucket.startedAt \/ retryAt = bucket.startedAt + Window

LEMMA MessageKeeps ==
    ASSUME WindowInv, Message
    PROVE  WindowInv'
<1> DEFINE state == [Current EXCEPT !.count = Current.count + 1]
<1>1. clock \in Nat /\ retryAt \in Int /\ Window \in Nat \ {0}
      /\ bucket.startedAt \in Int /\ bucket.count \in Nat /\ bucket.startedAt <= clock
  BY LimitsAssumption DEF WindowInv
<1>2. Current \in [startedAt : Int, count : Nat]
  BY <1>1 DEF WindowInv, Current
<1>3. /\ state \in [startedAt : Int, count : Nat]
      /\ state.startedAt = Current.startedAt
  BY <1>2
<1> HIDE DEF state
<1>4. \/ Current.startedAt = bucket.startedAt
      \/ Current.startedAt = clock /\ clock >= bucket.startedAt + Window
  BY <1>1 DEF Current
<1>5. bucket' = state /\ clock' = clock /\ retryAt' \in {retryAt, state.startedAt + Window}
  BY DEF Message, state
<1>6. bucket'.startedAt = Current.startedAt
  BY <1>3, <1>5
<1>7. Current.startedAt \in Int /\ Current.startedAt <= clock
  BY <1>1, <1>4
<1>8. retryAt' <= Current.startedAt \/ retryAt' = Current.startedAt + Window
  BY <1>1, <1>3, <1>4, <1>5 DEF WindowInv
<1>9. retryAt' \in Int
  BY <1>1, <1>3, <1>5, <1>7
<1> QED
  BY <1>1, <1>3, <1>5, <1>6, <1>7, <1>8, <1>9 DEF WindowInv

\* consume: who waits as long as retryAfterMs says is let through, unless a window that
\* has begun since is full; for every length and size of the window.
THEOREM WaitingSuffices == LimitsSpec => []WaitingIsEnough
<1>1. LimitsInit => WindowInv
  BY LimitsAssumption DEF LimitsInit, WindowInv, NoBucket
<1>2. WindowInv /\ [LimitsNext]_limitVars => WindowInv'
  <2> SUFFICES ASSUME WindowInv, [LimitsNext]_limitVars PROVE WindowInv'
    OBVIOUS
  <2>1. CASE Tick
    BY <2>1 DEF Tick, WindowInv
  <2>2. CASE Message
    BY <2>2, MessageKeeps
  <2>3. CASE AskLogin \/ LoginFails \/ LoginSucceeds \/ UNCHANGED limitVars
    <3>1. UNCHANGED <<clock, bucket, retryAt>>
      BY <2>3 DEF AskLogin, LoginFails, LoginSucceeds, limitVars
    <3> QED
      BY <3>1 DEF WindowInv
  <2> QED
    BY <2>1, <2>2, <2>3 DEF LimitsNext, MessagesNext, LoginsNext
<1>3. WindowInv => WaitingIsEnough
  <2> SUFFICES ASSUME WindowInv, clock >= retryAt, bucket.startedAt < retryAt
               PROVE  Current.count < MaxInWindow
    BY DEF WaitingIsEnough
  <2>1. Window \in Nat /\ MaxInWindow \in Nat \ {0}
    BY LimitsAssumption
  <2>2. clock - bucket.startedAt >= Window
    BY <2>1 DEF WindowInv
  <2> QED
    BY <2>1, <2>2 DEF Current
<1> QED
  BY <1>1, <1>2, <1>3, PTL DEF LimitsSpec

Since(t) == {u \in Ticks : u >= t}

\* The window before the one that begins at t.
Before(t) == {u \in Ticks : t - Window < u /\ u < t}

\* What has passed in this window and in the one before.
Passed ==
    /\ Total(admitted, Since(bucket.startedAt)) <= bucket.count
    /\ Total(admitted, Since(bucket.startedAt)) <= MaxInWindow
    /\ Total(admitted, Before(bucket.startedAt)) <= MaxInWindow
    /\ \A u \in Ticks : u > clock \/ u >= bucket.startedAt + Window => admitted[u] = 0

BurstInv ==
    /\ clock \in Ticks /\ admitted \in [Ticks -> Nat]
    /\ bucket \in [startedAt : Int, count : Nat] /\ bucket.startedAt <= clock
    /\ Passed /\ BurstIsBounded

LEMMA TotalInTicks ==
    ASSUME NEW f \in [Ticks -> Nat], NEW S \in SUBSET Ticks, NEW A \in SUBSET S
    PROVE  /\ Total(f, S) \in Nat /\ Total(f, A) \in Nat
           /\ Total(f, A) <= Total(f, S)
           /\ Total(f, S) = Total(f, A) + Total(f, S \ A)
<1>1. IsFiniteSet(S)
  BY TicksFinite
<1> QED
  BY <1>1, TotalOfPart, TotalParts

\* A stretch of a window's length around t is covered by the time since t and the window before.
LEMMA TwoWindows ==
    ASSUME NEW f \in [Ticks -> Nat], NEW b \in Int, NEW n \in Nat, NEW t \in Ticks, NEW x \in Ticks,
           x \in Stretch(t, Window), x >= b,
           Total(f, Since(b)) <= n, Total(f, Before(b)) <= n
    PROVE  Within(f, t, Window) <= 2 * n
<1> DEFINE S == Stretch(t, Window)
           A == {u \in S : u < b}
<1>1. Window \in Nat /\ MaxClock \in Nat
  BY LimitsAssumption
<1>2. S \in SUBSET Ticks /\ \A u : u \in S <=> u \in Ticks /\ t <= u /\ u < t + Window
  BY <1>1, StretchIn
<1>3. Ticks \subseteq Int
  BY DEF Ticks
<1> HIDE DEF S
<1>4. A \in SUBSET S /\ Before(b) \in SUBSET Ticks /\ Since(b) \in SUBSET Ticks
  BY <1>2 DEF Before, Since
<1>5. A \in SUBSET Before(b)
  <2>1. x \in S
    BY DEF S
  <2>2. b - Window < t
    BY <1>1, <1>2, <1>3, <2>1
  <2>3. ASSUME NEW u \in A PROVE u \in Before(b)
    <3>1. u \in Ticks /\ t <= u /\ u < b /\ u \in Int /\ t \in Int
      BY <1>2, <1>3
    <3> QED
      BY <1>1, <2>2, <3>1 DEF Before
  <2> QED
    BY <2>3
<1>6. S \ A \in SUBSET Since(b)
  <2>1. ASSUME NEW u \in S \ A PROVE u \in Since(b)
    <3>1. u \in Ticks /\ ~(u < b) /\ u \in Int
      BY <1>2, <1>3
    <3> QED
      BY <3>1 DEF Since
  <2> QED
    BY <2>1
<1> HIDE DEF A
<1>7. Total(f, A) <= Total(f, Before(b)) /\ Total(f, A) \in Nat /\ Total(f, Before(b)) \in Nat
  BY <1>4, <1>5, TotalInTicks
<1>8. Total(f, S \ A) <= Total(f, Since(b)) /\ Total(f, S \ A) \in Nat /\ Total(f, Since(b)) \in Nat
  BY <1>4, <1>6, TotalInTicks
<1>9. Total(f, S) = Total(f, A) + Total(f, S \ A)
  BY <1>2, <1>4, TotalInTicks
<1>10. Within(f, t, Window) = Total(f, S)
  BY WithinIsTotal DEF S
<1> QED
  BY <1>7, <1>8, <1>9, <1>10

\* A message that begins a window, or is counted in the one there is.
LEMMA MessageCounts ==
    ASSUME BurstInv, Message
    PROVE  \E k \in {0, 1} :
              /\ clock' = clock
              /\ admitted' \in [Ticks -> Nat]
              /\ \A y \in Ticks : admitted'[y] = IF y = clock THEN admitted[clock] + k ELSE admitted[y]
              /\ bucket' \in [startedAt : Int, count : Nat]
              /\ k = 1 => bucket'.count <= MaxInWindow
              /\ \/ /\ bucket'.startedAt = bucket.startedAt /\ clock < bucket.startedAt + Window
                    /\ bucket'.count = bucket.count + 1
                 \/ /\ bucket'.startedAt = clock /\ clock >= bucket.startedAt + Window
                    /\ bucket'.count = 1
<1> DEFINE state == [Current EXCEPT !.count = Current.count + 1]
           k == IF state.count <= MaxInWindow THEN 1 ELSE 0
<1>1. /\ clock \in Ticks /\ clock \in Int /\ Window \in Nat \ {0} /\ MaxInWindow \in Nat
      /\ bucket \in [startedAt : Int, count : Nat] /\ admitted \in [Ticks -> Nat]
  BY LimitsAssumption DEF BurstInv, Ticks
<1>2. /\ Current \in [startedAt : Int, count : Nat]
      /\ \/ /\ Current.startedAt = bucket.startedAt /\ clock < bucket.startedAt + Window
            /\ Current.count = bucket.count
         \/ /\ Current.startedAt = clock /\ clock >= bucket.startedAt + Window
            /\ Current.count = 0
  BY <1>1 DEF Current
<1>3. /\ state \in [startedAt : Int, count : Nat]
      /\ state.startedAt = Current.startedAt /\ state.count = Current.count + 1
  BY <1>2
<1>4. bucket' = state /\ clock' = clock /\ admitted' = [admitted EXCEPT ![clock] = @ + k]
  BY DEF Message
<1>5. k \in {0, 1} /\ k \in Nat /\ (k = 1 => state.count <= MaxInWindow)
  OBVIOUS
<1> HIDE DEF k, state
<1>6. /\ admitted' \in [Ticks -> Nat]
      /\ \A y \in Ticks : admitted'[y] = IF y = clock THEN admitted[clock] + k ELSE admitted[y]
  BY <1>1, <1>4, <1>5
<1>7. \/ /\ bucket'.startedAt = bucket.startedAt /\ clock < bucket.startedAt + Window
         /\ bucket'.count = bucket.count + 1
      \/ /\ bucket'.startedAt = clock /\ clock >= bucket.startedAt + Window
         /\ bucket'.count = 1
  BY <1>1, <1>2, <1>3, <1>4
<1>8. bucket' \in [startedAt : Int, count : Nat] /\ (k = 1 => bucket'.count <= MaxInWindow)
  BY <1>3, <1>4, <1>5
<1>9. clock' = clock /\ k \in {0, 1}
  BY <1>4, <1>5
<1> HIDE DEF k
<1> QED
  BY <1>6, <1>7, <1>8, <1>9

LEMMA BurstMessageKeeps ==
    ASSUME BurstInv, Message
    PROVE  BurstInv'
<1> DEFINE b == bucket.startedAt
           c == bucket'.startedAt
<1>1. PICK k \in {0, 1} :
        /\ clock' = clock
        /\ admitted' \in [Ticks -> Nat]
        /\ \A y \in Ticks : admitted'[y] = IF y = clock THEN admitted[clock] + k ELSE admitted[y]
        /\ bucket' \in [startedAt : Int, count : Nat]
        /\ k = 1 => bucket'.count <= MaxInWindow
        /\ \/ c = b /\ clock < b + Window /\ bucket'.count = bucket.count + 1
           \/ c = clock /\ clock >= b + Window /\ bucket'.count = 1
  BY MessageCounts
<1>2. /\ clock \in Ticks /\ clock \in Int /\ Window \in Nat \ {0} /\ MaxInWindow \in Nat \ {0}
      /\ admitted \in [Ticks -> Nat] /\ b \in Int /\ c \in Int /\ b <= clock /\ c <= clock
      /\ bucket.count \in Nat /\ bucket'.count \in Nat /\ Ticks \subseteq Int /\ k \in Nat
  BY <1>1, LimitsAssumption DEF BurstInv, Ticks
<1>3. ASSUME NEW S \in SUBSET Ticks
      PROVE  /\ Total(admitted', S) = IF clock \in S THEN Total(admitted, S) + k ELSE Total(admitted, S)
             /\ Total(admitted, S) \in Nat
  <2>1. IsFiniteSet(S)
    BY TicksFinite
  <2>2. Total(admitted, S) \in Nat
    BY <1>2, <2>1, TotalType
  <2>3. Grown(admitted, clock, k, admitted')
    BY <1>1, <1>2 DEF Grown
  <2> QED
    BY <2>2, <2>3, CountGrows
<1>4. /\ Total(admitted, Since(b)) <= bucket.count /\ Total(admitted, Since(b)) <= MaxInWindow
      /\ Total(admitted, Before(b)) <= MaxInWindow
      /\ \A u \in Ticks : u > clock \/ u >= b + Window => admitted[u] = 0
  BY DEF BurstInv, Passed
<1>5. \A t : Since(t) \in SUBSET Ticks /\ Before(t) \in SUBSET Ticks
  BY DEF Since, Before
<1> HIDE DEF b, c
<1>6. clock \in Since(c) /\ clock \notin Before(c)
  BY <1>2 DEF Since, Before
<1>7. /\ Total(admitted', Since(c)) <= bucket'.count
      /\ Total(admitted', Since(c)) <= MaxInWindow
      /\ Total(admitted', Before(c)) <= MaxInWindow
      /\ \A u \in Ticks : u > clock \/ u >= c + Window => admitted'[u] = 0
  <2>1. /\ Total(admitted', Since(c)) = Total(admitted, Since(c)) + k
        /\ Total(admitted', Before(c)) = Total(admitted, Before(c))
        /\ Total(admitted, Since(c)) \in Nat
    BY <1>3, <1>5, <1>6
  <2>2. CASE c = b /\ clock < b + Window /\ bucket'.count = bucket.count + 1
    <3>1. Total(admitted', Since(c)) <= bucket'.count
      BY <1>1, <1>2, <1>4, <2>1, <2>2
    <3>2. Total(admitted', Since(c)) <= MaxInWindow
      BY <1>1, <1>2, <1>4, <2>1, <2>2, <3>1
    <3>3. \A u \in Ticks : u > clock \/ u >= c + Window => admitted'[u] = 0
      BY <1>1, <1>2, <1>4, <2>2
    <3> QED
      BY <1>4, <2>1, <2>2, <3>1, <3>2, <3>3
  <2>3. CASE c = clock /\ clock >= b + Window /\ bucket'.count = 1
    <3>1. Total(admitted, Since(c)) = 0
      <4>1. \A u \in Since(c) : admitted[u] = 0
        BY <1>2, <1>4, <2>3 DEF Since
      <4> QED
        BY <1>5, <4>1, TicksFinite, TotalZero
    <3>2. Total(admitted, Before(c)) <= Total(admitted, Since(b)) /\ Total(admitted, Before(c)) \in Nat
          /\ Total(admitted, Since(b)) \in Nat
      <4>1. Before(c) \in SUBSET Since(b)
        <5>1. ASSUME NEW u \in Before(c) PROVE u \in Since(b)
          <6>1. u \in Ticks /\ u \in Int /\ c - Window < u
            BY <1>2 DEF Before
          <6>2. u >= b
            BY <1>2, <2>3, <6>1
          <6> QED
            BY <6>1, <6>2 DEF Since
        <5> QED
          BY <5>1
      <4> QED
        BY <1>2, <1>5, <4>1, TotalInTicks
    <3>3. \A u \in Ticks : u > clock \/ u >= c + Window => admitted'[u] = 0
      BY <1>1, <1>2, <1>4, <2>3
    <3>4. k <= 1 /\ 1 <= MaxInWindow
      BY <1>2
    <3>5. Total(admitted', Before(c)) <= MaxInWindow
      BY <1>2, <1>4, <2>1, <3>2
    <3> QED
      BY <1>2, <2>1, <2>3, <3>1, <3>3, <3>4, <3>5
  <2> QED
    BY <1>1, <2>2, <2>3
<1>8. ASSUME NEW t \in 0..MaxClock
      PROVE  Within(admitted', t, Window) <= 2 * MaxInWindow
  <2>0. t \in Ticks /\ Stretch(t, Window) \in SUBSET Ticks
    BY <1>2, StretchIn DEF Ticks
  <2>1. CASE clock \in Stretch(t, Window)
    BY <1>1, <1>2, <1>7, <2>0, <2>1, TwoWindows
  <2>2. CASE clock \notin Stretch(t, Window)
    <3>1. Total(admitted', Stretch(t, Window)) = Total(admitted, Stretch(t, Window))
      BY <1>3, <2>0, <2>2
    <3>2. Within(admitted', t, Window) = Within(admitted, t, Window)
      BY <3>1, WithinIsTotal
    <3>3. Within(admitted, t, Window) <= 2 * MaxInWindow
      BY DEF BurstInv, BurstIsBounded
    <3> QED
      BY <3>2, <3>3
  <2> QED
    BY <2>1, <2>2
<1>9. BurstIsBounded'
  BY <1>8 DEF BurstIsBounded
<1>10. Passed'
  BY <1>1, <1>7 DEF Passed, c
<1> QED
  BY <1>1, <1>2, <1>9, <1>10 DEF BurstInv, c

LEMMA BurstSame ==
    ASSUME BurstInv, bucket' = bucket, admitted' = admitted, clock' \in Ticks, clock <= clock'
    PROVE  BurstInv'
<1>1. clock \in Int /\ clock' \in Int /\ Ticks \subseteq Int /\ bucket.startedAt \in Int
  BY DEF BurstInv, Ticks
<1>2. \A u \in Ticks : u > clock' \/ u >= bucket.startedAt + Window => admitted[u] = 0
  BY <1>1 DEF BurstInv, Passed
<1>3. Passed'
  BY <1>2 DEF BurstInv, Passed
<1>4. BurstIsBounded'
  BY DEF BurstInv, BurstIsBounded
<1> QED
  BY <1>1, <1>3, <1>4 DEF BurstInv

\* consume: two windows' worth of messages at most pass in any stretch of a window's length,
\* wherever it begins; for every length and size of the window.
THEOREM BurstsAreBounded == LimitsSpec => []BurstIsBounded
<1>1. LimitsInit => BurstInv
  <2> SUFFICES ASSUME LimitsInit PROVE BurstInv
    OBVIOUS
  <2>1. MaxClock \in Nat /\ Window \in Nat \ {0} /\ MaxInWindow \in Nat
    BY LimitsAssumption
  <2>2. clock = 0 /\ clock \in Ticks /\ admitted \in [Ticks -> Nat] /\ \A u \in Ticks : admitted[u] = 0
    BY <2>1 DEF LimitsInit, Ticks
  <2>3. bucket \in [startedAt : Int, count : Nat] /\ bucket.startedAt <= clock /\ bucket.count = 0
    BY <2>1, <2>2 DEF LimitsInit, NoBucket
  <2>4. ASSUME NEW S \in SUBSET Ticks PROVE Total(admitted, S) = 0
    <3>1. IsFiniteSet(S) /\ \A u \in S : admitted[u] = 0
      BY <2>2, TicksFinite
    <3> QED
      BY <3>1, TotalZero
  <2>5. Passed
    <3>1. Since(bucket.startedAt) \in SUBSET Ticks /\ Before(bucket.startedAt) \in SUBSET Ticks
      BY DEF Since, Before
    <3> QED
      BY <2>1, <2>2, <2>3, <2>4, <3>1 DEF Passed
  <2>6. BurstIsBounded
    <3>1. ASSUME NEW t \in 0..MaxClock PROVE Within(admitted, t, Window) <= 2 * MaxInWindow
      <4>1. Stretch(t, Window) \in SUBSET Ticks
        BY <2>1, StretchIn DEF Ticks
      <4>2. Within(admitted, t, Window) = 0
        BY <2>4, <4>1, WithinIsTotal
      <4> QED
        BY <2>1, <4>2
    <3> QED
      BY <3>1 DEF BurstIsBounded
  <2> QED
    BY <2>2, <2>3, <2>5, <2>6 DEF BurstInv
<1>2. BurstInv /\ [LimitsNext]_limitVars => BurstInv'
  <2> SUFFICES ASSUME BurstInv, [LimitsNext]_limitVars PROVE BurstInv'
    OBVIOUS
  <2>0. clock \in Ticks /\ clock \in Int /\ MaxClock \in Nat
    BY LimitsAssumption DEF BurstInv, Ticks
  <2>1. CASE Tick
    <3>1. clock' \in Ticks /\ clock <= clock' /\ bucket' = bucket /\ admitted' = admitted
      BY <2>0, <2>1 DEF Tick, Ticks
    <3> QED
      BY <3>1, BurstSame
  <2>2. CASE Message
    BY <2>2, BurstMessageKeeps
  <2>3. CASE AskLogin \/ LoginFails \/ LoginSucceeds \/ UNCHANGED limitVars
    <3>1. clock' = clock /\ bucket' = bucket /\ admitted' = admitted
      BY <2>3 DEF AskLogin, LoginFails, LoginSucceeds, limitVars
    <3> QED
      BY <2>0, <3>1, BurstSame
  <2> QED
    BY <2>1, <2>2, <2>3 DEF LimitsNext, MessagesNext, LoginsNext
<1>3. BurstInv => BurstIsBounded
  BY DEF BurstInv
<1> QED
  BY <1>1, <1>2, <1>3, PTL DEF LimitsSpec

\* consume: the window refuses neither too much nor too little.
THEOREM WindowKept == LimitsSpec => []WindowIsKept
BY WaitingSuffices, BurstsAreBounded, PTL DEF WindowIsKept

-----------------------------------------------------------------------------
(***************************************************************************)
(* The uploads of a blob.                                                  *)
(***************************************************************************)
\* Who may use the blob.
Entitled == owners \cup holders

\* Up to a restart, which forgets the owners: who is past initUpload is entitled,
\* unless the blob was verified then, and a blob that is there has somebody entitled.
EntitledInv ==
    /\ blob # "none" => Entitled # {}
    /\ \A u \in Uploader :
         /\ upload[u] \in {"put", "complete", "verifying"} => VaultOfUpload[u] \in Entitled
         /\ upload[u] = "uploaded" => blob # "none"
         /\ upload[u] = "forbidden" => \E v \in Entitled : v # VaultOfUpload[u]

BlobsInv ==
    /\ DOMAIN upload = Uploader
    /\ ~restarted => EntitledInv

\* Nobody loses the blob by what goes on in one upload.
LEMMA UploadMoves ==
    ASSUME BlobsInv, NEW u \in Uploader, NEW to,
           upload' = [upload EXCEPT ![u] = to],
           restarted' = restarted, Entitled \subseteq Entitled',
           blob # "none" => blob' # "none",
           ~restarted => /\ blob' # "none" => Entitled' # {}
                         /\ to \in {"put", "complete", "verifying"} => VaultOfUpload[u] \in Entitled'
                         /\ to = "uploaded" => blob' # "none"
                         /\ to = "forbidden" => \E v \in Entitled' : v # VaultOfUpload[u]
    PROVE  BlobsInv'
<1>1. /\ DOMAIN upload' = Uploader /\ upload'[u] = to
      /\ \A w \in Uploader : w # u => upload'[w] = upload[w]
  BY DEF BlobsInv
<1>2. ASSUME ~restarted' PROVE EntitledInv'
  <2>1. EntitledInv
    BY <1>2 DEF BlobsInv
  <2>2. ASSUME NEW w \in Uploader
        PROVE  /\ upload'[w] \in {"put", "complete", "verifying"} => VaultOfUpload[w] \in Entitled'
               /\ upload'[w] = "uploaded" => blob' # "none"
               /\ upload'[w] = "forbidden" => \E v \in Entitled' : v # VaultOfUpload[w]
    <3>1. CASE w = u
      BY <1>1, <1>2, <3>1
    <3>2. CASE w # u
      BY <1>1, <2>1, <3>2 DEF EntitledInv
    <3> QED
      BY <3>1, <3>2
  <2> QED
    BY <1>2, <2>2 DEF EntitledInv
<1> QED
  BY <1>1, <1>2 DEF BlobsInv

LEMMA BlobsStep == BlobsInv /\ [BlobsNext]_blobVars => BlobsInv'
<1> SUFFICES ASSUME BlobsInv, [BlobsNext]_blobVars PROVE BlobsInv'
  OBVIOUS
<1>1. ASSUME NEW u \in Uploader, InitReads(u) PROVE BlobsInv'
  <2> DEFINE to == IF blob = "verified" THEN "uploaded" ELSE "registering"
  <2>1. upload' = [upload EXCEPT ![u] = to] /\ UNCHANGED <<blob, owners, holders, restarted>>
    BY <1>1 DEF InitReads, At
  <2>2. to \in {"uploaded", "registering"} /\ (to = "uploaded" => blob # "none")
    OBVIOUS
  <2> HIDE DEF to
  <2>3. ~restarted => (blob # "none" => Entitled # {})
    BY DEF BlobsInv, EntitledInv
  <2>4. Entitled' = Entitled
    BY <2>1 DEF Entitled
  <2>5. /\ to \notin {"put", "complete", "verifying"} /\ to # "forbidden"
    BY <2>2
  <2> QED
    BY <2>1, <2>2, <2>3, <2>4, <2>5, UploadMoves
<1>2. ASSUME NEW u \in Uploader, InitSaves(u) PROVE BlobsInv'
  <2>1. /\ upload' = [upload EXCEPT ![u] = "put"] /\ blob' = "pending"
        /\ UNCHANGED <<holders, restarted>> /\ owners' = owners \cup {VaultOfUpload[u]}
    BY <1>2 DEF InitSaves, At
  <2>2. Entitled \subseteq Entitled' /\ VaultOfUpload[u] \in Entitled'
    BY <2>1 DEF Entitled
  <2> QED
    BY <2>1, <2>2, UploadMoves
<1>3. ASSUME NEW u \in Uploader, PutObject(u) \/ CompleteReads(u) \/ CompleteSaves(u)
      PROVE  BlobsInv'
  <2>1. PICK to \in {"complete", "verifying", "uploaded", "failed"} :
           /\ upload' = [upload EXCEPT ![u] = to]
           /\ upload[u] \in {"put", "complete", "verifying"}
           /\ to = "uploaded" => blob' = "verified"
           /\ blob' \in {blob, "verified"}
    BY <1>3 DEF PutObject, CompleteReads, CompleteSaves, At
  <2>2. UNCHANGED <<owners, holders, restarted>>
    BY <1>3 DEF PutObject, CompleteReads, CompleteSaves
  <2>3. Entitled' = Entitled
    BY <2>2 DEF Entitled
  <2>4. ~restarted => VaultOfUpload[u] \in Entitled
    BY <2>1 DEF BlobsInv, EntitledInv
  <2> QED
    BY <2>1, <2>2, <2>3, <2>4, UploadMoves
<1>4. ASSUME NEW u \in Uploader, Refer(u) PROVE BlobsInv'
  <2>1. PICK answer \in {"forbidden", "missing", "accepted"} :
           /\ upload[u] = "uploaded" /\ upload' = [upload EXCEPT ![u] = answer]
           /\ answer = "forbidden" => VaultOfUpload[u] \notin Entitled
           /\ IF answer = "accepted"
              THEN /\ holders' = holders \cup {VaultOfUpload[u]}
                   /\ owners' = owners \ {VaultOfUpload[u]}
              ELSE UNCHANGED <<holders, owners>>
           /\ UNCHANGED <<blob, restarted>>
    BY <1>4 DEF Refer, At, Entitled
  <2>2. Entitled \subseteq Entitled'
    BY <2>1 DEF Entitled
  <2>3. ~restarted => Entitled # {}
    BY <2>1 DEF BlobsInv, EntitledInv
  <2>4. ~restarted /\ answer = "forbidden" => \E v \in Entitled' : v # VaultOfUpload[u]
    BY <2>1, <2>2, <2>3
  <2> QED
    BY <2>1, <2>2, <2>3, <2>4, UploadMoves
<1>5. ASSUME NEW u \in Uploader, BreakOff(u) \/ UploadAgain(u) PROVE BlobsInv'
  <2>1. PICK to \in {"failed", "init"} : upload' = [upload EXCEPT ![u] = to]
    BY <1>5 DEF BreakOff, UploadAgain, At
  <2>2. UNCHANGED <<blob, owners, holders, restarted>>
    BY <1>5 DEF BreakOff, UploadAgain
  <2>3. Entitled' = Entitled
    BY <2>2 DEF Entitled
  <2>4. ~restarted => (blob # "none" => Entitled # {})
    BY DEF BlobsInv, EntitledInv
  <2> QED
    BY <2>1, <2>2, <2>3, <2>4, UploadMoves
<1>6. CASE RestartServer
  BY <1>6 DEF RestartServer, BlobsInv
<1>7. CASE UNCHANGED blobVars
  BY <1>7 DEF blobVars, BlobsInv, EntitledInv, Entitled
<1> QED
  BY <1>1, <1>2, <1>3, <1>4, <1>5, <1>6, <1>7 DEF BlobsNext

\* assertOpContentAccess: a vault that has sent a blob may refer to it, unless the blob
\* was verified before, for another vault, or the server has forgotten who had sent it;
\* for any number of uploads of any vaults.
THEOREM UploadsAreUsable == BlobsSpec => []OwnUploadIsUsable
<1>1. BlobsInit => BlobsInv
  BY DEF BlobsInit, BlobsInv, EntitledInv
<1>2. BlobsInv => OwnUploadIsUsable
  BY DEF BlobsInv, EntitledInv, Entitled, OwnUploadIsUsable
<1> QED
  BY <1>1, <1>2, BlobsStep, PTL DEF BlobsSpec

-----------------------------------------------------------------------------
(***************************************************************************)
(* Reconciliation and flushes.                                             *)
(***************************************************************************)
\* A finite set can be put in the order of numbers that its elements have.
LEMMA OrderExists ==
    ASSUME NEW S, IsFiniteSet(S), NEW key \in [S -> Nat]
    PROVE  \E s \in [1..Cardinality(S) -> S] :
              \A i, j \in DOMAIN s : i < j => s[i] # s[j] /\ key[s[i]] <= key[s[j]]
<1> DEFINE Sorted(s) == \A i, j \in DOMAIN s : i < j => s[i] # s[j] /\ key[s[i]] <= key[s[j]]
           Good == {T \in SUBSET S : \E s \in [1..Cardinality(T) -> T] : Sorted(s)}
<1>1. ASSUME NEW T \in SUBSET S,
             \A U \in SUBSET S : Cardinality(U) < Cardinality(T) => U \in Good
      PROVE  T \in Good
  <2>1. IsFiniteSet(T) /\ Cardinality(T) \in Nat
    BY FS_Subset, FS_CardinalityType
  <2>2. CASE T = {}
    <3>1. Cardinality(T) = 0
      BY <2>2, FS_EmptySet
    <3> DEFINE s == [i \in 1..Cardinality(T) |-> 0]
    <3>2. s \in [1..Cardinality(T) -> T] /\ Sorted(s)
      BY <3>1
    <3> QED
      BY <3>2
  <2>3. CASE T # {}
    <3>1. PICK x \in T : \A y \in T : key[x] <= key[y]
      <4> DEFINE keys == {key[y] : y \in T}
      <4>1. keys \subseteq Nat /\ keys # {}
        BY <2>3
      <4> HIDE DEF keys
      <4>2. PICK k \in keys : \A l \in keys : k <= l
        BY <4>1, LeastOf
      <4>3. PICK x \in T : k = key[x]
        BY <4>2 DEF keys
      <4> QED
        BY <4>2, <4>3 DEF keys
    <3> DEFINE U == T \ {x}
               n == Cardinality(U)
    <3>2. U \in SUBSET S /\ n < Cardinality(T) /\ n = Cardinality(T) - 1
      BY Smaller
    <3>3. PICK s \in [1..n -> U] : Sorted(s)
      BY <1>1, <3>2
    <3>4. n \in Nat /\ Cardinality(T) = n + 1
      BY <2>1, <3>2, FS_Subset, FS_CardinalityType
    <3> HIDE DEF n
    <3> DEFINE r == [i \in 1..(n + 1) |-> IF i = 1 THEN x ELSE s[i - 1]]
    <3>5. \A i \in 1..(n + 1) : i # 1 => i - 1 \in 1..n
      BY <3>4
    <3>6. r \in [1..(n + 1) -> T]
      BY <3>5
    <3>7. ASSUME NEW i \in 1..(n + 1), NEW j \in 1..(n + 1), i < j
          PROVE  r[i] # r[j] /\ key[r[i]] <= key[r[j]]
      <4>1. j # 1 /\ j - 1 \in 1..n /\ r[j] = s[j - 1] /\ s[j - 1] \in U
        BY <3>4, <3>5, <3>7
      <4>2. CASE i = 1
        BY <3>1, <3>4, <4>1, <4>2
      <4>3. CASE i # 1
        <5>1. i - 1 \in 1..n /\ i - 1 < j - 1 /\ r[i] = s[i - 1]
          BY <3>4, <3>5, <3>7, <4>3
        <5> QED
          BY <3>3, <4>1, <5>1
      <4> QED
        BY <4>2, <4>3
    <3>8. Sorted(r)
      BY <3>7
    <3> HIDE DEF r
    <3> QED
      BY <3>4, <3>6, <3>8
  <2> QED
    BY <2>2, <2>3
<1> HIDE DEF Good
<1>2. SUBSET S \subseteq Good
  BY <1>1, BySize
<1>3. S \in Good
  BY <1>2
<1> QED
  BY <1>3 DEF Good

\* All the elements of a set are in its order, each once.
IsOrderOf(s, S, key) ==
    LET n == Cardinality(S)
    IN  /\ n \in Nat
        /\ s \in [1..n -> S]
        /\ \A i, j \in 1..n : i < j => key[s[i]] <= key[s[j]]
        /\ \A i, j \in 1..n : s[i] = s[j] => i = j
        /\ \A x \in S : \E i \in 1..n : s[i] = x

LEMMA SortedByOrders ==
    ASSUME NEW S, IsFiniteSet(S), NEW key \in [S -> Nat]
    PROVE  IsOrderOf(SortedBy(S, key), S, key)
<1> SUFFICES ASSUME NEW s, s = SortedBy(S, key), NEW n, n = Cardinality(S)
             PROVE  IsOrderOf(s, S, key)
  OBVIOUS
<1>1. n \in Nat
  BY FS_CardinalityType
<1>2. s \in [1..n -> S] /\ \A i, j \in DOMAIN s : i < j => s[i] # s[j] /\ key[s[i]] <= key[s[j]]
  <2>1. \E r \in [1..n -> S] : \A i, j \in DOMAIN r : i < j => r[i] # r[j] /\ key[r[i]] <= key[r[j]]
    BY OrderExists
  <2>2. s = CHOOSE r \in [1..n -> S] : \A i, j \in DOMAIN r : i < j => r[i] # r[j] /\ key[r[i]] <= key[r[j]]
    BY DEF SortedBy
  <2> QED
    BY <2>1, <2>2, Zenon
<1>3. \A i, j \in 1..n : i < j => s[i] # s[j] /\ key[s[i]] <= key[s[j]]
  BY <1>2
<1>4. \A i, j \in 1..n : s[i] = s[j] => i = j
  <2>1. ASSUME NEW i \in 1..n, NEW j \in 1..n, s[i] = s[j], i # j
        PROVE  FALSE
    <3>1. i < j \/ j < i
      BY <1>1, <2>1
    <3> QED
      BY <1>3, <2>1, <3>1
  <2> QED
    BY <2>1
<1>5. \A x \in S : \E i \in 1..n : s[i] = x
  <2>1. s \in Injection(1..n, S)
    BY <1>2, <1>4 DEF Injection, IsInjective
  <2>2. IsFiniteSet(1..n) /\ Cardinality(1..n) = n
    BY <1>1, FS_Interval
  <2>3. s \in Surjection(1..n, S)
    BY <2>1, <2>2, FS_Injection
  <2> QED
    BY <2>3 DEF Surjection
<1> QED
  BY <1>1, <1>2, <1>3, <1>4, <1>5 DEF IsOrderOf

LEMMA AscendingOrders ==
    ASSUME NEW S \in SUBSET Nat, IsFiniteSet(S)
    PROVE  /\ Cardinality(S) \in Nat
           /\ Ascending(S) \in [1..Cardinality(S) -> S]
           /\ \A i, j \in 1..Cardinality(S) : i < j => Ascending(S)[i] < Ascending(S)[j]
           /\ \A i, j \in 1..Cardinality(S) : Ascending(S)[i] = Ascending(S)[j] => i = j
           /\ \A x \in S : \E i \in 1..Cardinality(S) : Ascending(S)[i] = x
<1> DEFINE key == [x \in S |-> x]
           n == Cardinality(S)
           s == Ascending(S)
<1>1. key \in [S -> Nat] /\ \A x \in S : key[x] = x
  OBVIOUS
<1>2. s = SortedBy(S, key)
  BY DEF Ascending
<1> HIDE DEF key, s, n
<1>0. IsOrderOf(s, S, key)
  BY <1>1, <1>2, SortedByOrders
<1>3. /\ n \in Nat /\ s \in [1..n -> S]
      /\ \A i, j \in 1..n : i < j => key[s[i]] <= key[s[j]]
      /\ \A i, j \in 1..n : s[i] = s[j] => i = j
      /\ \A x \in S : \E i \in 1..n : s[i] = x
  BY <1>0 DEF IsOrderOf, n
<1>4. ASSUME NEW i \in 1..n, NEW j \in 1..n, i < j
      PROVE  s[i] < s[j]
  <2>1. s[i] \in S /\ s[j] \in S /\ s[i] # s[j]
    BY <1>3, <1>4
  <2>2. key[s[i]] <= key[s[j]]
    BY <1>3, <1>4
  <2>3. s[i] <= s[j]
    BY <1>1, <2>1, <2>2
  <2>4. s[i] \in Nat /\ s[j] \in Nat
    BY <2>1
  <2> QED
    BY <2>1, <2>3, <2>4
<1> QED
  BY <1>3, <1>4 DEF n, s

LEMMA MaxInSet ==
    ASSUME NEW n \in Nat, NEW S \in SUBSET (1..n), S # {}
    PROVE  Max(S) \in S /\ \A y \in S : Max(S) >= y
<1> DEFINE left == {n - x : x \in S}
<1>1. left \subseteq Nat /\ left # {}
  <2>1. ASSUME NEW x \in S PROVE n - x \in Nat
    <3>1. x \in 1..n
      OBVIOUS
    <3> QED
      BY <3>1
  <2>2. left \subseteq Nat
    BY <2>1
  <2> QED
    BY <2>2
<1> HIDE DEF left
<1>2. PICK l \in left : \A m \in left : l <= m
  BY <1>1, LeastOf
<1>3. PICK x \in S : l = n - x
  BY <1>2 DEF left
<1>4. ASSUME NEW y \in S PROVE x >= y
  <2>1. n - y \in left
    BY DEF left
  <2>2. n - x <= n - y
    BY <1>2, <1>3, <2>1
  <2>3. x \in Nat /\ y \in Nat
    OBVIOUS
  <2> QED
    BY <2>2, <2>3
<1>5. \E z \in S : \A y \in S : z >= y
  BY <1>4
<1> QED
  BY <1>5, Zenon DEF Max

\* One round of the loop that matches paths with missing files, and the loop itself.
FreeFor(taken, p) ==
    {f \in Missing : tracked[f].text = scan[p] /\ \A r \in taken : r.file # f}

Matched(taken, p) ==
    taken \cup {[kind |-> "rename", file |-> Min(FreeFor(taken, p)), path |-> p] :
                    f \in {g \in {0} : FreeFor(taken, p) # {}}}

IsLoop(order, g) ==
    g = [s \in SUBSET DOMAIN order |->
            IF s = {} THEN {} ELSE Matched(g[s \ {Max(s)}], order[Max(s)])]

LoopsUpTo(order, n, g) ==
    \A s \in SUBSET DOMAIN order : Cardinality(s) <= n =>
        g[s] = IF s = {} THEN {} ELSE Matched(g[s \ {Max(s)}], order[Max(s)])

LEMMA LoopExists ==
    ASSUME NEW order, NEW len \in Nat, DOMAIN order = 1..len
    PROVE  \E g : IsLoop(order, g)
<1> DEFINE D == DOMAIN order
           Bad == {n \in Nat : ~\E g : LoopsUpTo(order, n, g)}
<1>0. IsFiniteSet(D)
  BY FS_Interval
<1>1. \A T \in SUBSET D : Cardinality(T) \in Nat /\ IsFiniteSet(T) /\ Cardinality(T) <= Cardinality(D)
  BY <1>0, FS_Subset, FS_CardinalityType
<1>2. 0 \notin Bad
  <2> DEFINE g == [s \in SUBSET D |-> {}]
  <2>1. ASSUME NEW s \in SUBSET D, Cardinality(s) <= 0
        PROVE  g[s] = IF s = {} THEN {} ELSE Matched(g[s \ {Max(s)}], order[Max(s)])
    <3>1. s = {}
      BY <1>1, <2>1, FS_EmptySet
    <3> QED
      BY <3>1
  <2>2. LoopsUpTo(order, 0, g)
    BY <2>1, Zenon DEF LoopsUpTo
  <2> QED
    BY <2>2
<1>3. ASSUME NEW n \in Nat, n \notin Bad
      PROVE  n + 1 \notin Bad
  <2>1. PICK g : LoopsUpTo(order, n, g)
    BY <1>3
  <2> DEFINE body(s) == IF s = {} THEN {} ELSE Matched(g[s \ {Max(s)}], order[Max(s)])
             h == [s \in SUBSET D |-> IF Cardinality(s) <= n THEN g[s] ELSE body(s)]
  <2>2. ASSUME NEW s \in SUBSET D, Cardinality(s) <= n + 1
        PROVE  h[s] = IF s = {} THEN {} ELSE Matched(h[s \ {Max(s)}], order[Max(s)])
    <3>1. h[s] = body(s)
      BY <2>1 DEF LoopsUpTo
    <3>2. CASE s = {}
      BY <3>1, <3>2
    <3>3. CASE s # {}
      <4>1. Max(s) \in s
        BY <3>3, MaxInSet
      <4>2. s \ {Max(s)} \in SUBSET D /\ Cardinality(s \ {Max(s)}) = Cardinality(s) - 1
            /\ Cardinality(s) \in Nat
        BY <1>0, <4>1, Smaller
      <4>3. Cardinality(s \ {Max(s)}) <= n
        BY <2>2, <4>2
      <4>4. h[s \ {Max(s)}] = g[s \ {Max(s)}]
        BY <4>2, <4>3
      <4> QED
        BY <3>1, <3>3, <4>4
    <3> QED
      BY <3>2, <3>3
  <2> HIDE DEF h
  <2>3. LoopsUpTo(order, n + 1, h)
    BY <2>2, Zenon DEF LoopsUpTo
  <2> QED
    BY <2>3
<1>4. Bad = {}
  <2> SUFFICES ASSUME Bad # {}
               PROVE  FALSE
    OBVIOUS
  <2>1. Bad \subseteq Nat
    OBVIOUS
  <2> HIDE DEF Bad
  <2>2. PICK m \in Bad : \A k \in Bad : m <= k
    BY <2>1, LeastOf
  <2>3. m \in Nat /\ m # 0
    BY <1>2, <2>1, <2>2
  <2>4. m - 1 \in Nat /\ m - 1 \notin Bad /\ (m - 1) + 1 = m
    BY <2>2, <2>3
  <2> QED
    BY <1>3, <2>2, <2>4
<1>5. PICK g : LoopsUpTo(order, Cardinality(D), g)
  BY <1>1, <1>4
<1> DEFINE h == [s \in SUBSET D |-> g[s]]
<1>6. ASSUME NEW s \in SUBSET D
      PROVE  h[s] = IF s = {} THEN {} ELSE Matched(h[s \ {Max(s)}], order[Max(s)])
  <2>1. g[s] = IF s = {} THEN {} ELSE Matched(g[s \ {Max(s)}], order[Max(s)])
    BY <1>1, <1>5 DEF LoopsUpTo
  <2>2. s \ {Max(s)} \in SUBSET D
    OBVIOUS
  <2> QED
    BY <2>1, <2>2
<1>7. h = [s \in SUBSET D |-> h[s]]
  OBVIOUS
<1> HIDE DEF h
<1>8. IsLoop(order, h)
  BY <1>6, <1>7 DEF IsLoop
<1> QED
  BY <1>8

\* What Renames computes.
LEMMA RenamesIsLoop ==
    ASSUME NEW len \in Nat, DOMAIN Ascending(Appearing) = 1..len
    PROVE  \E g : IsLoop(Ascending(Appearing), g) /\ Renames = g[DOMAIN Ascending(Appearing)]
<1> DEFINE order == Ascending(Appearing)
           g == CHOOSE h : h = [s \in SUBSET DOMAIN order |->
                    IF s = {} THEN {}
                    ELSE LET x == Max(s)
                         IN  Matched(h[s \ {x}], order[x])]
<1>1. Renames = g[DOMAIN order]
  BY DEF Renames, FoldLeft, MapThenFoldSet, Matched, FreeFor
<1>2. \E h : h = [s \in SUBSET DOMAIN order |->
                    IF s = {} THEN {} ELSE LET x == Max(s) IN Matched(h[s \ {x}], order[x])]
  <2>1. \E h : IsLoop(order, h)
    BY LoopExists
  <2> QED
    BY <2>1, Zenon DEF IsLoop
<1>3. g = [s \in SUBSET DOMAIN order |->
                    IF s = {} THEN {} ELSE LET x == Max(s) IN Matched(g[s \ {x}], order[x])]
  BY <1>2, Zenon
<1> HIDE DEF g
<1>4. IsLoop(order, g)
  BY <1>3, Zenon DEF IsLoop
<1> QED
  BY <1>1, <1>4

\* The loop, round by round.
LEMMA Rounds ==
    ASSUME NEW order, NEW len \in Nat, DOMAIN order = 1..len, NEW g, IsLoop(order, g)
    PROVE  g[1..0] = {} /\ \A k \in 1..len : g[1..k] = Matched(g[1..(k - 1)], order[k])
<1>1. \A s \in SUBSET DOMAIN order :
         g[s] = IF s = {} THEN {} ELSE Matched(g[s \ {Max(s)}], order[Max(s)])
  <2> DEFINE body(s) == IF s = {} THEN {} ELSE Matched(g[s \ {Max(s)}], order[Max(s)])
  <2>1. g = [s \in SUBSET DOMAIN order |-> body(s)]
    BY Zenon DEF IsLoop
  <2> HIDE DEF body
  <2>2. \A s \in SUBSET DOMAIN order : g[s] = body(s)
    BY <2>1
  <2> QED
    BY <2>2 DEF body
<1>2. g[1..0] = {}
  <2>1. 1..0 = {} /\ {} \in SUBSET DOMAIN order
    OBVIOUS
  <2> QED
    BY <1>1, <2>1
<1>3. ASSUME NEW k \in 1..len
      PROVE  g[1..k] = Matched(g[1..(k - 1)], order[k])
  <2>1. k \in Nat /\ 1..k \in SUBSET (1..len) /\ 1..k # {} /\ k \in 1..k
    <3>1. k \in Nat /\ 1 <= k /\ k <= len
      OBVIOUS
    <3>2. k \in 1..k
      BY <3>1
    <3>3. \A i \in 1..k : i \in 1..len
      BY <3>1
    <3> QED
      BY <3>1, <3>2, <3>3
  <2>2. Max(1..k) = k
    <3>1. Max(1..k) \in 1..k /\ Max(1..k) >= k
      BY <2>1, MaxInSet
    <3> QED
      BY <2>1, <3>1
  <2>3. (1..k) \ {k} = 1..(k - 1)
    BY <2>1
  <2>4. g[1..k] = Matched(g[(1..k) \ {Max(1..k)}], order[Max(1..k)])
    BY <1>1, <2>1
  <2> QED
    BY <2>2, <2>3, <2>4
<1> QED
  BY <1>2, <1>3

LEMMA MinInSet ==
    ASSUME NEW S \in SUBSET Nat, S # {}
    PROVE  Min(S) \in S
<1>1. \E x \in S : \A y \in S : x <= y
  BY LeastOf
<1> QED
  BY <1>1, Zenon DEF Min

\* What holds of the renames that the first paths have got.
RenamesOK(taken, done) ==
    /\ \A r \in taken :
          /\ r = [kind |-> "rename", file |-> r.file, path |-> r.path]
          /\ r.file \in Missing /\ r.path \in done /\ tracked[r.file].text = scan[r.path]
    /\ \A r, s \in taken : (r.file = s.file \/ r.path = s.path) => r = s
    /\ \A p \in done : \/ \E r \in taken : r.path = p
                       \/ \A f \in Missing : tracked[f].text = scan[p] =>
                             \E r \in taken : r.file = f

LEMMA RoundKeeps ==
    ASSUME NEW taken, NEW done, RenamesOK(taken, done), NEW p, p \notin done,
           Missing \subseteq Nat
    PROVE  RenamesOK(Matched(taken, p), done \cup {p})
<1> DEFINE free == FreeFor(taken, p)
           new == [kind |-> "rename", file |-> Min(free), path |-> p]
<1>1. CASE free = {}
  <2>1. Matched(taken, p) = taken
    BY <1>1 DEF Matched
  <2>2. \A f \in Missing : tracked[f].text = scan[p] => \E r \in taken : r.file = f
    BY <1>1 DEF FreeFor
  <2> QED
    BY <2>1, <2>2 DEF RenamesOK
<1>2. CASE free # {}
  <2>1. Matched(taken, p) = taken \cup {new}
    BY <1>2 DEF Matched
  <2>2. Min(free) \in free
    BY <1>2, MinInSet DEF FreeFor
  <2> HIDE DEF free
  <2>3. /\ Min(free) \in Missing /\ tracked[Min(free)].text = scan[p]
        /\ \A r \in taken : r.file # Min(free)
    BY <2>2 DEF FreeFor, free
  <2>4. new.file = Min(free) /\ new.path = p /\ new = [kind |-> "rename", file |-> new.file, path |-> new.path]
    OBVIOUS
  <2> HIDE DEF new
  <2>5. \A r \in taken : r.path # p
    BY DEF RenamesOK
  <2>6. \A r \in taken \cup {new} :
          /\ r = [kind |-> "rename", file |-> r.file, path |-> r.path]
          /\ r.file \in Missing /\ r.path \in done \cup {p} /\ tracked[r.file].text = scan[r.path]
    BY <2>3, <2>4 DEF RenamesOK
  <2>7. \A r, s \in taken \cup {new} : (r.file = s.file \/ r.path = s.path) => r = s
    BY <2>3, <2>4, <2>5 DEF RenamesOK
  <2>8. ASSUME NEW q \in done \cup {p}
        PROVE  \/ \E r \in taken \cup {new} : r.path = q
               \/ \A f \in Missing : tracked[f].text = scan[q] =>
                     \E r \in taken \cup {new} : r.file = f
    BY <2>4 DEF RenamesOK
  <2> QED
    BY <2>1, <2>6, <2>7, <2>8 DEF RenamesOK
<1> QED
  BY <1>1, <1>2

\* What Renames comes to: each appearing path has a missing file of its text, or there is
\* none left.
LEMMA RenamesMatch ==
    ASSUME Missing \subseteq Nat, Appearing \subseteq Nat, IsFiniteSet(Appearing)
    PROVE  RenamesOK(Renames, Appearing)
<1> DEFINE order == Ascending(Appearing)
           len == Cardinality(Appearing)
<1>1. /\ len \in Nat /\ order \in [1..len -> Appearing]
      /\ \A i, j \in 1..len : order[i] = order[j] => i = j
      /\ \A p \in Appearing : \E i \in 1..len : order[i] = p
  BY AscendingOrders
<1>2. DOMAIN order = 1..len
  BY <1>1
<1> HIDE DEF len
<1>3. PICK g : IsLoop(order, g) /\ Renames = g[1..len]
  BY <1>1, <1>2, RenamesIsLoop
<1> HIDE DEF order
<1>4. g[1..0] = {} /\ \A k \in 1..len : g[1..k] = Matched(g[1..(k - 1)], order[k])
  BY <1>1, <1>2, <1>3, Rounds
<1> DEFINE done(k) == {order[i] : i \in 1..k}
           Bad == {k \in 0..len : ~RenamesOK(g[1..k], done(k))}
<1>5. Bad = {}
  <2> SUFFICES ASSUME Bad # {}
               PROVE  FALSE
    OBVIOUS
  <2>0. \A l : l \in Bad <=> l \in Nat /\ l <= len /\ ~RenamesOK(g[1..l], done(l))
    BY <1>1
  <2> HIDE DEF Bad
  <2>1. PICK k \in Bad : \A l \in Bad : k <= l
    BY <2>0, LeastOf
  <2>2. CASE k = 0
    <3>1. done(0) = {}
      OBVIOUS
    <3>2. RenamesOK({}, {})
      BY DEF RenamesOK
    <3> QED
      BY <1>4, <2>0, <2>1, <2>2, <3>1, <3>2
  <2>3. CASE k # 0
    <3>0. k \in Nat /\ k <= len
      BY <2>0, <2>1
    <3>1. k \in 1..len /\ k - 1 \in Nat /\ k - 1 <= len /\ k - 1 < k
      BY <1>1, <2>3, <3>0
    <3>2. RenamesOK(g[1..(k - 1)], done(k - 1))
      <4>1. k - 1 \notin Bad
        BY <2>1, <3>0, <3>1
      <4> QED
        BY <2>0, <3>1, <4>1
    <3>3. order[k] \notin done(k - 1)
      BY <1>1, <3>1
    <3>4. done(k) = done(k - 1) \cup {order[k]}
      BY <1>1, <3>1
    <3>5. RenamesOK(Matched(g[1..(k - 1)], order[k]), done(k - 1) \cup {order[k]})
      <4> HIDE DEF done
      <4> QED
        BY <3>2, <3>3, RoundKeeps
    <3> QED
      BY <1>4, <2>0, <2>1, <3>1, <3>4, <3>5
  <2> QED
    BY <2>2, <2>3
<1>6. RenamesOK(g[1..len], done(len))
  <2>1. len \in 0..len
    BY <1>1
  <2> QED
    BY <1>5, <2>1
<1>7. done(len) = Appearing
  <2>1. done(len) \subseteq Appearing
    BY <1>1
  <2>2. \A p \in Appearing : p \in done(len)
    BY <1>1
  <2> QED
    BY <2>1, <2>2
<1> HIDE DEF done
<1> QED
  BY <1>3, <1>6, <1>7

NoteJob ==
    [kind : {"sync"}, path : NotePath]
      \cup [kind : {"rename"}, file : NoteFile, path : NotePath]
      \cup [kind : {"delete"}, file : NoteFile]

Entry == [path : NotePath, text : NoteText, version : Nat]

\* The index has each path once; what is to be written to it is of a file that is in it.
NotesOK ==
    /\ note \in [NotePath -> NoteText \cup {None}] /\ scan \in [NotePath -> NoteText \cup {None}]
    /\ tracked \in [NoteFile -> Entry \cup {Untracked}]
    /\ \A f, g \in Entries(tracked) : tracked[f].path = tracked[g].path => f = g
    /\ waiting \subseteq NotePath
    /\ incoming # NothingIncoming =>
          /\ incoming.file \in Entries(tracked) /\ incoming.text \in NoteText
          /\ incoming.path = tracked[incoming.file].path

\* No version is ahead of the text that came with it.
VersionsOK ==
    /\ wrote \in [NotePath -> Nat] /\ remote \in Nat
    /\ \A p \in NotePath : wrote[p] <= remote
    /\ \A f \in Entries(tracked) : tracked[f].version <= wrote[tracked[f].path]
    /\ incoming # NothingIncoming => remote <= wrote[incoming.path]

WalkType == [todo : Seq(NoteJob), file : NoteFile \cup {NewId, None}, base : Nat]

WalkOK(walk, written) ==
    /\ walk \in WalkType
    /\ walk.file # None =>
          /\ walk.todo # <<>> /\ Head(walk.todo).kind = "sync"
          /\ walk.base <= written[Head(walk.todo).path]

WalksOK == walks \in [Walk -> WalkType] /\ \A w \in Walk : WalkOK(walks[w], wrote)

WatchInv == NotesOK /\ VersionsOK /\ WalksOK

LEMMA NotesNumbered ==
    /\ NotePath \subseteq Nat \ {0} /\ NoteFile \subseteq Nat \ {0} /\ NoteText \subseteq Nat \ {0}
    /\ IsFiniteSet(NotePath) /\ IsFiniteSet(NoteFile)
    /\ {MaxRestarts, MaxRemote, MaxEvents, MaxEdits} \subseteq Nat
BY WatcherAssumption

LEMMA EntryIn ==
    ASSUME NotesOK, NEW f \in Entries(tracked)
    PROVE  f \in NoteFile /\ tracked[f] \in Entry
BY DEF NotesOK, Entries

LEMMA JobsTyped ==
    ASSUME NEW paths \in SUBSET NotePath
    PROVE  Jobs("sync", paths) \in Seq(NoteJob)
<1> DEFINE order == Ascending(paths)
           n == Cardinality(paths)
<1>1. n \in Nat /\ order \in [1..n -> paths]
  BY NotesNumbered, FS_Subset, AscendingOrders
<1> HIDE DEF order, n
<1>2. [i \in DOMAIN order |-> [kind |-> "sync", path |-> order[i]]] \in [1..n -> NoteJob]
  BY <1>1 DEF NoteJob
<1>3. Jobs("sync", paths) \in [1..n -> NoteJob]
  BY <1>2 DEF Jobs, order
<1> QED
  BY <1>1, <1>3, SeqDef

LEMMA ByIdTyped ==
    ASSUME NEW jobs \in SUBSET NoteJob, IsFiniteSet(jobs), \A job \in jobs : job.file \in NoteFile
    PROVE  ById(jobs) \in Seq(NoteJob)
<1> DEFINE key == [job \in jobs |-> job.file]
           n == Cardinality(jobs)
<1>1. key \in [jobs -> Nat]
  BY NotesNumbered
<1>2. ById(jobs) = SortedBy(jobs, key)
  BY DEF ById
<1> HIDE DEF key
<1>3. n \in Nat /\ ById(jobs) \in [1..n -> jobs]
  BY <1>1, <1>2, SortedByOrders DEF IsOrderOf
<1> HIDE DEF n
<1>4. ById(jobs) \in [1..n -> NoteJob]
  BY <1>3
<1> QED
  BY <1>3, <1>4, SeqDef

\* Records that differ in their numbers are finitely many.
LEMMA FiniteByNumber ==
    ASSUME NEW S, NEW T, IsFiniteSet(T), NEW f \in [S -> T], \A x, y \in S : f[x] = f[y] => x = y
    PROVE  IsFiniteSet(S)
<1>1. f \in Injection(S, T)
  BY DEF Injection, IsInjective
<1> QED
  BY <1>1, FS_Injection

\* What may be in the list that reconcile makes.
LEMMA PlanTyped ==
    ASSUME NotesOK
    PROVE  /\ RenamesOK(Renames, Appearing) /\ IsFiniteSet(Renames)
           /\ Missing \subseteq NoteFile /\ Appearing \subseteq NotePath
           /\ ById(Renames) \o Jobs("sync", Creates) \o Jobs("sync", Updates)
                 \o ById({[kind |-> "delete", file |-> f] : f \in Deletes}) \in Seq(NoteJob)
<1>1. /\ Missing \subseteq NoteFile /\ Appearing \subseteq NotePath /\ Missing \subseteq Entries(tracked)
      /\ IsFiniteSet(Appearing)
  <2>1. Missing \subseteq NoteFile /\ Appearing \subseteq NotePath /\ Missing \subseteq Entries(tracked)
    BY DEF Missing, Appearing, Entries
  <2> QED
    BY <2>1, NotesNumbered, FS_Subset
<1>2. RenamesOK(Renames, Appearing)
  BY <1>1, NotesNumbered, RenamesMatch
<1>3. \A r \in Renames : r.file \in NoteFile /\ r \in NoteJob
  BY <1>1, <1>2 DEF RenamesOK, NoteJob
<1>4. ById(Renames) \in Seq(NoteJob) /\ IsFiniteSet(Renames)
  <2> DEFINE f == [r \in Renames |-> r.file]
  <2>1. f \in [Renames -> NoteFile] /\ \A r, s \in Renames : f[r] = f[s] => r = s
    BY <1>2, <1>3 DEF RenamesOK
  <2> HIDE DEF f
  <2>2. IsFiniteSet(Renames)
    BY <2>1, NotesNumbered, FiniteByNumber
  <2>3. Renames \in SUBSET NoteJob
    BY <1>3
  <2> QED
    BY <1>3, <2>2, <2>3, ByIdTyped
<1>5. Jobs("sync", Creates) \in Seq(NoteJob)
  <2>1. Creates \in SUBSET NotePath
    BY <1>1 DEF Creates
  <2> QED
    BY <2>1, JobsTyped
<1>6. Jobs("sync", Updates) \in Seq(NoteJob)
  <2>1. Updates \in SUBSET NotePath
    BY EntryIn DEF Updates, Entry
  <2> QED
    BY <2>1, JobsTyped
<1>7. ById({[kind |-> "delete", file |-> f] : f \in Deletes}) \in Seq(NoteJob)
  <2> DEFINE jobs == {[kind |-> "delete", file |-> f] : f \in Deletes}
  <2>1. jobs \in SUBSET NoteJob /\ \A job \in jobs : job.file \in NoteFile
    BY <1>1 DEF Deletes, NoteJob
  <2> DEFINE f == [job \in jobs |-> job.file]
  <2>2. f \in [jobs -> NoteFile] /\ \A x, y \in jobs : f[x] = f[y] => x = y
    BY <2>1
  <2> HIDE DEF jobs, f
  <2>3. IsFiniteSet(jobs)
    BY <2>2, NotesNumbered, FiniteByNumber
  <2>4. ById(jobs) \in Seq(NoteJob)
    BY <2>1, <2>3, ByIdTyped
  <2> QED
    BY <2>4 DEF jobs
<1> HIDE DEF Renames, Creates, Updates, Deletes
<1>8. ById(Renames) \o Jobs("sync", Creates) \o Jobs("sync", Updates)
        \o ById({[kind |-> "delete", file |-> f] : f \in Deletes}) \in Seq(NoteJob)
  BY <1>4, <1>5, <1>6, <1>7, ConcatProperties
<1> QED
  BY <1>1, <1>2, <1>4, <1>8

LEMMA NotesSame ==
    ASSUME NotesOK, note' \in [NotePath -> NoteText \cup {None}], scan' \in {scan, note},
           waiting' \subseteq NotePath, tracked' = tracked, incoming' \in {incoming, NothingIncoming}
    PROVE  NotesOK'
BY DEF NotesOK, Entries

LEMMA VersionsSame ==
    ASSUME NotesOK, VersionsOK, tracked' = tracked, remote' = remote,
           incoming' \in {incoming, NothingIncoming}, wrote' \in [NotePath -> Nat],
           \A p \in NotePath : wrote[p] <= wrote'[p] /\ wrote'[p] <= remote
    PROVE  VersionsOK'
<1>1. ASSUME NEW f \in Entries(tracked)
      PROVE  tracked[f].version <= wrote'[tracked[f].path]
  <2>1. tracked[f].path \in NotePath /\ tracked[f].version \in Nat
    BY EntryIn DEF Entry
  <2>2. tracked[f].version <= wrote[tracked[f].path]
    BY DEF VersionsOK
  <2>3. wrote[tracked[f].path] \in Nat /\ wrote'[tracked[f].path] \in Nat
    BY <2>1 DEF VersionsOK
  <2> QED
    BY <2>1, <2>2, <2>3
<1>2. ASSUME incoming # NothingIncoming
      PROVE  remote <= wrote'[incoming.path]
  <2>1. incoming.path \in NotePath
    BY <1>2, EntryIn DEF NotesOK, Entry
  <2>2. remote <= wrote[incoming.path] /\ remote \in Nat
    BY <1>2 DEF VersionsOK
  <2>3. wrote[incoming.path] \in Nat /\ wrote'[incoming.path] \in Nat
    BY <2>1 DEF VersionsOK
  <2> QED
    BY <2>1, <2>2, <2>3
<1> QED
  BY <1>1, <1>2 DEF VersionsOK, Entries

LEMMA HeadOK ==
    ASSUME NEW todo \in Seq(NoteJob), todo # <<>>
    PROVE  /\ Head(todo) \in NoteJob /\ Tail(todo) \in Seq(NoteJob)
           /\ Head(todo).kind = "sync" => Head(todo).path \in NotePath
<1>1. Head(todo) \in NoteJob /\ Tail(todo) \in Seq(NoteJob)
  OBVIOUS
<1> QED
  BY <1>1 DEF NoteJob

LEMMA WalkStays ==
    ASSUME NEW walk, NEW before \in [NotePath -> Nat], NEW after \in [NotePath -> Nat],
           WalkOK(walk, before), \A p \in NotePath : before[p] <= after[p]
    PROVE  WalkOK(walk, after)
<1> SUFFICES ASSUME walk.file # None
             PROVE  walk.base <= after[Head(walk.todo).path]
  BY DEF WalkOK
<1>1. walk.todo \in Seq(NoteJob) /\ walk.todo # <<>> /\ Head(walk.todo).kind = "sync"
      /\ walk.base \in Nat
  BY DEF WalkOK, WalkType
<1>2. Head(walk.todo).path \in NotePath
  BY <1>1, HeadOK
<1>3. walk.base <= before[Head(walk.todo).path]
  BY DEF WalkOK
<1>4. before[Head(walk.todo).path] \in Nat /\ after[Head(walk.todo).path] \in Nat
      /\ before[Head(walk.todo).path] <= after[Head(walk.todo).path]
  BY <1>2
<1>5. walk.base \in Nat
  BY <1>1
<1> QED
  BY <1>3, <1>4, <1>5

LEMMA WalksSame ==
    ASSUME VersionsOK, WalksOK, walks' = walks, wrote' \in [NotePath -> Nat],
           \A p \in NotePath : wrote[p] <= wrote'[p]
    PROVE  WalksOK'
<1>1. wrote \in [NotePath -> Nat]
  BY DEF VersionsOK
<1>2. \A w \in Walk : WalkOK(walks[w], wrote')
  BY <1>1, WalkStays DEF WalksOK
<1> QED
  BY <1>2 DEF WalksOK

LEMMA WalkChanges ==
    ASSUME VersionsOK, WalksOK, NEW w \in Walk, NEW walk, walks' = [walks EXCEPT ![w] = walk],
           WalkOK(walk, wrote'), wrote' \in [NotePath -> Nat],
           \A p \in NotePath : wrote[p] <= wrote'[p]
    PROVE  WalksOK'
<1>1. wrote \in [NotePath -> Nat]
  BY DEF VersionsOK
<1>2. walk \in WalkType
  BY DEF WalkOK
<1>3. walks' \in [Walk -> WalkType] /\ \A v \in Walk : walks'[v] = IF v = w THEN walk ELSE walks[v]
  BY <1>2 DEF WalksOK
<1>4. ASSUME NEW v \in Walk
      PROVE  WalkOK(walks'[v], wrote')
  <2>1. WalkOK(walks[v], wrote')
    BY <1>1, WalkStays DEF WalksOK
  <2> QED
    BY <1>3, <2>1
<1> QED
  BY <1>3, <1>4 DEF WalksOK

\* A walk between two operations.
LEMMA BetweenOperations ==
    ASSUME NEW todo \in Seq(NoteJob), NEW written
    PROVE  /\ WalkOK([NotWalking EXCEPT !.todo = todo], written)
           /\ WalkOK(NotWalking, written)
<1>1. NotWalking \in WalkType /\ NotWalking.file = None
  BY DEF NotWalking, WalkType
<1>2. [NotWalking EXCEPT !.todo = todo] \in WalkType /\ [NotWalking EXCEPT !.todo = todo].file = None
  BY DEF NotWalking, WalkType
<1> QED
  BY <1>1, <1>2 DEF WalkOK

LEMMA UserKeeps ==
    ASSUME WatchInv, NEW p \in NotePath, (\E t \in NoteText : Edit(p, t)) \/ Erase(p)
    PROVE  WatchInv'
<1>1. note' \in [NotePath -> NoteText \cup {None}] /\ waiting' \subseteq NotePath
  BY DEF Edit, Erase, Queue, WatchInv, NotesOK
<1>2. UNCHANGED <<wrote, tracked, scan, walks, incoming, remote>>
  BY DEF Edit, Erase
<1>3. wrote \in [NotePath -> Nat] /\ \A q \in NotePath : wrote[q] <= wrote[q] /\ wrote[q] <= remote
  BY DEF WatchInv, VersionsOK
<1> QED
  BY <1>1, <1>2, <1>3, NotesSame, VersionsSame, WalksSame DEF WatchInv

LEMMA MaxOfTwo ==
    ASSUME NEW a \in Nat, NEW b \in Nat
    PROVE  Max({a, b}) \in {a, b} /\ a <= Max({a, b}) /\ b <= Max({a, b})
<1>1. \E x \in {a, b} : \A y \in {a, b} : x >= y
  OBVIOUS
<1>2. Max({a, b}) \in {a, b} /\ \A y \in {a, b} : Max({a, b}) >= y
  BY <1>1, Zenon DEF Max
<1> QED
  BY <1>2

LEMMA MoveKeeps ==
    ASSUME WatchInv, NEW p \in NotePath, NEW q \in NotePath, Move(p, q)
    PROVE  WatchInv'
<1>1. note' \in [NotePath -> NoteText \cup {None}]
  BY DEF Move, WatchInv, NotesOK
<1>2. UNCHANGED <<tracked, scan, waiting, incoming, remote>>
  BY DEF Move
<1>3. wrote' \in [NotePath -> Nat]
      /\ \A r \in NotePath : wrote[r] <= wrote'[r] /\ wrote'[r] <= remote
  <2>1. wrote \in [NotePath -> Nat] /\ remote \in Nat /\ \A r \in NotePath : wrote[r] <= remote
    BY DEF WatchInv, VersionsOK
  <2>2. PICK m : m = Max({wrote[p], wrote[q]})
    OBVIOUS
  <2>3. m \in {wrote[p], wrote[q]} /\ wrote[q] <= m /\ m \in Nat /\ m <= remote
    BY <2>1, <2>2, MaxOfTwo
  <2>4. wrote' = [wrote EXCEPT ![q] = m]
    BY <2>2 DEF Move
  <2> QED
    BY <2>1, <2>3, <2>4
<1>4. WalksOK'
  <2>1. CASE walks' = walks
    BY <1>3, <2>1, WalksSame DEF WatchInv
  <2>2. ASSUME NEW w \in Walk, walks[w] = NotWalking,
               walks' = [walks EXCEPT ![w].todo = <<[kind |-> "sync", path |-> q]>>]
        PROVE  WalksOK'
    <3> DEFINE todo == <<[kind |-> "sync", path |-> q]>>
               walk == [NotWalking EXCEPT !.todo = todo]
    <3>1. todo \in Seq(NoteJob)
      BY DEF NoteJob
    <3>2. walks' = [walks EXCEPT ![w] = walk]
      BY <2>2
    <3> HIDE DEF todo
    <3>3. WalkOK(walk, wrote')
      BY <3>1, BetweenOperations
    <3> HIDE DEF walk
    <3> QED
      BY <1>3, <3>2, <3>3, WalkChanges DEF WatchInv
  <2> QED
    BY <2>1, <2>2 DEF Move
<1> QED
  BY <1>1, <1>2, <1>3, <1>4, NotesSame, VersionsSame DEF WatchInv, NotesOK

LEMMA RemoteWritesKeeps ==
    ASSUME WatchInv, NEW f \in NoteFile, NEW t \in NoteText, RemoteWrites(f, t)
    PROVE  WatchInv'
<1> DEFINE p == tracked[f].path
<1>1. f \in Entries(tracked) /\ p \in NotePath
  BY EntryIn DEF RemoteWrites, WatchInv, Entry
<1>2. /\ wrote \in [NotePath -> Nat] /\ remote \in Nat
      /\ \A q \in NotePath : wrote[q] <= remote
  BY DEF WatchInv, VersionsOK
<1>3. /\ note' = [note EXCEPT ![p] = t] /\ wrote' = [wrote EXCEPT ![p] = remote + 1]
      /\ incoming' = [file |-> f, path |-> p, text |-> t] /\ remote' = remote + 1
      /\ UNCHANGED <<tracked, scan, walks>>
  BY DEF RemoteWrites
<1>4. waiting' \subseteq NotePath
  BY <1>1 DEF RemoteWrites, Queue, WatchInv, NotesOK
<1> HIDE DEF p
<1>5. /\ wrote' \in [NotePath -> Nat] /\ wrote'[p] = remote + 1
      /\ \A q \in NotePath : wrote[q] <= wrote'[q] /\ wrote'[q] <= remote + 1
  <2>1. wrote' \in [NotePath -> Nat] /\ wrote'[p] = remote + 1
    BY <1>1, <1>2, <1>3
  <2>2. ASSUME NEW q \in NotePath PROVE wrote[q] <= wrote'[q] /\ wrote'[q] <= remote + 1
    <3>1. wrote[q] \in Nat /\ wrote[q] <= remote /\ wrote'[q] = IF q = p THEN remote + 1 ELSE wrote[q]
      BY <1>1, <1>2, <1>3
    <3> QED
      BY <1>2, <3>1
  <2> QED
    BY <2>1, <2>2
<1>6. NotesOK'
  <2>1. note' \in [NotePath -> NoteText \cup {None}]
    BY <1>1, <1>3 DEF WatchInv, NotesOK
  <2>2. incoming'.file = f /\ incoming'.path = p /\ incoming'.text = t
    BY <1>3
  <2>3. p = tracked[f].path
    BY DEF p
  <2> QED
    BY <1>1, <1>3, <1>4, <2>1, <2>2, <2>3 DEF WatchInv, NotesOK, Entries
<1>7. VersionsOK'
  <2>1. ASSUME NEW g \in Entries(tracked)
        PROVE  tracked[g].version <= wrote'[tracked[g].path]
    <3>1. tracked[g].path \in NotePath /\ tracked[g].version \in Nat
      BY EntryIn DEF Entry, WatchInv
    <3>2. tracked[g].version <= wrote[tracked[g].path]
      BY DEF WatchInv, VersionsOK
    <3>3. wrote[tracked[g].path] \in Nat /\ wrote'[tracked[g].path] \in Nat
          /\ wrote[tracked[g].path] <= wrote'[tracked[g].path]
      BY <1>2, <1>5, <3>1
    <3> QED
      BY <3>1, <3>2, <3>3
  <2>2. remote' <= wrote'[incoming'.path] /\ remote' \in Nat
    BY <1>2, <1>3, <1>5
  <2> QED
    BY <1>3, <1>5, <2>1, <2>2 DEF VersionsOK, Entries
<1>8. WalksOK'
  BY <1>3, <1>5, WalksSame DEF WatchInv
<1> QED
  BY <1>6, <1>7, <1>8 DEF WatchInv

LEMMA RemoteIndexedKeeps ==
    ASSUME WatchInv, RemoteIndexed
    PROVE  WatchInv'
<1> DEFINE f == incoming.file
           new == [path |-> incoming.path, text |-> incoming.text, version |-> remote]
<1>1. /\ f \in Entries(tracked) /\ f \in NoteFile /\ incoming.path = tracked[f].path
      /\ incoming.path \in NotePath /\ incoming.text \in NoteText
      /\ remote \in Nat /\ remote <= wrote[incoming.path]
  BY EntryIn DEF WatchInv, NotesOK, VersionsOK, RemoteIndexed, Entry
<1>2. new \in Entry /\ new.path = tracked[f].path /\ new.version = remote /\ new # Untracked
  BY <1>1, NotesNumbered DEF Entry, Untracked, None
<1>3. tracked' = [tracked EXCEPT ![f] = new] /\ incoming' = NothingIncoming
      /\ UNCHANGED <<note, wrote, scan, waiting, walks, remote>>
  BY DEF RemoteIndexed
<1> HIDE DEF f, new
<1>4. /\ tracked' \in [NoteFile -> Entry \cup {Untracked}]
      /\ \A g \in NoteFile : tracked'[g] = IF g = f THEN new ELSE tracked[g]
  BY <1>1, <1>2, <1>3 DEF WatchInv, NotesOK
<1>5. Entries(tracked') = Entries(tracked)
  BY <1>1, <1>2, <1>4 DEF Entries
<1>6. \A g \in Entries(tracked) : tracked'[g].path = tracked[g].path
  BY <1>2, <1>4 DEF Entries
<1>7. NotesOK'
  <2>1. \A g, h \in Entries(tracked') : tracked'[g].path = tracked'[h].path => g = h
    BY <1>5, <1>6 DEF WatchInv, NotesOK
  <2> QED
    BY <1>3, <1>4, <2>1 DEF WatchInv, NotesOK
<1>8. VersionsOK'
  <2>1. ASSUME NEW g \in Entries(tracked)
        PROVE  tracked'[g].version <= wrote[tracked'[g].path]
    <3>1. CASE g = f
      BY <1>1, <1>2, <1>4, <3>1
    <3>2. CASE g # f
      <4>1. tracked'[g] = tracked[g]
        BY <1>4, <3>2 DEF Entries
      <4> QED
        BY <4>1 DEF WatchInv, VersionsOK
    <3> QED
      BY <3>1, <3>2
  <2> QED
    BY <1>3, <1>5, <2>1 DEF WatchInv, VersionsOK
<1>9. WalksOK'
  <2>1. wrote \in [NotePath -> Nat] /\ \A p \in NotePath : wrote[p] <= wrote[p]
    BY DEF WatchInv, VersionsOK
  <2> QED
    BY <1>3, <2>1, WalksSame DEF WatchInv
<1> QED
  BY <1>7, <1>8, <1>9 DEF WatchInv

\* A step of a walk.
LEMMA WalkStep ==
    ASSUME WatchInv, NEW w \in Walk, NEW walk, walks' = [walks EXCEPT ![w] = walk],
           WalkOK(walk, wrote), waiting' \subseteq NotePath,
           UNCHANGED <<note, wrote, tracked, scan, incoming, remote>>
    PROVE  WatchInv'
<1>1. wrote \in [NotePath -> Nat] /\ remote \in Nat
      /\ \A p \in NotePath : wrote[p] <= wrote[p] /\ wrote[p] <= remote
  BY DEF WatchInv, VersionsOK
<1>2. NotesOK'
  BY NotesSame DEF WatchInv, NotesOK
<1>3. VersionsOK'
  BY <1>1, VersionsSame DEF WatchInv
<1>4. WalksOK'
  BY <1>1, WalkChanges DEF WatchInv
<1> QED
  BY <1>2, <1>3, <1>4 DEF WatchInv

LEMMA FlushKeeps ==
    ASSUME WatchInv, NEW w \in Walk, Flush(w)
    PROVE  WatchInv'
<1> DEFINE todo == Jobs("sync", waiting)
           walk == [NotWalking EXCEPT !.todo = todo]
<1>1. todo \in Seq(NoteJob)
  BY JobsTyped DEF WatchInv, NotesOK
<1>2. walks' = [walks EXCEPT ![w] = walk] /\ waiting' = {}
      /\ UNCHANGED <<note, wrote, tracked, scan, incoming, remote>>
  BY DEF Flush
<1> HIDE DEF todo
<1>3. WalkOK(walk, wrote)
  BY <1>1, BetweenOperations
<1> HIDE DEF walk
<1> QED
  BY <1>2, <1>3, WalkStep

LEMMA RestOK ==
    ASSUME WatchInv, NEW w \in Walk, walks[w].todo # <<>>
    PROVE  \E walk : WalkOK(walk, wrote) /\ Rest(w) = [walks EXCEPT ![w] = walk]
<1> DEFINE todo == Tail(walks[w].todo)
           walk == [NotWalking EXCEPT !.todo = todo]
<1>1. todo \in Seq(NoteJob)
  BY HeadOK DEF WatchInv, WalksOK, WalkType
<1>2. Rest(w) = [walks EXCEPT ![w] = walk]
  BY DEF Rest
<1> HIDE DEF todo
<1>3. WalkOK(walk, wrote)
  BY <1>1, BetweenOperations
<1> QED
  BY <1>2, <1>3

\* makeContentOp takes the base of the index; the text of that version is in the vault.
LEMMA BaseWritten ==
    ASSUME WatchInv, NEW p \in NotePath
    PROVE  /\ IdFor(p) \in NoteFile \cup {NewId} /\ BaseFor(p) \in Nat
           /\ BaseFor(p) <= wrote[p]
<1>1. wrote[p] \in Nat
  BY DEF WatchInv, VersionsOK
<1>2. CASE HasEntry(p)
  <2> DEFINE f == CHOOSE g \in Entries(tracked) : tracked[g].path = p
  <2>1. f \in Entries(tracked) /\ tracked[f].path = p
    BY <1>2 DEF HasEntry
  <2>2. IdFor(p) = f /\ BaseFor(p) = tracked[f].version
    BY <1>2 DEF IdFor, BaseFor
  <2> HIDE DEF f
  <2>3. f \in NoteFile /\ tracked[f].version \in Nat
    BY <2>1, EntryIn DEF WatchInv, Entry
  <2>4. tracked[f].version <= wrote[p]
    BY <2>1 DEF WatchInv, VersionsOK
  <2> QED
    BY <2>2, <2>3, <2>4
<1>3. CASE ~HasEntry(p)
  BY <1>1, <1>3 DEF IdFor, BaseFor
<1> QED
  BY <1>2, <1>3

LEMMA SyncStartsKeeps ==
    ASSUME WatchInv, NEW w \in Walk, SyncStarts(w)
    PROVE  WatchInv'
<1> DEFINE p == Head(walks[w].todo).path
           walk == [walks[w] EXCEPT !.file = IdFor(p), !.base = BaseFor(p)]
<1>1. walks[w].todo # <<>> /\ Head(walks[w].todo).kind = "sync" /\ waiting' \subseteq NotePath
      /\ UNCHANGED <<note, wrote, tracked, scan, incoming, remote>>
  BY DEF SyncStarts, WatchInv, NotesOK
<1>2. walks[w] \in WalkType /\ walks \in [Walk -> WalkType]
  BY DEF WatchInv, WalksOK
<1>3. p \in NotePath
  BY <1>1, <1>2, HeadOK DEF WalkType
<1>4. CASE walks' = Rest(w)
  BY <1>1, <1>4, RestOK, WalkStep
<1>5. CASE walks' = [walks EXCEPT ![w].file = IdFor(p), ![w].base = BaseFor(p)]
  <2>1. walks' = [walks EXCEPT ![w] = walk]
    BY <1>2, <1>5
  <2>2. walk \in WalkType /\ walk.todo = walks[w].todo /\ walk.base = BaseFor(p)
    BY <1>2, <1>3, BaseWritten DEF WalkType
  <2>3. BaseFor(p) <= wrote[p]
    BY <1>3, BaseWritten
  <2>4. WalkOK(walk, wrote)
    <3> HIDE DEF walk
    <3> QED
      BY <1>1, <2>2, <2>3 DEF WalkOK
  <2> HIDE DEF walk
  <2> QED
    BY <1>1, <2>1, <2>4, WalkStep
<1> QED
  BY <1>4, <1>5 DEF SyncStarts

LEMMA WalkEnds ==
    ASSUME WatchInv, NEW w \in Walk, SyncEnds(w) \/ Planned(w)
    PROVE  WatchInv'
<1>1. waiting' \subseteq NotePath /\ UNCHANGED <<note, wrote, tracked, scan, incoming, remote>>
  BY DEF SyncEnds, Planned, WatchInv, NotesOK
<1>2. walks[w].todo # <<>>
  BY DEF SyncEnds, Planned, WatchInv, WalksOK, WalkOK
<1>3. CASE walks' = Rest(w)
  BY <1>1, <1>2, <1>3, RestOK, WalkStep
<1>4. CASE walks' = [walks EXCEPT ![w] = NotWalking]
  <2>1. WalkOK(NotWalking, wrote)
    <3>1. <<>> \in Seq(NoteJob)
      OBVIOUS
    <3> QED
      BY <3>1, BetweenOperations
  <2> QED
    BY <1>1, <1>4, <2>1, WalkStep
<1> QED
  BY <1>3, <1>4 DEF SyncEnds, Planned

LEMMA ReconcileKeeps ==
    ASSUME WatchInv, Reconcile
    PROVE  WatchInv'
<1> DEFINE todo == ById(Renames) \o Jobs("sync", Creates) \o Jobs("sync", Updates)
                     \o ById({[kind |-> "delete", file |-> f] : f \in Deletes})
           walk == [NotWalking EXCEPT !.todo = todo]
<1>1. todo \in Seq(NoteJob)
  BY PlanTyped DEF WatchInv
<1> HIDE DEF todo
<1>2. PICK w \in Walk : walks[w] = NotWalking /\ walks' = [walks EXCEPT ![w].todo = todo]
  BY DEF Reconcile, todo
<1>3. walks' = [walks EXCEPT ![w] = walk]
  BY <1>2
<1>4. waiting' \subseteq NotePath /\ UNCHANGED <<note, wrote, tracked, scan, incoming, remote>>
  BY DEF Reconcile, WatchInv, NotesOK
<1>5. WalkOK(walk, wrote)
  BY <1>1, BetweenOperations
<1> HIDE DEF walk
<1> QED
  BY <1>3, <1>4, <1>5, WalkStep

LEMMA PhaseKeeps ==
    ASSUME WatchInv, Stop \/ Start \/ Scan \/ UNCHANGED watchVars
    PROVE  WatchInv'
<1>1. /\ note' = note /\ wrote' = wrote /\ tracked' = tracked /\ remote' = remote
      /\ scan' \in {scan, note} /\ waiting' \in {waiting, {}} /\ incoming' \in {incoming, NothingIncoming}
      /\ walks' \in {walks, [w \in Walk |-> NotWalking]}
  BY DEF Stop, Start, Scan, watchVars
<1>2. wrote \in [NotePath -> Nat] /\ remote \in Nat
      /\ \A p \in NotePath : wrote[p] <= wrote[p] /\ wrote[p] <= remote
  BY DEF WatchInv, VersionsOK
<1>3. NotesOK'
  BY <1>1, NotesSame DEF WatchInv, NotesOK
<1>4. VersionsOK'
  BY <1>1, <1>2, VersionsSame DEF WatchInv
<1>5. WalksOK'
  <2>1. CASE walks' = walks
    BY <1>1, <1>2, <2>1, WalksSame DEF WatchInv
  <2>2. CASE walks' = [w \in Walk |-> NotWalking]
    <3>1. <<>> \in Seq(NoteJob)
      OBVIOUS
    <3>2. WalkOK(NotWalking, wrote')
      BY <3>1, BetweenOperations
    <3>3. NotWalking \in WalkType
      BY <3>2 DEF WalkOK
    <3> QED
      BY <2>2, <3>2, <3>3 DEF WalksOK
  <2> QED
    BY <1>1, <2>1, <2>2
<1> QED
  BY <1>3, <1>4, <1>5 DEF WatchInv

LEMMA WatchBegins == WatchInit => WatchInv
<1> SUFFICES ASSUME WatchInit PROVE WatchInv
  OBVIOUS
<1>1. NotesOK
  <2>1. /\ note \in [NotePath -> NoteText \cup {None}] /\ scan = note
        /\ waiting = {} /\ incoming = NothingIncoming
    BY DEF WatchInit
  <2>2. /\ tracked \in [NoteFile -> Entry \cup {Untracked}]
        /\ \A f, g \in NoteFile : (f # g /\ tracked[f].path = tracked[g].path) => tracked[f] = Untracked
    BY DEF WatchInit, Entry
  <2> QED
    BY <2>1, <2>2 DEF NotesOK, Entries
<1>2. VersionsOK
  <2>1. wrote \in [NotePath -> Nat] /\ \A p \in NotePath : wrote[p] = 0
    BY DEF WatchInit
  <2>2. remote \in Nat
    BY NotesNumbered DEF WatchInit
  <2>3. ASSUME NEW f \in Entries(tracked)
        PROVE  tracked[f].version = 0 /\ tracked[f].path \in NotePath
    BY <2>3 DEF WatchInit, Entries
  <2>4. incoming = NothingIncoming
    BY DEF WatchInit
  <2> QED
    BY <2>1, <2>2, <2>3, <2>4 DEF VersionsOK
<1>3. WalksOK
  <2>1. <<>> \in Seq(NoteJob)
    OBVIOUS
  <2>2. WalkOK(NotWalking, wrote)
    BY <2>1, BetweenOperations
  <2>3. NotWalking \in WalkType
    BY <2>2 DEF WalkOK
  <2> QED
    BY <2>2, <2>3 DEF WalksOK, WatchInit
<1> QED
  BY <1>1, <1>2, <1>3 DEF WatchInv

LEMMA WatchSteps == WatchInv /\ [WatchNext]_watchVars => WatchInv'
<1> SUFFICES ASSUME WatchInv, [WatchNext]_watchVars PROVE WatchInv'
  OBVIOUS
<1>1. ASSUME NEW p \in NotePath, (\E t \in NoteText : Edit(p, t)) \/ Erase(p) PROVE WatchInv'
  BY <1>1, UserKeeps
<1>2. ASSUME NEW p \in NotePath, NEW q \in NotePath, Move(p, q) PROVE WatchInv'
  BY <1>2, MoveKeeps
<1>3. ASSUME NEW f \in NoteFile, NEW t \in NoteText, RemoteWrites(f, t) PROVE WatchInv'
  BY <1>3, RemoteWritesKeeps
<1>4. ASSUME NEW w \in Walk, Flush(w) \/ SyncStarts(w) \/ SyncEnds(w) \/ Planned(w) PROVE WatchInv'
  BY <1>4, FlushKeeps, SyncStartsKeeps, WalkEnds
<1> QED
  BY <1>1, <1>2, <1>3, <1>4, RemoteIndexedKeeps, ReconcileKeeps, PhaseKeeps DEF WatchNext

\* makeContentOp, applyOp: an operation that claims to be made on a version of another device
\* is made from a text at least as new, whatever flushes, renames and writes come between;
\* for any number of notes and files.
THEOREM BasesAreWritten == WatchSpec => []BaseWasWritten
<1>1. WatchInv => BaseWasWritten
  BY DEF WatchInv, WalksOK, WalkOK, BaseWasWritten
<1> QED
  BY <1>1, WatchBegins, WatchSteps, PTL DEF WatchSpec

\* Where a file is after the renames.
AfterRenames(f) ==
    IF \E r \in Renames : r.file = f
    THEN (CHOOSE r \in Renames : r.file = f).path ELSE tracked[f].path

LEMMA RenamesFinite ==
    ASSUME NotesOK
    PROVE  Cardinality({r.file : r \in Renames}) = Cardinality(Renames)
<1> DEFINE files == {r.file : r \in Renames}
           f == [r \in Renames |-> r.file]
<1>1. RenamesOK(Renames, Appearing) /\ Missing \subseteq NoteFile
  BY PlanTyped
<1> HIDE DEF Renames
<1>2. \A r, s \in Renames : r.file = s.file => r = s
  BY <1>1 DEF RenamesOK
<1>3. f \in Bijection(Renames, files)
  BY <1>2 DEF Bijection, Injection, Surjection, IsInjective
<1>5. IsFiniteSet(Renames)
  BY PlanTyped
<1>6. ExistsBijection(Renames, files)
  BY <1>3 DEF ExistsBijection
<1> HIDE DEF f, files
<1>7. Cardinality(files) = Cardinality(Renames)
  BY <1>5, <1>6, FS_Bijection
<1> QED
  BY <1>7 DEF files

\* A file that is kept has been renamed to an appearing path, or its path is in the vault.
LEMMA KeptWhere ==
    ASSUME NotesOK, NEW f \in Entries(tracked) \ Deletes
    PROVE  \/ \E r \in Renames : /\ r.file = f /\ AfterRenames(f) = r.path /\ r.path \in Appearing
                                /\ tracked[f].text = scan[r.path]
           \/ /\ \A r \in Renames : r.file # f
              /\ AfterRenames(f) = tracked[f].path /\ f \notin Missing
<1>1. RenamesOK(Renames, Appearing)
  BY PlanTyped
<1>2. f \in Missing => \E r \in Renames : r.file = f
  BY DEF Deletes
<1> HIDE DEF Renames
<1>3. CASE \E r \in Renames : r.file = f
  <2> DEFINE r == CHOOSE s \in Renames : s.file = f
  <2>1. r \in Renames /\ r.file = f
    BY <1>3
  <2>2. AfterRenames(f) = r.path
    BY <1>3 DEF AfterRenames
  <2> HIDE DEF r
  <2>3. r.path \in Appearing /\ tracked[f].text = scan[r.path]
    BY <1>1, <2>1 DEF RenamesOK
  <2> QED
    BY <2>1, <2>2, <2>3
<1>4. CASE ~\E r \in Renames : r.file = f
  BY <1>2, <1>4 DEF AfterRenames
<1> QED
  BY <1>3, <1>4

LEMMA PlanExplains ==
    ASSUME NotesOK
    PROVE  LET Kept == Entries(tracked) \ Deletes
           IN  /\ \A p \in NotePath \ (Creates \cup Updates) :
                     {scan[p]} \ {None} = {tracked[f].text : f \in {g \in Kept : AfterRenames(g) = p}}
               /\ \A f, g \in Kept : AfterRenames(f) = AfterRenames(g) => f = g
               /\ \A f \in Deletes, p \in Creates : tracked[f].text # scan[p]
<1> DEFINE Kept == Entries(tracked) \ Deletes
           NotesAt(p) == {g \in Kept : AfterRenames(g) = p}
<1>1. RenamesOK(Renames, Appearing) /\ Missing \subseteq Entries(tracked)
  BY PlanTyped DEF Missing
<1>2. \A p \in Appearing : scan[p] # None /\ \A f \in Entries(tracked) : tracked[f].path # p
  BY DEF Appearing, HasEntry
<1>3. \A f \in Entries(tracked) \ Missing : scan[tracked[f].path] # None
  BY DEF Missing
<1>4. \A f \in Entries(tracked) : tracked[f].path \in NotePath /\ tracked[f].text # None
  BY EntryIn, NotesNumbered DEF Entry, None
<1>5. \A f \in Kept :
         \/ \E r \in Renames : /\ r.file = f /\ AfterRenames(f) = r.path /\ r.path \in Appearing
                               /\ tracked[f].text = scan[r.path]
         \/ /\ \A r \in Renames : r.file # f
            /\ AfterRenames(f) = tracked[f].path /\ f \in Entries(tracked) \ Missing
  BY KeptWhere
<1>6. \A f, g \in Kept : AfterRenames(f) = AfterRenames(g) => f = g
  <2>1. ASSUME NEW f \in Kept, NEW g \in Kept, AfterRenames(f) = AfterRenames(g)
        PROVE  f = g
    <3>1. CASE \E r \in Renames : r.file = f /\ AfterRenames(f) = r.path /\ r.path \in Appearing
      <4>1. PICK r \in Renames : r.file = f /\ AfterRenames(f) = r.path /\ r.path \in Appearing
        BY <3>1
      <4>2. AfterRenames(g) # tracked[g].path
        BY <1>2, <2>1, <4>1
      <4>3. PICK s \in Renames : s.file = g /\ AfterRenames(g) = s.path
        BY <1>5, <4>2
      <4>4. r.path = s.path
        BY <2>1, <4>1, <4>3
      <4>5. r = s
        BY <1>1, <4>1, <4>3, <4>4 DEF RenamesOK
      <4> QED
        BY <4>1, <4>3, <4>5
    <3>2. CASE AfterRenames(f) = tracked[f].path
      <4>1. AfterRenames(g) \notin Appearing
        BY <1>2, <2>1, <3>2
      <4>2. AfterRenames(g) = tracked[g].path
        BY <1>5, <4>1
      <4> QED
        BY <2>1, <3>2, <4>2 DEF NotesOK
    <3> QED
      BY <1>5, <3>1, <3>2
  <2> QED
    BY <2>1
<1>7. ASSUME NEW p \in NotePath, p \notin Creates, p \notin Updates
      PROVE  {scan[p]} \ {None} = {tracked[f].text : f \in NotesAt(p)}
  <2>1. ASSUME NEW f \in Kept, AfterRenames(f) = p
        PROVE  tracked[f].text = scan[p] /\ scan[p] # None
    <3>1. CASE \E r \in Renames : /\ r.file = f /\ AfterRenames(f) = r.path /\ r.path \in Appearing
                                /\ tracked[f].text = scan[r.path]
      BY <1>2, <2>1, <3>1
    <3>2. CASE AfterRenames(f) = tracked[f].path /\ f \in Entries(tracked) \ Missing
      <4>1. scan[tracked[f].path] = tracked[f].text
        <5>1. scan[tracked[f].path] # tracked[f].text => tracked[f].path \in Updates
          BY <3>2 DEF Updates
        <5> QED
          BY <1>7, <2>1, <3>2, <5>1
      <4> QED
        BY <1>3, <2>1, <3>2, <4>1
    <3> QED
      BY <1>5, <3>1, <3>2
  <2>2. ASSUME scan[p] # None
        PROVE  \E f \in Kept : AfterRenames(f) = p
    <3>1. CASE HasEntry(p)
      <4>1. PICK f \in Entries(tracked) : tracked[f].path = p
        BY <3>1 DEF HasEntry
      <4>2. f \notin Missing
        BY <2>2, <4>1 DEF Missing
      <4>3. f \in Kept
        BY <4>2 DEF Deletes
      <4>4. \A r \in Renames : r.file # f
        BY <1>1, <4>2 DEF RenamesOK
      <4>5. AfterRenames(f) = p
        BY <4>1, <4>4 DEF AfterRenames
      <4> QED
        BY <4>3, <4>5
    <3>2. CASE ~HasEntry(p)
      <4>1. p \in Appearing
        BY <2>2, <3>2 DEF Appearing
      <4>2. PICK r \in Renames : r.path = p
        BY <1>7, <4>1 DEF Creates
      <4>3. r.file \in Missing
        BY <1>1 DEF RenamesOK
      <4>4. r.file \in Kept
        BY <1>1, <4>3 DEF Deletes
      <4>5. \A s \in Renames : s.file = r.file => s = r
        BY <1>1 DEF RenamesOK
      <4>6. AfterRenames(r.file) = p
        BY <1>5, <4>2, <4>4, <4>5
      <4> QED
        BY <4>4, <4>6
    <3> QED
      BY <3>1, <3>2
  <2> HIDE DEF Kept
  <2> QED
    BY <2>1, <2>2
<1>8. ASSUME NEW f \in Deletes, NEW p \in Creates
      PROVE  tracked[f].text # scan[p]
  <2>1. p \in Appearing /\ \A r \in Renames : r.path # p
    BY DEF Creates
  <2>2. f \in Missing /\ \A r \in Renames : r.file # f
    BY DEF Deletes
  <2> QED
    BY <1>1, <2>1, <2>2 DEF RenamesOK
<1> QED
  BY <1>6, <1>7, <1>8

\* planReconciliation: the renames, creations, updates and deletions it plans turn what the
\* index says into what the vault has; no file is renamed twice, no two files end at one path,
\* and none is deleted while its text appears as that of a new note; for any vault.
THEOREM PlanIsComplete == WatchSpec => []PlanExplainsVault
<1>1. WatchInv => PlanExplainsVault
  BY PlanExplains, RenamesFinite DEF WatchInv, PlanExplainsVault, AfterRenames
<1> QED
  BY <1>1, WatchBegins, WatchSteps, PTL DEF WatchSpec

-----------------------------------------------------------------------------
(***************************************************************************)
(* Forced runs.                                                            *)
(***************************************************************************)
Row ==
    [content : ForceContent \cup {Absent}, path : ForcePath \cup {AnotherName}, version : Nat]

PushAction ==
    [kind : {"put"}, path : ForcePath, file : KnownFile \cup {Absent}, seen : Nat]
      \cup [kind : {"delete"}, path : ForcePath \cup {AnotherName}, file : KnownFile, seen : Nat]

PullAction ==
    [kind : {"write"}, path : ForcePath, file : ForceFile]
      \cup [kind : {"trash"}, path : ForcePath, file : {Absent}]

\* No two live files have a path, but one with a suffix.
RowsOK(rows) ==
    /\ rows \in [ForceFile -> Row]
    /\ \A f, g \in Live(rows) : (rows[f].path = rows[g].path /\ f # g) => rows[f].path = AnotherName
    /\ \A f \in ForceFile : rows[f].version = 0 => rows[f].content = Absent

ForceTypeOK ==
    /\ mine \in [ForcePath -> ForceContent \cup {Absent}]
    /\ entries \in [ForceFile -> ForcePath \cup {Absent}]
    /\ RowsOK(theirs) /\ RowsOK(force.listed)
    /\ force \in [at : Running \cup {"idle", "pushed", "pulled", "failed"},
                  todo : Seq(PushAction) \cup Seq(PullAction), listed : [ForceFile -> Row]]
    /\ force.at = "push" => force.todo \in Seq(PushAction)
    /\ force.at = "pull" => force.todo \in Seq(PullAction)
    /\ unseen \subseteq KnownFile
    /\ force.at \in {"idle", "pushing", "push", "pushed", "pulling"} => fetched = {}

\* A run begins with an index that has a file at most for a path, and ids that nobody knows.
BeforeListing ==
    force.at \in {"idle", "pushing", "pulling"} =>
        /\ unseen = {}
        /\ \A f \in FreshFile : theirs[f].version = 0 /\ entries[f] = Absent
        /\ \A f, g \in ForceFile : (entries[f] = entries[g] /\ f # g) => entries[f] = Absent

\* What is still to be done is what the rows and the vault ask for.
PutOK(action, rows) ==
    /\ action.kind = "put" /\ action.path \in Here /\ action.file \in KnownFile \cup {Absent}
    /\ action.file \in Live(rows) => rows[action.file].path = action.path
    /\ action.file \notin Live(rows) => FileAt(rows, action.path) = {}

DeleteOK(action, rows) ==
    /\ action.kind = "delete" /\ action.file \in Live(rows) \cap KnownFile
    /\ rows[action.file].path = action.path /\ action.path \notin Here

\* Two actions are about two files, and put at two paths.
Apart(a, b) ==
    /\ a.file = b.file => a.file = Absent
    /\ (a.kind = "put" /\ b.kind = "put") => a.path # b.path

\* What no action is about is as it should be: paths, files elsewhere, entries.
PathsOK(todo, rows) ==
    \A p \in ForcePath : \/ Contents(rows)[p] = OfVault[p]
                         \/ \E i \in 1 .. Len(todo) : todo[i].path = p

NamesOK(todo, rows) ==
    \A f \in Live(rows) : \/ rows[f].path \in ForcePath
                          \/ \E i \in 1 .. Len(todo) : todo[i].kind = "delete" /\ todo[i].file = f

IndexOK(todo, rows, index) ==
    \A f \in ForceFile, p \in Here :
        /\ f \in FileAt(rows, p) => index[f] = p
        /\ index[f] = p =>
              \/ f \in FileAt(rows, p)
              \/ \E i \in 1 .. Len(todo) :
                    todo[i].file = f /\ (todo[i].kind = "put" => todo[i].path = p)

ActionsOK(todo, rows) ==
    /\ \A i \in 1 .. Len(todo) : PutOK(todo[i], rows) \/ DeleteOK(todo[i], rows)
    /\ \A i, j \in 1 .. Len(todo) : i # j => Apart(todo[i], todo[j])

\* A put is made for the version that was listed.
MadeFor(action, rows) ==
    action.seen = IF action.file \in Live(rows) THEN rows[action.file].version ELSE 0

PushOK ==
    (force.at = "push" /\ unseen = {}) =>
        /\ ActionsOK(force.todo, theirs)
        /\ PathsOK(force.todo, theirs) /\ NamesOK(force.todo, theirs)
        /\ cycle \/ IndexOK(force.todo, theirs, entries)

\* What a pull has still to do.
PullsOK(todo, listed) ==
    /\ \A i \in 1 .. Len(todo) :
          \/ todo[i].kind = "write" /\ todo[i].file \in FileAt(listed, todo[i].path)
          \/ todo[i].kind = "trash" /\ FileAt(listed, todo[i].path) = {}
    /\ \A i, j \in 1 .. Len(todo) : i # j => todo[i].path # todo[j].path

\* What was fetched is the content of a file that is written.
FetchedOK(todo, listed) ==
    \A c \in fetched : \E f \in Live(listed) :
        listed[f].content = c /\ \A i \in 1 .. Len(todo) : todo[i].file # f

PullOK ==
    force.at = "pull" =>
        /\ PullsOK(force.todo, force.listed) /\ PathsOK(force.todo, force.listed)
        /\ FetchedOK(force.todo, force.listed)

ForceInv == ForceTypeOK /\ BeforeListing /\ PushOK /\ PullOK /\ ForcedRunMirrors

LEMMA ForceNumbers ==
    /\ KnownFile \subseteq Nat \ {0} /\ FreshFile \subseteq Nat \ {0} /\ ForcePath \subseteq Nat \ {0}
    /\ ForceContent \subseteq Nat \ {0} /\ KnownFile \cap FreshFile = {}
    /\ ForceFile = KnownFile \cup FreshFile /\ Absent = 0 /\ AnotherName = 0
    /\ IsFiniteSet(ForceFile) /\ IsFiniteSet(ForcePath)
<1>1. IsFiniteSet(ForceFile)
  BY ForceAssumption, FS_Union DEF ForceFile
<1> QED
  BY <1>1, ForceAssumption DEF ForceFile, Absent, AnotherName

LEMMA FileAtIs ==
    ASSUME NEW rows, NEW p, NEW f
    PROVE  f \in FileAt(rows, p) <=> (f \in ForceFile /\ rows[f].content # Absent /\ rows[f].path = p)
BY DEF FileAt, Live

\* What is at a path is one file.
LEMMA OneFileAt ==
    ASSUME NEW rows, RowsOK(rows), NEW p \in ForcePath, NEW f \in FileAt(rows, p)
    PROVE  FileAt(rows, p) = {f} /\ Contents(rows)[p] = {rows[f].content}
<1>1. ASSUME NEW g \in FileAt(rows, p)
      PROVE  g = f
  BY <1>1, ForceNumbers DEF RowsOK, FileAt
<1>2. FileAt(rows, p) = {f}
  BY <1>1
<1> QED
  BY <1>2 DEF Contents

LEMMA NoFileAt ==
    ASSUME NEW rows, NEW p \in ForcePath, FileAt(rows, p) = {}
    PROVE  Contents(rows)[p] = {}
BY DEF Contents

\* A path whose files are left alone has what it had.
LEMMA OtherPath ==
    ASSUME NEW rows, NEW after, NEW q,
           \A g \in ForceFile : g \in FileAt(rows, q) \cup FileAt(after, q) => after[g] = rows[g]
    PROVE  /\ FileAt(after, q) = FileAt(rows, q)
           /\ q \in ForcePath => Contents(after)[q] = Contents(rows)[q]
<1>1. \A g : g \in FileAt(after, q) <=> g \in FileAt(rows, q)
  BY FileAtIs
<1>2. FileAt(after, q) = FileAt(rows, q)
  BY <1>1
<1>3. \A g \in FileAt(rows, q) : after[g] = rows[g]
  BY FileAtIs
<1> QED
  BY <1>2, <1>3 DEF Contents

\* A row that is written, by whomever, keeps the rows as they have to be.
LEMMA PutKeeps ==
    ASSUME RowsOK(theirs), NEW f \in ForceFile, NEW p \in ForcePath, NEW c \in ForceContent \cup {Absent},
           Put(f, p, c)
    PROVE  /\ RowsOK(theirs')
           /\ \A g \in ForceFile \ {f} : theirs'[g] = theirs[g]
           /\ theirs'[f].content = c /\ theirs'[f].version # 0
           /\ theirs'[f].path = IF f \in Live(theirs) THEN theirs[f].path ELSE PathFor(p)
<1> DEFINE q == IF f \in Live(theirs) THEN theirs[f].path ELSE PathFor(p)
           row == [content |-> c, version |-> theirs[f].version + 1, path |-> q]
<1>1. q \in ForcePath \cup {AnotherName} /\ theirs[f].version \in Nat
  BY DEF RowsOK, Row, PathFor
<1>2. q = AnotherName \/ \A g \in Live(theirs) : theirs[g].path = q => g = f
  BY ForceNumbers DEF RowsOK, PathFor, FileAt, Live
<1>3. theirs' = [theirs EXCEPT ![f] = row]
  BY DEF Put
<1> HIDE DEF q
<1>4. row \in Row /\ row.version # 0 /\ row.content = c /\ row.path = q
  BY <1>1, ForceNumbers DEF Row
<1> HIDE DEF row
<1>5. theirs' \in [ForceFile -> Row] /\ theirs'[f] = row /\ \A g \in ForceFile \ {f} : theirs'[g] = theirs[g]
  BY <1>3, <1>4 DEF RowsOK
<1>6. Live(theirs') \subseteq Live(theirs) \cup {f}
  BY <1>5 DEF Live
<1>7. ASSUME NEW g \in Live(theirs'), NEW h \in Live(theirs'), theirs'[g].path = theirs'[h].path, g # h
      PROVE  theirs'[g].path = AnotherName
  <2>1. CASE g # f /\ h # f
    BY <1>5, <1>6, <1>7, <2>1 DEF RowsOK, Live
  <2>2. CASE g = f
    BY <1>2, <1>4, <1>5, <1>6, <1>7, <2>2 DEF Live
  <2>3. CASE h = f
    BY <1>2, <1>4, <1>5, <1>6, <1>7, <2>3 DEF Live
  <2> QED
    BY <2>1, <2>2, <2>3
<1>8. \A g \in ForceFile : theirs'[g].version = 0 => theirs'[g].content = Absent
  BY <1>4, <1>5 DEF RowsOK
<1>9. RowsOK(theirs')
  BY <1>5, <1>7, <1>8 DEF RowsOK
<1> QED
  BY <1>4, <1>5, <1>6, <1>9 DEF q

LEMMA DeleteKeeps ==
    ASSUME RowsOK(theirs), NEW f \in ForceFile, theirs' = [theirs EXCEPT ![f].content = Absent]
    PROVE  /\ RowsOK(theirs') /\ Live(theirs') = Live(theirs) \ {f}
           /\ \A g \in ForceFile \ {f} : theirs'[g] = theirs[g]
<1>1. theirs' \in [ForceFile -> Row] /\ theirs'[f].content = Absent
      /\ \A g \in ForceFile \ {f} : theirs'[g] = theirs[g]
  BY DEF RowsOK, Row
<1>2. Live(theirs') = Live(theirs) \ {f}
  BY <1>1 DEF Live
<1>3. \A g \in Live(theirs') : theirs'[g] = theirs[g] /\ g \in Live(theirs)
  BY <1>1, <1>2 DEF Live
<1>4. \A g \in ForceFile : theirs'[g].version = 0 => theirs'[g].content = Absent
  BY <1>1 DEF RowsOK
<1>5. \A g, h \in Live(theirs') :
         (theirs'[g].path = theirs'[h].path /\ g # h) => theirs'[g].path = AnotherName
  BY <1>3 DEF RowsOK
<1> QED
  BY <1>1, <1>2, <1>4, <1>5 DEF RowsOK

\* What is left of a list when its first element is taken.
LEMMA RestIs ==
    ASSUME NEW S, NEW s \in Seq(S), s # <<>>
    PROVE  /\ Head(s) = s[1] /\ Head(s) \in S /\ Tail(s) \in Seq(S) /\ 1 \in 1 .. Len(s)
           /\ \A i \in 1 .. Len(Tail(s)) : i + 1 \in 1 .. Len(s) /\ i + 1 # 1 /\ Tail(s)[i] = s[i + 1]
           /\ \A i \in 1 .. Len(s) : i # 1 => i - 1 \in 1 .. Len(Tail(s)) /\ Tail(s)[i - 1] = s[i]
<1>1. Len(s) \in Nat \ {0} /\ Len(Tail(s)) = Len(s) - 1 /\ Tail(s) \in Seq(S) /\ Head(s) = s[1]
  OBVIOUS
<1>2. \A i \in 1 .. Len(Tail(s)) : i + 1 \in 1 .. Len(s) /\ i + 1 # 1 /\ Tail(s)[i] = s[i + 1]
  BY <1>1
<1>3. \A i \in 1 .. Len(s) : i # 1 => i - 1 \in 1 .. Len(Tail(s))
  BY <1>1
<1>4. \A i \in 1 .. Len(s) : i # 1 => Tail(s)[i - 1] = s[i]
  <2>1. ASSUME NEW i \in 1 .. Len(s), i # 1 PROVE Tail(s)[i - 1] = s[(i - 1) + 1]
    BY <1>2, <1>3, <2>1
  <2>2. \A i \in 1 .. Len(s) : (i - 1) + 1 = i
    BY <1>1
  <2> QED
    BY <2>1, <2>2
<1> QED
  BY <1>1, <1>2, <1>3, <1>4

\* Of what a list must contain, its rest contains all but the first.
LEMMA RestHas ==
    ASSUME NEW S, NEW s \in Seq(S), s # <<>>, NEW i \in 1 .. Len(s), s[i] # Head(s)
    PROVE  \E j \in 1 .. Len(Tail(s)) : Tail(s)[j] = s[i]
<1>1. i # 1
  BY RestIs
<1> QED
  BY <1>1, RestIs

\* The first action was done: it is about one row, f, and about one entry.
DoneWith(todo, f, rows, after, index, then) ==
    /\ todo \in Seq(PushAction) /\ todo # <<>> /\ RowsOK(rows) /\ RowsOK(after)
    /\ f \in ForceFile /\ (f = Head(todo).file \/ (Head(todo).file = Absent /\ f \notin KnownFile))
    /\ \A g \in ForceFile \ {f} : after[g] = rows[g] /\ then[g] = index[g]
    /\ \/ /\ Head(todo).kind = "put" /\ f \in Live(after) /\ then[f] = Head(todo).path
          /\ after[f].path = Head(todo).path /\ after[f].content = mine[Head(todo).path]
          /\ f \in Live(rows) => rows[f].path = Head(todo).path
       \/ /\ Head(todo).kind = "delete" /\ f = Head(todo).file
          /\ f \notin Live(after) /\ then[f] = Absent

\* It leaves the others as they have to be, for no other is about that row.
LEMMA ActionDone ==
    ASSUME NEW todo, NEW f, NEW rows, NEW after, NEW index, NEW then,
           DoneWith(todo, f, rows, after, index, then),
           mine \in [ForcePath -> ForceContent \cup {Absent}],
           ActionsOK(todo, rows), PathsOK(todo, rows), NamesOK(todo, rows)
    PROVE  /\ ActionsOK(Tail(todo), after) /\ PathsOK(Tail(todo), after) /\ NamesOK(Tail(todo), after)
           /\ IndexOK(todo, rows, index) => IndexOK(Tail(todo), after, then)
<1> DEFINE a == Head(todo)
           rest == Tail(todo)
           p == a.path
<1>0. /\ todo \in Seq(PushAction) /\ todo # <<>> /\ RowsOK(rows) /\ RowsOK(after)
      /\ f \in ForceFile /\ (f = a.file \/ (a.file = Absent /\ f \notin KnownFile))
      /\ \A g \in ForceFile \ {f} : after[g] = rows[g] /\ then[g] = index[g]
      /\ \/ /\ a.kind = "put" /\ f \in Live(after) /\ then[f] = p
            /\ after[f].path = p /\ after[f].content = mine[p]
            /\ f \in Live(rows) => rows[f].path = p
         \/ /\ a.kind = "delete" /\ f = a.file
            /\ f \notin Live(after) /\ then[f] = Absent
  BY DEF DoneWith
<1>1. /\ a = todo[1] /\ 1 \in 1 .. Len(todo) /\ a \in PushAction /\ rest \in Seq(PushAction)
      /\ \A i \in 1 .. Len(rest) : i + 1 \in 1 .. Len(todo) /\ i + 1 # 1 /\ rest[i] = todo[i + 1]
  BY <1>0, RestIs
<1>2. \A i \in 1 .. Len(todo) : todo[i] # a => \E j \in 1 .. Len(rest) : rest[j] = todo[i]
  BY <1>0, RestHas
<1>3. PutOK(a, rows) \/ DeleteOK(a, rows)
  BY <1>1 DEF ActionsOK
<1>4. \A i \in 1 .. Len(rest) : /\ Apart(a, rest[i])
                               /\ (PutOK(rest[i], rows) \/ DeleteOK(rest[i], rows))
  BY <1>1 DEF ActionsOK
<1>5. \A i, j \in 1 .. Len(rest) : i # j => Apart(rest[i], rest[j])
  <2>1. ASSUME NEW i \in 1 .. Len(rest), NEW j \in 1 .. Len(rest), i # j
        PROVE  Apart(rest[i], rest[j])
    <3>1. i + 1 \in 1 .. Len(todo) /\ j + 1 \in 1 .. Len(todo) /\ i + 1 # j + 1
      BY <1>1, <2>1
    <3> QED
      BY <1>1, <3>1 DEF ActionsOK
  <2> QED
    BY <2>1
<1> HIDE DEF a, rest
<1>6. \A i \in 1 .. Len(rest) : rest[i].file # f
  BY <1>0, <1>4, ForceNumbers DEF Apart, PutOK, DeleteOK, a
<1>7. f \in Live(rows) => rows[f].path = p
  BY <1>0, <1>3 DEF PutOK, DeleteOK, a
<1>8. \A q : q # p => (f \notin FileAt(rows, q) /\ f \notin FileAt(after, q))
  BY <1>0, <1>7 DEF FileAt, a
<1>9. \A q : q # p => /\ FileAt(after, q) = FileAt(rows, q)
                      /\ q \in ForcePath => Contents(after)[q] = Contents(rows)[q]
  <2>1. ASSUME NEW q, q # p
        PROVE  \A g \in ForceFile : g \in FileAt(rows, q) \cup FileAt(after, q) => after[g] = rows[g]
    BY <1>0, <1>8, <2>1
  <2> QED
    BY <2>1, OtherPath
<1>10. \A g \in ForceFile \ {f} : g \in Live(after) <=> g \in Live(rows)
  BY <1>0 DEF Live
<1>11. a.kind = "put" => p \in Here /\ p \in ForcePath
  BY <1>3 DEF PutOK, DeleteOK, Here
<1>12. a.kind = "delete" => p \notin Here
  BY <1>3 DEF PutOK, DeleteOK
<1>13. ActionsOK(rest, after)
  <2>1. ASSUME NEW i \in 1 .. Len(rest), PutOK(rest[i], rows)
        PROVE  PutOK(rest[i], after)
    <3> DEFINE b == rest[i]
    <3>1. b.path # p
      BY <1>3, <1>4, <1>12, <2>1 DEF PutOK, DeleteOK, Apart
    <3>2. FileAt(after, b.path) = FileAt(rows, b.path)
      BY <1>9, <3>1
    <3>3. b.file \in Live(after) <=> b.file \in Live(rows)
      BY <1>6, <1>10 DEF Live
    <3>4. b.file \in Live(rows) => after[b.file] = rows[b.file]
      BY <1>0, <1>6 DEF Live
    <3> QED
      BY <2>1, <3>2, <3>3, <3>4 DEF PutOK
  <2>2. ASSUME NEW i \in 1 .. Len(rest), DeleteOK(rest[i], rows)
        PROVE  DeleteOK(rest[i], after)
    BY <1>0, <1>6, <1>10, <2>2 DEF DeleteOK, Live
  <2> QED
    BY <1>4, <1>5, <2>1, <2>2 DEF ActionsOK
<1>14. PathsOK(rest, after)
  <2>1. ASSUME NEW q \in ForcePath, q # p
        PROVE  Contents(after)[q] = OfVault[q] \/ \E i \in 1 .. Len(rest) : rest[i].path = q
    BY <1>2, <1>9, <2>1 DEF PathsOK
  <2>2. ASSUME p \in ForcePath
        PROVE  Contents(after)[p] = OfVault[p]
    <3>1. CASE a.kind = "put"
      <4>1. f \in FileAt(after, p) /\ after[f].content = mine[p] /\ mine[p] # Absent
        BY <1>0, <1>11, <3>1 DEF FileAt, a, Here
      <4>2. Contents(after)[p] = {mine[p]}
        BY <1>0, <2>2, <4>1, OneFileAt
      <4> QED
        BY <2>2, <4>1, <4>2 DEF OfVault
    <3>2. CASE a.kind = "delete"
      <4>1. f \in FileAt(rows, p) /\ f \notin Live(after)
        BY <1>0, <1>3, <3>2 DEF PutOK, DeleteOK, FileAt, a
      <4>2. FileAt(rows, p) = {f}
        BY <1>0, <2>2, <4>1, OneFileAt
      <4>3. FileAt(after, p) = {}
        <5>1. ASSUME NEW g \in FileAt(after, p) PROVE FALSE
          <6>1. g \in ForceFile \ {f}
            BY <4>1, <5>1 DEF FileAt, Live
          <6>2. g \in FileAt(rows, p)
            BY <1>0, <5>1, <6>1, FileAtIs
          <6> QED
            BY <4>2, <6>1, <6>2
        <5> QED
          BY <5>1
      <4>4. mine[p] = Absent
        BY <1>12, <2>2, <3>2 DEF Here
      <4> QED
        BY <2>2, <4>3, <4>4, NoFileAt DEF OfVault
    <3> QED
      BY <1>0, <3>1, <3>2 DEF a
  <2> QED
    BY <2>1, <2>2 DEF PathsOK
<1>15. NamesOK(rest, after)
  <2>1. ASSUME NEW g \in Live(after), after[g].path \notin ForcePath
        PROVE  \E i \in 1 .. Len(rest) : rest[i].kind = "delete" /\ rest[i].file = g
    <3>1. g # f
      BY <1>0, <1>11, <2>1 DEF a
    <3>2. g \in Live(rows) /\ rows[g].path \notin ForcePath
      BY <1>0, <1>10, <2>1, <3>1 DEF Live
    <3>3. PICK i \in 1 .. Len(todo) : todo[i].kind = "delete" /\ todo[i].file = g
      BY <3>2 DEF NamesOK
    <3>4. todo[i] # a
      BY <1>0, <3>1, <3>3, <1>11 DEF a
    <3> QED
      BY <1>2, <3>3, <3>4
  <2> QED
    BY <2>1 DEF NamesOK
<1>16. ASSUME IndexOK(todo, rows, index)
       PROVE  IndexOK(rest, after, then)
  <2> SUFFICES ASSUME NEW g \in ForceFile, NEW q \in Here
               PROVE  /\ g \in FileAt(after, q) => then[g] = q
                      /\ then[g] = q =>
                            \/ g \in FileAt(after, q)
                            \/ \E i \in 1 .. Len(rest) :
                                  rest[i].file = g /\ (rest[i].kind = "put" => rest[i].path = q)
    BY DEF IndexOK
  <2>1. CASE g = f
    <3>1. g \in FileAt(after, q) => then[g] = q
      BY <1>0, <2>1, <1>12 DEF FileAt, a
    <3>2. then[g] = q => g \in FileAt(after, q)
      BY <1>0, <2>1, ForceNumbers DEF FileAt, Here
    <3> QED
      BY <3>1, <3>2
  <2>2. CASE g # f
    <3>1. g \in FileAt(after, q) <=> g \in FileAt(rows, q)
      BY <1>0, <2>2, FileAtIs
    <3>2. g \in FileAt(rows, q) => index[g] = q
      BY <1>16 DEF IndexOK
    <3>3. ASSUME index[g] = q, g \notin FileAt(rows, q)
          PROVE  \E i \in 1 .. Len(rest) : rest[i].file = g /\ (rest[i].kind = "put" => rest[i].path = q)
      <4>1. PICK i \in 1 .. Len(todo) : todo[i].file = g /\ (todo[i].kind = "put" => todo[i].path = q)
        BY <1>16, <3>3 DEF IndexOK
      <4>2. todo[i] # a
        BY <1>0, <2>2, <4>1, <1>3, ForceNumbers DEF a, PutOK, DeleteOK
      <4> QED
        BY <1>2, <4>1, <4>2
    <3> QED
      BY <1>0, <2>2, <3>1, <3>2, <3>3
  <2> QED
    BY <2>1, <2>2
<1> QED
  BY <1>13, <1>14, <1>15, <1>16 DEF rest

\* The last number of a finite set.
LEMMA LastOf ==
    ASSUME NEW S \in SUBSET Nat, IsFiniteSet(S), S # {}
    PROVE  Max(S) \in S /\ \A n \in S : n <= Max(S)
<1> DEFINE n == Cardinality(S)
           s == Ascending(S)
<1>1. /\ n \in Nat /\ s \in [1 .. n -> S] /\ \A i, j \in 1 .. n : i < j => s[i] < s[j]
      /\ \A x \in S : \E i \in 1 .. n : s[i] = x
  BY AscendingOrders
<1> HIDE DEF n, s
<1>2. n \in 1 .. n
  <2>1. PICK x \in S : TRUE
    OBVIOUS
  <2>2. PICK i \in 1 .. n : s[i] = x
    BY <1>1, <2>1
  <2> QED
    BY <1>1, <2>2
<1>3. ASSUME NEW x \in S PROVE s[n] >= x
  <2>1. PICK i \in 1 .. n : s[i] = x
    BY <1>1
  <2>2. CASE i = n
    BY <1>1, <2>1, <2>2
  <2>3. CASE i # n
    <3>1. s[i] < s[n]
      BY <1>1, <1>2, <2>3
    <3>2. s[i] \in Nat /\ s[n] \in Nat
      BY <1>1, <1>2
    <3> QED
      BY <2>1, <3>1, <3>2
  <2> QED
    BY <2>2, <2>3
<1>4. s[n] \in S
  BY <1>1, <1>2
<1>5. \E x \in S : \A y \in S : x >= y
  BY <1>3, <1>4
<1>6. Max(S) \in S /\ \A y \in S : Max(S) >= y
  BY <1>5, Zenon DEF Max
<1> QED
  BY <1>6

\* A sequence that has each element of a set once.
Lists(s, S) ==
    /\ s \in Seq(S)
    /\ \A i, j \in 1 .. Len(s) : s[i] = s[j] => i = j
    /\ \A x \in S : \E i \in 1 .. Len(s) : s[i] = x

LEMMA ByPathLists ==
    ASSUME NEW S, IsFiniteSet(S), \A action \in S : action.path \in Nat
    PROVE  Lists(ByPath(S), S)
<1> DEFINE key == [action \in S |-> action.path]
           s == ByPath(S)
           n == Cardinality(S)
<1>1. key \in [S -> Nat]
  OBVIOUS
<1>2. s = SortedBy(S, key)
  BY DEF ByPath
<1> HIDE DEF key, s
<1>3. IsOrderOf(s, S, key)
  BY <1>1, <1>2, SortedByOrders
<1>4. n \in Nat /\ s \in [1 .. n -> S]
  BY <1>3 DEF IsOrderOf
<1>5. s \in Seq(S) /\ Len(s) = n
  BY <1>4
<1> QED
  BY <1>3, <1>5 DEF IsOrderOf, Lists, s

LEMMA JoinLists ==
    ASSUME NEW S, NEW T, S \cap T = {}, NEW s, NEW t, Lists(s, S), Lists(t, T)
    PROVE  Lists(s \o t, S \cup T)
<1> DEFINE U == S \cup T
           j == s \o t
<1>1. s \in Seq(S) /\ t \in Seq(T) /\ s \in Seq(U) /\ t \in Seq(U) /\ Len(s) \in Nat /\ Len(t) \in Nat
  BY DEF Lists
<1>2. j \in Seq(U) /\ Len(j) = Len(s) + Len(t)
  BY <1>1
<1>3. \A i \in 1 .. Len(s) : j[i] = s[i] /\ s[i] \in S /\ i \in 1 .. Len(j)
  BY <1>1, <1>2
<1>4. \A i \in 1 .. Len(j) : i \in 1 .. Len(s) \/ i - Len(s) \in 1 .. Len(t)
  BY <1>1, <1>2
<1>5. \A i \in 1 .. Len(j) : i \notin 1 .. Len(s) => (j[i] = t[i - Len(s)] /\ t[i - Len(s)] \in T)
  BY <1>1, <1>2
<1>6. ASSUME NEW i \in 1 .. Len(j), NEW k \in 1 .. Len(j), j[i] = j[k]
      PROVE  i = k
  <2>1. CASE i \in 1 .. Len(s)
    <3>1. k \in 1 .. Len(s)
      BY <1>3, <1>5, <1>6, <2>1
    <3> QED
      BY <1>3, <1>6, <2>1, <3>1 DEF Lists
  <2>2. CASE i \notin 1 .. Len(s)
    <3>1. k \notin 1 .. Len(s)
      BY <1>3, <1>5, <1>6, <2>2
    <3>2. i - Len(s) = k - Len(s)
      <4>1. i - Len(s) \in 1 .. Len(t) /\ k - Len(s) \in 1 .. Len(t)
        BY <1>4, <2>2, <3>1
      <4>2. t[i - Len(s)] = t[k - Len(s)]
        BY <1>5, <1>6, <2>2, <3>1
      <4> QED
        BY <4>1, <4>2 DEF Lists
    <3>3. i \in Nat /\ k \in Nat
      OBVIOUS
    <3> QED
      BY <1>1, <3>2, <3>3
  <2> QED
    BY <2>1, <2>2
<1>7. ASSUME NEW x \in S
      PROVE  \E i \in 1 .. Len(j) : j[i] = x
  BY <1>3 DEF Lists
<1>8. ASSUME NEW x \in T
      PROVE  \E i \in 1 .. Len(j) : j[i] = x
  <2>1. PICK i \in 1 .. Len(t) : t[i] = x
    BY DEF Lists
  <2>2. i + Len(s) \in 1 .. Len(j) /\ i + Len(s) \notin 1 .. Len(s) /\ (i + Len(s)) - Len(s) = i
    BY <1>1, <1>2
  <2> QED
    BY <1>5, <2>1, <2>2
<1> HIDE DEF j
<1> QED
  BY <1>2, <1>6, <1>7, <1>8 DEF Lists, j

\* What is planned for a path of the vault.
LEMMA PutPlanned ==
    ASSUME RowsOK(theirs), NEW p \in Here, entries \in [ForceFile -> ForcePath \cup {Absent}],
           \A f \in FreshFile : theirs[f].version = 0 /\ entries[f] = Absent,
           \A f, g \in ForceFile : (entries[f] = entries[g] /\ f # g) => entries[f] = Absent
    PROVE  LET action == PutAt(theirs, p)
           IN  /\ action \in PushAction /\ action.kind = "put" /\ action.path = p
               /\ PutOK(action, theirs) /\ MadeFor(action, theirs)
               /\ FileAt(theirs, p) # {} => action.file \in FileAt(theirs, p)
               /\ (FileAt(theirs, p) = {} /\ action.file # Absent) => action.file \in Tracked(p)
               /\ FileAt(theirs, p) = {} =>
                     \A f \in Tracked(p) : f \in Live(theirs) \/ action.file = f
<1> DEFINE action == PutAt(theirs, p)
<1>1. p \in ForcePath
  BY DEF Here
<1>2. Live(theirs) \subseteq KnownFile
  BY ForceNumbers DEF Live, RowsOK
<1>3. CASE FileAt(theirs, p) # {}
  <2>1. PICK f \in FileAt(theirs, p) : f = CHOOSE g \in FileAt(theirs, p) : TRUE
    BY <1>3
  <2>2. action = [kind |-> "put", path |-> p, file |-> f, seen |-> theirs[f].version]
    BY <1>3, <2>1 DEF PutAt
  <2>3. f \in Live(theirs) /\ theirs[f].path = p /\ theirs[f].version \in Nat /\ f \in KnownFile
    BY <1>2, <2>1 DEF FileAt, Live, RowsOK, Row
  <2> HIDE DEF action
  <2>4. action \in PushAction
    BY <1>1, <2>2, <2>3 DEF PushAction
  <2>5. PutOK(action, theirs) /\ MadeFor(action, theirs)
    BY <2>2, <2>3 DEF PutOK, MadeFor
  <2> QED
    BY <1>3, <2>1, <2>2, <2>4, <2>5 DEF action
<1>4. CASE FileAt(theirs, p) = {} /\ Tracked(p) \subseteq Live(theirs)
  <2>1. action = [kind |-> "put", path |-> p, seen |-> 0, file |-> Absent]
    BY <1>4 DEF PutAt
  <2> HIDE DEF action
  <2>2. action \in PushAction
    BY <1>1, <2>1 DEF PushAction
  <2>3. PutOK(action, theirs) /\ MadeFor(action, theirs)
    BY <1>4, <2>1, ForceNumbers DEF PutOK, MadeFor, Live
  <2> QED
    BY <1>4, <2>1, <2>2, <2>3 DEF action
<1>5. CASE FileAt(theirs, p) = {} /\ ~(Tracked(p) \subseteq Live(theirs))
  <2>1. PICK f \in Tracked(p) : f = CHOOSE g \in Tracked(p) : TRUE
    BY <1>5
  <2>2. action = [kind |-> "put", path |-> p, seen |-> 0, file |-> f]
    BY <1>5, <2>1 DEF PutAt
  <2>3. f \in ForceFile /\ entries[f] = p /\ \A g \in Tracked(p) : g = f
    BY <1>1, <2>1, ForceNumbers DEF Tracked, EntryAt
  <2>4. f \in KnownFile /\ f \notin Live(theirs)
    BY <1>1, <1>5, <2>3, ForceNumbers
  <2> HIDE DEF action
  <2>5. action \in PushAction
    BY <1>1, <2>2, <2>4 DEF PushAction
  <2>6. PutOK(action, theirs) /\ MadeFor(action, theirs)
    BY <1>5, <2>2, <2>4 DEF PutOK, MadeFor
  <2> QED
    BY <1>5, <2>1, <2>2, <2>3, <2>5, <2>6 DEF action
<1> QED
  BY <1>3, <1>4, <1>5

LEMMA PlanIsLists ==
    ASSUME RowsOK(theirs), entries \in [ForceFile -> ForcePath \cup {Absent}],
           \A f \in FreshFile : theirs[f].version = 0 /\ entries[f] = Absent,
           \A f, g \in ForceFile : (entries[f] = entries[g] /\ f # g) => entries[f] = Absent
    PROVE  /\ Lists(PushPlan(theirs), PutActions(theirs) \cup DeleteActions(theirs))
           /\ \A a \in PutActions(theirs) : PutOK(a, theirs) /\ MadeFor(a, theirs) /\ a \in PushAction
           /\ \A a \in DeleteActions(theirs) : DeleteOK(a, theirs) /\ a \in PushAction
           /\ \A a, b \in PutActions(theirs) \cup DeleteActions(theirs) : a # b => Apart(a, b)
<1> DEFINE P == PutActions(theirs)
           G == DeleteActions(theirs)
<1>1. \A a \in P : /\ a.path \in Here /\ a = PutAt(theirs, a.path)
                   /\ PutOK(a, theirs) /\ MadeFor(a, theirs)
                   /\ a \in PushAction /\ a.kind = "put"
                   /\ (FileAt(theirs, a.path) = {} /\ a.file # Absent) => a.file \in Tracked(a.path)
  BY PutPlanned DEF PutActions
<1>2. \A a \in G : /\ a.file \in Live(theirs) /\ theirs[a.file].path = a.path /\ a.path \notin Here
                   /\ a = [kind |-> "delete", path |-> theirs[a.file].path, file |-> a.file, seen |-> 0]
  BY DEF DeleteActions
<1> HIDE DEF P, G
<1>3. Live(theirs) \subseteq KnownFile
  BY ForceNumbers DEF Live, RowsOK
<1>4. ASSUME NEW a \in G
      PROVE  DeleteOK(a, theirs) /\ a \in PushAction /\ a.kind = "delete"
  <2>1. a.kind = "delete" /\ a.seen = 0 /\ a.file \in KnownFile /\ a.path \in ForcePath \cup {AnotherName}
    BY <1>2, <1>3 DEF RowsOK, Row, Live
  <2>2. DeleteOK(a, theirs)
    BY <1>2, <2>1 DEF DeleteOK
  <2>3. a \in PushAction
    BY <1>2, <2>1 DEF PushAction
  <2> QED
    BY <2>1, <2>2, <2>3
<1>5. ASSUME NEW a \in P \cup G, NEW b \in P \cup G, a # b
      PROVE  Apart(a, b)
  <2>1. ASSUME a \in P, b \in P
        PROVE  Apart(a, b)
    <3>1. a.path # b.path
      BY <1>1, <1>5, <2>1
    <3>2. ASSUME a.file = b.file, a.file # Absent
          PROVE  FALSE
      <4>1. CASE a.file \in Live(theirs)
        BY <1>1, <2>1, <3>1, <3>2, <4>1 DEF PutOK
      <4>2. CASE a.file \notin Live(theirs)
        BY <1>1, <2>1, <3>1, <3>2, <4>2 DEF PutOK, Tracked, EntryAt
      <4> QED
        BY <4>1, <4>2
    <3> QED
      BY <3>1, <3>2 DEF Apart
  <2>2. ASSUME NEW c \in P, NEW d \in G, c.file = d.file
        PROVE  FALSE
    BY <1>1, <1>2, <2>2 DEF PutOK
  <2>3. ASSUME a \in G, b \in G
        PROVE  Apart(a, b)
    BY <1>2, <1>4, <1>5, <2>3 DEF Apart
  <2> QED
    BY <1>4, <1>5, <2>1, <2>2, <2>3 DEF Apart
<1>6. IsFiniteSet(P)
  <2> DEFINE at == [a \in P |-> a.path]
  <2>1. at \in [P -> ForcePath] /\ \A a, b \in P : at[a] = at[b] => a = b
    BY <1>1 DEF Here
  <2> HIDE DEF at
  <2> QED
    BY <2>1, ForceNumbers, FiniteByNumber
<1>7. IsFiniteSet(G)
  <2> DEFINE of == [a \in G |-> a.file]
  <2>1. of \in [G -> ForceFile] /\ \A a, b \in G : of[a] = of[b] => a = b
    BY <1>2 DEF Live
  <2> HIDE DEF of
  <2> QED
    BY <2>1, ForceNumbers, FiniteByNumber
<1>8. P \cap G = {}
  BY <1>1, <1>4
<1>9. (\A a \in P : a.path \in Nat) /\ \A a \in G : a.path \in Nat
  <2>1. ForcePath \subseteq Nat /\ AnotherName \in Nat
    BY ForceNumbers
  <2>2. \A a \in P : a.path \in Nat
    BY <1>1, <2>1 DEF Here
  <2>3. \A a \in G : a.path \in ForcePath \cup {AnotherName}
    BY <1>2, <1>3 DEF RowsOK, Row, Live
  <2> QED
    BY <2>1, <2>2, <2>3
<1>10. Lists(ByPath(P), P) /\ Lists(ByPath(G), G)
  BY <1>6, <1>7, <1>9, ByPathLists
<1>11. Lists(PushPlan(theirs), P \cup G)
  BY <1>8, <1>10, JoinLists DEF PushPlan, P, G
<1> QED
  BY <1>1, <1>4, <1>5, <1>11 DEF P, G

\* The adoptions leave paths in the index.
LEMMA AdoptionsTyped ==
    ASSUME entries \in [ForceFile -> ForcePath \cup {Absent}], NEW f \in ForceFile
    PROVE  AdoptedAll(theirs)[f] \in ForcePath \cup {Absent}
<1> DEFINE R == {q \in Adoptions(theirs) : f \in Tracked(q) \cup FileAt(theirs, q)}
           last == Max(R)
<1>1. R \subseteq ForcePath /\ R \subseteq Nat
  BY ForceNumbers DEF Adoptions, Here
<1>2. R # {} => last \in R
  BY <1>1, ForceNumbers, FS_Subset, LastOf
<1>3. AdoptedAll(theirs)[f] =
         IF R = {} THEN entries[f] ELSE IF f \in FileAt(theirs, last) THEN last ELSE Absent
  BY DEF AdoptedAll
<1> HIDE DEF last, R
<1> QED
  BY <1>1, <1>2, <1>3

\* The adoptions: what the index then has at a path of the vault.
LEMMA AdoptionsIndex ==
    ASSUME RowsOK(theirs), entries \in [ForceFile -> ForcePath \cup {Absent}],
           \A f, g \in ForceFile : (entries[f] = entries[g] /\ f # g) => entries[f] = Absent,
           NEW p \in Here, NEW f \in ForceFile
    PROVE  /\ (f \in FileAt(theirs, p)
                 /\ ~\E q, r \in Adoptions(theirs) : q < r /\ Tracked(r) = FileAt(theirs, q))
                 => AdoptedAll(theirs)[f] = p
           /\ (AdoptedAll(theirs)[f] = p /\ f \notin FileAt(theirs, p))
                 => f \in Tracked(p) /\ FileAt(theirs, p) = {}
<1> DEFINE R == {q \in Adoptions(theirs) : f \in Tracked(q) \cup FileAt(theirs, q)}
           last == Max(R)
<1>1. p \in ForcePath /\ p \in Nat /\ p # Absent
  BY ForceNumbers DEF Here
<1>2. R \subseteq ForcePath /\ R \subseteq Nat
  BY ForceNumbers DEF Adoptions, Here
<1>3. R # {} => last \in R /\ \A q \in R : q <= last
  <2>1. IsFiniteSet(R)
    BY <1>2, ForceNumbers, FS_Subset
  <2> QED
    BY <1>2, <2>1, LastOf
<1>4. AdoptedAll(theirs)[f] =
         IF R = {} THEN entries[f] ELSE IF f \in FileAt(theirs, last) THEN last ELSE Absent
  BY DEF AdoptedAll
<1> HIDE DEF last
<1>5. \A q \in R : q \in Adoptions(theirs) /\ q \in Nat /\ q # Absent
                    /\ (entries[f] = q \/ f \in FileAt(theirs, q))
  BY <1>2, ForceNumbers DEF Tracked, EntryAt, Adoptions, Here
<1>6. entries[f] = p <=> f \in Tracked(p)
  BY DEF Tracked, EntryAt
<1>7. (p \in Adoptions(theirs) /\ (f \in Tracked(p) \/ f \in FileAt(theirs, p))) => p \in R
  OBVIOUS
<1> HIDE DEF R
<1>8. ASSUME f \in FileAt(theirs, p),
             ~\E q, r \in Adoptions(theirs) : q < r /\ Tracked(r) = FileAt(theirs, q)
      PROVE  AdoptedAll(theirs)[f] = p
  <2>1. FileAt(theirs, p) = {f}
    BY <1>1, <1>8, OneFileAt
  <2>2. \A q : f \in FileAt(theirs, q) => q = p
    BY <1>8, FileAtIs
  <2>3. CASE p \in Adoptions(theirs)
    <3>1. p \in R
      BY <1>7, <1>8, <2>3
    <3>2. ASSUME last # p
          PROVE  FALSE
      <4>1. last \in R /\ p < last /\ last \in Adoptions(theirs) /\ last # Absent
        <5>1. last \in R /\ p <= last
          BY <1>3, <3>1
        <5>2. last \in Adoptions(theirs) /\ last \in Nat /\ last # Absent
          BY <1>5, <5>1
        <5> QED
          BY <1>1, <3>2, <5>1, <5>2
      <4>2. entries[f] = last
        BY <1>5, <2>2, <3>2, <4>1
      <4>3. Tracked(last) = {f}
        BY <4>1, <4>2 DEF Tracked, EntryAt
      <4> QED
        BY <1>8, <2>1, <2>3, <4>1, <4>3
    <3> QED
      BY <1>4, <1>8, <3>1, <3>2
  <2>4. CASE p \notin Adoptions(theirs)
    <3>1. Tracked(p) = {f}
      BY <2>1, <2>4 DEF Adoptions
    <3>2. entries[f] = p
      BY <1>6, <3>1
    <3>3. R = {}
      BY <1>5, <2>2, <2>4, <3>2
    <3> QED
      BY <1>4, <3>2, <3>3
  <2> QED
    BY <2>3, <2>4
<1>9. ASSUME AdoptedAll(theirs)[f] = p, f \notin FileAt(theirs, p)
      PROVE  f \in Tracked(p) /\ FileAt(theirs, p) = {}
  <2>1. R = {} /\ entries[f] = p
    BY <1>1, <1>4, <1>9
  <2>2. f \in Tracked(p)
    BY <1>6, <2>1
  <2>3. p \notin Adoptions(theirs)
    BY <1>7, <2>1, <2>2
  <2> QED
    BY <1>9, <2>2, <2>3 DEF Adoptions
<1> QED
  BY <1>8, <1>9

LEMMA ListsHas ==
    ASSUME NEW s, NEW S, Lists(s, S)
    PROVE  /\ \A i \in 1 .. Len(s) : s[i] \in S
           /\ \A i, j \in 1 .. Len(s) : i # j => s[i] # s[j]
           /\ \A x \in S : \E i \in 1 .. Len(s) : s[i] = x
BY DEF Lists

\* A push begins with a list of all there is to do.
LEMMA PushPlanned ==
    ASSUME ForceTypeOK, BeforeListing, force.at = "pushing", NEW todo, todo = PushPlan(theirs)
    PROVE  /\ todo \in Seq(PushAction)
           /\ ActionsOK(todo, theirs) /\ PathsOK(todo, theirs) /\ NamesOK(todo, theirs)
           /\ \/ \E p, q \in Adoptions(theirs) : p < q /\ Tracked(q) = FileAt(theirs, p)
              \/ IndexOK(todo, theirs, AdoptedAll(theirs))
           /\ AdoptedAll(theirs) \in [ForceFile -> ForcePath \cup {Absent}]
<1> DEFINE P == PutActions(theirs)
           G == DeleteActions(theirs)
<1>1. /\ RowsOK(theirs) /\ entries \in [ForceFile -> ForcePath \cup {Absent}]
      /\ \A f \in FreshFile : theirs[f].version = 0 /\ entries[f] = Absent
      /\ \A f, g \in ForceFile : (entries[f] = entries[g] /\ f # g) => entries[f] = Absent
      /\ mine \in [ForcePath -> ForceContent \cup {Absent}]
  BY DEF ForceTypeOK, BeforeListing
<1>2. /\ Lists(todo, P \cup G)
      /\ \A a \in P : PutOK(a, theirs) /\ a \in PushAction
      /\ \A a \in G : DeleteOK(a, theirs) /\ a \in PushAction
      /\ \A a, b \in P \cup G : a # b => Apart(a, b)
  BY <1>1, PlanIsLists
<1>3. /\ \A i \in 1 .. Len(todo) : todo[i] \in P \cup G
      /\ \A i, j \in 1 .. Len(todo) : i # j => todo[i] # todo[j]
      /\ \A x \in P \cup G : \E i \in 1 .. Len(todo) : todo[i] = x
  BY <1>2, ListsHas
<1>4. todo \in Seq(PushAction)
  <2>1. todo \in Seq(P \cup G) /\ P \cup G \subseteq PushAction
    BY <1>2 DEF Lists
  <2> QED
    BY <2>1
<1>5. \A p \in Here : (\A f \in FileAt(theirs, p) : theirs[f].content # mine[p]) => PutAt(theirs, p) \in P
  BY DEF PutActions
<1>6. \A f \in Live(theirs) : theirs[f].path \notin Here =>
         [kind |-> "delete", path |-> theirs[f].path, file |-> f, seen |-> 0] \in G
  BY DEF DeleteActions
<1> HIDE DEF P, G
<1>7. ActionsOK(todo, theirs)
  BY <1>2, <1>3 DEF ActionsOK
<1>8. \A f \in Live(theirs) : theirs[f].path \notin Here =>
         \E i \in 1 .. Len(todo) : /\ todo[i].kind = "delete" /\ todo[i].file = f
                                   /\ todo[i].path = theirs[f].path
  <2>1. ASSUME NEW f \in Live(theirs), theirs[f].path \notin Here
        PROVE  \E i \in 1 .. Len(todo) : /\ todo[i].kind = "delete" /\ todo[i].file = f
                                         /\ todo[i].path = theirs[f].path
    <3>1. PICK i \in 1 .. Len(todo) :
             todo[i] = [kind |-> "delete", path |-> theirs[f].path, file |-> f, seen |-> 0]
      BY <1>3, <1>6, <2>1
    <3> QED
      BY <3>1
  <2> QED
    BY <2>1
<1>9. \A p \in Here : (\A f \in FileAt(theirs, p) : theirs[f].content # mine[p]) =>
         \E i \in 1 .. Len(todo) : todo[i] = PutAt(theirs, p)
  BY <1>3, <1>5
<1>10. \A p \in Here : PutAt(theirs, p).path = p /\ PutAt(theirs, p).kind = "put"
  BY <1>1, PutPlanned
<1>11. PathsOK(todo, theirs)
  <2> SUFFICES ASSUME NEW p \in ForcePath, ~\E i \in 1 .. Len(todo) : todo[i].path = p
               PROVE  Contents(theirs)[p] = OfVault[p]
    BY DEF PathsOK
  <2>1. CASE p \in Here
    <3>1. PICK f \in FileAt(theirs, p) : theirs[f].content = mine[p]
      BY <1>9, <1>10, <2>1
    <3>2. Contents(theirs)[p] = {mine[p]}
      BY <1>1, <3>1, OneFileAt
    <3> QED
      BY <2>1, <3>2 DEF OfVault, Here
  <2>2. CASE p \notin Here
    <3>1. ASSUME NEW f \in FileAt(theirs, p)
          PROVE  FALSE
      <4>1. f \in Live(theirs) /\ theirs[f].path = p
        BY <3>1 DEF FileAt
      <4> QED
        BY <1>8, <2>2, <4>1
    <3>2. Contents(theirs)[p] = {}
      BY <3>1, NoFileAt
    <3> QED
      BY <2>2, <3>2 DEF OfVault, Here
  <2> QED
    BY <2>1, <2>2
<1>12. NamesOK(todo, theirs)
  BY <1>8 DEF NamesOK, Here
<1>13. AdoptedAll(theirs) \in [ForceFile -> ForcePath \cup {Absent}]
  <2>1. DOMAIN AdoptedAll(theirs) = ForceFile
        /\ AdoptedAll(theirs) = [f \in ForceFile |-> AdoptedAll(theirs)[f]]
    BY DEF AdoptedAll
  <2>2. ASSUME NEW f \in ForceFile
        PROVE  AdoptedAll(theirs)[f] \in ForcePath \cup {Absent}
    BY <1>1, AdoptionsTyped
  <2> HIDE DEF AdoptedAll
  <2> QED
    BY <2>1, <2>2
<1>14. ASSUME ~\E p, q \in Adoptions(theirs) : p < q /\ Tracked(q) = FileAt(theirs, p)
       PROVE  IndexOK(todo, theirs, AdoptedAll(theirs))
  <2> DEFINE index == AdoptedAll(theirs)
  <2> SUFFICES ASSUME NEW f \in ForceFile, NEW p \in Here
               PROVE  /\ f \in FileAt(theirs, p) => index[f] = p
                      /\ index[f] = p =>
                            \/ f \in FileAt(theirs, p)
                            \/ \E i \in 1 .. Len(todo) :
                                  todo[i].file = f /\ (todo[i].kind = "put" => todo[i].path = p)
    BY DEF IndexOK
  <2>1. f \in FileAt(theirs, p) => index[f] = p
    BY <1>1, <1>14, AdoptionsIndex
  <2>2. ASSUME index[f] = p, f \notin FileAt(theirs, p)
        PROVE  \E i \in 1 .. Len(todo) : todo[i].file = f /\ (todo[i].kind = "put" => todo[i].path = p)
    <3>1. f \in Tracked(p) /\ FileAt(theirs, p) = {}
      BY <1>1, <2>2, AdoptionsIndex
    <3>2. PICK i \in 1 .. Len(todo) : todo[i] = PutAt(theirs, p)
      BY <1>9, <3>1
    <3>3. f \in Live(theirs) \/ PutAt(theirs, p).file = f
      BY <1>1, <3>1, PutPlanned
    <3>4. CASE PutAt(theirs, p).file = f
      BY <1>10, <3>2, <3>4
    <3>5. CASE f \in Live(theirs)
      <4> DEFINE q == theirs[f].path
      <4>1. q # p /\ f \in FileAt(theirs, q)
        BY <2>2, <3>5 DEF FileAt
      <4>2. q \notin Here
        <5> SUFFICES ASSUME q \in Here
                     PROVE  FALSE
          OBVIOUS
        <5>1. index[f] = q
          BY <1>1, <1>14, <4>1, AdoptionsIndex
        <5> QED
          BY <2>2, <4>1, <5>1
      <4>3. PICK j \in 1 .. Len(todo) : todo[j].kind = "delete" /\ todo[j].file = f
        BY <1>8, <3>5, <4>2
      <4> QED
        BY <4>3
    <3> QED
      BY <3>3, <3>4, <3>5
  <2> QED
    BY <2>1, <2>2
<1> QED
  BY <1>4, <1>7, <1>11, <1>12, <1>13, <1>14

\* A pull begins with a list of all there is to do.
LEMMA PullPlanned ==
    ASSUME ForceTypeOK, NEW todo, todo = PullPlan(theirs)
    PROVE  todo \in Seq(PullAction) /\ PullsOK(todo, theirs) /\ PathsOK(todo, theirs)
<1> DEFINE W == WriteActions(theirs)
           T == TrashActions(theirs)
<1>1. RowsOK(theirs) /\ mine \in [ForcePath -> ForceContent \cup {Absent}]
  BY DEF ForceTypeOK
<1>2. \A a \in W : /\ a.kind = "write" /\ a.file \in FileAt(theirs, a.path) /\ a.path \in ForcePath
                   /\ a \in PullAction
                   /\ a = [kind |-> "write", path |-> theirs[a.file].path, file |-> a.file]
  <2>1. ASSUME NEW f \in Live(theirs), theirs[f].path # AnotherName
        PROVE  LET a == [kind |-> "write", path |-> theirs[f].path, file |-> f]
               IN  /\ a.kind = "write" /\ a.file \in FileAt(theirs, a.path) /\ a.path \in ForcePath
                   /\ a \in PullAction
                   /\ a = [kind |-> "write", path |-> theirs[a.file].path, file |-> a.file]
    <3>1. f \in ForceFile /\ theirs[f].path \in ForcePath
      BY <1>1, <2>1 DEF RowsOK, Row, Live
    <3>2. f \in FileAt(theirs, theirs[f].path)
      BY <2>1 DEF FileAt
    <3> QED
      BY <3>1, <3>2 DEF PullAction
  <2> QED
    BY <2>1 DEF WriteActions
<1>3. \A a \in T : /\ a.kind = "trash" /\ FileAt(theirs, a.path) = {} /\ a.path \in ForcePath
                   /\ a = [kind |-> "trash", path |-> a.path, file |-> Absent]
                   /\ a \in PullAction
  BY DEF TrashActions, Strays, Here, PullAction
<1>4. \A f \in Live(theirs) : theirs[f].path # AnotherName =>
         [kind |-> "write", path |-> theirs[f].path, file |-> f] \in W
  BY DEF WriteActions
<1>5. \A p \in Here : FileAt(theirs, p) = {} =>
         [kind |-> "trash", path |-> p, file |-> Absent] \in T
  BY DEF TrashActions, Strays
<1> HIDE DEF W, T
<1>6. \A a, b \in W \cup T : a # b => a.path # b.path
  <2>1. ASSUME NEW a \in W, NEW b \in W, a.path = b.path
        PROVE  a = b
    <3>1. a.file = b.file
      BY <1>1, <1>2, <2>1, OneFileAt
    <3> QED
      BY <1>2, <3>1
  <2>2. \A a, b \in T : a.path = b.path => a = b
    BY <1>3
  <2>3. \A a \in W, b \in T : a.path # b.path
    BY <1>2, <1>3
  <2> QED
    BY <2>1, <2>2, <2>3
<1>7. IsFiniteSet(W) /\ IsFiniteSet(T)
  <2>1. ASSUME NEW S, S \subseteq W \cup T
        PROVE  IsFiniteSet(S)
    <3> DEFINE at == [a \in S |-> a.path]
    <3>1. at \in [S -> ForcePath] /\ \A a, b \in S : at[a] = at[b] => a = b
      BY <1>2, <1>3, <1>6, <2>1
    <3> HIDE DEF at
    <3> QED
      BY <3>1, ForceNumbers, FiniteByNumber
  <2> QED
    BY <2>1
<1>8. W \cap T = {}
  BY <1>2, <1>3
<1>9. Lists(ByPath(W), W) /\ Lists(ByPath(T), T)
  BY <1>2, <1>3, <1>7, ForceNumbers, ByPathLists
<1>10. Lists(todo, W \cup T)
  BY <1>8, <1>9, JoinLists DEF PullPlan, W, T
<1>11. /\ \A i \in 1 .. Len(todo) : todo[i] \in W \cup T
       /\ \A i, j \in 1 .. Len(todo) : i # j => todo[i] # todo[j]
       /\ \A x \in W \cup T : \E i \in 1 .. Len(todo) : todo[i] = x
  BY <1>10, ListsHas
<1>12. todo \in Seq(PullAction)
  <2>1. todo \in Seq(W \cup T) /\ W \cup T \subseteq PullAction
    BY <1>2, <1>3, <1>10 DEF Lists
  <2> QED
    BY <2>1
<1>13. PullsOK(todo, theirs)
  <2>1. ASSUME NEW i \in 1 .. Len(todo)
        PROVE  \/ todo[i].kind = "write" /\ todo[i].file \in FileAt(theirs, todo[i].path)
               \/ todo[i].kind = "trash" /\ FileAt(theirs, todo[i].path) = {}
    <3>1. todo[i] \in W \/ todo[i] \in T
      BY <1>11
    <3> QED
      BY <1>2, <1>3, <3>1
  <2>2. \A i, j \in 1 .. Len(todo) : i # j => todo[i].path # todo[j].path
    BY <1>6, <1>11
  <2> QED
    BY <2>1, <2>2 DEF PullsOK
<1>14. PathsOK(todo, theirs)
  <2> SUFFICES ASSUME NEW p \in ForcePath, ~\E i \in 1 .. Len(todo) : todo[i].path = p
               PROVE  Contents(theirs)[p] = OfVault[p]
    BY DEF PathsOK
  <2>1. ASSUME NEW f \in FileAt(theirs, p)
        PROVE  FALSE
    <3>1. f \in Live(theirs) /\ theirs[f].path = p /\ p # AnotherName
      BY <2>1, ForceNumbers DEF FileAt
    <3>2. PICK i \in 1 .. Len(todo) : todo[i] = [kind |-> "write", path |-> theirs[f].path, file |-> f]
      BY <1>4, <1>11, <3>1
    <3> QED
      BY <3>1, <3>2
  <2>2. FileAt(theirs, p) = {}
    BY <2>1
  <2>3. p \notin Here
    <3> SUFFICES ASSUME p \in Here
                 PROVE  FALSE
      OBVIOUS
    <3>1. PICK i \in 1 .. Len(todo) : todo[i] = [kind |-> "trash", path |-> p, file |-> Absent]
      BY <1>5, <1>11, <2>2
    <3> QED
      BY <3>1
  <2> QED
    BY <2>2, <2>3, NoFileAt DEF OfVault, Here
<1> QED
  BY <1>12, <1>13, <1>14

-----------------------------------------------------------------------------
LEMMA ForceBegins == ForceInit => ForceInv
<1> SUFFICES ASSUME ForceInit
             PROVE  ForceInv
  OBVIOUS
<1>1. PICK known \in [KnownFile -> ForcePath \cup {Absent}] :
         /\ \A f, g \in KnownFile : (known[f] = known[g] /\ f # g) => known[f] = Absent
         /\ entries = [f \in ForceFile |-> IF f \in KnownFile THEN known[f] ELSE Absent]
  BY DEF ForceInit
<1>2. PICK rows \in [KnownFile -> {NoRow} \cup [content : ForceContent, path : ForcePath, version : {1}]] :
         /\ \A f, g \in KnownFile : (rows[f].path = rows[g].path /\ f # g) => rows[f] = NoRow
         /\ theirs = [f \in ForceFile |-> IF f \in KnownFile THEN rows[f] ELSE NoRow]
  BY DEF ForceInit
<1>3. mine \in [ForcePath -> ForceContent \cup {Absent}] /\ fetched = {} /\ unseen = {} /\ force = NotForcing
  BY DEF ForceInit
<1>4. entries \in [ForceFile -> ForcePath \cup {Absent}]
      /\ \A f, g \in ForceFile : (entries[f] = entries[g] /\ f # g) => entries[f] = Absent
  BY <1>1
<1>5. NoRow \in Row /\ NoRow.content = Absent /\ NoRow.path = AnotherName /\ NoRow.version = 0
  BY DEF NoRow, Row
<1>6. \A f \in KnownFile : rows[f] \in Row /\ (rows[f].version = 0 => rows[f].content = Absent)
  BY <1>5 DEF Row
<1>7. RowsOK(theirs)
  <2>1. theirs \in [ForceFile -> Row]
    BY <1>2, <1>5, <1>6
  <2>2. \A f \in ForceFile : theirs[f].version = 0 => theirs[f].content = Absent
    BY <1>2, <1>5, <1>6
  <2>3. \A f \in Live(theirs) : f \in KnownFile /\ theirs[f] = rows[f] /\ rows[f] # NoRow
    BY <1>2, <1>5 DEF Live
  <2>4. \A f, g \in Live(theirs) : (theirs[f].path = theirs[g].path /\ f # g) => theirs[f].path = AnotherName
    BY <1>2, <2>3
  <2> QED
    BY <2>1, <2>2, <2>4 DEF RowsOK
<1>8. force \in [at : Running \cup {"idle", "pushed", "pulled", "failed"},
                 todo : Seq(PushAction) \cup Seq(PullAction), listed : [ForceFile -> Row]]
      /\ force.at = "idle" /\ force.listed = [f \in ForceFile |-> NoRow]
  <2>1. <<>> \in Seq(PushAction) /\ [f \in ForceFile |-> NoRow] \in [ForceFile -> Row]
    BY <1>5
  <2> QED
    BY <1>3, <2>1 DEF NotForcing
<1>9. RowsOK(force.listed)
  BY <1>5, <1>8 DEF RowsOK, Live
<1>10. ForceTypeOK
  BY <1>3, <1>4, <1>7, <1>8, <1>9 DEF ForceTypeOK
<1>11. \A f \in FreshFile : theirs[f].version = 0 /\ entries[f] = Absent
  BY <1>1, <1>2, <1>5, ForceNumbers
<1>12. BeforeListing
  BY <1>3, <1>4, <1>11 DEF BeforeListing
<1> QED
  BY <1>8, <1>10, <1>12 DEF ForceInv, PushOK, PullOK, ForcedRunMirrors, PushMirrors, PullMirrors

\* Steps that only change where the runner is.
LEMMA BeginKeeps ==
    ASSUME ForceInv, NEW kind \in {"pushing", "pulling"}, BeginForce(kind)
    PROVE  ForceInv'
<1>1. force.at = "idle" /\ force'.at = kind /\ force'.todo = force.todo /\ force'.listed = force.listed
      /\ force' \in [at : Running \cup {"idle", "pushed", "pulled", "failed"},
                     todo : Seq(PushAction) \cup Seq(PullAction), listed : [ForceFile -> Row]]
  BY DEF ForceInv, ForceTypeOK, BeginForce, Running
<1>2. UNCHANGED <<mine, entries, theirs, fetched, unseen, cycle, others>>
  BY DEF BeginForce
<1>3. RowsOK(theirs') /\ RowsOK(force'.listed)
  <2>1. RowsOK(theirs) /\ RowsOK(force.listed)
    BY DEF ForceInv, ForceTypeOK
  <2> QED
    BY <1>1, <1>2, <2>1
<1>4. ForceTypeOK'
  BY <1>1, <1>2, <1>3 DEF ForceInv, ForceTypeOK
<1>5. BeforeListing'
  BY <1>1, <1>2 DEF ForceInv, BeforeListing
<1> QED
  BY <1>1, <1>4, <1>5 DEF ForceInv, PushOK, PullOK, ForcedRunMirrors, PushMirrors, PullMirrors

LEMMA ListForPushKeeps == ForceInv /\ ListForPush => ForceInv'
<1> SUFFICES ASSUME ForceInv, ListForPush
             PROVE  ForceInv'
  OBVIOUS
<1> DEFINE todo == PushPlan(theirs)
<1>1. force.at = "pushing" /\ force'.at = "push" /\ force'.todo = todo /\ force'.listed = theirs
      /\ force' = [at |-> "push", todo |-> todo, listed |-> theirs]
  BY DEF ListForPush
<1>2. UNCHANGED <<mine, theirs, fetched, unseen, others>> /\ entries' = AdoptedAll(theirs)
      /\ cycle' = (\E p, q \in Adoptions(theirs) : p < q /\ Tracked(q) = FileAt(theirs, p))
  BY DEF ListForPush
<1> HIDE DEF todo
<1>3. /\ todo \in Seq(PushAction)
      /\ ActionsOK(todo, theirs) /\ PathsOK(todo, theirs) /\ NamesOK(todo, theirs)
      /\ \/ \E p, q \in Adoptions(theirs) : p < q /\ Tracked(q) = FileAt(theirs, p)
         \/ IndexOK(todo, theirs, AdoptedAll(theirs))
      /\ AdoptedAll(theirs) \in [ForceFile -> ForcePath \cup {Absent}]
  BY <1>1, PushPlanned DEF ForceInv, todo
<1>4. RowsOK(theirs') /\ RowsOK(force'.listed) /\ theirs \in [ForceFile -> Row]
  BY <1>1, <1>2 DEF ForceInv, ForceTypeOK, RowsOK
<1>5. force' \in [at : Running \cup {"idle", "pushed", "pulled", "failed"},
                  todo : Seq(PushAction) \cup Seq(PullAction), listed : [ForceFile -> Row]]
  BY <1>1, <1>3, <1>4 DEF Running
<1>6. mine' \in [ForcePath -> ForceContent \cup {Absent}] /\ unseen' \subseteq KnownFile /\ fetched' = {}
      /\ entries' \in [ForceFile -> ForcePath \cup {Absent}]
  BY <1>1, <1>2, <1>3 DEF ForceInv, ForceTypeOK
<1>7. ForceTypeOK'
  BY <1>1, <1>3, <1>4, <1>5, <1>6 DEF ForceTypeOK
<1>8. PushOK'
  <2>1. ActionsOK(force.todo, theirs)' /\ PathsOK(force.todo, theirs)' /\ NamesOK(force.todo, theirs)'
    <3>1. Here' = Here /\ OfVault' = OfVault
      BY <1>2 DEF Here, OfVault
    <3>2. ActionsOK(force.todo, theirs)'
      BY <1>1, <1>2, <1>3, <3>1 DEF ActionsOK, PutOK, DeleteOK
    <3>3. PathsOK(force.todo, theirs)'
      BY <1>1, <1>2, <1>3, <3>1 DEF PathsOK
    <3>4. NamesOK(force.todo, theirs)'
      BY <1>1, <1>2, <1>3 DEF NamesOK
    <3> QED
      BY <3>2, <3>3, <3>4
  <2>2. cycle' \/ IndexOK(force.todo, theirs, entries)'
    <3>1. Here' = Here
      BY <1>2 DEF Here
    <3>2. cycle' \/ IndexOK(todo, theirs, AdoptedAll(theirs))
      BY <1>2, <1>3
    <3> DEFINE index == AdoptedAll(theirs)
    <3>3. force'.todo = todo /\ theirs' = theirs /\ entries' = index
      BY <1>1, <1>2
    <3> HIDE DEF index
    <3>4. IndexOK(todo, theirs, index) => IndexOK(force.todo, theirs, entries)'
      BY <3>1, <3>3 DEF IndexOK
    <3> QED
      BY <3>2, <3>4 DEF index
  <2> QED
    BY <2>1, <2>2 DEF PushOK
<1> QED
  BY <1>1, <1>7, <1>8 DEF ForceInv, BeforeListing, PullOK, ForcedRunMirrors, PushMirrors, PullMirrors

LEMMA ListForPullKeeps == ForceInv /\ ListForPull => ForceInv'
<1> SUFFICES ASSUME ForceInv, ListForPull
             PROVE  ForceInv'
  OBVIOUS
<1> DEFINE todo == PullPlan(theirs)
<1>1. force'.at = "pull" /\ force'.todo = todo /\ force'.listed = theirs
      /\ force' = [at |-> "pull", todo |-> todo, listed |-> theirs]
  BY DEF ListForPull
<1>2. UNCHANGED <<mine, entries, theirs, unseen, cycle, others>> /\ fetched' = {}
  BY DEF ListForPull
<1> HIDE DEF todo
<1>3. todo \in Seq(PullAction) /\ PullsOK(todo, theirs) /\ PathsOK(todo, theirs)
  BY PullPlanned DEF ForceInv, todo
<1>4. RowsOK(theirs') /\ RowsOK(force'.listed) /\ theirs \in [ForceFile -> Row]
  BY <1>1, <1>2 DEF ForceInv, ForceTypeOK, RowsOK
<1>5. force' \in [at : Running \cup {"idle", "pushed", "pulled", "failed"},
                  todo : Seq(PushAction) \cup Seq(PullAction), listed : [ForceFile -> Row]]
  BY <1>1, <1>3, <1>4 DEF Running
<1>6. ForceTypeOK'
  BY <1>1, <1>2, <1>3, <1>4, <1>5 DEF ForceInv, ForceTypeOK
<1>7. PullOK'
  <2>1. PullsOK(force.todo, force.listed)' /\ PathsOK(force.todo, force.listed)'
    <3>1. OfVault' = OfVault
      BY <1>2 DEF OfVault
    <3>2. PullsOK(force.todo, force.listed)'
      BY <1>1, <1>3 DEF PullsOK
    <3>3. PathsOK(force.todo, force.listed)'
      BY <1>1, <1>3, <3>1 DEF PathsOK
    <3> QED
      BY <3>2, <3>3
  <2>2. FetchedOK(force.todo, force.listed)'
    BY <1>2 DEF FetchedOK
  <2> QED
    BY <2>1, <2>2 DEF PullOK
<1> QED
  BY <1>1, <1>6, <1>7 DEF ForceInv, BeforeListing, PushOK, ForcedRunMirrors, PushMirrors, PullMirrors

LEMMA PushNextKeeps == ForceInv /\ PushNext => ForceInv'
<1> SUFFICES ASSUME ForceInv, PushNext
             PROVE  ForceInv'
  OBVIOUS
<1> DEFINE todo == force.todo
           a == Head(todo)
           f == IF a.file = Absent THEN Min(UnusedIds) ELSE a.file
<1>1. /\ force.at = "push" /\ todo # <<>>
      /\ a.file = Absent => UnusedIds # {}
      /\ UNCHANGED <<mine, fetched, unseen, cycle, others>>
  BY DEF PushNext
<1>2. \/ /\ a.kind = "delete"
         /\ theirs' = [theirs EXCEPT ![f].content = Absent]
         /\ entries' = [entries EXCEPT ![f] = Absent]
         /\ force' = [force EXCEPT !.todo = Tail(@)]
      \/ /\ a.kind # "delete" /\ Put(f, a.path, mine[a.path])
         /\ entries' = [entries EXCEPT ![f] = a.path]
         /\ force' = [force EXCEPT !.todo = Tail(@)]
      \/ /\ force' = [force EXCEPT !.at = "failed"]
         /\ UNCHANGED <<theirs, entries>>
  BY DEF PushNext
<1>3. /\ mine \in [ForcePath -> ForceContent \cup {Absent}]
      /\ entries \in [ForceFile -> ForcePath \cup {Absent}]
      /\ RowsOK(theirs) /\ RowsOK(force.listed) /\ unseen \subseteq KnownFile
      /\ force \in [at : Running \cup {"idle", "pushed", "pulled", "failed"},
                    todo : Seq(PushAction) \cup Seq(PullAction), listed : [ForceFile -> Row]]
      /\ todo \in Seq(PushAction) /\ fetched = {}
  BY <1>1 DEF ForceInv, ForceTypeOK
<1>4. a \in PushAction /\ Tail(todo) \in Seq(PushAction) /\ a = todo[1] /\ 1 \in 1 .. Len(todo)
  BY <1>1, <1>3, RestIs
<1> HIDE DEF a
<1>5. /\ a.file \in KnownFile \cup {Absent}
      /\ a.kind = "delete" => a.file \in KnownFile
      /\ a.kind # "delete" => a.kind = "put" /\ a.path \in ForcePath
  BY <1>4 DEF PushAction
<1>6. ASSUME a.file = Absent
      PROVE  f \in FreshFile /\ f \notin KnownFile /\ f \notin Live(theirs)
  <2>1. UnusedIds \subseteq FreshFile /\ UnusedIds \subseteq Nat /\ UnusedIds # {}
    BY <1>1, <1>6, ForceNumbers DEF UnusedIds
  <2>2. Min(UnusedIds) \in UnusedIds
    BY <2>1, MinInSet
  <2>3. f \in UnusedIds
    BY <1>6, <2>2
  <2>4. f \in ForceFile /\ f \notin KnownFile /\ theirs[f].version = 0
    BY <2>1, <2>3, ForceNumbers DEF UnusedIds
  <2> QED
    BY <1>3, <2>1, <2>3, <2>4 DEF RowsOK, Live
<1>7. f \in ForceFile /\ (f = a.file \/ (a.file = Absent /\ f \notin KnownFile))
  BY <1>5, <1>6, ForceNumbers
<1> HIDE DEF f
<1>8. CASE force' = [force EXCEPT !.at = "failed"] /\ UNCHANGED <<theirs, entries>>
  <2>1. /\ force'.at = "failed" /\ force'.todo = todo /\ force'.listed = force.listed
        /\ force' \in [at : Running \cup {"idle", "pushed", "pulled", "failed"},
                       todo : Seq(PushAction) \cup Seq(PullAction), listed : [ForceFile -> Row]]
    BY <1>3, <1>8
  <2>2. RowsOK(theirs') /\ RowsOK(force'.listed)
    BY <1>3, <1>8, <2>1
  <2>3. ForceTypeOK'
    BY <1>1, <1>3, <1>8, <2>1, <2>2 DEF ForceTypeOK
  <2> QED
    BY <1>1, <1>3, <2>1, <2>3 DEF ForceInv, BeforeListing, PushOK, PullOK, ForcedRunMirrors,
                                  PushMirrors, PullMirrors
<1>9. ASSUME force' = [force EXCEPT !.todo = Tail(@)], RowsOK(theirs'),
             \A g \in ForceFile \ {f} : theirs'[g] = theirs[g],
             NEW e \in ForcePath \cup {Absent}, entries' = [entries EXCEPT ![f] = e],
             unseen = {} =>
                 \/ /\ a.kind = "put" /\ f \in Live(theirs') /\ e = a.path
                    /\ theirs'[f].path = a.path /\ theirs'[f].content = mine[a.path]
                    /\ f \in Live(theirs) => theirs[f].path = a.path
                 \/ a.kind = "delete" /\ f = a.file /\ f \notin Live(theirs') /\ e = Absent
      PROVE  ForceInv'
  <2>1. /\ force'.at = "push" /\ force'.todo = Tail(todo) /\ force'.listed = force.listed
        /\ force' \in [at : Running \cup {"idle", "pushed", "pulled", "failed"},
                       todo : Seq(PushAction) \cup Seq(PullAction), listed : [ForceFile -> Row]]
    BY <1>1, <1>3, <1>4, <1>9
  <2>2. entries' \in [ForceFile -> ForcePath \cup {Absent}] /\ entries'[f] = e
        /\ \A g \in ForceFile \ {f} : entries'[g] = entries[g]
    BY <1>3, <1>7, <1>9
  <2>3. RowsOK(force'.listed)
    BY <1>3, <2>1
  <2>4. ForceTypeOK'
    BY <1>1, <1>3, <1>4, <1>9, <2>1, <2>2, <2>3 DEF ForceTypeOK
  <2>5. ASSUME unseen = {}
        PROVE  /\ ActionsOK(Tail(todo), theirs') /\ PathsOK(Tail(todo), theirs')
               /\ NamesOK(Tail(todo), theirs')
               /\ cycle \/ IndexOK(Tail(todo), theirs', entries')
    <3>1. /\ ActionsOK(todo, theirs) /\ PathsOK(todo, theirs) /\ NamesOK(todo, theirs)
          /\ cycle \/ IndexOK(todo, theirs, entries)
      BY <1>1, <2>5 DEF ForceInv, PushOK
    <3>2. \A g \in ForceFile \ {f} : theirs'[g] = theirs[g] /\ entries'[g] = entries[g]
      BY <1>9, <2>2
    <3>3. \/ /\ Head(todo).kind = "put" /\ f \in Live(theirs') /\ entries'[f] = Head(todo).path
             /\ theirs'[f].path = Head(todo).path /\ theirs'[f].content = mine[Head(todo).path]
             /\ f \in Live(theirs) => theirs[f].path = Head(todo).path
          \/ /\ Head(todo).kind = "delete" /\ f = Head(todo).file
             /\ f \notin Live(theirs') /\ entries'[f] = Absent
      BY <1>9, <2>2, <2>5 DEF a
    <3>4. f = Head(todo).file \/ (Head(todo).file = Absent /\ f \notin KnownFile)
      BY <1>7 DEF a
    <3>5. DoneWith(todo, f, theirs, theirs', entries, entries')
      BY <1>1, <1>3, <1>7, <1>9, <3>2, <3>3, <3>4 DEF DoneWith
    <3> QED
      BY <1>3, <3>1, <3>5, ActionDone
  <2>6. PushOK'
    <3>1. Here' = Here /\ OfVault' = OfVault
      BY <1>1 DEF Here, OfVault
    <3>2. ASSUME unseen = {}
          PROVE  ActionsOK(force.todo, theirs)'
      BY <2>1, <2>5, <3>1, <3>2 DEF ActionsOK, PutOK, DeleteOK
    <3>3. ASSUME unseen = {}
          PROVE  PathsOK(force.todo, theirs)' /\ NamesOK(force.todo, theirs)'
      <4>1. PathsOK(force.todo, theirs)'
        BY <2>1, <2>5, <3>1, <3>3 DEF PathsOK
      <4>2. NamesOK(force.todo, theirs)'
        BY <2>1, <2>5, <3>3 DEF NamesOK
      <4> QED
        BY <4>1, <4>2
    <3>4. ASSUME unseen = {}
          PROVE  cycle' \/ IndexOK(force.todo, theirs, entries)'
      <4>1. IndexOK(Tail(todo), theirs', entries') => IndexOK(force.todo, theirs, entries)'
        BY <2>1, <3>1 DEF IndexOK
      <4> QED
        BY <1>1, <2>5, <3>4, <4>1
    <3> QED
      BY <1>1, <3>2, <3>3, <3>4 DEF PushOK
  <2> QED
    BY <1>1, <2>1, <2>4, <2>6 DEF ForceInv, BeforeListing, PullOK, ForcedRunMirrors,
                                  PushMirrors, PullMirrors
<1>10. unseen = {} => PutOK(a, theirs) \/ DeleteOK(a, theirs)
  BY <1>1, <1>4 DEF ForceInv, PushOK, ActionsOK
<1>11. CASE /\ a.kind = "delete"
            /\ theirs' = [theirs EXCEPT ![f].content = Absent]
            /\ entries' = [entries EXCEPT ![f] = Absent]
            /\ force' = [force EXCEPT !.todo = Tail(@)]
  <2>1. RowsOK(theirs') /\ (\A g \in ForceFile \ {f} : theirs'[g] = theirs[g]) /\ f \notin Live(theirs')
    BY <1>3, <1>7, <1>11, DeleteKeeps
  <2>2. f = a.file
    BY <1>5, <1>7, <1>11, ForceNumbers
  <2> QED
    BY <1>9, <1>11, <2>1, <2>2
<1>12. CASE /\ a.kind # "delete" /\ Put(f, a.path, mine[a.path])
            /\ entries' = [entries EXCEPT ![f] = a.path]
            /\ force' = [force EXCEPT !.todo = Tail(@)]
  <2>1. a.kind = "put" /\ a.path \in ForcePath /\ mine[a.path] \in ForceContent \cup {Absent}
    BY <1>3, <1>5, <1>12
  <2>2. /\ RowsOK(theirs') /\ \A g \in ForceFile \ {f} : theirs'[g] = theirs[g]
        /\ theirs'[f].content = mine[a.path]
        /\ theirs'[f].path = IF f \in Live(theirs) THEN theirs[f].path ELSE PathFor(a.path)
    BY <1>3, <1>7, <1>12, <2>1, PutKeeps
  <2>3. ASSUME unseen = {}
        PROVE  /\ f \in Live(theirs') /\ theirs'[f].path = a.path
               /\ f \in Live(theirs) => theirs[f].path = a.path
    <3>1. PutOK(a, theirs)
      BY <1>10, <2>1, <2>3 DEF DeleteOK
    <3>2. f \in Live(theirs')
      BY <1>7, <2>2, <3>1 DEF PutOK, Here, Live
    <3>3. f \in Live(theirs) => theirs[f].path = a.path
      BY <1>6, <1>7, <3>1 DEF PutOK
    <3>4. f \notin Live(theirs) => FileAt(theirs, a.path) = {}
      BY <1>7, <3>1, ForceNumbers DEF PutOK, Live
    <3> QED
      BY <2>2, <3>2, <3>3, <3>4 DEF PathFor
  <2> QED
    BY <1>9, <1>12, <2>1, <2>2, <2>3
<1> QED
  BY <1>2, <1>8, <1>11, <1>12

LEMMA PullNextKeeps == ForceInv /\ PullNext => ForceInv'
<1> SUFFICES ASSUME ForceInv, PullNext
             PROVE  ForceInv'
  OBVIOUS
<1> DEFINE todo == force.todo
           listed == force.listed
           a == Head(todo)
           rest == Tail(todo)
           p == a.path
           c == listed[a.file].content
<1>1. force.at = "pull" /\ todo # <<>> /\ UNCHANGED <<theirs, unseen, cycle, others>>
  BY DEF PullNext
<1>2. \/ /\ a.kind = "trash" /\ mine' = [mine EXCEPT ![p] = Absent]
         /\ entries' = [f \in ForceFile |-> IF f \in Tracked(p) THEN Absent ELSE entries[f]]
         /\ force' = [force EXCEPT !.todo = Tail(@)] /\ fetched' = fetched
      \/ /\ a.kind # "trash" /\ c \in fetched
         /\ force' = [force EXCEPT !.at = "failed"] /\ UNCHANGED <<mine, entries, fetched>>
      \/ /\ a.kind # "trash" /\ mine' = [mine EXCEPT ![p] = c]
         /\ entries' = [entries EXCEPT ![a.file] = p]
         /\ force' = [force EXCEPT !.todo = Tail(@)] /\ fetched' = fetched \cup {c}
  BY DEF PullNext
<1>3. /\ mine \in [ForcePath -> ForceContent \cup {Absent}]
      /\ entries \in [ForceFile -> ForcePath \cup {Absent}]
      /\ RowsOK(theirs) /\ RowsOK(listed) /\ unseen \subseteq KnownFile
      /\ force \in [at : Running \cup {"idle", "pushed", "pulled", "failed"},
                    todo : Seq(PushAction) \cup Seq(PullAction), listed : [ForceFile -> Row]]
      /\ todo \in Seq(PullAction)
  BY <1>1 DEF ForceInv, ForceTypeOK
<1>4. PullsOK(todo, listed) /\ PathsOK(todo, listed) /\ FetchedOK(todo, listed)
  BY <1>1 DEF ForceInv, PullOK
<1>5. /\ a = todo[1] /\ 1 \in 1 .. Len(todo) /\ a \in PullAction /\ rest \in Seq(PullAction)
      /\ \A i \in 1 .. Len(rest) : i + 1 \in 1 .. Len(todo) /\ i + 1 # 1 /\ rest[i] = todo[i + 1]
  BY <1>1, <1>3, RestIs
<1>6. \A i \in 1 .. Len(todo) : todo[i] # a => \E j \in 1 .. Len(rest) : rest[j] = todo[i]
  BY <1>1, <1>3, RestHas
<1>7. /\ \/ a.kind = "write" /\ a.file \in FileAt(listed, p)
         \/ a.kind = "trash" /\ FileAt(listed, p) = {}
      /\ \A i \in 1 .. Len(rest) : rest[i].path # p
  <2>1. ASSUME NEW i \in 1 .. Len(rest)
        PROVE  rest[i].path # p
    <3>1. i + 1 \in 1 .. Len(todo) /\ i + 1 # 1 /\ rest[i] = todo[i + 1]
      BY <1>5
    <3>2. todo[i + 1].path # todo[1].path
      BY <1>4, <1>5, <3>1 DEF PullsOK
    <3> QED
      BY <1>5, <3>1, <3>2
  <2>2. \/ a.kind = "write" /\ a.file \in FileAt(listed, p)
        \/ a.kind = "trash" /\ FileAt(listed, p) = {}
    BY <1>4, <1>5 DEF PullsOK
  <2> QED
    BY <2>1, <2>2
<1>8. p \in ForcePath /\ (a.kind = "write" => a.file \in ForceFile)
  BY <1>5 DEF PullAction
<1>9. PullsOK(rest, listed)
  <2>1. ASSUME NEW i \in 1 .. Len(rest), NEW j \in 1 .. Len(rest), i # j
        PROVE  rest[i].path # rest[j].path
    <3>1. i + 1 \in 1 .. Len(todo) /\ j + 1 \in 1 .. Len(todo) /\ i + 1 # j + 1
      BY <1>5, <2>1
    <3> QED
      BY <1>4, <1>5, <3>1 DEF PullsOK
  <2>2. ASSUME NEW i \in 1 .. Len(rest)
        PROVE  \/ rest[i].kind = "write" /\ rest[i].file \in FileAt(listed, rest[i].path)
               \/ rest[i].kind = "trash" /\ FileAt(listed, rest[i].path) = {}
    <3>1. i + 1 \in 1 .. Len(todo) /\ rest[i] = todo[i + 1]
      BY <1>5
    <3>2. \/ todo[i + 1].kind = "write" /\ todo[i + 1].file \in FileAt(listed, todo[i + 1].path)
          \/ todo[i + 1].kind = "trash" /\ FileAt(listed, todo[i + 1].path) = {}
      BY <1>4, <3>1 DEF PullsOK
    <3> QED
      BY <3>1, <3>2
  <2> HIDE DEF rest
  <2> QED
    BY <2>1, <2>2 DEF PullsOK
<1>10. \A i \in 1 .. Len(rest) : a.kind = "write" => rest[i].file # a.file
  <2>1. ASSUME NEW i \in 1 .. Len(rest), a.kind = "write", rest[i].file = a.file
        PROVE  FALSE
    <3>1. a.file \in FileAt(listed, p) /\ a.file # Absent
      BY <1>7, <1>8, <2>1, ForceNumbers
    <3>2. rest[i] \in PullAction
      BY <1>5
    <3>3. rest[i].kind = "write"
      BY <2>1, <3>1, <3>2 DEF PullAction
    <3>4. rest[i].file \in FileAt(listed, rest[i].path)
      BY <1>9, <3>3 DEF PullsOK
    <3> QED
      BY <1>7, <2>1, <3>1, <3>4, FileAtIs
  <2> QED
    BY <2>1
<1> HIDE DEF a, rest
<1>11. CASE a.kind # "trash" /\ c \in fetched
            /\ force' = [force EXCEPT !.at = "failed"] /\ UNCHANGED <<mine, entries, fetched>>
  <2>1. /\ force'.at = "failed" /\ force'.todo = todo /\ force'.listed = listed
        /\ force' \in [at : Running \cup {"idle", "pushed", "pulled", "failed"},
                       todo : Seq(PushAction) \cup Seq(PullAction), listed : [ForceFile -> Row]]
    BY <1>3, <1>11
  <2>2. RowsOK(theirs') /\ RowsOK(force'.listed)
    BY <1>1, <1>3, <2>1
  <2>3. ForceTypeOK'
    BY <1>1, <1>3, <1>11, <2>1, <2>2 DEF ForceTypeOK
  <2>4. PICK f \in Live(listed) : listed[f].content = c /\ \A i \in 1 .. Len(todo) : todo[i].file # f
    BY <1>4, <1>11 DEF FetchedOK
  <2>5. f # a.file /\ a.file \in Live(listed)
    BY <1>5, <1>7, <1>11, <2>4 DEF FileAt
  <2>6. \E g, h \in Live(listed) : g # h /\ listed[g].content = listed[h].content
    BY <2>4, <2>5
  <2>7. ForcedRunMirrors'
    BY <2>1, <2>6 DEF ForcedRunMirrors, PushMirrors, PullMirrors, Live
  <2> QED
    BY <2>1, <2>3, <2>7 DEF ForceInv, BeforeListing, PushOK, PullOK
<1>12. ASSUME force' = [force EXCEPT !.todo = Tail(@)],
              mine' \in [ForcePath -> ForceContent \cup {Absent}],
              \A q \in ForcePath \ {p} : mine'[q] = mine[q],
              {mine'[p]} \ {Absent} = Contents(listed)[p],
              entries' \in [ForceFile -> ForcePath \cup {Absent}],
              fetched' = fetched \/ (a.kind = "write" /\ fetched' = fetched \cup {c})
       PROVE  ForceInv'
  <2>1. /\ force'.at = "pull" /\ force'.todo = rest /\ force'.listed = listed
        /\ force' \in [at : Running \cup {"idle", "pushed", "pulled", "failed"},
                       todo : Seq(PushAction) \cup Seq(PullAction), listed : [ForceFile -> Row]]
    BY <1>1, <1>3, <1>5, <1>12 DEF rest
  <2>2. RowsOK(theirs') /\ RowsOK(force'.listed)
    BY <1>1, <1>3, <2>1
  <2>3. ForceTypeOK'
    BY <1>1, <1>3, <1>5, <1>12, <2>1, <2>2 DEF ForceTypeOK
  <2>4. \A q \in ForcePath \ {p} : OfVault'[q] = OfVault[q]
    BY <1>12 DEF OfVault
  <2>5. OfVault'[p] = Contents(listed)[p]
    BY <1>8, <1>12 DEF OfVault
  <2>6. PathsOK(force.todo, force.listed)'
    <3>1. ASSUME NEW q \in ForcePath, q # p
          PROVE  Contents(listed)[q] = OfVault'[q] \/ \E i \in 1 .. Len(rest) : rest[i].path = q
      BY <1>4, <1>6, <2>4, <3>1 DEF PathsOK
    <3>2. \A q \in ForcePath :
             Contents(listed)[q] = OfVault'[q] \/ \E i \in 1 .. Len(rest) : rest[i].path = q
      BY <2>5, <3>1
    <3> QED
      BY <2>1, <3>2 DEF PathsOK
  <2>7. \A d \in fetched' : \E f \in Live(listed) :
           listed[f].content = d /\ \A i \in 1 .. Len(rest) : rest[i].file # f
    <3>1. ASSUME NEW d \in fetched
          PROVE  \E f \in Live(listed) :
                    listed[f].content = d /\ \A i \in 1 .. Len(rest) : rest[i].file # f
      <4>1. PICK f \in Live(listed) : listed[f].content = d /\ \A i \in 1 .. Len(todo) : todo[i].file # f
        BY <1>4 DEF FetchedOK
      <4> QED
        BY <1>5, <4>1
    <3>2. ASSUME a.kind = "write"
          PROVE  \E f \in Live(listed) :
                    listed[f].content = c /\ \A i \in 1 .. Len(rest) : rest[i].file # f
      <4>1. a.file \in Live(listed)
        BY <1>7, <3>2 DEF FileAt
      <4> QED
        BY <1>10, <3>2, <4>1
    <3> QED
      BY <1>12, <3>1, <3>2
  <2>8. FetchedOK(force.todo, force.listed)'
    BY <2>1, <2>7 DEF FetchedOK, Live
  <2>9. PullsOK(force.todo, force.listed)'
    BY <1>9, <2>1 DEF PullsOK
  <2>10. PullOK'
    BY <2>6, <2>8, <2>9 DEF PullOK
  <2> QED
    BY <2>1, <2>3, <2>10 DEF ForceInv, BeforeListing, PushOK, ForcedRunMirrors,
                             PushMirrors, PullMirrors
<1>13. CASE /\ a.kind = "trash" /\ mine' = [mine EXCEPT ![p] = Absent]
            /\ entries' = [f \in ForceFile |-> IF f \in Tracked(p) THEN Absent ELSE entries[f]]
            /\ force' = [force EXCEPT !.todo = Tail(@)] /\ fetched' = fetched
  <2>1. Contents(listed)[p] = {}
    BY <1>7, <1>8, <1>13, NoFileAt
  <2>2. /\ mine' \in [ForcePath -> ForceContent \cup {Absent}] /\ mine'[p] = Absent
        /\ \A q \in ForcePath \ {p} : mine'[q] = mine[q]
    BY <1>3, <1>8, <1>13
  <2>3. entries' \in [ForceFile -> ForcePath \cup {Absent}]
    BY <1>3, <1>13
  <2> QED
    BY <1>12, <1>13, <2>1, <2>2, <2>3
<1>14. CASE /\ a.kind # "trash" /\ mine' = [mine EXCEPT ![p] = c]
            /\ entries' = [entries EXCEPT ![a.file] = p]
            /\ force' = [force EXCEPT !.todo = Tail(@)] /\ fetched' = fetched \cup {c}
  <2>1. a.kind = "write" /\ a.file \in FileAt(listed, p) /\ a.file \in ForceFile
    BY <1>7, <1>8, <1>14
  <2>2. Contents(listed)[p] = {c}
    BY <1>3, <1>8, <2>1, OneFileAt
  <2>3. c \in ForceContent \cup {Absent} /\ c # Absent
    BY <1>3, <2>1, FileAtIs DEF RowsOK, Row
  <2>4. /\ mine' \in [ForcePath -> ForceContent \cup {Absent}] /\ mine'[p] = c
        /\ \A q \in ForcePath \ {p} : mine'[q] = mine[q]
    BY <1>3, <1>8, <1>14, <2>3
  <2>5. entries' \in [ForceFile -> ForcePath \cup {Absent}]
    BY <1>3, <1>8, <1>14, <2>1
  <2>6. {mine'[p]} \ {Absent} = Contents(listed)[p]
    BY <2>2, <2>3, <2>4
  <2> QED
    BY <1>12, <1>14, <2>1, <2>4, <2>5, <2>6
<1> QED
  BY <1>2, <1>11, <1>13, <1>14

LEMMA FinishKeeps ==
    ASSUME ForceInv, Finish("push", "pushed") \/ Finish("pull", "pulled")
    PROVE  ForceInv'
<1>1. /\ force.at \in {"push", "pull"} /\ force.todo = <<>>
      /\ force' = [force EXCEPT !.at = IF force.at = "push" THEN "pushed" ELSE "pulled"]
      /\ UNCHANGED <<mine, entries, theirs, fetched, unseen, cycle, others>>
  BY DEF Finish
<1>2. /\ force \in [at : Running \cup {"idle", "pushed", "pulled", "failed"},
                    todo : Seq(PushAction) \cup Seq(PullAction), listed : [ForceFile -> Row]]
      /\ RowsOK(theirs) /\ RowsOK(force.listed)
  BY DEF ForceInv, ForceTypeOK
<1>3. /\ force'.at = (IF force.at = "push" THEN "pushed" ELSE "pulled")
      /\ force'.listed = force.listed
      /\ force' \in [at : Running \cup {"idle", "pushed", "pulled", "failed"},
                     todo : Seq(PushAction) \cup Seq(PullAction), listed : [ForceFile -> Row]]
  BY <1>1, <1>2
<1>4. RowsOK(theirs') /\ RowsOK(force'.listed)
  BY <1>1, <1>2, <1>3
<1>5. ForceTypeOK'
  BY <1>1, <1>3, <1>4 DEF ForceInv, ForceTypeOK
<1>6. ASSUME NEW rows, PathsOK(<<>>, rows)
      PROVE  Contents(rows) = OfVault
  <2>1. \A p \in ForcePath : Contents(rows)[p] = OfVault[p]
    BY <1>6 DEF PathsOK
  <2> QED
    BY <2>1 DEF Contents, OfVault
<1>7. PushMirrors'
  <2> SUFFICES ASSUME force.at = "push", unseen = {}
               PROVE  /\ Contents(theirs) = OfVault
                      /\ \A f \in Live(theirs) : theirs[f].path # AnotherName
                      /\ cycle \/ \A p \in Here : EntryAt(entries, p) = FileAt(theirs, p)
    <3>1. OfVault' = OfVault /\ Here' = Here
      BY <1>1 DEF OfVault, Here
    <3>2. ASSUME force'.at = "pushed" /\ unseen' = {}
          PROVE  force.at = "push" /\ unseen = {}
      BY <1>1, <1>3, <3>2
    <3> QED
      BY <1>1, <3>1, <3>2 DEF PushMirrors, Contents, FileAt, Live, EntryAt
  <2>1. /\ PathsOK(<<>>, theirs) /\ NamesOK(<<>>, theirs)
        /\ cycle \/ IndexOK(<<>>, theirs, entries)
    BY <1>1 DEF ForceInv, PushOK
  <2>2. Contents(theirs) = OfVault
    BY <1>6, <2>1
  <2>3. \A f \in Live(theirs) : theirs[f].path # AnotherName
    BY <2>1, ForceNumbers DEF NamesOK
  <2>4. ASSUME IndexOK(<<>>, theirs, entries), NEW p \in Here
        PROVE  EntryAt(entries, p) = FileAt(theirs, p)
    <3>1. \A f \in ForceFile : f \in FileAt(theirs, p) <=> entries[f] = p
      BY <2>4 DEF IndexOK
    <3> QED
      BY <3>1 DEF EntryAt, FileAt, Live
  <2> QED
    BY <2>1, <2>2, <2>3, <2>4
<1>8. PullMirrors'
  <2>1. ASSUME force'.at = "pulled"
        PROVE  OfVault' = Contents(force'.listed)
    <3>1. force.at = "pull"
      BY <1>1, <1>3, <2>1
    <3>2. PathsOK(<<>>, force.listed)
      BY <1>1, <3>1 DEF ForceInv, PullOK
    <3>3. Contents(force.listed) = OfVault
      BY <1>6, <3>2
    <3>4. OfVault' = OfVault
      BY <1>1 DEF OfVault
    <3> QED
      BY <1>3, <3>3, <3>4
  <2>2. force'.at # "failed"
    BY <1>3
  <2> QED
    BY <2>1, <2>2 DEF PullMirrors, Contents, FileAt, Live
<1> QED
  BY <1>3, <1>5, <1>7, <1>8 DEF ForceInv, BeforeListing, PushOK, PullOK, ForcedRunMirrors

LEMMA OtherDeviceKeeps == ForceInv /\ OtherDevice => ForceInv'
<1> SUFFICES ASSUME ForceInv, OtherDevice
             PROVE  ForceInv'
  OBVIOUS
<1>1. force.at \in Running /\ UNCHANGED <<mine, entries, force, fetched, cycle>>
  BY DEF OtherDevice
<1>2. PICK f \in KnownFile, p \in ForcePath, c \in ForceContent :
         /\ Put(f, p, c)
         /\ unseen' = IF force.at \in {"push", "pull"} THEN unseen \cup {f} ELSE unseen
  BY DEF OtherDevice
<1>3. RowsOK(theirs) /\ RowsOK(force.listed) /\ f \in ForceFile
  BY ForceNumbers DEF ForceInv, ForceTypeOK
<1>4. RowsOK(theirs') /\ \A g \in ForceFile \ {f} : theirs'[g] = theirs[g]
  BY <1>2, <1>3, PutKeeps
<1>5. RowsOK(force'.listed)
  BY <1>1, <1>3
<1>6. ForceTypeOK'
  BY <1>1, <1>2, <1>4, <1>5 DEF ForceInv, ForceTypeOK
<1>7. BeforeListing'
  BY <1>1, <1>2, <1>4, ForceNumbers DEF ForceInv, BeforeListing
<1>8. PushOK'
  BY <1>1, <1>2 DEF PushOK
<1>9. PullOK'
  <2>1. OfVault' = OfVault
    BY <1>1 DEF OfVault
  <2>2. ASSUME force.at = "pull"
        PROVE  /\ PullsOK(force.todo, force.listed) /\ PathsOK(force.todo, force.listed)
               /\ FetchedOK(force.todo, force.listed)
    BY <2>2 DEF ForceInv, PullOK
  <2>3. force' = force /\ fetched' = fetched
    BY <1>1
  <2>4. ASSUME force.at = "pull"
        PROVE  PathsOK(force.todo, force.listed)'
    BY <2>1, <2>2, <2>3, <2>4 DEF PathsOK
  <2>5. ASSUME force.at = "pull"
        PROVE  PullsOK(force.todo, force.listed)'
    BY <2>2, <2>3, <2>5 DEF PullsOK
  <2>6. ASSUME force.at = "pull"
        PROVE  FetchedOK(force.todo, force.listed)'
    BY <2>2, <2>3, <2>6 DEF FetchedOK
  <2> QED
    BY <2>3, <2>4, <2>5, <2>6 DEF PullOK
<1> QED
  BY <1>1, <1>6, <1>7, <1>8, <1>9 DEF ForceInv, ForcedRunMirrors, PushMirrors, PullMirrors, Running

LEMMA ForceSteps == ForceInv /\ [ForceNext]_forceVars => ForceInv'
<1> SUFFICES ASSUME ForceInv, [ForceNext]_forceVars
             PROVE  ForceInv'
  OBVIOUS
<1>1. CASE BeginForce("pushing") \/ BeginForce("pulling")
  BY <1>1, BeginKeeps
<1>2. CASE Finish("push", "pushed") \/ Finish("pull", "pulled")
  BY <1>2, FinishKeeps
<1>3. CASE UNCHANGED forceVars
  <2>1. UNCHANGED <<mine, entries, theirs, force, fetched, unseen, cycle, others>>
    BY <1>3 DEF forceVars
  <2>2. Here' = Here /\ OfVault' = OfVault
    BY <2>1 DEF Here, OfVault
  <2>3. ForceTypeOK' /\ BeforeListing'
    BY <2>1 DEF ForceInv, ForceTypeOK, BeforeListing
  <2>4. PushOK'
    <3>1. ActionsOK(force.todo, theirs)' <=> ActionsOK(force.todo, theirs)
      BY <2>1, <2>2 DEF ActionsOK, PutOK, DeleteOK
    <3>2. PathsOK(force.todo, theirs)' <=> PathsOK(force.todo, theirs)
      BY <2>1, <2>2 DEF PathsOK
    <3>3. NamesOK(force.todo, theirs)' <=> NamesOK(force.todo, theirs)
      BY <2>1 DEF NamesOK
    <3>4. IndexOK(force.todo, theirs, entries)' <=> IndexOK(force.todo, theirs, entries)
      BY <2>1, <2>2 DEF IndexOK
    <3> QED
      BY <2>1, <3>1, <3>2, <3>3, <3>4 DEF ForceInv, PushOK
  <2>5. PullOK'
    <3>1. PullsOK(force.todo, force.listed)' <=> PullsOK(force.todo, force.listed)
      BY <2>1 DEF PullsOK
    <3>2. PathsOK(force.todo, force.listed)' <=> PathsOK(force.todo, force.listed)
      BY <2>1, <2>2 DEF PathsOK
    <3>3. FetchedOK(force.todo, force.listed)' <=> FetchedOK(force.todo, force.listed)
      BY <2>1 DEF FetchedOK
    <3> QED
      BY <2>1, <3>1, <3>2, <3>3 DEF ForceInv, PullOK
  <2>6. ForcedRunMirrors'
    BY <2>1, <2>2 DEF ForceInv, ForcedRunMirrors, PushMirrors, PullMirrors
  <2> QED
    BY <2>3, <2>4, <2>5, <2>6 DEF ForceInv
<1> QED
  BY <1>1, <1>2, <1>3, ListForPushKeeps, PushNextKeeps, ListForPullKeeps, PullNextKeeps,
     OtherDeviceKeeps DEF ForceNext

\* forcePush, forcePull: a forced run that succeeds, and that nobody has come into when it
\* pushes, leaves vault and server alike, with an index that knows the files' ids unless two
\* had changed places; a pull fails only for a content that is listed twice.  For any number
\* of files, paths and contents.
THEOREM RunsMirror == ForceSpec => []ForcedRunMirrors
<1>1. ForceInv => ForcedRunMirrors
  BY DEF ForceInv
<1> QED
  BY <1>1, ForceBegins, ForceSteps, PTL DEF ForceSpec
-----------------------------------------------------------------------------
(***************************************************************************)
(* What a push has not seen.                                               *)
(***************************************************************************)
\* What is to be done was made for what was listed, and whatever others have written
\* since has a later version: it is there, unless its file was to be deleted.
AsListed ==
    \A i \in 1 .. Len(force.todo) :
        LET action == force.todo[i]
        IN  \/ PutOK(action, force.listed) /\ MadeFor(action, force.listed)
            \/ DeleteOK(action, force.listed)

ToBeDeleted(f) == f \in Live(force.listed) /\ force.listed[f].path \notin Here

UnseenOK ==
    force.at = "push" =>
        /\ AsListed
        /\ \A f \in ForceFile : theirs[f].version >= force.listed[f].version
        /\ \A f \in unseen : /\ theirs[f].version > force.listed[f].version
                             /\ f \in Live(theirs) \/ ToBeDeleted(f)

OthersOK == others \in Nat

\* Versions only grow; what is put is live.
LEMMA PutCounts ==
    ASSUME RowsOK(theirs), NEW f \in ForceFile, NEW p \in ForcePath, NEW c \in ForceContent \cup {Absent},
           Put(f, p, c)
    PROVE  /\ theirs'[f].version = theirs[f].version + 1
           /\ theirs'[f].content = c
           /\ \A g \in ForceFile : theirs[g].version \in Nat /\ theirs'[g].version \in Nat
           /\ \A g \in ForceFile \ {f} : theirs'[g] = theirs[g]
           /\ \A g \in ForceFile : theirs'[g].version >= theirs[g].version
<1>1. RowsOK(theirs') /\ \A g \in ForceFile \ {f} : theirs'[g] = theirs[g]
  BY PutKeeps
<1>2. theirs'[f].version = theirs[f].version + 1 /\ theirs'[f].content = c
  BY DEF Put, RowsOK
<1>3. \A g \in ForceFile : theirs[g].version \in Nat /\ theirs'[g].version \in Nat
  BY <1>1 DEF RowsOK, Row
<1>4. ASSUME NEW g \in ForceFile
      PROVE  theirs'[g].version >= theirs[g].version
  <2>1. CASE g = f
    BY <1>2, <1>3, <2>1
  <2>2. CASE g # f
    BY <1>1, <1>3, <2>2
  <2> QED
    BY <2>1, <2>2
<1> QED
  BY <1>1, <1>2, <1>3, <1>4

LEMMA DeleteCounts ==
    ASSUME RowsOK(theirs), NEW f \in ForceFile, theirs' = [theirs EXCEPT ![f].content = Absent]
    PROVE  \A g \in ForceFile : theirs'[g].version = theirs[g].version /\ theirs[g].version \in Nat
BY DEF RowsOK, Row

\* An action of the plan that is done to a file that others have written since deletes it.
LEMMA PushSpares ==
    ASSUME ForceInv, UnseenOK, PushNext, NEW g \in unseen, theirs'[g] # theirs[g]
    PROVE  ToBeDeleted(g)
<1> DEFINE a == Head(force.todo)
           f == IF a.file = Absent THEN Min(UnusedIds) ELSE a.file
<1>1. /\ force.at = "push" /\ force.todo # <<>>
      /\ a.file = Absent => UnusedIds # {}
      /\ \/ a.kind = "delete" /\ theirs' = [theirs EXCEPT ![f].content = Absent]
         \/ Supersedes(a, f) /\ a.kind # "delete" /\ Put(f, a.path, mine[a.path])
         \/ UNCHANGED theirs
  BY DEF PushNext
<1>2. /\ RowsOK(theirs) /\ RowsOK(force.listed) /\ unseen \subseteq KnownFile
      /\ force.todo \in Seq(PushAction)
  BY <1>1 DEF ForceInv, ForceTypeOK
<1>3. a = force.todo[1] /\ 1 \in 1 .. Len(force.todo)
  BY <1>1, <1>2, RestIs
<1>4. (PutOK(a, force.listed) /\ MadeFor(a, force.listed)) \/ DeleteOK(a, force.listed)
  BY <1>1, <1>3 DEF UnseenOK, AsListed
<1>5. theirs[g].version > force.listed[g].version /\ (g \in Live(theirs) \/ ToBeDeleted(g))
  BY <1>1 DEF UnseenOK
<1>6. g \in KnownFile /\ g \in ForceFile /\ force.listed[g].version \in Nat /\ theirs[g].version \in Nat
  BY <1>2, ForceNumbers DEF RowsOK, Row
<1>7. a.file = Absent => f \in FreshFile
  <2>1. UnusedIds \subseteq FreshFile /\ UnusedIds \subseteq Nat
    BY ForceNumbers DEF UnusedIds
  <2> QED
    BY <1>1, <2>1, MinInSet
<1> HIDE DEF a
<1>8. f = g
  BY <1>1, <1>2, <1>6 DEF Put, RowsOK
<1>9. a.file = g
  BY <1>6, <1>7, <1>8, ForceNumbers
<1> HIDE DEF f
<1>10. CASE DeleteOK(a, force.listed)
  BY <1>9, <1>10 DEF DeleteOK, ToBeDeleted
<1>11. CASE PutOK(a, force.listed) /\ MadeFor(a, force.listed)
  <2>1. a.kind = "put" /\ ~ToBeDeleted(g)
    BY <1>9, <1>11 DEF PutOK, ToBeDeleted
  <2>2. Supersedes(a, g)
    BY <1>1, <1>8, <2>1
  <2>3. g \in Live(theirs)
    BY <1>5, <2>1
  <2>4. a.seen = theirs[g].version
    BY <2>2, <2>3 DEF Supersedes
  <2>5. a.seen = force.listed[g].version \/ a.seen = 0
    BY <1>9, <1>11 DEF MadeFor
  <2> QED
    BY <1>5, <1>6, <2>4, <2>5
<1> QED
  BY <1>4, <1>10, <1>11

LEMMA PushNextSpares ==
    ASSUME ForceInv, UnseenOK, PushNext
    PROVE  UnseenOK'
<1> DEFINE a == Head(force.todo)
           f == IF a.file = Absent THEN Min(UnusedIds) ELSE a.file
<1>1. /\ force.at = "push" /\ force.todo # <<>> /\ Here' = Here /\ UNCHANGED <<mine, unseen>>
      /\ a.file = Absent => UnusedIds # {}
      /\ \/ /\ a.kind = "delete" /\ theirs' = [theirs EXCEPT ![f].content = Absent]
            /\ force' = [force EXCEPT !.todo = Tail(@)]
         \/ /\ a.kind # "delete" /\ Put(f, a.path, mine[a.path])
            /\ force' = [force EXCEPT !.todo = Tail(@)]
         \/ force' = [force EXCEPT !.at = "failed"]
  BY DEF PushNext, Here
<1>2. /\ RowsOK(theirs) /\ RowsOK(force.listed) /\ unseen \subseteq KnownFile
      /\ mine \in [ForcePath -> ForceContent \cup {Absent}]
      /\ force \in [at : Running \cup {"idle", "pushed", "pulled", "failed"},
                    todo : Seq(PushAction) \cup Seq(PullAction), listed : [ForceFile -> Row]]
      /\ force.todo \in Seq(PushAction)
  BY <1>1 DEF ForceInv, ForceTypeOK
<1>3. CASE force' = [force EXCEPT !.at = "failed"]
  BY <1>2, <1>3 DEF UnseenOK
<1>4. a \in PushAction /\ a = force.todo[1] /\ 1 \in 1 .. Len(force.todo)
  BY <1>1, <1>2, RestIs
<1>5. /\ AsListed
      /\ \A g \in ForceFile : theirs[g].version >= force.listed[g].version
      /\ \A g \in unseen : /\ theirs[g].version > force.listed[g].version
                           /\ g \in Live(theirs) \/ ToBeDeleted(g)
  BY <1>1 DEF UnseenOK
<1>6. f \in ForceFile
  <2>1. CASE a.file = Absent
    <3>1. UnusedIds \subseteq ForceFile /\ UnusedIds \subseteq Nat
      BY ForceNumbers DEF UnusedIds
    <3> QED
      BY <1>1, <2>1, <3>1, MinInSet
  <2>2. CASE a.file # Absent
    BY <1>4, <2>2, ForceNumbers DEF PushAction
  <2> QED
    BY <2>1, <2>2
<1>7. CASE force' = [force EXCEPT !.todo = Tail(@)]
  <2>1. force'.at = "push" /\ force'.todo = Tail(force.todo) /\ force'.listed = force.listed
    BY <1>1, <1>2, <1>7
  <2>2. AsListed'
    <3>1. \A i \in 1 .. Len(Tail(force.todo)) :
             i + 1 \in 1 .. Len(force.todo) /\ Tail(force.todo)[i] = force.todo[i + 1]
      BY <1>1, <1>2, RestIs
    <3>2. ASSUME NEW i \in 1 .. Len(Tail(force.todo))
          PROVE  LET action == Tail(force.todo)[i]
                 IN  \/ PutOK(action, force.listed) /\ MadeFor(action, force.listed)
                     \/ DeleteOK(action, force.listed)
      BY <1>5, <3>1 DEF AsListed
    <3> QED
      BY <1>1, <2>1, <3>2 DEF AsListed, PutOK, DeleteOK
  <2>3. \A g : ToBeDeleted(g)' <=> ToBeDeleted(g)
    BY <1>1, <2>1 DEF ToBeDeleted
  <2>4. /\ \A g \in ForceFile : theirs'[g].version >= theirs[g].version
        /\ \A g \in ForceFile : theirs[g].version \in Nat /\ theirs'[g].version \in Nat
    <3> HIDE DEF a, f
    <3>1. CASE a.kind = "delete" /\ theirs' = [theirs EXCEPT ![f].content = Absent]
      <4>1. RowsOK(theirs) /\ theirs' = [theirs EXCEPT ![f].content = Absent]
        BY <1>2, <3>1
      <4>2. \A g \in ForceFile : theirs'[g].version = theirs[g].version /\ theirs[g].version \in Nat
        BY <1>6, <4>1, DeleteCounts
      <4>3. \A x, y \in Nat : x = y => x >= y
        OBVIOUS
      <4> QED
        BY <4>2, <4>3
    <3>2. CASE a.kind # "delete" /\ Put(f, a.path, mine[a.path])
      <4>1. a.path \in ForcePath
        BY <1>4, <3>2 DEF PushAction
      <4>2. mine[a.path] \in ForceContent \cup {Absent}
        BY <1>2, <4>1
      <4>3. RowsOK(theirs) /\ Put(f, a.path, mine[a.path])
        BY <1>2, <3>2
      <4> QED
        BY <1>6, <4>1, <4>2, <4>3, PutCounts
    <3>3. force' # [force EXCEPT !.at = "failed"]
      BY <1>1, <1>2, <2>1
    <3> QED
      BY <1>1, <3>1, <3>2, <3>3
  <2>5. ASSUME NEW g \in unseen
        PROVE  g \in Live(theirs') \/ ToBeDeleted(g)
    <3>1. CASE theirs'[g] # theirs[g]
      BY <3>1, PushSpares
    <3>2. CASE theirs'[g] = theirs[g]
      BY <1>5, <3>2 DEF Live
    <3> QED
      BY <3>1, <3>2
  <2>6. \A g \in ForceFile : force.listed[g].version \in Nat
    BY <1>2 DEF RowsOK, Row
  <2>7. \A g \in ForceFile : theirs'[g].version >= force.listed[g].version
    BY <1>5, <2>4, <2>6
  <2>8. \A g \in unseen : g \in ForceFile /\ theirs'[g].version > force.listed[g].version
    <3>1. unseen \subseteq ForceFile
      BY <1>2, ForceNumbers
    <3> QED
      BY <1>5, <2>4, <2>6, <3>1
  <2> QED
    BY <1>1, <2>1, <2>2, <2>3, <2>5, <2>7, <2>8 DEF UnseenOK
<1> QED
  BY <1>1, <1>3, <1>7

LEMMA ListForPushSpares ==
    ASSUME ForceInv, ListForPush
    PROVE  UnseenOK'
<1> DEFINE todo == PushPlan(theirs)
<1>1. force.at = "pushing" /\ force'.todo = todo /\ force'.listed = theirs
      /\ UNCHANGED <<mine, theirs, unseen>> /\ Here' = Here
  BY DEF ListForPush, Here
<1>2. /\ RowsOK(theirs) /\ entries \in [ForceFile -> ForcePath \cup {Absent}] /\ unseen = {}
      /\ \A f \in FreshFile : theirs[f].version = 0 /\ entries[f] = Absent
      /\ \A f, g \in ForceFile : (entries[f] = entries[g] /\ f # g) => entries[f] = Absent
  BY <1>1 DEF ForceInv, ForceTypeOK, BeforeListing
<1>3. /\ Lists(todo, PutActions(theirs) \cup DeleteActions(theirs))
      /\ \A a \in PutActions(theirs) : PutOK(a, theirs) /\ MadeFor(a, theirs)
      /\ \A a \in DeleteActions(theirs) : DeleteOK(a, theirs)
  BY <1>2, PlanIsLists
<1> HIDE DEF todo
<1>4. \A i \in 1 .. Len(todo) : todo[i] \in PutActions(theirs) \cup DeleteActions(theirs)
  BY <1>3, ListsHas
<1>5. AsListed'
  <2>1. \A i \in 1 .. Len(todo) : \/ PutOK(todo[i], theirs) /\ MadeFor(todo[i], theirs)
                                  \/ DeleteOK(todo[i], theirs)
    BY <1>3, <1>4
  <2> QED
    BY <1>1, <2>1 DEF AsListed, PutOK, DeleteOK
<1>6. \A f \in ForceFile : theirs[f].version >= theirs[f].version
  BY <1>2 DEF RowsOK, Row
<1> QED
  BY <1>1, <1>2, <1>5, <1>6 DEF UnseenOK

LEMMA OtherDeviceSpares ==
    ASSUME ForceInv, UnseenOK, OtherDevice
    PROVE  UnseenOK'
<1> SUFFICES ASSUME force.at = "push"
             PROVE  UnseenOK'
  BY DEF UnseenOK, OtherDevice
<1>1. UNCHANGED <<mine, force>> /\ Here' = Here
  BY DEF OtherDevice, Here
<1>2. PICK f \in KnownFile, p \in ForcePath, c \in ForceContent :
         Put(f, p, c) /\ unseen' = unseen \cup {f}
  BY DEF OtherDevice
<1>3. /\ RowsOK(theirs) /\ RowsOK(force.listed) /\ f \in ForceFile /\ unseen \subseteq ForceFile
      /\ c # Absent
  BY ForceNumbers DEF ForceInv, ForceTypeOK
<1>4. /\ theirs'[f].version = theirs[f].version + 1 /\ theirs'[f].content = c
      /\ \A g \in ForceFile : theirs[g].version \in Nat /\ theirs'[g].version \in Nat
      /\ \A g \in ForceFile \ {f} : theirs'[g] = theirs[g]
      /\ \A g \in ForceFile : theirs'[g].version >= theirs[g].version
  BY <1>2, <1>3, PutCounts
<1>5. \A g \in ForceFile : force.listed[g].version \in Nat
  BY <1>3 DEF RowsOK, Row
<1>6. /\ AsListed
      /\ \A g \in ForceFile : theirs[g].version >= force.listed[g].version
      /\ \A g \in unseen : /\ theirs[g].version > force.listed[g].version
                           /\ g \in Live(theirs) \/ ToBeDeleted(g)
  BY DEF UnseenOK
<1>7. AsListed' /\ \A g : ToBeDeleted(g)' <=> ToBeDeleted(g)
  BY <1>1, <1>6 DEF AsListed, PutOK, DeleteOK, ToBeDeleted
<1>8. f \in Live(theirs') /\ theirs'[f].version > force.listed[f].version
  BY <1>3, <1>4, <1>5, <1>6 DEF Live
<1>9. ASSUME NEW g \in unseen, g # f
      PROVE  /\ theirs'[g].version > force.listed[g].version
             /\ g \in Live(theirs') \/ ToBeDeleted(g)
  BY <1>3, <1>4, <1>6, <1>9 DEF Live
<1>10. \A g \in ForceFile : theirs'[g].version >= force.listed[g].version
  BY <1>4, <1>5, <1>6
<1> QED
  BY <1>1, <1>2, <1>7, <1>8, <1>9, <1>10 DEF UnseenOK

\* PushNext against a file that another device has come into: what it wrote since the
\* manifest was read stays, unless the file is one the push deletes.  For any number of
\* files, paths, contents and operations of other devices.
THEOREM PushSparesUnseen == ForceSpec => UnseenStays
<1>1. ForceInit => UnseenOK
  BY DEF ForceInit, NotForcing, UnseenOK
<1>2. ASSUME ForceInv, UnseenOK, [ForceNext]_forceVars
      PROVE  UnseenOK'
  <2>1. CASE BeginForce("pushing") \/ BeginForce("pulling") \/ ListForPull
              \/ Finish("push", "pushed") \/ Finish("pull", "pulled") \/ PullNext
    <3>1. force'.at # "push"
      <4>1. force \in [at : Running \cup {"idle", "pushed", "pulled", "failed"},
                       todo : Seq(PushAction) \cup Seq(PullAction), listed : [ForceFile -> Row]]
        BY <1>2 DEF ForceInv, ForceTypeOK
      <4>2. CASE PullNext
        <5>1. /\ force.at = "pull"
              /\ \/ force' = [force EXCEPT !.at = "failed"]
                 \/ force' = [force EXCEPT !.todo = Tail(@)]
          BY <4>2 DEF PullNext
        <5> QED
          BY <4>1, <5>1
      <4> QED
        BY <2>1, <4>1, <4>2 DEF BeginForce, Finish, ListForPull
    <3> QED
      BY <3>1 DEF UnseenOK
  <2>2. CASE UNCHANGED forceVars
    BY <1>2, <2>2 DEF forceVars, UnseenOK, AsListed, PutOK, DeleteOK, ToBeDeleted, Here
  <2> QED
    BY <1>2, <2>1, <2>2, ListForPushSpares, PushNextSpares, OtherDeviceSpares DEF ForceNext
<1>3. ASSUME ForceInv, UnseenOK, OthersOK, [ForceNext]_forceVars
      PROVE  \A f \in unseen : (force.at = "push" /\ theirs'[f] # theirs[f] /\ others' = others)
                   => f \in Live(force.listed) /\ force.listed[f].path \notin Here
  <2>1. SUFFICES ASSUME NEW f \in unseen, force.at = "push", theirs'[f] # theirs[f], others' = others
                 PROVE  ToBeDeleted(f)
    BY DEF ToBeDeleted
  <2>2. ~UNCHANGED forceVars /\ theirs' # theirs
    BY <2>1 DEF forceVars
  <2>3. ~OtherDevice
    <3>1. ASSUME OtherDevice
          PROVE  FALSE
      <4>1. others' = others + 1 /\ others < MaxOthers
        BY <3>1 DEF OtherDevice
      <4> QED
        BY <1>3, <2>1, <4>1 DEF OthersOK
    <3> QED
      BY <3>1
  <2>4. PushNext
    BY <1>3, <2>1, <2>2, <2>3 DEF ForceNext, BeginForce, ListForPush, Finish, ListForPull, PullNext
  <2> QED
    BY <1>3, <2>1, <2>4, PushSpares
<1>4. ForceInit => OthersOK
  BY DEF ForceInit, OthersOK
<1>5. OthersOK /\ [ForceNext]_forceVars => OthersOK'
  <2>1. [ForceNext]_forceVars => others' = others \/ others' = others + 1
    <3>1. PushNext \/ PullNext => others' = others
      BY DEF PushNext, PullNext
    <3>2. ListForPush \/ ListForPull => others' = others
      BY DEF ListForPush, ListForPull
    <3> QED
      BY <3>1, <3>2 DEF ForceNext, forceVars, BeginForce, Finish, OtherDevice
  <2> QED
    BY <2>1 DEF OthersOK
<1>6. ForceInv /\ UnseenOK /\ [ForceNext]_forceVars => UnseenOK'
  BY <1>2
<1>7. ForceInv /\ UnseenOK /\ OthersOK /\ [ForceNext]_forceVars =>
        \A f \in unseen : (force.at = "push" /\ theirs'[f] # theirs[f] /\ others' = others)
              => f \in Live(force.listed) /\ force.listed[f].path \notin Here
  BY <1>3
<1> QED
  BY <1>1, <1>4, <1>5, <1>6, <1>7, ForceBegins, ForceSteps, PTL DEF ForceSpec, UnseenStays
=============================================================================
