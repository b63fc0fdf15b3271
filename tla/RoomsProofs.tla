------------------------------ MODULE RoomsProofs ------------------------------
(***************************************************************************)
(* What Rooms promises for every number of devices, activations, updates,  *)
(* operations and restored versions: an acknowledged update survives one   *)
(* failure, the document never has a text twice, the room agrees with the  *)
(* row of its file, and a flush brings what was acknowledged.              *)
(*                                                                         *)
(* The lock makes a handler of the room a sequence of statements, so an    *)
(* invariant is of the form: with these statements left, this holds.       *)
(* TodoInv names the sequences there are; the rest is one step for each    *)
(* statement, each way into a handler and each thing that comes between.   *)
(***************************************************************************)
EXTENDS Rooms, SequenceTheorems, FiniteSetTheorems, TLAPS

-----------------------------------------------------------------------------
(***************************************************************************)
(* The statements a handler has left.                                      *)
(***************************************************************************)
Names == {"saveRoom", "saveFile", "activationSnapshot", "join", "appendUpdate",
          "captureSnapshot", "process"}

\* Six to one of promote and activate; the others have no other ends than these.
P6 == <<"saveRoom", "saveFile", "activationSnapshot", "saveRoom", "saveFile", "join">>
P5 == <<"saveFile", "activationSnapshot", "saveRoom", "saveFile", "join">>
P4 == <<"activationSnapshot", "saveRoom", "saveFile", "join">>
P3 == <<"saveRoom", "saveFile", "join">>
P2 == <<"saveFile", "join">>
P1 == <<"join">>
D4 == <<"process", "captureSnapshot", "saveRoom", "saveFile">>
R4 == <<"appendUpdate", "captureSnapshot", "saveRoom", "saveFile">>
U3 == <<"appendUpdate", "saveRoom", "saveFile">>
C3 == <<"captureSnapshot", "saveRoom", "saveFile">>
S2 == <<"saveRoom", "saveFile">>
S1 == <<"saveFile">>

\* Each sequence by its length, its first statement and the rest.
LEMMA Sequences ==
    /\ Len(P6) = 6 /\ Head(P6) = "saveRoom" /\ Tail(P6) = P5
    /\ Len(P5) = 5 /\ Head(P5) = "saveFile" /\ Tail(P5) = P4
    /\ Len(P4) = 4 /\ Head(P4) = "activationSnapshot" /\ Tail(P4) = P3
    /\ Len(P3) = 3 /\ Head(P3) = "saveRoom" /\ Tail(P3) = P2
    /\ Len(P2) = 2 /\ Head(P2) = "saveFile" /\ Tail(P2) = P1
    /\ Len(P1) = 1 /\ Head(P1) = "join" /\ Tail(P1) = <<>>
    /\ Len(D4) = 4 /\ Head(D4) = "process" /\ Tail(D4) = C3
    /\ Len(R4) = 4 /\ Head(R4) = "appendUpdate" /\ Tail(R4) = C3
    /\ Len(U3) = 3 /\ Head(U3) = "appendUpdate" /\ Tail(U3) = S2
    /\ Len(C3) = 3 /\ Head(C3) = "captureSnapshot" /\ Tail(C3) = S2
    /\ Len(S2) = 2 /\ Head(S2) = "saveRoom" /\ Tail(S2) = S1
    /\ Len(S1) = 1 /\ Head(S1) = "saveFile" /\ Tail(S1) = <<>>
<1>1. /\ Len(P6) = 6 /\ Head(P6) = "saveRoom" /\ Tail(P6) = P5
      /\ Len(P5) = 5 /\ Head(P5) = "saveFile" /\ Tail(P5) = P4
  BY TailIsSubSeq DEF P6, P5, P4
<1>2. /\ Len(P4) = 4 /\ Head(P4) = "activationSnapshot" /\ Tail(P4) = P3
      /\ Len(P3) = 3 /\ Head(P3) = "saveRoom" /\ Tail(P3) = P2
  BY DEF P4, P3, P2
<1>3. /\ Len(P2) = 2 /\ Head(P2) = "saveFile" /\ Tail(P2) = P1
      /\ Len(P1) = 1 /\ Head(P1) = "join" /\ Tail(P1) = <<>>
  BY DEF P2, P1
<1>4. /\ Len(D4) = 4 /\ Head(D4) = "process" /\ Tail(D4) = C3
      /\ Len(R4) = 4 /\ Head(R4) = "appendUpdate" /\ Tail(R4) = C3
  BY DEF D4, R4, C3
<1>5. /\ Len(U3) = 3 /\ Head(U3) = "appendUpdate" /\ Tail(U3) = S2
      /\ Len(C3) = 3 /\ Head(C3) = "captureSnapshot" /\ Tail(C3) = S2
  BY DEF U3, C3, S2
<1>6. /\ Len(S2) = 2 /\ Head(S2) = "saveRoom" /\ Tail(S2) = S1
      /\ Len(S1) = 1 /\ Head(S1) = "saveFile" /\ Tail(S1) = <<>>
  BY DEF S2, S1
<1> QED
  BY <1>1, <1>2, <1>3, <1>4, <1>5, <1>6

\* No two of them are the same.
LEMMA Different ==
    /\ <<>> \notin {P6, P5, P4, P3, P2, P1, D4, R4, U3, C3, S2, S1}
    /\ P6 \notin {P5, P4, P3, P2, P1, D4, R4, U3, C3, S2, S1}
    /\ P5 \notin {P6, P4, P3, P2, P1, D4, R4, U3, C3, S2, S1}
    /\ P4 \notin {P6, P5, P3, P2, P1, D4, R4, U3, C3, S2, S1}
    /\ P3 \notin {P6, P5, P4, P2, P1, D4, R4, U3, C3, S2, S1}
    /\ P2 \notin {P6, P5, P4, P3, P1, D4, R4, U3, C3, S2, S1}
    /\ P1 \notin {P6, P5, P4, P3, P2, D4, R4, U3, C3, S2, S1}
    /\ D4 \notin {R4, U3, C3, S2, S1}
    /\ R4 \notin {D4, U3, C3, S2, S1}
    /\ U3 \notin {D4, R4, C3, S2, S1}
    /\ C3 \notin {D4, R4, U3, S2, S1}
    /\ S2 \notin {D4, R4, U3, C3, S1}
    /\ S1 \notin {D4, R4, U3, C3, S2}
<1>0. /\ Len(P6) = 6 /\ Len(P5) = 5 /\ Len(P4) = 4 /\ Len(P3) = 3 /\ Len(P2) = 2 /\ Len(P1) = 1
      /\ Len(D4) = 4 /\ Len(R4) = 4 /\ Len(U3) = 3 /\ Len(C3) = 3 /\ Len(S2) = 2 /\ Len(S1) = 1
      /\ Head(P6) = "saveRoom" /\ Head(P5) = "saveFile"
      /\ Head(P4) = "activationSnapshot" /\ Head(P3) = "saveRoom"
      /\ Head(P2) = "saveFile" /\ Head(P1) = "join"
      /\ Head(D4) = "process" /\ Head(R4) = "appendUpdate"
      /\ Head(U3) = "appendUpdate" /\ Head(C3) = "captureSnapshot"
      /\ Head(S2) = "saveRoom" /\ Head(S1) = "saveFile"
  BY Sequences
<1>1. P6 \notin {P5, P4, P3, P2, P1, D4, R4, U3, C3, S2, S1}
  BY <1>0
<1>2. P5 \notin {P6, P4, P3, P2, P1, D4, R4, U3, C3, S2, S1}
  BY <1>0
<1>3. P4 \notin {P6, P5, P3, P2, P1, D4, R4, U3, C3, S2, S1}
  BY <1>0
<1>4. P3 \notin {P6, P5, P4, P2, P1, D4, R4, U3, C3, S2, S1}
  BY <1>0
<1>5. P2 \notin {P6, P5, P4, P3, P1, D4, R4, U3, C3, S2, S1}
  BY <1>0
<1>6. P1 \notin {P6, P5, P4, P3, P2, D4, R4, U3, C3, S2, S1}
  BY <1>0
<1>7. D4 \notin {R4, U3, C3, S2, S1}
  BY <1>0
<1>8. R4 \notin {D4, U3, C3, S2, S1}
  BY <1>0
<1>9. U3 \notin {D4, R4, C3, S2, S1}
  BY <1>0
<1>10. C3 \notin {D4, R4, U3, S2, S1}
  BY <1>0
<1>11. S2 \notin {D4, R4, U3, C3, S1}
  BY <1>0
<1>12. S1 \notin {D4, R4, U3, C3, S2}
  BY <1>0
<1>13. /\ P6 # <<>> /\ P5 # <<>> /\ P4 # <<>> /\ P3 # <<>> /\ P2 # <<>> /\ P1 # <<>>
       /\ D4 # <<>> /\ R4 # <<>> /\ U3 # <<>> /\ C3 # <<>> /\ S2 # <<>> /\ S1 # <<>>
  <2>1. P6 # <<>>
    <3>1. Len(P6) = 6
      BY <1>0
    <3> QED
      BY <3>1
  <2>2. P5 # <<>>
    <3>1. Len(P5) = 5
      BY <1>0
    <3> QED
      BY <3>1
  <2>3. P4 # <<>>
    <3>1. Len(P4) = 4
      BY <1>0
    <3> QED
      BY <3>1
  <2>4. P3 # <<>>
    <3>1. Len(P3) = 3
      BY <1>0
    <3> QED
      BY <3>1
  <2>5. P2 # <<>>
    <3>1. Len(P2) = 2
      BY <1>0
    <3> QED
      BY <3>1
  <2>6. P1 # <<>>
    <3>1. Len(P1) = 1
      BY <1>0
    <3> QED
      BY <3>1
  <2>7. D4 # <<>>
    <3>1. Len(D4) = 4
      BY <1>0
    <3> QED
      BY <3>1
  <2>8. R4 # <<>>
    <3>1. Len(R4) = 4
      BY <1>0
    <3> QED
      BY <3>1
  <2>9. U3 # <<>>
    <3>1. Len(U3) = 3
      BY <1>0
    <3> QED
      BY <3>1
  <2>10. C3 # <<>>
    <3>1. Len(C3) = 3
      BY <1>0
    <3> QED
      BY <3>1
  <2>11. S2 # <<>>
    <3>1. Len(S2) = 2
      BY <1>0
    <3> QED
      BY <3>1
  <2>12. S1 # <<>>
    <3>1. Len(S1) = 1
      BY <1>0
    <3> QED
      BY <3>1
  <2> QED
    BY <2>1, <2>2, <2>3, <2>4, <2>5, <2>6, <2>7, <2>8, <2>9, <2>10, <2>11, <2>12
<1> QED
  BY <1>13, <1>1, <1>2, <1>3, <1>4, <1>5, <1>6, <1>7, <1>8, <1>9, <1>10, <1>11, <1>12

\* A concatenation by its elements.
LEMMA Concatenated ==
    ASSUME NEW p \in Seq(Names), NEW q \in Seq(Names), NEW r \in Seq(Names),
           Len(r) = Len(p) + Len(q), \A i \in 1 .. Len(p) : r[i] = p[i],
           \A i \in 1 .. Len(q) : r[Len(p) + i] = q[i]
    PROVE  p \o q = r
<1>1. /\ p \o q \in Seq(Names) /\ Len(p \o q) = Len(p) + Len(q)
      /\ \A i \in 1 .. Len(p) + Len(q) : (p \o q)[i] = IF i <= Len(p) THEN p[i] ELSE q[i - Len(p)]
  BY ConcatProperties
<1>2. Len(p) \in Nat /\ Len(q) \in Nat
  BY LenProperties
<1>3. ASSUME NEW i \in 1 .. Len(r)
      PROVE  (p \o q)[i] = r[i]
  <2>1. CASE i <= Len(p)
    BY <1>1, <1>2, <2>1
  <2>2. CASE i > Len(p)
    <3>1. i - Len(p) \in 1 .. Len(q) /\ Len(p) + (i - Len(p)) = i
      BY <1>2, <2>2
    <3> QED
      BY <1>1, <1>2, <2>2, <3>1
  <2> QED
    BY <1>2, <2>1, <2>2
<1> QED
  BY <1>1, <1>3, SeqEqual

LEMMA Join12 ==
    ASSUME NEW a \in Names, NEW b \in Names, NEW c \in Names
    PROVE  <<a>> \o <<b, c>> = <<a, b, c>>
<1> DEFINE p == <<a>>
           q == <<b, c>>
           r == <<a, b, c>>
<1>1. /\ Len(p) = 1 /\ Len(q) = 2 /\ Len(r) = 3
      /\ r[1] = p[1]
      /\ r[2] = q[1] /\ r[3] = q[2]
  OBVIOUS
<1>2. p \in Seq(Names) /\ q \in Seq(Names) /\ r \in Seq(Names)
  OBVIOUS
<1> HIDE DEF p, q, r
<1>3. /\ \A i \in 1 .. Len(p) : r[i] = p[i]
      /\ \A i \in 1 .. Len(q) : r[Len(p) + i] = q[i]
      /\ Len(r) = Len(p) + Len(q)
  BY <1>1
<1>4. p \o q = r
  BY <1>2, <1>3, Concatenated
<1> QED
  BY <1>4 DEF p, q, r

LEMMA Join21 ==
    ASSUME NEW a \in Names, NEW b \in Names, NEW c \in Names
    PROVE  <<a, b>> \o <<c>> = <<a, b, c>>
<1> DEFINE p == <<a, b>>
           q == <<c>>
           r == <<a, b, c>>
<1>1. /\ Len(p) = 2 /\ Len(q) = 1 /\ Len(r) = 3
      /\ r[1] = p[1] /\ r[2] = p[2]
      /\ r[3] = q[1]
  OBVIOUS
<1>2. p \in Seq(Names) /\ q \in Seq(Names) /\ r \in Seq(Names)
  OBVIOUS
<1> HIDE DEF p, q, r
<1>3. /\ \A i \in 1 .. Len(p) : r[i] = p[i]
      /\ \A i \in 1 .. Len(q) : r[Len(p) + i] = q[i]
      /\ Len(r) = Len(p) + Len(q)
  BY <1>1
<1>4. p \o q = r
  BY <1>2, <1>3, Concatenated
<1> QED
  BY <1>4 DEF p, q, r

LEMMA Join22 ==
    ASSUME NEW a \in Names, NEW b \in Names, NEW c \in Names, NEW d \in Names
    PROVE  <<a, b>> \o <<c, d>> = <<a, b, c, d>>
<1> DEFINE p == <<a, b>>
           q == <<c, d>>
           r == <<a, b, c, d>>
<1>1. /\ Len(p) = 2 /\ Len(q) = 2 /\ Len(r) = 4
      /\ r[1] = p[1] /\ r[2] = p[2]
      /\ r[3] = q[1] /\ r[4] = q[2]
  OBVIOUS
<1>2. p \in Seq(Names) /\ q \in Seq(Names) /\ r \in Seq(Names)
  OBVIOUS
<1> HIDE DEF p, q, r
<1>3. /\ \A i \in 1 .. Len(p) : r[i] = p[i]
      /\ \A i \in 1 .. Len(q) : r[Len(p) + i] = q[i]
      /\ Len(r) = Len(p) + Len(q)
  BY <1>1
<1>4. p \o q = r
  BY <1>2, <1>3, Concatenated
<1> QED
  BY <1>4 DEF p, q, r

LEMMA Join32 ==
    ASSUME NEW a \in Names, NEW b \in Names, NEW c \in Names,
           NEW d \in Names, NEW e \in Names
    PROVE  <<a, b, c>> \o <<d, e>> = <<a, b, c, d, e>>
<1> DEFINE p == <<a, b, c>>
           q == <<d, e>>
           r == <<a, b, c, d, e>>
<1>1. /\ Len(p) = 3 /\ Len(q) = 2 /\ Len(r) = 5
      /\ r[1] = p[1] /\ r[2] = p[2] /\ r[3] = p[3]
      /\ r[4] = q[1] /\ r[5] = q[2]
  OBVIOUS
<1>2. p \in Seq(Names) /\ q \in Seq(Names) /\ r \in Seq(Names)
  OBVIOUS
<1> HIDE DEF p, q, r
<1>3. /\ \A i \in 1 .. Len(p) : r[i] = p[i]
      /\ \A i \in 1 .. Len(q) : r[Len(p) + i] = q[i]
      /\ Len(r) = Len(p) + Len(q)
  BY <1>1
<1>4. p \o q = r
  BY <1>2, <1>3, Concatenated
<1> QED
  BY <1>4 DEF p, q, r

LEMMA Join51 ==
    ASSUME NEW a \in Names, NEW b \in Names, NEW c \in Names,
           NEW d \in Names, NEW e \in Names, NEW f \in Names
    PROVE  <<a, b, c, d, e>> \o <<f>> = <<a, b, c, d, e, f>>
<1> DEFINE p == <<a, b, c, d, e>>
           q == <<f>>
           r == <<a, b, c, d, e, f>>
<1>1. /\ Len(p) = 5 /\ Len(q) = 1 /\ Len(r) = 6
      /\ r[1] = p[1] /\ r[2] = p[2] /\ r[3] = p[3] /\ r[4] = p[4] /\ r[5] = p[5]
      /\ r[6] = q[1]
  OBVIOUS
<1>2. p \in Seq(Names) /\ q \in Seq(Names) /\ r \in Seq(Names)
  OBVIOUS
<1> HIDE DEF p, q, r
<1>3. /\ \A i \in 1 .. Len(p) : r[i] = p[i]
      /\ \A i \in 1 .. Len(q) : r[Len(p) + i] = q[i]
      /\ Len(r) = Len(p) + Len(q)
  BY <1>1
<1>4. p \o q = r
  BY <1>2, <1>3, Concatenated
<1> QED
  BY <1>4 DEF p, q, r

LEMMA Joined ==
    /\ SaveRuntime = S2
    /\ SaveRuntime \o <<"activationSnapshot">> \o SaveRuntime \o <<"join">> = P6
    /\ SaveRuntime \o <<"join">> = P3
    /\ <<"appendUpdate">> \o SaveRuntime = U3
    /\ <<"process", "captureSnapshot">> \o SaveRuntime = D4
    /\ <<"appendUpdate", "captureSnapshot">> \o SaveRuntime = R4
    /\ <<"captureSnapshot">> \o S2 = C3
<1>1. /\ "saveRoom" \in Names /\ "saveFile" \in Names /\ "activationSnapshot" \in Names
      /\ "join" \in Names /\ "appendUpdate" \in Names /\ "captureSnapshot" \in Names
      /\ "process" \in Names
  BY DEF Names
<1>2. /\ SaveRuntime = <<"saveRoom", "saveFile">> /\ S2 = <<"saveRoom", "saveFile">>
  BY DEF SaveRuntime, S2
<1>3. <<"saveRoom", "saveFile">> \o <<"activationSnapshot">>
       = <<"saveRoom", "saveFile", "activationSnapshot">>
  BY <1>1, Join21, Zenon
<1>4. <<"saveRoom", "saveFile", "activationSnapshot">> \o <<"saveRoom", "saveFile">>
       = <<"saveRoom", "saveFile", "activationSnapshot", "saveRoom", "saveFile">>
  BY <1>1, Join32, SMT
<1>5. <<"saveRoom", "saveFile", "activationSnapshot", "saveRoom", "saveFile">> \o <<"join">>
       = <<"saveRoom", "saveFile", "activationSnapshot", "saveRoom", "saveFile", "join">>
  BY <1>1, Join51
<1>6. <<"saveRoom", "saveFile">> \o <<"join">>
       = <<"saveRoom", "saveFile", "join">>
  BY <1>1, Join21, Zenon
<1>7. <<"appendUpdate">> \o <<"saveRoom", "saveFile">>
       = <<"appendUpdate", "saveRoom", "saveFile">>
  BY <1>1, Join12, Zenon
<1>8. <<"captureSnapshot">> \o <<"saveRoom", "saveFile">>
       = <<"captureSnapshot", "saveRoom", "saveFile">>
  BY <1>1, Join12, Zenon
<1>9. <<"process", "captureSnapshot">> \o <<"saveRoom", "saveFile">>
       = <<"process", "captureSnapshot", "saveRoom", "saveFile">>
  <2>1. "process" \in Names /\ "captureSnapshot" \in Names
        /\ "saveRoom" \in Names /\ "saveFile" \in Names
    BY <1>1
  <2> QED
    BY <2>1, Join22, SMT
<1>10. <<"appendUpdate", "captureSnapshot">> \o <<"saveRoom", "saveFile">>
       = <<"appendUpdate", "captureSnapshot", "saveRoom", "saveFile">>
  <2>1. "appendUpdate" \in Names /\ "captureSnapshot" \in Names
        /\ "saveRoom" \in Names /\ "saveFile" \in Names
    BY <1>1
  <2> QED
    BY <2>1, Join22, SMT
<1> QED
  BY <1>2, <1>3, <1>4, <1>5, <1>6, <1>7, <1>8, <1>9, <1>10, Zenon DEF P6, P3, U3, D4, R4, C3

TodoInv ==
    \/ job.kind = "none" /\ todo = <<>>
    \/ job.kind = "promote" /\ todo \in {P6, P5, P4, P3, P2, P1}
    \/ job.kind = "update" /\ todo \in {U3, C3, S2, S1}
    \/ job.kind = "demote" /\ todo \in {D4, C3, S2, S1}
    \/ job.kind = "restore" /\ todo \in {R4, C3, S2, S1}
    \/ job.kind \in {"heartbeat", "delete"} /\ todo \in {S2, S1}

\* The row of the file has been read.
Reading == todo \in {P5, P2, S1}

\* The room has its new epoch, and the epoch no snapshot yet.
Opening == todo \in {P6, P5, P4}

\* What is left after each statement.
LEMMA GoneOn ==
    ASSUME TodoInv, todo # <<>>
    PROVE  /\ Head(todo) = "saveRoom" => /\ todo \in {P6, P3, S2}
                                         /\ todo = P6 => Tail(todo) = P5
                                         /\ todo = P3 => Tail(todo) = P2
                                         /\ todo = S2 => Tail(todo) = S1
           /\ Head(todo) = "saveFile" => /\ todo \in {P5, P2, S1}
                                         /\ todo = P5 => Tail(todo) = P4
                                         /\ todo = P2 => Tail(todo) = P1
                                         /\ todo = S1 => Tail(todo) = <<>>
           /\ Head(todo) = "captureSnapshot" => todo = C3 /\ Tail(todo) = S2
           /\ Head(todo) = "activationSnapshot" => todo = P4 /\ Tail(todo) = P3
           /\ Head(todo) = "appendUpdate" => /\ todo \in {U3, R4}
                                             /\ todo = U3 => Tail(todo) = S2
                                             /\ todo = R4 => Tail(todo) = C3
           /\ Head(todo) = "process" => todo = D4 /\ Tail(todo) = C3
           /\ Head(todo) = "join" => todo = P1 /\ Tail(todo) = <<>>
BY Sequences DEF TodoInv

-----------------------------------------------------------------------------
(***************************************************************************)
(* Types.  What nothing hangs on, the marks of a text and the clocks, is   *)
(* left open here; KnownInv has the marks.                                 *)
(***************************************************************************)
Leases == {"none", "live", "lapsed"}

Epochs == 0 .. MaxEpoch

RowOf(base) ==
    [epoch : Epochs, active : BOOLEAN, lease : Leases, base : {base}, nextSeq : Nat \ {0}]

RoomOf(base, snapshot) ==
    [epoch : Epochs, active : BOOLEAN, lease : Leases, base : {base}, nextSeq : Nat \ {0},
     snapshot : {snapshot}, open : BOOLEAN]

FileOf(text, vv) ==
    [text : {text}, vv : {vv}, deleted : BOOLEAN, renamed : BOOLEAN, conflict : BOOLEAN,
     lease : BOOLEAN]

RestoringOf(text, vv) ==
    [stage : {"none", "read", "processed"}, text : {text}, vv : {vv}]

RoomOK(r) == r \in RoomOf(r.base, r.snapshot)
FileOK(f) == f \in FileOf(f.text, f.vv)

TypeInv ==
    /\ TodoInv
    /\ RoomOK(room)
    /\ roomRow \in RowOf(roomRow.base)
    /\ FileOK(file) /\ FileOK(held)
    /\ restoring \in RestoringOf(restoring.text, restoring.vv)
    /\ DOMAIN snapshots = Epochs /\ snapshots = [e \in Epochs |-> snapshots[e]]
    /\ \A e \in Epochs : snapshots[e].through \in Nat
    /\ room.snapshot.through \in Nat
    /\ \A u \in updates : u.epoch \in Epochs /\ u.seq \in Nat \ {0}
    /\ \A a \in acked : a.epoch \in Epochs /\ a.seq \in Nat
    /\ typed \in 0 .. MaxUpdates /\ ops \in Nat /\ faults \in Nat
    /\ deleting \in BOOLEAN

LEMMA Bounds ==
    /\ MaxEpoch \in Nat /\ MaxUpdates \in Nat /\ MaxOps \in Nat /\ MaxRestores \in Nat
    /\ MaxFaults \in Nat
BY RoomsAssumption

\* What is kept of a room that changes in some columns.
LEMMA RoomFields ==
    ASSUME NEW r, RoomOK(r)
    PROVE  /\ r.epoch \in Epochs /\ r.epoch \in Nat /\ r.active \in BOOLEAN
           /\ r.lease \in Leases /\ r.nextSeq \in Nat \ {0} /\ r.open \in BOOLEAN
           /\ r = [epoch |-> r.epoch, active |-> r.active, lease |-> r.lease, base |-> r.base,
                   nextSeq |-> r.nextSeq, snapshot |-> r.snapshot, open |-> r.open]
BY Bounds DEF RoomOK, RoomOf, Epochs

LEMMA MakeRoom ==
    ASSUME NEW epoch \in Epochs, NEW active \in BOOLEAN, NEW lease \in Leases, NEW base,
           NEW nextSeq \in Nat \ {0}, NEW snapshot, NEW open \in BOOLEAN
    PROVE  RoomOK([epoch |-> epoch, active |-> active, lease |-> lease, base |-> base,
                   nextSeq |-> nextSeq, snapshot |-> snapshot, open |-> open])
BY DEF RoomOK, RoomOf

LEMMA FileFields ==
    ASSUME NEW f, FileOK(f)
    PROVE  /\ f.deleted \in BOOLEAN /\ f.renamed \in BOOLEAN /\ f.conflict \in BOOLEAN
           /\ f.lease \in BOOLEAN
           /\ f = [text |-> f.text, vv |-> f.vv, deleted |-> f.deleted, renamed |-> f.renamed,
                   conflict |-> f.conflict, lease |-> f.lease]
BY DEF FileOK, FileOf

LEMMA MakeFile ==
    ASSUME NEW text, NEW vv, NEW deleted \in BOOLEAN, NEW renamed \in BOOLEAN,
           NEW conflict \in BOOLEAN, NEW lease \in BOOLEAN
    PROVE  FileOK([text |-> text, vv |-> vv, deleted |-> deleted, renamed |-> renamed,
                   conflict |-> conflict, lease |-> lease])
BY DEF FileOK, FileOf

LEMMA NewFileOK == FileOK(NewFile) /\ NewFile.deleted = FALSE /\ NewFile.text = {0}
                   /\ NewFile.lease = FALSE
BY DEF NewFile, FileOK, FileOf

\* What an operation on the content leaves of the row.
LEMMA UpdatedFields ==
    ASSUME FileOK(file), NEW text, NEW vv
    PROVE  LET u == Updated(text, vv)
           IN  /\ FileOK(u) /\ u.lease = file.lease
               /\ u.deleted = file.deleted \/ u.deleted = FALSE
               /\ u.text \in {text, file.text}
               /\ u.conflict = FALSE => u.text = text
<1> DEFINE u == Updated(text, vv)
<1>1. /\ file.deleted \in BOOLEAN /\ file.renamed \in BOOLEAN /\ file.conflict \in BOOLEAN
      /\ file.lease \in BOOLEAN
  BY FileFields
<1>2. CASE Dominates(vv, file.vv)
  <2>1. u = [text |-> text, vv |-> vv, deleted |-> FALSE, renamed |-> file.renamed,
             conflict |-> file.conflict, lease |-> file.lease]
    BY <1>2 DEF Updated, FileOK, FileOf
  <2> HIDE DEF u
  <2>2. u.text = text /\ u.lease = file.lease /\ u.deleted = FALSE
    BY <2>1
  <2>3. FileOK(u)
    BY <1>1, <2>1, MakeFile
  <2> QED
    BY <2>2, <2>3 DEF u
<1>3. CASE ~Dominates(vv, file.vv)
  <2>1. u = [text |-> file.text, vv |-> file.vv, deleted |-> file.deleted,
             renamed |-> file.renamed, conflict |-> TRUE, lease |-> file.lease]
    BY <1>3 DEF Updated, FileOK, FileOf
  <2> HIDE DEF u
  <2>2. u.text = file.text /\ u.lease = file.lease /\ u.deleted = file.deleted /\ u.conflict = TRUE
    BY <2>1
  <2>3. FileOK(u)
    BY <1>1, <2>1, MakeFile
  <2> QED
    BY <2>2, <2>3 DEF u
<1> QED
  BY <1>2, <1>3

-----------------------------------------------------------------------------
(***************************************************************************)
(* What each step does to what the invariants speak of.                    *)
(***************************************************************************)
\* How far the handler gets: job stays until the last statement is done.
Moves(from, to) ==
    /\ todo = from /\ todo' = to
    /\ to # <<>> => job' = job
    /\ to = <<>> => job' = Idle

Starts(kind, to) == todo = <<>> /\ todo' = to /\ job'.kind = kind

LEMMA IdleJob == Idle.kind = "none" /\ Idle.update = EmptyDoc
BY DEF Idle

\* The statement that comes, and the way on from it.
LEMMA GoOnMoves ==
    ASSUME TypeInv, NEW s, Comes(s), GoOn
    PROVE  /\ s = "saveRoom" => Moves(P6, P5) \/ Moves(P3, P2) \/ Moves(S2, S1)
           /\ s = "saveFile" => Moves(P5, P4) \/ Moves(P2, P1) \/ Moves(S1, <<>>)
           /\ s = "captureSnapshot" => Moves(C3, S2)
           /\ s = "activationSnapshot" => Moves(P4, P3)
           /\ s = "process" => Moves(D4, C3)
           /\ s = "join" => Moves(P1, <<>>)
<1>1. /\ todo # <<>> /\ Head(todo) = s /\ todo' = Tail(todo)
      /\ todo' # <<>> => job' = job
      /\ todo' = <<>> => job' = Idle
  BY DEF Comes, GoOn, Go
<1> QED
  BY <1>1, GoneOn DEF Moves, TypeInv

LEMMA FileOpEffect ==
    ASSUME TypeInv, FileOp
    PROVE  /\ FileOK(file') /\ file'.lease = file.lease
           /\ file'.text \subseteq file.text \cup {m \in Nat : m > MaxUpdates}
           /\ file'.deleted = file.deleted \/ file'.deleted = FALSE \/ deleting'
           /\ deleting' \in BOOLEAN /\ (deleting => deleting') /\ ops' \in Nat
           /\ UNCHANGED <<roomRow, snapshots, updates, history, room, doc, job, todo, held,
                          restoring, acked, typed, faults>>
<1>1. /\ ops' = ops + 1 /\ ops \in Nat /\ MaxUpdates \in Nat /\ FileOK(file)
      /\ deleting \in BOOLEAN
      /\ UNCHANGED <<roomRow, snapshots, updates, history, room, doc, job, todo, held,
                     restoring, acked, typed, faults>>
  BY Bounds DEF TypeInv, FileOp, store, lock
<1>2. CASE UpdateByOp
  <2>1. file' = Updated(file.text \cup {MaxUpdates + ops + 1}, Bump(file.vv, Editor))
        /\ deleting' = deleting
    BY <1>2 DEF UpdateByOp
  <2>2. MaxUpdates + ops + 1 \in Nat /\ MaxUpdates + ops + 1 > MaxUpdates
    BY <1>1
  <2>3. /\ FileOK(file') /\ file'.lease = file.lease
        /\ file'.deleted = file.deleted \/ file'.deleted = FALSE
        /\ file'.text \in {file.text \cup {MaxUpdates + ops + 1}, file.text}
    BY <1>1, <2>1, UpdatedFields, Zenon
  <2>4. file'.text \subseteq file.text \cup {m \in Nat : m > MaxUpdates}
    BY <2>2, <2>3
  <2>5. deleting' \in BOOLEAN /\ (deleting => deleting') /\ ops' \in Nat
    BY <1>1, <2>1
  <2> QED
    BY <1>1, <2>3, <2>4, <2>5
<1>3. CASE RenameByOp
  <2>1. /\ file' = [text |-> file.text, vv |-> file.vv, deleted |-> file.deleted,
                    renamed |-> ~file.renamed, conflict |-> file.conflict,
                    lease |-> file.lease]
        /\ deleting' = deleting
    BY <1>1, <1>3 DEF RenameByOp, FileOK, FileOf
  <2>2. (~file.renamed) \in BOOLEAN
    OBVIOUS
  <2>3. FileOK(file')
    BY <1>1, <2>1, <2>2, FileFields, MakeFile, Zenon
  <2>4. file'.lease = file.lease /\ file'.text = file.text /\ file'.deleted = file.deleted
    BY <2>1
  <2> QED
    BY <1>1, <2>1, <2>3, <2>4
<1>4. CASE DeleteByOp
  <2>1. /\ file' = [text |-> file.text, vv |-> file.vv, deleted |-> TRUE,
                    renamed |-> file.renamed, conflict |-> file.conflict,
                    lease |-> file.lease]
        /\ deleting' = TRUE
    BY <1>1, <1>4 DEF DeleteByOp, FileOK, FileOf
  <2>2. TRUE \in BOOLEAN
    OBVIOUS
  <2>3. FileOK(file')
    BY <1>1, <2>1, <2>2, FileFields, MakeFile, Zenon
  <2>4. file'.lease = file.lease /\ file'.text = file.text
    BY <2>1
  <2> QED
    BY <1>1, <2>1, <2>3, <2>4
<1> QED
  BY <1>2, <1>3, <1>4 DEF FileOp

LEMMA SaveRoomEffect ==
    ASSUME TypeInv, SaveRoom
    PROVE  /\ Moves(P6, P5) \/ Moves(P3, P2) \/ Moves(S2, S1)
           /\ held' = file /\ roomRow' \in RowOf(roomRow'.base)
           /\ roomRow'.epoch = room.epoch /\ roomRow'.nextSeq = room.nextSeq
           /\ roomRow'.active = room.active /\ roomRow'.lease = room.lease
           /\ UNCHANGED <<file, snapshots, updates, history, room, doc, restoring, acked,
                          typed, ops, faults, deleting>>
<1>1. /\ Comes("saveRoom") /\ GoOn /\ held' = file
      /\ roomRow' = [epoch |-> room.epoch, active |-> room.active, lease |-> room.lease,
                     base |-> room.base, nextSeq |-> room.nextSeq]
      /\ UNCHANGED <<file, snapshots, updates, history, room, doc, restoring, acked,
                     typed, ops, faults, deleting>>
  BY DEF SaveRoom, Persisted, fileVars, counters, timers
<1>2. roomRow' \in RowOf(roomRow'.base)
  BY <1>1, RoomFields DEF RowOf, TypeInv
<1> QED
  BY <1>1, <1>2, GoOnMoves

LEMMA SaveFileEffect ==
    ASSUME TypeInv, SaveFile
    PROVE  /\ Moves(P5, P4) \/ Moves(P2, P1) \/ Moves(S1, <<>>)
           /\ FileOK(file') /\ file'.lease = (room.active /\ room.lease = "live")
           /\ file'.text = held.text /\ file'.deleted = held.deleted
           /\ held' = NewFile /\ acked' = Answered
           /\ RoomOK(room') /\ room'.epoch = room.epoch /\ room'.active = room.active
           /\ room'.lease = room.lease /\ room'.nextSeq = room.nextSeq
           /\ room'.snapshot = room.snapshot
           /\ UNCHANGED <<roomRow, snapshots, updates, history, doc, restoring, typed, ops,
                          faults, deleting>>
<1>1. /\ Comes("saveFile") /\ GoOn /\ held' = NewFile /\ acked' = Answered
      /\ file' = RowToSave /\ Finish
      /\ UNCHANGED <<roomRow, snapshots, updates, history, doc, restoring, typed, ops,
                     faults, deleting>>
  BY DEF SaveFile, store, counters, timers
<1>2. /\ FileOK(file') /\ file'.lease = (room.active /\ room.lease = "live")
      /\ file'.text = held.text /\ file'.deleted = held.deleted
  <2>1. file' = [text |-> held.text, vv |-> held.vv, deleted |-> held.deleted,
                 renamed |-> held.renamed, conflict |-> held.conflict,
                 lease |-> room.active /\ room.lease = "live"]
    BY <1>1 DEF RowToSave, TypeInv, FileOK, FileOf
  <2>2. /\ held.deleted \in BOOLEAN /\ held.renamed \in BOOLEAN /\ held.conflict \in BOOLEAN
        /\ (room.active /\ room.lease = "live") \in BOOLEAN
    BY FileFields DEF TypeInv
  <2>3. FileOK([text |-> held.text, vv |-> held.vv, deleted |-> held.deleted,
                renamed |-> held.renamed, conflict |-> held.conflict,
                lease |-> room.active /\ room.lease = "live"])
    BY <2>2, MakeFile
  <2>4. FileOK(file')
    BY <2>1, <2>3, Zenon
  <2>5. /\ file'.lease = (room.active /\ room.lease = "live")
        /\ file'.text = held.text /\ file'.deleted = held.deleted
    BY <2>1
  <2> QED
    BY <2>4, <2>5
<1>3. /\ RoomOK(room') /\ room'.epoch = room.epoch /\ room'.active = room.active
      /\ room'.lease = room.lease /\ room'.nextSeq = room.nextSeq
      /\ room'.snapshot = room.snapshot
  <2>1. CASE room' = room
    BY <2>1 DEF TypeInv
  <2>2. CASE room' = [room EXCEPT !.open = FALSE]
    <3>1. RoomOK(room)
      BY DEF TypeInv
    <3>2. room' = [epoch |-> room.epoch, active |-> room.active, lease |-> room.lease,
                   base |-> room.base, nextSeq |-> room.nextSeq, snapshot |-> room.snapshot,
                   open |-> FALSE]
      BY <2>2, <3>1 DEF RoomOK, RoomOf
    <3> QED
      BY <3>1, <3>2, RoomFields, MakeRoom
  <2> QED
    BY <1>1, <2>1, <2>2 DEF Finish
<1> QED
  BY <1>1, <1>2, <1>3, GoOnMoves

LEMMA CaptureSnapshotEffect ==
    ASSUME TypeInv, CaptureSnapshot
    PROVE  /\ Moves(C3, S2) /\ StoreSnapshot(Captured)
           /\ RoomOK(room') /\ room'.epoch = room.epoch /\ room'.nextSeq = room.nextSeq
           /\ room'.snapshot = Captured
           /\ room'.active => room.active
           /\ UNCHANGED <<file, roomRow, updates, doc, held, restoring, acked, typed, ops,
                          faults, deleting>>
<1>1. /\ Comes("captureSnapshot") /\ GoOn /\ StoreSnapshot(Captured)
      /\ room' = IF job.kind = "demote"
                 THEN [room EXCEPT !.snapshot = Captured, !.active = FALSE, !.lease = "none"]
                 ELSE [room EXCEPT !.snapshot = Captured]
      /\ UNCHANGED <<file, roomRow, updates, doc, held, restoring, acked, typed, ops,
                     faults, deleting>>
  BY DEF CaptureSnapshot, fileVars, counters, timers
<1>2. RoomOK(room)
  BY DEF TypeInv
<1>3. CASE job.kind = "demote"
  <2>1. room' = [epoch |-> room.epoch, active |-> FALSE, lease |-> "none", base |-> room.base,
                 nextSeq |-> room.nextSeq, snapshot |-> Captured, open |-> room.open]
    BY <1>1, <1>2, <1>3 DEF RoomOK, RoomOf
  <2>2. RoomOK(room')
    <3>1. FALSE \in BOOLEAN /\ "none" \in Leases
      BY DEF Leases
    <3> QED
      BY <1>2, <2>1, <3>1, RoomFields, MakeRoom, Zenon
  <2>3. /\ room'.epoch = room.epoch /\ room'.nextSeq = room.nextSeq
        /\ room'.snapshot = Captured /\ ~room'.active
    BY <2>1
  <2> QED
    BY <1>1, <2>2, <2>3, GoOnMoves
<1>4. CASE job.kind # "demote"
  <2>1. room' = [epoch |-> room.epoch, active |-> room.active, lease |-> room.lease,
                 base |-> room.base, nextSeq |-> room.nextSeq, snapshot |-> Captured,
                 open |-> room.open]
    BY <1>1, <1>2, <1>4 DEF RoomOK, RoomOf
  <2>2. RoomOK(room')
    BY <1>2, <2>1, RoomFields, MakeRoom, Zenon
  <2>3. /\ room'.epoch = room.epoch /\ room'.nextSeq = room.nextSeq
        /\ room'.snapshot = Captured /\ room'.active = room.active
    BY <2>1
  <2> QED
    BY <1>1, <2>2, <2>3, GoOnMoves
<1> QED
  BY <1>3, <1>4

LEMMA ActivationSnapshotEffect ==
    ASSUME TypeInv, ActivationSnapshot
    PROVE  /\ Moves(P4, P3) /\ StoreSnapshot(room.snapshot)
           /\ RoomOK(room') /\ room'.epoch = room.epoch /\ room'.nextSeq = room.nextSeq
           /\ room'.snapshot = room.snapshot /\ room'.active = room.active
           /\ UNCHANGED <<file, roomRow, updates, doc, held, restoring, acked, typed, ops,
                          faults, deleting>>
<1>1. /\ Comes("activationSnapshot") /\ GoOn /\ StoreSnapshot(room.snapshot)
      /\ room' = [room EXCEPT !.open = TRUE, !.lease = "live"]
      /\ UNCHANGED <<file, roomRow, updates, doc, held, restoring, acked, typed, ops,
                     faults, deleting>>
  BY DEF ActivationSnapshot, fileVars, counters
<1>2. RoomOK(room)
  BY DEF TypeInv
<1>3. room' = [epoch |-> room.epoch, active |-> room.active, lease |-> "live",
               base |-> room.base, nextSeq |-> room.nextSeq, snapshot |-> room.snapshot,
               open |-> TRUE]
  BY <1>1, <1>2 DEF RoomOK, RoomOf
<1>4. RoomOK(room')
  <2>1. TRUE \in BOOLEAN /\ "live" \in Leases
    BY DEF Leases
  <2> QED
    BY <1>2, <1>3, <2>1, RoomFields, MakeRoom, Zenon
<1>5. /\ room'.epoch = room.epoch /\ room'.nextSeq = room.nextSeq
      /\ room'.snapshot = room.snapshot /\ room'.active = room.active
  BY <1>3
<1> QED
  BY <1>1, <1>4, <1>5, GoOnMoves

LEMMA AppendUpdateEffect ==
    ASSUME TypeInv, AppendUpdate
    PROVE  /\ \/ Moves(U3, S2) /\ job.kind = "update"
              \/ Moves(U3, C3) /\ job.kind = "update"
              \/ Moves(R4, C3) /\ job.kind = "restore"
           /\ updates' = Stored(job.update) /\ doc' = Merged(doc, job.update)
           /\ RoomOK(room') /\ room'.epoch = room.epoch /\ room'.nextSeq = room.nextSeq + 1
           /\ room'.snapshot = room.snapshot /\ room'.active = room.active
           /\ UNCHANGED <<file, roomRow, snapshots, history, held, restoring, acked, typed,
                          ops, faults, deleting>>
<1>1. /\ Comes("appendUpdate")
      /\ updates' = Stored(job.update) /\ doc' = Merged(doc, job.update)
      /\ room' = [room EXCEPT !.nextSeq = @ + 1,
                              !.lease = IF job.kind = "update" THEN "live" ELSE @]
      /\ Go(IF job.kind = "update" /\ Cadence
            THEN <<"captureSnapshot">> \o Tail(todo) ELSE Tail(todo))
      /\ UNCHANGED <<file, roomRow, snapshots, history, held, restoring, acked, typed,
                     ops, faults, deleting>>
  BY DEF AppendUpdate, fileVars, counters, timers
<1>2. /\ RoomOK(room) /\ room.nextSeq \in Nat \ {0} /\ room.nextSeq + 1 \in Nat \ {0}
      /\ room.lease \in Leases
  BY RoomFields DEF TypeInv
<1>3. PICK lease \in Leases :
        room' = [epoch |-> room.epoch, active |-> room.active, lease |-> lease,
                 base |-> room.base, nextSeq |-> room.nextSeq + 1, snapshot |-> room.snapshot,
                 open |-> room.open]
  <2>1. CASE job.kind = "update"
    <3>1. room' = [epoch |-> room.epoch, active |-> room.active, lease |-> "live",
                   base |-> room.base, nextSeq |-> room.nextSeq + 1,
                   snapshot |-> room.snapshot, open |-> room.open]
      BY <1>1, <1>2, <2>1 DEF RoomOK, RoomOf
    <3> QED
      BY <3>1 DEF Leases
  <2>2. CASE job.kind # "update"
    <3>1. room' = [epoch |-> room.epoch, active |-> room.active, lease |-> room.lease,
                   base |-> room.base, nextSeq |-> room.nextSeq + 1,
                   snapshot |-> room.snapshot, open |-> room.open]
      BY <1>1, <1>2, <2>2 DEF RoomOK, RoomOf
    <3> QED
      BY <1>2, <3>1
  <2> QED
    BY <2>1, <2>2
<1>4. RoomOK(room')
  BY <1>2, <1>3, RoomFields, MakeRoom, Zenon
<1>5. /\ room'.epoch = room.epoch /\ room'.nextSeq = room.nextSeq + 1
      /\ room'.snapshot = room.snapshot /\ room'.active = room.active
  BY <1>3
<1>6. /\ todo # <<>> /\ Head(todo) = "appendUpdate"
      /\ todo = U3 => Tail(todo) = S2 /\ <<"captureSnapshot">> \o Tail(todo) = C3
      /\ todo = R4 => Tail(todo) = C3
      /\ (todo = U3 /\ job.kind = "update") \/ (todo = R4 /\ job.kind = "restore")
  <2>1. todo # <<>> /\ Head(todo) = "appendUpdate" /\ TodoInv
    BY <1>1 DEF Comes, TypeInv
  <2>2. /\ todo \in {U3, R4}
        /\ todo = U3 => Tail(todo) = S2
        /\ todo = R4 => Tail(todo) = C3
    BY <2>1, GoneOn
  <2>3. todo = U3 => <<"captureSnapshot">> \o Tail(todo) = C3
    BY <2>2, Joined
  <2>4. (todo = U3 /\ job.kind = "update") \/ (todo = R4 /\ job.kind = "restore")
    BY <2>1, <2>2, Different DEF TodoInv
  <2> QED
    BY <2>1, <2>2, <2>3, <2>4
<1>7. \/ Moves(U3, S2) /\ job.kind = "update"
      \/ Moves(U3, C3) /\ job.kind = "update"
      \/ Moves(R4, C3) /\ job.kind = "restore"
  <2>1. CASE todo = U3 /\ job.kind = "update"
    BY <1>1, <1>6, <2>1, Different DEF Go, Moves
  <2>2. CASE todo = R4 /\ job.kind = "restore"
    BY <1>1, <1>6, <2>2, Different DEF Go, Moves
  <2> QED
    BY <1>6, <2>1, <2>2
<1> QED
  BY <1>1, <1>4, <1>5, <1>7

LEMMA FlushEffect ==
    ASSUME TypeInv, Flush
    PROVE  /\ Moves(D4, C3)
           /\ FileOK(file') /\ file'.lease = file.lease
           /\ file'.deleted = file.deleted \/ file'.deleted = FALSE
           /\ file'.text \in {FlushText, file.text}
           /\ flushed' # flushed /\ file'.conflict = FALSE => file'.text = FlushText
           /\ UNCHANGED <<roomRow, snapshots, updates, history, room, doc, held, restoring,
                          acked, typed, ops, faults, deleting>>
<1>1. /\ Comes("process") /\ GoOn
      /\ UNCHANGED <<roomRow, snapshots, updates, history, room, doc, held, restoring,
                     acked, typed, ops, faults, deleting>>
  BY DEF Flush, store, counters, timers
<1>2. Moves(D4, C3)
  BY <1>1, GoOnMoves
<1>3. FileOK(file)
  BY DEF TypeInv
<1>4. CASE UNCHANGED <<file, flushed>>
  BY <1>1, <1>2, <1>3, <1>4
<1>5. CASE file' = Updated(FlushText, FlushVV)
  <2>1. /\ FileOK(file') /\ file'.lease = file.lease
        /\ file'.text \in {FlushText, file.text}
    BY <1>3, <1>5, UpdatedFields, Zenon
  <2>2. file'.deleted = file.deleted \/ file'.deleted = FALSE
    BY <1>3, <1>5, UpdatedFields, Zenon
  <2>3. file'.conflict = FALSE => file'.text = FlushText
    BY <1>3, <1>5, UpdatedFields, Zenon
  <2> QED
    BY <1>1, <1>2, <2>1, <2>2, <2>3
<1> QED
  BY <1>4, <1>5 DEF Flush, fileVars

LEMMA FlushRefusedEffect ==
    ASSUME TypeInv, FlushRefused
    PROVE  /\ Moves(D4, <<>>)
           /\ UNCHANGED <<file, roomRow, snapshots, updates, history, room, doc, held,
                          restoring, acked, typed, ops, faults, deleting>>
<1>1. /\ Comes("process") /\ Go(<<>>)
      /\ UNCHANGED <<file, roomRow, snapshots, updates, history, room, doc, held,
                     restoring, acked, typed, ops, faults, deleting>>
  BY DEF FlushRefused, fileVars, store, counters, timers
<1>2. todo = D4
  BY <1>1, GoneOn DEF Comes, TypeInv
<1> QED
  BY <1>1, <1>2 DEF Go, Moves

LEMMA JoinRoomEffect ==
    ASSUME TypeInv, JoinRoom
    PROVE  /\ Moves(P1, <<>>)
           /\ UNCHANGED <<file, roomRow, snapshots, updates, history, room, doc, held,
                          restoring, acked, typed, ops, faults, deleting>>
<1>1. /\ Comes("join") /\ GoOn
      /\ UNCHANGED <<file, roomRow, snapshots, updates, history, room, doc, held,
                     restoring, acked, typed, ops, faults, deleting>>
  BY DEF JoinRoom, fileVars, store, counters, timers
<1> QED
  BY <1>1, GoOnMoves

\* The ways into a handler.
LEMMA PromoteClosedEffect ==
    ASSUME TypeInv, NEW d \in Device, PromoteClosed(d)
    PROVE  /\ Starts("promote", P6) /\ ~file.deleted
           /\ doc' = FirstDoc
           /\ RoomOK(room') /\ room'.epoch = room.epoch + 1 /\ room'.nextSeq = 1
           /\ room'.snapshot = SnapshotOf(doc', 0)
           /\ UNCHANGED <<file, roomRow, snapshots, updates, history, held, restoring, acked,
                          typed, ops, faults, deleting>>
<1>1. /\ ~file.deleted /\ room.epoch < MaxEpoch /\ doc' = FirstDoc /\ todo = <<>>
      /\ room' = [epoch |-> room.epoch + 1, active |-> TRUE, lease |-> "live",
                  base |-> file.vv, nextSeq |-> 1, snapshot |-> SnapshotOf(FirstDoc, 0),
                  open |-> room.open]
      /\ job' = [Idle EXCEPT !.kind = "promote", !.device = d, !.vv = file.vv]
      /\ todo' = SaveRuntime \o <<"activationSnapshot">> \o SaveRuntime \o <<"join">>
      /\ UNCHANGED <<file, roomRow, snapshots, updates, history, held, restoring, acked,
                     typed, ops, faults, deleting>>
  BY DEF PromoteClosed, Free, fileVars, store, timers, counters
<1>2. todo' = P6 /\ job'.kind = "promote"
  BY <1>1, Joined DEF Idle
<1>3. /\ room.epoch + 1 \in Epochs /\ TRUE \in BOOLEAN /\ "live" \in Leases /\ 1 \in Nat \ {0}
      /\ room.open \in BOOLEAN
  BY <1>1, Bounds, RoomFields DEF TypeInv, Epochs, Leases
<1>4. RoomOK(room')
  BY <1>1, <1>3, MakeRoom, Zenon
<1>5. room'.epoch = room.epoch + 1 /\ room'.nextSeq = 1 /\ room'.snapshot = SnapshotOf(doc', 0)
  BY <1>1
<1> QED
  BY <1>1, <1>2, <1>4, <1>5 DEF Starts

LEMMA PromoteOpenEffect ==
    ASSUME TypeInv, NEW d \in Device, PromoteOpen(d)
    PROVE  /\ Starts("promote", P3)
           /\ RoomOK(room') /\ room'.epoch = room.epoch /\ room'.nextSeq = room.nextSeq
           /\ room'.snapshot = room.snapshot /\ room'.active = room.active
           /\ UNCHANGED <<file, roomRow, snapshots, updates, history, doc, held, restoring,
                          acked, typed, ops, faults, deleting>>
<1>1. /\ room' = [room EXCEPT !.lease = "live"] /\ todo = <<>>
      /\ job' = [Idle EXCEPT !.kind = "promote", !.device = d, !.vv = file.vv]
      /\ todo' = SaveRuntime \o <<"join">>
      /\ UNCHANGED <<file, roomRow, snapshots, updates, history, doc, held, restoring, acked,
                     typed, ops, faults, deleting>>
  BY DEF PromoteOpen, Free, fileVars, store, counters
<1>2. todo' = P3 /\ job'.kind = "promote"
  BY <1>1, Joined DEF Idle
<1>3. RoomOK(room) /\ "live" \in Leases
  BY DEF TypeInv, Leases
<1>4. room' = [epoch |-> room.epoch, active |-> room.active, lease |-> "live",
               base |-> room.base, nextSeq |-> room.nextSeq, snapshot |-> room.snapshot,
               open |-> room.open]
  BY <1>1, <1>3 DEF RoomOK, RoomOf
<1>5. RoomOK(room')
  BY <1>3, <1>4, RoomFields, MakeRoom, Zenon
<1>6. /\ room'.epoch = room.epoch /\ room'.nextSeq = room.nextSeq
      /\ room'.snapshot = room.snapshot /\ room'.active = room.active
  BY <1>4
<1> QED
  BY <1>1, <1>2, <1>5, <1>6 DEF Starts

LEMMA HeartbeatEffect ==
    ASSUME TypeInv, NEW d \in Device, Heartbeat(d)
    PROVE  /\ Starts("heartbeat", S2)
           /\ RoomOK(room') /\ room'.epoch = room.epoch /\ room'.nextSeq = room.nextSeq
           /\ room'.snapshot = room.snapshot /\ room'.active = room.active
           /\ UNCHANGED <<file, roomRow, snapshots, updates, history, doc, held, restoring,
                          acked, typed, ops, faults, deleting>>
<1>1. /\ room' = [room EXCEPT !.lease = "live"] /\ todo = <<>>
      /\ job' = [Idle EXCEPT !.kind = "heartbeat"] /\ todo' = SaveRuntime
      /\ UNCHANGED <<file, roomRow, snapshots, updates, history, doc, held, restoring, acked,
                     typed, ops, faults, deleting>>
  BY DEF Heartbeat, Begin, Free, fileVars, store, timers, counters
<1>2. todo' = S2 /\ job'.kind = "heartbeat"
  BY <1>1, Joined DEF Idle
<1>3. RoomOK(room) /\ "live" \in Leases
  BY DEF TypeInv, Leases
<1>4. room' = [epoch |-> room.epoch, active |-> room.active, lease |-> "live",
               base |-> room.base, nextSeq |-> room.nextSeq, snapshot |-> room.snapshot,
               open |-> room.open]
  BY <1>1, <1>3 DEF RoomOK, RoomOf
<1>5. RoomOK(room')
  BY <1>3, <1>4, RoomFields, MakeRoom, Zenon
<1>6. /\ room'.epoch = room.epoch /\ room'.nextSeq = room.nextSeq
      /\ room'.snapshot = room.snapshot /\ room'.active = room.active
  BY <1>4
<1> QED
  BY <1>1, <1>2, <1>5, <1>6 DEF Starts

LEMMA HandleUpdateEffect ==
    ASSUME TypeInv, NEW d \in Device, HandleUpdate(d)
    PROVE  /\ Starts("update", U3)
           /\ typed' = typed + 1 /\ typed' \in 0 .. MaxUpdates
           /\ job'.update = Inserted({typed + 1}, "typed", 0)
           /\ UNCHANGED <<file, roomRow, snapshots, updates, history, room, doc, held,
                          restoring, acked, ops, faults, deleting>>
<1>1. /\ typed' = typed + 1 /\ typed < MaxUpdates /\ todo = <<>>
      /\ job' = [Idle EXCEPT !.kind = "update", !.update = Inserted({typed + 1}, "typed", 0)]
      /\ todo' = <<"appendUpdate">> \o SaveRuntime
      /\ UNCHANGED <<file, roomRow, snapshots, updates, history, room, doc, held, restoring,
                     acked, ops, faults, deleting>>
  BY DEF HandleUpdate, Free, fileVars, store, timers
<1>2. /\ todo' = U3 /\ job'.kind = "update"
      /\ job'.update = Inserted({typed + 1}, "typed", 0)
  BY <1>1, Joined DEF Idle
<1>3. typed' \in 0 .. MaxUpdates
  BY <1>1, Bounds DEF TypeInv
<1> QED
  BY <1>1, <1>2, <1>3 DEF Starts

\* Leave and TimerFires change nothing but the members and the timers.
LEMMA LeaveEffect ==
    ASSUME (\E d \in Device : Leave(d)) \/ TimerFires
    PROVE  UNCHANGED <<file, flushed, roomRow, snapshots, updates, history, room, doc, job,
                       todo, held, restoring, acked, typed, ops, faults, deleting>>
BY DEF Leave, TimerFires, fileVars, store, lock, counters

LEMMA DemoteEffect ==
    ASSUME CloseEmpty \/ Demote
    PROVE  /\ UNCHANGED <<job, todo>> \/ Starts("demote", D4)
           /\ UNCHANGED <<file, flushed, roomRow, snapshots, updates, history, room, doc,
                          held, restoring, acked, typed, ops, faults, deleting>>
<1>1. /\ UNCHANGED <<job, todo>> \/ DemoteLocked
      /\ UNCHANGED <<file, flushed, roomRow, snapshots, updates, history, room, doc,
                     held, restoring, acked, typed, ops, faults, deleting>>
  BY DEF CloseEmpty, Demote, fileVars, store, counters, timers
<1>2. ASSUME DemoteLocked
      PROVE  Starts("demote", D4)
  <2>1. /\ todo = <<>> /\ job' = [Idle EXCEPT !.kind = "demote"]
        /\ todo' = <<"process", "captureSnapshot">> \o SaveRuntime
    BY <1>2 DEF DemoteLocked, Begin, Free
  <2> QED
    BY <2>1, Joined DEF Idle, Starts
<1> QED
  BY <1>1, <1>2

LEMMA CloseDeletedEffect ==
    ASSUME TypeInv, CloseDeleted
    PROVE  /\ deleting' = FALSE /\ room'.active = FALSE
           /\ \/ Starts("delete", S2)
              \/ UNCHANGED <<room, job, todo>>
           /\ RoomOK(room') /\ room'.epoch = room.epoch /\ room'.nextSeq = room.nextSeq
           /\ room'.snapshot = room.snapshot
           /\ UNCHANGED <<file, flushed, roomRow, snapshots, updates, history, doc,
                          held, restoring, acked, typed, ops, faults>>
<1>1. /\ deleting' = FALSE /\ RoomOK(room) /\ room.active \in BOOLEAN
      /\ IF room.active
         THEN /\ room' = [room EXCEPT !.active = FALSE, !.lease = "none"]
              /\ Begin("delete", SaveRuntime)
         ELSE UNCHANGED <<room, job, todo>>
      /\ UNCHANGED <<file, flushed, roomRow, snapshots, updates, history, doc,
                     held, restoring, acked, typed, ops, faults>>
  BY RoomFields DEF CloseDeleted, ClosesDeleted, TypeInv, fileVars, store, counters
<1>2. CASE room.active
  <2>1. room' = [epoch |-> room.epoch, active |-> FALSE, lease |-> "none",
                 base |-> room.base, nextSeq |-> room.nextSeq, snapshot |-> room.snapshot,
                 open |-> room.open]
    BY <1>1, <1>2 DEF RoomOK, RoomOf
  <2>2. RoomOK(room')
    <3>1. FALSE \in BOOLEAN /\ "none" \in Leases
      BY DEF Leases
    <3> QED
      BY <1>1, <2>1, <3>1, RoomFields, MakeRoom, Zenon
  <2>3. Starts("delete", S2)
    <3>1. todo = <<>> /\ job' = [Idle EXCEPT !.kind = "delete"] /\ todo' = SaveRuntime
      BY <1>1, <1>2 DEF Begin, Free
    <3> QED
      BY <3>1, Joined DEF Idle, Starts
  <2>4. /\ room'.epoch = room.epoch /\ room'.nextSeq = room.nextSeq
        /\ room'.snapshot = room.snapshot /\ room'.active = FALSE
    BY <2>1
  <2> QED
    BY <1>1, <2>2, <2>3, <2>4
<1>3. CASE ~room.active
  BY <1>1, <1>3
<1> QED
  BY <1>2, <1>3

LEMMA RestoreHistoryVersionEffect ==
    ASSUME TypeInv, RestoreHistoryVersion
    PROVE  /\ \E i \in 1 .. Len(history) : restoring'.text = history[i].text
           /\ restoring' \in RestoringOf(restoring'.text, restoring'.vv)
           /\ UNCHANGED <<file, flushed, roomRow, snapshots, updates, history, room, doc,
                          job, todo, held, acked, typed, ops, faults, deleting>>
<1>1. /\ \E i \in 1 .. Len(history) :
           restoring' = [stage |-> "read", text |-> history[i].text, vv |-> file.vv]
      /\ UNCHANGED <<file, flushed, roomRow, snapshots, updates, history, room, doc,
                     job, todo, held, acked, typed, ops, faults, deleting>>
  BY DEF RestoreHistoryVersion, fileVars, store, lock, timers
<1>2. PICK i \in 1 .. Len(history) :
           restoring' = [stage |-> "read", text |-> history[i].text, vv |-> file.vv]
  BY <1>1
<1>3. restoring'.text = history[i].text
      /\ restoring' \in RestoringOf(restoring'.text, restoring'.vv)
  BY <1>2 DEF RestoringOf
<1> QED
  BY <1>1, <1>3

LEMMA RestoreProcessEffect ==
    ASSUME TypeInv, RestoreProcess
    PROVE  /\ FileOK(file') /\ file'.lease = file.lease
           /\ file'.deleted = file.deleted \/ file'.deleted = FALSE
           /\ file'.text \in {restoring.text, file.text}
           /\ restoring' \in RestoringOf(restoring'.text, restoring'.vv)
           /\ restoring'.text \subseteq restoring.text
           /\ UNCHANGED <<flushed, roomRow, snapshots, updates, history, room, doc,
                          job, todo, held, acked, typed, ops, faults, deleting>>
<1>1. /\ FileOK(file) /\ restoring \in RestoringOf(restoring.text, restoring.vv)
      /\ UNCHANGED <<flushed, roomRow, snapshots, updates, history, room, doc,
                     job, todo, held, acked, typed, ops, faults, deleting>>
  BY DEF RestoreProcess, TypeInv, store, lock, counters, timers
<1>2. CASE file' = file /\ restoring' = NotRestoring
  <2>1. restoring' \in RestoringOf(restoring'.text, restoring'.vv) /\ restoring'.text = {}
    BY <1>2 DEF NotRestoring, RestoringOf
  <2> QED
    BY <1>1, <1>2, <2>1
<1>3. CASE \E vv : file' = Updated(restoring.text, vv)
                   /\ restoring' = [restoring EXCEPT !.stage = "processed"]
  <2>1. PICK vv : file' = Updated(restoring.text, vv)
                  /\ restoring' = [restoring EXCEPT !.stage = "processed"]
    BY <1>3
  <2>2. restoring' = [stage |-> "processed", text |-> restoring.text, vv |-> restoring.vv]
    BY <1>1, <2>1 DEF RestoringOf
  <2>3. restoring' \in RestoringOf(restoring'.text, restoring'.vv)
        /\ restoring'.text = restoring.text
    BY <2>2 DEF RestoringOf
  <2>4. FileOK(file') /\ file'.lease = file.lease
        /\ file'.text \in {restoring.text, file.text}
    BY <1>1, <2>1, UpdatedFields, Zenon
  <2>5. file'.deleted = file.deleted \/ file'.deleted = FALSE
    BY <1>1, <2>1, UpdatedFields, Zenon
  <2> QED
    BY <1>1, <2>3, <2>4, <2>5
<1> QED
  BY <1>2, <1>3 DEF RestoreProcess

LEMMA RestoreLockedEffect ==
    ASSUME TypeInv, RestoreLocked
    PROVE  /\ Starts("restore", R4)
           /\ restoring' \in RestoringOf(restoring'.text, restoring'.vv)
           /\ restoring'.text = {}
           /\ job'.update.items = Inserted(restoring.text, "restored", restores).items
           /\ job'.update.deleted = doc.items
           /\ UNCHANGED <<file, flushed, roomRow, snapshots, updates, history, room, doc,
                          held, acked, typed, ops, faults, deleting>>
<1>1. /\ todo = <<>> /\ restoring' = NotRestoring
      /\ job' = [Idle EXCEPT !.kind = "restore",
                   !.update = [Inserted(restoring.text, "restored", restores)
                                 EXCEPT !.deleted = doc.items]]
      /\ todo' = <<"appendUpdate", "captureSnapshot">> \o SaveRuntime
      /\ UNCHANGED <<file, flushed, roomRow, snapshots, updates, history, room, doc,
                     held, acked, typed, ops, faults, deleting>>
  BY DEF RestoreLocked, Free, fileVars, store, counters, timers
<1>2. /\ restoring' \in RestoringOf(restoring'.text, restoring'.vv) /\ restoring'.text = {}
  BY <1>1 DEF NotRestoring, RestoringOf
<1>3. todo' = R4 /\ job'.kind = "restore"
  BY <1>1, Joined DEF Idle
<1>4. job'.update = [Inserted(restoring.text, "restored", restores) EXCEPT !.deleted = doc.items]
  BY <1>1 DEF Idle
<1>5. /\ job'.update.items = Inserted(restoring.text, "restored", restores).items
      /\ job'.update.deleted = doc.items
  BY <1>4 DEF Inserted
<1> QED
  BY <1>1, <1>2, <1>3, <1>5 DEF Starts


LEMMA LeaseLapsesEffect ==
    ASSUME TypeInv, LeaseLapses
    PROVE  /\ todo = <<>> /\ file'.lease = FALSE /\ room'.lease = "lapsed"
           /\ FileOK(file') /\ file'.text = file.text /\ file'.deleted = file.deleted
           /\ RoomOK(room') /\ room'.epoch = room.epoch /\ room'.nextSeq = room.nextSeq
           /\ room'.snapshot = room.snapshot /\ room'.active = room.active
           /\ roomRow' \in RowOf(roomRow'.base)
           /\ roomRow'.epoch = roomRow.epoch /\ roomRow'.nextSeq = roomRow.nextSeq
           /\ UNCHANGED <<flushed, snapshots, updates, history, doc, job, todo, held,
                          restoring, acked, typed, ops, faults, deleting>>
<1>1. /\ todo = <<>> /\ room.lease = "live" /\ room' = Lapsed(room) /\ roomRow' = Lapsed(roomRow)
      /\ file' = [file EXCEPT !.lease = FALSE]
      /\ UNCHANGED <<flushed, snapshots, updates, history, doc, job, todo, held, restoring,
                     acked, typed, ops, faults, deleting>>
  BY DEF LeaseLapses, Free, lock, counters, timers
<1>2. /\ RoomOK(room) /\ FileOK(file) /\ roomRow \in RowOf(roomRow.base)
      /\ "lapsed" \in Leases /\ FALSE \in BOOLEAN
  BY DEF TypeInv, Leases
<1>3. /\ RoomOK(room') /\ room'.epoch = room.epoch /\ room'.nextSeq = room.nextSeq
      /\ room'.snapshot = room.snapshot /\ room'.active = room.active /\ room'.lease = "lapsed"
  <2>1. room' = [epoch |-> room.epoch, active |-> room.active, lease |-> "lapsed",
                 base |-> room.base, nextSeq |-> room.nextSeq, snapshot |-> room.snapshot,
                 open |-> room.open]
    BY <1>1, <1>2 DEF RoomOK, RoomOf, Lapsed
  <2>2. RoomOK(room')
    BY <1>2, <2>1, RoomFields, MakeRoom, Zenon
  <2> QED
    BY <2>1, <2>2
<1>4. /\ FileOK(file') /\ file'.text = file.text /\ file'.deleted = file.deleted
      /\ file'.lease = FALSE
  <2>1. file' = [text |-> file.text, vv |-> file.vv, deleted |-> file.deleted,
                 renamed |-> file.renamed, conflict |-> file.conflict, lease |-> FALSE]
    BY <1>1, <1>2 DEF FileOK, FileOf
  <2>2. FileOK(file')
    BY <1>2, <2>1, FileFields, MakeFile, Zenon
  <2> QED
    BY <2>1, <2>2
<1>5. /\ roomRow' \in RowOf(roomRow'.base)
      /\ roomRow'.epoch = roomRow.epoch /\ roomRow'.nextSeq = roomRow.nextSeq
  BY <1>1, <1>2 DEF Lapsed, RowOf
<1> QED
  BY <1>1, <1>3, <1>4, <1>5

LEMMA PruneHistoryEffect ==
    ASSUME PruneHistory
    PROVE  UNCHANGED <<file, flushed, roomRow, snapshots, updates, room, doc, job, todo, held,
                       restoring, acked, typed, ops, faults, deleting>>
BY DEF PruneHistory, fileVars, lock, counters, timers

LEMMA PruneSupersededEffect ==
    ASSUME TypeInv, PruneSuperseded
    PROVE  /\ DOMAIN snapshots' = Epochs /\ snapshots' = [e \in Epochs |-> snapshots'[e]]
           /\ \A e \in Epochs :
                snapshots'[e] = IF e < roomRow.epoch THEN NoSnapshot ELSE snapshots[e]
           /\ updates' = {u \in updates : ~(u.epoch >= roomRow.epoch /\ Superseded(u))}
           /\ UNCHANGED <<file, flushed, roomRow, history, room, doc, job, todo, held,
                          restoring, acked, typed, ops, faults, deleting>>
<1>1. /\ snapshots' = [e \in Epochs |->
                         IF e < roomRow.epoch THEN NoSnapshot ELSE snapshots[e]]
      /\ updates' = {u \in updates : ~(u.epoch >= roomRow.epoch /\ Superseded(u))}
      /\ UNCHANGED <<file, flushed, roomRow, history, room, doc, job, todo, held, restoring,
                     acked, typed, ops, faults, deleting>>
  BY DEF PruneSuperseded, TypeInv, fileVars, lock, counters, timers
<1> QED
  BY <1>1

LEMMA CrashEffect ==
    ASSUME TypeInv, Crash
    PROVE  /\ faults' = faults + 1 /\ todo' = <<>> /\ job' = Idle /\ held' = NewFile
           /\ doc' = Loaded /\ deleting' = FALSE
           /\ RoomOK(room') /\ room'.epoch = roomRow.epoch /\ room'.nextSeq = roomRow.nextSeq
           /\ room'.snapshot = snapshots[roomRow.epoch]
           /\ restoring' \in RestoringOf(restoring'.text, restoring'.vv) /\ restoring'.text = {}
           /\ UNCHANGED <<file, flushed, roomRow, snapshots, updates, history, acked, typed, ops>>
<1>1. /\ faults' = faults + 1 /\ todo' = <<>> /\ job' = Idle /\ held' = NewFile
      /\ doc' = Loaded /\ deleting' = FALSE /\ restoring' = NotRestoring
      /\ room' = [epoch |-> roomRow.epoch, active |-> roomRow.active, lease |-> roomRow.lease,
                  base |-> roomRow.base, nextSeq |-> roomRow.nextSeq,
                  snapshot |-> snapshots[roomRow.epoch], open |-> roomRow.active]
      /\ UNCHANGED <<file, flushed, roomRow, snapshots, updates, history, acked, typed, ops>>
  BY DEF Crash, fileVars, store
<1>2. /\ restoring' \in RestoringOf(restoring'.text, restoring'.vv) /\ restoring'.text = {}
  BY <1>1 DEF NotRestoring, RestoringOf
<1>3. /\ roomRow.epoch \in Epochs /\ roomRow.active \in BOOLEAN /\ roomRow.lease \in Leases
      /\ roomRow.nextSeq \in Nat \ {0}
  BY DEF TypeInv, RowOf
<1>4. RoomOK(room')
  BY <1>1, <1>3, MakeRoom, Zenon
<1>5. /\ room'.epoch = roomRow.epoch /\ room'.nextSeq = roomRow.nextSeq
      /\ room'.snapshot = snapshots[roomRow.epoch]
  BY <1>1
<1> QED
  BY <1>1, <1>2, <1>4, <1>5

LEMMA FailEffect ==
    ASSUME Fail
    PROVE  /\ faults' = faults + 1 /\ todo' = <<>> /\ job' = Idle /\ held' = NewFile
           /\ UNCHANGED <<file, flushed, roomRow, snapshots, updates, history, room, doc,
                          restoring, acked, typed, ops, deleting>>
BY DEF Fail, fileVars, store, timers

LEMMA StutterEffect ==
    ASSUME UNCHANGED roomsVars
    PROVE  UNCHANGED <<file, flushed, roomRow, snapshots, updates, history, room, doc, job,
                       todo, held, restoring, acked, typed, ops, faults, deleting>>
BY DEF roomsVars, fileVars, store, lock, counters, timers

LEMMA NextCases ==
    ASSUME [Next]_roomsVars
    PROVE  \/ UNCHANGED roomsVars
           \/ FileOp
           \/ SaveRoom \/ SaveFile \/ CaptureSnapshot \/ ActivationSnapshot \/ AppendUpdate
           \/ Flush \/ FlushRefused \/ JoinRoom
           \/ \E d \in Device : PromoteClosed(d)
           \/ \E d \in Device : PromoteOpen(d)
           \/ \E d \in Device : HandleUpdate(d)
           \/ \E d \in Device : Heartbeat(d)
           \/ (\E d \in Device : Leave(d)) \/ TimerFires
           \/ CloseEmpty \/ Demote \/ CloseDeleted
           \/ RestoreHistoryVersion \/ RestoreProcess \/ RestoreLocked
           \/ LeaseLapses \/ PruneHistory \/ PruneSuperseded \/ Crash \/ Fail
BY DEF Next, Statement, Handler

-----------------------------------------------------------------------------
(***************************************************************************)
(* Every statement follows the one before it, and the types stay.          *)
(***************************************************************************)
LEMMA TodoKept ==
    ASSUME TodoInv,
           \/ UNCHANGED <<job, todo>>
           \/ todo' = <<>> /\ job' = Idle
           \/ Moves(P6, P5) \/ Moves(P5, P4) \/ Moves(P4, P3) \/ Moves(P3, P2)
           \/ Moves(P2, P1) \/ Moves(P1, <<>>)
           \/ Moves(D4, C3) \/ Moves(D4, <<>>) \/ Moves(C3, S2) \/ Moves(S2, S1)
           \/ Moves(S1, <<>>)
           \/ Moves(U3, S2) \/ Moves(U3, C3) \/ Moves(R4, C3)
           \/ Starts("promote", P6) \/ Starts("promote", P3) \/ Starts("update", U3)
           \/ Starts("heartbeat", S2) \/ Starts("demote", D4) \/ Starts("delete", S2)
           \/ Starts("restore", R4)
    PROVE  TodoInv'
<1>1. CASE UNCHANGED <<job, todo>>
  BY <1>1 DEF TodoInv
<1>2. CASE todo' = <<>> /\ job' = Idle
  BY <1>2, IdleJob DEF TodoInv
<1>3. CASE \/ Moves(P6, P5) \/ Moves(P5, P4) \/ Moves(P4, P3) \/ Moves(P3, P2)
           \/ Moves(P2, P1)
  BY <1>3, Different DEF TodoInv, Moves
<1>4. CASE Moves(P1, <<>>) \/ Moves(D4, <<>>) \/ Moves(S1, <<>>)
  BY <1>4, IdleJob DEF TodoInv, Moves
<1>5. CASE Moves(D4, C3) \/ Moves(C3, S2) \/ Moves(S2, S1)
  BY <1>5, Different DEF TodoInv, Moves
<1>6. CASE Moves(U3, S2) \/ Moves(U3, C3) \/ Moves(R4, C3)
  BY <1>6, Different DEF TodoInv, Moves
<1>7. CASE \/ Starts("promote", P6) \/ Starts("promote", P3) \/ Starts("update", U3)
           \/ Starts("heartbeat", S2) \/ Starts("demote", D4) \/ Starts("delete", S2)
           \/ Starts("restore", R4)
  BY <1>7 DEF TodoInv, Starts
<1> QED
  BY <1>1, <1>2, <1>3, <1>4, <1>5, <1>6, <1>7

\* A snapshot that is stored takes the place of the one of the room's epoch.
LEMMA StoredSnapshots ==
    ASSUME TypeInv, NEW s, StoreSnapshot(s), s.through \in Nat
    PROVE  /\ DOMAIN snapshots' = Epochs /\ snapshots' = [e \in Epochs |-> snapshots'[e]]
           /\ snapshots'[room.epoch] = s
           /\ \A e \in Epochs : e # room.epoch => snapshots'[e] = snapshots[e]
           /\ \A e \in Epochs : snapshots'[e].through \in Nat
<1>1. /\ snapshots' = [snapshots EXCEPT ![room.epoch] = s] /\ room.epoch \in Epochs
      /\ snapshots = [e \in Epochs |-> snapshots[e]]
      /\ \A e \in Epochs : snapshots[e].through \in Nat
  BY RoomFields DEF StoreSnapshot, TypeInv
<1>2. snapshots' = [e \in Epochs |-> IF e = room.epoch THEN s ELSE snapshots[e]]
  BY <1>1
<1> QED
  BY <1>1, <1>2

LEMMA CapturedOf ==
    /\ Captured.there = TRUE /\ Captured.doc = doc /\ Captured.through = room.nextSeq - 1
    /\ \A d, n : /\ SnapshotOf(d, n).there = TRUE /\ SnapshotOf(d, n).doc = d
                 /\ SnapshotOf(d, n).through = n
    /\ NoSnapshot.there = FALSE /\ NoSnapshot.doc = EmptyDoc /\ NoSnapshot.through = 0
BY DEF Captured, SnapshotOf, NoSnapshot

LEMMA TypesInit == Init => TypeInv
<1> SUFFICES ASSUME Init PROVE TypeInv
  OBVIOUS
<1>1. /\ file = NewFile /\ roomRow = Persisted(EmptyRoom)
      /\ snapshots = [e \in 0 .. MaxEpoch |-> NoSnapshot] /\ updates = {} /\ room = EmptyRoom
      /\ deleting = FALSE /\ job = Idle /\ todo = <<>> /\ held = NewFile
      /\ restoring = NotRestoring /\ acked = {} /\ typed = 0 /\ ops = 0 /\ faults = 0
  BY DEF Init, RoomsInit
<1>2. TodoInv
  BY <1>1, IdleJob DEF TodoInv
<1>3. /\ 0 \in Epochs /\ FALSE \in BOOLEAN /\ "none" \in Leases /\ 1 \in Nat \ {0}
  BY Bounds DEF Epochs, Leases
<1>4. RoomOK(room)
  BY <1>1, <1>3, MakeRoom, Zenon DEF EmptyRoom
<1>5. roomRow \in RowOf(roomRow.base)
  BY <1>1, <1>3 DEF Persisted, EmptyRoom, RowOf
<1>6. restoring \in RestoringOf(restoring.text, restoring.vv)
  BY <1>1 DEF NotRestoring, RestoringOf
<1>7. /\ DOMAIN snapshots = Epochs /\ snapshots = [e \in Epochs |-> snapshots[e]]
      /\ \A e \in Epochs : snapshots[e].through \in Nat
  BY <1>1, CapturedOf DEF Epochs
<1>8. room.snapshot.through \in Nat
  BY <1>1, CapturedOf DEF EmptyRoom
<1>9. typed \in 0 .. MaxUpdates /\ ops \in Nat /\ faults \in Nat
  BY <1>1, Bounds
<1> QED
  BY <1>1, <1>2, <1>4, <1>5, <1>6, <1>7, <1>8, <1>9, NewFileOK DEF TypeInv

\* What an acknowledgement adds.
LEMMA AnsweredTypes ==
    ASSUME TypeInv
    PROVE  \A a \in Answered : a.epoch \in Epochs /\ a.seq \in Nat
BY RoomFields DEF Answered, TypeInv

\* What a stored update adds.
LEMMA StoredTypes ==
    ASSUME TypeInv, NEW u
    PROVE  \A v \in Stored(u) : v.epoch \in Epochs /\ v.seq \in Nat \ {0}
BY RoomFields DEF Stored, TypeInv

LEMMA TypesStep == ASSUME TypeInv, [Next]_roomsVars PROVE TypeInv'
<1>1. /\ TodoInv /\ RoomOK(room) /\ roomRow \in RowOf(roomRow.base) /\ FileOK(file) /\ FileOK(held)
      /\ restoring \in RestoringOf(restoring.text, restoring.vv)
      /\ DOMAIN snapshots = Epochs /\ snapshots = [e \in Epochs |-> snapshots[e]]
      /\ \A e \in Epochs : snapshots[e].through \in Nat
      /\ room.snapshot.through \in Nat
      /\ \A u \in updates : u.epoch \in Epochs /\ u.seq \in Nat \ {0}
      /\ \A a \in acked : a.epoch \in Epochs /\ a.seq \in Nat
      /\ typed \in 0 .. MaxUpdates /\ ops \in Nat /\ faults \in Nat /\ deleting \in BOOLEAN
  BY DEF TypeInv
<1>2. room.epoch \in Epochs /\ room.nextSeq \in Nat \ {0} /\ room.nextSeq - 1 \in Nat
  BY <1>1, RoomFields
<1>3. CASE UNCHANGED roomsVars
  BY <1>1, <1>3, StutterEffect, TodoKept DEF TypeInv
<1>4. CASE FileOp
  BY <1>1, <1>4, FileOpEffect, TodoKept DEF TypeInv
<1>5. CASE SaveRoom
  <2>1. TodoInv'
    BY <1>1, <1>5, SaveRoomEffect, TodoKept
  <2> QED
    BY <1>1, <1>5, <2>1, SaveRoomEffect DEF TypeInv
<1>6. CASE SaveFile
  <2>1. TodoInv'
    BY <1>1, <1>6, SaveFileEffect, TodoKept
  <2>2. \A a \in acked' : a.epoch \in Epochs /\ a.seq \in Nat
    BY <1>6, SaveFileEffect, AnsweredTypes
  <2> QED
    BY <1>1, <1>6, <2>1, <2>2, SaveFileEffect, NewFileOK DEF TypeInv
<1>7. CASE CaptureSnapshot
  <2>1. TodoInv'
    BY <1>1, <1>7, CaptureSnapshotEffect, TodoKept
  <2>2. StoreSnapshot(Captured) /\ Captured.through \in Nat /\ room'.snapshot.through \in Nat
    BY <1>2, <1>7, CaptureSnapshotEffect, CapturedOf
  <2>3. /\ DOMAIN snapshots' = Epochs /\ snapshots' = [e \in Epochs |-> snapshots'[e]]
        /\ \A e \in Epochs : snapshots'[e].through \in Nat
    BY <2>2, StoredSnapshots
  <2> QED
    BY <1>1, <1>7, <2>1, <2>2, <2>3, CaptureSnapshotEffect DEF TypeInv
<1>8. CASE ActivationSnapshot
  <2>1. TodoInv'
    BY <1>1, <1>8, ActivationSnapshotEffect, TodoKept
  <2>2. StoreSnapshot(room.snapshot) /\ room'.snapshot.through \in Nat
    BY <1>1, <1>8, ActivationSnapshotEffect
  <2>3. /\ DOMAIN snapshots' = Epochs /\ snapshots' = [e \in Epochs |-> snapshots'[e]]
        /\ \A e \in Epochs : snapshots'[e].through \in Nat
    BY <1>1, <2>2, StoredSnapshots
  <2> QED
    BY <1>1, <1>8, <2>1, <2>2, <2>3, ActivationSnapshotEffect DEF TypeInv
<1>9. CASE AppendUpdate
  <2>1. TodoInv'
    BY <1>1, <1>9, AppendUpdateEffect, TodoKept
  <2>2. \A u \in updates' : u.epoch \in Epochs /\ u.seq \in Nat \ {0}
    BY <1>9, AppendUpdateEffect, StoredTypes
  <2> QED
    BY <1>1, <1>9, <2>1, <2>2, AppendUpdateEffect DEF TypeInv
<1>10. CASE Flush
  <2>1. TodoInv'
    BY <1>1, <1>10, FlushEffect, TodoKept
  <2> QED
    BY <1>1, <1>10, <2>1, FlushEffect DEF TypeInv
<1>11. CASE FlushRefused
  <2>1. TodoInv'
    BY <1>1, <1>11, FlushRefusedEffect, TodoKept
  <2> QED
    BY <1>1, <1>11, <2>1, FlushRefusedEffect DEF TypeInv
<1>12. CASE JoinRoom
  <2>1. TodoInv'
    BY <1>1, <1>12, JoinRoomEffect, TodoKept
  <2> QED
    BY <1>1, <1>12, <2>1, JoinRoomEffect DEF TypeInv
<1>13. ASSUME NEW d \in Device, PromoteClosed(d) PROVE TypeInv'
  <2>1. TodoInv'
    BY <1>1, <1>13, PromoteClosedEffect, TodoKept
  <2>2. room'.snapshot.through \in Nat
    BY <1>13, PromoteClosedEffect, CapturedOf
  <2> QED
    BY <1>1, <1>13, <2>1, <2>2, PromoteClosedEffect DEF TypeInv
<1>14. ASSUME NEW d \in Device, PromoteOpen(d) PROVE TypeInv'
  <2>1. TodoInv'
    BY <1>1, <1>14, PromoteOpenEffect, TodoKept
  <2> QED
    BY <1>1, <1>14, <2>1, PromoteOpenEffect DEF TypeInv
<1>15. ASSUME NEW d \in Device, HandleUpdate(d) PROVE TypeInv'
  <2>1. TodoInv'
    BY <1>1, <1>15, HandleUpdateEffect, TodoKept
  <2> QED
    BY <1>1, <1>15, <2>1, HandleUpdateEffect DEF TypeInv
<1>16. ASSUME NEW d \in Device, Heartbeat(d) PROVE TypeInv'
  <2>1. TodoInv'
    BY <1>1, <1>16, HeartbeatEffect, TodoKept
  <2> QED
    BY <1>1, <1>16, <2>1, HeartbeatEffect DEF TypeInv
<1>17. CASE (\E d \in Device : Leave(d)) \/ TimerFires
  BY <1>1, <1>17, LeaveEffect, TodoKept DEF TypeInv
<1>18. CASE CloseEmpty \/ Demote
  <2>1. TodoInv'
    BY <1>1, <1>18, DemoteEffect, TodoKept
  <2> QED
    BY <1>1, <1>18, <2>1, DemoteEffect DEF TypeInv
<1>19. CASE CloseDeleted
  <2>1. TodoInv'
    BY <1>1, <1>19, CloseDeletedEffect, TodoKept
  <2> QED
    BY <1>1, <1>19, <2>1, CloseDeletedEffect DEF TypeInv
<1>20. CASE RestoreHistoryVersion
  BY <1>1, <1>20, RestoreHistoryVersionEffect, TodoKept DEF TypeInv
<1>21. CASE RestoreProcess
  BY <1>1, <1>21, RestoreProcessEffect, TodoKept DEF TypeInv
<1>22. CASE RestoreLocked
  <2>1. TodoInv'
    BY <1>1, <1>22, RestoreLockedEffect, TodoKept
  <2> QED
    BY <1>1, <1>22, <2>1, RestoreLockedEffect DEF TypeInv
<1>23. CASE LeaseLapses
  <2>1. TodoInv'
    BY <1>1, <1>23, LeaseLapsesEffect, TodoKept
  <2> QED
    BY <1>1, <1>23, <2>1, LeaseLapsesEffect DEF TypeInv
<1>24. CASE PruneHistory
  BY <1>1, <1>24, PruneHistoryEffect, TodoKept DEF TypeInv
<1>25. CASE PruneSuperseded
  <2>1. TodoInv'
    BY <1>1, <1>25, PruneSupersededEffect, TodoKept
  <2>2. \A e \in Epochs : snapshots'[e].through \in Nat
    BY <1>1, <1>25, PruneSupersededEffect, CapturedOf
  <2>3. \A u \in updates' : u.epoch \in Epochs /\ u.seq \in Nat \ {0}
    BY <1>1, <1>25, PruneSupersededEffect
  <2> QED
    BY <1>1, <1>25, <2>1, <2>2, <2>3, PruneSupersededEffect DEF TypeInv
<1>26. CASE Crash
  <2>1. TodoInv'
    BY <1>1, <1>26, CrashEffect, TodoKept
  <2>2. roomRow.epoch \in Epochs
    BY <1>1 DEF RowOf
  <2>3. room'.snapshot.through \in Nat
    BY <1>1, <1>26, <2>2, CrashEffect
  <2>4. faults' \in Nat /\ deleting' \in BOOLEAN
    BY <1>1, <1>26, CrashEffect
  <2> QED
    BY <1>1, <1>26, <2>1, <2>3, <2>4, CrashEffect, NewFileOK DEF TypeInv
<1>27. CASE Fail
  <2>1. TodoInv'
    BY <1>1, <1>27, FailEffect, TodoKept
  <2>2. faults' \in Nat
    BY <1>1, <1>27, FailEffect
  <2> QED
    BY <1>1, <1>27, <2>1, <2>2, FailEffect, NewFileOK DEF TypeInv
<1> QED
  BY NextCases, <1>3, <1>4, <1>5, <1>6, <1>7, <1>8, <1>9, <1>10, <1>11, <1>12, <1>13, <1>14,
     <1>15, <1>16, <1>17, <1>18, <1>19, <1>20, <1>21, <1>22, <1>23, <1>24, <1>25, <1>26, <1>27

-----------------------------------------------------------------------------
(***************************************************************************)
(* Acknowledgements and their numbers.                                     *)
(***************************************************************************)
\* The row of the room is behind the room in memory, and ahead of every answer.
AckInv ==
    /\ roomRow.epoch <= room.epoch
    /\ roomRow.epoch = room.epoch => roomRow.nextSeq <= room.nextSeq
    /\ \A a \in acked :
         a.epoch <= roomRow.epoch /\ (a.epoch = roomRow.epoch => a.seq < roomRow.nextSeq)
    /\ Reading => roomRow.epoch = room.epoch /\ roomRow.nextSeq = room.nextSeq
    /\ (job.kind = "update" /\ todo # U3) =>
         \A a \in acked : a.epoch = room.epoch => a.seq < room.nextSeq - 1
    /\ NumbersIdentifyUpdates

\* The numbers, as natural numbers.
LEMMA Numbers ==
    ASSUME TypeInv
    PROVE  /\ room.epoch \in Nat /\ room.nextSeq \in Nat \ {0}
           /\ roomRow.epoch \in Nat /\ roomRow.nextSeq \in Nat \ {0}
           /\ room.epoch \in Epochs /\ roomRow.epoch \in Epochs
           /\ \A a \in acked : a.epoch \in Nat /\ a.seq \in Nat
           /\ \A u \in updates : u.epoch \in Nat /\ u.seq \in Nat \ {0}
BY Bounds, RoomFields DEF TypeInv, RowOf, Epochs

\* Most steps leave the numbers alone, and begin neither an answer nor a reading.
LEMMA AckStays ==
    ASSUME AckInv,
           room'.epoch = room.epoch, room'.nextSeq = room.nextSeq,
           roomRow'.epoch = roomRow.epoch, roomRow'.nextSeq = roomRow.nextSeq,
           acked' = acked,
           (Reading' => Reading),
           (job'.kind = "update" /\ todo' # U3) => (job.kind = "update" /\ todo # U3)
    PROVE  AckInv'
BY DEF AckInv, NumbersIdentifyUpdates

\* The same, by the statements.
LEMMA AckMoves ==
    ASSUME TypeInv, AckInv,
           room'.epoch = room.epoch, room'.nextSeq = room.nextSeq,
           roomRow'.epoch = roomRow.epoch, roomRow'.nextSeq = roomRow.nextSeq,
           acked' = acked,
           \/ UNCHANGED <<job, todo>>
           \/ todo' = <<>> /\ job' = Idle
           \/ Moves(P4, P3) \/ Moves(P1, <<>>)
           \/ Moves(D4, C3) \/ Moves(D4, <<>>) \/ Moves(C3, S2)
           \/ Starts("promote", P3) \/ Starts("update", U3)
           \/ Starts("heartbeat", S2) \/ Starts("demote", D4) \/ Starts("delete", S2)
           \/ Starts("restore", R4)
    PROVE  AckInv'
<1>1. CASE UNCHANGED <<job, todo>>
  BY <1>1, AckStays DEF Reading
<1>2. CASE \/ todo' = <<>> /\ job' = Idle
           \/ Moves(P1, <<>>) \/ Moves(D4, <<>>)
  <2>1. todo' = <<>> /\ job'.kind = "none"
    BY <1>2, IdleJob DEF Moves
  <2> QED
    BY <2>1, AckStays, Different DEF Reading
<1>3. CASE Moves(P4, P3) \/ Moves(D4, C3) \/ Moves(C3, S2)
  <2>1. job' = job /\ todo' \in {P3, C3, S2} /\ todo \in {P4, D4, C3}
    BY <1>3, Different DEF Moves
  <2>2. todo # U3 /\ todo' \notin {P5, P2, S1}
    BY <2>1, Different
  <2> QED
    BY <2>1, <2>2, AckStays DEF Reading
<1>4. CASE \/ Starts("promote", P3) \/ Starts("update", U3)
           \/ Starts("heartbeat", S2) \/ Starts("demote", D4) \/ Starts("delete", S2)
           \/ Starts("restore", R4)
  <2>1. todo' \in {P3, U3, S2, D4, R4} /\ (job'.kind = "update" => todo' = U3)
    BY <1>4 DEF Starts
  <2>2. todo' \notin {P5, P2, S1}
    BY <2>1, Different
  <2> QED
    BY <2>1, <2>2, AckStays DEF Reading
<1> QED
  BY <1>1, <1>2, <1>3, <1>4

LEMMA AckInit == Init => AckInv
<1> SUFFICES ASSUME Init PROVE AckInv
  OBVIOUS
<1>1. /\ roomRow = Persisted(EmptyRoom) /\ room = EmptyRoom /\ job = Idle /\ todo = <<>>
      /\ acked = {}
  BY DEF Init, RoomsInit
<1> QED
  BY <1>1, IdleJob, Different
     DEF AckInv, NumbersIdentifyUpdates, Reading, Persisted, EmptyRoom

LEMMA AckSaveRoom == ASSUME TypeInv, AckInv, SaveRoom PROVE AckInv'
<1>1. /\ Moves(P6, P5) \/ Moves(P3, P2) \/ Moves(S2, S1)
      /\ roomRow'.epoch = room.epoch /\ roomRow'.nextSeq = room.nextSeq
      /\ room' = room /\ acked' = acked
  BY SaveRoomEffect
<1>2. job' = job /\ todo # U3
  BY <1>1, Different DEF Moves
<1>3. \A a \in acked : a.epoch <= room.epoch /\ (a.epoch = room.epoch => a.seq < room.nextSeq)
  BY Numbers DEF AckInv
<1>4. (job'.kind = "update" /\ todo' # U3) =>
         \A a \in acked' : a.epoch = room'.epoch => a.seq < room'.nextSeq - 1
  BY <1>1, <1>2 DEF AckInv
<1> QED
  BY <1>1, <1>3, <1>4, Numbers DEF AckInv, NumbersIdentifyUpdates

LEMMA AckSaveFile == ASSUME TypeInv, AckInv, SaveFile PROVE AckInv'
<1>1. /\ Moves(P5, P4) \/ Moves(P2, P1) \/ Moves(S1, <<>>)
      /\ acked' = Answered /\ room'.epoch = room.epoch /\ room'.nextSeq = room.nextSeq
      /\ roomRow' = roomRow
  BY SaveFileEffect
<1>2. /\ roomRow.epoch = room.epoch /\ roomRow.nextSeq = room.nextSeq
  BY <1>1 DEF AckInv, Reading, Moves
<1>3. (job'.kind # "update" \/ todo' = U3) /\ ~Reading' /\ todo # U3
  <2>1. CASE Moves(P5, P4) \/ Moves(P2, P1)
    <3>1. job.kind = "promote" /\ job' = job /\ todo' \in {P4, P1} /\ todo # U3
      BY <2>1, Different DEF Moves, TypeInv, TodoInv
    <3> QED
      BY <3>1, Different DEF Reading
  <2>2. CASE Moves(S1, <<>>)
    BY <2>2, Different, IdleJob DEF Moves, Reading
  <2> QED
    BY <1>1, <2>1, <2>2
<1>4. CASE job.kind = "update"
  <2> DEFINE b == [epoch |-> room.epoch, seq |-> room.nextSeq - 1, items |-> job.update.items]
  <2>1. acked' = acked \cup {b} /\ b.epoch = room.epoch /\ b.seq = room.nextSeq - 1
    BY <1>1, <1>4 DEF Answered
  <2> HIDE DEF b
  <2>2. \A a \in acked : a.epoch = room.epoch => a.seq < room.nextSeq - 1
    BY <1>3, <1>4 DEF AckInv
  <2>3. NumbersIdentifyUpdates'
    BY <2>1, <2>2, Numbers DEF AckInv, NumbersIdentifyUpdates
  <2>4. \A a \in acked' : a.epoch <= roomRow.epoch /\ (a.epoch = roomRow.epoch => a.seq < roomRow.nextSeq)
    BY <1>2, <2>1, Numbers DEF AckInv
  <2> QED
    BY <1>1, <1>2, <1>3, <2>3, <2>4 DEF AckInv
<1>5. CASE job.kind # "update"
  <2>1. acked' = acked
    BY <1>1, <1>5 DEF Answered
  <2> QED
    BY <1>1, <1>2, <1>3, <2>1 DEF AckInv, NumbersIdentifyUpdates
<1> QED
  BY <1>4, <1>5

LEMMA AckAppendUpdate == ASSUME TypeInv, AckInv, AppendUpdate PROVE AckInv'
<1>1. /\ \/ Moves(U3, S2) /\ job.kind = "update"
         \/ Moves(U3, C3) /\ job.kind = "update"
         \/ Moves(R4, C3) /\ job.kind = "restore"
      /\ room'.epoch = room.epoch /\ room'.nextSeq = room.nextSeq + 1
      /\ roomRow' = roomRow /\ acked' = acked
  BY AppendUpdateEffect
<1>2. ~Reading'
  BY <1>1, Different DEF Moves, Reading
<1>3. \A a \in acked : a.epoch = room.epoch => a.seq < room.nextSeq
  BY Numbers DEF AckInv
<1> QED
  BY <1>1, <1>2, <1>3, Numbers DEF AckInv, NumbersIdentifyUpdates

LEMMA AckPromoteClosed ==
    ASSUME TypeInv, AckInv, NEW d \in Device, PromoteClosed(d) PROVE AckInv'
<1>1. /\ Starts("promote", P6) /\ room'.epoch = room.epoch + 1 /\ room'.nextSeq = 1
      /\ roomRow' = roomRow /\ acked' = acked
  BY PromoteClosedEffect
<1>2. ~Reading' /\ job'.kind = "promote"
  BY <1>1, Different DEF Starts, Reading
<1> QED
  BY <1>1, <1>2, Numbers DEF AckInv, NumbersIdentifyUpdates

LEMMA AckCrash == ASSUME TypeInv, AckInv, Crash PROVE AckInv'
<1>1. /\ todo' = <<>> /\ job' = Idle /\ room'.epoch = roomRow.epoch
      /\ room'.nextSeq = roomRow.nextSeq /\ roomRow' = roomRow /\ acked' = acked
  BY CrashEffect
<1>2. ~Reading' /\ job'.kind = "none"
  BY <1>1, Different, IdleJob DEF Reading
<1> QED
  BY <1>1, <1>2, Numbers DEF AckInv, NumbersIdentifyUpdates

LEMMA AckStep == ASSUME TypeInv, AckInv, [Next]_roomsVars PROVE AckInv'
<1>1. CASE UNCHANGED roomsVars \/ FileOp \/ (\E d \in Device : Leave(d)) \/ TimerFires
  BY <1>1, StutterEffect, FileOpEffect, LeaveEffect, AckMoves
<1>2. CASE RestoreHistoryVersion \/ RestoreProcess \/ PruneHistory \/ PruneSuperseded
  BY <1>2, RestoreHistoryVersionEffect, RestoreProcessEffect, PruneHistoryEffect,
     PruneSupersededEffect, AckMoves
<1>3. CASE CaptureSnapshot \/ ActivationSnapshot
  BY <1>3, CaptureSnapshotEffect, ActivationSnapshotEffect, AckMoves
<1>4. CASE Flush \/ FlushRefused \/ JoinRoom
  BY <1>4, FlushEffect, FlushRefusedEffect, JoinRoomEffect, AckMoves
<1>5. ASSUME NEW d \in Device, PromoteOpen(d) \/ HandleUpdate(d) \/ Heartbeat(d)
      PROVE  AckInv'
  BY <1>5, PromoteOpenEffect, HandleUpdateEffect, HeartbeatEffect, AckMoves
<1>6. CASE CloseEmpty \/ Demote \/ CloseDeleted \/ RestoreLocked
  BY <1>6, DemoteEffect, CloseDeletedEffect, RestoreLockedEffect, AckMoves
<1>7. CASE LeaseLapses \/ Fail
  BY <1>7, LeaseLapsesEffect, FailEffect, AckMoves
<1> QED
  BY NextCases, <1>1, <1>2, <1>3, <1>4, <1>5, <1>6, <1>7, AckSaveRoom, AckSaveFile,
     AckAppendUpdate, AckPromoteClosed, AckCrash

-----------------------------------------------------------------------------
(***************************************************************************)
(* The room and the row of the file.                                       *)
(***************************************************************************)
\* With these statements left the row has the lease of the room.
Agreed == todo \in {<<>>, P1, D4}

\* A row that was read while the file was deleted is of a room that is closed, or is about to be.
FileInv ==
    /\ ~Reading => held = NewFile
    /\ faults = 0 =>
         /\ Agreed => file.lease = (room.active /\ room.lease = "live")
         /\ file.deleted \/ held.deleted => deleting \/ ~room.active

\* Of the rows that a handler has read none is left when it has saved one.
LEMMA HeldStays ==
    ASSUME TypeInv, FileInv, held' = held,
           \/ UNCHANGED <<job, todo>>
           \/ Moves(P4, P3) \/ Moves(P1, <<>>) \/ Moves(D4, C3) \/ Moves(D4, <<>>)
           \/ Moves(C3, S2) \/ Moves(U3, S2) \/ Moves(U3, C3) \/ Moves(R4, C3)
           \/ Starts("promote", P3) \/ Starts("update", U3) \/ Starts("heartbeat", S2)
           \/ Starts("demote", D4) \/ Starts("delete", S2) \/ Starts("restore", R4)
    PROVE  ~Reading' => held' = NewFile
<1>1. CASE UNCHANGED <<job, todo>>
  BY <1>1 DEF FileInv, Reading
<1>2. CASE todo \in {<<>>, P4, P1, D4, C3, U3, R4}
  BY <1>2, Different DEF FileInv, Reading
<1> QED
  BY <1>1, <1>2 DEF Moves, Starts

\* Steps that change neither the lease of the row nor whether the room is active.
FileQuiet ==
    /\ held' = held /\ faults' = faults /\ file'.lease = file.lease
    /\ file'.deleted = file.deleted \/ file'.deleted = FALSE \/ deleting'
    /\ deleting => deleting'
    /\ room'.active = room.active
    /\ \/ UNCHANGED <<room, job, todo>>
       \/ room' = room /\ (Moves(P1, <<>>) \/ Moves(D4, <<>>) \/ Starts("demote", D4))
       \/ Moves(P4, P3) \/ Moves(D4, C3)
       \/ Moves(U3, S2) \/ Moves(U3, C3) \/ Moves(R4, C3)
       \/ Starts("promote", P3) \/ Starts("update", U3) \/ Starts("heartbeat", S2)
       \/ Starts("restore", R4)

LEMMA FileStays == ASSUME TypeInv, FileInv, FileQuiet PROVE FileInv'
<1>1. ~Reading' => held' = NewFile
  BY HeldStays DEF FileQuiet
<1>2. ASSUME faults' = 0
      PROVE  file'.deleted \/ held'.deleted => deleting' \/ ~room'.active
  BY <1>2 DEF FileInv, FileQuiet
<1>3. ASSUME faults' = 0, Agreed'
      PROVE  file'.lease = (room'.active /\ room'.lease = "live")
  <2>1. Agreed /\ room' = room
    BY <1>3, Different DEF Agreed, Moves, Starts, FileQuiet
  <2> QED
    BY <1>3, <2>1 DEF FileInv, FileQuiet
<1> QED
  BY <1>1, <1>2, <1>3 DEF FileInv

LEMMA FileInit == Init => FileInv
<1> SUFFICES ASSUME Init PROVE FileInv
  OBVIOUS
<1>1. /\ file = NewFile /\ room = EmptyRoom /\ held = NewFile /\ todo = <<>>
  BY DEF Init, RoomsInit
<1> QED
  BY <1>1, NewFileOK DEF FileInv, EmptyRoom

LEMMA FileStep == ASSUME TypeInv, FileInv, [Next]_roomsVars PROVE FileInv'
<1>1. CASE UNCHANGED roomsVars \/ (\E d \in Device : Leave(d)) \/ TimerFires
  <2>1. FileQuiet
    BY <1>1, StutterEffect, LeaveEffect DEF FileQuiet, TypeInv
  <2> QED
    BY <2>1, FileStays
<1>2. CASE FileOp
  <2>1. FileQuiet
    BY <1>2, FileOpEffect DEF FileQuiet, TypeInv
  <2> QED
    BY <2>1, FileStays
<1>3. CASE RestoreHistoryVersion \/ RestoreProcess
  <2>1. FileQuiet
    BY <1>3, RestoreHistoryVersionEffect, RestoreProcessEffect DEF FileQuiet, TypeInv
  <2> QED
    BY <2>1, FileStays
<1>4. CASE PruneHistory \/ PruneSuperseded
  <2>1. FileQuiet
    BY <1>4, PruneHistoryEffect, PruneSupersededEffect DEF FileQuiet, TypeInv
  <2> QED
    BY <2>1, FileStays
<1>5. CASE SaveRoom
  <2>1. Moves(P6, P5) \/ Moves(P3, P2) \/ Moves(S2, S1)
    BY <1>5, SaveRoomEffect
  <2>2. Reading' /\ ~Agreed'
    BY <2>1, Different DEF Moves, Reading, Agreed
  <2> QED
    BY <1>5, <2>2, SaveRoomEffect DEF FileInv
<1>6. CASE SaveFile
  <2>1. /\ file'.lease = (room'.active /\ room'.lease = "live") /\ room'.active = room.active
        /\ file'.deleted = held.deleted /\ held' = NewFile /\ faults' = faults
        /\ deleting' = deleting
    BY <1>6, SaveFileEffect
  <2> QED
    BY <2>1, NewFileOK DEF FileInv
<1>7. CASE CaptureSnapshot
  <2>1. /\ Moves(C3, S2) /\ (room'.active => room.active)
        /\ UNCHANGED <<file, held, faults, deleting>>
    BY <1>7, CaptureSnapshotEffect
  <2>2. ~Agreed' /\ (~Reading' => held' = NewFile)
    BY <2>1, Different, HeldStays DEF Agreed, Moves
  <2> QED
    BY <2>1, <2>2 DEF FileInv
<1>8. CASE ActivationSnapshot \/ AppendUpdate
  <2>1. FileQuiet
    BY <1>8, ActivationSnapshotEffect, AppendUpdateEffect DEF FileQuiet, TypeInv
  <2> QED
    BY <2>1, FileStays
<1>9. CASE Flush
  <2>1. FileQuiet
    BY <1>9, FlushEffect DEF FileQuiet, TypeInv
  <2> QED
    BY <2>1, FileStays
<1>10. CASE FlushRefused \/ JoinRoom
  <2>1. FileQuiet
    BY <1>10, FlushRefusedEffect, JoinRoomEffect DEF FileQuiet, TypeInv
  <2> QED
    BY <2>1, FileStays
<1>11. ASSUME NEW d \in Device, PromoteClosed(d) PROVE FileInv'
  <2>1. /\ Starts("promote", P6) /\ ~file.deleted
        /\ UNCHANGED <<file, held, faults, deleting>>
    BY <1>11, PromoteClosedEffect
  <2>2. held = NewFile
    BY <2>1, Different DEF Starts, FileInv, Reading
  <2>3. ~Agreed'
    BY <2>1, Different DEF Starts, Agreed
  <2> QED
    BY <2>1, <2>2, <2>3, NewFileOK DEF FileInv
<1>12. ASSUME NEW d \in Device, PromoteOpen(d) \/ HandleUpdate(d) \/ Heartbeat(d)
       PROVE  FileInv'
  <2>1. FileQuiet
    BY <1>12, PromoteOpenEffect, HandleUpdateEffect, HeartbeatEffect DEF FileQuiet, TypeInv
  <2> QED
    BY <2>1, FileStays
<1>13. CASE CloseEmpty \/ Demote
  <2>1. FileQuiet
    BY <1>13, DemoteEffect DEF FileQuiet, TypeInv
  <2> QED
    BY <2>1, FileStays
<1>14. CASE RestoreLocked
  <2>1. FileQuiet
    BY <1>14, RestoreLockedEffect DEF FileQuiet, TypeInv
  <2> QED
    BY <2>1, FileStays
<1>15. CASE CloseDeleted
  <2>1. /\ room'.active = FALSE
        /\ Starts("delete", S2) \/ UNCHANGED <<room, job, todo>>
        /\ UNCHANGED <<file, held, faults>>
    BY <1>15, CloseDeletedEffect
  <2>2. ~Reading' => held' = NewFile
    BY <2>1, HeldStays
  <2>3. Agreed' => UNCHANGED <<room, todo>>
    BY <2>1, Different DEF Starts, Agreed
  <2> QED
    BY <2>1, <2>2, <2>3 DEF FileInv, Agreed
<1>16. CASE LeaseLapses
  <2>1. /\ file'.lease = FALSE /\ room'.lease = "lapsed" /\ room'.active = room.active
        /\ file'.deleted = file.deleted /\ UNCHANGED <<job, todo, held, faults, deleting>>
    BY <1>16, LeaseLapsesEffect
  <2> QED
    BY <2>1, HeldStays DEF FileInv
<1>17. CASE Crash \/ Fail
  <2>1. held' = NewFile /\ faults' = faults + 1 /\ faults \in Nat
    BY <1>17, CrashEffect, FailEffect DEF TypeInv
  <2> QED
    BY <2>1 DEF FileInv
<1> QED
  BY NextCases, <1>1, <1>2, <1>3, <1>4, <1>5, <1>6, <1>7, <1>8, <1>9, <1>10, <1>11, <1>12,
     <1>13, <1>14, <1>15, <1>16, <1>17

-----------------------------------------------------------------------------
(***************************************************************************)
(* The document in memory and what the store has of it.                    *)
(***************************************************************************)
\* A snapshot s of the epoch e with the updates that it is not past.
Since(s, us, e) == {u \in us : u.epoch = e /\ u.seq > s.through}

ItemsOf(s, us, e) == s.doc.items \cup UNION {u.update.items : u \in Since(s, us, e)}

DeletedOf(s, us, e) == s.doc.deleted \cup UNION {u.update.deleted : u \in Since(s, us, e)}

LEMMA LoadedIs ==
    /\ Loaded.items = ItemsOf(snapshots[roomRow.epoch], updates, roomRow.epoch)
    /\ Loaded.deleted = DeletedOf(snapshots[roomRow.epoch], updates, roomRow.epoch)
    /\ Loaded'.items = ItemsOf(snapshots'[roomRow'.epoch], updates', roomRow'.epoch)
    /\ Loaded'.deleted = DeletedOf(snapshots'[roomRow'.epoch], updates', roomRow'.epoch)
BY DEF Loaded, ItemsOf, DeletedOf, Since

\* A snapshot that is past all updates is what is loaded.
LEMMA NothingSince ==
    ASSUME NEW s, NEW us, NEW e, \A u \in us : u.epoch = e => ~(u.seq > s.through)
    PROVE  ItemsOf(s, us, e) = s.doc.items /\ DeletedOf(s, us, e) = s.doc.deleted
<1>1. Since(s, us, e) = {}
  BY DEF Since
<1> QED
  BY <1>1 DEF ItemsOf, DeletedOf

\* One that a snapshot is past makes no difference.
LEMMA NoneMissed ==
    ASSUME NEW s, NEW us, NEW vs \in SUBSET us, NEW e,
           \A u \in us \ vs : u.epoch = e => ~(u.seq > s.through)
    PROVE  ItemsOf(s, vs, e) = ItemsOf(s, us, e) /\ DeletedOf(s, vs, e) = DeletedOf(s, us, e)
<1>1. Since(s, vs, e) = Since(s, us, e)
  BY DEF Since
<1> QED
  BY <1>1 DEF ItemsOf, DeletedOf

\* An activation has its epoch to itself until it has a snapshot.
OpeningInv ==
    /\ room.nextSeq = 1 /\ room.snapshot = SnapshotOf(doc, 0)
    /\ ~snapshots[room.epoch].there
    /\ \A u \in updates : u.epoch # room.epoch
    /\ \A a \in acked : a.epoch # room.epoch

\* Up to the first failure or restart.
StoreInv ==
    /\ roomRow.epoch = room.epoch \/ todo = P6
    /\ \A u \in updates : u.epoch <= room.epoch /\ (u.epoch = room.epoch => u.seq < room.nextSeq)
    /\ \A e \in Epochs : /\ snapshots[e].there => e <= room.epoch
                         /\ ~snapshots[e].there => snapshots[e] = NoSnapshot
    /\ snapshots[room.epoch].through < room.nextSeq
    /\ Opening => OpeningInv
    /\ ~Opening => Loaded.items = doc.items /\ Loaded.deleted = doc.deleted
    /\ \A a \in acked : a.epoch = roomRow.epoch => a.items \subseteq Loaded.items

\* Up to the second: what is answered, or is about to be, is in the document.
MemoryInv ==
    /\ \A a \in acked : a.epoch = room.epoch => a.items \subseteq doc.items
    /\ (job.kind = "update" /\ todo # U3) => job.update.items \subseteq doc.items

DocumentInv == (faults = 0 => StoreInv) /\ (faults <= 1 => MemoryInv)

LEMMA DocumentInit == Init => DocumentInv
<1> SUFFICES ASSUME Init PROVE DocumentInv
  OBVIOUS
<1>1. /\ roomRow = Persisted(EmptyRoom) /\ snapshots = [e \in Epochs |-> NoSnapshot]
      /\ updates = {} /\ room = EmptyRoom /\ doc = EmptyDoc /\ acked = {}
      /\ job = Idle /\ todo = <<>>
  BY DEF Init, RoomsInit, Epochs
<1>2. /\ roomRow.epoch = 0 /\ room.epoch = 0 /\ room.nextSeq = 1
      /\ 0 \in Epochs /\ snapshots[0] = NoSnapshot
  BY <1>1, Bounds DEF Persisted, EmptyRoom, Epochs
<1>3. ~Opening
  BY <1>1, Different DEF Opening
<1>4. Loaded.items = doc.items /\ Loaded.deleted = doc.deleted
  <2>1. /\ Loaded.items = ItemsOf(NoSnapshot, {}, 0)
        /\ Loaded.deleted = DeletedOf(NoSnapshot, {}, 0)
    BY <1>1, <1>2, LoadedIs
  <2> QED
    BY <1>1, <2>1, NothingSince, CapturedOf
<1> QED
  BY <1>1, <1>2, <1>3, <1>4, IdleJob, CapturedOf DEF DocumentInv, StoreInv, MemoryInv

-----------------------------------------------------------------------------
\* Steps that leave the store and the document alone.
DocumentQuiet ==
    /\ UNCHANGED <<snapshots, updates, doc, acked, faults>>
    /\ roomRow'.epoch = roomRow.epoch
    /\ room'.epoch = room.epoch /\ room'.nextSeq = room.nextSeq
    /\ room'.snapshot = room.snapshot
    /\ \/ UNCHANGED <<job, todo>>
       \/ Moves(P1, <<>>) \/ Moves(D4, C3) \/ Moves(D4, <<>>)
       \/ Starts("promote", P3) \/ Starts("update", U3)
       \/ Starts("heartbeat", S2) \/ Starts("demote", D4) \/ Starts("delete", S2)
       \/ Starts("restore", R4)

LEMMA DocumentStays == ASSUME DocumentInv, DocumentQuiet PROVE DocumentInv'
<1>1. /\ UNCHANGED <<snapshots, updates, doc, acked, faults>>
      /\ roomRow'.epoch = roomRow.epoch
      /\ room'.epoch = room.epoch /\ room'.nextSeq = room.nextSeq
      /\ room'.snapshot = room.snapshot
  BY DEF DocumentQuiet
<1>2. /\ Opening' <=> Opening
      /\ todo = P6 => todo' = P6
      /\ (job'.kind = "update" /\ todo' # U3) => (job' = job /\ todo # U3)
  <2>1. CASE UNCHANGED <<job, todo>>
    BY <2>1 DEF Opening
  <2>2. CASE Moves(P1, <<>>) \/ Moves(D4, C3) \/ Moves(D4, <<>>)
    BY <2>2, Different, IdleJob DEF Opening, Moves
  <2>3. CASE \/ Starts("promote", P3) \/ Starts("update", U3)
             \/ Starts("heartbeat", S2) \/ Starts("demote", D4) \/ Starts("delete", S2)
             \/ Starts("restore", R4)
    BY <2>3, Different DEF Opening, Starts
  <2> QED
    BY <2>1, <2>2, <2>3 DEF DocumentQuiet
<1>3. Loaded'.items = Loaded.items /\ Loaded'.deleted = Loaded.deleted
  BY <1>1, LoadedIs
<1>4. OpeningInv => OpeningInv'
  BY <1>1 DEF OpeningInv, SnapshotOf
<1>5. StoreInv => StoreInv'
  BY <1>1, <1>2, <1>3, <1>4 DEF StoreInv
<1>6. MemoryInv => MemoryInv'
  BY <1>1, <1>2 DEF MemoryInv
<1> QED
  BY <1>1, <1>5, <1>6 DEF DocumentInv

LEMMA DocumentSaveRoom == ASSUME TypeInv, AckInv, DocumentInv, SaveRoom PROVE DocumentInv'
<1>1. /\ Moves(P6, P5) \/ Moves(P3, P2) \/ Moves(S2, S1)
      /\ roomRow'.epoch = room.epoch
      /\ UNCHANGED <<snapshots, updates, room, doc, acked, faults>>
  BY SaveRoomEffect
<1>2. job' = job /\ todo # U3 /\ todo' # U3
  BY <1>1, Different DEF Moves
<1>3. MemoryInv => MemoryInv'
  BY <1>1, <1>2 DEF MemoryInv
<1>4. ASSUME StoreInv
      PROVE  StoreInv'
  <2>1. CASE Moves(P6, P5)
    <3>1. OpeningInv /\ OpeningInv' /\ Opening'
      BY <1>1, <1>4, <2>1 DEF Moves, Opening, StoreInv, OpeningInv, SnapshotOf
    <3>2. \A a \in acked' : a.epoch = roomRow'.epoch => a.items \subseteq Loaded'.items
      BY <1>1, <3>1 DEF OpeningInv
    <3> QED
      BY <1>1, <1>4, <3>1, <3>2 DEF StoreInv
  <2>2. CASE Moves(P3, P2) \/ Moves(S2, S1)
    <3>1. todo # P6 /\ ~Opening /\ ~Opening'
      BY <2>2, Different DEF Moves, Opening
    <3>2. roomRow'.epoch = roomRow.epoch
      BY <1>1, <1>4, <3>1 DEF StoreInv
    <3>3. Loaded'.items = Loaded.items /\ Loaded'.deleted = Loaded.deleted
      BY <1>1, <3>2, LoadedIs
    <3> QED
      BY <1>1, <1>4, <3>1, <3>2, <3>3 DEF StoreInv
  <2> QED
    BY <1>1, <2>1, <2>2
<1> QED
  BY <1>1, <1>3, <1>4 DEF DocumentInv

LEMMA DocumentSaveFile == ASSUME TypeInv, AckInv, DocumentInv, SaveFile PROVE DocumentInv'
<1>1. /\ Moves(P5, P4) \/ Moves(P2, P1) \/ Moves(S1, <<>>)
      /\ acked' = Answered /\ room'.epoch = room.epoch /\ room'.nextSeq = room.nextSeq
      /\ room'.snapshot = room.snapshot
      /\ UNCHANGED <<roomRow, snapshots, updates, doc, faults>>
  BY SaveFileEffect
<1>2. /\ job'.kind # "update" /\ todo # U3 /\ todo # P6
      /\ Opening' <=> Opening
      /\ Opening => job.kind = "promote"
  <2>1. CASE Moves(P5, P4) \/ Moves(P2, P1)
    BY <2>1, Different DEF Moves, TypeInv, TodoInv, Opening
  <2>2. CASE Moves(S1, <<>>)
    BY <2>2, Different, IdleJob DEF Moves, Opening
  <2> QED
    BY <1>1, <2>1, <2>2
<1>3. \A a \in acked' : a \in acked \/ /\ job.kind = "update"
                                       /\ a.epoch = room.epoch /\ a.items = job.update.items
  BY <1>1 DEF Answered
<1>4. ASSUME MemoryInv
      PROVE  /\ \A a \in acked' : a.epoch = room.epoch => a.items \subseteq doc.items
             /\ MemoryInv'
  BY <1>1, <1>2, <1>3, <1>4 DEF MemoryInv
<1>5. ASSUME StoreInv, MemoryInv
      PROVE  StoreInv'
  <2>1. Loaded'.items = Loaded.items /\ Loaded'.deleted = Loaded.deleted
    BY <1>1, LoadedIs
  <2>2. roomRow.epoch = room.epoch
    BY <1>2, <1>5 DEF StoreInv
  <2>3. \A a \in acked' : a.epoch = roomRow.epoch => a.items \subseteq Loaded.items
    <3>1. CASE Opening
      BY <1>2, <1>3, <1>5, <3>1 DEF StoreInv
    <3>2. CASE ~Opening
      BY <1>4, <1>5, <2>2, <3>2 DEF StoreInv
    <3> QED
      BY <3>1, <3>2
  <2>4. Opening => OpeningInv'
    BY <1>1, <1>2, <1>3, <1>5 DEF StoreInv, OpeningInv, SnapshotOf
  <2> QED
    BY <1>1, <1>2, <1>5, <2>1, <2>2, <2>3, <2>4 DEF StoreInv
<1> QED
  BY <1>1, <1>4, <1>5 DEF DocumentInv

\* A snapshot of the document that is past every update.
LEMMA DocumentSnapshot ==
    ASSUME TypeInv, AckInv, DocumentInv,
           CaptureSnapshot \/ ActivationSnapshot
    PROVE  DocumentInv'
<1>1. /\ Moves(C3, S2) \/ Moves(P4, P3)
      /\ room'.epoch = room.epoch /\ room'.nextSeq = room.nextSeq
      /\ UNCHANGED <<roomRow, updates, doc, acked, faults>>
  BY CaptureSnapshotEffect, ActivationSnapshotEffect
<1>2. job' = job /\ todo # U3 /\ todo' # U3 /\ ~Opening' /\ todo # P6 /\ (todo = P4 => Opening)
  BY <1>1, Different DEF Moves, Opening
<1>3. MemoryInv => MemoryInv'
  BY <1>1, <1>2 DEF MemoryInv
<1>4. ASSUME StoreInv
      PROVE  StoreInv'
  <2>1. roomRow.epoch = room.epoch /\ room.epoch \in Epochs
    BY <1>2, <1>4, Numbers DEF StoreInv
  <2>2. PICK s : /\ StoreSnapshot(s) /\ s.through \in Nat
                 /\ s.there /\ s.doc = doc /\ s.through = room.nextSeq - 1
    <3>1. CASE CaptureSnapshot
      <4>1. StoreSnapshot(Captured) /\ room.nextSeq - 1 \in Nat
        BY <3>1, CaptureSnapshotEffect, Numbers
      <4> QED
        BY <4>1, CapturedOf
    <3>2. CASE ActivationSnapshot
      <4>1. StoreSnapshot(room.snapshot) /\ todo = P4
        BY <3>2, ActivationSnapshotEffect DEF Moves
      <4>2. room.nextSeq = 1 /\ room.snapshot = SnapshotOf(doc, 0)
        BY <1>2, <1>4, <4>1 DEF StoreInv, OpeningInv
      <4>3. room.snapshot.there /\ room.snapshot.doc = doc /\ room.snapshot.through = 0
        BY <4>2, CapturedOf
      <4> QED
        BY <4>1, <4>2, <4>3
    <3> QED
      BY <3>1, <3>2
  <2>3. /\ snapshots'[room.epoch] = s
        /\ \A e \in Epochs : e # room.epoch => snapshots'[e] = snapshots[e]
    BY <2>2, StoredSnapshots
  <2>4. \A u \in updates : u.epoch = room.epoch => ~(u.seq > s.through)
    BY <1>4, <2>2, Numbers DEF StoreInv
  <2>5. ItemsOf(s, updates, room.epoch) = doc.items /\ DeletedOf(s, updates, room.epoch) = doc.deleted
    BY <2>2, <2>4, NothingSince
  <2>6. Loaded'.items = doc'.items /\ Loaded'.deleted = doc'.deleted
    BY <1>1, <2>1, <2>3, <2>5, LoadedIs
  <2>7. \A a \in acked : a.epoch = room.epoch => a.items \subseteq doc.items
    <3>1. CASE Opening
      BY <1>4, <3>1 DEF StoreInv, OpeningInv
    <3>2. CASE ~Opening
      BY <1>4, <2>1, <3>2 DEF StoreInv
    <3> QED
      BY <3>1, <3>2
  <2>8. \A e \in Epochs : /\ snapshots'[e].there => e <= room.epoch
                          /\ ~snapshots'[e].there => snapshots'[e] = NoSnapshot
    BY <1>4, <2>1, <2>2, <2>3, Numbers DEF StoreInv
  <2>9. snapshots'[room.epoch].through < room.nextSeq
    BY <2>2, <2>3, Numbers
  <2> QED
    BY <1>1, <1>2, <1>4, <2>1, <2>6, <2>7, <2>8, <2>9 DEF StoreInv
<1> QED
  BY <1>1, <1>3, <1>4 DEF DocumentInv

LEMMA DocumentAppendUpdate ==
    ASSUME TypeInv, AckInv, DocumentInv, AppendUpdate PROVE DocumentInv'
<1>1. /\ Moves(U3, S2) \/ Moves(U3, C3) \/ Moves(R4, C3)
      /\ updates' = Stored(job.update) /\ doc' = Merged(doc, job.update)
      /\ room'.epoch = room.epoch /\ room'.nextSeq = room.nextSeq + 1
      /\ UNCHANGED <<roomRow, snapshots, acked, faults>>
  BY AppendUpdateEffect
<1>2. /\ job' = job /\ ~Opening /\ ~Opening' /\ todo # P6
  BY <1>1, Different DEF Moves, Opening
<1>3. doc'.items = doc.items \cup job.update.items
      /\ doc'.deleted = doc.deleted \cup job.update.deleted
  BY <1>1 DEF Merged
<1>4. MemoryInv => MemoryInv'
  BY <1>1, <1>2, <1>3 DEF MemoryInv
<1>5. ASSUME StoreInv
      PROVE  StoreInv'
  <2>1. roomRow.epoch = room.epoch
    BY <1>2, <1>5 DEF StoreInv
  <2> DEFINE v == [epoch |-> room.epoch, seq |-> room.nextSeq, update |-> job.update]
  <2>2. v.epoch = room.epoch /\ v.seq = room.nextSeq /\ v.update = job.update
    OBVIOUS
  <2>3. updates' = updates \cup {v}
    <3>1. ~\E u \in updates : u.epoch = room.epoch /\ u.seq = room.nextSeq
      BY <1>5, Numbers DEF StoreInv
    <3> QED
      BY <1>1, <3>1 DEF Stored
  <2> HIDE DEF v
  <2>4. v.seq > snapshots[room.epoch].through
    <3>1. snapshots[room.epoch].through \in Nat
      BY Numbers DEF TypeInv
    <3> QED
      BY <1>5, <2>2, <3>1, Numbers DEF StoreInv
  <2>5. Loaded'.items = Loaded.items \cup job.update.items
        /\ Loaded'.deleted = Loaded.deleted \cup job.update.deleted
    <3> DEFINE s == snapshots[room.epoch]
    <3>1. /\ Loaded'.items = ItemsOf(s, updates \cup {v}, room.epoch)
          /\ Loaded'.deleted = DeletedOf(s, updates \cup {v}, room.epoch)
          /\ Loaded.items = ItemsOf(s, updates, room.epoch)
          /\ Loaded.deleted = DeletedOf(s, updates, room.epoch)
      BY <1>1, <2>1, <2>3, LoadedIs
    <3> HIDE DEF s
    <3>2. /\ ItemsOf(s, updates \cup {v}, room.epoch)
               = ItemsOf(s, updates, room.epoch) \cup v.update.items
          /\ DeletedOf(s, updates \cup {v}, room.epoch)
               = DeletedOf(s, updates, room.epoch) \cup v.update.deleted
      <4>1. v.epoch = room.epoch /\ v.seq > s.through
        BY <2>2, <2>4 DEF s
      <4>2. Since(s, updates \cup {v}, room.epoch) = Since(s, updates, room.epoch) \cup {v}
        BY <4>1 DEF Since
      <4> QED
        BY <4>2 DEF ItemsOf, DeletedOf
    <3> QED
      BY <2>2, <3>1, <3>2
  <2>6. Loaded'.items = doc'.items /\ Loaded'.deleted = doc'.deleted
    BY <1>2, <1>3, <1>5, <2>5 DEF StoreInv
  <2>7. \A a \in acked' : a.epoch = roomRow'.epoch => a.items \subseteq Loaded'.items
    BY <1>1, <1>5, <2>5 DEF StoreInv
  <2>8. \A u \in updates' : u.epoch <= room'.epoch /\ (u.epoch = room'.epoch => u.seq < room'.nextSeq)
    BY <1>1, <1>5, <2>2, <2>3, Numbers DEF StoreInv
  <2>9. snapshots'[room'.epoch].through < room'.nextSeq
    <3>1. snapshots[room.epoch].through \in Nat
      BY Numbers DEF TypeInv
    <3> QED
      BY <1>1, <1>5, <3>1, Numbers DEF StoreInv
  <2> QED
    BY <1>1, <1>2, <1>5, <2>1, <2>6, <2>7, <2>8, <2>9 DEF StoreInv
<1> QED
  BY <1>1, <1>4, <1>5 DEF DocumentInv

LEMMA DocumentPromoteClosed ==
    ASSUME TypeInv, AckInv, DocumentInv, NEW d \in Device, PromoteClosed(d) PROVE DocumentInv'
<1>1. /\ Starts("promote", P6)
      /\ room'.epoch = room.epoch + 1 /\ room'.nextSeq = 1
      /\ room'.snapshot = SnapshotOf(doc', 0)
      /\ RoomOK(room')
      /\ UNCHANGED <<roomRow, snapshots, updates, acked, faults>>
  BY PromoteClosedEffect
<1>2. /\ todo' = P6 /\ job'.kind = "promote" /\ Opening' /\ room'.epoch \in Epochs
      /\ todo # P6
  BY <1>1, RoomFields, Different DEF Starts, Opening
<1>3. \A a \in acked : a.epoch # room'.epoch
  BY <1>1, Numbers DEF AckInv
<1>4. MemoryInv'
  BY <1>1, <1>2, <1>3 DEF MemoryInv
<1>5. ASSUME StoreInv
      PROVE  StoreInv'
  <2>1. ~snapshots[room'.epoch].there /\ snapshots[room'.epoch] = NoSnapshot
    BY <1>1, <1>2, <1>5, Numbers DEF StoreInv
  <2>2. \A u \in updates : u.epoch <= room'.epoch /\ u.epoch # room'.epoch
    BY <1>1, <1>5, Numbers DEF StoreInv
  <2>3. OpeningInv'
    <3>1. room'.snapshot = SnapshotOf(doc, 0)'
      BY <1>1 DEF SnapshotOf
    <3> QED
      BY <1>1, <1>3, <2>1, <2>2, <3>1 DEF OpeningInv
  <2>4. snapshots'[room'.epoch].through < room'.nextSeq
    BY <1>1, <2>1, CapturedOf
  <2>5. Loaded'.items = Loaded.items
    BY <1>1, LoadedIs
  <2>6. \A e \in Epochs : /\ snapshots'[e].there => e <= room'.epoch
                          /\ ~snapshots'[e].there => snapshots'[e] = NoSnapshot
    BY <1>1, <1>5, Numbers, Bounds DEF StoreInv, Epochs
  <2> QED
    BY <1>1, <1>2, <1>5, <2>2, <2>3, <2>4, <2>5, <2>6 DEF StoreInv
<1> QED
  BY <1>1, <1>4, <1>5 DEF DocumentInv

LEMMA DocumentPruneSuperseded ==
    ASSUME TypeInv, AckInv, DocumentInv, PruneSuperseded PROVE DocumentInv'
<1>1. /\ \A e \in Epochs :
           snapshots'[e] = IF e < roomRow.epoch THEN NoSnapshot ELSE snapshots[e]
      /\ updates' = {u \in updates : ~(u.epoch >= roomRow.epoch /\ Superseded(u))}
      /\ UNCHANGED <<roomRow, room, doc, job, todo, acked, faults>>
  BY PruneSupersededEffect
<1>2. /\ snapshots'[roomRow.epoch] = snapshots[roomRow.epoch]
      /\ snapshots'[room.epoch] = snapshots[room.epoch]
  BY <1>1, Numbers DEF AckInv
<1>3. updates' \in SUBSET updates
  BY <1>1
<1>4. \A u \in updates \ updates' :
        u.epoch = roomRow.epoch => ~(u.seq > snapshots[roomRow.epoch].through)
  <2>1. snapshots[roomRow.epoch].through \in Nat
    BY Numbers DEF TypeInv
  <2> QED
    BY <1>1, <2>1, Numbers DEF Superseded
<1>5. Loaded'.items = Loaded.items /\ Loaded'.deleted = Loaded.deleted
  BY <1>1, <1>2, <1>3, <1>4, LoadedIs, NoneMissed
<1>6. MemoryInv => MemoryInv'
  BY <1>1 DEF MemoryInv
<1>7. ASSUME StoreInv
      PROVE  StoreInv'
  <2>1. \A e \in Epochs : /\ snapshots'[e].there => e <= room.epoch
                          /\ ~snapshots'[e].there => snapshots'[e] = NoSnapshot
    BY <1>1, <1>7, CapturedOf DEF StoreInv
  <2>2. OpeningInv => OpeningInv'
    BY <1>1, <1>2, <1>3 DEF OpeningInv, SnapshotOf
  <2>3. \A u \in updates' : u.epoch <= room.epoch /\ (u.epoch = room.epoch => u.seq < room.nextSeq)
    BY <1>3, <1>7 DEF StoreInv
  <2> QED
    BY <1>1, <1>2, <1>5, <1>7, <2>1, <2>2, <2>3 DEF StoreInv, Opening
<1> QED
  BY <1>1, <1>6, <1>7 DEF DocumentInv

LEMMA DocumentCrash == ASSUME TypeInv, AckInv, DocumentInv, Crash PROVE DocumentInv'
<1>1. /\ faults' = faults + 1 /\ todo' = <<>> /\ job' = Idle
      /\ doc' = Loaded /\ room'.epoch = roomRow.epoch
      /\ UNCHANGED <<snapshots, updates, acked>> /\ faults \in Nat
  BY CrashEffect DEF TypeInv
<1>2. ASSUME faults' <= 1
      PROVE  MemoryInv'
  <2>1. StoreInv /\ job'.kind # "update"
    BY <1>1, <1>2, IdleJob DEF DocumentInv
  <2> QED
    BY <1>1, <2>1 DEF StoreInv, MemoryInv
<1> QED
  BY <1>1, <1>2 DEF DocumentInv

LEMMA DocumentFail == ASSUME TypeInv, DocumentInv, Fail PROVE DocumentInv'
<1>1. /\ faults' = faults + 1 /\ todo' = <<>> /\ job' = Idle
      /\ UNCHANGED <<room, doc, acked>> /\ faults \in Nat
  BY FailEffect DEF TypeInv
<1>2. ASSUME faults' <= 1
      PROVE  MemoryInv'
  <2>1. MemoryInv /\ job'.kind # "update"
    BY <1>1, <1>2, IdleJob DEF DocumentInv
  <2> QED
    BY <1>1, <2>1 DEF MemoryInv
<1> QED
  BY <1>1, <1>2 DEF DocumentInv

LEMMA DocumentStep ==
    ASSUME TypeInv, AckInv, DocumentInv, [Next]_roomsVars PROVE DocumentInv'
<1>1. CASE UNCHANGED roomsVars \/ FileOp \/ (\E d \in Device : Leave(d)) \/ TimerFires
  <2>1. DocumentQuiet
    BY <1>1, StutterEffect, FileOpEffect, LeaveEffect DEF DocumentQuiet
  <2> QED
    BY <2>1, DocumentStays
<1>2. CASE RestoreHistoryVersion \/ RestoreProcess \/ PruneHistory
  <2>1. DocumentQuiet
    BY <1>2, RestoreHistoryVersionEffect, RestoreProcessEffect, PruneHistoryEffect
       DEF DocumentQuiet
  <2> QED
    BY <2>1, DocumentStays
<1>3. CASE Flush \/ FlushRefused \/ JoinRoom
  <2>1. DocumentQuiet
    BY <1>3, FlushEffect, FlushRefusedEffect, JoinRoomEffect DEF DocumentQuiet
  <2> QED
    BY <2>1, DocumentStays
<1>4. ASSUME NEW d \in Device, PromoteOpen(d) \/ HandleUpdate(d) \/ Heartbeat(d)
      PROVE  DocumentInv'
  <2>1. DocumentQuiet
    BY <1>4, PromoteOpenEffect, HandleUpdateEffect, HeartbeatEffect DEF DocumentQuiet
  <2> QED
    BY <2>1, DocumentStays
<1>5. CASE CloseEmpty \/ Demote \/ CloseDeleted \/ RestoreLocked
  <2>1. DocumentQuiet
    BY <1>5, DemoteEffect, CloseDeletedEffect, RestoreLockedEffect DEF DocumentQuiet
  <2> QED
    BY <2>1, DocumentStays
<1>6. CASE LeaseLapses
  <2>1. DocumentQuiet
    BY <1>6, LeaseLapsesEffect DEF DocumentQuiet
  <2> QED
    BY <2>1, DocumentStays
<1> QED
  BY NextCases, <1>1, <1>2, <1>3, <1>4, <1>5, <1>6, DocumentSaveRoom, DocumentSaveFile,
     DocumentSnapshot, DocumentAppendUpdate, DocumentPromoteClosed, DocumentPruneSuperseded,
     DocumentCrash, DocumentFail

-----------------------------------------------------------------------------
(***************************************************************************)
(* The marks there are.                                                    *)
(***************************************************************************)
\* Every mark that was typed, without the one that is just being typed.
Known == {m \in Nat : m <= (IF todo = U3 THEN typed - 1 ELSE typed) \/ m > MaxUpdates}

Marks(items) == {i[1] : i \in items}

HistoryRows(marks) == [epoch : Epochs, seq : Nat, text : SUBSET marks]

\* A mark that is just being typed is new to the room, the file and the history.
KnownInv ==
    /\ file.text \subseteq Known /\ held.text \subseteq Known
    /\ restoring.text \subseteq Known
    /\ history \in Seq(HistoryRows(Known))
    /\ Marks(doc.items) \subseteq Known /\ Marks(room.snapshot.doc.items) \subseteq Known
    /\ \A e \in Epochs : Marks(snapshots[e].doc.items) \subseteq Known
    /\ \A u \in updates : Marks(u.update.items) \subseteq Known
    /\ job.kind = "restore" => Marks(job.update.items) \subseteq Known
    /\ todo = U3 => typed > 0 /\ job.update = Inserted({typed}, "typed", 0)

\* In a set of numbers there is one of every rank.
LEMMA RankTaken ==
    ASSUME NEW K \in SUBSET Nat, IsFiniteSet(K), NEW i \in 1 .. Cardinality(K)
    PROVE  \E k \in K : Cardinality({j \in K : j <= k}) = i
<1> DEFINE n == Cardinality(K)
           upto(k) == {j \in K : j <= k}
           rank == [k \in K |-> Cardinality(upto(k))]
           others == (1 .. n) \ {i}
<1>1. n \in Nat
  BY FS_CardinalityType
<1>2. ASSUME NEW k \in K
      PROVE  IsFiniteSet(upto(k)) /\ rank[k] \in 1 .. n
  <2>1. /\ IsFiniteSet(upto(k)) /\ Cardinality(upto(k)) <= n /\ Cardinality(upto(k)) \in Nat
    BY FS_Subset, FS_CardinalityType
  <2>2. k \in upto(k)
    OBVIOUS
  <2>3. Cardinality(upto(k)) # 0
    BY <2>1, <2>2, FS_EmptySet
  <2> QED
    BY <1>1, <2>1, <2>3
<1>3. ASSUME NEW j \in K, NEW k \in K, j < k
      PROVE  rank[j] # rank[k]
  <2>0. j \in Int /\ k \in Int /\ \A m \in K : m \in Int
    OBVIOUS
  <2>1. upto(j) \in SUBSET upto(k) /\ k \in upto(k) /\ k \notin upto(j)
    <3>1. \A m \in K : m <= j => m <= k
      BY <1>3, <2>0
    <3>2. k <= k /\ ~(k <= j)
      BY <1>3, <2>0
    <3> QED
      BY <3>1, <3>2
  <2>2. Cardinality(upto(j)) # Cardinality(upto(k))
    BY <1>2, <2>1, FS_Subset
  <2> QED
    BY <2>2
<1>4. \A j, k \in K : j # k => rank[j] # rank[k]
  <2> SUFFICES ASSUME NEW j \in K, NEW k \in K, j # k PROVE rank[j] # rank[k]
    OBVIOUS
  <2>1. j < k \/ k < j
    OBVIOUS
  <2> QED
    BY <1>3, <2>1
<1>5. IsFiniteSet(others) /\ Cardinality(others) < n
  <2>1. IsFiniteSet(1 .. n) /\ Cardinality(1 .. n) = n
    BY <1>1, FS_Interval
  <2>2. i \in 1 .. n
    OBVIOUS
  <2> DEFINE all == 1 .. n
  <2> HIDE DEF n, all
  <2>3. IsFiniteSet(all) /\ Cardinality(all) = n /\ i \in all
    BY <2>1, <2>2 DEF all
  <2>4. IsFiniteSet(all \ {i}) /\ Cardinality(all \ {i}) = n - 1
    BY <2>3, FS_RemoveElement
  <2> QED
    BY <1>1, <2>4 DEF all
<1>6. SUFFICES ASSUME ~\E k \in K : Cardinality(upto(k)) = i
               PROVE  FALSE
  OBVIOUS
<1>7. rank \in [K -> others]
  <2>1. \A k \in K : rank[k] = Cardinality(upto(k)) /\ rank[k] \in 1 .. n /\ rank[k] # i
    BY <1>2, <1>6
  <2> QED
    BY <2>1
<1> HIDE DEF n, upto, rank, others
<1>8. \E j, k \in K : j # k /\ rank[j] = rank[k]
  BY <1>5, <1>7, FS_PigeonHole DEF n
<1> QED
  BY <1>4, <1>8

\* What is put in, merged and loaded.
LEMMA MarksOf ==
    /\ Marks({}) = {} /\ EmptyDoc.items = {} /\ EmptyDoc.deleted = {}
    /\ \A a, b : Marks(a \cup b) = Marks(a) \cup Marks(b)
    /\ \A text, how, n : /\ Marks(Inserted(text, how, n).items) = text
                         /\ Inserted(text, how, n).deleted = {}
    /\ \A d : Text(d) \subseteq Marks(d.items)
<1>1. Marks({}) = {} /\ EmptyDoc.items = {} /\ EmptyDoc.deleted = {}
  BY DEF Marks, EmptyDoc
<1>2. \A a, b : Marks(a \cup b) = Marks(a) \cup Marks(b)
  BY DEF Marks
<1>3. ASSUME NEW text, NEW how, NEW n
      PROVE  Marks(Inserted(text, how, n).items) = text /\ Inserted(text, how, n).deleted = {}
  <2>1. Inserted(text, how, n).items = {<<m, how, n>> : m \in text}
        /\ Inserted(text, how, n).deleted = {}
    BY DEF Inserted
  <2>2. \A m : <<m, how, n>>[1] = m
    OBVIOUS
  <2>3. Marks({<<m, how, n>> : m \in text}) = text
    BY <2>2 DEF Marks
  <2> QED
    BY <2>1, <2>3
<1>4. \A d : Text(d) \subseteq Marks(d.items)
  BY DEF Text, Marks
<1> QED
  BY <1>1, <1>2, <1>3, <1>4

LEMMA MarksLoaded ==
    ASSUME TypeInv, KnownInv
    PROVE  Marks(Loaded.items) \subseteq Known
<1> SUFFICES ASSUME NEW i \in Loaded.items PROVE i[1] \in Known
  BY DEF Marks
<1>1. roomRow.epoch \in Epochs
  BY Numbers
<1>2. i \in snapshots[roomRow.epoch].doc.items \/ \E u \in updates : i \in u.update.items
  BY LoadedIs DEF ItemsOf, Since
<1> QED
  BY <1>1, <1>2 DEF KnownInv, Marks

\* The marks there are stay.
LEMMA KnownGrows ==
    ASSUME TypeInv, typed' = typed, todo' = U3 => todo = U3
    PROVE  Known \subseteq Known'
<1>1. typed \in Nat
  BY Bounds DEF TypeInv
<1>2. \A m \in Nat : m <= typed - 1 => m <= typed
  BY <1>1
<1> QED
  BY <1>2 DEF Known

LEMMA KnownZero ==
    ASSUME TypeInv, KnownInv
    PROVE  NewFile.text \subseteq Known
<1>1. typed \in Nat /\ (todo = U3 => typed - 1 \in Nat)
  BY Bounds DEF TypeInv, KnownInv
<1>2. 0 \in Known
  BY <1>1 DEF Known
<1> QED
  BY <1>2, NewFileOK

LEMMA HistoryGrows ==
    ASSUME NEW K, NEW L, K \subseteq L, NEW h \in Seq(HistoryRows(K))
    PROVE  h \in Seq(HistoryRows(L))
<1>1. HistoryRows(K) \subseteq HistoryRows(L)
  BY DEF HistoryRows
<1> QED
  BY <1>1, SeqMonotonic

\* Steps that bring no mark into the document, the store or the history.
KnownQuiet ==
    /\ UNCHANGED <<snapshots, updates, history, doc, typed>>
    /\ room'.snapshot = room.snapshot
    /\ file'.text \subseteq Known /\ held'.text \subseteq Known /\ restoring'.text \subseteq Known
    /\ todo' = U3 => todo = U3 /\ job' = job
    /\ job'.kind = "restore" => job' = job

LEMMA KnownStays == ASSUME TypeInv, KnownInv, KnownQuiet PROVE KnownInv'
<1>1. Known \subseteq Known'
  BY KnownGrows DEF KnownQuiet
<1>2. history \in Seq(HistoryRows(Known'))
  BY <1>1, HistoryGrows DEF KnownInv
<1>3. history' \in Seq(HistoryRows(Known)')
  BY <1>2 DEF KnownQuiet, HistoryRows, Epochs
<1>4. /\ file'.text \subseteq Known' /\ held'.text \subseteq Known'
      /\ restoring'.text \subseteq Known'
      /\ Marks(doc'.items) \subseteq Known' /\ Marks(room'.snapshot.doc.items) \subseteq Known'
  BY <1>1 DEF KnownInv, KnownQuiet
<1>5. /\ \A e \in Epochs : Marks(snapshots'[e].doc.items) \subseteq Known'
      /\ \A u \in updates' : Marks(u.update.items) \subseteq Known'
  BY <1>1 DEF KnownInv, KnownQuiet
<1>6. job'.kind = "restore" => Marks(job'.update.items) \subseteq Known'
  BY <1>1 DEF KnownInv, KnownQuiet
<1>7. todo' = U3 => typed' > 0 /\ job'.update = Inserted({typed'}, "typed", 0)
  BY DEF KnownInv, KnownQuiet
<1>8. Marks(doc.items)' = Marks(doc'.items)
  BY DEF Marks
<1> QED
  BY <1>3, <1>4, <1>5, <1>6, <1>7 DEF KnownInv, Marks, Inserted

\* The invariant after a step, part by part.
LEMMA KnownMake ==
    ASSUME NEW K, K = Known',
           file'.text \subseteq K, held'.text \subseteq K, restoring'.text \subseteq K,
           history' \in Seq(HistoryRows(K)),
           Marks(doc'.items) \subseteq K, Marks(room'.snapshot.doc.items) \subseteq K,
           \A e \in Epochs : Marks(snapshots'[e].doc.items) \subseteq K,
           \A u \in updates' : Marks(u.update.items) \subseteq K,
           job'.kind = "restore" => Marks(job'.update.items) \subseteq K,
           todo' = U3 => typed' > 0 /\ job'.update = Inserted({typed'}, "typed", 0)
    PROVE  KnownInv'
<1>1. history' \in Seq(HistoryRows(Known)')
  BY DEF HistoryRows, Epochs
<1> QED
  BY <1>1 DEF KnownInv, Marks, Inserted, Epochs

\* What was there is there after the step.
LEMMA KnownStill ==
    ASSUME TypeInv, KnownInv, NEW K, Known \subseteq K
    PROVE  /\ file.text \subseteq K /\ held.text \subseteq K /\ restoring.text \subseteq K
           /\ history \in Seq(HistoryRows(K))
           /\ Marks(doc.items) \subseteq K /\ Marks(room.snapshot.doc.items) \subseteq K
           /\ \A e \in Epochs : Marks(snapshots[e].doc.items) \subseteq K
           /\ \A u \in updates : Marks(u.update.items) \subseteq K
           /\ job.kind = "restore" => Marks(job.update.items) \subseteq K
           /\ Marks(Loaded.items) \subseteq K /\ NewFile.text \subseteq K
BY HistoryGrows, MarksLoaded, KnownZero DEF KnownInv

LEMMA KnownInit == Init => KnownInv
<1> SUFFICES ASSUME Init PROVE KnownInv
  OBVIOUS
<1>1. /\ file = NewFile /\ held = NewFile /\ restoring = NotRestoring /\ history = <<>>
      /\ doc = EmptyDoc /\ room = EmptyRoom /\ snapshots = [e \in Epochs |-> NoSnapshot]
      /\ updates = {} /\ job = Idle /\ todo = <<>> /\ typed = 0
  BY DEF Init, RoomsInit, Epochs
<1>2. todo # U3
  BY <1>1, Different
<1>3. 0 \in Known
  BY <1>1, <1>2 DEF Known
<1>4. history \in Seq(HistoryRows(Known))
  BY <1>1
<1>5. restoring.text = {}
  BY <1>1 DEF NotRestoring
<1>6. room.snapshot = NoSnapshot
  BY <1>1 DEF EmptyRoom
<1>7. /\ Marks(doc.items) = {} /\ Marks(room.snapshot.doc.items) = {}
      /\ \A e \in Epochs : Marks(snapshots[e].doc.items) = {}
  BY <1>1, <1>6, MarksOf, CapturedOf
<1> QED
  BY <1>1, <1>2, <1>3, <1>4, <1>5, <1>7, NewFileOK, IdleJob DEF KnownInv

LEMMA KnownSnapshot ==
    ASSUME TypeInv, KnownInv, CaptureSnapshot \/ ActivationSnapshot
    PROVE  KnownInv'
<1> DEFINE K == Known'
<1>1. /\ Moves(C3, S2) \/ Moves(P4, P3)
      /\ UNCHANGED <<file, updates, doc, held, restoring, typed>>
  BY CaptureSnapshotEffect, ActivationSnapshotEffect
<1>2. job' = job /\ todo' # U3
  BY <1>1, Different DEF Moves
<1>3. Known \subseteq K
  BY <1>1, <1>2, KnownGrows
<1>4. K = Known'
  OBVIOUS
<1> HIDE DEF K
<1>5. PICK s : /\ StoreSnapshot(s) /\ s.through \in Nat
               /\ Marks(s.doc.items) \subseteq K /\ room'.snapshot = s
  <2>1. CASE CaptureSnapshot
    <3>1. StoreSnapshot(Captured) /\ room'.snapshot = Captured /\ room.nextSeq - 1 \in Nat
      BY <2>1, CaptureSnapshotEffect, Numbers
    <3>2. Captured.through \in Nat /\ Marks(Captured.doc.items) \subseteq K
      BY <1>3, <3>1, CapturedOf, KnownStill
    <3> QED
      BY <3>1, <3>2
  <2>2. CASE ActivationSnapshot
    <3>1. StoreSnapshot(room.snapshot) /\ room'.snapshot = room.snapshot
      BY <2>2, ActivationSnapshotEffect
    <3>2. room.snapshot.through \in Nat /\ Marks(room.snapshot.doc.items) \subseteq K
      BY <1>3, KnownStill DEF TypeInv
    <3> QED
      BY <3>1, <3>2
  <2> QED
    BY <2>1, <2>2
<1>6. \A e \in Epochs : Marks(snapshots'[e].doc.items) \subseteq K
  <2>1. /\ snapshots'[room.epoch] = s
        /\ \A e \in Epochs : e # room.epoch => snapshots'[e] = snapshots[e]
    BY <1>5, StoredSnapshots
  <2> QED
    BY <1>3, <1>5, <2>1, KnownStill
<1>7. history' \in Seq(HistoryRows(K))
  <2> DEFINE row == [epoch |-> room.epoch, seq |-> s.through, text |-> Text(s.doc)]
  <2>1. history' = Append(history, row)
    BY <1>5 DEF StoreSnapshot
  <2>2. row \in HistoryRows(K)
    BY <1>5, MarksOf, Numbers DEF HistoryRows
  <2> HIDE DEF row
  <2>3. history \in Seq(HistoryRows(K))
    BY <1>3, KnownStill
  <2> QED
    BY <2>1, <2>2, <2>3, AppendProperties
<1>8. /\ file'.text \subseteq K /\ held'.text \subseteq K /\ restoring'.text \subseteq K
      /\ Marks(doc'.items) \subseteq K
      /\ \A u \in updates' : Marks(u.update.items) \subseteq K
      /\ job'.kind = "restore" => Marks(job'.update.items) \subseteq K
  BY <1>1, <1>2, <1>3, KnownStill
<1>9. Marks(room'.snapshot.doc.items) \subseteq K
  BY <1>5
<1> QED
  BY <1>2, <1>4, <1>6, <1>7, <1>8, <1>9, KnownMake

LEMMA KnownAppendUpdate == ASSUME TypeInv, KnownInv, AppendUpdate PROVE KnownInv'
<1> DEFINE K == Known'
<1>1. /\ \/ Moves(U3, S2) /\ job.kind = "update"
         \/ Moves(U3, C3) /\ job.kind = "update"
         \/ Moves(R4, C3) /\ job.kind = "restore"
      /\ updates' = Stored(job.update) /\ doc' = Merged(doc, job.update)
      /\ room'.snapshot = room.snapshot
      /\ UNCHANGED <<file, snapshots, history, held, restoring, typed>>
  BY AppendUpdateEffect
<1>2. job' = job /\ todo' # U3 /\ (todo = U3 \/ job.kind = "restore")
  BY <1>1, Different DEF Moves
<1>3. Known \subseteq K
  BY <1>1, <1>2, KnownGrows
<1>4. typed \in K
  BY <1>1, <1>2, Bounds DEF Known, TypeInv
<1>5. K = Known'
  OBVIOUS
<1> HIDE DEF K
<1>6. Marks(job.update.items) \subseteq K
  <2>1. CASE todo = U3
    <3>1. job.update = Inserted({typed}, "typed", 0)
      BY <2>1 DEF KnownInv
    <3>2. Marks(job.update.items) = {typed}
      BY <3>1, MarksOf
    <3> QED
      BY <1>4, <3>2
  <2>2. CASE job.kind = "restore"
    BY <1>3, <2>2, KnownStill
  <2> QED
    BY <1>2, <2>1, <2>2
<1>7. Marks(doc'.items) \subseteq K
  <2>1. doc'.items = doc.items \cup job.update.items
    BY <1>1 DEF Merged
  <2>2. Marks(doc.items) \subseteq K
    BY <1>3, KnownStill
  <2> QED
    BY <1>6, <2>1, <2>2, MarksOf
<1>8. \A u \in updates' : Marks(u.update.items) \subseteq K
  <2>1. \A u \in updates' : u \in updates \/ u.update = job.update
    BY <1>1 DEF Stored
  <2> QED
    BY <1>3, <1>6, <2>1, KnownStill
<1>9. /\ file'.text \subseteq K /\ held'.text \subseteq K /\ restoring'.text \subseteq K
      /\ history' \in Seq(HistoryRows(K))
      /\ Marks(room'.snapshot.doc.items) \subseteq K
      /\ \A e \in Epochs : Marks(snapshots'[e].doc.items) \subseteq K
  BY <1>1, <1>3, KnownStill
<1> QED
  BY <1>2, <1>5, <1>6, <1>7, <1>8, <1>9, KnownMake

LEMMA KnownPromoteClosed ==
    ASSUME TypeInv, KnownInv, NEW d \in Device, PromoteClosed(d) PROVE KnownInv'
<1> DEFINE K == Known'
<1>1. /\ Starts("promote", P6) /\ doc' = FirstDoc /\ room'.snapshot = SnapshotOf(doc', 0)
      /\ UNCHANGED <<file, snapshots, updates, history, held, restoring, typed>>
  BY PromoteClosedEffect
<1>2. job'.kind # "restore" /\ todo' # U3
  BY <1>1, Different DEF Starts
<1>3. Known \subseteq K
  BY <1>1, <1>2, KnownGrows
<1>4. K = Known'
  OBVIOUS
<1> HIDE DEF K
<1>5. Marks(doc'.items) \subseteq K
  <2>1. CASE room.snapshot.there
    BY <1>1, <1>3, <2>1, KnownStill DEF FirstDoc
  <2>2. CASE ~room.snapshot.there
    <3>1. Marks(doc'.items) = file.text
      BY <1>1, <2>2, MarksOf DEF FirstDoc
    <3> QED
      BY <1>3, <3>1, KnownStill
  <2> QED
    BY <2>1, <2>2
<1>6. Marks(room'.snapshot.doc.items) \subseteq K
  BY <1>1, <1>5, CapturedOf
<1>7. /\ file'.text \subseteq K /\ held'.text \subseteq K /\ restoring'.text \subseteq K
      /\ history' \in Seq(HistoryRows(K))
      /\ \A e \in Epochs : Marks(snapshots'[e].doc.items) \subseteq K
      /\ \A u \in updates' : Marks(u.update.items) \subseteq K
  BY <1>1, <1>3, KnownStill
<1> QED
  BY <1>2, <1>4, <1>5, <1>6, <1>7, KnownMake

LEMMA KnownHandleUpdate ==
    ASSUME TypeInv, KnownInv, NEW d \in Device, HandleUpdate(d) PROVE KnownInv'
<1> DEFINE K == Known'
<1>1. /\ Starts("update", U3) /\ typed' = typed + 1
      /\ job'.update = Inserted({typed + 1}, "typed", 0)
      /\ UNCHANGED <<file, snapshots, updates, history, room, doc, held, restoring>>
  BY HandleUpdateEffect
<1>2. job'.kind # "restore" /\ todo' = U3 /\ todo # U3 /\ typed \in Nat
  BY <1>1, Bounds, Different DEF Starts, TypeInv
<1>3. Known \subseteq K
  <2>1. Known = {m \in Nat : m <= typed \/ m > MaxUpdates}
    BY <1>2 DEF Known
  <2>2. Known' = {m \in Nat : m <= typed + 1 - 1 \/ m > MaxUpdates}
    BY <1>1, <1>2 DEF Known
  <2>3. typed + 1 - 1 = typed
    BY <1>2
  <2> QED
    BY <2>1, <2>2, <2>3
<1>4. K = Known'
  OBVIOUS
<1> HIDE DEF K
<1>5. typed' > 0 /\ job'.update = Inserted({typed'}, "typed", 0)
  BY <1>1, <1>2
<1>6. /\ file'.text \subseteq K /\ held'.text \subseteq K /\ restoring'.text \subseteq K
      /\ history' \in Seq(HistoryRows(K))
      /\ Marks(doc'.items) \subseteq K /\ Marks(room'.snapshot.doc.items) \subseteq K
      /\ \A e \in Epochs : Marks(snapshots'[e].doc.items) \subseteq K
      /\ \A u \in updates' : Marks(u.update.items) \subseteq K
  BY <1>1, <1>3, KnownStill
<1> QED
  BY <1>2, <1>4, <1>5, <1>6, KnownMake

LEMMA KnownRestoreLocked == ASSUME TypeInv, KnownInv, RestoreLocked PROVE KnownInv'
<1> DEFINE K == Known'
<1>1. /\ Starts("restore", R4) /\ restoring'.text = {}
      /\ job'.update.items = Inserted(restoring.text, "restored", restores).items
      /\ UNCHANGED <<file, snapshots, updates, history, room, doc, held, typed>>
  BY RestoreLockedEffect
<1>2. todo' # U3
  BY <1>1, Different DEF Starts
<1>3. Known \subseteq K
  BY <1>1, <1>2, KnownGrows
<1>4. K = Known'
  OBVIOUS
<1> HIDE DEF K
<1>5. Marks(job'.update.items) \subseteq K
  <2>1. Marks(job'.update.items) = restoring.text
    BY <1>1, MarksOf
  <2> QED
    BY <1>3, <2>1, KnownStill
<1>6. /\ file'.text \subseteq K /\ held'.text \subseteq K /\ restoring'.text \subseteq K
      /\ history' \in Seq(HistoryRows(K))
      /\ Marks(doc'.items) \subseteq K /\ Marks(room'.snapshot.doc.items) \subseteq K
      /\ \A e \in Epochs : Marks(snapshots'[e].doc.items) \subseteq K
      /\ \A u \in updates' : Marks(u.update.items) \subseteq K
  BY <1>1, <1>3, KnownStill
<1> QED
  BY <1>2, <1>4, <1>5, <1>6, KnownMake

\* The rows that are kept are rows that there were.
LEMMA KnownPruneHistory == ASSUME TypeInv, KnownInv, PruneHistory PROVE KnownInv'
<1> DEFINE K == Known'
<1>1. UNCHANGED <<file, snapshots, updates, room, doc, job, todo, held, restoring, typed>>
  BY PruneHistoryEffect
<1>2. Known \subseteq K
  BY <1>1, KnownGrows
<1>3. K = Known'
  OBVIOUS
<1> HIDE DEF K
<1>4. history \in Seq(HistoryRows(K)) /\ Len(history) \in Nat
  BY <1>2, KnownStill, LenProperties
<1>5. Kept \subseteq 1 .. Len(history)
  BY DEF Kept
<1>6. /\ IsFiniteSet(1 .. Len(history)) /\ 1 .. Len(history) \in SUBSET Nat
      /\ IsFiniteSet(Kept) /\ Kept \in SUBSET Nat /\ Cardinality(Kept) \in Nat
  <2>1. IsFiniteSet(1 .. Len(history)) /\ 1 .. Len(history) \in SUBSET Nat
    BY <1>4, FS_Interval
  <2>2. IsFiniteSet(Kept)
    BY <1>5, <2>1, FS_Subset
  <2> QED
    BY <1>5, <2>1, <2>2, FS_CardinalityType
<1>7. \A i \in 1 .. Cardinality(Kept) :
        (CHOOSE k \in Kept : Cardinality({j \in Kept : j <= k}) = i) \in Kept
  BY <1>6, RankTaken
<1>8. history' \in [1 .. Cardinality(Kept) -> HistoryRows(K)]
  <2>1. \A k \in Kept : history[k] \in HistoryRows(K)
    BY <1>4, <1>5, ElementOfSeq
  <2>2. history' = [i \in 1 .. Cardinality(Kept) |->
                      history[CHOOSE k \in Kept : Cardinality({j \in Kept : j <= k}) = i]]
    BY DEF PruneHistory
  <2> HIDE DEF K
  <2> QED
    BY <1>7, <2>1, <2>2
<1>9. history' \in Seq(HistoryRows(K))
  BY <1>6, <1>8, SeqDef
<1>10. /\ file'.text \subseteq K /\ held'.text \subseteq K /\ restoring'.text \subseteq K
       /\ Marks(doc'.items) \subseteq K /\ Marks(room'.snapshot.doc.items) \subseteq K
       /\ \A e \in Epochs : Marks(snapshots'[e].doc.items) \subseteq K
       /\ \A u \in updates' : Marks(u.update.items) \subseteq K
       /\ job'.kind = "restore" => Marks(job'.update.items) \subseteq K
  BY <1>1, <1>2, KnownStill
<1>11. todo' = U3 => typed' > 0 /\ job'.update = Inserted({typed'}, "typed", 0)
  BY <1>1 DEF KnownInv
<1> QED
  BY <1>3, <1>9, <1>10, <1>11, KnownMake

LEMMA KnownPruneSuperseded == ASSUME TypeInv, KnownInv, PruneSuperseded PROVE KnownInv'
<1> DEFINE K == Known'
<1>1. /\ \A e \in Epochs :
           snapshots'[e] = IF e < roomRow.epoch THEN NoSnapshot ELSE snapshots[e]
      /\ updates' \subseteq updates
      /\ UNCHANGED <<file, history, room, doc, job, todo, held, restoring, typed>>
  BY PruneSupersededEffect
<1>2. Known \subseteq K
  BY <1>1, KnownGrows
<1>3. K = Known'
  OBVIOUS
<1> HIDE DEF K
<1>4. \A e \in Epochs : Marks(snapshots'[e].doc.items) \subseteq K
  BY <1>1, <1>2, KnownStill, CapturedOf, MarksOf
<1>5. /\ file'.text \subseteq K /\ held'.text \subseteq K /\ restoring'.text \subseteq K
      /\ history' \in Seq(HistoryRows(K))
      /\ Marks(doc'.items) \subseteq K /\ Marks(room'.snapshot.doc.items) \subseteq K
      /\ \A u \in updates' : Marks(u.update.items) \subseteq K
      /\ job'.kind = "restore" => Marks(job'.update.items) \subseteq K
  BY <1>1, <1>2, KnownStill
<1>6. todo' = U3 => typed' > 0 /\ job'.update = Inserted({typed'}, "typed", 0)
  BY <1>1 DEF KnownInv
<1> QED
  BY <1>3, <1>4, <1>5, <1>6, KnownMake

LEMMA KnownCrash == ASSUME TypeInv, KnownInv, Crash PROVE KnownInv'
<1> DEFINE K == Known'
<1>1. /\ todo' = <<>> /\ job' = Idle /\ held' = NewFile /\ doc' = Loaded
      /\ room'.snapshot = snapshots[roomRow.epoch] /\ restoring'.text = {}
      /\ UNCHANGED <<file, snapshots, updates, history, typed>>
  BY CrashEffect
<1>2. todo' # U3 /\ job'.kind # "restore"
  BY <1>1, Different, IdleJob
<1>3. Known \subseteq K
  BY <1>1, <1>2, KnownGrows
<1>4. K = Known'
  OBVIOUS
<1> HIDE DEF K
<1>5. /\ file'.text \subseteq K /\ held'.text \subseteq K /\ restoring'.text \subseteq K
      /\ history' \in Seq(HistoryRows(K))
      /\ Marks(doc'.items) \subseteq K
      /\ \A e \in Epochs : Marks(snapshots'[e].doc.items) \subseteq K
      /\ \A u \in updates' : Marks(u.update.items) \subseteq K
  BY <1>1, <1>3, KnownStill
<1>6. Marks(room'.snapshot.doc.items) \subseteq K
  BY <1>1, <1>5, Numbers
<1> QED
  BY <1>2, <1>4, <1>5, <1>6, KnownMake

LEMMA KnownStep == ASSUME TypeInv, KnownInv, [Next]_roomsVars PROVE KnownInv'
<1>0. /\ file.text \subseteq Known /\ held.text \subseteq Known /\ restoring.text \subseteq Known
      /\ NewFile.text \subseteq Known
  BY KnownZero DEF KnownInv
<1>1. CASE UNCHANGED roomsVars \/ (\E d \in Device : Leave(d)) \/ TimerFires
  <2>1. KnownQuiet
    BY <1>0, <1>1, StutterEffect, LeaveEffect DEF KnownQuiet
  <2> QED
    BY <2>1, KnownStays
<1>2. CASE FileOp
  <2>1. /\ file'.text \subseteq file.text \cup {m \in Nat : m > MaxUpdates}
        /\ UNCHANGED <<snapshots, updates, history, room, doc, job, todo, held, restoring, typed>>
    BY <1>2, FileOpEffect
  <2>2. file'.text \subseteq Known
    BY <1>0, <2>1 DEF Known
  <2>3. KnownQuiet
    BY <1>0, <2>1, <2>2 DEF KnownQuiet
  <2> QED
    BY <2>3, KnownStays
<1>3. CASE SaveRoom
  <2>1. /\ Moves(P6, P5) \/ Moves(P3, P2) \/ Moves(S2, S1)
        /\ held' = file
        /\ UNCHANGED <<file, snapshots, updates, history, room, doc, restoring, typed>>
    BY <1>3, SaveRoomEffect
  <2>2. job' = job /\ todo' # U3
    BY <2>1, Different DEF Moves
  <2>3. KnownQuiet
    BY <1>0, <2>1, <2>2 DEF KnownQuiet
  <2> QED
    BY <2>3, KnownStays
<1>4. CASE SaveFile
  <2>1. /\ Moves(P5, P4) \/ Moves(P2, P1) \/ Moves(S1, <<>>)
        /\ held' = NewFile /\ file'.text = held.text /\ room'.snapshot = room.snapshot
        /\ UNCHANGED <<snapshots, updates, history, doc, restoring, typed>>
    BY <1>4, SaveFileEffect
  <2>2. todo' # U3 /\ (job' = job \/ job'.kind # "restore")
    BY <2>1, Different, IdleJob DEF Moves
  <2>3. KnownQuiet
    BY <1>0, <2>1, <2>2 DEF KnownQuiet
  <2> QED
    BY <2>3, KnownStays
<1>5. CASE Flush
  <2>1. /\ Moves(D4, C3) /\ file'.text \in {FlushText, file.text}
        /\ UNCHANGED <<snapshots, updates, history, room, doc, held, restoring, typed>>
    BY <1>5, FlushEffect
  <2>2. todo' # U3 /\ job' = job
    BY <2>1, Different DEF Moves
  <2>3. FlushText \subseteq Known
    BY MarksOf DEF FlushText, KnownInv
  <2>4. KnownQuiet
    BY <1>0, <2>1, <2>2, <2>3 DEF KnownQuiet
  <2> QED
    BY <2>4, KnownStays
<1>6. CASE FlushRefused \/ JoinRoom
  <2>1. /\ Moves(D4, <<>>) \/ Moves(P1, <<>>)
        /\ UNCHANGED <<file, snapshots, updates, history, room, doc, held, restoring, typed>>
    BY <1>6, FlushRefusedEffect, JoinRoomEffect
  <2>2. todo' # U3 /\ job'.kind # "restore"
    BY <2>1, Different, IdleJob DEF Moves
  <2>3. KnownQuiet
    BY <1>0, <2>1, <2>2 DEF KnownQuiet
  <2> QED
    BY <2>3, KnownStays
<1>7. ASSUME NEW d \in Device, PromoteOpen(d) \/ Heartbeat(d) PROVE KnownInv'
  <2>1. /\ Starts("promote", P3) \/ Starts("heartbeat", S2)
        /\ room'.snapshot = room.snapshot
        /\ UNCHANGED <<file, snapshots, updates, history, doc, held, restoring, typed>>
    BY <1>7, PromoteOpenEffect, HeartbeatEffect
  <2>2. todo' # U3 /\ job'.kind # "restore"
    BY <2>1, Different DEF Starts
  <2>3. KnownQuiet
    BY <1>0, <2>1, <2>2 DEF KnownQuiet
  <2> QED
    BY <2>3, KnownStays
<1>8. CASE CloseEmpty \/ Demote \/ CloseDeleted
  <2>1. /\ UNCHANGED <<job, todo>> \/ Starts("demote", D4) \/ Starts("delete", S2)
        /\ room'.snapshot = room.snapshot
        /\ UNCHANGED <<file, snapshots, updates, history, doc, held, restoring, typed>>
    BY <1>8, DemoteEffect, CloseDeletedEffect
  <2>2. UNCHANGED <<job, todo>> \/ (todo' # U3 /\ job'.kind # "restore")
    BY <2>1, Different DEF Starts
  <2>3. KnownQuiet
    BY <1>0, <2>1, <2>2 DEF KnownQuiet
  <2> QED
    BY <2>3, KnownStays
<1>9. CASE RestoreHistoryVersion
  <2>1. /\ \E i \in 1 .. Len(history) : restoring'.text = history[i].text
        /\ UNCHANGED <<file, snapshots, updates, history, room, doc, job, todo, held, typed>>
    BY <1>9, RestoreHistoryVersionEffect
  <2>2. \A i \in 1 .. Len(history) : history[i].text \subseteq Known
    <3>1. \A i \in 1 .. Len(history) : history[i] \in HistoryRows(Known)
      BY ElementOfSeq DEF KnownInv
    <3> QED
      BY <3>1 DEF HistoryRows
  <2>3. KnownQuiet
    BY <1>0, <2>1, <2>2 DEF KnownQuiet
  <2> QED
    BY <2>3, KnownStays
<1>10. CASE RestoreProcess
  <2>1. /\ file'.text \in {restoring.text, file.text} /\ restoring'.text \subseteq restoring.text
        /\ UNCHANGED <<snapshots, updates, history, room, doc, job, todo, held, typed>>
    BY <1>10, RestoreProcessEffect
  <2>2. KnownQuiet
    BY <1>0, <2>1 DEF KnownQuiet
  <2> QED
    BY <2>2, KnownStays
<1>11. CASE LeaseLapses
  <2>1. KnownQuiet
    BY <1>0, <1>11, LeaseLapsesEffect DEF KnownQuiet
  <2> QED
    BY <2>1, KnownStays
<1>12. CASE Fail
  <2>1. todo' # U3 /\ job'.kind # "restore"
    BY <1>12, FailEffect, Different, IdleJob
  <2>2. KnownQuiet
    BY <1>0, <1>12, <2>1, FailEffect DEF KnownQuiet
  <2> QED
    BY <2>2, KnownStays
<1> QED
  BY NextCases, <1>1, <1>2, <1>3, <1>4, <1>5, <1>6, <1>7, <1>8, <1>9, <1>10, <1>11, <1>12,
     KnownSnapshot, KnownAppendUpdate, KnownPromoteClosed, KnownHandleUpdate,
     KnownRestoreLocked, KnownPruneHistory, KnownPruneSuperseded, KnownCrash

-----------------------------------------------------------------------------
(***************************************************************************)
(* The text.                                                               *)
(***************************************************************************)
Single(d) == \A i, j \in d.items \ d.deleted : i[1] = j[1] => i = j

\* What may become the document has no mark twice.  The update of a restored
\* version takes away all that there is when it is appended.
TextInv ==
    /\ faults <= 1 =>
         /\ Single(doc) /\ Single(room.snapshot.doc)
         /\ \A e \in Epochs : Single(snapshots[e].doc)
    /\ faults = 0 => Single(Loaded)
    /\ todo = R4 => Single(job.update) /\ job.update.deleted = doc.items

LEMMA SingleOf ==
    /\ Single(EmptyDoc)
    /\ \A d, items, deleted : d.items = items /\ d.deleted = deleted =>
         (Single(d) <=> \A i, j \in items \ deleted : i[1] = j[1] => i = j)
    /\ \A text, how, n : Single(Inserted(text, how, n))
<1>1. Single(EmptyDoc)
  BY MarksOf DEF Single
<1>2. ASSUME NEW text, NEW how, NEW n
      PROVE  Single(Inserted(text, how, n))
  <2>1. Inserted(text, how, n).items = {<<m, how, n>> : m \in text}
    BY DEF Inserted
  <2>2. \A m : <<m, how, n>>[1] = m
    OBVIOUS
  <2> QED
    BY <2>1, <2>2 DEF Single
<1> QED
  BY <1>1, <1>2 DEF Single

\* Two documents with the same items.
LEMMA SingleSame ==
    ASSUME NEW d, NEW e, d.items = e.items, d.deleted = e.deleted, Single(e)
    PROVE  Single(d)
BY DEF Single

LEMMA TextInit == Init => TextInv
<1> SUFFICES ASSUME Init PROVE TextInv
  OBVIOUS
<1>1. /\ roomRow = Persisted(EmptyRoom) /\ snapshots = [e \in Epochs |-> NoSnapshot]
      /\ updates = {} /\ room = EmptyRoom /\ doc = EmptyDoc /\ todo = <<>>
  BY DEF Init, RoomsInit, Epochs
<1>2. /\ roomRow.epoch = 0 /\ room.snapshot = NoSnapshot /\ 0 \in Epochs
  BY <1>1, Bounds DEF Persisted, EmptyRoom, Epochs
<1>3. Single(Loaded)
  <2>1. /\ Loaded.items = ItemsOf(NoSnapshot, {}, 0)
        /\ Loaded.deleted = DeletedOf(NoSnapshot, {}, 0)
    BY <1>1, <1>2, LoadedIs
  <2>2. Loaded.items = EmptyDoc.items /\ Loaded.deleted = EmptyDoc.deleted
    BY <2>1, NothingSince, CapturedOf
  <2> QED
    BY <2>2, SingleOf, SingleSame
<1> QED
  BY <1>1, <1>2, <1>3, SingleOf, CapturedOf, Different DEF TextInv

\* Steps that leave the store and the document alone.
TextQuiet ==
    /\ UNCHANGED <<snapshots, updates, doc>> /\ (faults' = faults \/ faults' = faults + 1)
    /\ roomRow'.epoch = roomRow.epoch /\ room'.snapshot = room.snapshot
    /\ todo' = R4 => todo = R4 /\ job' = job

LEMMA TextStays == ASSUME TypeInv, TextInv, TextQuiet PROVE TextInv'
<1>1. /\ faults' <= 1 => faults <= 1
      /\ faults' = 0 => faults = 0
  BY DEF TextQuiet, TypeInv
<1>2. faults' = 0 => Single(Loaded)'
  <2>1. Loaded'.items = Loaded.items /\ Loaded'.deleted = Loaded.deleted
    BY LoadedIs DEF TextQuiet
  <2> QED
    BY <1>1, <2>1 DEF TextInv, Single
<1> QED
  BY <1>1, <1>2 DEF TextInv, TextQuiet, Single

\* Without a fault, once the room has its snapshot, what is loaded is the document.
LEMMA TextOfStore ==
    ASSUME DocumentInv', ~Opening', faults' = 0 => Single(doc)'
    PROVE  faults' = 0 => Single(Loaded)'
BY DEF DocumentInv, StoreInv, Single

LEMMA TextSaveRoom ==
    ASSUME TypeInv, DocumentInv, TextInv, SaveRoom PROVE TextInv'
<1>1. /\ Moves(P6, P5) \/ Moves(P3, P2) \/ Moves(S2, S1)
      /\ roomRow'.epoch = room.epoch
      /\ UNCHANGED <<snapshots, updates, room, doc, faults>>
  BY SaveRoomEffect
<1>2. todo' # R4
  BY <1>1, Different DEF Moves
<1>3. ASSUME faults = 0
      PROVE  Single(Loaded)'
  <2>1. CASE roomRow.epoch = room.epoch
    <3>1. Loaded'.items = Loaded.items /\ Loaded'.deleted = Loaded.deleted
      BY <1>1, <2>1, LoadedIs
    <3> QED
      BY <1>3, <3>1 DEF TextInv, Single
  <2>2. CASE roomRow.epoch # room.epoch
    <3>1. Opening /\ StoreInv
      BY <1>3, <2>2 DEF DocumentInv, StoreInv, Opening
    <3>2. /\ snapshots[room.epoch] = NoSnapshot
          /\ \A u \in updates : u.epoch # room.epoch
      BY <3>1, Numbers DEF StoreInv, OpeningInv
    <3>3. Loaded'.items = {} /\ Loaded'.deleted = {}
      <4>1. /\ Loaded'.items = ItemsOf(NoSnapshot, updates, room.epoch)
            /\ Loaded'.deleted = DeletedOf(NoSnapshot, updates, room.epoch)
        BY <1>1, <3>2, LoadedIs
      <4> QED
        BY <3>2, <4>1, NothingSince, CapturedOf, MarksOf
    <3> QED
      BY <3>3 DEF Single
  <2> QED
    BY <2>1, <2>2
<1> QED
  BY <1>1, <1>2, <1>3 DEF TextInv, Single

LEMMA TextSnapshot ==
    ASSUME TypeInv, TextInv, DocumentInv', CaptureSnapshot \/ ActivationSnapshot
    PROVE  TextInv'
<1>1. /\ Moves(C3, S2) \/ Moves(P4, P3)
      /\ UNCHANGED <<updates, doc, faults>>
  BY CaptureSnapshotEffect, ActivationSnapshotEffect
<1>2. todo' # R4 /\ ~Opening'
  BY <1>1, Different DEF Moves, Opening
<1>3. PICK s : /\ StoreSnapshot(s) /\ s.through \in Nat
               /\ s.doc \in {doc, room.snapshot.doc} /\ room'.snapshot = s
  <2>1. CASE CaptureSnapshot
    <3>1. StoreSnapshot(Captured) /\ room'.snapshot = Captured /\ room.nextSeq - 1 \in Nat
      BY <2>1, CaptureSnapshotEffect, Numbers
    <3>2. Captured.through \in Nat /\ Captured.doc = doc
      BY <3>1, CapturedOf
    <3> QED
      BY <3>1, <3>2
  <2>2. CASE ActivationSnapshot
    <3>1. StoreSnapshot(room.snapshot) /\ room'.snapshot = room.snapshot
      BY <2>2, ActivationSnapshotEffect
    <3>2. room.snapshot.through \in Nat
      BY DEF TypeInv
    <3> QED
      BY <3>1, <3>2
  <2> QED
    BY <2>1, <2>2
<1>4. /\ snapshots'[room.epoch] = s
      /\ \A e \in Epochs : e # room.epoch => snapshots'[e] = snapshots[e]
  BY <1>3, StoredSnapshots
<1>5. faults' <= 1 => /\ Single(doc') /\ Single(room'.snapshot.doc)
                      /\ \A e \in Epochs : Single(snapshots'[e].doc)
  BY <1>1, <1>3, <1>4 DEF TextInv
<1>6. faults' <= 1 => Single(doc)'
  BY <1>5 DEF Single
<1>7. faults' = 0 => Single(Loaded)'
  BY <1>2, <1>6, TextOfStore
<1> QED
  BY <1>2, <1>5, <1>7 DEF TextInv, Single, Epochs

LEMMA TextAppendUpdate ==
    ASSUME TypeInv, KnownInv, TextInv, DocumentInv', AppendUpdate PROVE TextInv'
<1>1. /\ \/ Moves(U3, S2) /\ job.kind = "update"
         \/ Moves(U3, C3) /\ job.kind = "update"
         \/ Moves(R4, C3) /\ job.kind = "restore"
      /\ doc' = Merged(doc, job.update) /\ room'.snapshot = room.snapshot
      /\ UNCHANGED <<snapshots, typed, faults>>
  BY AppendUpdateEffect
<1>2. todo' # R4 /\ ~Opening' /\ todo \in {U3, R4}
  BY <1>1, Different DEF Moves, Opening
<1>3. /\ doc'.items = doc.items \cup job.update.items
      /\ doc'.deleted = doc.deleted \cup job.update.deleted
  BY <1>1 DEF Merged
<1>4. ASSUME faults <= 1
      PROVE  Single(doc')
  <2>0. Single(doc)
    BY <1>4 DEF TextInv
  <2>1. CASE todo = U3
    <3>1. job.update = Inserted({typed}, "typed", 0)
      BY <2>1 DEF KnownInv
    <3>2. job.update.items = {<<typed, "typed", 0>>} /\ job.update.deleted = {}
      BY <3>1 DEF Inserted
    <3>3. typed \notin Marks(doc.items)
      <4>1. typed \notin Known
        BY <2>1, Bounds DEF Known, TypeInv
      <4> QED
        BY <4>1 DEF KnownInv
    <3>4. \A i \in doc.items : i[1] # typed
      BY <3>3 DEF Marks
    <3>5. doc'.items = doc.items \cup {<<typed, "typed", 0>>} /\ doc'.deleted = doc.deleted
      BY <1>3, <3>2
    <3>6. <<typed, "typed", 0>>[1] = typed
      OBVIOUS
    <3> QED
      BY <2>0, <3>4, <3>5, <3>6 DEF Single
  <2>2. CASE todo = R4
    <3>1. Single(job.update) /\ job.update.deleted = doc.items
      BY <2>2 DEF TextInv
    <3>2. doc'.items \ doc'.deleted \subseteq job.update.items \ job.update.deleted
      BY <1>3, <3>1
    <3> QED
      BY <3>1, <3>2 DEF Single
  <2> QED
    BY <1>2, <2>1, <2>2
<1>5. faults' <= 1 => Single(doc)'
  BY <1>1, <1>4 DEF Single
<1>6. faults' = 0 => Single(Loaded)'
  BY <1>2, <1>5, TextOfStore
<1> QED
  BY <1>1, <1>2, <1>5, <1>6 DEF TextInv, Single

LEMMA TextPromoteClosed ==
    ASSUME TypeInv, TextInv, NEW d \in Device, PromoteClosed(d) PROVE TextInv'
<1>1. /\ Starts("promote", P6) /\ doc' = FirstDoc /\ room'.snapshot = SnapshotOf(doc', 0)
      /\ UNCHANGED <<roomRow, snapshots, updates, faults>>
  BY PromoteClosedEffect
<1>2. todo' # R4
  BY <1>1, Different DEF Starts
<1>3. faults <= 1 => Single(doc')
  BY <1>1, SingleOf DEF FirstDoc, TextInv
<1>4. room'.snapshot.doc = doc'
  BY <1>1, CapturedOf
<1>5. faults' = 0 => Single(Loaded)'
  <2>1. Loaded'.items = Loaded.items /\ Loaded'.deleted = Loaded.deleted
    BY <1>1, LoadedIs
  <2> QED
    BY <1>1, <2>1 DEF TextInv, Single
<1> QED
  BY <1>1, <1>2, <1>3, <1>4, <1>5 DEF TextInv, Single

LEMMA TextRestoreLocked == ASSUME TypeInv, TextInv, RestoreLocked PROVE TextInv'
<1>1. /\ job'.update.items = Inserted(restoring.text, "restored", restores).items
      /\ job'.update.deleted = doc.items
      /\ UNCHANGED <<roomRow, snapshots, updates, room, doc, faults>>
  BY RestoreLockedEffect
<1>2. Single(job.update)'
  <2>1. LET d == Inserted(restoring.text, "restored", restores)
        IN  Single(d) /\ d.deleted = {}
    BY SingleOf, MarksOf
  <2> QED
    BY <1>1, <2>1 DEF Single
<1>3. faults' = 0 => Single(Loaded)'
  <2>1. Loaded'.items = Loaded.items /\ Loaded'.deleted = Loaded.deleted
    BY <1>1, LoadedIs
  <2> QED
    BY <1>1, <2>1 DEF TextInv, Single
<1> QED
  BY <1>1, <1>2, <1>3 DEF TextInv, Single

LEMMA TextPruneSuperseded ==
    ASSUME TypeInv, TextInv, PruneSuperseded PROVE TextInv'
<1>1. /\ \A e \in Epochs :
           snapshots'[e] = IF e < roomRow.epoch THEN NoSnapshot ELSE snapshots[e]
      /\ updates' = {u \in updates : ~(u.epoch >= roomRow.epoch /\ Superseded(u))}
      /\ UNCHANGED <<roomRow, room, doc, job, todo, faults>>
  BY PruneSupersededEffect
<1>2. Loaded'.items = Loaded.items /\ Loaded'.deleted = Loaded.deleted
  <2>1. snapshots'[roomRow.epoch] = snapshots[roomRow.epoch]
    BY <1>1, Numbers
  <2>2. updates' \in SUBSET updates
    BY <1>1
  <2>3. \A u \in updates \ updates' :
          u.epoch = roomRow.epoch => ~(u.seq > snapshots[roomRow.epoch].through)
    <3>1. snapshots[roomRow.epoch].through \in Nat
      BY Numbers DEF TypeInv
    <3> QED
      BY <1>1, <3>1, Numbers DEF Superseded
  <2> QED
    BY <1>1, <2>1, <2>2, <2>3, LoadedIs, NoneMissed
<1>3. faults <= 1 => \A e \in Epochs : Single(snapshots'[e].doc)
  BY <1>1, SingleOf, CapturedOf DEF TextInv
<1> QED
  BY <1>1, <1>2, <1>3 DEF TextInv, Single, Epochs

LEMMA TextCrash == ASSUME TypeInv, TextInv, Crash PROVE TextInv'
<1>1. /\ faults' = faults + 1 /\ todo' = <<>> /\ doc' = Loaded /\ faults \in Nat
      /\ room'.snapshot = snapshots[roomRow.epoch]
      /\ UNCHANGED <<snapshots>>
  BY CrashEffect DEF TypeInv
<1>2. todo' # R4
  BY <1>1, Different
<1>3. faults' <= 1 => faults = 0
  BY <1>1
<1>4. faults' # 0
  BY <1>1
<1>5. faults' <= 1 => Single(doc') /\ Single(room'.snapshot.doc)
  BY <1>1, <1>3, Numbers DEF TextInv
<1> QED
  BY <1>1, <1>2, <1>3, <1>4, <1>5 DEF TextInv, Single

LEMMA TextStep ==
    ASSUME TypeInv, KnownInv, DocumentInv, DocumentInv', TextInv, [Next]_roomsVars
    PROVE  TextInv'
<1>1. CASE UNCHANGED roomsVars \/ FileOp \/ (\E d \in Device : Leave(d)) \/ TimerFires
  <2>1. TextQuiet
    BY <1>1, StutterEffect, FileOpEffect, LeaveEffect DEF TextQuiet
  <2> QED
    BY <2>1, TextStays
<1>2. CASE RestoreHistoryVersion \/ RestoreProcess \/ PruneHistory \/ LeaseLapses
  <2>1. TextQuiet
    BY <1>2, RestoreHistoryVersionEffect, RestoreProcessEffect, PruneHistoryEffect,
       LeaseLapsesEffect DEF TextQuiet
  <2> QED
    BY <2>1, TextStays
<1>3. CASE SaveFile
  <2>1. /\ Moves(P5, P4) \/ Moves(P2, P1) \/ Moves(S1, <<>>)
        /\ room'.snapshot = room.snapshot
        /\ UNCHANGED <<roomRow, snapshots, updates, doc, faults>>
    BY <1>3, SaveFileEffect
  <2>2. todo' # R4
    BY <2>1, Different DEF Moves
  <2>3. TextQuiet
    BY <2>1, <2>2 DEF TextQuiet
  <2> QED
    BY <2>3, TextStays
<1>4. CASE Flush \/ FlushRefused \/ JoinRoom
  <2>1. /\ Moves(D4, C3) \/ Moves(D4, <<>>) \/ Moves(P1, <<>>)
        /\ UNCHANGED <<roomRow, snapshots, updates, room, doc, faults>>
    BY <1>4, FlushEffect, FlushRefusedEffect, JoinRoomEffect
  <2>2. todo' # R4
    BY <2>1, Different DEF Moves
  <2>3. TextQuiet
    BY <2>1, <2>2 DEF TextQuiet
  <2> QED
    BY <2>3, TextStays
<1>5. ASSUME NEW d \in Device, PromoteOpen(d) \/ HandleUpdate(d) \/ Heartbeat(d)
      PROVE  TextInv'
  <2>1. /\ Starts("promote", P3) \/ Starts("update", U3) \/ Starts("heartbeat", S2)
        /\ room'.snapshot = room.snapshot
        /\ UNCHANGED <<roomRow, snapshots, updates, doc, faults>>
    BY <1>5, PromoteOpenEffect, HandleUpdateEffect, HeartbeatEffect
  <2>2. todo' # R4
    BY <2>1, Different DEF Starts
  <2>3. TextQuiet
    BY <2>1, <2>2 DEF TextQuiet
  <2> QED
    BY <2>3, TextStays
<1>6. CASE CloseEmpty \/ Demote \/ CloseDeleted
  <2>1. /\ UNCHANGED <<job, todo>> \/ Starts("demote", D4) \/ Starts("delete", S2)
        /\ room'.snapshot = room.snapshot
        /\ UNCHANGED <<roomRow, snapshots, updates, doc, faults>>
    BY <1>6, DemoteEffect, CloseDeletedEffect
  <2>2. UNCHANGED <<job, todo>> \/ todo' # R4
    BY <2>1, Different DEF Starts
  <2>3. TextQuiet
    BY <2>1, <2>2 DEF TextQuiet
  <2> QED
    BY <2>3, TextStays
<1>7. CASE Fail
  <2>1. todo' # R4
    BY <1>7, FailEffect, Different
  <2>2. TextQuiet
    BY <1>7, <2>1, FailEffect DEF TextQuiet
  <2> QED
    BY <2>2, TextStays
<1> QED
  BY NextCases, <1>1, <1>2, <1>3, <1>4, <1>5, <1>6, <1>7, TextSaveRoom, TextSnapshot,
     TextAppendUpdate, TextPromoteClosed, TextRestoreLocked, TextPruneSuperseded, TextCrash

-----------------------------------------------------------------------------
(***************************************************************************)
(* What follows.                                                           *)
(***************************************************************************)
RoomsInv == TypeInv /\ AckInv /\ FileInv /\ DocumentInv /\ KnownInv /\ TextInv

LEMMA RoomsInvInit == Init => RoomsInv
BY TypesInit, AckInit, FileInit, DocumentInit, KnownInit, TextInit DEF RoomsInv

LEMMA RoomsInvStep == RoomsInv /\ [Next]_roomsVars => RoomsInv'
<1> SUFFICES ASSUME RoomsInv, [Next]_roomsVars PROVE RoomsInv'
  OBVIOUS
<1>1. TypeInv /\ AckInv /\ FileInv /\ DocumentInv /\ KnownInv /\ TextInv
  BY DEF RoomsInv
<1>2. TypeInv'
  BY <1>1, TypesStep
<1>3. AckInv'
  BY <1>1, AckStep
<1>4. FileInv'
  BY <1>1, FileStep
<1>5. DocumentInv'
  BY <1>1, DocumentStep
<1>6. KnownInv'
  BY <1>1, KnownStep
<1>7. TextInv'
  BY <1>1, <1>5, TextStep
<1> QED
  BY <1>2, <1>3, <1>4, <1>5, <1>6, <1>7 DEF RoomsInv

LEMMA RoomsInvAlways == Spec => []RoomsInv
<1>1. Init => RoomsInv
  BY RoomsInvInit
<1>2. RoomsInv /\ [Next]_roomsVars => RoomsInv'
  BY RoomsInvStep
<1> QED
  BY <1>1, <1>2, PTL DEF Spec

\* Every handler has only statements left that saveRuntime, activate, applyUpdate,
\* demoteLocked or restoreHistoryVersion can have left there, and the row of the room,
\* the rows of the updates and the snapshots have numbers that fit.
THEOREM RoomsTypeCorrect == Spec => []TypeInv
<1>1. RoomsInv => TypeInv
  BY DEF RoomsInv
<1> QED
  BY <1>1, RoomsInvAlways, PTL

\* For any number of devices, activations, updates and restored versions: an update
\* that was acknowledged is in the document also after a restart or a failed statement,
\* the store has what the memory has as long as nothing failed, and the numbers of
\* acknowledged updates are never given twice.
THEOREM AcknowledgedSurvive == Spec => []RoomSurvives
<1>1. RoomsInv => RoomSurvives
  <2> SUFFICES ASSUME RoomsInv PROVE RoomSurvives
    OBVIOUS
  <2>1. TypeInv /\ AckInv /\ DocumentInv
    BY DEF RoomsInv
  <2>2. AcknowledgedServed
    BY <2>1 DEF DocumentInv, MemoryInv, AcknowledgedServed
  <2>3. StoreHasDocument
    BY <2>1 DEF DocumentInv, StoreInv, OpeningInv, StoreHasDocument
  <2>4. NumbersIdentifyUpdates
    BY <2>1 DEF AckInv
  <2> QED
    BY <2>2, <2>3, <2>4 DEF RoomSurvives
<1> QED
  BY <1>1, RoomsInvAlways, PTL

\* The text that activate, replaceDocText and loadRuntime put into a document is never
\* there twice.
THEOREM NeverDoubled == Spec => []TextNotDoubled
<1>1. RoomsInv => TextNotDoubled
  BY DEF RoomsInv, TextInv, Single, TextNotDoubled
<1> QED
  BY <1>1, RoomsInvAlways, PTL

\* Whenever the lock is free the row of the file has the lease of the room, and a file
\* that was deleted has no room, though saveRuntime writes back a row it has read earlier.
THEOREM RoomAndFileAgree == Spec => []RoomAgreesWithFile
<1>1. RoomsInv => RoomAgreesWithFile
  <2> SUFFICES ASSUME RoomsInv PROVE RoomAgreesWithFile
    OBVIOUS
  <2>1. TypeInv /\ FileInv /\ (Free => Agreed)
    BY DEF RoomsInv, Free, Agreed
  <2> QED
    BY <2>1 DEF FileInv, RoomAgreesWithFile, LeaseFollowsRoom, DeletedFileHasNoRoom
<1> QED
  BY <1>1, RoomsInvAlways, PTL

\* Nothing but a flush enters the operation of an epoch.
LEMMA FlushedByFlush == ASSUME TypeInv, [Next]_roomsVars, flushed' # flushed PROVE Flush
<1>1. ~UNCHANGED roomsVars /\ ~FileOp
  BY DEF roomsVars, fileVars, FileOp
<1>2. ~SaveRoom /\ ~SaveFile /\ ~CaptureSnapshot /\ ~ActivationSnapshot /\ ~AppendUpdate
  BY DEF fileVars, SaveRoom, SaveFile, CaptureSnapshot, ActivationSnapshot, AppendUpdate
<1>3. ~FlushRefused /\ ~JoinRoom
  BY DEF fileVars, FlushRefused, JoinRoom
<1>4. \A d \in Device : ~PromoteClosed(d) /\ ~PromoteOpen(d) /\ ~HandleUpdate(d) /\ ~Heartbeat(d)
  BY DEF fileVars, PromoteClosed, PromoteOpen, HandleUpdate, Heartbeat
<1>5. ~((\E d \in Device : Leave(d)) \/ TimerFires)
  BY LeaveEffect
<1>6. ~CloseEmpty /\ ~Demote /\ ~CloseDeleted
  BY DemoteEffect, CloseDeletedEffect
<1>7. ~RestoreHistoryVersion /\ ~RestoreProcess /\ ~RestoreLocked
  BY RestoreHistoryVersionEffect, RestoreProcessEffect, RestoreLockedEffect
<1>8. ~LeaseLapses /\ ~PruneHistory /\ ~PruneSuperseded /\ ~Crash /\ ~Fail
  BY LeaseLapsesEffect, PruneHistoryEffect, PruneSupersededEffect, CrashEffect, FailEffect
<1> QED
  BY NextCases, <1>1, <1>2, <1>3, <1>4, <1>5, <1>6, <1>7, <1>8

\* demoteLocked writes the text of the document, not that of the last snapshot: with at
\* most one failure every acknowledged update that nobody deleted reaches the file.
THEOREM FlushBringsAcknowledged == Spec => FlushCarriesAcknowledged
<1> DEFINE Carries ==
             flushed' # flushed =>
               \A a \in acked : (a.epoch = room.epoch /\ faults <= 1 /\ ~file'.conflict) =>
                 {i[1] : i \in a.items \ doc.deleted} \subseteq file'.text
<1>1. RoomsInv /\ [Next]_roomsVars => [Carries]_roomsVars
  <2> SUFFICES ASSUME RoomsInv, [Next]_roomsVars, flushed' # flushed,
                      NEW a \in acked, a.epoch = room.epoch, faults <= 1, ~file'.conflict
               PROVE  {i[1] : i \in a.items \ doc.deleted} \subseteq file'.text
    OBVIOUS
  <2>1. TypeInv /\ DocumentInv
    BY DEF RoomsInv
  <2>2. Flush
    BY <2>1, FlushedByFlush
  <2>3. file'.text = FlushText
    <3>1. FileOK(file') /\ (flushed' # flushed /\ file'.conflict = FALSE => file'.text = FlushText)
      BY <2>1, <2>2, FlushEffect
    <3>2. file'.conflict \in BOOLEAN
      BY <3>1, FileFields
    <3> QED
      BY <3>1, <3>2
  <2>4. a.items \subseteq doc.items
    BY <2>1 DEF DocumentInv, MemoryInv
  <2> QED
    BY <2>3, <2>4 DEF FlushText, Text
<1>2. [][Carries]_roomsVars => FlushCarriesAcknowledged
  BY PTL DEF FlushCarriesAcknowledged
<1> QED
  BY <1>1, <1>2, RoomsInvAlways, PTL DEF Spec
================================================================================
