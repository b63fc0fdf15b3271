--------------------------- MODULE ClientSyncProofs ---------------------------
(***************************************************************************)
(* The theorem about ClientSync: a plugin that is at the end of the log,   *)
(* with no handler running, has what the log says (SettledFollowsLog).     *)
(*                                                                         *)
(* What the log says is restated here for any log lg, so that it can be    *)
(* compared before and after a step.                                       *)
(***************************************************************************)
EXTENDS ClientSync, FiniteSetTheorems, SequenceTheorems, WellFoundedInduction, TLAPS

OpType == [file : SyncFile, kind : Kinds, own : BOOLEAN]

Past(lg, f, kinds, n) == {s \in 1 .. n : lg[s].file = f /\ lg[s].kind \in kinds}

NameIn(lg, f, n) == Cardinality(Past(lg, f, {"rename"}, n)) % 2

ContentIn(lg, f, n) ==
    LET puts == Past(lg, f, Puts, n)
    IN  IF puts = {} \/ \E s \in Past(lg, f, {"delete"}, n) : s > Max(puts) THEN Nothing
        ELSE Max(puts)

\* The device's own operations on f behind the first e.
OwnPast(lg, f, e) == {s \in e + 1 .. Len(lg) : lg[s].own /\ lg[s].file = f}

-----------------------------------------------------------------------------
(***************************************************************************)
(* The inductive invariant.                                                *)
(***************************************************************************)
\* Nothing that SettledFollowsLog excludes has happened.
Orderly == ~skipped /\ ~overlapped /\ ~early

\* The number of operations that the vault has seen: one more than appliedSeq while
\* a write is being done.
Eff(a, run) == IF run # <<>> /\ run[1].at = "write" THEN a + 1 ELSE a

\* The index of f and what is at its two names, after the first a operations are
\* applied and the write of the first e asked for.  While operations of the device's
\* own wait to be applied, the last of them is in the vault, and only renames and
\* operations of its own stand between.
FileInv(lg, f, a, e, hs, ix, v) ==
    LET own == OwnPast(lg, f, e)
        here == v[<<f, NameIn(lg, f, e)>>]
    IN  /\ ix[f] \in {{}, {NameIn(lg, f, a)}}
        /\ ix[f] = {} => /\ Past(lg, f, Puts, a) = {}
                         /\ OwnPast(lg, f, a) # {} => e = a + 1 /\ e \in Past(lg, f, Puts, e)
        /\ v[<<f, 1 - NameIn(lg, f, e)>>] = Nothing
        /\ own = {} => here = ContentIn(lg, f, e)
        /\ hs /\ own # {} =>
             /\ here \in own
             /\ \A s \in own : s <= here
             /\ \A s \in e + 1 .. here : lg[s].file = f => lg[s].own \/ lg[s].kind = "rename"

AnswerType ==
    [t : {"welcome"}, current : Nat] \cup [t : {"ops"}, ops : Seq(Nat), more : BOOLEAN]
      \cup [t : {"ack"}, seq : Nat] \cup [t : {"content"}, hash : Nat]

RequestType == [t : {"hello", "push", "get_ops"}, since : Nat] \cup [t : {"get_content"}, hash : Nat]

HandlerType == [ops : Seq(Nat), more : BOOLEAN, at : {"fetch", "write"}]

\* One of the first n messages acknowledges operation s.
Acked(ans, n, s) == \E j \in 1 .. n : ans[j].t = "ack" /\ ans[j].seq = s

\* The operations that a message brings, when those that the first n messages
\* acknowledge are known.
OpsOK(lg, a, hs, ans, n, ops) ==
    \A i \in DOMAIN ops :
       /\ ops[i] \in 1 .. Len(lg)
       /\ hs /\ ops[i] > a /\ lg[ops[i]].own => Acked(ans, n, ops[i])

\* Message m, behind the first n: there are no acknowledgements before the handshake is
\* complete, and an operation of the device's own stands behind its acknowledgement.
AnswerOK(lg, lk, a, hs, ans, n, m) ==
    /\ m.t = "welcome" => lk = "joined"
    /\ m.t = "ack" => hs /\ m.seq \in 1 .. Len(lg) /\ lg[m.seq].own
    /\ m.t = "ops" => OpsOK(lg, a, hs, ans, n, m.ops)

\* What the server has not announced yet, or has, of the device's own operations.
OwedInv(lg, ow, lk, a, hs, ans) ==
    /\ ~hs /\ lk = "joined" => \A s \in ow : ~lg[s].own
    /\ hs => \A s \in 1 .. Len(lg) :
               lg[s].own /\ s > a => s \in ow \/ Acked(ans, Len(ans), s)

AnswersInv(lg, ow, lk, a, hs, ans) ==
    /\ \A k \in 1 .. Len(ans) : AnswerOK(lg, lk, a, hs, ans, k - 1, ans[k])
    /\ OwedInv(lg, ow, lk, a, hs, ans)

\* At most one handler runs, at the operation behind appliedSeq, and after the
\* handshake it has none of the device's own left.
OpsLeft(lg, a, hs, ops) ==
    \A i \in DOMAIN ops : ops[i] \in 1 .. Len(lg) /\ (hs /\ ops[i] > a => ~lg[ops[i]].own)

RunningInv(lg, a, hs, run) ==
    run # <<>> =>
      /\ Len(run) = 1
      /\ run[1].ops # <<>> /\ run[1].ops[1] = a + 1
      /\ OpsLeft(lg, a, hs, run[1].ops)
      /\ run[1].at = "fetch" => lg[a + 1].kind = "blob"

SyncTypes ==
    /\ log \in Seq(OpType)
    /\ \A s \in 1 .. Len(log) : log[s].own => log[s].kind = "inline"
    /\ owed \subseteq 1 .. Len(log)
    /\ link \in {"down", "open", "joined"}
    /\ applied \in 0 .. Len(log)
    /\ ready \in BOOLEAN /\ catchup \in BOOLEAN /\ handshake \in BOOLEAN
    /\ catchup \/ handshake => link = "joined"
    /\ requests \in Seq(RequestType)
    /\ answers \in Seq(AnswerType)
    /\ running \in Seq(HandlerType)
    /\ firstSync.at \in {"no", "begins"}
    /\ index \in [SyncFile -> SUBSET Names]
    /\ vault \in [Path -> Nat]
    /\ downloaded \subseteq 1 .. applied

FilesInv ==
    \A f \in SyncFile : FileInv(log, f, applied, Eff(applied, running), handshake, index, vault)

SyncInv ==
    /\ SyncTypes
    /\ AnswersInv(log, owed, link, applied, handshake, answers)
    /\ RunningInv(log, applied, handshake, running)
    /\ FilesInv

OrderlySyncInv == Orderly => SyncInv

-----------------------------------------------------------------------------
(***************************************************************************)
(* What a log says.                                                        *)
(***************************************************************************)
\* A nonempty set of naturals has a smallest element.
LEMMA SmallestOf ==
    ASSUME NEW T, T \subseteq Nat, T # {}
    PROVE  \E x \in T : \A y \in T : x <= y
<1> DEFINE R == {ss \in Nat \X Nat : ss[1] < ss[2]}
<1>1. IsWellFoundedOn(R, Nat)
  BY NatLessThanWellFounded, Zenon DEF OpToRel
<1> HIDE DEF R
<1>2. PICK x \in T : \A y \in T : <<y, x>> \notin R
  BY <1>1, WFMin
<1>3. ASSUME NEW y \in T
      PROVE  x <= y
  <2>1. x \in Nat /\ y \in Nat
    OBVIOUS
  <2>2. ~(y < x)
    BY <1>2, <2>1 DEF R
  <2> QED
    BY <2>1, <2>2
<1> QED
  BY <1>2, <1>3

LEMMA MinOf ==
    ASSUME NEW T, T \subseteq Nat, T # {}
    PROVE  Min(T) \in T /\ \A y \in T : Min(T) <= y
BY SmallestOf, Zenon DEF Min

LEMMA MaxOf ==
    ASSUME NEW T, NEW n \in Nat, T \subseteq 1 .. n, T # {}
    PROVE  Max(T) \in T /\ \A y \in T : Max(T) >= y
<1> DEFINE U == {n - y : y \in T}
<1>1. U \subseteq Nat /\ U # {}
  OBVIOUS
<1> HIDE DEF U
<1>2. PICK x \in U : \A y \in U : x <= y
  BY <1>1, SmallestOf
<1>3. PICK m \in T : x = n - m
  BY <1>2 DEF U
<1>4. ASSUME NEW y \in T
      PROVE  m >= y
  <2>1. n - m <= n - y
    BY <1>2, <1>3 DEF U
  <2> QED
    BY <2>1
<1> QED
  BY <1>3, <1>4, Zenon DEF Max

LEMMA MaxOfTwo ==
    ASSUME NEW a \in Nat, NEW b \in Nat
    PROVE  Max({a, b}) = IF a < b THEN b ELSE a
<1> DEFINE m == IF a < b THEN b ELSE a
<1>1. m \in {a, b} /\ \A y \in {a, b} : m >= y
  OBVIOUS
<1>2. \A x \in {a, b} : (\A y \in {a, b} : x >= y) => x = m
  OBVIOUS
<1> HIDE DEF m
<1>3. Max({a, b}) \in {a, b} /\ \A y \in {a, b} : Max({a, b}) >= y
  BY <1>1, Zenon DEF Max
<1>4. Max({a, b}) = m
  BY <1>2, <1>3
<1> QED
  BY <1>4 DEF m

PastGrows(lg, f, kinds, n) ==
    LET takes == lg[n + 1].file = f /\ lg[n + 1].kind \in kinds
    IN  /\ takes => Past(lg, f, kinds, n + 1) = Past(lg, f, kinds, n) \cup {n + 1}
        /\ ~takes => Past(lg, f, kinds, n + 1) = Past(lg, f, kinds, n)

LEMMA PastNext ==
    ASSUME NEW lg, NEW f, NEW kinds, NEW n \in Nat
    PROVE  PastGrows(lg, f, kinds, n)
<1>1. 1 .. n + 1 = (1 .. n) \cup {n + 1}
  OBVIOUS
<1> QED
  BY <1>1, Zenon DEF Past, PastGrows

LEMMA PastBounds ==
    ASSUME NEW lg, NEW f, NEW kinds, NEW n \in Nat
    PROVE  /\ Past(lg, f, kinds, n) \subseteq 1 .. n
           /\ IsFiniteSet(Past(lg, f, kinds, n))
           /\ Cardinality(Past(lg, f, kinds, n)) \in Nat
<1>1. Past(lg, f, kinds, n) \subseteq 1 .. n
  BY Zenon DEF Past
<1>2. IsFiniteSet(1 .. n)
  BY FS_Interval
<1> QED
  BY <1>1, <1>2, FS_Subset, FS_CardinalityType

LEMMA NameType ==
    ASSUME NEW lg, NEW f, NEW n \in Nat
    PROVE  NameIn(lg, f, n) \in Names /\ 1 - NameIn(lg, f, n) \in Names
<1>1. Cardinality(Past(lg, f, {"rename"}, n)) \in Nat
  BY PastBounds
<1>2. NameIn(lg, f, n) \in 0 .. 1
  BY <1>1 DEF NameIn
<1> QED
  BY <1>2 DEF Names

\* A rename gives a file its other name, and nothing else does.
LEMMA NameNext ==
    ASSUME NEW lg, NEW f, NEW n \in Nat
    PROVE  NameIn(lg, f, n + 1)
             = IF lg[n + 1].file = f /\ lg[n + 1].kind = "rename" THEN 1 - NameIn(lg, f, n)
               ELSE NameIn(lg, f, n)
<1>0. /\ NameIn(lg, f, n) = Cardinality(Past(lg, f, {"rename"}, n)) % 2
      /\ NameIn(lg, f, n + 1) = Cardinality(Past(lg, f, {"rename"}, n + 1)) % 2
  BY DEF NameIn
<1> DEFINE P == Past(lg, f, {"rename"}, n)
           Q == Past(lg, f, {"rename"}, n + 1)
           renames == lg[n + 1].file = f /\ lg[n + 1].kind \in {"rename"}
<1>1. P \subseteq 1 .. n /\ IsFiniteSet(P) /\ Cardinality(P) \in Nat
  BY PastBounds
<1>2. /\ renames => Q = P \cup {n + 1}
      /\ ~renames => Q = P
  <2>1. PastGrows(lg, f, {"rename"}, n)
    BY PastNext
  <2> QED
    BY <2>1, Zenon DEF PastGrows
<1> HIDE DEF P, Q, renames
<1>3. n + 1 \notin P
  BY <1>1
<1>4. CASE renames
  <2>1. Cardinality(Q) = Cardinality(P) + 1
    BY <1>1, <1>2, <1>3, <1>4, FS_AddElement
  <2>2. Cardinality(Q) % 2 = 1 - (Cardinality(P) % 2)
    BY <1>1, <2>1
  <2>3. NameIn(lg, f, n + 1) = 1 - NameIn(lg, f, n)
    BY <1>0, <2>2 DEF P, Q
  <2> QED
    BY <1>4, <2>3, Zenon DEF renames
<1>5. CASE ~renames
  <2>1. NameIn(lg, f, n + 1) = NameIn(lg, f, n)
    BY <1>0, <1>2, <1>5, Zenon DEF P, Q
  <2> QED
    BY <1>5, <2>1, Zenon DEF renames
<1> QED
  BY <1>4, <1>5

LEMMA ContentNext ==
    ASSUME NEW lg, NEW f, NEW n \in Nat
    PROVE  ContentIn(lg, f, n + 1)
             = IF lg[n + 1].file # f THEN ContentIn(lg, f, n)
               ELSE IF lg[n + 1].kind \in Puts THEN n + 1
               ELSE IF lg[n + 1].kind = "delete" THEN Nothing
               ELSE ContentIn(lg, f, n)
<1> DEFINE P == Past(lg, f, Puts, n)
           Q == Past(lg, f, Puts, n + 1)
           C == Past(lg, f, {"delete"}, n)
           D == Past(lg, f, {"delete"}, n + 1)
           here == lg[n + 1].file = f
           puts == lg[n + 1].kind \in Puts
           deletes == lg[n + 1].kind \in {"delete"}
<1>1. /\ ContentIn(lg, f, n) = IF P = {} \/ \E s \in C : s > Max(P) THEN Nothing ELSE Max(P)
      /\ ContentIn(lg, f, n + 1) = IF Q = {} \/ \E s \in D : s > Max(Q) THEN Nothing ELSE Max(Q)
  BY DEF ContentIn
<1>2. /\ (here /\ puts) => Q = P \cup {n + 1}
      /\ ~(here /\ puts) => Q = P
      /\ (here /\ deletes) => D = C \cup {n + 1}
      /\ ~(here /\ deletes) => D = C
  <2>1. PastGrows(lg, f, Puts, n) /\ PastGrows(lg, f, {"delete"}, n)
    BY PastNext
  <2> QED
    BY <2>1, Zenon DEF PastGrows
<1>3. P \subseteq 1 .. n /\ C \subseteq 1 .. n /\ Q \subseteq 1 .. n + 1 /\ D \subseteq 1 .. n + 1
      /\ n + 1 \in Nat
  BY PastBounds
<1>4. ~(puts /\ deletes)
  BY DEF Puts
<1> HIDE DEF P, Q, C, D, here, puts, deletes
<1>5. P # {} => Max(P) \in P
  BY <1>3, MaxOf
<1>6. Q # {} => Max(Q) \in Q /\ \A y \in Q : Max(Q) >= y
  BY <1>3, MaxOf
<1>7. CASE here /\ puts
  <2>1. n + 1 \in Q /\ Q # {} /\ D = C
    BY <1>2, <1>4, <1>7
  <2>2. Max(Q) = n + 1
    <3>1. Max(Q) \in 1 .. n + 1 /\ Max(Q) >= n + 1
      BY <1>3, <1>6, <2>1
    <3> QED
      BY <3>1
  <2>3. \A s \in D : ~(s > n + 1)
    BY <1>3
  <2>4. ContentIn(lg, f, n + 1) = n + 1
    BY <1>1, <2>1, <2>2, <2>3
  <2> QED
    BY <1>7, <2>4 DEF here, puts
<1>8. CASE here /\ deletes
  <2>1. Q = P /\ n + 1 \in D
    BY <1>2, <1>4, <1>8
  <2>2. Q # {} => n + 1 > Max(Q)
    <3>1. Q # {} => Max(Q) \in 1 .. n
      BY <1>3, <1>5, <2>1
    <3> QED
      BY <3>1
  <2>3. ContentIn(lg, f, n + 1) = Nothing
    BY <1>1, <2>1, <2>2
  <2> QED
    BY <1>4, <1>8, <2>3 DEF here, puts, deletes
<1>9. CASE ~(here /\ puts) /\ ~(here /\ deletes)
  <2>1. Q = P /\ D = C
    BY <1>2, <1>9
  <2>2. ContentIn(lg, f, n + 1) = ContentIn(lg, f, n)
    BY <1>1, <2>1
  <2> QED
    BY <1>9, <2>2 DEF here, puts, deletes
<1> QED
  BY <1>7, <1>8, <1>9

LEMMA ContentDeleted ==
    ASSUME NEW lg, NEW f, NEW n \in Nat, lg[n + 1].file = f, lg[n + 1].kind = "delete"
    PROVE  ContentIn(lg, f, n + 1) = Nothing
<1>1. lg[n + 1].kind \notin Puts
  BY DEF Puts
<1> QED
  BY <1>1, ContentNext

LEMMA ContentOf ==
    ASSUME NEW lg, NEW f, NEW n \in Nat
    PROVE  /\ ContentIn(lg, f, n) \in 0 .. n
           /\ Past(lg, f, Puts, n) = {} => ContentIn(lg, f, n) = Nothing
           /\ ContentIn(lg, f, n) # Nothing =>
                /\ ContentIn(lg, f, n) \in Past(lg, f, Puts, n)
                /\ \A s \in Past(lg, f, Puts, n) \cup Past(lg, f, {"delete"}, n) :
                      s <= ContentIn(lg, f, n)
<1> DEFINE P == Past(lg, f, Puts, n)
           C == Past(lg, f, {"delete"}, n)
<1>1. ContentIn(lg, f, n) = IF P = {} \/ \E s \in C : s > Max(P) THEN Nothing ELSE Max(P)
  BY DEF ContentIn
<1>2. P \subseteq 1 .. n /\ C \subseteq 1 .. n
  BY PastBounds
<1> HIDE DEF P, C
<1>3. P # {} => Max(P) \in P /\ \A y \in P : Max(P) >= y
  BY <1>2, MaxOf
<1>4. Nothing = 0
  BY DEF Nothing
<1> QED
  BY <1>1, <1>2, <1>3, <1>4 DEF P, C

\* A log keeps what it says when it grows.
LEMMA PastKept ==
    ASSUME NEW lg \in Seq(OpType), NEW op \in OpType, NEW f, NEW kinds, NEW n \in 0 .. Len(lg)
    PROVE  Past(Append(lg, op), f, kinds, n) = Past(lg, f, kinds, n)
<1>1. \A s \in 1 .. n : Append(lg, op)[s] = lg[s]
  BY AppendProperties
<1> QED
  BY <1>1, Zenon DEF Past

LEMMA PrefixKept ==
    ASSUME NEW lg \in Seq(OpType), NEW op \in OpType, NEW f, NEW n \in 0 .. Len(lg)
    PROVE  /\ Past(Append(lg, op), f, Puts, n) = Past(lg, f, Puts, n)
           /\ NameIn(Append(lg, op), f, n) = NameIn(lg, f, n)
           /\ ContentIn(Append(lg, op), f, n) = ContentIn(lg, f, n)
<1>1. /\ Past(Append(lg, op), f, Puts, n) = Past(lg, f, Puts, n)
      /\ Past(Append(lg, op), f, {"rename"}, n) = Past(lg, f, {"rename"}, n)
      /\ Past(Append(lg, op), f, {"delete"}, n) = Past(lg, f, {"delete"}, n)
  BY PastKept
<1> QED
  BY <1>1, Zenon DEF NameIn, ContentIn

-----------------------------------------------------------------------------
(***************************************************************************)
(* One file.                                                               *)
(***************************************************************************)
LEMMA OwnPastNext ==
    ASSUME NEW lg \in Seq(OpType), NEW f, NEW n \in Nat
    PROVE  /\ OwnPast(lg, f, n) \subseteq n + 1 .. Len(lg)
           /\ OwnPast(lg, f, n + 1) = OwnPast(lg, f, n) \ {n + 1}
           /\ n + 1 \in OwnPast(lg, f, n) => lg[n + 1].own /\ lg[n + 1].file = f
<1>1. Len(lg) \in Nat
  BY LenProperties
<1>2. \A s : s \in n + 1 + 1 .. Len(lg) <=> s \in n + 1 .. Len(lg) /\ s # n + 1
  BY <1>1
<1> QED
  BY <1>2, Zenon DEF OwnPast

\* An index that has no name for a file has nothing of it, as long as no write is
\* being done.
NothingOf(f, v) == \A x \in Names : v[<<f, x>>] = Nothing

LEMMA NoEntry ==
    ASSUME NEW lg, NEW f, NEW a \in Nat, NEW hs, NEW ix, NEW v,
           FileInv(lg, f, a, a, hs, ix, v), ix[f] = {}
    PROVE  /\ OwnPast(lg, f, a) = {}
           /\ Past(lg, f, Puts, a) = {}
           /\ ContentIn(lg, f, a) = Nothing
           /\ NothingOf(f, v)
<1>1. OwnPast(lg, f, a) = {} /\ Past(lg, f, Puts, a) = {}
  BY DEF FileInv
<1>2. ContentIn(lg, f, a) = Nothing
  BY <1>1, ContentOf
<1>3. /\ v[<<f, NameIn(lg, f, a)>>] = Nothing
      /\ v[<<f, 1 - NameIn(lg, f, a)>>] = Nothing
  BY <1>1, <1>2, Zenon DEF FileInv
<1>4. \A x \in Names : x = NameIn(lg, f, a) \/ x = 1 - NameIn(lg, f, a)
  <2>1. NameIn(lg, f, a) \in {0, 1}
    BY NameType DEF Names
  <2> QED
    BY <2>1 DEF Names
<1> QED
  BY <1>1, <1>2, <1>3, <1>4, Zenon DEF NothingOf

\* What a write of operation a + 1 does to file f: w is the vault behind it.
Effect(lg, a, f, entry, v, w) ==
    LET s == a + 1
        name == NameIn(lg, f, s)
    IN  /\ lg[s].file # f => \A x \in Names : w[<<f, x>>] = v[<<f, x>>]
        /\ lg[s].file = f /\ lg[s].kind \in Puts =>
             w[<<f, name>>] = s /\ w[<<f, 1 - name>>] = v[<<f, 1 - name>>]
        /\ lg[s].file = f /\ lg[s].kind = "delete" =>
             \A x \in Names : w[<<f, x>>] = IF x \in entry THEN Nothing ELSE v[<<f, x>>]
        /\ lg[s].file = f /\ lg[s].kind = "rename" =>
             IF 1 - name \in entry /\ v[<<f, 1 - name>>] # Nothing
             THEN w[<<f, 1 - name>>] = Nothing /\ w[<<f, name>>] = v[<<f, 1 - name>>]
             ELSE \A x \in Names : w[<<f, x>>] = v[<<f, x>>]

LEMMA WriteOfAnother ==
    ASSUME NEW lg \in Seq(OpType), NEW f, NEW a \in Nat, NEW hs, NEW ix, NEW v, NEW w,
           FileInv(lg, f, a, a, hs, ix, v), Effect(lg, a, f, ix[f], v, w),
           lg[a + 1].file # f
    PROVE  FileInv(lg, f, a, a + 1, hs, ix, w)
<1>1. /\ NameIn(lg, f, a + 1) = NameIn(lg, f, a)
      /\ ContentIn(lg, f, a + 1) = ContentIn(lg, f, a)
  BY NameNext, ContentNext
<1>2. /\ OwnPast(lg, f, a + 1) = OwnPast(lg, f, a)
      /\ OwnPast(lg, f, a) \subseteq Nat
  <2>1. /\ OwnPast(lg, f, a) \subseteq a + 1 .. Len(lg) /\ Len(lg) \in Nat
        /\ OwnPast(lg, f, a + 1) = OwnPast(lg, f, a) \ {a + 1}
        /\ a + 1 \in OwnPast(lg, f, a) => lg[a + 1].file = f
    BY OwnPastNext, LenProperties
  <2> QED
    BY <2>1
<1>3. /\ w[<<f, NameIn(lg, f, a)>>] = v[<<f, NameIn(lg, f, a)>>]
      /\ w[<<f, 1 - NameIn(lg, f, a)>>] = v[<<f, 1 - NameIn(lg, f, a)>>]
  BY NameType, Zenon DEF Effect
<1>4. ix[f] = {} => OwnPast(lg, f, a) = {}
  BY NoEntry
<1>5. ASSUME OwnPast(lg, f, a) # {}, hs,
             NEW s \in a + 1 + 1 .. v[<<f, NameIn(lg, f, a)>>]
      PROVE  s \in a + 1 .. v[<<f, NameIn(lg, f, a)>>]
  <2>1. v[<<f, NameIn(lg, f, a)>>] \in Nat
    BY <1>2, <1>5, Zenon DEF FileInv
  <2> QED
    BY <2>1
<1> QED
  BY <1>1, <1>2, <1>3, <1>4, <1>5, Zenon DEF FileInv

\* The content of a put, which is what the log says from there on.
LEMMA WriteOfPut ==
    ASSUME NEW lg \in Seq(OpType), NEW f, NEW a \in Nat, NEW hs, NEW ix, NEW v, NEW w,
           FileInv(lg, f, a, a, hs, ix, v), Effect(lg, a, f, ix[f], v, w),
           lg[a + 1].file = f, lg[a + 1].kind \in Puts, a < Len(lg), hs => ~lg[a + 1].own
    PROVE  FileInv(lg, f, a, a + 1, hs, ix, w)
<1>1. /\ NameIn(lg, f, a + 1) = NameIn(lg, f, a)
      /\ ContentIn(lg, f, a + 1) = a + 1
  <2>1. NameIn(lg, f, a + 1) = NameIn(lg, f, a)
    BY NameNext DEF Puts
  <2>2. ContentIn(lg, f, a + 1) = a + 1
    BY ContentNext
  <2> QED
    BY <2>1, <2>2
<1>2. /\ OwnPast(lg, f, a + 1) = OwnPast(lg, f, a) \ {a + 1}
      /\ hs => a + 1 \notin OwnPast(lg, f, a)
      /\ OwnPast(lg, f, a) \subseteq a + 1 .. Len(lg) /\ Len(lg) \in Nat
  BY OwnPastNext, LenProperties
<1>3. /\ w[<<f, NameIn(lg, f, a)>>] = a + 1
      /\ w[<<f, 1 - NameIn(lg, f, a)>>] = v[<<f, 1 - NameIn(lg, f, a)>>]
  BY <1>1 DEF Effect
<1>4. ~(hs /\ OwnPast(lg, f, a) # {})
  <2> SUFFICES ASSUME hs, OwnPast(lg, f, a) # {}
               PROVE  FALSE
    OBVIOUS
  <2> DEFINE here == v[<<f, NameIn(lg, f, a)>>]
  <2>1. /\ here \in OwnPast(lg, f, a)
        /\ \A s \in a + 1 .. here : lg[s].file = f => lg[s].own \/ lg[s].kind = "rename"
    BY Zenon DEF FileInv
  <2>2. a + 1 \in a + 1 .. here
    BY <1>2, <2>1
  <2> QED
    BY <2>1, <2>2 DEF Puts
<1>5. ix[f] = {} => Past(lg, f, Puts, a) = {}
  BY NoEntry
<1>6. a + 1 \in Past(lg, f, Puts, a + 1)
  <2>1. a + 1 \in 1 .. a + 1
    OBVIOUS
  <2> QED
    BY <2>1, Zenon DEF Past
<1>7. hs => OwnPast(lg, f, a + 1) = {}
  BY <1>2, <1>4
<1> QED
  BY <1>1, <1>3, <1>5, <1>6, <1>7, Zenon DEF FileInv

LEMMA WriteOfDelete ==
    ASSUME NEW lg \in Seq(OpType), NEW f, NEW a \in Nat, NEW hs, NEW ix, NEW v, NEW w,
           FileInv(lg, f, a, a, hs, ix, v), Effect(lg, a, f, ix[f], v, w),
           lg[a + 1].file = f, lg[a + 1].kind = "delete", a < Len(lg), hs => ~lg[a + 1].own
    PROVE  FileInv(lg, f, a, a + 1, hs, ix, w)
<1>1. /\ NameIn(lg, f, a + 1) = NameIn(lg, f, a)
      /\ ContentIn(lg, f, a + 1) = Nothing
  <2>1. lg[a + 1].kind \notin Puts /\ lg[a + 1].kind # "rename"
    BY DEF Puts
  <2>2. NameIn(lg, f, a + 1) = NameIn(lg, f, a)
    BY <2>1, NameNext
  <2>3. ContentIn(lg, f, a + 1) = Nothing
    BY ContentDeleted
  <2> QED
    BY <2>2, <2>3
<1>2. /\ OwnPast(lg, f, a + 1) = OwnPast(lg, f, a) \ {a + 1}
      /\ hs => a + 1 \notin OwnPast(lg, f, a)
      /\ OwnPast(lg, f, a) \subseteq a + 1 .. Len(lg) /\ Len(lg) \in Nat
  BY OwnPastNext, LenProperties
<1>3. \A x \in Names : w[<<f, x>>] = IF x \in ix[f] THEN Nothing ELSE v[<<f, x>>]
  BY DEF Effect
<1>4. ~(hs /\ OwnPast(lg, f, a) # {})
  <2> SUFFICES ASSUME hs, OwnPast(lg, f, a) # {}
               PROVE  FALSE
    OBVIOUS
  <2> DEFINE here == v[<<f, NameIn(lg, f, a)>>]
  <2>1. /\ here \in OwnPast(lg, f, a)
        /\ \A s \in a + 1 .. here : lg[s].file = f => lg[s].own \/ lg[s].kind = "rename"
    BY Zenon DEF FileInv
  <2>2. a + 1 \in a + 1 .. here
    BY <1>2, <2>1
  <2> QED
    BY <2>1, <2>2
<1>5. ix[f] = {} => /\ Past(lg, f, Puts, a) = {} /\ OwnPast(lg, f, a) = {}
                    /\ NothingOf(f, v)
  BY NoEntry
<1>6. hs => OwnPast(lg, f, a + 1) = {}
  BY <1>2, <1>4
<1>7. /\ w[<<f, NameIn(lg, f, a)>>] = Nothing
      /\ w[<<f, 1 - NameIn(lg, f, a)>>] = Nothing
  <2>1. ix[f] \in {{}, {NameIn(lg, f, a)}} /\ v[<<f, 1 - NameIn(lg, f, a)>>] = Nothing
    BY Zenon DEF FileInv
  <2>2. NameIn(lg, f, a) \in Names /\ 1 - NameIn(lg, f, a) \in Names
    BY NameType
  <2> QED
    BY <1>3, <1>5, <2>1, <2>2, Zenon DEF NothingOf
<1>8. ix[f] \in {{}, {NameIn(lg, f, a)}}
  BY DEF FileInv
<1> QED
  BY <1>1, <1>5, <1>6, <1>7, <1>8, Zenon DEF FileInv

LEMMA WriteOfRename ==
    ASSUME NEW lg \in Seq(OpType), NEW f, NEW a \in Nat, NEW hs, NEW ix, NEW v, NEW w,
           FileInv(lg, f, a, a, hs, ix, v), Effect(lg, a, f, ix[f], v, w),
           lg[a + 1].file = f, lg[a + 1].kind = "rename", ~lg[a + 1].own
    PROVE  FileInv(lg, f, a, a + 1, hs, ix, w)
<1> DEFINE here == v[<<f, NameIn(lg, f, a)>>]
<1>1. NameIn(lg, f, a) \in {0, 1}
  BY NameType DEF Names
<1>2. /\ NameIn(lg, f, a + 1) = 1 - NameIn(lg, f, a)
      /\ 1 - NameIn(lg, f, a + 1) = NameIn(lg, f, a)
      /\ ContentIn(lg, f, a + 1) = ContentIn(lg, f, a)
  <2>1. NameIn(lg, f, a + 1) = 1 - NameIn(lg, f, a)
    BY NameNext
  <2>2. ContentIn(lg, f, a + 1) = ContentIn(lg, f, a)
    <3>1. lg[a + 1].kind \notin Puts /\ lg[a + 1].kind # "delete"
      BY DEF Puts
    <3> QED
      BY <3>1, ContentNext
  <2> QED
    BY <1>1, <2>1, <2>2
<1>3. OwnPast(lg, f, a + 1) = OwnPast(lg, f, a) /\ OwnPast(lg, f, a) \subseteq Nat \ {0}
  <2>1. /\ OwnPast(lg, f, a + 1) = OwnPast(lg, f, a) \ {a + 1}
        /\ a + 1 \notin OwnPast(lg, f, a)
        /\ OwnPast(lg, f, a) \subseteq a + 1 .. Len(lg) /\ Len(lg) \in Nat
    BY OwnPastNext, LenProperties
  <2>2. a + 1 .. Len(lg) \subseteq Nat \ {0}
    BY <2>1
  <2> QED
    BY <2>1, <2>2
<1>4. IF NameIn(lg, f, a) \in ix[f] /\ here # Nothing
      THEN w[<<f, NameIn(lg, f, a)>>] = Nothing /\ w[<<f, 1 - NameIn(lg, f, a)>>] = here
      ELSE \A x \in Names : w[<<f, x>>] = v[<<f, x>>]
  BY <1>2 DEF Effect
<1>5. /\ ix[f] \in {{}, {NameIn(lg, f, a)}}
      /\ v[<<f, 1 - NameIn(lg, f, a)>>] = Nothing
  BY Zenon DEF FileInv
<1>6. ix[f] = {} => /\ Past(lg, f, Puts, a) = {} /\ OwnPast(lg, f, a) = {}
                    /\ NothingOf(f, v)
  BY NoEntry
<1>7. /\ w[<<f, NameIn(lg, f, a)>>] = Nothing
      /\ w[<<f, 1 - NameIn(lg, f, a)>>] = here
  <2>1. NameIn(lg, f, a) \in Names /\ 1 - NameIn(lg, f, a) \in Names
    BY NameType
  <2> QED
    BY <1>4, <1>5, <1>6, <2>1, Zenon DEF NothingOf
<1>8. ASSUME OwnPast(lg, f, a) # {}, hs, NEW s \in a + 1 + 1 .. here
      PROVE  s \in a + 1 .. here
  <2>1. here \in Nat
    BY <1>3, <1>8, Zenon DEF FileInv
  <2> QED
    BY <2>1
<1> QED
  BY <1>2, <1>3, <1>5, <1>6, <1>7, <1>8, Zenon DEF FileInv

\* A write that has been asked for: the vault is one operation ahead of appliedSeq.
LEMMA WriteKeepsFile ==
    ASSUME NEW lg \in Seq(OpType), NEW f, NEW a \in Nat, NEW hs, NEW ix, NEW v, NEW w,
           FileInv(lg, f, a, a, hs, ix, v), Effect(lg, a, f, ix[f], v, w),
           a < Len(lg), hs => ~lg[a + 1].own, lg[a + 1].own => lg[a + 1].kind = "inline"
    PROVE  FileInv(lg, f, a, a + 1, hs, ix, w)
<1>1. lg[a + 1] \in OpType
  <2>1. a + 1 \in 1 .. Len(lg)
    BY LenProperties
  <2> QED
    BY <2>1, ElementOfSeq
<1>2. CASE lg[a + 1].file # f
  BY <1>2, WriteOfAnother
<1>3. CASE lg[a + 1].file = f /\ lg[a + 1].kind \in Puts
  BY <1>3, WriteOfPut
<1>4. CASE lg[a + 1].file = f /\ lg[a + 1].kind = "delete"
  BY <1>4, WriteOfDelete
<1>5. CASE lg[a + 1].file = f /\ lg[a + 1].kind = "rename"
  BY <1>5, WriteOfRename
<1>6. lg[a + 1].kind \in Puts \/ lg[a + 1].kind = "delete" \/ lg[a + 1].kind = "rename"
  BY <1>1 DEF OpType, Kinds
<1> QED
  BY <1>2, <1>3, <1>4, <1>5, <1>6

\* What the index has of f behind operation a + 1.
Entry(lg, a, f, ix) ==
    IF lg[a + 1].file # f \/ lg[a + 1].kind = "delete" \/ (lg[a + 1].kind = "rename" /\ ix[f] = {})
    THEN ix[f] ELSE {NameIn(lg, f, a + 1)}

\* The write is done, and appliedSeq and the index follow the vault.
LEMMA DoneKeepsFile ==
    ASSUME NEW lg \in Seq(OpType), NEW f, NEW a \in Nat, NEW hs, NEW ix, NEW iy, NEW v,
           FileInv(lg, f, a, a + 1, hs, ix, v), iy[f] = Entry(lg, a, f, ix)
    PROVE  FileInv(lg, f, a + 1, a + 1, hs, iy, v)
<1> DEFINE here == lg[a + 1].file = f
           stays == ~here \/ lg[a + 1].kind = "delete" \/ (lg[a + 1].kind = "rename" /\ ix[f] = {})
<1>1. iy[f] = IF stays THEN ix[f] ELSE {NameIn(lg, f, a + 1)}
  BY DEF Entry
<1>2. ix[f] \in {{}, {NameIn(lg, f, a)}}
  BY DEF FileInv
<1>3. iy[f] \in {{}, {NameIn(lg, f, a + 1)}}
  <2>1. CASE ~stays
    BY <1>1, <2>1
  <2>2. CASE stays /\ ix[f] = {}
    BY <1>1, <2>2
  <2>3. CASE stays /\ ix[f] # {}
    <3>1. NameIn(lg, f, a + 1) = NameIn(lg, f, a)
      BY <2>3, NameNext
    <3> QED
      BY <1>1, <1>2, <2>3, <3>1
  <2> QED
    BY <2>1, <2>2, <2>3
<1>4. ASSUME iy[f] = {}
      PROVE  ix[f] = {} /\ ~(here /\ lg[a + 1].kind \in Puts)
  <2>1. stays /\ ix[f] = {}
    BY <1>1, <1>4
  <2> QED
    BY <2>1 DEF Puts
<1>5. ASSUME iy[f] = {}
      PROVE  Past(lg, f, Puts, a + 1) = {} /\ OwnPast(lg, f, a + 1) = {}
  <2>1. PastGrows(lg, f, Puts, a)
    BY PastNext
  <2>2. Past(lg, f, Puts, a + 1) = Past(lg, f, Puts, a)
    BY <1>4, <1>5, <2>1, Zenon DEF PastGrows
  <2>3. /\ Past(lg, f, Puts, a) = {}
        /\ OwnPast(lg, f, a) # {} => a + 1 \in Past(lg, f, Puts, a + 1)
    BY <1>4, <1>5, Zenon DEF FileInv
  <2>4. OwnPast(lg, f, a + 1) \subseteq OwnPast(lg, f, a)
    BY OwnPastNext
  <2> QED
    BY <2>2, <2>3, <2>4
<1> QED
  BY <1>3, <1>5, Zenon DEF FileInv

\* The device's own operation is acknowledged: the vault has had it all along.
LEMMA AckKeepsFile ==
    ASSUME NEW lg \in Seq(OpType), NEW f, NEW a \in Nat, NEW ix, NEW v,
           FileInv(lg, f, a, a, TRUE, ix, v),
           a < Len(lg), lg[a + 1].own, lg[a + 1].kind = "inline"
    PROVE  FileInv(lg, f, a + 1, a + 1, TRUE, ix, v)
<1>1. NameIn(lg, f, a + 1) = NameIn(lg, f, a)
  BY NameNext
<1>2. CASE lg[a + 1].file # f
  <2>1. Effect(lg, a, f, ix[f], v, v)
    BY <1>2 DEF Effect
  <2>2. FileInv(lg, f, a, a + 1, TRUE, ix, v)
    BY <1>2, <2>1, WriteOfAnother
  <2>3. ix[f] = Entry(lg, a, f, ix)
    BY <1>2 DEF Entry
  <2> QED
    BY <2>2, <2>3, DoneKeepsFile
<1>3. CASE lg[a + 1].file = f
  <2> DEFINE here == v[<<f, NameIn(lg, f, a)>>]
  <2>1. ContentIn(lg, f, a + 1) = a + 1
    BY <1>3, ContentNext DEF Puts
  <2>2. /\ OwnPast(lg, f, a) \subseteq a + 1 .. Len(lg) /\ Len(lg) \in Nat
        /\ OwnPast(lg, f, a + 1) = OwnPast(lg, f, a) \ {a + 1}
    BY OwnPastNext, LenProperties
  <2>3. a + 1 \in OwnPast(lg, f, a)
    <3>1. a + 1 \in a + 1 .. Len(lg)
      BY <2>2
    <3> QED
      BY <1>3, <3>1 DEF OwnPast
  <2>4. ix[f] # {}
    BY <2>3, NoEntry
  <2>5. /\ ix[f] \in {{}, {NameIn(lg, f, a)}}
        /\ v[<<f, 1 - NameIn(lg, f, a)>>] = Nothing
        /\ here \in OwnPast(lg, f, a)
        /\ \A s \in OwnPast(lg, f, a) : s <= here
        /\ \A s \in a + 1 .. here : lg[s].file = f => lg[s].own \/ lg[s].kind = "rename"
    BY <2>3, Zenon DEF FileInv
  <2>6. OwnPast(lg, f, a + 1) = {} => here = a + 1
    BY <2>2, <2>5
  <2>7. OwnPast(lg, f, a + 1) # {} => here \in OwnPast(lg, f, a + 1)
    <3>1. ASSUME NEW s \in OwnPast(lg, f, a + 1)
          PROVE  here # a + 1
      <4>1. s \in OwnPast(lg, f, a) /\ s # a + 1
        BY <2>2, <3>1
      <4>2. s \in Nat /\ s >= a + 1
        BY <2>2, <4>1
      <4>3. s <= here
        BY <2>5, <4>1
      <4> QED
        BY <4>1, <4>2, <4>3
    <3> QED
      BY <2>2, <2>5, <3>1
  <2>8. \A s \in OwnPast(lg, f, a + 1) : s <= here
    BY <2>2, <2>5
  <2>9. \A s \in a + 1 + 1 .. here : s \in a + 1 .. here
    <3>1. here \in Nat
      BY <2>2, <2>5
    <3> QED
      BY <3>1
  <2> QED
    BY <1>1, <2>1, <2>4, <2>5, <2>6, <2>7, <2>8, <2>9, Zenon DEF FileInv
<1> QED
  BY <1>2, <1>3

LEMMA OwnPastAppended ==
    ASSUME NEW lg \in Seq(OpType), NEW op \in OpType, NEW f, NEW n \in 0 .. Len(lg)
    PROVE  OwnPast(Append(lg, op), f, n)
             = IF op.own /\ op.file = f THEN OwnPast(lg, f, n) \cup {Len(lg) + 1}
               ELSE OwnPast(lg, f, n)
<1> DEFINE m == Append(lg, op)
<1>1. /\ Len(lg) \in Nat /\ Len(m) = Len(lg) + 1
      /\ m[Len(lg) + 1] = op
      /\ \A s \in 1 .. Len(lg) : m[s] = lg[s]
  BY AppendProperties, LenProperties
<1>2. /\ n + 1 .. Len(lg) + 1 = (n + 1 .. Len(lg)) \cup {Len(lg) + 1}
      /\ n + 1 .. Len(lg) \subseteq 1 .. Len(lg)
  BY <1>1
<1>3. OwnPast(m, f, n) = {s \in n + 1 .. Len(lg) + 1 : m[s].own /\ m[s].file = f}
  BY <1>1 DEF OwnPast
<1>4. OwnPast(lg, f, n) = {s \in n + 1 .. Len(lg) : m[s].own /\ m[s].file = f}
  BY <1>1, <1>2, Zenon DEF OwnPast
<1> HIDE DEF m
<1> QED
  BY <1>1, <1>2, <1>3, <1>4 DEF m

\* An operation that is accepted, other than one of the device's own on f.
LEMMA AcceptKeepsFile ==
    ASSUME NEW lg \in Seq(OpType), NEW op \in OpType, NEW f, NEW a \in 0 .. Len(lg),
           NEW e \in 0 .. Len(lg), NEW hs, NEW ix, NEW v,
           FileInv(lg, f, a, e, hs, ix, v), ~(op.own /\ op.file = f)
    PROVE  FileInv(Append(lg, op), f, a, e, hs, ix, v)
<1> DEFINE m == Append(lg, op)
           here == v[<<f, NameIn(lg, f, e)>>]
<1>1. OwnPast(m, f, a) = OwnPast(lg, f, a) /\ OwnPast(m, f, e) = OwnPast(lg, f, e)
  BY OwnPastAppended
<1>2. /\ NameIn(m, f, a) = NameIn(lg, f, a) /\ NameIn(m, f, e) = NameIn(lg, f, e)
      /\ ContentIn(m, f, e) = ContentIn(lg, f, e)
  BY PrefixKept
<1>3. \A k \in {a, e} : Past(m, f, Puts, k) = Past(lg, f, Puts, k)
  BY PrefixKept
<1>4. ASSUME here \in OwnPast(lg, f, e), NEW s \in e + 1 .. here
      PROVE  m[s] = lg[s]
  <2>1. OwnPast(lg, f, e) \subseteq e + 1 .. Len(lg) /\ Len(lg) \in Nat
    BY OwnPastNext, LenProperties
  <2>2. s \in 1 .. Len(lg)
    BY <1>4, <2>1
  <2> QED
    BY <2>2, AppendProperties
<1> HIDE DEF m
<1> QED
  BY <1>1, <1>2, <1>3, <1>4, Zenon DEF FileInv, m

\* The user has edited what the log says is there.
LEMMA EditKeepsFile ==
    ASSUME NEW lg \in Seq(OpType), NEW op \in OpType, NEW f, NEW a \in 0 .. Len(lg),
           NEW e \in 0 .. Len(lg), NEW ix, NEW v, NEW w,
           FileInv(lg, f, a, e, TRUE, ix, v), e \in {a, a + 1},
           op.own, op.file = f,
           v[<<f, NameIn(lg, f, Len(lg))>>] = ContentIn(lg, f, Len(lg)),
           ContentIn(lg, f, Len(lg)) # Nothing,
           w[<<f, NameIn(lg, f, Len(lg))>>] = Len(lg) + 1,
           w[<<f, 1 - NameIn(lg, f, Len(lg))>>] = v[<<f, 1 - NameIn(lg, f, Len(lg))>>]
    PROVE  FileInv(Append(lg, op), f, a, e, TRUE, ix, w)
<1> DEFINE m == Append(lg, op)
           n == Len(lg)
           c == ContentIn(lg, f, n)
<1>1. n \in Nat /\ a \in Nat /\ e \in Nat
  BY LenProperties
<1>2. /\ OwnPast(m, f, a) = OwnPast(lg, f, a) \cup {n + 1}
      /\ OwnPast(m, f, e) = OwnPast(lg, f, e) \cup {n + 1}
      /\ OwnPast(lg, f, e) \subseteq e + 1 .. n
  BY <1>1, OwnPastAppended, OwnPastNext
<1>3. /\ NameIn(m, f, a) = NameIn(lg, f, a) /\ NameIn(m, f, e) = NameIn(lg, f, e)
      /\ \A k \in {a, e} : Past(m, f, Puts, k) = Past(lg, f, Puts, k)
  BY PrefixKept
\* Both names of the file, at e and at the end of the log, are the one with content.
<1>4. /\ NameIn(lg, f, n) = NameIn(lg, f, e)
      /\ c \in 1 .. n
  <2>1. /\ NameIn(lg, f, n) \in {0, 1} /\ NameIn(lg, f, e) \in {0, 1}
        /\ c \in 0 .. n
    BY <1>1, NameType, ContentOf DEF Names
  <2>2. v[<<f, 1 - NameIn(lg, f, e)>>] = Nothing
    BY Zenon DEF FileInv
  <2>3. NameIn(lg, f, n) # 1 - NameIn(lg, f, e)
    BY <2>2
  <2> QED
    BY <2>1, <2>3 DEF Nothing
<1>5. \A s \in Past(lg, f, Puts, n) \cup Past(lg, f, {"delete"}, n) : s <= c
  BY <1>1, ContentOf
\* What stands between e and the edit.
<1>6. ASSUME NEW s \in e + 1 .. n, lg[s].file = f
      PROVE  lg[s].own \/ lg[s].kind = "rename"
  <2>1. s \in 1 .. n /\ lg[s] \in OpType
    <3>1. s \in 1 .. n
      BY <1>1
    <3> QED
      BY <3>1, ElementOfSeq
  <2>2. CASE s > c
    <3>1. s \notin Past(lg, f, Puts, n) /\ s \notin Past(lg, f, {"delete"}, n)
      BY <1>1, <1>4, <1>5, <2>1, <2>2
    <3>2. lg[s].kind \notin Puts /\ lg[s].kind # "delete"
      BY <1>6, <2>1, <3>1 DEF Past
    <3> QED
      BY <2>1, <3>2 DEF OpType, Kinds
  <2>3. CASE s <= c /\ OwnPast(lg, f, e) # {}
    <3>1. s \in e + 1 .. c
      BY <1>1, <1>4, <2>3
    <3>2. \A r \in e + 1 .. v[<<f, NameIn(lg, f, e)>>] :
             lg[r].file = f => lg[r].own \/ lg[r].kind = "rename"
      BY <2>3, Zenon DEF FileInv
    <3> QED
      BY <1>4, <1>6, <3>1, <3>2
  <2>4. CASE s <= c /\ OwnPast(lg, f, e) = {}
    <3>1. c = ContentIn(lg, f, e)
      BY <1>4, <2>4, Zenon DEF FileInv
    <3>2. ContentIn(lg, f, e) \in 0 .. e
      BY <1>1, ContentOf
    <3> QED
      BY <1>1, <2>4, <3>1, <3>2
  <2> QED
    BY <1>1, <1>4, <2>1, <2>2, <2>3, <2>4
<1>7. ASSUME NEW s \in e + 1 .. n + 1, m[s].file = f
      PROVE  m[s].own \/ m[s].kind = "rename"
  <2>1. CASE s = n + 1
    BY <2>1, AppendProperties
  <2>2. CASE s \in e + 1 .. n
    <3>1. s \in 1 .. n
      BY <1>1, <2>2
    <3>2. m[s] = lg[s]
      BY <3>1, AppendProperties
    <3> QED
      BY <1>6, <1>7, <2>2, <3>2
  <2> QED
    BY <1>1, <2>1, <2>2
\* The index knows the file, or its first content is being written.
<1>8. ASSUME ix[f] = {}
      PROVE  Past(lg, f, Puts, a) = {} /\ e = a + 1 /\ e \in Past(lg, f, Puts, e)
  <2>1. /\ Past(lg, f, Puts, a) = {}
        /\ OwnPast(lg, f, a) # {} => e = a + 1 /\ e \in Past(lg, f, Puts, e)
    BY <1>8, Zenon DEF FileInv
  <2>2. CASE OwnPast(lg, f, e) # {}
    <3>1. OwnPast(lg, f, e) \subseteq OwnPast(lg, f, a)
      <4>1. a \in Nat /\ (e = a \/ e = a + 1)
        BY <1>1
      <4> QED
        BY <4>1, OwnPastNext
    <3> QED
      BY <2>1, <2>2, <3>1
  <2>3. CASE OwnPast(lg, f, e) = {}
    <3>1. c = ContentIn(lg, f, e)
      BY <1>4, <2>3, Zenon DEF FileInv
    <3>2. Past(lg, f, Puts, e) # {}
      BY <1>1, <3>1, ContentOf
    <3>3. e # a
      BY <2>1, <3>2
    <3>4. e = a + 1
      BY <3>3
    <3>5. PastGrows(lg, f, Puts, a)
      BY <1>1, PastNext
    <3>6. a + 1 \in Past(lg, f, Puts, a + 1)
      <4>1. Past(lg, f, Puts, a + 1) # {}
        BY <3>2, <3>4
      <4> QED
        BY <2>1, <3>5, <4>1 DEF PastGrows
    <3> QED
      BY <2>1, <3>4, <3>6
  <2> QED
    BY <2>2, <2>3
<1>9. \A s \in OwnPast(m, f, e) : s <= n + 1
  BY <1>1, <1>2
<1>10. /\ ix[f] \in {{}, {NameIn(lg, f, a)}}
       /\ v[<<f, 1 - NameIn(lg, f, e)>>] = Nothing
  BY Zenon DEF FileInv
<1> HIDE DEF m, n
<1>11. n + 1 \in OwnPast(m, f, e)
  BY <1>2
<1>12. w[<<f, NameIn(m, f, e)>>] = n + 1 /\ w[<<f, 1 - NameIn(m, f, e)>>] = Nothing
  BY <1>3, <1>4, <1>10, Zenon DEF n
<1> QED
  BY <1>3, <1>7, <1>8, <1>9, <1>10, <1>11, <1>12, Zenon DEF FileInv, m

\* A handshake is complete, and nothing of the device's own is to be applied.
LEMMA HandshakeKeepsFile ==
    ASSUME NEW lg \in Seq(OpType), NEW f, NEW a \in Nat, NEW e \in {a, a + 1}, NEW hs, NEW h,
           NEW ix, NEW v,
           FileInv(lg, f, a, e, hs, ix, v),
           h => hs \/ \A s \in 1 .. Len(lg) : lg[s].own => s <= a
    PROVE  FileInv(lg, f, a, e, h, ix, v)
<1>1. ASSUME ~hs, h
      PROVE  OwnPast(lg, f, e) = {}
  <2>1. \A s \in 1 .. Len(lg) : lg[s].own => s <= a
    BY <1>1
  <2>2. e + 1 .. Len(lg) \subseteq 1 .. Len(lg) /\ \A s \in e + 1 .. Len(lg) : ~(s <= a)
    BY LenProperties
  <2> QED
    BY <2>1, <2>2, Zenon DEF OwnPast
<1> QED
  BY <1>1, Zenon DEF FileInv

-----------------------------------------------------------------------------
(***************************************************************************)
(* The messages to the device.                                             *)
(***************************************************************************)
LEMMA AckedTail ==
    ASSUME NEW ans \in Seq(AnswerType), ans # <<>>, NEW n \in Nat, n < Len(ans), NEW s,
           Acked(ans, n + 1, s)
    PROVE  \/ Head(ans).t = "ack" /\ Head(ans).seq = s
           \/ Acked(Tail(ans), n, s)
<1>1. PICK j \in 1 .. n + 1 : ans[j].t = "ack" /\ ans[j].seq = s
  BY DEF Acked
<1>2. CASE j = 1
  BY <1>1, <1>2
<1>3. CASE j # 1
  <2>1. j - 1 \in 1 .. n /\ j - 1 \in 1 .. Len(ans) - 1 /\ j = (j - 1) + 1
    BY <1>1, <1>3, LenProperties
  <2>2. Tail(ans)[j - 1] = ans[j]
    BY <2>1, HeadTailProperties
  <2> QED
    BY <1>1, <2>1, <2>2, Zenon DEF Acked
<1> QED
  BY <1>2, <1>3

LEMMA AckedAppend ==
    ASSUME NEW ans \in Seq(AnswerType), NEW m \in AnswerType, NEW n \in 0 .. Len(ans), NEW s
    PROVE  Acked(Append(ans, m), n, s) <=> Acked(ans, n, s)
<1>1. \A j \in 1 .. n : Append(ans, m)[j] = ans[j]
  BY AppendProperties
<1> QED
  BY <1>1, Zenon DEF Acked

\* The first message has been taken, and appliedSeq is b by then.
LEMMA AnswersTaken ==
    ASSUME NEW lg \in Seq(OpType), NEW ow, NEW lk, NEW a \in Nat, NEW b \in Nat, NEW hs,
           NEW ans \in Seq(AnswerType), ans # <<>>,
           AnswersInv(lg, ow, lk, a, hs, ans),
           a <= b, Head(ans).t = "ack" => Head(ans).seq <= b
    PROVE  AnswersInv(lg, ow, lk, b, hs, Tail(ans))
<1>1. /\ Tail(ans) \in Seq(AnswerType) /\ Len(ans) \in Nat \ {0}
      /\ Len(Tail(ans)) = Len(ans) - 1
      /\ \A k \in 1 .. Len(ans) - 1 : Tail(ans)[k] = ans[k + 1]
  BY HeadTailProperties, EmptySeq
<1>2. ASSUME NEW n \in Nat, n < Len(ans), NEW s \in Nat, s > b, Acked(ans, n + 1, s)
      PROVE  Acked(Tail(ans), n, s)
  BY <1>2, AckedTail
<1>3. ASSUME NEW k \in 1 .. Len(ans) - 1
      PROVE  AnswerOK(lg, lk, b, hs, Tail(ans), k - 1, Tail(ans)[k])
  <2>1. k + 1 \in 1 .. Len(ans) /\ Tail(ans)[k] = ans[k + 1] /\ k - 1 \in Nat /\ k - 1 < Len(ans)
    BY <1>1
  <2>2. AnswerOK(lg, lk, a, hs, ans, (k + 1) - 1, ans[k + 1])
    BY <2>1, Zenon DEF AnswersInv
  <2>3. (k + 1) - 1 = (k - 1) + 1
    OBVIOUS
  <2>4. ASSUME ans[k + 1].t = "ops"
        PROVE  OpsOK(lg, b, hs, Tail(ans), k - 1, ans[k + 1].ops)
    <3>1. OpsOK(lg, a, hs, ans, (k - 1) + 1, ans[k + 1].ops)
      BY <2>2, <2>3, <2>4 DEF AnswerOK
    <3>2. ASSUME NEW i \in DOMAIN ans[k + 1].ops
          PROVE  /\ ans[k + 1].ops[i] \in 1 .. Len(lg)
                 /\ hs /\ ans[k + 1].ops[i] > b /\ lg[ans[k + 1].ops[i]].own =>
                      Acked(Tail(ans), k - 1, ans[k + 1].ops[i])
      <4> DEFINE s == ans[k + 1].ops[i]
      <4>1. s \in 1 .. Len(lg) /\ (hs /\ s > a /\ lg[s].own => Acked(ans, (k - 1) + 1, s))
        BY <3>1 DEF OpsOK
      <4>2. s \in Nat
        BY <4>1
      <4> HIDE DEF s
      <4>3. s > b => s > a
        BY <4>2
      <4>4. hs /\ s > b /\ lg[s].own => Acked(Tail(ans), k - 1, s)
        BY <1>2, <2>1, <4>1, <4>2, <4>3
      <4> QED
        BY <4>1, <4>4 DEF s
    <3> QED
      BY <3>2, Zenon DEF OpsOK
  <2> QED
    BY <2>1, <2>2, <2>4 DEF AnswerOK
<1>4. ASSUME hs, NEW s \in 1 .. Len(lg), lg[s].own, s > b
      PROVE  s \in ow \/ Acked(Tail(ans), Len(Tail(ans)), s)
  <2>1. s \in Nat /\ s > a /\ Len(lg) \in Nat
    BY <1>4, LenProperties
  <2>2. s \in ow \/ Acked(ans, Len(ans), s)
    BY <1>4, <2>1 DEF AnswersInv, OwedInv
  <2>3. Len(ans) = Len(Tail(ans)) + 1 /\ Len(Tail(ans)) \in Nat /\ Len(Tail(ans)) < Len(ans)
    BY <1>1
  <2> QED
    BY <1>2, <1>4, <2>1, <2>2, <2>3
<1>5. OwedInv(lg, ow, lk, b, hs, Tail(ans))
  BY <1>4, Zenon DEF AnswersInv, OwedInv
<1> QED
  BY <1>1, <1>3, <1>5, Zenon DEF AnswersInv

\* What message m announces: of the device's own operations, the one it acknowledges.
Announced(lg, ow, ox, m) ==
    /\ ox \subseteq ow
    /\ \A s \in ow \ ox : lg[s].own => m.t = "ack" /\ m.seq = s

\* The server has sent message m.
LEMMA AnswersAppended ==
    ASSUME NEW lg \in Seq(OpType), NEW ow, NEW ox, NEW lk, NEW a \in Nat, NEW hs,
           NEW ans \in Seq(AnswerType), NEW m \in AnswerType,
           AnswersInv(lg, ow, lk, a, hs, ans),
           AnswerOK(lg, lk, a, hs, ans, Len(ans), m),
           Announced(lg, ow, ox, m)
    PROVE  AnswersInv(lg, ox, lk, a, hs, Append(ans, m))
<1> DEFINE more == Append(ans, m)
<1>1. /\ Len(ans) \in Nat /\ Len(more) = Len(ans) + 1
      /\ \A k \in 1 .. Len(ans) : more[k] = ans[k]
      /\ more[Len(ans) + 1] = m
  BY AppendProperties, LenProperties
<1>2. ASSUME NEW n \in 0 .. Len(ans), NEW x, AnswerOK(lg, lk, a, hs, ans, n, x)
      PROVE  AnswerOK(lg, lk, a, hs, more, n, x)
  <2>1. \A s : Acked(more, n, s) <=> Acked(ans, n, s)
    BY AckedAppend
  <2> QED
    BY <1>2, <2>1, Zenon DEF AnswerOK, OpsOK
<1> HIDE DEF more
<1>3. ASSUME NEW k \in 1 .. Len(more)
      PROVE  AnswerOK(lg, lk, a, hs, more, k - 1, more[k])
  <2>1. CASE k = Len(ans) + 1
    <3>1. k - 1 = Len(ans) /\ more[k] = m /\ Len(ans) \in 0 .. Len(ans)
      BY <1>1, <2>1
    <3> QED
      BY <1>2, <3>1
  <2>2. CASE k # Len(ans) + 1
    <3>1. k \in 1 .. Len(ans) /\ k - 1 \in 0 .. Len(ans) /\ more[k] = ans[k]
      BY <1>1, <2>2
    <3>2. AnswerOK(lg, lk, a, hs, ans, k - 1, ans[k])
      BY <3>1, Zenon DEF AnswersInv
    <3> QED
      BY <1>2, <3>1, <3>2
  <2> QED
    BY <2>1, <2>2
<1>4. ASSUME NEW s, Acked(ans, Len(ans), s) \/ (m.t = "ack" /\ m.seq = s)
      PROVE  Acked(more, Len(more), s)
  <2>1. \A k \in 1 .. Len(ans) : k \in 1 .. Len(more) /\ more[k] = ans[k]
    BY <1>1
  <2>2. Len(ans) + 1 \in 1 .. Len(more) /\ more[Len(ans) + 1] = m
    BY <1>1
  <2> QED
    BY <1>4, <2>1, <2>2, Zenon DEF Acked
<1>5. OwedInv(lg, ox, lk, a, hs, more)
  <2>1. OwedInv(lg, ow, lk, a, hs, ans)
    BY DEF AnswersInv
  <2>2. ~hs /\ lk = "joined" => \A s \in ox : ~lg[s].own
    BY <2>1, Zenon DEF OwedInv, Announced
  <2>3. ASSUME hs, NEW s \in 1 .. Len(lg), lg[s].own, s > a
        PROVE  s \in ox \/ Acked(more, Len(more), s)
    <3>1. s \in ow \/ Acked(ans, Len(ans), s)
      BY <2>1, <2>3, Zenon DEF OwedInv
    <3>2. s \in ow /\ s \notin ox => m.t = "ack" /\ m.seq = s
      BY <2>3 DEF Announced
    <3> QED
      BY <1>4, <3>1, <3>2
  <2> QED
    BY <2>2, <2>3, Zenon DEF OwedInv
<1> QED
  BY <1>3, <1>5, Zenon DEF AnswersInv, more

\* The device has applied more, and its handshake may be complete by then.
LEMMA AnswersLater ==
    ASSUME NEW lg \in Seq(OpType), NEW ow, NEW lk, NEW a \in Nat, NEW b \in Nat, NEW hs, NEW h,
           NEW ans, AnswersInv(lg, ow, lk, a, hs, ans), a <= b, hs => h,
           h => hs \/ \A s \in 1 .. Len(lg) : lg[s].own => s <= b
    PROVE  AnswersInv(lg, ow, lk, b, h, ans)
<1>1. Len(lg) \in Nat
  BY LenProperties
<1>2. ASSUME NEW s \in 1 .. Len(lg), h, lg[s].own, s > b
      PROVE  hs /\ s > a
  <2>1. s \in Nat /\ ~(s <= b) /\ s > a
    BY <1>1, <1>2
  <2> QED
    BY <1>2, <2>1
<1>3. ASSUME NEW n, NEW ops, OpsOK(lg, a, hs, ans, n, ops)
      PROVE  OpsOK(lg, b, h, ans, n, ops)
  BY <1>2, <1>3, Zenon DEF OpsOK
<1>4. ASSUME NEW k \in 1 .. Len(ans)
      PROVE  AnswerOK(lg, lk, b, h, ans, k - 1, ans[k])
  <2>1. AnswerOK(lg, lk, a, hs, ans, k - 1, ans[k])
    BY Zenon DEF AnswersInv
  <2> QED
    BY <1>3, <2>1, Zenon DEF AnswerOK
<1>5. OwedInv(lg, ow, lk, b, h, ans)
  <2>1. OwedInv(lg, ow, lk, a, hs, ans)
    BY DEF AnswersInv
  <2> QED
    BY <1>2, <2>1, Zenon DEF OwedInv
<1> QED
  BY <1>4, <1>5, Zenon DEF AnswersInv

\* Announced, but not to this device.
LEMMA AnnouncementLost ==
    ASSUME NEW lg, NEW ow, NEW ox, NEW lk, NEW a, NEW hs, NEW ans,
           AnswersInv(lg, ow, lk, a, hs, ans), ox \subseteq ow,
           hs => \A s \in ow \ ox : ~lg[s].own
    PROVE  AnswersInv(lg, ox, lk, a, hs, ans)
<1>1. OwedInv(lg, ow, lk, a, hs, ans)
  BY DEF AnswersInv
<1>2. OwedInv(lg, ox, lk, a, hs, ans)
  BY <1>1 DEF OwedInv
<1> QED
  BY <1>2, Zenon DEF AnswersInv

\* An operation is accepted.
LEMMA AnswersOfLongerLog ==
    ASSUME NEW lg \in Seq(OpType), NEW op \in OpType, NEW ow \in SUBSET (1 .. Len(lg)), NEW lk,
           NEW a \in Nat, NEW hs, NEW ans, AnswersInv(lg, ow, lk, a, hs, ans), op.own => hs
    PROVE  AnswersInv(Append(lg, op), ow \cup {Len(lg) + 1}, lk, a, hs, ans)
<1> DEFINE m == Append(lg, op)
           ox == ow \cup {Len(lg) + 1}
<1>1. /\ Len(lg) \in Nat /\ Len(m) = Len(lg) + 1 /\ m[Len(lg) + 1] = op
      /\ \A s \in 1 .. Len(lg) : m[s] = lg[s]
  BY AppendProperties, LenProperties
<1>2. /\ 1 .. Len(m) = (1 .. Len(lg)) \cup {Len(lg) + 1}
      /\ Len(lg) + 1 \notin 1 .. Len(lg)
  BY <1>1
<1> HIDE DEF m
<1>3. ASSUME NEW n, NEW ops, OpsOK(lg, a, hs, ans, n, ops)
      PROVE  OpsOK(m, a, hs, ans, n, ops)
  BY <1>1, <1>2, <1>3, Zenon DEF OpsOK
<1>4. ASSUME NEW k \in 1 .. Len(ans)
      PROVE  AnswerOK(m, lk, a, hs, ans, k - 1, ans[k])
  <2>1. AnswerOK(lg, lk, a, hs, ans, k - 1, ans[k])
    BY Zenon DEF AnswersInv
  <2> QED
    BY <1>1, <1>2, <1>3, <2>1, Zenon DEF AnswerOK
<1>5. OwedInv(m, ox, lk, a, hs, ans)
  <2>1. OwedInv(lg, ow, lk, a, hs, ans)
    BY DEF AnswersInv
  <2>2. ~hs /\ lk = "joined" => \A s \in ox : ~m[s].own
    BY <1>1, <2>1 DEF OwedInv
  <2>3. ASSUME hs, NEW s \in 1 .. Len(m), m[s].own, s > a
        PROVE  s \in ox \/ Acked(ans, Len(ans), s)
    <3>1. CASE s = Len(lg) + 1
      BY <3>1
    <3>2. CASE s \in 1 .. Len(lg)
      BY <1>1, <2>1, <2>3, <3>2, Zenon DEF OwedInv
    <3> QED
      BY <1>2, <3>1, <3>2
  <2> HIDE DEF ox
  <2> QED
    BY <2>2, <2>3, Zenon DEF OwedInv
<1> HIDE DEF ox
<1>6. AnswersInv(m, ox, lk, a, hs, ans)
  BY <1>4, <1>5, Zenon DEF AnswersInv
<1> QED
  BY <1>6 DEF m, ox

-----------------------------------------------------------------------------
(***************************************************************************)
(* The loop of applyOps.                                                   *)
(***************************************************************************)
LEMMA WhatTheLogSays ==
    ASSUME NEW f, NEW n
    PROVE  /\ NameAt(f, n) = NameIn(log, f, n)
           /\ ContentAt(f, n) = ContentIn(log, f, n)
<1>1. /\ Of(f, {"rename"}, n) = Past(log, f, {"rename"}, n)
      /\ Of(f, {"delete"}, n) = Past(log, f, {"delete"}, n)
      /\ Of(f, Puts, n) = Past(log, f, Puts, n)
  BY Zenon DEF Of, Past
<1>2. NameAt(f, n) = NameIn(log, f, n)
  BY <1>1, Zenon DEF NameAt, NameIn
<1>3. ContentAt(f, n) = ContentIn(log, f, n)
  BY <1>1, Zenon DEF ContentAt, ContentIn
<1> QED
  BY <1>2, <1>3

LEMMA NotAppliedProperties ==
    ASSUME NEW ops \in Seq(Nat), NEW seen \in Nat, NotApplied(ops, seen) # <<>>
    PROVE  /\ NotApplied(ops, seen) \in Seq(Nat)
           /\ Head(NotApplied(ops, seen)) = NotApplied(ops, seen)[1]
           /\ \A i \in DOMAIN NotApplied(ops, seen) :
                 \E j \in DOMAIN ops : NotApplied(ops, seen)[i] = ops[j]
<1> DEFINE later == {i \in DOMAIN ops : ops[i] > seen}
           m == Min(later)
           rest == SubSeq(ops, m, Len(ops))
<1>1. later # {} /\ NotApplied(ops, seen) = rest
  BY DEF NotApplied
<1>2. Len(ops) \in Nat /\ DOMAIN ops = 1 .. Len(ops)
  BY LenProperties
<1>3. later \subseteq Nat
  BY <1>2
<1>4. m \in later
  BY <1>1, <1>3, MinOf
<1>5. m \in 1 .. Len(ops) /\ \A i \in m .. Len(ops) : ops[i] \in Nat
  <2>1. m \in 1 .. Len(ops)
    BY <1>2, <1>4, Zenon
  <2>2. ASSUME NEW i \in m .. Len(ops)
        PROVE  ops[i] \in Nat
    <3>1. i \in 1 .. Len(ops)
      BY <1>2, <2>1
    <3> QED
      BY <3>1, ElementOfSeq
  <2> QED
    BY <2>1, <2>2
<1> HIDE DEF m
<1>6. /\ rest \in Seq(Nat) /\ Len(rest) = Len(ops) - m + 1
      /\ \A i \in 1 .. Len(ops) - m + 1 : rest[i] = ops[m + i - 1]
  BY <1>2, <1>5, SubSeqProperties
<1> HIDE DEF rest
<1>7. ASSUME NEW i \in DOMAIN rest
      PROVE  \E j \in DOMAIN ops : rest[i] = ops[j]
  <2>1. i \in 1 .. Len(ops) - m + 1
    BY <1>6, LenProperties
  <2>2. m + i - 1 \in 1 .. Len(ops)
    BY <1>2, <1>5, <2>1
  <2>3. rest[i] = ops[m + i - 1]
    BY <1>6, <2>1
  <2> QED
    BY <1>2, <2>2, <2>3
<1>8. Head(rest) = rest[1]
  BY <1>6 DEF Head
<1> QED
  BY <1>1, <1>6, <1>7, <1>8

LEMMA TargetOf ==
    ASSUME NEW s
    PROVE  /\ Target(s) = <<log[s].file, NameIn(log, log[s].file, s)>>
           /\ Target(s)[2] = NameIn(log, log[s].file, s)
<1>1. NameAt(log[s].file, s) = NameIn(log, log[s].file, s)
  BY WhatTheLogSays
<1> QED
  BY <1>1 DEF Target

\* The three kinds of write.
WriteIs(s, entry, f, name, w) ==
    /\ log[s].kind \in Puts => w = [vault EXCEPT ![<<f, name>>] = s]
    /\ log[s].kind = "delete" =>
         w = [p \in Path |-> IF p[1] = f /\ p[2] \in entry THEN Nothing ELSE vault[p]]
    /\ log[s].kind = "rename" =>
         w = IF 1 - name \in entry /\ vault[<<f, 1 - name>>] # Nothing
             THEN [vault EXCEPT ![<<f, 1 - name>>] = Nothing,
                                ![<<f, name>>] = vault[<<f, 1 - name>>]]
             ELSE vault

LEMMA WrittenCases ==
    ASSUME log \in Seq(OpType), NEW s \in 1 .. Len(log), NEW entry,
           NEW f, f = log[s].file, NEW name, name = NameIn(log, f, s)
    PROVE  /\ f \in SyncFile /\ <<f, name>> \in Path /\ <<f, 1 - name>> \in Path
           /\ name \in {0, 1}
           /\ WriteIs(s, entry, f, name, Written(s, entry))
<1>1. s \in Nat /\ log[s] \in OpType
  <2>1. s \in Nat
    BY LenProperties
  <2> QED
    BY <2>1, ElementOfSeq
<1>2. f \in SyncFile /\ name \in Names /\ 1 - name \in Names
  <2>1. name \in Names /\ 1 - name \in Names
    BY <1>1, NameType
  <2> QED
    BY <1>1, <2>1 DEF OpType
<1>3. Target(s) = <<f, name>> /\ Target(s)[2] = name
  BY TargetOf
<1>4. log[s].kind \in Puts => Written(s, entry) = [vault EXCEPT ![<<f, name>>] = s]
  BY <1>3 DEF Written, Puts
<1>5. log[s].kind = "delete" =>
        Written(s, entry) =
          [p \in Path |-> IF p[1] = f /\ p[2] \in entry THEN Nothing ELSE vault[p]]
  BY DEF Written
<1>6. log[s].kind = "rename" =>
        Written(s, entry) =
          IF 1 - name \in entry /\ vault[<<f, 1 - name>>] # Nothing
          THEN [vault EXCEPT ![<<f, 1 - name>>] = Nothing,
                             ![<<f, name>>] = vault[<<f, 1 - name>>]]
          ELSE vault
  BY <1>3 DEF Written
<1> QED
  BY <1>2, <1>4, <1>5, <1>6 DEF Path, Names, WriteIs

LEMMA WrittenEffect ==
    ASSUME log \in Seq(OpType), vault \in [Path -> Nat], NEW a \in Nat, a < Len(log),
           NEW known \in [SyncFile -> SUBSET Names],
           NEW w, w = Written(a + 1, known[log[a + 1].file])
    PROVE  /\ w \in [Path -> Nat]
           /\ \A g \in SyncFile : Effect(log, a, g, known[g], vault, w)
<1> DEFINE s == a + 1
           f == log[s].file
           name == NameIn(log, f, s)
<1>1. s \in 1 .. Len(log) /\ s \in Nat
  BY LenProperties
<1>0. /\ f \in SyncFile /\ <<f, name>> \in Path /\ <<f, 1 - name>> \in Path /\ name \in {0, 1}
      /\ WriteIs(s, known[f], f, name, w)
  BY <1>1, WrittenCases
<1>3. log[s].kind \in Puts \/ log[s].kind = "delete" \/ log[s].kind = "rename"
  <2>1. log[s] \in OpType
    BY <1>1, ElementOfSeq
  <2> QED
    BY <2>1 DEF OpType, Kinds
<1> HIDE DEF s, f, name
<1>2. /\ f \in SyncFile /\ <<f, name>> \in Path /\ <<f, 1 - name>> \in Path /\ name \in {0, 1}
      /\ log[s].kind \in Puts => w = [vault EXCEPT ![<<f, name>>] = s]
      /\ log[s].kind = "delete" =>
           w = [p \in Path |-> IF p[1] = f /\ p[2] \in known[f] THEN Nothing ELSE vault[p]]
      /\ log[s].kind = "rename" =>
           w = IF 1 - name \in known[f] /\ vault[<<f, 1 - name>>] # Nothing
               THEN [vault EXCEPT ![<<f, 1 - name>>] = Nothing,
                                  ![<<f, name>>] = vault[<<f, 1 - name>>]]
               ELSE vault
  BY <1>0, Zenon DEF WriteIs
<1>4. w \in [Path -> Nat]
  <2>1. CASE log[s].kind \in Puts
    BY <1>1, <1>2, <2>1
  <2>2. CASE log[s].kind = "delete"
    BY <1>2, <2>2 DEF Nothing
  <2>3. CASE log[s].kind = "rename"
    <3>1. vault[<<f, 1 - name>>] \in Nat /\ Nothing \in Nat
      BY <1>2 DEF Nothing
    <3>2. ASSUME NEW x \in Path, NEW y \in Path, NEW c \in Nat, NEW d \in Nat
          PROVE  [vault EXCEPT ![x] = c, ![y] = d] \in [Path -> Nat]
      OBVIOUS
    <3>3. CASE 1 - name \in known[f] /\ vault[<<f, 1 - name>>] # Nothing
      BY <1>2, <2>3, <3>1, <3>2, <3>3
    <3>4. CASE ~(1 - name \in known[f] /\ vault[<<f, 1 - name>>] # Nothing)
      BY <1>2, <2>3, <3>4
    <3> QED
      BY <3>3, <3>4
  <2> QED
    BY <1>3, <2>1, <2>2, <2>3
<1>5. ASSUME NEW g \in SyncFile, g # f, NEW x \in Names
      PROVE  w[<<g, x>>] = vault[<<g, x>>]
  <2>1. <<g, x>> \in Path /\ <<g, x>> # <<f, name>> /\ <<g, x>> # <<f, 1 - name>>
        /\ <<g, x>>[1] # f
    BY <1>5 DEF Path
  <2>2. CASE log[s].kind \in Puts
    BY <1>2, <2>1, <2>2
  <2>3. CASE log[s].kind = "delete"
    BY <1>2, <2>1, <2>3
  <2>4. CASE log[s].kind = "rename"
    BY <1>2, <2>1, <2>4
  <2> QED
    BY <1>3, <2>2, <2>3, <2>4
<1>6. <<f, name>> # <<f, 1 - name>>
  BY <1>2
<1>7. log[s].kind \in Puts => w[<<f, name>>] = s /\ w[<<f, 1 - name>>] = vault[<<f, 1 - name>>]
  BY <1>2, <1>6
<1>8. ASSUME log[s].kind = "delete", NEW x \in Names
      PROVE  w[<<f, x>>] = IF x \in known[f] THEN Nothing ELSE vault[<<f, x>>]
  <2>1. <<f, x>> \in Path /\ <<f, x>>[1] = f /\ <<f, x>>[2] = x
    BY <1>2 DEF Path
  <2> QED
    BY <1>2, <1>8, <2>1
<1>9. log[s].kind = "rename" =>
        IF 1 - name \in known[f] /\ vault[<<f, 1 - name>>] # Nothing
        THEN w[<<f, 1 - name>>] = Nothing /\ w[<<f, name>>] = vault[<<f, 1 - name>>]
        ELSE \A x \in Names : w[<<f, x>>] = vault[<<f, x>>]
  <2> DEFINE moves == 1 - name \in known[f] /\ vault[<<f, 1 - name>>] # Nothing
  <2>1. CASE moves
    BY <1>2, <1>6, <2>1
  <2>2. CASE ~moves
    BY <1>2, <2>2
  <2> QED
    BY <2>1, <2>2
<1>10. ASSUME NEW g \in SyncFile
       PROVE  Effect(log, a, g, known[g], vault, w)
  <2>1. CASE g # f
    BY <1>5, <2>1, Zenon DEF Effect, f, s
  <2>2. CASE g = f
    <3>1. Effect(log, a, f, known[f], vault, w)
      BY <1>7, <1>8, <1>9, Zenon DEF Effect, f, s, name
    <3> QED
      BY <2>2, <3>1
  <2> QED
    BY <2>1, <2>2
<1> QED
  BY <1>4, <1>10

\* What a handler of ops leaves behind when it waits or is over, the operations up to
\* seen being applied and the index being known.
Proceeded(seen, known) ==
    /\ requests' \in Seq(RequestType)
    /\ running' \in Seq(HandlerType)
    /\ vault' \in [Path -> Nat]
    /\ catchup' \in BOOLEAN /\ handshake' \in BOOLEAN
    /\ handshake => handshake'
    /\ catchup' \/ handshake' => catchup \/ handshake
    /\ handshake' => handshake \/ \A s \in 1 .. Len(log) : log[s].own => s <= seen
    /\ RunningInv(log, seen, handshake', running')
    /\ \A f \in SyncFile : FileInv(log, f, seen, Eff(seen, running'), handshake', known, vault')

LEMMA EffCases ==
    ASSUME NEW a, NEW run
    PROVE  Eff(a, run) \in {a, a + 1}
BY DEF Eff

LEMMA OpsLeftLater ==
    ASSUME NEW lg \in Seq(OpType), NEW a \in Nat, NEW b \in Nat, NEW hs, NEW h, NEW ops,
           OpsLeft(lg, a, hs, ops), a <= b,
           h => hs \/ \A s \in 1 .. Len(lg) : lg[s].own => s <= b
    PROVE  OpsLeft(lg, b, h, ops)
<1>1. Len(lg) \in Nat
  BY LenProperties
<1>2. ASSUME NEW s \in 1 .. Len(lg), h, s > b, lg[s].own
      PROVE  hs /\ s > a
  <2>1. s \in Nat /\ ~(s <= b) /\ s > a
    BY <1>1, <1>2
  <2> QED
    BY <1>2, <2>1
<1> QED
  BY <1>2, Zenon DEF OpsLeft

\* The handler is over.
LEMMA LeaveProceeds ==
    ASSUME SyncTypes, NEW seen \in 0 .. Len(log), NEW known, NEW others \in Seq(HandlerType),
           NEW result, result.ask \in Seq(RequestType), result.ends => catchup,
           Leave(result, others, seen), ~early',
           RunningInv(log, seen, handshake, others),
           \A f \in SyncFile : FileInv(log, f, seen, Eff(seen, others), handshake, known, vault)
    PROVE  Proceeded(seen, known)
<1>1. /\ requests' = requests \o result.ask /\ running' = others /\ vault' = vault
      /\ \/ result.ends /\ FinishHandshake(seen)
         \/ ~result.ends /\ UNCHANGED <<catchup, handshake>>
  BY DEF Leave
<1>2. /\ requests \in Seq(RequestType) /\ vault \in [Path -> Nat] /\ log \in Seq(OpType)
      /\ catchup \in BOOLEAN /\ handshake \in BOOLEAN /\ seen \in Nat
      /\ DOMAIN log = 1 .. Len(log)
  BY LenProperties DEF SyncTypes
<1>3. requests' \in Seq(RequestType)
  BY <1>1, <1>2, ConcatProperties
<1>4. /\ catchup' \in BOOLEAN /\ handshake' \in BOOLEAN
      /\ handshake => handshake'
      /\ catchup' \/ handshake' => catchup \/ handshake
      /\ handshake' => handshake \/ \A s \in 1 .. Len(log) : log[s].own => s <= seen
  <2>1. CASE ~result.ends /\ UNCHANGED <<catchup, handshake>>
    BY <1>2, <2>1
  <2>2. CASE result.ends /\ FinishHandshake(seen)
    <3>1. /\ catchup' = FALSE /\ handshake' = TRUE /\ catchup
          /\ ~\E s \in DOMAIN log : log[s].own /\ s > seen
      BY <2>2 DEF FinishHandshake
    <3>2. \A s \in 1 .. Len(log) : log[s].own => s <= seen
      <4>1. Len(log) \in Nat
        BY <1>2, LenProperties
      <4> QED
        BY <1>2, <3>1, <4>1
    <3> QED
      BY <3>1, <3>2
  <2> QED
    BY <1>1, <2>1, <2>2
<1>5. RunningInv(log, seen, handshake', running')
  <2>1. \A ops : OpsLeft(log, seen, handshake, ops) => OpsLeft(log, seen, handshake', ops)
    BY <1>2, <1>4, OpsLeftLater
  <2> QED
    BY <1>1, <2>1, Zenon DEF RunningInv
<1>6. ASSUME NEW f \in SyncFile
      PROVE  FileInv(log, f, seen, Eff(seen, running'), handshake', known, vault')
  BY <1>1, <1>2, <1>4, EffCases, HandshakeKeepsFile
<1> QED
  BY <1>1, <1>2, <1>3, <1>4, <1>5, <1>6, Zenon DEF Proceeded

\* The write or the fetch of the next operation is asked for.
LEMMA BeginProceeds ==
    ASSUME SyncTypes, NEW seen \in 0 .. Len(log), NEW known \in [SyncFile -> SUBSET Names],
           NEW others, NEW h \in HandlerType, NEW rest \in Seq(Nat), rest # <<>>,
           rest[1] = seen + 1, OpsLeft(log, seen, handshake, rest),
           Begin([h EXCEPT !.ops = rest], seen + 1, known[log[seen + 1].file], others),
           ~overlapped', downloaded \subseteq 1 .. seen,
           \A f \in SyncFile : FileInv(log, f, seen, seen, handshake, known, vault)
    PROVE  Proceeded(seen, known)
<1> DEFINE s == seen + 1
           fetches == log[s].kind = "blob" /\ ~HasContent(s)
           g == [h EXCEPT !.ops = rest, !.at = IF fetches THEN "fetch" ELSE "write"]
<1>1. /\ requests \in Seq(RequestType) /\ vault \in [Path -> Nat] /\ log \in Seq(OpType)
      /\ catchup \in BOOLEAN /\ handshake \in BOOLEAN /\ seen \in Nat
      /\ \A i \in 1 .. Len(log) : log[i].own => log[i].kind = "inline"
  BY LenProperties DEF SyncTypes
<1>2. /\ requests' = IF fetches THEN Append(requests, [t |-> "get_content", hash |-> s])
                     ELSE requests
      /\ running' = Append(others, [[h EXCEPT !.ops = rest]
                                      EXCEPT !.at = IF fetches THEN "fetch" ELSE "write"])
      /\ vault' = IF fetches \/ log[s].kind = "blob" THEN vault
                  ELSE Written(s, known[log[s].file])
      /\ others = <<>>
      /\ catchup' = catchup /\ handshake' = handshake
  BY DEF Begin
<1>3. s \in 1 .. Len(log) /\ seen < Len(log) /\ (handshake => ~log[s].own)
  <2>1. 1 \in DOMAIN rest
    BY EmptySeq, LenProperties
  <2>2. s \in 1 .. Len(log) /\ (handshake /\ s > seen => ~log[s].own)
    BY <2>1 DEF OpsLeft
  <2> QED
    BY <1>1, <2>2, LenProperties
<1>4. fetches <=> log[s].kind = "blob"
  <2>1. s \notin downloaded
    BY <1>1
  <2> QED
    BY <2>1 DEF HasContent
<1>5. /\ g \in HandlerType /\ g.ops = rest
      /\ g.at = IF fetches THEN "fetch" ELSE "write"
      /\ [[h EXCEPT !.ops = rest] EXCEPT !.at = IF fetches THEN "fetch" ELSE "write"] = g
  BY DEF HandlerType
<1> HIDE DEF g, fetches
<1>6. running' = <<g>> /\ running' \in Seq(HandlerType) /\ Len(running') = 1 /\ running'[1] = g
  BY <1>2, <1>5
<1>7. requests' \in Seq(RequestType)
  <2>1. [t |-> "get_content", hash |-> s] \in RequestType
    BY <1>1 DEF RequestType
  <2> QED
    BY <1>1, <1>2, <2>1, AppendProperties
<1>8. RunningInv(log, seen, handshake', running')
  <2>1. OpsLeft(log, seen, handshake', rest)
    BY <1>2
  <2> QED
    BY <1>4, <1>5, <1>6, <2>1 DEF RunningInv
<1>9. CASE fetches
  <2>1. vault' = vault /\ Eff(seen, running') = seen
    BY <1>2, <1>5, <1>6, <1>9 DEF Eff
  <2> QED
    BY <1>1, <1>2, <1>6, <1>7, <1>8, <2>1, Zenon DEF Proceeded
<1>10. CASE ~fetches
  <2>1. vault' = Written(s, known[log[s].file]) /\ Eff(seen, running') = s
    BY <1>2, <1>4, <1>5, <1>6, <1>10 DEF Eff
  <2>2. /\ vault' \in [Path -> Nat]
        /\ \A f \in SyncFile : Effect(log, seen, f, known[f], vault, vault')
    BY <1>1, <1>3, <2>1, WrittenEffect
  <2>3. ASSUME NEW f \in SyncFile
        PROVE  FileInv(log, f, seen, s, handshake, known, vault')
    <3>1. FileInv(log, f, seen, seen, handshake, known, vault)
      OBVIOUS
    <3>2. Effect(log, seen, f, known[f], vault, vault')
      BY <2>2
    <3> QED
      BY <1>1, <1>3, <3>1, <3>2, WriteKeepsFile
  <2>4. \A f \in SyncFile : FileInv(log, f, seen, Eff(seen, running'), handshake', known, vault')
    BY <1>2, <2>1, <2>3
  <2> QED
    BY <1>1, <1>2, <1>6, <1>7, <1>8, <2>2, <2>4, Zenon DEF Proceeded
<1> QED
  BY <1>9, <1>10

\* The loop of applyOps, from where a handler takes it up.
LEMMA ProceedProceeds ==
    ASSUME SyncTypes, NEW seen \in 0 .. Len(log), NEW known \in [SyncFile -> SUBSET Names],
           NEW others \in Seq(HandlerType), NEW h \in HandlerType,
           OpsLeft(log, seen, handshake, h.ops),
           Proceed(h, others, seen, known), ~early', ~overlapped', downloaded \subseteq 1 .. seen,
           RunningInv(log, seen, handshake, others),
           \A f \in SyncFile : FileInv(log, f, seen, Eff(seen, others), handshake, known, vault)
    PROVE  Proceeded(seen, known)
<1> DEFINE rest == NotApplied(h.ops, seen)
           s == Head(rest)
           entry == known[log[s].file]
<1>1. seen \in Nat /\ h.ops \in Seq(Nat) /\ catchup \in BOOLEAN
  BY LenProperties DEF SyncTypes, HandlerType
<1>2. [t |-> "get_ops", since |-> seen] \in RequestType
  BY <1>1 DEF RequestType
<1>3. <<>> \in Seq(RequestType) /\ <<[t |-> "get_ops", since |-> seen]>> \in Seq(RequestType)
  BY <1>2
<1>4. CASE rest = <<>>
  <2>1. Leave(Through(h.more, seen), others, seen)
    BY <1>4 DEF Proceed
  <2>2. /\ Through(h.more, seen).ask \in Seq(RequestType)
        /\ Through(h.more, seen).ends => catchup
    BY <1>3 DEF Through
  <2> QED
    BY <2>1, <2>2, LeaveProceeds
<1>5. CASE rest # <<>> /\ IsGap(s, seen)
  <2>1. Leave(Gap(seen), others, seen)
    BY <1>5 DEF Proceed
  <2>2. Gap(seen).ask \in Seq(RequestType) /\ (Gap(seen).ends => catchup)
    BY <1>3 DEF Gap
  <2> QED
    BY <2>1, <2>2, LeaveProceeds
<1>6. CASE rest # <<>> /\ ~IsGap(s, seen) /\ Obstructed(s, entry)
  <2> DEFINE result == [ask |-> <<>>, ends |-> FALSE]
  <2>1. Leave(result, others, seen)
    BY <1>6 DEF Proceed
  <2>2. result.ask \in Seq(RequestType) /\ (result.ends => catchup)
    BY <1>3
  <2> HIDE DEF result
  <2> QED
    BY <2>1, <2>2, LeaveProceeds
<1>7. CASE rest # <<>> /\ ~IsGap(s, seen) /\ ~Obstructed(s, entry)
  <2>1. Begin([h EXCEPT !.ops = rest], s, entry, others)
    BY <1>7 DEF Proceed
  <2>2. s = seen + 1
    BY <1>7 DEF IsGap
  <2>3. /\ rest \in Seq(Nat) /\ rest[1] = seen + 1
        /\ \A i \in DOMAIN rest : \E j \in DOMAIN h.ops : rest[i] = h.ops[j]
    BY <1>1, <1>7, <2>2, NotAppliedProperties
  <2>4. OpsLeft(log, seen, handshake, rest)
    BY <2>3, Zenon DEF OpsLeft
  <2>5. others = <<>>
    BY <2>1 DEF Begin
  <2>6. \A f \in SyncFile : FileInv(log, f, seen, seen, handshake, known, vault)
    BY <2>5 DEF Eff
  <2> HIDE DEF rest
  <2> QED
    BY <1>7, <2>1, <2>2, <2>3, <2>4, <2>6, BeginProceeds
<1> QED
  BY <1>4, <1>5, <1>6, <1>7

-----------------------------------------------------------------------------
(***************************************************************************)
(* The invariant holds initially.                                          *)
(***************************************************************************)
LEMMA SyncInitInv ==
    ASSUME SyncInit
    PROVE  SyncInv
<1>1. /\ log = <<>> /\ owed = {} /\ link = "down" /\ requests = <<>> /\ answers = <<>>
      /\ applied = 0 /\ ready = FALSE /\ catchup = FALSE /\ handshake = FALSE /\ running = <<>>
      /\ index = [f \in SyncFile |-> {}] /\ vault = [p \in Path |-> Nothing] /\ downloaded = {}
  BY DEF SyncInit
<1>2. firstSync.at \in {"no", "begins"}
  BY DEF SyncInit, NoFirstSync
<1>3. Len(log) = 0 /\ Len(answers) = 0
  BY <1>1
<1>4. SyncTypes
  <2>1. /\ log \in Seq(OpType) /\ requests \in Seq(RequestType) /\ answers \in Seq(AnswerType)
        /\ running \in Seq(HandlerType)
    BY <1>1, EmptySeq
  <2>2. index \in [SyncFile -> SUBSET Names] /\ vault \in [Path -> Nat]
    BY <1>1 DEF Nothing
  <2>3. /\ applied \in 0 .. Len(log) /\ owed \subseteq 1 .. Len(log) /\ downloaded \subseteq 1 .. applied
        /\ \A s \in 1 .. Len(log) : log[s].own => log[s].kind = "inline"
    BY <1>1, <1>3
  <2>4. /\ link \in {"down", "open", "joined"} /\ (catchup \/ handshake => link = "joined")
        /\ ready \in BOOLEAN /\ catchup \in BOOLEAN /\ handshake \in BOOLEAN
    BY <1>1
  <2> QED
    BY <1>2, <2>1, <2>2, <2>3, <2>4, Zenon DEF SyncTypes
<1>5. AnswersInv(log, owed, link, applied, handshake, answers)
  BY <1>1, <1>3 DEF AnswersInv, OwedInv
<1>6. RunningInv(log, applied, handshake, running)
  BY <1>1 DEF RunningInv
<1>7. ASSUME NEW f \in SyncFile
      PROVE  FileInv(log, f, 0, 0, FALSE, index, vault)
  <2>1. \A kinds : Past(log, f, kinds, 0) = {}
    BY DEF Past
  <2>2. NameIn(log, f, 0) \in Names /\ 1 - NameIn(log, f, 0) \in Names
    BY NameType
  <2>3. /\ vault[<<f, NameIn(log, f, 0)>>] = Nothing
        /\ vault[<<f, 1 - NameIn(log, f, 0)>>] = Nothing
    BY <1>1, <2>2 DEF Path
  <2>4. ContentIn(log, f, 0) = Nothing
    BY <2>1, ContentOf
  <2>5. OwnPast(log, f, 0) = {}
    BY <1>3 DEF OwnPast
  <2>6. index[f] = {}
    BY <1>1
  <2> QED
    BY <2>1, <2>3, <2>4, <2>5, <2>6, Zenon DEF FileInv
<1>8. FilesInv
  <2>1. Eff(applied, running) = 0 /\ applied = 0 /\ handshake = FALSE
    BY <1>1 DEF Eff
  <2> QED
    BY <1>7, <2>1, Zenon DEF FilesInv
<1> QED
  BY <1>4, <1>5, <1>6, <1>8 DEF SyncInv

-----------------------------------------------------------------------------
(***************************************************************************)
(* Operations are accepted.                                                *)
(***************************************************************************)
LEMMA FirstRunning ==
    ASSUME SyncTypes, RunningInv(log, applied, handshake, running), running # <<>>
    PROVE  /\ Len(running) = 1 /\ running[1] \in HandlerType /\ running[1].ops \in Seq(Nat)
           /\ running[1].ops # <<>> /\ 1 \in DOMAIN running[1].ops
           /\ Head(running[1].ops) = applied + 1 /\ running[1].ops[1] = applied + 1
           /\ applied + 1 \in 1 .. Len(log) /\ (handshake => ~log[applied + 1].own)
           /\ OpsLeft(log, applied, handshake, running[1].ops)
<1>1. /\ running[1].ops # <<>> /\ running[1].ops[1] = applied + 1 /\ Len(running) = 1
      /\ OpsLeft(log, applied, handshake, running[1].ops)
  BY DEF RunningInv
<1>2. running \in Seq(HandlerType) /\ applied \in Nat
  BY LenProperties DEF SyncTypes
<1>3. running[1] \in HandlerType
  <2>1. 1 \in 1 .. Len(running)
    BY <1>1
  <2> QED
    BY <1>2, <2>1, ElementOfSeq
<1>4. running[1].ops \in Seq(Nat)
  BY <1>3 DEF HandlerType
<1>5. 1 \in DOMAIN running[1].ops /\ Head(running[1].ops) = applied + 1
  <2>1. DOMAIN running[1].ops = 1 .. Len(running[1].ops) /\ Len(running[1].ops) \in Nat \ {0}
    BY <1>1, <1>4, EmptySeq, LenProperties
  <2> QED
    BY <1>1, <1>4, <2>1
<1>6. applied + 1 \in 1 .. Len(log) /\ (handshake => ~log[applied + 1].own)
  <2>1. /\ running[1].ops[1] \in 1 .. Len(log)
        /\ handshake /\ running[1].ops[1] > applied => ~log[running[1].ops[1]].own
    BY <1>1, <1>5, Zenon DEF OpsLeft
  <2> QED
    BY <1>1, <1>2, <2>1
<1> QED
  BY <1>1, <1>3, <1>4, <1>5, <1>6

LEMMA EffBounds ==
    ASSUME SyncInv
    PROVE  /\ Eff(applied, running) \in 0 .. Len(log) /\ Eff(applied, running) \in {applied, applied + 1}
           /\ applied \in 0 .. Len(log) /\ Len(log) \in Nat /\ applied \in Nat
<1>1. log \in Seq(OpType) /\ applied \in 0 .. Len(log) /\ running \in Seq(HandlerType)
  BY DEF SyncInv, SyncTypes
<1>2. Len(log) \in Nat
  BY <1>1, LenProperties
<1>3. CASE running # <<>>
  <2>1. applied + 1 \in 1 .. Len(log)
    BY <1>3, FirstRunning DEF SyncInv
  <2> QED
    BY <1>1, <1>2, <2>1 DEF Eff
<1>4. CASE running = <<>>
  BY <1>1, <1>2, <1>4 DEF Eff
<1> QED
  BY <1>3, <1>4

LEMMA OpsLeftOfLongerLog ==
    ASSUME NEW lg \in Seq(OpType), NEW op \in OpType, NEW a, NEW hs, NEW ops,
           OpsLeft(lg, a, hs, ops)
    PROVE  OpsLeft(Append(lg, op), a, hs, ops)
<1>1. /\ 1 .. Len(lg) \subseteq 1 .. Len(Append(lg, op))
      /\ \A s \in 1 .. Len(lg) : Append(lg, op)[s] = lg[s]
  BY AppendProperties, LenProperties
<1> QED
  BY <1>1, Zenon DEF OpsLeft

\* Everything but the files.
LEMMA AcceptKeeps ==
    ASSUME SyncInv, NEW op \in OpType, Accept(op),
           op.own => handshake /\ op.kind = "inline",
           vault' \in [Path -> Nat],
           UNCHANGED <<plan, link, requests, answers, applied, flags, running, firstSync, index,
                       downloaded>>
    PROVE  /\ SyncTypes'
           /\ AnswersInv(log, owed, link, applied, handshake, answers)'
           /\ RunningInv(log, applied, handshake, running)'
<1>1. SyncTypes
  BY DEF SyncInv
<1>2. /\ log \in Seq(OpType) /\ Len(log) \in Nat
      /\ log' = Append(log, op) /\ owed' = owed \cup {Len(log) + 1}
  BY <1>1, LenProperties DEF SyncTypes, Accept
<1>3. /\ log' \in Seq(OpType) /\ Len(log') = Len(log) + 1 /\ log'[Len(log) + 1] = op
      /\ \A s \in 1 .. Len(log) : log'[s] = log[s]
  BY <1>2, AppendProperties
<1>4. 1 .. Len(log') = (1 .. Len(log)) \cup {Len(log) + 1}
  BY <1>2, <1>3
<1>5. SyncTypes'
  <2>1. \A s \in 1 .. Len(log') : log'[s].own => log'[s].kind = "inline"
    <3>1. \A s \in 1 .. Len(log) : log[s].own => log[s].kind = "inline"
      BY <1>1 DEF SyncTypes
    <3> QED
      BY <1>3, <1>4, <3>1
  <2>2. owed' \subseteq 1 .. Len(log')
    BY <1>1, <1>2, <1>4 DEF SyncTypes
  <2>3. applied' \in 0 .. Len(log')
    BY <1>1, <1>2, <1>3 DEF SyncTypes
  <2> QED
    BY <1>1, <1>3, <2>1, <2>2, <2>3 DEF SyncTypes, flags
<1>6. AnswersInv(log, owed, link, applied, handshake, answers)'
  <2>1. AnswersInv(log, owed, link, applied, handshake, answers)
    BY DEF SyncInv
  <2>2. owed \in SUBSET (1 .. Len(log)) /\ applied \in Nat
    BY <1>1, <1>2 DEF SyncTypes
  <2>3. AnswersInv(log', owed', link, applied, handshake, answers)
    BY <1>2, <2>1, <2>2, AnswersOfLongerLog
  <2>4. UNCHANGED <<link, applied, handshake, answers>>
    BY DEF flags
  <2> QED
    BY <2>3, <2>4
<1>7. RunningInv(log, applied, handshake, running)'
  <2>1. RunningInv(log, applied, handshake, running)
    BY DEF SyncInv
  <2>2. \A ops : OpsLeft(log, applied, handshake, ops) => OpsLeft(log', applied, handshake, ops)
    BY <1>2, OpsLeftOfLongerLog
  <2>3. running # <<>> => log'[applied + 1] = log[applied + 1]
    <3>1. running # <<>> => applied + 1 \in 1 .. Len(log)
      BY <1>1, <2>1, FirstRunning
    <3> QED
      BY <1>3, <3>1
  <2>4. RunningInv(log', applied, handshake, running)
    BY <2>1, <2>2, <2>3, Zenon DEF RunningInv
  <2>5. UNCHANGED <<applied, handshake, running>>
    BY DEF flags
  <2> QED
    BY <2>4, <2>5
<1> QED
  BY <1>5, <1>6, <1>7

LEMMA AcceptOtherKeeps ==
    ASSUME SyncInv, NEW f \in SyncFile, NEW kind \in Kinds, AcceptOther(f, kind)
    PROVE  SyncInv'
<1> DEFINE op == [file |-> f, kind |-> kind, own |-> FALSE]
<1>1. op \in OpType /\ op.own = FALSE
  BY DEF OpType
<1>2. /\ Accept(op) /\ vault' = vault
      /\ UNCHANGED <<plan, link, requests, answers, applied, flags, running, firstSync, index,
                     downloaded>>
  BY DEF AcceptOther, local
<1> HIDE DEF op
<1>3. vault' \in [Path -> Nat]
  BY <1>2 DEF SyncInv, SyncTypes
<1>4. /\ SyncTypes' /\ AnswersInv(log, owed, link, applied, handshake, answers)'
      /\ RunningInv(log, applied, handshake, running)'
  BY <1>1, <1>2, <1>3, AcceptKeeps
<1>5. log \in Seq(OpType) /\ log' = Append(log, op)
  BY <1>2 DEF SyncInv, SyncTypes, Accept
<1>6. ASSUME NEW g \in SyncFile
      PROVE  FileInv(log', g, applied, Eff(applied, running), handshake, index, vault)
  <2>1. FileInv(log, g, applied, Eff(applied, running), handshake, index, vault)
    BY DEF SyncInv, FilesInv
  <2> QED
    BY <1>1, <1>5, <2>1, EffBounds, AcceptKeepsFile
<1>7. FilesInv'
  <2>1. UNCHANGED <<applied, running, handshake, index, vault>>
    BY <1>2 DEF flags
  <2> QED
    BY <1>6, <2>1, Zenon DEF FilesInv
<1> QED
  BY <1>4, <1>7 DEF SyncInv

LEMMA AcceptOwnKeeps ==
    ASSUME SyncInv, NEW f \in SyncFile, AcceptOwn(f)
    PROVE  SyncInv'
<1> DEFINE op == [file |-> f, kind |-> "inline", own |-> TRUE]
           name == NameIn(log, f, Len(log))
<1>1. op \in OpType /\ op.own = TRUE /\ op.kind = "inline" /\ op.file = f
  BY DEF OpType, Kinds, Puts
<1>2. /\ NameAt(f, Len(log)) = name /\ ContentAt(f, Len(log)) = ContentIn(log, f, Len(log))
  BY WhatTheLogSays
<1>3. /\ Accept(op) /\ handshake
      /\ vault[<<f, name>>] = ContentIn(log, f, Len(log)) /\ vault[<<f, name>>] # Nothing
      /\ vault' = [vault EXCEPT ![<<f, name>>] = Len(log) + 1]
      /\ UNCHANGED <<plan, link, requests, answers, applied, flags, running, firstSync, index,
                     downloaded>>
  BY <1>2 DEF AcceptOwn
<1>4. vault \in [Path -> Nat] /\ log \in Seq(OpType) /\ Len(log) \in Nat /\ log' = Append(log, op)
      /\ handshake = TRUE
  BY <1>3, LenProperties DEF SyncInv, SyncTypes, Accept
<1>5. name \in {0, 1} /\ <<f, name>> \in Path /\ <<f, 1 - name>> \in Path
  BY <1>4, NameType DEF Names, Path
<1> HIDE DEF op, name
<1>6. /\ vault' \in [Path -> Nat]
      /\ vault'[<<f, name>>] = Len(log) + 1
      /\ vault'[<<f, 1 - name>>] = vault[<<f, 1 - name>>]
  <2>1. <<f, name>> # <<f, 1 - name>>
    BY <1>5
  <2> QED
    BY <1>3, <1>4, <1>5, <2>1
<1>7. /\ SyncTypes' /\ AnswersInv(log, owed, link, applied, handshake, answers)'
      /\ RunningInv(log, applied, handshake, running)'
  BY <1>1, <1>3, <1>6, AcceptKeeps
<1>8. ASSUME NEW g \in SyncFile
      PROVE  FileInv(log', g, applied, Eff(applied, running), TRUE, index, vault')
  <2>1. FileInv(log, g, applied, Eff(applied, running), TRUE, index, vault)
    BY <1>4 DEF SyncInv, FilesInv
  <2>2. CASE g = f
    <3>1. FileInv(log, f, applied, Eff(applied, running), TRUE, index, vault)
      BY <2>1, <2>2
    <3>2. FileInv(Append(log, op), f, applied, Eff(applied, running), TRUE, index, vault')
      BY <1>1, <1>3, <1>4, <1>6, <3>1, EffBounds, EditKeepsFile DEF name
    <3> QED
      BY <1>4, <2>2, <3>2
  <2>3. CASE g # f
    <3>1. FileInv(log', g, applied, Eff(applied, running), TRUE, index, vault)
      BY <1>1, <1>4, <2>1, <2>3, EffBounds, AcceptKeepsFile
    <3>2. \A x \in Names : vault'[<<g, x>>] = vault[<<g, x>>]
      <4>1. \A x \in Names : <<g, x>> \in Path /\ <<g, x>> # <<f, name>>
        BY <2>3 DEF Path
      <4> QED
        BY <1>3, <1>4, <4>1
    <3>3. \A n \in Nat : NameIn(log', g, n) \in Names /\ 1 - NameIn(log', g, n) \in Names
      BY NameType
    <3>4. Eff(applied, running) \in Nat
      BY EffBounds
    <3>5. LET e == Eff(applied, running)
          IN  /\ vault'[<<g, NameIn(log', g, e)>>] = vault[<<g, NameIn(log', g, e)>>]
              /\ vault'[<<g, 1 - NameIn(log', g, e)>>] = vault[<<g, 1 - NameIn(log', g, e)>>]
      BY <3>2, <3>3, <3>4, Zenon
    <3> QED
      BY <3>1, <3>5, Zenon DEF FileInv
  <2> QED
    BY <2>2, <2>3
<1>9. FilesInv'
  <2>1. UNCHANGED <<applied, running, handshake, index>>
    BY <1>3 DEF flags
  <2> QED
    BY <1>4, <1>8, <2>1, Zenon DEF FilesInv
<1> QED
  BY <1>7, <1>9 DEF SyncInv

-----------------------------------------------------------------------------
(***************************************************************************)
(* The server answers and announces, and the connection breaks.            *)
(***************************************************************************)
\* What the files and the handlers depend on stands still.
LEMMA RestKept ==
    ASSUME SyncInv, UNCHANGED <<log, applied, running, handshake, index, vault>>
    PROVE  RunningInv(log, applied, handshake, running)' /\ FilesInv'
<1>1. RunningInv(log, applied, handshake, running)'
  BY DEF SyncInv
<1>2. FilesInv'
  <2>1. FilesInv
    BY DEF SyncInv
  <2> QED
    BY <2>1, Zenon DEF FilesInv
<1> QED
  BY <1>1, <1>2

LEMMA AnnounceKeeps ==
    ASSUME SyncInv, NEW s \in owed, Announce(s)
    PROVE  SyncInv'
<1>1. /\ SyncTypes /\ AnswersInv(log, owed, link, applied, handshake, answers)
      /\ log \in Seq(OpType) /\ s \in 1 .. Len(log) /\ Len(log) \in Nat /\ s \in Nat
      /\ answers \in Seq(AnswerType) /\ (handshake => link = "joined") /\ applied \in Nat
  <2>1. /\ SyncTypes /\ AnswersInv(log, owed, link, applied, handshake, answers)
        /\ log \in Seq(OpType) /\ s \in 1 .. Len(log) /\ answers \in Seq(AnswerType)
        /\ (handshake => link = "joined")
    BY DEF SyncInv, SyncTypes
  <2> QED
    BY <2>1, LenProperties, EffBounds
<1>2. /\ owed' = owed \ {s}
      /\ UNCHANGED <<plan, log, link, requests, applied, flags, running, firstSync, local>>
  BY DEF Announce
<1>3. UNCHANGED <<log, link, requests, applied, ready, catchup, handshake, running, firstSync, index,
                  vault, downloaded>>
  BY <1>2 DEF flags, local
<1>4. answers' \in Seq(AnswerType) /\ AnswersInv(log, owed', link, applied, handshake, answers')
  <2>1. CASE link # "joined"
    <3>1. answers' = answers
      BY <2>1 DEF Announce
    <3>2. handshake => \A r \in owed \ owed' : ~log[r].own
      BY <1>1, <2>1
    <3> QED
      BY <1>1, <1>2, <3>1, <3>2, AnnouncementLost
  <2>2. CASE link = "joined" /\ log[s].own
    <3> DEFINE m == [t |-> "ack", seq |-> s]
    <3>1. answers' = Append(answers, m)
      BY <2>2 DEF Announce
    <3>2. m \in AnswerType /\ m.t = "ack" /\ m.seq = s
      BY <1>1 DEF AnswerType
    <3> HIDE DEF m
    <3>3. handshake
      BY <1>1, <2>2 DEF AnswersInv, OwedInv, SyncTypes
    <3>4. AnswerOK(log, link, applied, handshake, answers, Len(answers), m)
      BY <1>1, <2>2, <3>2, <3>3 DEF AnswerOK
    <3>5. Announced(log, owed, owed', m)
      BY <1>2, <3>2 DEF Announced
    <3>6. AnswersInv(log, owed', link, applied, handshake, Append(answers, m))
      BY <1>1, <1>2, <3>2, <3>4, <3>5, AnswersAppended
    <3> QED
      BY <1>1, <3>1, <3>2, <3>6, AppendProperties
  <2>3. CASE ~log[s].own /\ UNCHANGED answers
    <3>1. handshake => \A r \in owed \ owed' : ~log[r].own
      BY <1>2, <2>3
    <3> QED
      BY <1>1, <1>2, <2>3, <3>1, AnnouncementLost
  <2>4. CASE ~log[s].own /\ answers' = Append(answers, [t |-> "ops", ops |-> <<s>>, more |-> FALSE])
    <3> DEFINE m == [t |-> "ops", ops |-> <<s>>, more |-> FALSE]
    <3>1. m \in AnswerType /\ m.t = "ops" /\ m.ops = <<s>>
      BY <1>1 DEF AnswerType
    <3>2. OpsOK(log, applied, handshake, answers, Len(answers), <<s>>)
      BY <1>1, <2>4 DEF OpsOK
    <3> HIDE DEF m
    <3>3. AnswerOK(log, link, applied, handshake, answers, Len(answers), m)
      BY <3>1, <3>2 DEF AnswerOK
    <3>4. Announced(log, owed, owed', m)
      BY <1>2, <2>4 DEF Announced
    <3>5. AnswersInv(log, owed', link, applied, handshake, Append(answers, m))
      BY <1>1, <1>2, <3>1, <3>3, <3>4, AnswersAppended
    <3>6. answers' = Append(answers, m)
      BY <2>4 DEF m
    <3> QED
      BY <1>1, <3>1, <3>5, <3>6, AppendProperties
  <2> QED
    BY <2>1, <2>2, <2>3, <2>4 DEF Announce
<1>5. SyncTypes'
  BY <1>1, <1>2, <1>3, <1>4 DEF SyncTypes
<1>6. AnswersInv(log, owed, link, applied, handshake, answers)'
  BY <1>3, <1>4
<1>7. RunningInv(log, applied, handshake, running)' /\ FilesInv'
  BY <1>3, RestKept
<1> QED
  BY <1>5, <1>6, <1>7 DEF SyncInv

LEMMA OpsSinceType ==
    ASSUME log \in Seq(OpType), NEW since \in Nat
    PROVE  /\ OpsSince(since) \in AnswerType /\ OpsSince(since).t = "ops"
           /\ \A i \in DOMAIN OpsSince(since).ops : OpsSince(since).ops[i] \in 1 .. Len(log)
<1> DEFINE last == IF since + OpsPage < Len(log) THEN since + OpsPage ELSE Len(log)
           ops == [i \in 1 .. last - since |-> since + i]
<1>1. Len(log) \in Nat /\ OpsPage \in Nat
  BY LenProperties, ClientSyncAssumption
<1>2. last \in Nat /\ last <= Len(log)
  BY <1>1
<1>3. /\ OpsSince(since).t = "ops" /\ OpsSince(since).ops = ops
      /\ OpsSince(since) = [t |-> "ops", ops |-> ops, more |-> last - since = OpsPage]
  BY DEF OpsSince
<1> HIDE DEF last
<1>4. \A i \in 1 .. last - since : since + i \in 1 .. Len(log)
  BY <1>1, <1>2
<1>5. ops \in Seq(Nat)
  <2> DEFINE n == IF last - since >= 0 THEN last - since ELSE 0
  <2>1. n \in Nat /\ 1 .. last - since = 1 .. n
    BY <1>2
  <2>2. ops \in [1 .. n -> Nat]
    BY <1>2, <2>1
  <2> HIDE DEF n, ops
  <2> QED
    BY <2>1, <2>2, SeqDef
<1>6. DOMAIN ops = 1 .. last - since /\ \A i \in 1 .. last - since : ops[i] = since + i
  OBVIOUS
<1> HIDE DEF ops
<1>7. OpsSince(since) \in AnswerType
  BY <1>3, <1>5 DEF AnswerType
<1> QED
  BY <1>3, <1>4, <1>6, <1>7

LEMMA ServeKeeps ==
    ASSUME SyncInv, Serve
    PROVE  SyncInv'
<1> DEFINE m == Head(requests)
<1>1. /\ SyncTypes /\ AnswersInv(log, owed, link, applied, handshake, answers)
      /\ log \in Seq(OpType) /\ answers \in Seq(AnswerType) /\ requests \in Seq(RequestType)
      /\ (handshake => link = "joined") /\ owed \subseteq 1 .. Len(log) /\ applied \in Nat
  BY EffBounds DEF SyncInv, SyncTypes
<1>2. /\ requests # <<>> /\ link # "down"
      /\ \A s \in owed : ~log[s].own
      /\ answers' = answers \o Answer(m)
      /\ requests' = IF m.t = "hello" THEN <<[t |-> "push", since |-> m.since]>> \o Tail(requests)
                     ELSE Tail(requests)
      /\ link' = IF m.t = "hello" THEN "joined" ELSE link
      /\ UNCHANGED <<plan, log, owed, applied, flags, running, firstSync, local>>
  BY DEF Serve, OwnUnanswered
<1>3. UNCHANGED <<log, owed, applied, ready, catchup, handshake, running, firstSync, index, vault,
                  downloaded>>
  BY <1>2 DEF flags, local
<1>4. m \in RequestType /\ Tail(requests) \in Seq(RequestType)
  BY <1>1, <1>2, HeadTailProperties
<1> HIDE DEF m
<1>5. m.t \in {"hello", "push", "get_ops", "get_content"}
  BY <1>4 DEF RequestType
<1>6. /\ m.t \in {"hello", "push", "get_ops"} => m.since \in Nat
      /\ m.t = "get_content" => m.hash \in Nat
  BY <1>4 DEF RequestType
<1>7. requests' \in Seq(RequestType)
  <2>1. CASE m.t = "hello"
    <3>1. [t |-> "push", since |-> m.since] \in RequestType
      BY <1>6, <2>1 DEF RequestType
    <3>2. <<[t |-> "push", since |-> m.since]>> \in Seq(RequestType)
      BY <3>1
    <3> QED
      BY <1>2, <1>4, <2>1, <3>2, ConcatProperties
  <2>2. CASE m.t # "hello"
    BY <1>2, <1>4, <2>2
  <2> QED
    BY <2>1, <2>2
<1>8. link' \in {"down", "open", "joined"} /\ (link = "joined" => link' = "joined")
  BY <1>1, <1>2 DEF SyncTypes
\* The connection is joined by a welcome.
<1>9. AnswersInv(log, owed, link', applied, handshake, answers)
  <2>1. \A k \in 1 .. Len(answers) :
           AnswerOK(log, link', applied, handshake, answers, k - 1, answers[k])
    <3>1. \A k \in 1 .. Len(answers) :
             AnswerOK(log, link, applied, handshake, answers, k - 1, answers[k])
      BY <1>1, Zenon DEF AnswersInv
    <3> QED
      BY <1>8, <3>1, Zenon DEF AnswerOK
  <2>2. OwedInv(log, owed, link', applied, handshake, answers)
    BY <1>1, <1>2, Zenon DEF AnswersInv, OwedInv
  <2> QED
    BY <2>1, <2>2, Zenon DEF AnswersInv
<1>10. ASSUME NEW a \in AnswerType, Answer(m) = <<a>>,
              AnswerOK(log, link', applied, handshake, answers, Len(answers), a)
       PROVE  answers' \in Seq(AnswerType) /\ AnswersInv(log, owed, link', applied, handshake, answers')
  <2>1. answers' = Append(answers, a)
    BY <1>1, <1>2, <1>10, AppendIsConcat
  <2>2. Announced(log, owed, owed, a)
    BY DEF Announced
  <2>3. AnswersInv(log, owed, link', applied, handshake, Append(answers, a))
    BY <1>1, <1>9, <1>10, <2>2, AnswersAppended
  <2> QED
    BY <1>1, <1>10, <2>1, <2>3, AppendProperties
\* Nothing of the device's own is waiting for its acknowledgement.
<1>11. ASSUME NEW since \in Nat
       PROVE  /\ OpsSince(since) \in AnswerType
              /\ AnswerOK(log, link', applied, handshake, answers, Len(answers), OpsSince(since))
  <2>1. /\ OpsSince(since) \in AnswerType /\ OpsSince(since).t = "ops"
        /\ \A i \in DOMAIN OpsSince(since).ops : OpsSince(since).ops[i] \in 1 .. Len(log)
    BY <1>1, OpsSinceType
  <2>2. \A s \in 1 .. Len(log) :
           handshake /\ s > applied /\ log[s].own => Acked(answers, Len(answers), s)
    BY <1>1, <1>2, Zenon DEF AnswersInv, OwedInv
  <2>3. OpsOK(log, applied, handshake, answers, Len(answers), OpsSince(since).ops)
    BY <2>1, <2>2, Zenon DEF OpsOK
  <2> QED
    BY <2>1, <2>3 DEF AnswerOK
<1>12. answers' \in Seq(AnswerType) /\ AnswersInv(log, owed, link', applied, handshake, answers')
  <2>1. CASE m.t = "hello"
    <3> DEFINE a == [t |-> "welcome", current |-> Len(log)]
    <3>1. Answer(m) = <<a>>
      BY <2>1 DEF Answer
    <3>2. a \in AnswerType /\ a.t = "welcome"
      BY <1>1, LenProperties DEF AnswerType
    <3> HIDE DEF a
    <3>3. AnswerOK(log, link', applied, handshake, answers, Len(answers), a)
      BY <1>2, <2>1, <3>2 DEF AnswerOK
    <3> QED
      BY <1>10, <3>1, <3>2, <3>3
  <2>2. CASE m.t = "get_ops" \/ (m.t = "push" /\ m.since < Len(log))
    <3>1. Answer(m) = <<OpsSince(m.since)>> /\ m.since \in Nat
      BY <1>6, <2>2 DEF Answer
    <3> QED
      BY <1>10, <1>11, <3>1
  <2>3. CASE m.t = "push" /\ ~(m.since < Len(log))
    <3>1. Answer(m) = <<>>
      BY <2>3 DEF Answer
    <3>2. answers' = answers
      BY <1>1, <1>2, <3>1, ConcatEmptySeq
    <3> QED
      BY <1>1, <1>9, <3>2
  <2>4. CASE m.t = "get_content"
    <3> DEFINE a == [t |-> "content", hash |-> m.hash]
    <3>1. Answer(m) = <<a>>
      BY <2>4 DEF Answer
    <3>2. a \in AnswerType /\ a.t = "content"
      BY <1>6, <2>4 DEF AnswerType
    <3> HIDE DEF a
    <3>3. AnswerOK(log, link', applied, handshake, answers, Len(answers), a)
      BY <3>2 DEF AnswerOK
    <3> QED
      BY <1>10, <3>1, <3>2, <3>3
  <2> QED
    BY <1>5, <2>1, <2>2, <2>3, <2>4
<1>13. SyncTypes'
  BY <1>1, <1>3, <1>7, <1>8, <1>12 DEF SyncTypes
<1>14. AnswersInv(log, owed, link, applied, handshake, answers)'
  BY <1>3, <1>12
<1>15. RunningInv(log, applied, handshake, running)' /\ FilesInv'
  BY <1>3, RestKept
<1> QED
  BY <1>13, <1>14, <1>15 DEF SyncInv

LEMMA OpenKeeps ==
    ASSUME SyncInv, Open
    PROVE  SyncInv'
<1>1. /\ SyncTypes /\ AnswersInv(log, owed, link, applied, handshake, answers)
      /\ requests \in Seq(RequestType) /\ applied \in Nat
  BY EffBounds DEF SyncInv, SyncTypes
<1>2. /\ link = "down" /\ link' = "open"
      /\ requests' = <<[t |-> "hello", since |-> applied]>> \o requests
      /\ UNCHANGED <<log, owed, answers, applied, flags, running, firstSync, local>>
  BY DEF Open
<1>3. UNCHANGED <<log, owed, answers, applied, ready, catchup, handshake, running, firstSync, index,
                  vault, downloaded>>
  BY <1>2 DEF flags, local
<1>4. ~catchup /\ ~handshake
  BY <1>1, <1>2 DEF SyncTypes
<1>5. requests' \in Seq(RequestType)
  <2>1. [t |-> "hello", since |-> applied] \in RequestType
    BY <1>1 DEF RequestType
  <2>2. <<[t |-> "hello", since |-> applied]>> \in Seq(RequestType)
    BY <2>1
  <2> QED
    BY <1>1, <1>2, <2>2, ConcatProperties
<1>6. SyncTypes'
  BY <1>1, <1>2, <1>3, <1>4, <1>5 DEF SyncTypes
<1>7. AnswersInv(log, owed, "open", applied, handshake, answers)
  <2>1. ASSUME NEW k \in 1 .. Len(answers)
        PROVE  AnswerOK(log, "open", applied, handshake, answers, k - 1, answers[k])
    <3>1. AnswerOK(log, link, applied, handshake, answers, k - 1, answers[k])
      BY <1>1, Zenon DEF AnswersInv
    <3> QED
      BY <1>2, <3>1 DEF AnswerOK
  <2>2. OwedInv(log, owed, "open", applied, handshake, answers)
    BY <1>4 DEF OwedInv
  <2> QED
    BY <2>1, <2>2, Zenon DEF AnswersInv
<1>8. AnswersInv(log, owed, link, applied, handshake, answers)'
  BY <1>2, <1>3, <1>7
<1>9. RunningInv(log, applied, handshake, running)' /\ FilesInv'
  BY <1>3, RestKept
<1> QED
  BY <1>6, <1>8, <1>9 DEF SyncInv

\* The handlers and the files need a handshake no longer.
LEMMA CloseKeeps ==
    ASSUME SyncInv, Close
    PROVE  SyncInv'
<1>1. SyncTypes /\ log \in Seq(OpType) /\ applied \in Nat
  BY EffBounds DEF SyncInv, SyncTypes
<1>2. /\ link' = "down" /\ requests' = <<>> /\ answers' = <<>>
      /\ ready' = FALSE /\ catchup' = FALSE /\ handshake' = FALSE
      /\ UNCHANGED <<log, owed, applied, running, firstSync, index, vault, downloaded>>
  BY DEF Close, local
<1>3. requests' \in Seq(RequestType) /\ answers' \in Seq(AnswerType) /\ Len(answers') = 0
  BY <1>2, EmptySeq
<1>4. SyncTypes'
  BY <1>1, <1>2, <1>3 DEF SyncTypes
<1>5. AnswersInv(log, owed, link, applied, handshake, answers)'
  BY <1>2, <1>3 DEF AnswersInv, OwedInv
<1>6. RunningInv(log, applied, handshake, running)'
  <2>1. RunningInv(log, applied, handshake, running)
    BY DEF SyncInv
  <2>2. ASSUME NEW ops, OpsLeft(log, applied, handshake, ops)
        PROVE  OpsLeft(log, applied, FALSE, ops)
    <3>1. applied <= applied
      BY <1>1
    <3> QED
      BY <1>1, <2>2, <3>1, OpsLeftLater
  <2>3. RunningInv(log, applied, FALSE, running)
    BY <2>1, <2>2, Zenon DEF RunningInv
  <2> QED
    BY <1>2, <2>3
<1>7. FilesInv'
  <2>1. ASSUME NEW f \in SyncFile
        PROVE  FileInv(log, f, applied, Eff(applied, running), FALSE, index, vault)
    <3>1. FileInv(log, f, applied, Eff(applied, running), handshake, index, vault)
      BY DEF SyncInv, FilesInv
    <3> QED
      BY <1>1, <3>1, EffCases, HandshakeKeepsFile
  <2> QED
    BY <1>2, <2>1, Zenon DEF FilesInv
<1> QED
  BY <1>4, <1>5, <1>6, <1>7 DEF SyncInv

-----------------------------------------------------------------------------
(***************************************************************************)
(* The handlers of the device.                                             *)
(***************************************************************************)
\* A handshake is completed, or not, with nothing of the device's own to be applied.
LEMMA HandshakeKeepsRest ==
    ASSUME SyncInv, UNCHANGED <<log, applied, running, index, vault>>, handshake => handshake',
           handshake' => handshake \/ \A s \in 1 .. Len(log) : log[s].own => s <= applied
    PROVE  RunningInv(log, applied, handshake, running)' /\ FilesInv'
<1>1. log \in Seq(OpType) /\ applied \in Nat
  BY EffBounds DEF SyncInv, SyncTypes
<1>2. RunningInv(log, applied, handshake, running)'
  <2>1. RunningInv(log, applied, handshake, running)
    BY DEF SyncInv
  <2>2. ASSUME NEW ops, OpsLeft(log, applied, handshake, ops)
        PROVE  OpsLeft(log, applied, handshake', ops)
    <3>1. applied <= applied
      BY <1>1
    <3> QED
      BY <1>1, <2>2, <3>1, OpsLeftLater
  <2>3. RunningInv(log, applied, handshake', running)
    BY <2>1, <2>2, Zenon DEF RunningInv
  <2> QED
    BY <2>3
<1>3. FilesInv'
  <2>1. ASSUME NEW f \in SyncFile
        PROVE  FileInv(log, f, applied, Eff(applied, running), handshake', index, vault)
    <3>1. FileInv(log, f, applied, Eff(applied, running), handshake, index, vault)
      BY DEF SyncInv, FilesInv
    <3> QED
      BY <1>1, <3>1, EffCases, HandshakeKeepsFile
  <2> QED
    BY <2>1, Zenon DEF FilesInv
<1> QED
  BY <1>2, <1>3

\* The first message, and the others behind it.
LEMMA TakeFirst ==
    ASSUME SyncInv, NEW type, Take(type)
    PROVE  /\ answers # <<>> /\ Head(answers) = answers[1] /\ Head(answers).t = type
           /\ Head(answers) \in AnswerType
           /\ answers' = Tail(answers) /\ answers' \in Seq(AnswerType)
           /\ AnswerOK(log, link, applied, handshake, answers, 0, Head(answers))
           /\ type # "ack" => AnswersInv(log, owed, link, applied, handshake, Tail(answers))
<1>1. /\ log \in Seq(OpType) /\ answers \in Seq(AnswerType) /\ applied \in Nat
      /\ AnswersInv(log, owed, link, applied, handshake, answers)
  BY EffBounds DEF SyncInv, SyncTypes
<1>2. answers # <<>> /\ Head(answers).t = type /\ answers' = Tail(answers)
  BY DEF Take
<1>3. Head(answers) = answers[1] /\ Head(answers) \in AnswerType /\ Tail(answers) \in Seq(AnswerType)
      /\ 1 \in 1 .. Len(answers)
  <2>1. Len(answers) \in Nat \ {0}
    BY <1>1, <1>2, EmptySeq
  <2> QED
    BY <1>1, <1>2, <2>1, HeadTailProperties
<1>4. AnswerOK(log, link, applied, handshake, answers, 0, Head(answers))
  <2>1. AnswerOK(log, link, applied, handshake, answers, 1 - 1, answers[1])
    BY <1>1, <1>3, Zenon DEF AnswersInv
  <2> QED
    BY <1>3, <2>1
<1>5. type # "ack" => AnswersInv(log, owed, link, applied, handshake, Tail(answers))
  BY <1>1, <1>2, AnswersTaken
<1> QED
  BY <1>2, <1>3, <1>4, <1>5

LEMMA HandleWelcomeKeeps ==
    ASSUME SyncInv, HandleWelcome, ~early'
    PROVE  SyncInv'
<1>1. /\ SyncTypes /\ log \in Seq(OpType) /\ requests \in Seq(RequestType) /\ applied \in Nat
      /\ Len(log) \in Nat /\ DOMAIN log = 1 .. Len(log)
  <2>1. SyncTypes /\ log \in Seq(OpType) /\ requests \in Seq(RequestType)
    BY DEF SyncInv, SyncTypes
  <2> QED
    BY <2>1, EffBounds, LenProperties
<1>2. /\ Take("welcome")
      /\ UNCHANGED <<plan, log, owed, link, applied, running, firstSync, index, vault, downloaded>>
      /\ ready' = TRUE
      /\ \/ /\ catchup' = TRUE
            /\ requests' = Append(requests, [t |-> "get_ops", since |-> applied])
            /\ handshake' = handshake
         \/ FinishHandshake(applied) /\ requests' = requests
  BY DEF HandleWelcome, server, local
<1>3. /\ answers' \in Seq(AnswerType) /\ answers' = Tail(answers)
      /\ link = "joined"
      /\ AnswersInv(log, owed, link, applied, handshake, answers')
  <2>1. /\ Head(answers).t = "welcome" /\ answers' \in Seq(AnswerType) /\ answers' = Tail(answers)
        /\ AnswerOK(log, link, applied, handshake, answers, 0, Head(answers))
    BY <1>2, TakeFirst
  <2>2. AnswersInv(log, owed, link, applied, handshake, Tail(answers))
    BY <1>2, TakeFirst
  <2> QED
    BY <2>1, <2>2 DEF AnswerOK
<1>4. /\ requests' \in Seq(RequestType) /\ catchup' \in BOOLEAN /\ handshake' \in BOOLEAN
      /\ handshake => handshake'
      /\ handshake' => handshake \/ \A s \in 1 .. Len(log) : log[s].own => s <= applied
  <2>1. CASE /\ catchup' = TRUE
             /\ requests' = Append(requests, [t |-> "get_ops", since |-> applied])
             /\ handshake' = handshake
    <3>1. [t |-> "get_ops", since |-> applied] \in RequestType
      BY <1>1 DEF RequestType
    <3> QED
      BY <1>1, <2>1, <3>1, AppendProperties DEF SyncTypes
  <2>2. CASE FinishHandshake(applied) /\ requests' = requests
    <3>1. catchup' = FALSE /\ handshake' = TRUE /\ ~\E s \in DOMAIN log : log[s].own /\ s > applied
      BY <2>2 DEF FinishHandshake
    <3>2. \A s \in 1 .. Len(log) : log[s].own => s <= applied
      BY <1>1, <3>1
    <3> QED
      BY <1>1, <2>2, <3>1, <3>2
  <2> QED
    BY <1>2, <2>1, <2>2
<1>5. SyncTypes'
  BY <1>1, <1>2, <1>3, <1>4 DEF SyncTypes
<1>6. AnswersInv(log, owed, link, applied, handshake, answers)'
  <2>1. AnswersInv(log, owed, link, applied, handshake', answers')
    BY <1>1, <1>3, <1>4, AnswersLater
  <2> QED
    BY <1>2, <2>1
<1>7. RunningInv(log, applied, handshake, running)' /\ FilesInv'
  BY <1>2, <1>4, HandshakeKeepsRest
<1> QED
  BY <1>5, <1>6, <1>7 DEF SyncInv

LEMMA HandleAckKeeps ==
    ASSUME SyncInv, HandleAck, ~skipped'
    PROVE  SyncInv'
<1> DEFINE s == Head(answers).seq
<1>1. /\ SyncTypes /\ log \in Seq(OpType) /\ applied \in Nat /\ Len(log) \in Nat
      /\ handshake \in BOOLEAN /\ answers \in Seq(AnswerType)
      /\ applied \in 0 .. Len(log) /\ downloaded \subseteq 1 .. applied
      /\ AnswersInv(log, owed, link, applied, handshake, answers)
      /\ RunningInv(log, applied, handshake, running)
  BY EffBounds DEF SyncInv, SyncTypes
<1>2. /\ Take("ack")
      /\ applied' = Max({applied, s})
      /\ ~(s > applied + 1)
      /\ UNCHANGED <<log, owed, link, requests, flags, running, firstSync, index, vault, downloaded>>
  BY DEF HandleAck, server, local
<1>3. UNCHANGED <<log, owed, link, requests, ready, catchup, handshake, running, firstSync, index,
                  vault, downloaded>>
  BY <1>2 DEF flags
<1>4. /\ answers' \in Seq(AnswerType) /\ answers' = Tail(answers) /\ answers # <<>>
      /\ handshake = TRUE /\ s \in 1 .. Len(log) /\ log[s].own /\ s \in Nat
  <2>1. /\ answers' \in Seq(AnswerType) /\ answers' = Tail(answers) /\ answers # <<>>
        /\ handshake /\ s \in 1 .. Len(log) /\ log[s].own
    BY <1>2, TakeFirst DEF AnswerOK
  <2> QED
    BY <1>1, <2>1
<1> HIDE DEF s
<1>5. applied' = IF applied < s THEN s ELSE applied
  BY <1>1, <1>2, <1>4, MaxOfTwo
<1>6. /\ applied' \in 0 .. Len(log) /\ applied' \in Nat /\ applied <= applied' /\ s <= applied'
      /\ downloaded \subseteq 1 .. applied'
  BY <1>1, <1>4, <1>5
<1>7. SyncTypes'
  BY <1>1, <1>3, <1>4, <1>6 DEF SyncTypes
<1>8. AnswersInv(log, owed, link, applied, handshake, answers)'
  <2>1. AnswersInv(log, owed, link, applied', handshake, Tail(answers))
    BY <1>1, <1>4, <1>6, AnswersTaken DEF s
  <2> QED
    BY <1>3, <1>4, <2>1
<1>9. CASE s <= applied
  <2>1. applied' = applied
    BY <1>1, <1>4, <1>5, <1>9
  <2> QED
    BY <1>3, <1>7, <1>8, <2>1, RestKept DEF SyncInv
<1>10. CASE ~(s <= applied)
  <2>1. s = applied + 1 /\ applied' = applied + 1
    BY <1>1, <1>2, <1>4, <1>5, <1>10
  <2>2. running = <<>>
    <3>1. running # <<>> => ~log[applied + 1].own
      BY <1>1, <1>4, FirstRunning
    <3> QED
      BY <1>4, <2>1, <3>1
  <2>3. RunningInv(log, applied, handshake, running)'
    BY <1>3, <2>2 DEF RunningInv
  <2>4. Eff(applied, running) = applied /\ Eff(applied', running) = applied + 1
    BY <2>1, <2>2 DEF Eff
  <2>5. log[applied + 1].kind = "inline" /\ applied < Len(log) /\ log[applied + 1].own
    BY <1>1, <1>4, <2>1 DEF SyncTypes
  <2>6. ASSUME NEW f \in SyncFile
        PROVE  FileInv(log, f, applied + 1, applied + 1, TRUE, index, vault)
    <3>1. FileInv(log, f, applied, applied, TRUE, index, vault)
      BY <1>4, <2>4 DEF SyncInv, FilesInv
    <3> QED
      BY <1>1, <2>5, <3>1, AckKeepsFile
  <2>7. FilesInv'
    <3>1. Eff(applied', running') = applied + 1 /\ applied' = applied + 1 /\ handshake' = TRUE
      BY <1>3, <1>4, <2>1, <2>4
    <3> QED
      BY <1>3, <2>6, <3>1, Zenon DEF FilesInv
  <2> QED
    BY <1>7, <1>8, <2>3, <2>7 DEF SyncInv
<1> QED
  BY <1>9, <1>10
\* What is left of an ops message whose operations the device has not acknowledged.
LEMMA FirstOpsLeft ==
    ASSUME SyncTypes, NEW ops,
           OpsOK(log, applied, handshake, answers, 0, ops)
    PROVE  OpsLeft(log, applied, handshake, ops)
<1>1. \A s : ~Acked(answers, 0, s)
  BY DEF Acked
<1> QED
  BY <1>1, Zenon DEF OpsOK, OpsLeft

\* From what a handler leaves behind to the invariant.
LEMMA ProceededKeeps ==
    ASSUME SyncInv, Proceeded(applied', index'),
           UNCHANGED <<log, owed, link, ready, firstSync>>,
           AnswersInv(log, owed, link, applied, handshake, answers'),
           answers' \in Seq(AnswerType),
           applied' \in 0 .. Len(log), applied <= applied',
           index' \in [SyncFile -> SUBSET Names],
           downloaded' \subseteq 1 .. applied'
    PROVE  SyncInv'
<1>1. /\ SyncTypes /\ log \in Seq(OpType) /\ applied \in Nat /\ applied' \in Nat
  BY EffBounds DEF SyncInv, SyncTypes
<1>2. /\ requests' \in Seq(RequestType) /\ running' \in Seq(HandlerType) /\ vault' \in [Path -> Nat]
      /\ catchup' \in BOOLEAN /\ handshake' \in BOOLEAN
      /\ handshake => handshake'
      /\ catchup' \/ handshake' => catchup \/ handshake
      /\ handshake' => handshake \/ \A s \in 1 .. Len(log) : log[s].own => s <= applied'
      /\ RunningInv(log, applied', handshake', running')
      /\ \A f \in SyncFile :
            FileInv(log, f, applied', Eff(applied', running'), handshake', index', vault')
  BY Zenon DEF Proceeded
<1>3. SyncTypes'
  BY <1>1, <1>2 DEF SyncTypes
<1>4. AnswersInv(log, owed, link, applied, handshake, answers)'
  <2>1. AnswersInv(log, owed, link, applied', handshake', answers')
    BY <1>1, <1>2, AnswersLater
  <2> QED
    BY <2>1
<1>5. RunningInv(log, applied, handshake, running)'
  BY <1>2
<1>6. FilesInv'
  BY <1>2, Zenon DEF FilesInv
<1> QED
  BY <1>3, <1>4, <1>5, <1>6 DEF SyncInv

LEMMA HandleOpsKeeps ==
    ASSUME SyncInv, HandleOps, ~early', ~overlapped'
    PROVE  SyncInv'
<1> DEFINE m == Head(answers)
           h == [ops |-> m.ops, more |-> m.more, at |-> "write"]
<1>1. /\ SyncTypes /\ log \in Seq(OpType) /\ applied \in 0 .. Len(log)
      /\ running \in Seq(HandlerType) /\ index \in [SyncFile -> SUBSET Names]
      /\ downloaded \subseteq 1 .. applied
      /\ RunningInv(log, applied, handshake, running) /\ FilesInv /\ applied \in Nat
  BY EffBounds DEF SyncInv, SyncTypes
<1>2. /\ Take("ops") /\ Proceed(h, running, applied, index)
      /\ UNCHANGED <<log, owed, link, applied, ready, firstSync, index, downloaded>>
  BY DEF HandleOps, server
<1>3. /\ m.t = "ops" /\ m \in AnswerType
      /\ answers' = Tail(answers) /\ answers' \in Seq(AnswerType)
      /\ AnswerOK(log, link, applied, handshake, answers, 0, m)
      /\ AnswersInv(log, owed, link, applied, handshake, Tail(answers))
  BY <1>2, TakeFirst
<1>4. OpsLeft(log, applied, handshake, m.ops)
  <2>1. OpsOK(log, applied, handshake, answers, 0, m.ops)
    BY <1>3 DEF AnswerOK
  <2> QED
    BY <1>1, <2>1, FirstOpsLeft
<1>5. m.ops \in Seq(Nat) /\ m.more \in BOOLEAN
  BY <1>3 DEF AnswerType
<1> HIDE DEF m
<1>6. h \in HandlerType /\ h.ops = m.ops
  BY <1>5 DEF HandlerType
<1> HIDE DEF h
<1>7. \A f \in SyncFile :
         FileInv(log, f, applied, Eff(applied, running), handshake, index, vault)
  BY <1>1 DEF FilesInv
<1>8. Proceeded(applied, index)
  BY <1>1, <1>2, <1>4, <1>6, <1>7, ProceedProceeds
<1>9. Proceeded(applied', index')
  BY <1>2, <1>8
<1>10. /\ AnswersInv(log, owed, link, applied, handshake, answers')
       /\ applied' \in 0 .. Len(log) /\ applied <= applied'
       /\ index' \in [SyncFile -> SUBSET Names] /\ downloaded' \subseteq 1 .. applied'
  BY <1>1, <1>2, <1>3
<1> QED
  BY <1>2, <1>3, <1>9, <1>10, ProceededKeeps

\* There is one handler to be removed.
LEMMA RemoveOnly ==
    ASSUME NEW run, Len(run) = 1, NEW i \in 1 .. Len(run)
    PROVE  i = 1 /\ RemoveAt(run, i) = <<>>
<1>1. i = 1
  OBVIOUS
<1>2. SubSeq(run, 1, 0) = <<>>
  BY SubSeqEmpty
<1>3. SubSeq(run, 2, 1) = <<>>
  BY SubSeqEmpty
<1>4. RemoveAt(run, 1) = SubSeq(run, 1, 0) \o SubSeq(run, 2, 1)
  BY DEF RemoveAt
<1>5. <<>> \o <<>> = <<>>
  <2>1. <<>> \in Seq(Nat)
    BY EmptySeq
  <2> QED
    BY <2>1, ConcatEmptySeq
<1> QED
  BY <1>1, <1>2, <1>3, <1>4, <1>5

\* The index after the operation behind appliedSeq.
LEMMA IndexedEntries ==
    ASSUME SyncTypes, applied + 1 \in 1 .. Len(log)
    PROVE  /\ Indexed(applied + 1) \in [SyncFile -> SUBSET Names]
           /\ \A f \in SyncFile : Indexed(applied + 1)[f] = Entry(log, applied, f, index)
<1> DEFINE s == applied + 1
           g == log[s].file
           name == NameIn(log, g, s)
           stays == log[s].kind = "delete" \/ (log[s].kind = "rename" /\ index[g] = {})
<1>1. index \in [SyncFile -> SUBSET Names] /\ log \in Seq(OpType) /\ s \in Nat
  BY LenProperties DEF SyncTypes
<1>2. g \in SyncFile
  <2>1. log[s] \in OpType
    BY <1>1, ElementOfSeq
  <2> QED
    BY <2>1 DEF OpType
<1>3. name \in Names
  BY <1>1, NameType
<1>4. Indexed(s) = IF stays THEN index ELSE [index EXCEPT ![g] = {name}]
  <2>1. Target(s)[2] = name
    BY TargetOf
  <2> QED
    BY <2>1 DEF Indexed
<1>5. \A f \in SyncFile :
        Entry(log, applied, f, index) =
          IF g # f \/ log[s].kind = "delete" \/ (log[s].kind = "rename" /\ index[f] = {})
          THEN index[f] ELSE {NameIn(log, f, s)}
  BY DEF Entry
<1> HIDE DEF s, g, name
<1>6. Indexed(s) \in [SyncFile -> SUBSET Names]
  BY <1>1, <1>2, <1>3, <1>4
<1>7. ASSUME NEW f \in SyncFile
      PROVE  Indexed(s)[f] = Entry(log, applied, f, index)
  <2>1. CASE f # g
    BY <1>1, <1>2, <1>4, <1>5, <2>1
  <2>2. CASE f = g
    <3>1. name = NameIn(log, f, s)
      BY <2>2 DEF name
    <3> QED
      BY <1>1, <1>2, <1>4, <1>5, <2>2, <3>1
  <2> QED
    BY <2>1, <2>2
<1> QED
  BY <1>6, <1>7 DEF s

LEMMA WriteDoneKeeps ==
    ASSUME SyncInv, NEW i \in DOMAIN running, WriteDone(i), ~early', ~overlapped'
    PROVE  SyncInv'
<1> DEFINE s == applied + 1
           h == running[1]
<1>1. /\ SyncTypes /\ log \in Seq(OpType) /\ applied \in Nat /\ Len(log) \in Nat
      /\ running \in Seq(HandlerType) /\ downloaded \subseteq 1 .. applied
      /\ answers \in Seq(AnswerType)
      /\ RunningInv(log, applied, handshake, running) /\ FilesInv
      /\ AnswersInv(log, owed, link, applied, handshake, answers)
  BY EffBounds DEF SyncInv, SyncTypes
<1>2. running # <<>> /\ i \in 1 .. Len(running)
  BY <1>1, LenProperties
<1>3. /\ Len(running) = 1 /\ h \in HandlerType /\ Head(h.ops) = s /\ s \in 1 .. Len(log)
      /\ OpsLeft(log, applied, handshake, h.ops)
  BY <1>1, <1>2, FirstRunning
<1>4. i = 1 /\ RemoveAt(running, i) = <<>>
  BY <1>2, <1>3, RemoveOnly
<1>5. s \in Nat /\ Max({applied, s}) = s
  BY <1>1, MaxOfTwo
<1>6. /\ h.at = "write"
      /\ index' = Indexed(s) /\ applied' = s
      /\ downloaded' = IF log[s].kind = "blob" THEN downloaded \cup {s} ELSE downloaded
      /\ Proceed(h, <<>>, s, Indexed(s))
      /\ UNCHANGED <<log, owed, link, answers, ready, firstSync>>
  BY <1>3, <1>4, <1>5 DEF WriteDone, server
<1>7. Eff(applied, running) = s
  BY <1>2, <1>6 DEF Eff
<1>8. /\ Indexed(s) \in [SyncFile -> SUBSET Names]
      /\ \A f \in SyncFile : Indexed(s)[f] = Entry(log, applied, f, index)
  BY <1>1, <1>3, IndexedEntries
<1>9. ASSUME NEW f \in SyncFile
      PROVE  FileInv(log, f, s, Eff(s, <<>>), handshake, Indexed(s), vault)
  <2>1. FileInv(log, f, applied, s, handshake, index, vault)
    BY <1>1, <1>7 DEF FilesInv
  <2>2. FileInv(log, f, s, s, handshake, Indexed(s), vault)
    BY <1>1, <1>8, <2>1, DoneKeepsFile
  <2>3. Eff(s, <<>>) = s
    BY DEF Eff
  <2> QED
    BY <2>2, <2>3
<1>10. OpsLeft(log, s, handshake, h.ops)
  <2>1. applied <= s
    BY <1>1
  <2> QED
    BY <1>1, <1>3, <1>5, <2>1, OpsLeftLater
<1>11. <<>> \in Seq(HandlerType) /\ RunningInv(log, s, handshake, <<>>)
  BY EmptySeq DEF RunningInv
<1>12. s \in 0 .. Len(log) /\ downloaded \subseteq 1 .. s /\ applied <= s /\ s \in 1 .. s
  BY <1>1, <1>3
<1> HIDE DEF s, h
<1>13. Proceeded(s, Indexed(s))
  BY <1>1, <1>3, <1>6, <1>8, <1>9, <1>10, <1>11, <1>12, ProceedProceeds
<1>14. Proceeded(applied', index')
  BY <1>6, <1>13
<1>15. /\ AnswersInv(log, owed, link, applied, handshake, answers')
       /\ answers' \in Seq(AnswerType)
       /\ applied' \in 0 .. Len(log) /\ applied <= applied'
       /\ index' \in [SyncFile -> SUBSET Names] /\ downloaded' \subseteq 1 .. applied'
  BY <1>1, <1>6, <1>8, <1>12
<1> QED
  BY <1>6, <1>14, <1>15, ProceededKeeps

LEMMA FetchTimesOutKeeps ==
    ASSUME SyncInv, NEW i \in DOMAIN running, FetchTimesOut(i)
    PROVE  SyncInv'
<1>1. /\ SyncTypes /\ running \in Seq(HandlerType) /\ FilesInv
      /\ RunningInv(log, applied, handshake, running)
      /\ AnswersInv(log, owed, link, applied, handshake, answers)
  BY DEF SyncInv, SyncTypes
<1>2. running # <<>> /\ i \in 1 .. Len(running)
  BY <1>1, LenProperties
<1>3. Len(running) = 1
  BY <1>1, <1>2, FirstRunning
<1>4. i = 1 /\ RemoveAt(running, i) = <<>>
  BY <1>2, <1>3, RemoveOnly
<1>5. /\ running[1].at = "fetch" /\ running' = <<>>
      /\ UNCHANGED <<log, owed, link, requests, answers, applied, flags, firstSync, local>>
  BY <1>4 DEF FetchTimesOut, server
<1>6. UNCHANGED <<log, owed, link, requests, answers, applied, ready, catchup, handshake, firstSync,
                  index, vault, downloaded>>
  BY <1>5 DEF flags, local
<1>7. running' \in Seq(HandlerType) /\ RunningInv(log, applied, handshake, running')
  BY <1>5, EmptySeq DEF RunningInv
<1>8. Eff(applied, running') = Eff(applied, running)
  BY <1>5 DEF Eff
<1>9. SyncTypes'
  BY <1>1, <1>6, <1>7 DEF SyncTypes
<1>10. AnswersInv(log, owed, link, applied, handshake, answers)'
  BY <1>1, <1>6
<1>11. RunningInv(log, applied, handshake, running)'
  BY <1>6, <1>7
<1>12. FilesInv'
  BY <1>1, <1>6, <1>8 DEF FilesInv
<1> QED
  BY <1>9, <1>10, <1>11, <1>12 DEF SyncInv

\* The content that a handler waits for is written.
LEMMA ContentEffect ==
    ASSUME SyncTypes, applied + 1 \in 1 .. Len(log), log[applied + 1].kind = "blob",
           NEW w, w = [p \in Path |-> IF p = Target(applied + 1) THEN applied + 1 ELSE vault[p]]
    PROVE  /\ w \in [Path -> Nat]
           /\ \A f \in SyncFile : Effect(log, applied, f, index[f], vault, w)
<1> DEFINE s == applied + 1
           g == log[s].file
           name == NameIn(log, g, s)
<1>1. vault \in [Path -> Nat] /\ log \in Seq(OpType) /\ s \in Nat
  BY LenProperties DEF SyncTypes
<1>2. g \in SyncFile
  <2>1. log[s] \in OpType
    BY <1>1, ElementOfSeq
  <2> QED
    BY <2>1 DEF OpType
<1>3. name \in Names /\ 1 - name \in Names /\ 1 - name # name
  <2>1. name \in Names /\ 1 - name \in Names
    BY <1>1, NameType
  <2> QED
    BY <2>1 DEF Names
<1>4. w = [p \in Path |-> IF p = <<g, name>> THEN s ELSE vault[p]]
  <2>1. Target(s) = <<g, name>>
    BY TargetOf
  <2> QED
    BY <2>1
<1>5. log[s].kind = "blob"
  OBVIOUS
<1> HIDE DEF s, g, name
<1>6. w \in [Path -> Nat]
  BY <1>1, <1>4
<1>7. ASSUME NEW f \in SyncFile, f # g, NEW x \in Names
      PROVE  w[<<f, x>>] = vault[<<f, x>>]
  <2>1. <<f, x>> \in Path /\ <<f, x>> # <<g, name>>
    BY <1>7 DEF Path
  <2> QED
    BY <1>4, <2>1
<1>8. w[<<g, name>>] = s /\ w[<<g, 1 - name>>] = vault[<<g, 1 - name>>]
  <2>1. <<g, name>> \in Path /\ <<g, 1 - name>> \in Path /\ <<g, 1 - name>> # <<g, name>>
    BY <1>2, <1>3 DEF Path
  <2> QED
    BY <1>4, <2>1
<1>9. log[s].kind # "delete" /\ log[s].kind # "rename"
  BY <1>5
<1>10. ASSUME NEW f \in SyncFile
       PROVE  Effect(log, applied, f, index[f], vault, w)
  <2>1. CASE f # g
    BY <1>7, <2>1, Zenon DEF Effect, g, s
  <2>2. CASE f = g
    <3>1. Effect(log, applied, g, index[g], vault, w)
      BY <1>8, <1>9, Zenon DEF Effect, g, s, name
    <3> QED
      BY <2>2, <3>1
  <2> QED
    BY <2>1, <2>2
<1> QED
  BY <1>6, <1>10

LEMMA HandleContentKeeps ==
    ASSUME SyncInv, HandleContent
    PROVE  SyncInv'
<1> DEFINE s == Head(answers).hash
           waits == {i \in DOMAIN running : running[i].at = "fetch" /\ Head(running[i].ops) = s}
<1>1. /\ SyncTypes /\ log \in Seq(OpType) /\ applied \in Nat /\ Len(log) \in Nat
      /\ running \in Seq(HandlerType) /\ vault \in [Path -> Nat] /\ FilesInv
      /\ firstSync.at \in {"no", "begins"}
      /\ RunningInv(log, applied, handshake, running)
      /\ \A j \in 1 .. Len(log) : log[j].own => log[j].kind = "inline"
  BY EffBounds DEF SyncInv, SyncTypes
<1>2. firstSync.at # "fetch"
  BY <1>1
<1>3. /\ Take("content")
      /\ running' = [i \in DOMAIN running |->
                       IF i \in waits THEN [running[i] EXCEPT !.at = "write"] ELSE running[i]]
      /\ vault' = [p \in Path |-> IF p \in {Target(s) : i \in waits} THEN s ELSE vault[p]]
      /\ firstSync' = firstSync /\ downloaded' = downloaded
      /\ UNCHANGED <<log, owed, link, requests, applied, flags, index>>
  BY <1>2 DEF HandleContent, server
<1>4. UNCHANGED <<log, owed, link, requests, applied, ready, catchup, handshake, firstSync, index,
                  downloaded>>
  BY <1>3 DEF flags
<1>5. /\ answers' \in Seq(AnswerType)
      /\ AnswersInv(log, owed, link, applied, handshake, answers')
  <2>1. Take("content") /\ "content" # "ack"
    BY <1>3
  <2>2. answers' = Tail(answers) /\ answers' \in Seq(AnswerType)
    BY <2>1, TakeFirst
  <2>3. AnswersInv(log, owed, link, applied, handshake, Tail(answers))
    BY <2>1, TakeFirst
  <2> QED
    BY <2>2, <2>3
<1>6. AnswersInv(log, owed, link, applied, handshake, answers)'
  BY <1>4, <1>5
<1> HIDE DEF s
<1>7. CASE waits = {}
  <2>1. running' = running
    <3>1. running = [i \in DOMAIN running |-> running[i]]
      BY <1>1, LenProperties
    <3> QED
      BY <1>3, <1>7, <3>1
  <2>2. vault' = vault
    BY <1>1, <1>3, <1>7
  <2>3. SyncTypes'
    BY <1>1, <1>4, <1>5, <2>1, <2>2 DEF SyncTypes
  <2>4. RunningInv(log, applied, handshake, running)' /\ FilesInv'
    BY <1>4, <2>1, <2>2, RestKept
  <2> QED
    BY <1>6, <2>3, <2>4 DEF SyncInv
<1>8. CASE waits # {}
  <2>1. running # <<>>
    <3>1. DOMAIN running # {}
      BY <1>8
    <3> QED
      BY <3>1, EmptySeq
  <2>2. /\ Len(running) = 1 /\ running[1] \in HandlerType /\ running[1].ops # <<>>
        /\ Head(running[1].ops) = applied + 1 /\ running[1].ops[1] = applied + 1
        /\ applied + 1 \in 1 .. Len(log) /\ (handshake => ~log[applied + 1].own)
        /\ OpsLeft(log, applied, handshake, running[1].ops)
    BY <1>1, <2>1, FirstRunning
  <2>3. DOMAIN running = {1}
    <3>1. DOMAIN running = 1 .. 1
      BY <1>1, <2>2, LenProperties
    <3> QED
      BY <3>1
  <2>4. waits = {1} /\ running[1].at = "fetch" /\ s = applied + 1
    BY <1>8, <2>2, <2>3
  <2> DEFINE h == [running[1] EXCEPT !.at = "write"]
  <2>5. h \in HandlerType /\ h.ops = running[1].ops /\ h.at = "write"
    BY <2>2 DEF HandlerType
  <2>6. running' = [i \in {1} |-> h]
    BY <1>3, <2>3, <2>4
  <2> HIDE DEF h
  <2>7. running' = <<h>> /\ running' \in Seq(HandlerType) /\ Len(running') = 1 /\ running'[1] = h
    <3>1. <<h>> = [i \in 1 .. 1 |-> h]
      OBVIOUS
    <3>2. 1 .. 1 = {1}
      OBVIOUS
    <3>3. running' = <<h>>
      BY <2>6, <3>1, <3>2
    <3> QED
      BY <2>5, <3>3
  <2>8. log[applied + 1].kind = "blob"
    BY <1>1, <2>1, <2>4 DEF RunningInv
  <2>9. RunningInv(log, applied, handshake, running')
    BY <2>2, <2>5, <2>7 DEF RunningInv
  <2>10. vault' = [p \in Path |-> IF p = Target(applied + 1) THEN applied + 1 ELSE vault[p]]
    BY <1>3, <2>4
  <2>11. /\ vault' \in [Path -> Nat]
         /\ \A f \in SyncFile : Effect(log, applied, f, index[f], vault, vault')
    BY <1>1, <2>2, <2>8, <2>10, ContentEffect
  <2>12. Eff(applied, running) = applied /\ Eff(applied, running') = applied + 1
    <3>1. running' # <<>>
      BY <2>7
    <3> QED
      BY <2>4, <2>5, <2>7, <3>1 DEF Eff
  <2>13. applied < Len(log) /\ ~log[applied + 1].own
    BY <1>1, <2>2, <2>8
  <2>14. ASSUME NEW f \in SyncFile
         PROVE  FileInv(log, f, applied, applied + 1, handshake, index, vault')
    <3>1. FileInv(log, f, applied, applied, handshake, index, vault)
      BY <1>1, <2>12 DEF FilesInv
    <3>2. Effect(log, applied, f, index[f], vault, vault')
      BY <2>11
    <3> QED
      BY <1>1, <2>13, <3>1, <3>2, WriteKeepsFile
  <2>15. SyncTypes'
    BY <1>1, <1>4, <1>5, <2>7, <2>11 DEF SyncTypes
  <2>16. FilesInv'
    BY <1>4, <2>12, <2>14 DEF FilesInv
  <2>17. RunningInv(log, applied, handshake, running)'
    BY <1>4, <2>9
  <2> QED
    BY <1>6, <2>15, <2>16, <2>17 DEF SyncInv
<1> QED
  BY <1>7, <1>8

-----------------------------------------------------------------------------
(***************************************************************************)
(* Every step keeps the invariant.                                         *)
(***************************************************************************)
\* What has happened once has happened.
LEMMA OrderlyBefore ==
    ASSUME [SyncNext]_syncVars, Orderly'
    PROVE  Orderly
<1>1. CASE UNCHANGED syncVars
  BY <1>1 DEF syncVars, Orderly
<1>2. ASSUME NEW f, NEW kind, AcceptOther(f, kind)
      PROVE  Orderly
  BY <1>2 DEF AcceptOther, Orderly, flags
<1>3. ASSUME NEW f, AcceptOwn(f)
      PROVE  Orderly
  BY <1>3 DEF AcceptOwn, Orderly, flags
<1>4. CASE Serve
  BY <1>4 DEF Serve, Orderly, flags
<1>5. ASSUME NEW s, Announce(s)
      PROVE  Orderly
  BY <1>5 DEF Announce, Orderly, flags
<1>6. CASE Open
  BY <1>6 DEF Open, Orderly, flags
<1>7. CASE Close
  BY <1>7 DEF Close, Orderly
<1>8. CASE HandleWelcome
  BY <1>8 DEF HandleWelcome, FinishHandshake, Orderly
<1>9. CASE HandleAck
  BY <1>9 DEF HandleAck, Orderly, flags
<1>10. ASSUME NEW h, NEW others, NEW seen, NEW known, Proceed(h, others, seen, known)
       PROVE  (early => early') /\ (overlapped => overlapped')
  <2>1. ASSUME NEW result, Leave(result, others, seen)
        PROVE  (early => early') /\ (overlapped => overlapped')
    BY <2>1 DEF Leave, FinishHandshake
  <2>2. ASSUME NEW g, NEW s, NEW entry, Begin(g, s, entry, others)
        PROVE  (early => early') /\ (overlapped => overlapped')
    BY <2>2 DEF Begin
  <2> QED
    BY <1>10, <2>1, <2>2, Zenon DEF Proceed
<1>11. CASE HandleOps
  <2>1. /\ skipped' = skipped
        /\ \E h, others, seen, known : Proceed(h, others, seen, known)
    BY <1>11, Zenon DEF HandleOps
  <2> QED
    BY <1>10, <2>1 DEF Orderly
<1>12. ASSUME NEW i, WriteDone(i)
       PROVE  Orderly
  <2>1. /\ skipped' = skipped
        /\ \E h, others, seen, known : Proceed(h, others, seen, known)
    BY <1>12, Zenon DEF WriteDone
  <2> QED
    BY <1>10, <2>1 DEF Orderly
<1>13. ASSUME NEW i, FetchTimesOut(i)
       PROVE  Orderly
  BY <1>13 DEF FetchTimesOut, Orderly, flags
<1>14. CASE HandleContent
  BY <1>14 DEF HandleContent, Orderly, flags
<1>15. CASE HandlePage
  BY <1>15 DEF HandlePage, Orderly, flags
<1>16. CASE FirstSyncBegins
  BY <1>16 DEF FirstSyncBegins, Orderly, flags
<1>17. CASE ItemWritten
  BY <1>17 DEF ItemWritten, Orderly, flags
<1>18. CASE FirstSyncFails
  BY <1>18 DEF FirstSyncFails, Orderly, flags
<1> QED
  BY <1>1, <1>2, <1>3, <1>4, <1>5, <1>6, <1>7, <1>8, <1>9, <1>11, <1>12, <1>13, <1>14, <1>15,
     <1>16, <1>17, <1>18, Zenon DEF SyncNext, Server, Device

LEMMA StutterKeeps ==
    ASSUME SyncInv, UNCHANGED syncVars
    PROVE  SyncInv'
<1>1. UNCHANGED <<log, owed, link, requests, answers, applied, ready, catchup, handshake, running,
                  firstSync, index, vault, downloaded>>
  BY DEF syncVars
<1>2. SyncTypes'
  BY <1>1 DEF SyncInv, SyncTypes
<1>3. AnswersInv(log, owed, link, applied, handshake, answers)'
  BY <1>1 DEF SyncInv
<1>4. RunningInv(log, applied, handshake, running)' /\ FilesInv'
  BY <1>1, RestKept
<1> QED
  BY <1>2, <1>3, <1>4 DEF SyncInv

LEMMA OrderlySyncStep ==
    ASSUME OrderlySyncInv, [SyncNext]_syncVars
    PROVE  OrderlySyncInv'
<1> SUFFICES ASSUME Orderly'
             PROVE  SyncInv'
  BY DEF OrderlySyncInv
<1>1. SyncInv
  BY OrderlyBefore DEF OrderlySyncInv
<1>2. ~skipped' /\ ~overlapped' /\ ~early'
  BY DEF Orderly
<1>3. firstSync.at \in {"no", "begins"} /\ answers \in Seq(AnswerType)
  BY <1>1 DEF SyncInv, SyncTypes
<1>4. CASE UNCHANGED syncVars
  BY <1>1, <1>4, StutterKeeps
<1>5. ASSUME NEW f \in SyncFile, NEW kind \in Kinds, AcceptOther(f, kind)
      PROVE  SyncInv'
  BY <1>1, <1>5, AcceptOtherKeeps
<1>6. ASSUME NEW f \in SyncFile, AcceptOwn(f)
      PROVE  SyncInv'
  BY <1>1, <1>6, AcceptOwnKeeps
<1>7. CASE Server
  BY <1>1, <1>7, ServeKeeps, AnnounceKeeps DEF Server
<1>8. CASE Open \/ Close
  BY <1>1, <1>8, OpenKeeps, CloseKeeps
<1>9. CASE HandleWelcome \/ HandleAck \/ HandleOps \/ HandleContent
  BY <1>1, <1>2, <1>9, HandleWelcomeKeeps, HandleAckKeeps, HandleOpsKeeps, HandleContentKeeps
<1>10. ASSUME NEW i \in DOMAIN running, WriteDone(i) \/ FetchTimesOut(i)
       PROVE  SyncInv'
  BY <1>1, <1>2, <1>10, WriteDoneKeeps, FetchTimesOutKeeps
\* The first sync has not begun, and asks for no page.
<1>11. CASE HandlePage
  <2>1. Head(answers).t = "page" /\ Head(answers) \in AnswerType
    BY <1>1, <1>11, TakeFirst DEF HandlePage
  <2> QED
    BY <2>1 DEF AnswerType
<1>12. CASE FirstSyncBegins
  BY <1>2, <1>12 DEF FirstSyncBegins
<1>13. CASE ItemWritten
  BY <1>3, <1>13 DEF ItemWritten
<1>14. CASE FirstSyncFails
  BY <1>3, <1>14 DEF FirstSyncFails
<1> QED
  BY <1>4, <1>5, <1>6, <1>7, <1>8, <1>9, <1>10, <1>11, <1>12, <1>13, <1>14, Zenon
  DEF SyncNext, Device

\* At the end of the log no operation of the device's own is left to be applied.
LEMMA InvariantFollowsLog ==
    ASSUME OrderlySyncInv
    PROVE  SettledFollowsLog
<1> DEFINE n == Len(log)
<1> SUFFICES ASSUME Orderly, Quiet, applied = n
             PROVE  vault = VaultAt(n)
  BY DEF SettledFollowsLog, CaughtUpFollowsLog, Orderly
<1>1. /\ vault \in [Path -> Nat] /\ n \in Nat /\ running = <<>>
      /\ \A f \in SyncFile : FileInv(log, f, n, Eff(n, running), handshake, index, vault)
  BY LenProperties DEF OrderlySyncInv, SyncInv, SyncTypes, FilesInv, Quiet
<1>2. ASSUME NEW f \in SyncFile, NEW x \in Names
      PROVE  vault[<<f, x>>] = IF x = NameAt(f, n) THEN ContentAt(f, n) ELSE Nothing
  <2>1. Eff(n, running) = n
    BY <1>1 DEF Eff
  <2>2. FileInv(log, f, n, n, handshake, index, vault)
    BY <1>1, <2>1
  <2>3. OwnPast(log, f, n) = {}
    BY <1>1 DEF OwnPast
  <2>4. /\ vault[<<f, NameIn(log, f, n)>>] = ContentIn(log, f, n)
        /\ vault[<<f, 1 - NameIn(log, f, n)>>] = Nothing
    BY <2>2, <2>3, Zenon DEF FileInv
  <2>5. NameAt(f, n) = NameIn(log, f, n) /\ ContentAt(f, n) = ContentIn(log, f, n)
    BY WhatTheLogSays
  <2>6. x = NameIn(log, f, n) \/ x = 1 - NameIn(log, f, n)
    <3>1. NameIn(log, f, n) \in Names
      BY <1>1, NameType
    <3> QED
      BY <3>1 DEF Names
  <2>7. NameIn(log, f, n) # 1 - NameIn(log, f, n)
    <3>1. NameIn(log, f, n) \in {0, 1}
      BY <1>1, NameType DEF Names
    <3> QED
      BY <3>1
  <2> QED
    BY <2>4, <2>5, <2>6, <2>7
<1>3. ASSUME NEW p \in Path
      PROVE  vault[p] = IF p[2] = NameAt(p[1], n) THEN ContentAt(p[1], n) ELSE Nothing
  <2>1. p[1] \in SyncFile /\ p[2] \in Names /\ p = <<p[1], p[2]>>
    BY DEF Path
  <2> QED
    BY <1>2, <2>1
<1>4. VaultAt(n) = [p \in Path |-> IF p[2] = NameAt(p[1], n) THEN ContentAt(p[1], n) ELSE Nothing]
  BY DEF VaultAt
<1> QED
  BY <1>1, <1>3, <1>4

\* handleMessage, handleAck and applyOps (engine.ts): unless an
\* acknowledgement came before what precedes it, two handlers ran at once, the first
\* sync ran or a handshake was complete too early, there is at most one handler, at the
\* operation behind appliedSeq, every operation of the device's own is acknowledged
\* before the log brings it, and each file is what the log and the edits that are still
\* in it say.
THEOREM SyncIsOrderly == SyncSpec => []OrderlySyncInv
<1>1. SyncInit => OrderlySyncInv
  BY SyncInitInv DEF OrderlySyncInv
<1>2. OrderlySyncInv /\ [SyncNext]_syncVars => OrderlySyncInv'
  BY OrderlySyncStep
<1> QED
  BY <1>1, <1>2, PTL DEF SyncSpec

\* A plugin that is at the end of the log, with no handler of an ops message and no
\* first sync running, has in its vault what the log says (applyOps in engine.ts):
\* whatever announcements were lost, connections broken and pages asked for, for every
\* log and every size of a page.
THEOREM SyncSettledFollowsLog == SyncSpec => []SettledFollowsLog
<1>1. OrderlySyncInv => SettledFollowsLog
  BY InvariantFollowsLog
<1> QED
  BY <1>1, SyncIsOrderly, PTL

=============================================================================
