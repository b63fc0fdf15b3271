----------------------------- MODULE OutboxProofs -----------------------------
(***************************************************************************)
(* The safety properties of Outbox for every number of operations,         *)
(* connections and restarts, every user and every server.                  *)
(*                                                                         *)
(* The proofs rest on one observation: apart from the outbox in memory,    *)
(* what may come to be the outbox again is a copy of an earlier one, on    *)
(* the disk or in a save under way (Copies).  So an invariant of an outbox *)
(* is an invariant of the copies as soon as the operations of              *)
(* OutboxManager keep it, and as soon as it survives what the server       *)
(* accepts in the meantime.                                                *)
(***************************************************************************)
EXTENDS Outbox, SequenceTheorems, FiniteSetTheorems, WellFoundedInduction, TLAPS

-----------------------------------------------------------------------------
(***************************************************************************)
(* OutboxManager by itself.                                                *)
(***************************************************************************)
Born(m) == {o \in Op : m.status[o] # "unborn"}

\* An outbox in which n operations have been made up: those that are in the map have
\* numbers below nextDeviceSeq, in the order in which they were made up.
Sane(m, n) ==
    /\ m \in Manager
    /\ m.next <= n + 1
    /\ \A o \in Born(m) : o <= n
    /\ \A o \in Present(m) : m.number[o] \in 1 .. m.next - 1
    /\ \A o \in Present(m), p \in Born(m) : o < p => m.number[o] < m.number[p]

LEMMA OpIsNat == Op \subseteq Nat /\ MaxOps \in Nat /\ MaxLinks \in Nat \ {0}
BY OutboxAssumption DEF Op

\* A nonempty set of naturals has a smallest element.
LEMMA SmallestOf ==
    ASSUME NEW T, T \subseteq Nat, T # {}
    PROVE  \E x \in T : \A y \in T : x <= y
<1> DEFINE R == {ss \in Nat \X Nat : ss[1] < ss[2]}
<1>1. IsWellFoundedOn(R, Nat)
  BY NatLessThanWellFounded, Zenon DEF OpToRel
<1> HIDE DEF R
<1>2. PICK x \in T : \A y \in T : <<y, x>> \notin R
  BY <1>1, WFMin
<1>3. ASSUME NEW y \in T
      PROVE  x <= y
  <2>1. x \in Nat /\ y \in Nat
    OBVIOUS
  <2>2. ~(y < x)
    BY <1>2, <2>1 DEF R
  <2> QED
    BY <2>1, <2>2
<1> QED
  BY <1>2, <1>3

LEMMA ManagerType ==
    ASSUME NEW m \in Manager
    PROVE  /\ m.status \in [Op -> Status] /\ m.number \in [Op -> 0 .. MaxOps]
           /\ m.next \in 1 .. MaxOps + 1 /\ m.next \in Nat
           /\ \A o \in Op : m.number[o] \in Nat
           /\ Present(m) \subseteq Born(m) /\ Born(m) \subseteq Op
           /\ Retryable(m) \subseteq Present(m) /\ Queued(m) \subseteq Retryable(m)
BY OpIsNat DEF Manager, Present, Born, Retryable, Queued

LEMMA SaneNewManager == Sane(NewManager, 0)
BY OpIsNat DEF Sane, NewManager, Manager, Status, Born, Present

LEMMA SaneEnqueued ==
    ASSUME NEW m, NEW n \in Nat, Sane(m, n), n < MaxOps
    PROVE  LET e == Enqueued(m, n + 1)
           IN  /\ Sane(e, n + 1)
               /\ m.status[n + 1] = "unborn" /\ e.number[n + 1] = m.next
               /\ Born(e) = Born(m) \cup {n + 1}
               /\ Present(e) = Present(m) \cup {n + 1}
               /\ Retryable(e) = Retryable(m) \cup {n + 1}
               /\ e.status[n + 1] = "queued" /\ e.next = m.next + 1
               /\ \A o \in Op \ {n + 1} : e.number[o] = m.number[o] /\ e.status[o] = m.status[o]
<1> DEFINE e == Enqueued(m, n + 1)
<1>1. m \in Manager /\ n + 1 \in Op /\ m.next \in 1 .. n + 1 /\ n + 1 \notin Born(m)
  BY ManagerType, OpIsNat DEF Sane, Op
<1>2. /\ e.status = [m.status EXCEPT ![n + 1] = "queued"]
      /\ e.number = [m.number EXCEPT ![n + 1] = m.next]
      /\ e.next = m.next + 1
  BY DEF Enqueued
<1>3. e \in Manager
  BY <1>1, OpIsNat DEF Enqueued, Manager, Status
<1>4. /\ e.status[n + 1] = "queued" /\ e.number[n + 1] = m.next
      /\ \A o \in Op \ {n + 1} : e.number[o] = m.number[o] /\ e.status[o] = m.status[o]
      /\ m.status[n + 1] = "unborn" /\ e.next = m.next + 1
  BY <1>1, <1>2, ManagerType DEF Born
<1> HIDE DEF e
<1>5. /\ Born(e) = Born(m) \cup {n + 1}
      /\ Present(e) = Present(m) \cup {n + 1}
      /\ Retryable(e) = Retryable(m) \cup {n + 1}
  BY <1>1, <1>4 DEF Born, Present, Retryable
<1>6. Sane(e, n + 1)
  <2>1. \A o \in Born(e) : o <= n + 1
    <3>1. \A o \in Born(m) : o <= n /\ o \in Nat
      BY <1>1, ManagerType, OpIsNat DEF Sane
    <3> QED
      BY <1>5, <3>1
  <2>2. \A o \in Present(e) : e.number[o] \in 1 .. e.next - 1
    <3>1. \A o \in Present(m) : o \in Op \ {n + 1} /\ m.number[o] \in 1 .. m.next - 1
      BY <1>1, ManagerType DEF Sane
    <3> QED
      BY <1>1, <1>4, <1>5, <3>1
  <2>3. ASSUME NEW o \in Present(e), NEW p \in Born(e), o < p
        PROVE  e.number[o] < e.number[p]
    <3>1. o \in Op /\ p \in Op /\ o \in Nat /\ p \in Nat /\ p <= n + 1
      BY <1>3, <2>1, ManagerType, OpIsNat
    <3>2. o # n + 1 /\ o \in Present(m)
      BY <1>5, <2>3, <3>1
    <3>3. CASE p = n + 1
      BY <1>1, <1>4, <3>1, <3>2, <3>3, ManagerType DEF Sane
    <3>4. CASE p # n + 1
      BY <1>4, <1>5, <2>3, <3>1, <3>2, <3>4 DEF Sane
    <3> QED
      BY <3>3, <3>4
  <2> QED
    BY <1>1, <1>3, <1>4, <2>1, <2>2, <2>3 DEF Sane
<1> QED
  BY <1>4, <1>5, <1>6 DEF e

\* A change of status that puts nothing into the map.
LEMMA SaneStatus ==
    ASSUME NEW m, NEW n \in Nat, Sane(m, n), NEW e \in Manager,
           e.number = m.number, e.next = m.next,
           Present(e) \subseteq Present(m), Born(e) = Born(m)
    PROVE  Sane(e, n)
BY DEF Sane

LEMMA SaneWithStatus ==
    ASSUME NEW m, NEW n \in Nat, Sane(m, n), NEW o, NEW s \in Status \ {"unborn"}
    PROVE  LET e == WithStatus(m, o, s)
           IN  /\ Sane(e, n)
               /\ e.number = m.number /\ e.next = m.next /\ Born(e) = Born(m)
               /\ Present(e) \subseteq Present(m)
               /\ \A p \in Op : e.status[p] = IF p = o /\ o \in Present(m) THEN s ELSE m.status[p]
<1> DEFINE e == WithStatus(m, o, s)
<1>1. m \in Manager
  BY DEF Sane
<1>2. CASE o \in Present(m)
  <2>1. e = [m EXCEPT !.status[o] = s]
    BY <1>2 DEF WithStatus
  <2>2. o \in Op /\ m.status[o] # "unborn"
    BY <1>2 DEF Present
  <2>3. /\ e \in Manager /\ e.number = m.number /\ e.next = m.next
        /\ e.status = [m.status EXCEPT ![o] = s]
    BY <1>1, <2>1, <2>2 DEF Manager
  <2>4. \A p \in Op : e.status[p] = IF p = o THEN s ELSE m.status[p]
    BY <1>1, <2>2, <2>3, ManagerType
  <2> HIDE DEF e
  <2>5. Present(e) \subseteq Present(m) /\ Born(e) = Born(m)
    BY <1>2, <2>2, <2>4 DEF Present, Born
  <2>6. Sane(e, n)
    BY <2>3, <2>5, SaneStatus
  <2> QED
    BY <1>2, <2>3, <2>4, <2>5, <2>6 DEF e
<1>3. CASE o \notin Present(m)
  <2>1. e = m
    BY <1>3 DEF WithStatus
  <2> QED
    BY <1>3, <2>1
<1> QED
  BY <1>2, <1>3

LEMMA SaneReindexed ==
    ASSUME NEW m, NEW n \in Nat, Sane(m, n), NEW o \in Present(m)
    PROVE  LET e == RemovedAndReindexed(m, o)
           IN  /\ Sane(e, n)
               /\ Born(e) = Born(m) /\ Present(e) = Present(m) \ {o}
               /\ Retryable(e) = Retryable(m) \ {o}
               /\ e.next = m.next - 1
               /\ e.status[o] = "dropped"
               /\ \A p \in Op \ {o} : e.status[p] = m.status[p]
               /\ \A p \in Op : e.number[p] = IF p \in Present(m) /\ m.number[p] > m.number[o]
                                              THEN m.number[p] - 1 ELSE m.number[p]
<1> DEFINE e == RemovedAndReindexed(m, o)
<1>1. /\ m \in Manager /\ o \in Op /\ m.number[o] \in 1 .. m.next - 1
      /\ m.status[o] # "unborn" /\ m.next \in 1 .. n + 1
  BY ManagerType DEF Sane, Present
<1>2. /\ e.status = [m.status EXCEPT ![o] = "dropped"]
      /\ e.number = [p \in Op |-> IF p \in Present(m) /\ m.number[p] > m.number[o]
                                  THEN m.number[p] - 1 ELSE m.number[p]]
      /\ e.next = m.next - 1
      /\ e = [status |-> e.status, number |-> e.number, next |-> e.next]
  BY DEF RemovedAndReindexed
<1>3. /\ e.status[o] = "dropped"
      /\ \A p \in Op \ {o} : e.status[p] = m.status[p]
      /\ \A p \in Op : e.number[p] = IF p \in Present(m) /\ m.number[p] > m.number[o]
                                     THEN m.number[p] - 1 ELSE m.number[p]
      /\ e.next = m.next - 1
  BY <1>1, <1>2, ManagerType
<1>4. e \in Manager
  <2>1. e.status \in [Op -> Status]
    BY <1>1, <1>2, ManagerType DEF Status
  <2>2. \A p \in Op : e.number[p] \in 0 .. MaxOps
    <3> SUFFICES ASSUME NEW p \in Op PROVE e.number[p] \in 0 .. MaxOps
      OBVIOUS
    <3>1. m.number[p] \in 0 .. MaxOps /\ m.number[o] \in Nat
      BY <1>1, ManagerType
    <3> QED
      BY <1>3, <3>1, OpIsNat
  <2>3. e.number \in [Op -> 0 .. MaxOps]
    BY <1>2, <2>2
  <2>4. e.next \in 1 .. MaxOps + 1
    BY <1>1, <1>2, ManagerType, OpIsNat
  <2> QED
    BY <1>2, <2>1, <2>3, <2>4 DEF Manager
<1> HIDE DEF e
<1>5. /\ Born(e) = Born(m) /\ Present(e) = Present(m) \ {o}
      /\ Retryable(e) = Retryable(m) \ {o}
  BY <1>1, <1>3 DEF Born, Present, Retryable
<1>6. \A p \in Present(m) \ {o} : m.number[p] # m.number[o]
  <2> SUFFICES ASSUME NEW p \in Present(m) \ {o} PROVE m.number[p] # m.number[o]
    OBVIOUS
  <2>1. p < o \/ o < p
    BY <1>1, ManagerType, OpIsNat
  <2> QED
    BY <1>1, <2>1, ManagerType DEF Sane
<1>7. Sane(e, n)
  <2>1. \A p \in Present(e) : e.number[p] \in 1 .. e.next - 1
    <3> SUFFICES ASSUME NEW p \in Present(m) \ {o} PROVE e.number[p] \in 1 .. m.next - 2
      BY <1>1, <1>3, <1>5
    <3>1. p \in Op /\ m.number[p] \in 1 .. m.next - 1 /\ m.number[p] # m.number[o]
      BY <1>1, <1>6, ManagerType DEF Sane
    <3> QED
      BY <1>1, <1>3, <3>1, ManagerType
  <2>2. ASSUME NEW q \in Present(e), NEW p \in Born(e), q < p
        PROVE  e.number[q] < e.number[p]
    <3>1. /\ q \in Op /\ p \in Op /\ q \in Present(m) \ {o} /\ p \in Born(m)
          /\ m.number[q] \in Nat /\ m.number[p] \in Nat /\ m.number[o] \in Nat
      BY <1>1, <1>4, <1>5, ManagerType
    <3>2. m.number[q] < m.number[p] /\ m.number[q] # m.number[o]
      BY <1>6, <2>2, <3>1 DEF Sane
    <3> QED
      BY <1>3, <3>1, <3>2
  <2> QED
    BY <1>1, <1>3, <1>4, <1>5, <2>1, <2>2 DEF Sane
<1> QED
  BY <1>3, <1>5, <1>7 DEF e

LEMMA SaneRolledBack ==
    ASSUME NEW m, NEW n \in Nat, Sane(m, n), NEW o, IsLast(m, o)
    PROVE  LET e == RolledBack(m, o)
           IN  /\ Sane(e, n)
               /\ Born(e) = Born(m)
               /\ \A p \in Op : e.status[p] = IF p = o THEN "dropped" ELSE m.status[p]
<1> DEFINE e == RolledBack(m, o)
<1>1. /\ m \in Manager /\ o \in Present(m) /\ o \in Op /\ m.next \in 1 .. n + 1
      /\ m.number[o] = m.next - 1 /\ m.number[o] \in 1 .. m.next - 1
      /\ m.status[o] # "unborn"
  BY ManagerType DEF Sane, IsLast, Present
<1>2. m.next - 1 \in 1 .. MaxOps + 1
  BY <1>1, ManagerType, OpIsNat
<1>3. /\ e \in Manager /\ e.number = m.number /\ e.next = m.next - 1
      /\ e.status = [m.status EXCEPT ![o] = "dropped"]
  BY <1>1, <1>2 DEF RolledBack, Manager, Status
<1>4. \A p \in Op : e.status[p] = IF p = o THEN "dropped" ELSE m.status[p]
  BY <1>1, <1>3, ManagerType
<1> HIDE DEF e
<1>5. Born(e) = Born(m) /\ Present(e) = Present(m) \ {o}
  BY <1>1, <1>4 DEF Born, Present
<1>6. \A p \in Present(e) : e.number[p] \in 1 .. e.next - 1
  <2> SUFFICES ASSUME NEW p \in Present(m) \ {o} PROVE m.number[p] \in 1 .. m.next - 2
    BY <1>1, <1>3, <1>5
  <2>1. p \in Op /\ p \in Nat /\ o \in Nat /\ p \in Born(m) /\ o \in Born(m)
    BY <1>1, ManagerType, OpIsNat
  <2>2. m.number[p] \in 1 .. m.next - 1
    BY DEF Sane
  <2>3. m.number[p] # m.number[o]
    <3>1. CASE p < o
      BY <1>1, <2>1, <2>2, <3>1 DEF Sane
    <3>2. CASE o < p
      BY <1>1, <2>1, <2>2, <3>2 DEF Sane
    <3> QED
      BY <2>1, <3>1, <3>2
  <2> QED
    BY <1>1, <2>2, <2>3
<1>7. Sane(e, n)
  BY <1>1, <1>3, <1>5, <1>6 DEF Sane
<1> QED
  BY <1>4, <1>5, <1>7 DEF e

LEMMA LowestQueuedType ==
    ASSUME NEW m, NEW n \in Nat, Sane(m, n), MayDiscard(m)
    PROVE  /\ LowestQueued(m) \in {m.number[o] : o \in Queued(m)}
           /\ \A o \in Queued(m) : LowestQueued(m) <= m.number[o]
<1> DEFINE N == {m.number[o] : o \in Queued(m)}
<1>1. N \subseteq Nat /\ N # {}
  BY ManagerType DEF Sane, MayDiscard
<1>2. \E x \in N : \A o \in Queued(m) : x <= m.number[o]
  <2>1. \A o \in Queued(m) : m.number[o] \in N
    OBVIOUS
  <2> HIDE DEF N
  <2> QED
    BY <1>1, <2>1, SmallestOf
<1> QED
  BY <1>2 DEF LowestQueued

LEMMA SaneDiscarded ==
    ASSUME NEW m, NEW n \in Nat, Sane(m, n), MayDiscard(m)
    PROVE  LET e == Discarded(m)
           IN  /\ Sane(e, n)
               /\ Born(e) = Born(m)
               /\ \A p \in Op : e.status[p] = IF p \in Queued(m) THEN "dropped" ELSE m.status[p]
<1> DEFINE e == Discarded(m)
           k == LowestQueued(m)
<1>1. m \in Manager /\ m.next \in 1 .. n + 1
  BY ManagerType DEF Sane
<1>2. PICK q \in Queued(m) : k = m.number[q]
  BY LowestQueuedType
<1>3. q \in Op /\ q \in Present(m) /\ q \in Born(m) /\ k \in 1 .. m.next - 1
  BY <1>1, <1>2, ManagerType DEF Sane
<1>4. k \in 1 .. MaxOps + 1 /\ k <= n
  BY <1>1, <1>3, ManagerType, OpIsNat
<1> HIDE DEF k
<1>5. /\ e.status = [o \in Op |-> IF o \in Queued(m) THEN "dropped" ELSE m.status[o]]
      /\ e \in Manager /\ e.number = m.number /\ e.next = k
  <2>1. [o \in Op |-> IF o \in Queued(m) THEN "dropped" ELSE m.status[o]] \in [Op -> Status]
    BY <1>1, ManagerType DEF Status
  <2> QED
    BY <1>1, <1>4, <2>1 DEF Discarded, Manager, k
<1>6. \A p \in Op : e.status[p] = IF p \in Queued(m) THEN "dropped" ELSE m.status[p]
  BY <1>5
<1> HIDE DEF e
<1>7. Born(e) = Born(m) /\ Present(e) = Present(m) \ Queued(m)
  BY <1>6 DEF Born, Present, Queued
<1>8. \A p \in Present(e) : e.number[p] \in 1 .. e.next - 1
  <2> SUFFICES ASSUME NEW p \in Present(m) \ Queued(m) PROVE m.number[p] \in 1 .. k - 1
    BY <1>5, <1>7
  <2>1. /\ p \in Op /\ p \in Nat /\ q \in Nat /\ p # q /\ p \in Born(m)
        /\ m.number[p] \in 1 .. m.next - 1
    BY <1>1, <1>2, <1>3, ManagerType, OpIsNat DEF Sane
  <2>2. m.number[p] <= k
    BY DEF MayDiscard, k
  <2>3. m.number[p] # k
    <3>1. CASE p < q
      BY <1>1, <1>2, <1>3, <2>1, <3>1 DEF Sane
    <3>2. CASE q < p
      BY <1>1, <1>2, <1>3, <2>1, <3>2 DEF Sane
    <3> QED
      BY <2>1, <3>1, <3>2
  <2> QED
    BY <1>3, <2>1, <2>2, <2>3
<1>9. Sane(e, n)
  BY <1>1, <1>3, <1>4, <1>5, <1>7, <1>8 DEF Sane
<1> QED
  BY <1>6, <1>7, <1>9 DEF e

LEMMA LoadedIsSame ==
    ASSUME NEW m, NEW n \in Nat, Sane(m, n)
    PROVE  Loaded(m) = m
<1>1. \A o \in Present(m) : m.number[o] \in Nat /\ m.number[o] < m.next
  <2>1. \A o \in Present(m) : m.number[o] \in 1 .. m.next - 1 /\ m.next \in Nat
    BY ManagerType DEF Sane
  <2> QED
    BY <2>1
<1>2. m.next \in 1 .. MaxOps + 1
  BY ManagerType DEF Sane
<1> QED
  BY <1>1, <1>2 DEF Loaded

\* What flushOutbox sends is the lowest of what it may send, if there is any.
LEMMA ChosenIsLowest ==
    ASSUME NEW m \in Manager, NEW ready
    PROVE  /\ Candidates(m) \subseteq Retryable(m)
           /\ \/ Chosen(m, ready) = {}
              \/ ready /\ \E o \in Candidates(m) :
                    Chosen(m, ready) = {o} /\ \A p \in Candidates(m) : m.number[o] <= m.number[p]
<1> DEFINE S == Candidates(m)
<1>1. S \subseteq Retryable(m)
  BY ManagerType DEF Candidates
<1>2. ASSUME S # {}
      PROVE  \E o \in S : \A p \in S : m.number[o] <= m.number[p]
  <2>1. {m.number[o] : o \in S} \subseteq Nat /\ {m.number[o] : o \in S} # {}
    BY <1>1, <1>2, ManagerType
  <2> HIDE DEF S
  <2>2. PICK x \in {m.number[o] : o \in S} : \A y \in {m.number[o] : o \in S} : x <= y
    BY <2>1, SmallestOf
  <2> QED
    BY <2>2
<1> HIDE DEF S
<1>3. ASSUME S # {}
      PROVE  /\ Lowest(S, m) \in S
             /\ \A p \in S : m.number[Lowest(S, m)] <= m.number[p]
  BY <1>2, <1>3 DEF Lowest
<1> QED
  BY <1>1, <1>3 DEF Chosen, S

LEMMA SaneFlushed ==
    ASSUME NEW m, NEW n \in Nat, Sane(m, n), NEW ready
    PROVE  LET e == Flushed(m, ready)
           IN  /\ Sane(e, n)
               /\ e.number = m.number /\ e.next = m.next
               /\ Born(e) = Born(m) /\ Present(e) = Present(m) /\ Retryable(e) = Retryable(m)
               /\ \A p \in Op : e.status[p] = IF p \in Chosen(m, ready) THEN "inflight" ELSE m.status[p]
<1> DEFINE e == Flushed(m, ready)
<1>1. m \in Manager /\ Chosen(m, ready) \subseteq Retryable(m)
  BY ChosenIsLowest DEF Sane
<1>2. /\ e.status = [o \in Op |-> IF o \in Chosen(m, ready) THEN "inflight" ELSE m.status[o]]
      /\ e \in Manager /\ e.number = m.number /\ e.next = m.next
  <2>1. [o \in Op |-> IF o \in Chosen(m, ready) THEN "inflight" ELSE m.status[o]] \in [Op -> Status]
    BY <1>1, ManagerType DEF Status
  <2> QED
    BY <1>1, <2>1 DEF Flushed, Manager
<1>3. \A p \in Op : e.status[p] = IF p \in Chosen(m, ready) THEN "inflight" ELSE m.status[p]
  BY <1>2
<1> HIDE DEF e
<1>4. Born(e) = Born(m) /\ Present(e) = Present(m) /\ Retryable(e) = Retryable(m)
  BY <1>1, <1>3 DEF Born, Present, Retryable
<1>5. Sane(e, n)
  BY <1>2, <1>4, SaneStatus
<1> QED
  BY <1>2, <1>3, <1>4, <1>5 DEF e

\* What pushForced does with an operation that was not consumed.
LEMMA SaneUnforced ==
    ASSUME NEW m, NEW n \in Nat, Sane(m, n), NEW o
    PROVE  LET e == Unforced(m, o)
           IN  /\ Sane(e, n)
               /\ Born(e) = Born(m)
               /\ \A p \in Op : e.status[p] = m.status[p] \/ e.status[p] \in {"dropped", "rejected"}
BY SaneRolledBack, SaneWithStatus DEF Unforced, Status

LEMMA SaneAcknowledged ==
    ASSUME NEW m, NEW n \in Nat, Sane(m, n), NEW r
    PROVE  LET e == Acknowledged(m, r)
           IN  /\ Sane(e, n)
               /\ e.number = m.number /\ e.next = m.next /\ Born(e) = Born(m)
               /\ Present(e) \subseteq Present(m)
               /\ \A p \in Op : e.status[p] = IF p = r.op /\ r.op \in Present(m)
                                               THEN (IF r.type = "ack" THEN "acked" ELSE "conflicted")
                                               ELSE m.status[p]
BY SaneWithStatus DEF Acknowledged, Status

-----------------------------------------------------------------------------
(***************************************************************************)
(* Types.                                                                  *)
(***************************************************************************)
OpOrNone == 0 .. MaxOps

SaveRecord == [outbox : Manager, then : {"nothing", "flush", "send"}, op : OpOrNone]

Message == [op : Op, number : Nat]

Answer == [type : {"ack", "conflict", "refuse", "retry"}, op : Op]

Row == [op : Op, conflict : BOOLEAN]

\* The outbox and what may come to be the outbox again.
Copies == {memory, disk} \cup {saving[i].outbox : i \in DOMAIN saving}

OutboxTypeOK ==
    /\ user \in Users
    /\ issued \in 0 .. user.ops
    /\ \A m \in Copies : Sane(m, issued)
    /\ saving \in Seq(SaveRecord)
    /\ phase \in {"down", "open", "ready", "closing"}
    /\ link \in 0 .. MaxLinks
    /\ pending \in Seq(Op)
    /\ arriving \in [1 .. MaxLinks -> Seq(Message)]
    /\ replies \in Seq(Answer)
    /\ stream \in Seq(Row)
    /\ forcing \in BOOLEAN
    /\ forced \in 0 .. issued
    /\ waiter \in BOOLEAN
    /\ crashes \in 0 .. user.restarts

\* A connection that was opened has a number, and one that may have to be replaced is
\* not the last.
LinksOK ==
    /\ phase \in {"down", "closing"} => link < MaxLinks
    /\ phase # "down" => link > 0

\* At most one save is followed by the sending of a forced operation.
OneSend(s) == \A i, j \in DOMAIN s : s[i].then = "send" /\ s[j].then = "send" => i = j

\* pushForced is at one of its awaits: of the save of its operation, or of the answer.
ForcedOK ==
    /\ forcing \/ forced # 0 => user.forces
    /\ waiter => forced # 0
    /\ \A i \in DOMAIN saving : saving[i].then = "send" => forced # 0 /\ ~waiter
    /\ OneSend(saving)

TypeInv == OutboxTypeOK /\ LinksOK /\ ForcedOK

\* What a step does to the outbox in memory.
MemoryStep ==
    \/ UNCHANGED <<memory, issued>>
    \/ issued < user.ops /\ issued' = issued + 1 /\ memory' = Enqueued(memory, issued + 1)
    \/ /\ UNCHANGED issued
       /\ \/ \E i \in DOMAIN replies :
                \/ /\ replies[i].type \in {"ack", "conflict"}
                   /\ memory' = Acknowledged(memory, replies[i])
                \/ replies[i].type = "retry" /\ memory' = Requeued(memory, replies[i].op)
                \/ /\ replies[i].type = "refuse"
                   /\ memory' = RemovedAndReindexed(memory, replies[i].op)
          \/ \E ready \in BOOLEAN : memory' = Flushed(memory, ready)
          \/ /\ user.forces
             /\ \/ memory' = Unforced(memory, forced)
                \/ memory' = WithStatus(memory, forced, "inflight")
                \/ MayDiscard(memory) /\ memory' = Discarded(memory)
          \/ Restart

LEMMA MemoryCases ==
    ASSUME TypeInv, Next
    PROVE  MemoryStep
<1> USE DEF MemoryStep
<1>1. WriteReady \in BOOLEAN /\ TRUE \in BOOLEAN
  BY DEF WriteReady
<1>2. replies # <<>> => 1 \in DOMAIN replies /\ Head(replies) = replies[1]
  <2>1. replies \in Seq(Answer)
    BY DEF TypeInv, OutboxTypeOK
  <2> QED
    BY <2>1, EmptySeq, LenProperties
<1>3. CASE Plugin
  <2>1. CASE HandleAck
    BY <1>2, <2>1 DEF HandleAck
  <2>2. CASE HandleForcedReject
    <3>1. user.forces
      BY <2>2 DEF HandleForcedReject, TypeInv, ForcedOK
    <3> QED
      BY <2>2, <3>1 DEF HandleForcedReject
  <2>3. CASE HandleReject
    BY <1>2, <2>3 DEF HandleReject
  <2>4. CASE Saved
    BY <2>4 DEF Saved, SaveLands
  <2>5. CASE SavedThenFlush
    BY <1>1, <2>5 DEF SavedThenFlush, SaveLands, Flush
  <2>6. ASSUME SaveLands("send")
        PROVE  user.forces /\ issued' = issued
    <3>1. saving \in Seq(SaveRecord) /\ saving # <<>> /\ Head(saving).then = "send"
      BY <2>6 DEF SaveLands, TypeInv, OutboxTypeOK
    <3>2. 1 \in DOMAIN saving /\ saving[1].then = "send"
      BY <3>1, EmptySeq, LenProperties
    <3> QED
      BY <2>6, <3>2 DEF SaveLands, TypeInv, ForcedOK
  <2>7. CASE SavedThenSend
    BY <2>6, <2>7 DEF SavedThenSend
  <2>8. CASE SavedThenNotReady
    BY <2>6, <2>8 DEF SavedThenNotReady
  <2> QED
    BY <1>3, <2>1, <2>2, <2>3, <2>4, <2>5, <2>7, <2>8 DEF Plugin
<1>4. CASE User
  BY <1>4 DEF User, EnqueueLocalChange, StartForcePush, PushForced, EndForcePush,
              DiscardUnsent, ForceTimesOut, client
<1>5. CASE Links
  BY <1>1, <1>5 DEF Links, Connect, FinishHandshake, SocketClosed, Flush, client
<1>6. CASE Faults
  BY <1>6 DEF Faults, Drop, Restart, client
<1>7. CASE \E n \in 1 .. MaxLinks : Serve(n)
  BY <1>7 DEF Serve, client
<1> QED
  BY <1>3, <1>4, <1>5, <1>6, <1>7 DEF Next

LEMMA IssuedType ==
    ASSUME TypeInv
    PROVE  /\ issued \in Nat /\ user.ops \in Nat /\ issued <= user.ops /\ user.ops <= MaxOps
           /\ user.restarts \in Nat
           /\ Sane(memory, issued) /\ Sane(disk, issued)
           /\ memory \in Manager /\ disk \in Manager
<1>1. user.ops \in 0 .. MaxOps /\ user.restarts \in Nat
  BY OutboxAssumption DEF TypeInv, OutboxTypeOK
<1>2. Sane(memory, issued) /\ Sane(disk, issued)
  BY DEF TypeInv, OutboxTypeOK, Copies
<1> QED
  BY <1>1, <1>2, OpIsNat DEF TypeInv, OutboxTypeOK, Sane

LEMMA MemoryStaysSane ==
    ASSUME TypeInv, MemoryStep
    PROVE  Sane(memory', issued') /\ issued' \in {issued, issued + 1} /\ issued' <= user.ops
<1>1. issued \in Nat /\ Sane(memory, issued) /\ Sane(disk, issued) /\ memory \in Manager
      /\ issued <= user.ops /\ user.ops <= MaxOps /\ user.ops \in Nat
  BY IssuedType
<1>2. CASE issued < user.ops /\ issued' = issued + 1 /\ memory' = Enqueued(memory, issued + 1)
  <2>1. issued < MaxOps
    BY <1>1, <1>2, OpIsNat
  <2> QED
    BY <1>1, <1>2, <2>1, SaneEnqueued
<1>3. ASSUME issued' = issued, NEW i \in DOMAIN replies,
             \/ memory' = Acknowledged(memory, replies[i])
             \/ memory' = Requeued(memory, replies[i].op)
             \/ memory' = RemovedAndReindexed(memory, replies[i].op)
      PROVE  Sane(memory', issued')
  <2>1. CASE memory' = Acknowledged(memory, replies[i])
    BY <1>1, <1>3, <2>1, SaneAcknowledged
  <2>2. CASE memory' = Requeued(memory, replies[i].op)
    BY <1>1, <1>3, <2>2, SaneWithStatus DEF Requeued, Status
  <2>3. CASE memory' = RemovedAndReindexed(memory, replies[i].op)
    <3>1. CASE replies[i].op \in Present(memory)
      BY <1>1, <1>3, <2>3, <3>1, SaneReindexed
    <3>2. CASE replies[i].op \notin Present(memory)
      BY <1>1, <1>3, <2>3, <3>2 DEF RemovedAndReindexed
    <3> QED
      BY <3>1, <3>2
  <2> QED
    BY <1>3, <2>1, <2>2, <2>3
<1>4. ASSUME issued' = issued,
             \/ \E ready \in BOOLEAN : memory' = Flushed(memory, ready)
             \/ memory' = Unforced(memory, forced)
             \/ memory' = WithStatus(memory, forced, "inflight")
             \/ MayDiscard(memory) /\ memory' = Discarded(memory)
             \/ memory' = Loaded(disk)
      PROVE  Sane(memory', issued')
  BY <1>1, <1>4, SaneFlushed, SaneUnforced, SaneWithStatus, SaneDiscarded, LoadedIsSame DEF Status
<1> QED
  BY <1>1, <1>2, <1>3, <1>4 DEF MemoryStep, Restart

\* What a step does to the saves and the disk: a handler saves the outbox in memory.
SavingStep ==
    \E x \in Seq(SaveRecord) :
        /\ \A i \in DOMAIN x : x[i].outbox = memory' /\ (x[i].then = "send" => PushForced)
        /\ \/ saving' = saving \o x /\ UNCHANGED disk
           \/ /\ saving # <<>>
              /\ disk' = Head(saving).outbox /\ saving' = Tail(saving) \o x
           \/ saving' = <<>> /\ UNCHANGED disk

LEMMA SavingCases ==
    ASSUME TypeInv, Next
    PROVE  SavingStep
<1> DEFINE Extra(x) ==
              /\ x \in Seq(SaveRecord)
              /\ \A i \in DOMAIN x : x[i].outbox = memory' /\ (x[i].then = "send" => PushForced)
<1>1. memory' \in Manager /\ issued' \in 0 .. MaxOps /\ issued \in Nat
  BY MemoryCases, MemoryStaysSane, IssuedType, OpIsNat DEF Sane
<1>2. saving \in Seq(SaveRecord) /\ replies \in Seq(Answer)
  BY DEF TypeInv, OutboxTypeOK
<1>3. ASSUME NEW then \in {"nothing", "flush", "send"}, NEW o \in OpOrNone,
             then = "send" => PushForced
      PROVE  /\ Extra(<<[outbox |-> memory', then |-> then, op |-> o]>>)
             /\ Append(saving, [outbox |-> memory', then |-> then, op |-> o])
                  = saving \o <<[outbox |-> memory', then |-> then, op |-> o]>>
  <2>1. [outbox |-> memory', then |-> then, op |-> o] \in SaveRecord
    BY <1>1 DEF SaveRecord
  <2> QED
    BY <1>2, <1>3, <2>1, AppendIsConcat
<1>4. Extra(<<>>) /\ saving \o <<>> = saving
  BY <1>2, ConcatEmptySeq, EmptySeq
<1>5. ASSUME NEW x, Extra(x), saving' = saving \o x, disk' = disk
      PROVE  SavingStep
  BY <1>5 DEF SavingStep
<1>6. ASSUME NEW x, Extra(x), saving # <<>>, saving' = Tail(saving) \o x,
             disk' = Head(saving).outbox
      PROVE  SavingStep
  BY <1>6 DEF SavingStep
<1>7. ASSUME NEW m, m = memory', NEW then \in {"nothing", "flush"}, NEW o \in OpOrNone,
             saving' = Save(m, then, o), disk' = disk
      PROVE  SavingStep
  BY <1>3, <1>5, <1>7 DEF Save
<1>8. ASSUME UNCHANGED <<saving, disk>>
      PROVE  SavingStep
  BY <1>4, <1>5, <1>8
<1>9. 0 \in OpOrNone /\ \A o \in Op : o \in OpOrNone
  BY OpIsNat DEF OpOrNone, Op
<1>10. replies # <<>> => Head(replies).op \in OpOrNone
  <2>1. replies # <<>> => Head(replies) \in Answer
    BY <1>2, HeadTailProperties
  <2> QED
    BY <1>9, <2>1 DEF Answer
<1>11. ASSUME NEW m, NEW ready, memory' = Flushed(m, ready)
       PROVE  Extra(FlushSaves(m, ready))
  BY <1>3, <1>4, <1>9, <1>11 DEF FlushSaves
<1>12. saving # <<>> => /\ Tail(saving) \in Seq(SaveRecord)
                        /\ Tail(saving) \o <<>> = Tail(saving)
  BY <1>2, HeadTailProperties, ConcatEmptySeq
<1> HIDE DEF Extra
<1>13. CASE Plugin
  <2>1. CASE HandleAck
    BY <1>7, <1>10, <2>1 DEF HandleAck
  <2>2. CASE HandleForcedReject
    BY <1>7, <1>9, <2>2 DEF HandleForcedReject
  <2>3. CASE HandleReject
    BY <1>7, <1>9, <2>3 DEF HandleReject
  <2>4. CASE Saved
    BY <1>4, <1>6, <1>12, <2>4 DEF Saved, SaveLands
  <2>5. CASE SavedThenFlush
    <3> DEFINE A == FlushSaves(memory, WriteReady)
               answered == waiter /\ Head(saving).op = forced
               B == IF answered THEN <<[outbox |-> memory', then |-> "nothing", op |-> 0]>>
                    ELSE <<>>
    <3>1. Extra(A)
      BY <1>11, <2>5 DEF SavedThenFlush, Flush
    <3>2. Extra(B)
      BY <1>3, <1>4, <1>9
    <3>3. saving # <<>> /\ saving' = (Tail(saving) \o A) \o B /\ disk' = Head(saving).outbox
      BY <2>5 DEF SavedThenFlush, SaveLands
    <3> HIDE DEF A, B
    <3>4. (Tail(saving) \o A) \o B = Tail(saving) \o (A \o B)
      <4>1. /\ Tail(saving) \in Seq(SaveRecord)
            /\ A \in Seq(SaveRecord) /\ B \in Seq(SaveRecord)
        BY <1>12, <3>1, <3>2, <3>3 DEF Extra
      <4> QED
        BY <4>1, ConcatAssociative
    <3>5. Extra(A \o B)
      <4>1. /\ A \o B \in Seq(SaveRecord) /\ Len(A) \in Nat /\ Len(B) \in Nat
            /\ DOMAIN A = 1 .. Len(A) /\ DOMAIN B = 1 .. Len(B)
            /\ DOMAIN (A \o B) = 1 .. Len(A) + Len(B)
            /\ \A i \in 1 .. Len(A) + Len(B) :
                  (A \o B)[i] = IF i <= Len(A) THEN A[i] ELSE B[i - Len(A)]
        BY <3>1, <3>2, ConcatProperties, LenProperties DEF Extra
      <4>2. \A i \in 1 .. Len(A) + Len(B) : i <= Len(A) => i \in DOMAIN A
        BY <4>1
      <4>3. \A i \in 1 .. Len(A) + Len(B) : ~(i <= Len(A)) => i - Len(A) \in DOMAIN B
        BY <4>1
      <4> QED
        BY <3>1, <3>2, <4>1, <4>2, <4>3 DEF Extra
    <3> QED
      BY <1>6, <3>3, <3>4, <3>5
  <2>6. CASE SavedThenSend
    BY <1>4, <1>6, <1>12, <2>6 DEF SavedThenSend, SaveLands
  <2>7. CASE SavedThenNotReady
    <3> DEFINE r == [outbox |-> memory', then |-> "nothing", op |-> 0]
    <3>1. /\ saving # <<>> /\ saving' = Append(Tail(saving), r)
          /\ disk' = Head(saving).outbox
      BY <2>7 DEF SavedThenNotReady, SaveLands
    <3>2. Extra(<<r>>) /\ r \in SaveRecord
      BY <1>1, <1>3, <1>9 DEF SaveRecord
    <3>3. Append(Tail(saving), r) = Tail(saving) \o <<r>>
      BY <1>12, <3>1, <3>2, AppendIsConcat
    <3> QED
      BY <1>6, <3>1, <3>2, <3>3
  <2> QED
    BY <1>13, <2>1, <2>2, <2>3, <2>4, <2>5, <2>6, <2>7 DEF Plugin
<1>14. CASE User
  <2>1. CASE EnqueueLocalChange
    BY <1>7, <1>9, <2>1 DEF EnqueueLocalChange
  <2>2. CASE PushForced
    <3>1. issued + 1 \in OpOrNone
      BY <1>1, <2>2, IssuedType, OpIsNat DEF PushForced, OpOrNone
    <3>2. disk' = disk /\ saving' = Save(memory', "send", issued + 1)
      BY <2>2 DEF PushForced
    <3> QED
      BY <1>3, <1>5, <2>2, <3>1, <3>2 DEF Save
  <2>3. CASE DiscardUnsent
    BY <1>7, <1>9, <2>3 DEF DiscardUnsent
  <2>4. CASE ForceTimesOut
    <3>1. memory' = memory /\ saving' = Save(memory, "nothing", 0) /\ disk' = disk
      BY <2>4 DEF ForceTimesOut
    <3> QED
      BY <1>7, <1>9, <3>1
  <2>5. CASE StartForcePush \/ EndForcePush
    BY <1>8, <2>5 DEF StartForcePush, EndForcePush, client
  <2> QED
    BY <1>14, <2>1, <2>2, <2>3, <2>4, <2>5 DEF User
<1>15. CASE Links
  <2>1. CASE FinishHandshake
    BY <1>5, <1>11, <2>1 DEF FinishHandshake, Flush
  <2>2. CASE Connect \/ SocketClosed
    BY <1>8, <2>2 DEF Connect, SocketClosed, client
  <2> QED
    BY <1>15, <2>1, <2>2 DEF Links
<1>16. CASE Faults
  <2>1. CASE Drop
    BY <1>8, <2>1 DEF Drop, client
  <2>2. CASE Restart
    BY <1>4, <2>2 DEF Restart, SavingStep, Extra
  <2> QED
    BY <1>16, <2>1, <2>2 DEF Faults
<1>17. CASE \E n \in 1 .. MaxLinks : Serve(n)
  BY <1>8, <1>17 DEF Serve, client
<1> QED
  BY <1>13, <1>14, <1>15, <1>16, <1>17 DEF Next

\* The saves that follow a step are old ones, or of the outbox in memory.
Followed(s, x, t) == t = s \o x \/ (s # <<>> /\ t = Tail(s) \o x)

LEMMA SavesAfter ==
    ASSUME NEW s \in Seq(SaveRecord), NEW x \in Seq(SaveRecord), NEW t, Followed(s, x, t)
    PROVE  /\ t \in Seq(SaveRecord)
           /\ \E d \in {0, 1} :
                 /\ t = Tail(s) \o x /\ s # <<>> => d = 1
                 /\ \A i \in DOMAIN t : \/ i + d \in DOMAIN s /\ t[i] = s[i + d]
                                        \/ \E j \in DOMAIN x : t[i] = x[j]
<1>0. Len(s) \in Nat /\ DOMAIN s = 1 .. Len(s)
  BY LenProperties
<1>1. PICK d \in {0, 1}, u \in Seq(SaveRecord) :
          /\ t = u \o x /\ Len(u) = Len(s) - d /\ \A i \in 1 .. Len(u) : u[i] = s[i + d]
          /\ t = Tail(s) \o x /\ s # <<>> => d = 1
  <2>1. CASE s # <<>> /\ t = Tail(s) \o x
    BY <2>1, HeadTailProperties
  <2>2. CASE t = s \o x /\ ~(s # <<>> /\ t = Tail(s) \o x)
    <3>1. Len(s) = Len(s) - 0 /\ \A i \in 1 .. Len(s) : s[i] = s[i + 0]
      BY <1>0
    <3> QED
      BY <2>2, <3>1
  <2> QED
    BY <2>1, <2>2 DEF Followed
<1>2. /\ Len(u) \in Nat /\ Len(x) \in Nat /\ DOMAIN x = 1 .. Len(x)
      /\ DOMAIN t = 1 .. Len(u) + Len(x) /\ t \in Seq(SaveRecord)
      /\ \A i \in 1 .. Len(u) + Len(x) : t[i] = IF i <= Len(u) THEN u[i] ELSE x[i - Len(u)]
  <2>1. Len(u) \in Nat /\ Len(x) \in Nat /\ DOMAIN x = 1 .. Len(x)
    BY LenProperties
  <2>2. /\ u \o x \in Seq(SaveRecord) /\ Len(u \o x) = Len(u) + Len(x)
        /\ \A i \in 1 .. Len(u) + Len(x) :
              (u \o x)[i] = IF i <= Len(u) THEN u[i] ELSE x[i - Len(u)]
    BY ConcatProperties
  <2>3. DOMAIN (u \o x) = 1 .. Len(u \o x)
    BY <2>2, LenProperties
  <2> QED
    BY <1>1, <2>1, <2>2, <2>3
<1>3. ASSUME NEW i \in 1 .. Len(u) + Len(x)
      PROVE  \/ i + d \in DOMAIN s /\ t[i] = s[i + d]
             \/ \E j \in DOMAIN x : t[i] = x[j]
  <2>1. CASE i <= Len(u)
    BY <1>0, <1>1, <1>2, <2>1
  <2>2. CASE ~(i <= Len(u))
    <3>1. i - Len(u) \in DOMAIN x /\ t[i] = x[i - Len(u)]
      BY <1>2, <2>2
    <3> QED
      BY <3>1
  <2> QED
    BY <2>1, <2>2
<1>4. \A i \in DOMAIN t : \/ i + d \in DOMAIN s /\ t[i] = s[i + d]
                          \/ \E j \in DOMAIN x : t[i] = x[j]
  BY <1>2, <1>3
<1> QED
  BY <1>1, <1>2, <1>4

LEMMA SendsAfter ==
    ASSUME NEW s \in Seq(SaveRecord), NEW x \in Seq(SaveRecord), NEW t, Followed(s, x, t),
           OneSend(s), \A j \in DOMAIN x : x[j].then # "send"
    PROVE  /\ OneSend(t)
           /\ t = Tail(s) \o x /\ s # <<>> /\ s[1].then = "send"
                 => \A i \in DOMAIN t : t[i].then # "send"
           /\ \A i \in DOMAIN t : t[i].then = "send" => \E j \in DOMAIN s : s[j].then = "send"
<1>1. PICK d \in {0, 1} :
          /\ t = Tail(s) \o x /\ s # <<>> => d = 1
          /\ \A i \in DOMAIN t : \/ i + d \in DOMAIN s /\ t[i] = s[i + d]
                                 \/ \E j \in DOMAIN x : t[i] = x[j]
  BY SavesAfter
<1>2. t \in Seq(SaveRecord)
  BY SavesAfter
<1>3. /\ DOMAIN t \subseteq Nat \ {0}
      /\ s # <<>> => 1 \in DOMAIN s
  BY <1>2, LenProperties, EmptySeq
<1>4. \A i \in DOMAIN t : t[i].then = "send" => i + d \in DOMAIN s /\ s[i + d].then = "send"
  BY <1>1
<1>5. OneSend(t)
  <2> SUFFICES ASSUME NEW i \in DOMAIN t, NEW j \in DOMAIN t,
                      t[i].then = "send", t[j].then = "send"
               PROVE  i = j
    BY DEF OneSend
  <2>1. i + d = j + d /\ i \in Nat /\ j \in Nat /\ d \in Nat
    BY <1>3, <1>4 DEF OneSend
  <2> QED
    BY <2>1
<1>6. ASSUME t = Tail(s) \o x, s # <<>>, s[1].then = "send", NEW i \in DOMAIN t,
             t[i].then = "send"
      PROVE  FALSE
  <2>1. i + 1 \in DOMAIN s /\ s[i + 1].then = "send" /\ 1 \in DOMAIN s
    BY <1>1, <1>3, <1>4, <1>6
  <2>2. i + 1 = 1 /\ i \in Nat \ {0}
    BY <1>3, <1>6, <2>1 DEF OneSend
  <2> QED
    BY <2>2
<1> QED
  BY <1>4, <1>5, <1>6

LEMMA CopiesStep ==
    ASSUME TypeInv, Next
    PROVE  /\ Copies' \subseteq Copies \cup {memory'}
           /\ memory' \in Copies'
           /\ saving' \in Seq(SaveRecord)
<1> DEFINE Outboxes(s) == {s[i].outbox : i \in DOMAIN s}
<1>1. saving \in Seq(SaveRecord) /\ Copies = {memory, disk} \cup Outboxes(saving)
      /\ Copies' = {memory', disk'} \cup Outboxes(saving')
  BY DEF TypeInv, OutboxTypeOK, Copies
<1>2. PICK x \in Seq(SaveRecord) :
          /\ \A i \in DOMAIN x : x[i].outbox = memory' /\ (x[i].then = "send" => PushForced)
          /\ \/ saving' = saving \o x /\ UNCHANGED disk
             \/ /\ saving # <<>>
                /\ disk' = Head(saving).outbox /\ saving' = Tail(saving) \o x
             \/ saving' = <<>> /\ UNCHANGED disk
  BY SavingCases DEF SavingStep
<1>3. saving # <<>> => Head(saving).outbox \in Outboxes(saving)
  <2>1. saving # <<>> => 1 \in DOMAIN saving /\ Head(saving) = saving[1]
    BY <1>1, EmptySeq, LenProperties
  <2> QED
    BY <2>1
<1>4. disk' \in Copies
  BY <1>1, <1>2, <1>3
<1>5. saving' \in Seq(SaveRecord) /\ Outboxes(saving') \subseteq Outboxes(saving) \cup {memory'}
  <2>1. CASE saving' = <<>>
    BY <2>1, EmptySeq
  <2>2. CASE Followed(saving, x, saving')
    <3>1. saving \in Seq(SaveRecord)
      BY <1>1
    <3>2. saving' \in Seq(SaveRecord)
      BY <2>2, <3>1, SavesAfter
    <3>3. PICK d \in {0, 1} :
              \A i \in DOMAIN saving' : \/ /\ i + d \in DOMAIN saving
                                           /\ saving'[i] = saving[i + d]
                                        \/ \E j \in DOMAIN x : saving'[i] = x[j]
      BY <2>2, <3>1, SavesAfter
    <3> QED
      BY <1>2, <3>2, <3>3
  <2> QED
    BY <1>2, <2>1, <2>2 DEF Followed
<1> HIDE DEF Outboxes
<1> QED
  BY <1>1, <1>4, <1>5

LEMMA SaneLater ==
    ASSUME NEW m, NEW n \in Nat, Sane(m, n)
    PROVE  Sane(m, n + 1)
<1>1. m.next \in Nat /\ \A o \in Born(m) : o \in Nat
  BY ManagerType, OpIsNat DEF Sane
<1> QED
  BY <1>1 DEF Sane

LEMMA CopiesStaySane ==
    ASSUME TypeInv, Next
    PROVE  /\ \A m \in Copies' : Sane(m, issued')
           /\ issued' \in 0 .. user.ops
<1>1. Sane(memory', issued') /\ issued' \in {issued, issued + 1} /\ issued' <= user.ops
  BY MemoryCases, MemoryStaysSane
<1>2. \A m \in Copies : Sane(m, issued')
  BY <1>1, IssuedType, SaneLater DEF TypeInv, OutboxTypeOK
<1> QED
  BY <1>1, <1>2, CopiesStep, IssuedType

NetworkTypeOK ==
    /\ phase \in {"down", "open", "ready", "closing"}
    /\ link \in 0 .. MaxLinks
    /\ pending \in Seq(Op)
    /\ arriving \in [1 .. MaxLinks -> Seq(Message)]
    /\ replies \in Seq(Answer)
    /\ stream \in Seq(Row)

LEMMA MessageType ==
    ASSUME NEW o \in Op, NEW m \in Manager
    PROVE  [op |-> o, number |-> m.number[o]] \in Message
BY ManagerType DEF Message

LEMMA TransmitType ==
    ASSUME TypeInv, phase # "down", NEW o \in Op, NEW m \in Manager, Transmit(o, m)
    PROVE  /\ pending' \in Seq(Op) /\ arriving' \in [1 .. MaxLinks -> Seq(Message)]
<1>1. /\ pending \in Seq(Op) /\ arriving \in [1 .. MaxLinks -> Seq(Message)]
      /\ link \in 1 .. MaxLinks /\ arriving[link] \in Seq(Message)
  BY OpIsNat DEF TypeInv, OutboxTypeOK, LinksOK
<1>2. Append(pending, o) \in Seq(Op)
  BY <1>1, AppendProperties
<1>3. Append(arriving[link], [op |-> o, number |-> m.number[o]]) \in Seq(Message)
  BY <1>1, MessageType, AppendProperties
<1> QED
  BY <1>1, <1>2, <1>3 DEF Transmit, Sent

LEMMA FlushType ==
    ASSUME TypeInv, NEW ready, ready => phase # "down", Flush(ready)
    PROVE  /\ pending' \in Seq(Op) /\ arriving' \in [1 .. MaxLinks -> Seq(Message)]
<1>1. memory \in Manager
  BY IssuedType
<1>2. CASE Chosen(memory, ready) = {}
  BY <1>2 DEF Flush, TypeInv, OutboxTypeOK
<1>3. CASE Chosen(memory, ready) # {}
  <2>1. PICK o \in Op : ready /\ Chosen(memory, ready) = {o}
    BY <1>1, <1>3, ChosenIsLowest, ManagerType
  <2>2. Transmit(o, memory)
    BY <2>1 DEF Flush
  <2> QED
    BY <1>1, <2>1, <2>2, TransmitType
<1> QED
  BY <1>2, <1>3

LEMMA PluginTypes ==
    ASSUME TypeInv, Plugin
    PROVE  NetworkTypeOK' /\ UNCHANGED <<phase, link, crashes>>
<1>1. NetworkTypeOK /\ replies \in Seq(Answer)
  BY DEF TypeInv, OutboxTypeOK, NetworkTypeOK
<1>2. replies # <<>> => Tail(replies) \in Seq(Answer)
  BY <1>1, HeadTailProperties
<1>3. CASE HandleAck \/ HandleForcedReject \/ HandleReject
  BY <1>1, <1>2, <1>3 DEF HandleAck, HandleForcedReject, HandleReject, NetworkTypeOK
<1>4. CASE Saved
  BY <1>1, <1>4 DEF Saved, SaveLands, NetworkTypeOK
<1>5. CASE SavedThenFlush
  <2>1. WriteReady => phase # "down"
    BY DEF WriteReady
  <2>2. pending' \in Seq(Op) /\ arriving' \in [1 .. MaxLinks -> Seq(Message)]
    BY <1>5, <2>1, FlushType DEF SavedThenFlush
  <2> QED
    BY <1>1, <1>5, <2>2 DEF SavedThenFlush, SaveLands, NetworkTypeOK
<1>6. CASE SavedThenSend
  <2> DEFINE m == WithStatus(memory, forced, "inflight")
  <2>1. saving # <<>> /\ Head(saving).then = "send" /\ saving \in Seq(SaveRecord)
    BY <1>6 DEF SavedThenSend, SaveLands, TypeInv, OutboxTypeOK
  <2>2. 1 \in DOMAIN saving /\ saving[1].then = "send"
    BY <2>1, EmptySeq, LenProperties
  <2>3. forced # 0 /\ forced \in 0 .. issued
    BY <2>2 DEF TypeInv, OutboxTypeOK, ForcedOK
  <2>4. forced \in Op
    BY <2>3, IssuedType, OpIsNat DEF Op
  <2>5. m \in Manager
    BY IssuedType, SaneWithStatus DEF Sane, Status
  <2>6. phase # "down" /\ Transmit(forced, m)
    BY <1>6 DEF SavedThenSend, WriteReady
  <2> QED
    BY <1>1, <1>6, <2>4, <2>5, <2>6, TransmitType DEF SavedThenSend, SaveLands, NetworkTypeOK
<1>7. CASE SavedThenNotReady
  BY <1>1, <1>7 DEF SavedThenNotReady, SaveLands, NetworkTypeOK
<1> QED
  BY <1>3, <1>4, <1>5, <1>6, <1>7 DEF Plugin

LEMMA LinksTypes ==
    ASSUME TypeInv, Links \/ Faults
    PROVE  NetworkTypeOK' /\ LinksOK' /\ crashes' \in 0 .. user.restarts
<1>1. /\ NetworkTypeOK /\ replies \in Seq(Answer) /\ pending \in Seq(Op)
      /\ arriving \in [1 .. MaxLinks -> Seq(Message)] /\ LinksOK
      /\ crashes \in 0 .. user.restarts /\ memory \in Manager /\ user.restarts \in Nat
      /\ link \in 0 .. MaxLinks
  BY IssuedType DEF TypeInv, OutboxTypeOK, NetworkTypeOK
<1>2. <<>> \in Seq(Op) /\ <<>> \in Seq(Answer)
  BY EmptySeq
<1>3. CASE Connect
  <2> DEFINE s == [i \in DOMAIN pending |->
                      [op |-> pending[i], number |-> memory.number[pending[i]]]]
  <2>1. link + 1 \in 1 .. MaxLinks
    BY <1>1, <1>3, OpIsNat DEF Connect, LinksOK
  <2>2. DOMAIN pending = 1 .. Len(pending) /\ Len(pending) \in Nat
    BY <1>1, LenProperties
  <2>3. \A i \in DOMAIN pending : s[i] \in Message
    <3>1. \A i \in DOMAIN pending : pending[i] \in Op
      BY <1>1, <2>2, ElementOfSeq
    <3> QED
      BY <1>1, <3>1, MessageType
  <2>4. s \in [1 .. Len(pending) -> Message]
    BY <2>2, <2>3
  <2>5. s \in Seq(Message)
    BY <2>2, <2>4, SeqDef
  <2>6. arriving' = [arriving EXCEPT ![link + 1] = s]
    BY <1>3 DEF Connect
  <2> HIDE DEF s
  <2>7. arriving' \in [1 .. MaxLinks -> Seq(Message)]
    BY <1>1, <2>1, <2>5, <2>6
  <2> QED
    BY <1>1, <1>2, <1>3, <2>1, <2>7, OpIsNat DEF Connect, NetworkTypeOK, LinksOK
<1>4. CASE FinishHandshake
  <2>1. pending' \in Seq(Op) /\ arriving' \in [1 .. MaxLinks -> Seq(Message)]
    BY <1>4, FlushType DEF FinishHandshake
  <2> QED
    BY <1>1, <1>4, <2>1 DEF FinishHandshake, NetworkTypeOK, LinksOK
<1>5. CASE SocketClosed
  BY <1>1, <1>5 DEF SocketClosed, NetworkTypeOK, LinksOK
<1>6. ASSUME phase \in {"open", "ready"},
             \E k \in 0 .. Len(arriving[link]) :
                arriving' = [arriving EXCEPT ![link] = SubSeq(@, 1, k)]
      PROVE  arriving' \in [1 .. MaxLinks -> Seq(Message)]
  <2>1. PICK k \in 0 .. Len(arriving[link]) :
            arriving' = [arriving EXCEPT ![link] = SubSeq(arriving[link], 1, k)]
    BY <1>6
  <2>2. link \in 1 .. MaxLinks /\ arriving[link] \in Seq(Message)
    BY <1>1, <1>6, OpIsNat DEF LinksOK
  <2>3. Len(arriving[link]) \in Nat
    BY <2>2, LenProperties
  <2>4. \A i \in 1 .. k : arriving[link][i] \in Message
    BY <2>2, <2>3, ElementOfSeq
  <2>5. SubSeq(arriving[link], 1, k) \in Seq(Message)
    BY <2>3, <2>4, SubSeqProperties
  <2> QED
    BY <1>1, <2>1, <2>2, <2>5
<1>7. CASE Drop
  <2>1. arriving' \in [1 .. MaxLinks -> Seq(Message)]
    BY <1>6, <1>7 DEF Drop
  <2> QED
    BY <1>1, <1>2, <1>7, <2>1 DEF Drop, NetworkTypeOK, LinksOK
<1>8. CASE Restart
  <2>1. arriving' \in [1 .. MaxLinks -> Seq(Message)]
    BY <1>1, <1>6, <1>8 DEF Restart
  <2> QED
    BY <1>1, <1>2, <1>8, <2>1 DEF Restart, NetworkTypeOK, LinksOK
<1> QED
  BY <1>1, <1>3, <1>4, <1>5, <1>7, <1>8
     DEF Links, Faults, Connect, FinishHandshake, SocketClosed, Drop

\* The server has accepted o, with that outcome.
Entry(o, conflict) ==
    \E i \in DOMAIN stream : stream[i].op = o /\ stream[i].conflict = conflict

TruthfulAnswer(a) ==
    /\ a.type = "ack" => Entry(a.op, FALSE)
    /\ a.type = "conflict" => Entry(a.op, TRUE)
    /\ a.type = "refuse" => "refuse" \in Verdicts

\* What the server does with message m: at most one row, at most one answer.
StreamStep(m) ==
    /\ \/ UNCHANGED stream
       \/ InSequence(m) /\ \E c \in BOOLEAN : stream' = Append(stream, [op |-> m.op, conflict |-> c])
    /\ \/ UNCHANGED replies
       \/ \E a \in Answer : replies' = Append(replies, a) /\ TruthfulAnswer(a)'

LEMMA StreamGrows ==
    ASSUME stream \in Seq(Row), NEW m \in Message, NEW c \in BOOLEAN,
           stream' = Append(stream, [op |-> m.op, conflict |-> c])
    PROVE  /\ stream' \in Seq(Row) /\ Len(stream) \in Nat /\ Len(stream') = Len(stream) + 1
           /\ DOMAIN stream = 1 .. Len(stream) /\ DOMAIN stream' = 1 .. Len(stream) + 1
           /\ \A i \in DOMAIN stream : stream'[i] = stream[i]
           /\ stream'[Len(stream) + 1] = [op |-> m.op, conflict |-> c]
           /\ Accepted' = Accepted \cup {m.op}
<1> DEFINE r == [op |-> m.op, conflict |-> c]
<1>1. r \in Row
  BY DEF Row, Message
<1> HIDE DEF r
<1>2. /\ stream' = Append(stream, r) /\ Append(stream, r) \in Seq(Row)
      /\ Len(Append(stream, r)) = Len(stream) + 1
      /\ \A i \in 1 .. Len(stream) : Append(stream, r)[i] = stream[i]
      /\ Append(stream, r)[Len(stream) + 1] = r
  BY <1>1, AppendProperties DEF r
<1>3. /\ stream' \in Seq(Row) /\ Len(stream) \in Nat /\ Len(stream') = Len(stream) + 1
      /\ DOMAIN stream = 1 .. Len(stream) /\ DOMAIN stream' = 1 .. Len(stream) + 1
      /\ \A i \in DOMAIN stream : stream'[i] = stream[i]
      /\ stream'[Len(stream) + 1] = r
  BY <1>2, LenProperties
<1>4. r.op = m.op
  BY DEF r
<1>5. Accepted' = Accepted \cup {m.op}
  <2>1. \A i \in DOMAIN stream' : i \in DOMAIN stream \/ i = Len(stream) + 1
    BY <1>3
  <2>2. Len(stream) + 1 \in DOMAIN stream' /\ DOMAIN stream \subseteq DOMAIN stream'
    BY <1>3
  <2>3. Accepted' \subseteq Accepted \cup {m.op}
    BY <1>3, <1>4, <2>1 DEF Accepted
  <2>4. Accepted \cup {m.op} \subseteq Accepted'
    BY <1>3, <1>4, <2>2 DEF Accepted
  <2> QED
    BY <2>3, <2>4
<1> QED
  BY <1>3, <1>5 DEF r

LEMMA ServeCases ==
    ASSUME TypeInv, NEW n \in 1 .. MaxLinks, Serve(n), NEW m, m = Head(arriving[n])
    PROVE  /\ m \in Message /\ arriving[n] # <<>> /\ arriving[n] \in Seq(Message)
           /\ StreamStep(m)
           /\ arriving' = [arriving EXCEPT ![n] = Tail(arriving[n])]
<1>1. /\ arriving[n] \in Seq(Message) /\ arriving[n] # <<>> /\ m \in Message
      /\ stream \in Seq(Row) /\ replies \in Seq(Answer)
  <2>1. arriving[n] \in Seq(Message) /\ arriving[n] # <<>>
    BY DEF Serve, TypeInv, OutboxTypeOK
  <2> QED
    BY <2>1, HeadTailProperties DEF TypeInv, OutboxTypeOK
<1> SUFFICES StreamStep(m)
  BY <1>1 DEF Serve
<1>2. ASSUME NEW a \in Answer, Reply(n, <<a>>), TruthfulAnswer(a)'
      PROVE  \/ UNCHANGED replies
             \/ \E b \in Answer : replies' = Append(replies, b) /\ TruthfulAnswer(b)'
  <2>1. Append(replies, a) = replies \o <<a>>
    BY <1>1, AppendIsConcat
  <2> QED
    BY <1>2, <2>1 DEF Reply
<1>3. ASSUME NEW o \in Op, NEW c \in BOOLEAN, Entry(o, c)'
      PROVE  LET a == [type |-> IF c THEN "conflict" ELSE "ack", op |-> o]
             IN  a \in Answer /\ TruthfulAnswer(a)'
  BY <1>3 DEF Answer, TruthfulAnswer
<1>4. CASE ServeKnown(n, m)
  <2>1. PICK i \in DOMAIN stream : Reply(n, AnswerTo(stream[i])) /\ stream' = stream
    BY <1>4 DEF ServeKnown, Accepted
  <2>2. stream[i] \in Row
    BY <1>1, <2>1, ElementOfSeq, LenProperties
  <2>3. PICK o \in Op, c \in BOOLEAN : stream[i].op = o /\ stream[i].conflict = c
    BY <2>2 DEF Row
  <2>4. Entry(o, c)'
    BY <2>1, <2>3 DEF Entry
  <2>5. AnswerTo(stream[i]) = <<[type |-> IF c THEN "conflict" ELSE "ack", op |-> o]>>
    BY <2>3 DEF AnswerTo
  <2> QED
    BY <1>2, <1>3, <2>1, <2>4, <2>5 DEF StreamStep
<1>5. CASE ServeGap(n, m) \/ ServeReject(n, m)
  <2>1. \E type \in {"refuse", "retry"} :
            /\ Reply(n, <<[type |-> type, op |-> m.op]>>)
            /\ type = "refuse" => "refuse" \in Verdicts
    BY <1>5 DEF ServeGap, ServeReject
  <2>2. PICK type \in {"refuse", "retry"} :
            /\ Reply(n, <<[type |-> type, op |-> m.op]>>)
            /\ type = "refuse" => "refuse" \in Verdicts
    BY <2>1
  <2>3. [type |-> type, op |-> m.op] \in Answer
    BY <1>1 DEF Message, Answer
  <2>4. TruthfulAnswer([type |-> type, op |-> m.op])'
    BY <2>2 DEF TruthfulAnswer
  <2>5. stream' = stream
    BY <1>5 DEF ServeGap, ServeReject
  <2> QED
    BY <1>2, <2>2, <2>3, <2>4, <2>5 DEF StreamStep
<1>6. CASE ServeAccept(n, m)
  <2>1. InSequence(m)
    BY <1>6 DEF ServeAccept
  <2>2. PICK c \in BOOLEAN :
            /\ stream' = Append(stream, [op |-> m.op, conflict |-> c])
            /\ Reply(n, AnswerTo([op |-> m.op, conflict |-> c]))
    BY <1>6 DEF ServeAccept
  <2>3. Entry(m.op, c)'
    <3>1. /\ Len(stream) + 1 \in DOMAIN stream'
          /\ stream'[Len(stream) + 1] = [op |-> m.op, conflict |-> c]
      BY <1>1, <2>2, StreamGrows
    <3> QED
      BY <3>1 DEF Entry
  <2>4. AnswerTo([op |-> m.op, conflict |-> c])
          = <<[type |-> IF c THEN "conflict" ELSE "ack", op |-> m.op]>>
    BY DEF AnswerTo
  <2>5. m.op \in Op
    BY <1>1 DEF Message
  <2> QED
    BY <1>2, <1>3, <2>1, <2>2, <2>3, <2>4, <2>5 DEF StreamStep
<1>7. CASE ServeFailing(n, m)
  BY <1>7 DEF ServeFailing, StreamStep
<1> QED
  BY <1>1, <1>4, <1>5, <1>6, <1>7 DEF Serve

LEMMA ServeTypes ==
    ASSUME TypeInv, NEW n \in 1 .. MaxLinks, Serve(n)
    PROVE  NetworkTypeOK'
<1> DEFINE m == Head(arriving[n])
<1>1. /\ NetworkTypeOK /\ replies \in Seq(Answer) /\ stream \in Seq(Row)
      /\ arriving \in [1 .. MaxLinks -> Seq(Message)]
  BY DEF TypeInv, OutboxTypeOK, NetworkTypeOK
<1>2. /\ m \in Message /\ arriving[n] # <<>> /\ arriving[n] \in Seq(Message) /\ StreamStep(m)
      /\ arriving' = [arriving EXCEPT ![n] = Tail(arriving[n])]
  BY ServeCases
<1>3. Tail(arriving[n]) \in Seq(Message)
  BY <1>2, HeadTailProperties
<1>4. stream' \in Seq(Row)
  BY <1>1, <1>2, StreamGrows DEF StreamStep
<1>5. replies' \in Seq(Answer)
  <2>1. \A a \in Answer : Append(replies, a) \in Seq(Answer)
    BY <1>1, AppendProperties
  <2> QED
    BY <1>1, <1>2, <2>1 DEF StreamStep
<1> QED
  BY <1>1, <1>2, <1>3, <1>4, <1>5 DEF Serve, NetworkTypeOK

\* A step that is not PushForced adds no sending, and what follows the save of the
\* forced operation removes the only one.
LEMMA OldSends ==
    ASSUME TypeInv, Next, ~PushForced
    PROVE  /\ OneSend(saving')
           /\ \A i \in DOMAIN saving' : saving'[i].then = "send" =>
                 \E j \in DOMAIN saving : saving[j].then = "send"
           /\ SavedThenSend \/ SavedThenNotReady =>
                 \A i \in DOMAIN saving' : saving'[i].then # "send"
<1>1. saving \in Seq(SaveRecord) /\ OneSend(saving)
  BY DEF TypeInv, OutboxTypeOK, ForcedOK
<1>2. PICK x \in Seq(SaveRecord) :
          /\ \A i \in DOMAIN x : x[i].then # "send"
          /\ \/ saving' = saving \o x
             \/ saving # <<>> /\ saving' = Tail(saving) \o x
             \/ saving' = <<>>
  BY SavingCases DEF SavingStep
<1>3. CASE saving' = <<>>
  BY <1>3, EmptySeq DEF OneSend
<1>4. CASE saving' # <<>>
  <2>1. Followed(saving, x, saving')
    BY <1>2, <1>4 DEF Followed
  <2>2. /\ OneSend(saving')
        /\ saving' = Tail(saving) \o x /\ saving # <<>> /\ saving[1].then = "send"
              => \A i \in DOMAIN saving' : saving'[i].then # "send"
        /\ \A i \in DOMAIN saving' : saving'[i].then = "send" =>
              \E j \in DOMAIN saving : saving[j].then = "send"
    BY <1>1, <1>2, <2>1, SendsAfter
  <2>3. ASSUME SavedThenSend \/ SavedThenNotReady
        PROVE  \A i \in DOMAIN saving' : saving'[i].then # "send"
    <3>1. saving # <<>> /\ Head(saving).then = "send"
      BY <2>3 DEF SavedThenSend, SavedThenNotReady, SaveLands
    <3>2. saving[1].then = "send" /\ Tail(saving) \in Seq(SaveRecord)
      BY <1>1, <3>1, HeadTailProperties
    <3>3. memory' \in Manager
      BY MemoryCases, MemoryStaysSane DEF Sane
    <3>4. 0 \in OpOrNone
      BY OpIsNat DEF OpOrNone
    <3>5. ASSUME NEW y \in Seq(SaveRecord), saving' = Tail(saving) \o y,
                 \A j \in DOMAIN y : y[j].then # "send"
          PROVE  \A i \in DOMAIN saving' : saving'[i].then # "send"
      <4>1. Followed(saving, y, saving')
        BY <3>1, <3>5 DEF Followed
      <4>2. \A j \in DOMAIN y : y[j].then # "send"
        BY <3>5
      <4>3. /\ OneSend(saving')
            /\ saving' = Tail(saving) \o y /\ saving # <<>> /\ saving[1].then = "send"
                  => \A i \in DOMAIN saving' : saving'[i].then # "send"
        BY <1>1, <4>1, <4>2, SendsAfter
      <4> QED
        BY <3>1, <3>2, <3>5, <4>3
    <3>6. CASE SavedThenSend
      <4>1. saving' = Tail(saving) \o <<>> /\ <<>> \in Seq(SaveRecord)
        BY <3>2, <3>6, ConcatEmptySeq, EmptySeq DEF SavedThenSend
      <4>2. \A j \in DOMAIN <<>> : <<>>[j].then # "send"
        BY EmptySeq
      <4> QED
        BY <3>5, <4>1, <4>2
    <3>7. CASE SavedThenNotReady
      <4> DEFINE r == [outbox |-> memory', then |-> "nothing", op |-> 0]
      <4>1. r \in SaveRecord /\ r.then # "send"
        BY <3>3, <3>4 DEF SaveRecord
      <4>2. saving' = Append(Tail(saving), r)
        BY <3>7 DEF SavedThenNotReady
      <4> HIDE DEF r
      <4>3. saving' = Tail(saving) \o <<r>> /\ <<r>> \in Seq(SaveRecord)
        BY <3>2, <4>1, <4>2, AppendIsConcat
      <4>4. \A j \in DOMAIN <<r>> : <<r>>[j].then # "send"
        BY <4>1
      <4> QED
        BY <3>5, <4>3, <4>4
    <3> QED
      BY <2>3, <3>6, <3>7
  <2> QED
    BY <2>2, <2>3
<1> QED
  BY <1>3, <1>4

\* While pushForced waits for an answer, or is not running, no save is followed by a
\* sending.
LEMMA ForcedTypes ==
    ASSUME TypeInv, Next, UNCHANGED user
    PROVE  /\ forced' \in 0 .. issued' /\ forcing' \in BOOLEAN /\ waiter' \in BOOLEAN
           /\ ForcedOK'
<1>1. /\ issued \in Nat /\ forced \in 0 .. issued /\ forcing \in BOOLEAN /\ waiter \in BOOLEAN
      /\ issued' \in {issued, issued + 1}
      /\ forcing \/ forced # 0 => user.forces
      /\ waiter => forced # 0
      /\ user' = user
  BY IssuedType, MemoryCases, MemoryStaysSane DEF TypeInv, OutboxTypeOK, ForcedOK
<1>2. forced \in 0 .. issued' /\ 0 \in 0 .. issued'
  BY <1>1
<1>3. CASE PushForced
  <2> DEFINE r == [outbox |-> memory', then |-> "send", op |-> issued + 1]
  <2>1. saving' = Append(saving, r) /\ saving \in Seq(SaveRecord)
    BY <1>3 DEF PushForced, Save, TypeInv, OutboxTypeOK
  <2>2. r \in SaveRecord
    <3>1. memory' \in Manager
      BY MemoryCases, MemoryStaysSane DEF Sane
    <3>2. issued + 1 \in OpOrNone
      BY <1>1, <1>3, IssuedType, OpIsNat DEF PushForced, OpOrNone
    <3> QED
      BY <3>1, <3>2 DEF SaveRecord
  <2>3. forced = 0 /\ forcing /\ \A i \in DOMAIN saving : saving[i].then # "send"
    BY <1>3 DEF PushForced, TypeInv, ForcedOK
  <2> HIDE DEF r
  <2>4. /\ DOMAIN saving' = 1 .. Len(saving) + 1 /\ DOMAIN saving = 1 .. Len(saving)
        /\ \A i \in 1 .. Len(saving) : saving'[i] = saving[i]
    <3>1. /\ Append(saving, r) \in Seq(SaveRecord) /\ Len(Append(saving, r)) = Len(saving) + 1
          /\ \A i \in 1 .. Len(saving) : Append(saving, r)[i] = saving[i]
      BY <2>1, <2>2, AppendProperties
    <3> QED
      BY <2>1, <3>1, LenProperties
  <2>5. OneSend(saving')
    <3>1. \A i \in DOMAIN saving' : saving'[i].then = "send" => i = Len(saving) + 1
      BY <2>3, <2>4
    <3> QED
      BY <3>1 DEF OneSend
  <2>6. /\ forced' = issued + 1 /\ forced' # 0 /\ issued' = issued + 1 /\ ~waiter'
        /\ UNCHANGED <<forcing, waiter>>
    BY <1>1, <1>3, <2>3 DEF PushForced
  <2> QED
    BY <1>1, <2>3, <2>5, <2>6 DEF ForcedOK
<1>4. CASE ~PushForced
  <2>1. OneSend(saving')
    BY <1>4, OldSends
  <2>2. \A i \in DOMAIN saving' : saving'[i].then = "send" => forced # 0 /\ ~waiter
    BY <1>4, OldSends DEF TypeInv, ForcedOK
  <2>3. ASSUME NEW f \in BOOLEAN, UNCHANGED <<forced, waiter>>, forcing' = f,
               f => forcing \/ user.forces
        PROVE  ForcedOK'
    BY <1>1, <2>1, <2>2, <2>3 DEF ForcedOK
  <2>4. ASSUME waiter, forced' = 0, waiter' = FALSE, forcing' \in BOOLEAN, forcing' => forcing
        PROVE  ForcedOK'
    BY <1>1, <2>1, <2>2, <2>4 DEF ForcedOK
  <2>5. CASE Plugin
    <3>1. CASE HandleAck \/ HandleReject \/ Saved
      BY <1>1, <1>2, <2>3, <3>1 DEF HandleAck, HandleReject, Saved
    <3>2. CASE HandleForcedReject
      BY <1>1, <1>2, <2>4, <3>2 DEF HandleForcedReject
    <3>3. CASE SavedThenFlush
      <4>1. CASE waiter /\ Head(saving).op = forced
        <5>1. forced' = 0 /\ waiter' = FALSE /\ forcing' \in BOOLEAN /\ (forcing' => forcing)
          BY <1>1, <3>3, <4>1 DEF SavedThenFlush
        <5>2. 0 \in 0 .. issued'
          BY <1>1
        <5> QED
          BY <2>4, <4>1, <5>1, <5>2
      <4>2. CASE ~(waiter /\ Head(saving).op = forced)
        <5>1. forced' = forced /\ waiter' = waiter /\ forcing' = forcing
          BY <1>1, <3>3, <4>2 DEF SavedThenFlush
        <5> QED
          BY <1>1, <1>2, <2>3, <5>1
      <4> QED
        BY <4>1, <4>2
    <3>4. CASE SavedThenSend \/ SavedThenNotReady
      <4>1. \A i \in DOMAIN saving' : saving'[i].then # "send"
        BY <1>4, <3>4, OldSends
      <4>2. saving # <<>> /\ Head(saving).then = "send" /\ saving \in Seq(SaveRecord)
        BY <3>4 DEF SavedThenSend, SavedThenNotReady, SaveLands, TypeInv, OutboxTypeOK
      <4>3. 1 \in DOMAIN saving /\ saving[1].then = "send"
        BY <4>2, EmptySeq, LenProperties
      <4>4. forced # 0 /\ ~waiter
        BY <4>3 DEF TypeInv, ForcedOK
      <4>5. CASE SavedThenSend
        <5>1. waiter' = TRUE /\ UNCHANGED <<forcing, forced>>
          BY <4>5 DEF SavedThenSend
        <5> QED
          BY <1>1, <1>2, <2>1, <4>1, <4>4, <5>1 DEF ForcedOK
      <4>6. CASE SavedThenNotReady
        <5>1. forced' = 0 /\ forcing' = FALSE /\ waiter' = waiter
          BY <4>6 DEF SavedThenNotReady
        <5> QED
          BY <1>1, <1>2, <2>1, <4>1, <4>4, <5>1 DEF ForcedOK
      <4> QED
        BY <3>4, <4>5, <4>6
    <3> QED
      BY <2>5, <3>1, <3>2, <3>3, <3>4 DEF Plugin
  <2>6. CASE User
    <3>1. CASE EnqueueLocalChange \/ DiscardUnsent
      BY <1>1, <1>2, <2>3, <3>1 DEF EnqueueLocalChange, DiscardUnsent
    <3>2. CASE StartForcePush \/ EndForcePush
      BY <1>1, <1>2, <2>3, <3>2 DEF StartForcePush, EndForcePush, client
    <3>3. CASE ForceTimesOut
      BY <1>1, <1>2, <2>4, <3>3 DEF ForceTimesOut
    <3> QED
      BY <1>4, <2>6, <3>1, <3>2, <3>3 DEF User
  <2>7. CASE Links
    BY <1>1, <1>2, <2>3, <2>7 DEF Links, Connect, FinishHandshake, SocketClosed, client
  <2>8. CASE Drop
    BY <1>1, <1>2, <2>3, <2>8 DEF Drop, client
  <2>9. CASE Restart
    <3>1. saving' = <<>> /\ forcing' = FALSE /\ forced' = 0 /\ waiter' = FALSE
      BY <2>9 DEF Restart
    <3>2. \A i \in DOMAIN saving' : FALSE
      BY <3>1, EmptySeq
    <3> QED
      BY <1>1, <1>2, <2>1, <3>1, <3>2 DEF ForcedOK
  <2>10. CASE \E n \in 1 .. MaxLinks : Serve(n)
    BY <1>1, <1>2, <2>3, <2>10 DEF Serve, client
  <2> QED
    BY <2>5, <2>6, <2>7, <2>8, <2>9, <2>10 DEF Next, Faults
<1> QED
  BY <1>3, <1>4

LEMMA UserTypes ==
    ASSUME TypeInv, User
    PROVE  NetworkTypeOK' /\ UNCHANGED <<phase, link, crashes>>
BY DEF User, EnqueueLocalChange, StartForcePush, PushForced, EndForcePush, DiscardUnsent,
       ForceTimesOut, network, TypeInv, OutboxTypeOK, NetworkTypeOK

LEMMA NextTypeInv ==
    ASSUME TypeInv, [Next /\ UNCHANGED user]_<<outboxVars, user>>
    PROVE  TypeInv'
<1>1. CASE Next /\ UNCHANGED user
  <2>1. NetworkTypeOK' /\ LinksOK' /\ crashes' \in 0 .. user.restarts
    <3>1. LinksOK /\ crashes \in 0 .. user.restarts
      BY DEF TypeInv, OutboxTypeOK
    <3>2. CASE Plugin \/ User
      BY <3>1, <3>2, PluginTypes, UserTypes DEF LinksOK
    <3>3. CASE Links \/ Faults
      BY <3>3, LinksTypes
    <3>4. ASSUME NEW n \in 1 .. MaxLinks, Serve(n)
          PROVE  NetworkTypeOK' /\ LinksOK' /\ crashes' \in 0 .. user.restarts
      BY <3>1, <3>4, ServeTypes DEF Serve, LinksOK
    <3> QED
      BY <1>1, <3>2, <3>3, <3>4 DEF Next
  <2>2. (\A m \in Copies' : Sane(m, issued')) /\ issued' \in 0 .. user.ops
    BY <1>1, CopiesStaySane
  <2>3. saving' \in Seq(SaveRecord)
    BY <1>1, CopiesStep
  <2>4. ForcedOK' /\ forced' \in 0 .. issued' /\ forcing' \in BOOLEAN /\ waiter' \in BOOLEAN
    BY <1>1, ForcedTypes
  <2>5. user' = user /\ user' \in Users
    BY <1>1 DEF TypeInv, OutboxTypeOK
  <2> QED
    BY <2>1, <2>2, <2>3, <2>4, <2>5 DEF TypeInv, OutboxTypeOK, NetworkTypeOK
<1>2. CASE UNCHANGED <<outboxVars, user>>
  BY <1>2 DEF outboxVars, TypeInv, OutboxTypeOK, LinksOK, ForcedOK, OneSend, Copies
<1> QED
  BY <1>1, <1>2

LEMMA InitTypeInv ==
    ASSUME Init
    PROVE  TypeInv
<1>1. /\ <<>> \in Seq(SaveRecord) /\ <<>> \in Seq(Op) /\ <<>> \in Seq(Message)
      /\ <<>> \in Seq(Answer) /\ <<>> \in Seq(Row)
      /\ saving = <<>> /\ \A i \in DOMAIN saving : FALSE
  BY EmptySeq DEF Init
<1>2. user \in Users /\ user.ops \in 0 .. MaxOps /\ user.restarts \in Nat
  BY OutboxAssumption DEF Init
<1>3. Copies = {NewManager} /\ Sane(NewManager, 0)
  BY <1>1, SaneNewManager DEF Init, Copies
<1>4. OutboxTypeOK
  <2>1. issued = 0 /\ \A m \in Copies : Sane(m, issued)
    BY <1>3 DEF Init
  <2>2. 0 \in 0 .. user.ops /\ 0 \in 0 .. MaxLinks /\ 0 \in 0 .. 0 /\ 0 \in 0 .. user.restarts
    BY <1>2, OpIsNat
  <2>3. arriving \in [1 .. MaxLinks -> Seq(Message)]
    BY <1>1 DEF Init
  <2> QED
    BY <1>1, <1>2, <2>1, <2>2, <2>3 DEF Init, OutboxTypeOK
<1>5. LinksOK /\ ForcedOK
  BY <1>1, OpIsNat DEF Init, LinksOK, ForcedOK, OneSend
<1> QED
  BY <1>4, <1>5 DEF TypeInv

\* The outbox in memory, on the disk and in every save under way is well formed: its
\* operations carry numbers below nextDeviceSeq in the order in which they were made
\* up, whatever was acknowledged, refused, discarded or rolled back in between; so a
\* restart loads what was saved as it is.  pushForced is at one await at a time, and
\* at most one save is followed by the sending of its operation.
THEOREM OutboxTypeCorrect == Spec => []TypeInv
<1>1. Init => TypeInv
  BY InitTypeInv
<1>2. TypeInv /\ [Next /\ UNCHANGED user]_<<outboxVars, user>> => TypeInv'
  BY NextTypeInv
<1> QED
  BY <1>1, <1>2, PTL DEF Spec

-----------------------------------------------------------------------------
(***************************************************************************)
(* Acknowledgements.                                                       *)
(***************************************************************************)

\* Only the server adds to the stream.
LEMMA StreamCases ==
    ASSUME TypeInv, Next
    PROVE  \/ UNCHANGED stream
           \/ \E n \in 1 .. MaxLinks : Serve(n)
BY DEF Next, Plugin, User, Links, Faults, HandleAck, HandleForcedReject, HandleReject, Saved,
       SavedThenFlush, SavedThenSend, SavedThenNotReady, SaveLands, EnqueueLocalChange,
       StartForcePush, PushForced, EndForcePush, DiscardUnsent, ForceTimesOut, Connect,
       FinishHandshake, SocketClosed, Drop, Restart, network

LEMMA EntriesStay ==
    ASSUME TypeInv, Next, NEW o, NEW conflict, Entry(o, conflict)
    PROVE  Entry(o, conflict)'
<1>1. CASE UNCHANGED stream
  BY <1>1 DEF Entry
<1>2. ASSUME NEW n \in 1 .. MaxLinks, Serve(n)
      PROVE  Entry(o, conflict)'
  <2>1. PICK m : m = Head(arriving[n])
    OBVIOUS
  <2>2. m \in Message /\ StreamStep(m)
    BY <1>2, <2>1, ServeCases
  <2>3. stream \in Seq(Row)
    BY DEF TypeInv, OutboxTypeOK
  <2>4. CASE UNCHANGED stream
    BY <2>4 DEF Entry
  <2>5. ASSUME NEW c \in BOOLEAN, stream' = Append(stream, [op |-> m.op, conflict |-> c])
        PROVE  Entry(o, conflict)'
    <3>1. /\ \A i \in DOMAIN stream : stream'[i] = stream[i]
          /\ DOMAIN stream \subseteq DOMAIN stream'
      BY <2>2, <2>3, <2>5, StreamGrows
    <3> QED
      BY <3>1 DEF Entry
  <2> QED
    BY <2>2, <2>4, <2>5 DEF StreamStep
<1> QED
  BY <1>1, <1>2, StreamCases

\* What OutboxManager says of an operation is what the server has accepted.
TrueOf(m) ==
    \A o \in Op : m.status[o] \in {"acked", "conflicted"} => Entry(o, m.status[o] = "conflicted")

\* So it is in every copy, and so are the answers on their way.
AckInv ==
    /\ \A m \in Copies : TrueOf(m)
    /\ \A i \in DOMAIN replies : TruthfulAnswer(replies[i])

\* A step that changes the outbox makes an operation acknowledged only on an answer.
LEMMA MemoryStaysTrue ==
    ASSUME TypeInv, AckInv, Next, NEW o \in Op, memory'.status[o] \in {"acked", "conflicted"}
    PROVE  Entry(o, memory'.status[o] = "conflicted")
<1>1. /\ issued \in Nat /\ Sane(memory, issued) /\ Sane(disk, issued)
      /\ memory \in Manager /\ issued <= user.ops /\ user.ops <= MaxOps /\ user.ops \in Nat
  BY IssuedType
<1>2. TrueOf(memory) /\ TrueOf(disk)
  BY DEF AckInv, Copies
<1>3. ASSUME memory'.status[o] = memory.status[o]
      PROVE  Entry(o, memory'.status[o] = "conflicted")
  BY <1>2, <1>3 DEF TrueOf
<1>4. CASE UNCHANGED memory
  BY <1>3, <1>4
<1>5. CASE issued < user.ops /\ memory' = Enqueued(memory, issued + 1)
  <2>1. issued < MaxOps
    BY <1>1, <1>5, OpIsNat
  <2>2. o # issued + 1 /\ memory'.status[o] = memory.status[o]
    BY <1>1, <1>5, <2>1, SaneEnqueued
  <2> QED
    BY <1>3, <2>2
<1>6. ASSUME NEW i \in DOMAIN replies,
             \/ /\ replies[i].type \in {"ack", "conflict"}
                /\ memory' = Acknowledged(memory, replies[i])
             \/ memory' = Requeued(memory, replies[i].op)
             \/ memory' = RemovedAndReindexed(memory, replies[i].op)
      PROVE  Entry(o, memory'.status[o] = "conflicted")
  <2>1. PICK r : r = replies[i] /\ TruthfulAnswer(r)
    BY DEF AckInv
  <2>2. CASE r.type \in {"ack", "conflict"} /\ memory' = Acknowledged(memory, r)
    <3>0. Acknowledged(memory, r).status[o]
            = IF o = r.op /\ r.op \in Present(memory)
              THEN (IF r.type = "ack" THEN "acked" ELSE "conflicted")
              ELSE memory.status[o]
      BY <1>1, SaneAcknowledged
    <3>1. memory'.status[o] = IF o = r.op /\ r.op \in Present(memory)
                              THEN (IF r.type = "ack" THEN "acked" ELSE "conflicted")
                              ELSE memory.status[o]
      BY <2>2, <3>0
    <3>2. CASE o = r.op /\ r.op \in Present(memory) /\ r.type = "ack"
      <4>1. memory'.status[o] = "acked" /\ Entry(o, FALSE)
        BY <2>1, <3>1, <3>2 DEF TruthfulAnswer
      <4>2. (memory'.status[o] = "conflicted") = FALSE
        BY <4>1
      <4> QED
        BY <4>1, <4>2
    <3>3. CASE o = r.op /\ r.op \in Present(memory) /\ r.type = "conflict"
      <4>1. memory'.status[o] = "conflicted" /\ Entry(o, TRUE)
        BY <2>1, <3>1, <3>3 DEF TruthfulAnswer
      <4>2. (memory'.status[o] = "conflicted") = TRUE
        BY <4>1
      <4> QED
        BY <4>1, <4>2
    <3> QED
      BY <1>3, <2>2, <3>1, <3>2, <3>3
  <2>3. CASE memory' = Requeued(memory, r.op)
    <3>1. memory'.status[o] \in {"queued", memory.status[o]}
      BY <1>1, <2>3, SaneWithStatus DEF Requeued, Status
    <3> QED
      BY <1>3, <3>1
  <2>4. CASE memory' = RemovedAndReindexed(memory, r.op)
    <3>1. memory'.status[o] \in {"dropped", memory.status[o]}
      <4>1. CASE r.op \in Present(memory)
        BY <1>1, <2>4, <4>1, SaneReindexed
      <4>2. CASE r.op \notin Present(memory)
        BY <2>4, <4>2 DEF RemovedAndReindexed
      <4> QED
        BY <4>1, <4>2
    <3> QED
      BY <1>3, <3>1
  <2> QED
    BY <1>6, <2>1, <2>2, <2>3, <2>4
<1>7. ASSUME NEW ready, memory' = Flushed(memory, ready)
      PROVE  Entry(o, memory'.status[o] = "conflicted")
  <2>1. memory'.status[o] \in {"inflight", memory.status[o]}
    BY <1>1, <1>7, SaneFlushed
  <2> QED
    BY <1>3, <2>1
<1>8. CASE memory' = Unforced(memory, forced)
  <2>1. memory'.status[o] = memory.status[o] \/ memory'.status[o] \in {"dropped", "rejected"}
    BY <1>1, <1>8, SaneUnforced
  <2> QED
    BY <1>3, <2>1
<1>9. CASE memory' = WithStatus(memory, forced, "inflight")
  <2>1. memory'.status[o] \in {"inflight", memory.status[o]}
    BY <1>1, <1>9, SaneWithStatus DEF Status
  <2> QED
    BY <1>3, <2>1
<1>10. CASE MayDiscard(memory) /\ memory' = Discarded(memory)
  <2>1. memory'.status[o] \in {"dropped", memory.status[o]}
    BY <1>1, <1>10, SaneDiscarded
  <2> QED
    BY <1>3, <2>1
<1>11. CASE memory' = Loaded(disk)
  <2>1. memory' = disk
    BY <1>1, <1>11, LoadedIsSame
  <2> QED
    BY <1>2, <2>1 DEF TrueOf
<1> QED
  BY <1>4, <1>5, <1>6, <1>7, <1>8, <1>9, <1>10, <1>11, MemoryCases DEF MemoryStep, Restart

\* The answers that follow a step are old ones, or one the server has just made.
LEMMA RepliesAfter ==
    ASSUME TypeInv, Next, NEW i \in DOMAIN replies'
    PROVE  \/ \E j \in DOMAIN replies : replies'[i] = replies[j]
           \/ \E a \in Answer : replies'[i] = a /\ TruthfulAnswer(a)'
<1>1. replies \in Seq(Answer) /\ Len(replies) \in Nat /\ DOMAIN replies = 1 .. Len(replies)
  <2>1. replies \in Seq(Answer)
    BY DEF TypeInv, OutboxTypeOK
  <2> QED
    BY <2>1, LenProperties
<1>2. CASE UNCHANGED replies
  BY <1>2
<1>3. CASE replies # <<>> /\ replies' = Tail(replies)
  <2>1. /\ Tail(replies) \in Seq(Answer) /\ Len(Tail(replies)) = Len(replies) - 1
        /\ \A j \in 1 .. Len(replies) - 1 : Tail(replies)[j] = replies[j + 1]
    BY <1>1, <1>3, HeadTailProperties
  <2>2. i \in 1 .. Len(replies) - 1
    BY <1>3, <2>1, LenProperties
  <2>3. i + 1 \in DOMAIN replies
    BY <1>1, <2>2
  <2> QED
    BY <1>3, <2>1, <2>2, <2>3
<1>4. CASE replies' = <<>>
  BY <1>4, EmptySeq
<1>5. ASSUME NEW a \in Answer, replies' = Append(replies, a), TruthfulAnswer(a)'
      PROVE  \/ \E j \in DOMAIN replies : replies'[i] = replies[j]
             \/ replies'[i] = a
  <2>1. /\ Append(replies, a) \in Seq(Answer) /\ Len(Append(replies, a)) = Len(replies) + 1
        /\ \A j \in 1 .. Len(replies) : Append(replies, a)[j] = replies[j]
        /\ Append(replies, a)[Len(replies) + 1] = a
    BY <1>1, AppendProperties
  <2>2. i \in 1 .. Len(replies) + 1
    BY <1>5, <2>1, LenProperties
  <2>3. CASE i \in 1 .. Len(replies)
    BY <1>1, <1>5, <2>1, <2>3
  <2>4. CASE i = Len(replies) + 1
    BY <1>5, <2>1, <2>4
  <2> QED
    BY <1>1, <2>2, <2>3, <2>4
<1>6. ASSUME NEW n \in 1 .. MaxLinks, Serve(n)
      PROVE  \/ UNCHANGED replies
             \/ \E a \in Answer : replies' = Append(replies, a) /\ TruthfulAnswer(a)'
  <2>1. PICK m : m = Head(arriving[n])
    OBVIOUS
  <2>2. StreamStep(m)
    BY <1>6, <2>1, ServeCases
  <2> QED
    BY <2>2 DEF StreamStep
<1>7. \/ UNCHANGED replies
      \/ replies # <<>> /\ replies' = Tail(replies)
      \/ replies' = <<>>
      \/ \E n \in 1 .. MaxLinks : Serve(n)
  BY DEF Next, Plugin, User, Links, Faults, HandleAck, HandleForcedReject, HandleReject,
         Saved, SavedThenFlush, SavedThenSend, SavedThenNotReady, SaveLands,
         EnqueueLocalChange, StartForcePush, PushForced, EndForcePush, DiscardUnsent,
         ForceTimesOut, Connect, FinishHandshake, SocketClosed, Drop, Restart, network
<1> QED
  BY <1>2, <1>3, <1>4, <1>5, <1>6, <1>7

LEMMA NextAckInv ==
    ASSUME TypeInv, AckInv, [Next /\ UNCHANGED user]_<<outboxVars, user>>
    PROVE  AckInv'
<1>1. CASE Next /\ UNCHANGED user
  <2>1. \A o \in Op, c \in BOOLEAN : Entry(o, c) => Entry(o, c)'
    BY <1>1, EntriesStay
  <2>2. ASSUME NEW m \in Copies'
        PROVE  TrueOf(m)'
    <3>1. CASE m \in Copies
      <4>1. TrueOf(m)
        BY <3>1 DEF AckInv
      <4> QED
        BY <2>1, <4>1 DEF TrueOf
    <3>2. CASE m = memory'
      BY <1>1, <2>1, <3>2, MemoryStaysTrue DEF TrueOf
    <3> QED
      BY <1>1, <3>1, <3>2, CopiesStep
  <2>3. ASSUME NEW i \in DOMAIN replies'
        PROVE  \E a \in Answer : replies'[i] = a /\ TruthfulAnswer(a)'
    <3>1. ASSUME NEW j \in DOMAIN replies, replies'[i] = replies[j]
          PROVE  \E a \in Answer : replies'[i] = a /\ TruthfulAnswer(a)'
      <4>1. PICK a \in Answer : a = replies[j]
        BY LenProperties, ElementOfSeq DEF TypeInv, OutboxTypeOK
      <4>2. TruthfulAnswer(a) /\ a.op \in Op
        BY <4>1 DEF AckInv, Answer
      <4>3. TruthfulAnswer(a)'
        BY <2>1, <4>2 DEF TruthfulAnswer
      <4> QED
        BY <3>1, <4>1, <4>3
    <3> QED
      BY <1>1, <3>1, RepliesAfter
  <2>4. \A m \in Copies' : TrueOf(m)'
    BY <2>2
  <2>5. (\A i \in DOMAIN replies : TruthfulAnswer(replies[i]))'
    BY <2>3 DEF TruthfulAnswer
  <2> QED
    BY <2>4, <2>5 DEF AckInv, TrueOf
<1>2. CASE UNCHANGED <<outboxVars, user>>
  BY <1>2 DEF outboxVars, AckInv, TrueOf, TruthfulAnswer, Entry, Copies
<1> QED
  BY <1>1, <1>2

LEMMA InitAckInv ==
    ASSUME Init
    PROVE  AckInv
<1>1. replies = <<>> /\ saving = <<>> /\ memory = NewManager /\ disk = NewManager
  BY DEF Init
<1>2. \A i \in DOMAIN replies : FALSE
  BY <1>1, EmptySeq
<1>3. \A i \in DOMAIN saving : FALSE
  BY <1>1, EmptySeq
<1>4. TrueOf(NewManager)
  BY DEF TrueOf, NewManager
<1> QED
  BY <1>1, <1>2, <1>3, <1>4 DEF AckInv, Copies

\* An operation that left the outbox by an acknowledgement, or is kept in it as
\* conflicted, has been accepted by the server, with that outcome: through restarts
\* that load an older outbox, renumbering, and answers that come twice or late.
THEOREM AcknowledgedOnlyIfAccepted == Spec => []AcknowledgedIsAccepted
<1>1. Init => TypeInv /\ AckInv
  BY InitTypeInv, InitAckInv
<1>2. TypeInv /\ AckInv /\ [Next /\ UNCHANGED user]_<<outboxVars, user>> => (TypeInv /\ AckInv)'
  BY NextTypeInv, NextAckInv
<1>3. TypeInv /\ AckInv => AcknowledgedIsAccepted
  BY DEF AckInv, Copies, TrueOf, Entry, AcknowledgedIsAccepted
<1> QED
  BY <1>1, <1>2, <1>3, PTL DEF Spec

-----------------------------------------------------------------------------
(***************************************************************************)
(* Order.                                                                  *)
(*                                                                         *)
(* A user who runs no force-push, and either does not restart the plugin   *)
(* or has a server that refuses nothing.  In the first case a refusal      *)
(* renumbers what is left; in the second an older outbox returns.  With    *)
(* both, an outbox with the old numbers returns after operations went out  *)
(* under the new ones, and then the numbers mean nothing.                  *)
(***************************************************************************)
Plain == ~user.forces /\ (user.restarts = 0 \/ "refuse" \notin Verdicts)

\* The outboxes that are in memory or may be in it again.
Returning == IF user.restarts = 0 THEN {memory} ELSE Copies

\* The operations whose numbers stand: a refusal leaves those that are no longer in the
\* map as they were.
Kept(m) == IF user.restarts = 0 THEN Present(m) ELSE Born(m)

\* What is on its way to the server, and what it has taken, under the numbers.
Messages == UNION {Range(arriving[n]) : n \in 1 .. MaxLinks}

Taken == {[op |-> stream[i].op, number |-> i] : i \in DOMAIN stream}

\* Below nextDeviceSeq, no number is missing that the server has not seen.
Covered(m) ==
    \A k \in Len(stream) + 1 .. m.next - 1 : \E o \in Retryable(m) : m.number[o] = k

\* Operation o may go out under number k: if it is the next one, o is in its turn.
Fresh(o, k) ==
    /\ k <= Len(stream) + 1
    /\ k = Len(stream) + 1 /\ o \notin Accepted => \A p \in Accepted : p < o

\* Nothing in outbox m that was made up before o has reached the number k of o.
Follows(m, o, k) ==
    /\ \A p \in Present(m) : p < o => m.number[p] < k
    /\ o \in Present(m) => m.number[o] <= k

SavedOK(m) ==
    /\ Covered(m)
    /\ Born(m) \subseteq Born(memory)
    /\ \A o \in Op : m.status[o] = "inflight" => m.number[o] <= Len(stream) + 1

\* The numbers of an outbox: they grow, and below nextDeviceSeq.
Numbered(m) ==
    \A o \in Kept(m) :
        /\ m.number[o] < m.next
        /\ \A p \in Born(m) : o < p => m.number[o] < m.number[p]

ReturningOK(m) ==
    /\ Numbered(m)
    /\ \A o \in Born(m) : m.number[o] = memory.number[o]
    /\ \A x \in Messages \cup Taken : Follows(m, x.op, x.number)

PlainInv ==
    Plain =>
        /\ \A m \in Copies : SavedOK(m)
        /\ \A m \in Returning : ReturningOK(m)
        /\ \A x \in Messages : x.op <= issued /\ Fresh(x.op, x.number)
        /\ \A o \in Accepted : o <= issued
        /\ \A o \in Range(pending) : o \in Born(memory) /\ Fresh(o, memory.number[o])

\* The elements of the sequences the network is made of.
LEMMA Elements ==
    ASSUME NEW S, NEW s \in Seq(S)
    PROVE  /\ \A x \in S : Range(Append(s, x)) = Range(s) \cup {x}
           /\ s # <<>> => Head(s) \in Range(s) /\ Range(Tail(s)) \subseteq Range(s)
           /\ \A k \in 0 .. Len(s) : Range(SubSeq(s, 1, k)) \subseteq Range(s)
           /\ Range(s) \subseteq S
<1>1. Len(s) \in Nat /\ DOMAIN s = 1 .. Len(s)
  BY LenProperties
<1>2. ASSUME NEW x \in S
      PROVE  Range(Append(s, x)) = Range(s) \cup {x}
  <2>1. /\ Append(s, x) \in Seq(S) /\ Len(Append(s, x)) = Len(s) + 1
        /\ \A i \in 1 .. Len(s) : Append(s, x)[i] = s[i]
        /\ Append(s, x)[Len(s) + 1] = x
    BY AppendProperties
  <2>2. DOMAIN Append(s, x) = 1 .. Len(s) + 1
    BY <2>1, LenProperties
  <2>3. ASSUME NEW y \in Range(Append(s, x))
        PROVE  y \in Range(s) \cup {x}
    <3>1. PICK i \in 1 .. Len(s) + 1 : y = Append(s, x)[i]
      BY <2>2 DEF Range
    <3> QED
      BY <1>1, <2>1, <3>1 DEF Range
  <2>4. ASSUME NEW y \in Range(s) \cup {x}
        PROVE  y \in Range(Append(s, x))
    <3>1. CASE y = x
      <4>1. Len(s) + 1 \in DOMAIN Append(s, x)
        BY <1>1, <2>2
      <4> QED
        BY <2>1, <3>1, <4>1 DEF Range
    <3>2. ASSUME NEW i \in DOMAIN s, y = s[i]
          PROVE  y \in Range(Append(s, x))
      <4>1. i \in DOMAIN Append(s, x) /\ Append(s, x)[i] = y
        BY <1>1, <2>1, <2>2, <3>2
      <4> QED
        BY <4>1 DEF Range
    <3> QED
      BY <3>1, <3>2 DEF Range
  <2> QED
    BY <2>3, <2>4
<1>3. ASSUME s # <<>>
      PROVE  Head(s) \in Range(s) /\ Range(Tail(s)) \subseteq Range(s)
  <2>1. /\ Tail(s) \in Seq(S) /\ Len(Tail(s)) = Len(s) - 1
        /\ \A i \in 1 .. Len(s) - 1 : Tail(s)[i] = s[i + 1]
    BY <1>3, HeadTailProperties
  <2>2. DOMAIN Tail(s) = 1 .. Len(s) - 1
    BY <2>1, LenProperties
  <2>3. 1 \in DOMAIN s /\ Head(s) = s[1]
    BY <1>1, <1>3, EmptySeq
  <2>4. \A i \in DOMAIN Tail(s) : i + 1 \in DOMAIN s /\ Tail(s)[i] = s[i + 1]
    BY <1>1, <2>1, <2>2
  <2> QED
    BY <2>3, <2>4 DEF Range
<1>4. ASSUME NEW k \in 0 .. Len(s)
      PROVE  Range(SubSeq(s, 1, k)) \subseteq Range(s)
  <2>1. \A i \in 1 .. k : s[i] \in S
    BY <1>1, ElementOfSeq
  <2>2. /\ SubSeq(s, 1, k) \in Seq(S)
        /\ Len(SubSeq(s, 1, k)) = IF 1 <= k THEN k - 1 + 1 ELSE 0
        /\ \A i \in 1 .. k - 1 + 1 : SubSeq(s, 1, k)[i] = s[1 + i - 1]
    BY <1>1, <2>1, SubSeqProperties
  <2>3. DOMAIN SubSeq(s, 1, k) = 1 .. Len(SubSeq(s, 1, k))
    BY <2>2, LenProperties
  <2>4. \A i \in DOMAIN SubSeq(s, 1, k) : i \in DOMAIN s /\ SubSeq(s, 1, k)[i] = s[i]
    BY <1>1, <2>2, <2>3
  <2> QED
    BY <2>4 DEF Range
<1>5. Range(s) \subseteq S
  BY <1>1, ElementOfSeq DEF Range
<1> QED
  BY <1>2, <1>3, <1>4, <1>5

\* flushOutbox sends operation o.
Sends(o) == \E ready \in BOOLEAN : memory' = Flushed(memory, ready) /\ o \in Chosen(memory, ready)

\* The message that carries operation o of outbox m.
Carried(o, m) == [op |-> o, number |-> m.number[o]]

LEMMA MessagesAfter ==
    ASSUME arriving \in [1 .. MaxLinks -> Seq(Message)], NEW n \in 1 .. MaxLinks, NEW s,
           arriving' = [arriving EXCEPT ![n] = s]
    PROVE  Messages' \subseteq Messages \cup Range(s)
BY DEF Messages

LEMMA TransmitNetwork ==
    ASSUME TypeInv, phase # "down", NEW o \in Op, Transmit(o, memory)
    PROVE  /\ Range(pending') \subseteq Range(pending) \cup {o}
           /\ Messages' \subseteq Messages \cup {Carried(o, memory)}
<1>1. /\ pending \in Seq(Op) /\ arriving \in [1 .. MaxLinks -> Seq(Message)]
      /\ link \in 1 .. MaxLinks /\ arriving[link] \in Seq(Message)
  BY OpIsNat DEF TypeInv, OutboxTypeOK, LinksOK
<1>2. CASE phase = "closing"
  <2>1. pending' = Append(pending, o) /\ arriving' = arriving
    BY <1>2 DEF Transmit
  <2> QED
    BY <1>1, <2>1, Elements DEF Messages
<1>3. CASE phase # "closing"
  <2> DEFINE s == Append(arriving[link], Carried(o, memory))
  <2>1. pending' = pending /\ arriving' = [arriving EXCEPT ![link] = s]
    BY <1>3 DEF Transmit, Sent, Carried
  <2>2. Carried(o, memory) \in Message
    BY IssuedType, MessageType DEF Carried
  <2>3. Range(s) = Range(arriving[link]) \cup {Carried(o, memory)}
    BY <1>1, <2>2, Elements
  <2> HIDE DEF s
  <2>4. Messages' \subseteq Messages \cup Range(s)
    BY <1>1, <2>1, MessagesAfter
  <2>5. Range(arriving[link]) \subseteq Messages
    BY <1>1 DEF Messages
  <2> QED
    BY <2>1, <2>3, <2>4, <2>5
<1> QED
  BY <1>2, <1>3

LEMMA FlushNetwork ==
    ASSUME TypeInv, NEW ready \in BOOLEAN, ready => phase # "down", Flush(ready)
    PROVE  /\ Range(pending') \subseteq Range(pending) \cup {o \in Op : Sends(o)}
           /\ Messages' \subseteq Messages \cup {Carried(o, memory) : o \in {p \in Op : Sends(p)}}
<1>1. memory \in Manager
  BY IssuedType
<1>2. CASE Chosen(memory, ready) = {}
  BY <1>2 DEF Flush, Messages
<1>3. CASE Chosen(memory, ready) # {}
  <2>1. PICK o \in Op : ready /\ Chosen(memory, ready) = {o}
    BY <1>1, <1>3, ChosenIsLowest, ManagerType
  <2>2. Transmit(o, memory) /\ Sends(o)
    BY <2>1 DEF Flush, Sends
  <2>3. /\ Range(pending') \subseteq Range(pending) \cup {o}
        /\ Messages' \subseteq Messages \cup {Carried(o, memory)}
    BY <2>1, <2>2, TransmitNetwork
  <2> QED
    BY <2>2, <2>3
<1> QED
  BY <1>2, <1>3

\* Without force-push, what a step puts on its way is what flushOutbox chose or what
\* was waiting for the connection, under the number it has in memory.
LEMMA NetworkStep ==
    ASSUME TypeInv, Next, ~user.forces
    PROVE  /\ Range(pending') \subseteq Range(pending) \cup {o \in Op : Sends(o)}
           /\ Messages' \subseteq Messages \cup
                 {Carried(o, memory) : o \in Range(pending) \cup {p \in Op : Sends(p)}}
<1> DEFINE Goal == /\ Range(pending') \subseteq Range(pending) \cup {o \in Op : Sends(o)}
                   /\ Messages' \subseteq Messages \cup
                         {Carried(o, memory) : o \in Range(pending) \cup {p \in Op : Sends(p)}}
<1>1. /\ pending \in Seq(Op) /\ arriving \in [1 .. MaxLinks -> Seq(Message)]
      /\ link \in 0 .. MaxLinks /\ Range(<<>>) = {}
  BY EmptySeq DEF TypeInv, OutboxTypeOK, Range
<1> SUFFICES Goal
  OBVIOUS
<1> HIDE DEF Goal
<1>2. ASSUME UNCHANGED <<pending, arriving>> PROVE Goal
  BY <1>2 DEF Messages, Goal
<1>3. ASSUME NEW ready \in BOOLEAN, ready => phase # "down", Flush(ready) PROVE Goal
  <2>1. /\ Range(pending') \subseteq Range(pending) \cup {o \in Op : Sends(o)}
        /\ Messages' \subseteq Messages \cup {Carried(o, memory) : o \in {p \in Op : Sends(p)}}
    BY <1>3, FlushNetwork
  <2> QED
    BY <2>1 DEF Goal
<1>4. ASSUME phase \in {"open", "ready"}, pending' = pending \/ pending' = <<>>,
             \E k \in 0 .. Len(arriving[link]) :
                arriving' = [arriving EXCEPT ![link] = SubSeq(@, 1, k)]
      PROVE  Goal
  <2>1. PICK k \in 0 .. Len(arriving[link]) :
            arriving' = [arriving EXCEPT ![link] = SubSeq(arriving[link], 1, k)]
    BY <1>4
  <2>2. link \in 1 .. MaxLinks /\ arriving[link] \in Seq(Message)
    BY <1>1, <1>4, OpIsNat DEF TypeInv, LinksOK
  <2>3. Range(SubSeq(arriving[link], 1, k)) \subseteq Range(arriving[link])
    BY <2>2, Elements
  <2>4. Messages' \subseteq Messages \cup Range(SubSeq(arriving[link], 1, k))
    BY <1>1, <2>1, <2>2, MessagesAfter
  <2>5. Range(arriving[link]) \subseteq Messages
    BY <2>2 DEF Messages
  <2> QED
    BY <1>1, <1>4, <2>3, <2>4, <2>5 DEF Goal
<1>5. ~SaveLands("send") /\ ~PushForced
  <2>1. forced = 0 /\ ~forcing
    BY DEF TypeInv, ForcedOK
  <2>2. ~PushForced
    BY <2>1 DEF PushForced
  <2>3. ASSUME SaveLands("send") PROVE FALSE
    <3>1. saving \in Seq(SaveRecord) /\ saving # <<>> /\ Head(saving).then = "send"
      BY <2>3 DEF SaveLands, TypeInv, OutboxTypeOK
    <3>2. 1 \in DOMAIN saving /\ saving[1].then = "send"
      BY <3>1, EmptySeq, LenProperties
    <3> QED
      BY <2>1, <3>2 DEF TypeInv, ForcedOK
  <2> QED
    BY <2>2, <2>3
<1>6. CASE Plugin
  <2>1. WriteReady \in BOOLEAN /\ (WriteReady => phase # "down")
    BY DEF WriteReady
  <2>2. CASE SavedThenFlush
    <3>1. Flush(WriteReady)
      BY <2>2 DEF SavedThenFlush
    <3> QED
      BY <1>3, <2>1, <3>1
  <2> QED
    BY <1>2, <1>5, <1>6, <2>2 DEF Plugin, HandleAck, HandleForcedReject, HandleReject, Saved,
                             SavedThenSend, SavedThenNotReady
<1>7. CASE User
  BY <1>2, <1>7 DEF User, EnqueueLocalChange, StartForcePush, PushForced, EndForcePush,
                    DiscardUnsent, ForceTimesOut, network
<1>8. CASE Connect
  <2> DEFINE s == [i \in DOMAIN pending |->
                      [op |-> pending[i], number |-> memory.number[pending[i]]]]
  <2>1. link + 1 \in 1 .. MaxLinks
    BY <1>1, <1>8, OpIsNat DEF Connect, TypeInv, LinksOK
  <2>2. arriving' = [arriving EXCEPT ![link + 1] = s] /\ pending' = <<>>
    BY <1>8 DEF Connect
  <2>3. Range(s) = {Carried(o, memory) : o \in Range(pending)}
    BY DEF Range, Carried
  <2> HIDE DEF s
  <2>4. Messages' \subseteq Messages \cup Range(s)
    BY <1>1, <2>1, <2>2, MessagesAfter
  <2> QED
    BY <1>1, <2>2, <2>3, <2>4 DEF Goal
<1>9. CASE FinishHandshake
  <2>1. Flush(TRUE) /\ phase # "down"
    BY <1>9 DEF FinishHandshake
  <2> QED
    BY <1>3, <2>1
<1>10. CASE SocketClosed
  BY <1>2, <1>10 DEF SocketClosed
<1>11. CASE Drop
  <2> QED
    BY <1>4, <1>11 DEF Drop
<1>12. CASE Restart
  <2>1. pending' = <<>>
    BY <1>12 DEF Restart
  <2>2. CASE phase \in {"open", "ready"}
    <3> QED
      BY <1>4, <1>12, <2>1, <2>2 DEF Restart
  <2>3. CASE ~(phase \in {"open", "ready"})
    <3>1. arriving' = arriving
      BY <1>12, <2>3 DEF Restart
    <3> QED
      BY <1>1, <2>1, <3>1 DEF Messages, Goal
  <2> QED
    BY <2>2, <2>3
<1>13. ASSUME NEW n \in 1 .. MaxLinks, Serve(n) PROVE Goal
  <2>1. PICK m : m = Head(arriving[n])
    OBVIOUS
  <2>2. /\ arriving[n] \in Seq(Message) /\ arriving[n] # <<>>
        /\ arriving' = [arriving EXCEPT ![n] = Tail(arriving[n])] /\ pending' = pending
    BY <1>13, <2>1, ServeCases DEF Serve
  <2>3. Range(Tail(arriving[n])) \subseteq Range(arriving[n])
    BY <2>2, Elements
  <2>4. Messages' \subseteq Messages \cup Range(Tail(arriving[n]))
    BY <1>1, <2>2, MessagesAfter
  <2>5. Range(arriving[n]) \subseteq Messages
    BY DEF Messages
  <2> QED
    BY <2>2, <2>3, <2>4, <2>5 DEF Goal
<1> QED
  BY <1>6, <1>7, <1>8, <1>9, <1>10, <1>11, <1>12, <1>13 DEF Next, Links, Faults

-----------------------------------------------------------------------------
(***************************************************************************)
(* The outbox in memory, step by step.                                     *)
(***************************************************************************)

\* What a step of such a user does to the outbox in memory.
PlainStep ==
    \/ UNCHANGED <<memory, issued>>
    \/ issued < user.ops /\ issued' = issued + 1 /\ memory' = Enqueued(memory, issued + 1)
    \/ /\ UNCHANGED issued
       /\ \/ \E o \in Accepted, s \in {"acked", "conflicted"} : memory' = WithStatus(memory, o, s)
          \/ \E o \in Op : memory' = WithStatus(memory, o, "queued")
          \/ /\ user.restarts = 0
             /\ \E o \in Present(memory) : memory' = RemovedAndReindexed(memory, o)
          \/ \E ready \in BOOLEAN : memory' = Flushed(memory, ready)
          \/ user.restarts # 0 /\ Restart

LEMMA PlainCases ==
    ASSUME TypeInv, AckInv, Plain, Next
    PROVE  PlainStep
<1>1. /\ user.restarts \in Nat /\ crashes \in 0 .. user.restarts /\ ~user.forces
      /\ user.restarts = 0 \/ "refuse" \notin Verdicts
  BY IssuedType DEF TypeInv, OutboxTypeOK, Plain
<1>2. ASSUME NEW i \in DOMAIN replies, UNCHANGED issued,
             \/ /\ replies[i].type \in {"ack", "conflict"}
                /\ memory' = Acknowledged(memory, replies[i])
             \/ replies[i].type = "retry" /\ memory' = Requeued(memory, replies[i].op)
             \/ /\ replies[i].type = "refuse"
                /\ memory' = RemovedAndReindexed(memory, replies[i].op)
      PROVE  PlainStep
  <2>1. PICK r \in Answer : r = replies[i] /\ TruthfulAnswer(r)
    <3>1. replies[i] \in Answer
      BY LenProperties, ElementOfSeq DEF TypeInv, OutboxTypeOK
    <3> QED
      BY <3>1 DEF AckInv
  <2>2. r.op \in Op
    BY DEF Answer
  <2>3. CASE r.type \in {"ack", "conflict"} /\ memory' = Acknowledged(memory, r)
    <3>1. r.op \in Accepted
      BY <2>1, <2>3 DEF TruthfulAnswer, Entry, Accepted
    <3>2. \E s \in {"acked", "conflicted"} : memory' = WithStatus(memory, r.op, s)
      BY <2>3 DEF Acknowledged
    <3> QED
      BY <1>2, <3>1, <3>2 DEF PlainStep
  <2>4. CASE memory' = Requeued(memory, r.op)
    BY <1>2, <2>2, <2>4 DEF Requeued, PlainStep
  <2>5. CASE r.type = "refuse" /\ memory' = RemovedAndReindexed(memory, r.op)
    <3>1. user.restarts = 0
      BY <1>1, <2>1, <2>5 DEF TruthfulAnswer
    <3>2. CASE r.op \in Present(memory)
      BY <1>2, <2>5, <3>1, <3>2 DEF PlainStep
    <3>3. CASE r.op \notin Present(memory)
      BY <1>2, <2>5, <3>3 DEF RemovedAndReindexed, PlainStep
    <3> QED
      BY <3>2, <3>3
  <2> QED
    BY <1>2, <2>1, <2>3, <2>4, <2>5
<1>3. CASE Restart
  <2>1. crashes < user.restarts /\ issued' = issued
    BY <1>3 DEF Restart
  <2>2. user.restarts # 0
    BY <1>1, <2>1
  <2> QED
    BY <1>3, <2>1, <2>2 DEF PlainStep
<1>4. CASE UNCHANGED <<memory, issued>>
  BY <1>4 DEF PlainStep
<1>5. CASE issued < user.ops /\ issued' = issued + 1 /\ memory' = Enqueued(memory, issued + 1)
  BY <1>5 DEF PlainStep
<1>6. ASSUME UNCHANGED issued, \E ready \in BOOLEAN : memory' = Flushed(memory, ready)
      PROVE  PlainStep
  BY <1>6 DEF PlainStep
<1>7. MemoryStep
  BY MemoryCases
<1> QED
  BY <1>1, <1>2, <1>3, <1>4, <1>5, <1>6, <1>7 DEF MemoryStep

\* Outbox e continues the one in memory.
Continues(e) ==
    /\ Born(memory) \subseteq Born(e)
    /\ \A o \in Born(memory) :
          /\ e.number[o] <= memory.number[o]
          /\ user.restarts # 0 => e.number[o] = memory.number[o]
    /\ \A o \in Present(e) : o \in Present(memory) \/ o > issued
    /\ Covered(e)
    /\ \A o \in Op : e.status[o] = "inflight" => e.number[o] <= Len(stream) + 1
    /\ Numbered(e)

\* What the invariant says of the outbox in memory.
LEMMA MemoryOK ==
    ASSUME TypeInv, PlainInv, Plain
    PROVE  /\ Sane(memory, issued) /\ memory \in Manager /\ issued \in Nat
           /\ SavedOK(memory) /\ ReturningOK(memory)
           /\ Len(stream) \in Nat
           /\ \A i \in DOMAIN stream : i \in Nat /\ i <= Len(stream)
<1>1. Len(stream) \in Nat /\ DOMAIN stream = 1 .. Len(stream)
  BY LenProperties DEF TypeInv, OutboxTypeOK
<1> QED
  BY <1>1, IssuedType DEF PlainInv, Copies, Returning

LEMMA ContinuesSame ==
    ASSUME TypeInv, PlainInv, Plain, NEW e \in Manager, e.number = memory.number,
           e.next = memory.next, Born(e) = Born(memory), Present(e) \subseteq Present(memory),
           Covered(e),
           \A o \in Op : e.status[o] = "inflight" => e.number[o] <= Len(stream) + 1
    PROVE  Continues(e)
<1>1. \A o \in Op : memory.number[o] \in Nat
  BY MemoryOK, ManagerType
<1>2. Born(memory) \subseteq Op
  BY DEF Born
<1>3. Kept(e) \subseteq Kept(memory)
  BY DEF Kept
<1>4. Numbered(e)
  BY <1>3, MemoryOK DEF ReturningOK, Numbered
<1> QED
  BY <1>1, <1>2, <1>4 DEF Continues

\* A number the server has taken is not one of those above: in the outbox, what it
\* has accepted has none.
LEMMA TakenIsBelow ==
    ASSUME TypeInv, PlainInv, Plain, NEW o \in Accepted, o \in Present(memory)
    PROVE  memory.number[o] <= Len(stream)
<1>1. PICK i \in DOMAIN stream : stream[i].op = o
  BY DEF Accepted
<1>2. [op |-> o, number |-> i] \in Taken
  BY <1>1 DEF Taken
<1>3. memory.number[o] <= i
  BY <1>2, MemoryOK DEF ReturningOK, Follows
<1> QED
  BY <1>3, MemoryOK, ManagerType DEF Present

\* flushOutbox chooses an operation whose number the server has seen, or the next.
LEMMA ChosenIsNext ==
    ASSUME TypeInv, PlainInv, Plain, NEW ready, NEW o \in Chosen(memory, ready)
    PROVE  o \in Retryable(memory) /\ memory.number[o] <= Len(stream) + 1
<1>1. /\ o \in Candidates(memory) /\ o \in Retryable(memory)
      /\ \A p \in Candidates(memory) : memory.number[o] <= memory.number[p]
  BY MemoryOK, ChosenIsLowest
<1>2. o \in Op /\ o \in Present(memory) /\ memory.number[o] \in 1 .. memory.next - 1
      /\ memory.next \in Nat /\ memory.number[o] \in Nat
  BY <1>1, MemoryOK, ManagerType DEF Sane
<1>3. CASE Retryable(memory) \ Queued(memory) # {}
  <2>1. memory.status[o] = "inflight"
    BY <1>1, <1>2, <1>3 DEF Candidates, Retryable, Queued
  <2> QED
    BY <1>1, <1>2, <2>1, MemoryOK DEF SavedOK
<1>4. CASE Retryable(memory) \ Queued(memory) = {}
  <2>1. Candidates(memory) = Retryable(memory)
    BY <1>4, MemoryOK, ManagerType DEF Candidates
  <2>2. ASSUME memory.number[o] > Len(stream) + 1
        PROVE  FALSE
    <3>1. Len(stream) + 1 \in Len(stream) + 1 .. memory.next - 1
      BY <1>2, <2>2, MemoryOK
    <3>2. PICK p \in Retryable(memory) : memory.number[p] = Len(stream) + 1
      BY <3>1, MemoryOK DEF SavedOK, Covered
    <3>3. memory.number[o] <= Len(stream) + 1
      BY <1>1, <2>1, <3>2
    <3> QED
      BY <1>2, <2>2, <3>3, MemoryOK
  <2> QED
    BY <1>1, <1>2, <2>2, MemoryOK
<1> QED
  BY <1>3, <1>4

LEMMA EnqueuedContinues ==
    ASSUME TypeInv, PlainInv, Plain, issued < MaxOps
    PROVE  Continues(Enqueued(memory, issued + 1))
<1> DEFINE e == Enqueued(memory, issued + 1)
<1>2. /\ Sane(memory, issued) /\ memory \in Manager /\ issued \in Nat /\ Len(stream) \in Nat
      /\ SavedOK(memory) /\ Numbered(memory)
  BY MemoryOK DEF ReturningOK
<1>3. /\ Sane(e, issued + 1)
      /\ memory.status[issued + 1] = "unborn" /\ e.number[issued + 1] = memory.next
      /\ Born(e) = Born(memory) \cup {issued + 1}
      /\ Present(e) = Present(memory) \cup {issued + 1}
      /\ Retryable(e) = Retryable(memory) \cup {issued + 1}
      /\ e.status[issued + 1] = "queued" /\ e.next = memory.next + 1
      /\ \A o \in Op \ {issued + 1} :
            e.number[o] = memory.number[o] /\ e.status[o] = memory.status[o]
  BY <1>2, SaneEnqueued
<1> HIDE DEF e
<1>4. /\ \A o \in Born(memory) : o \in Op /\ o \in Nat /\ o <= issued /\ o # issued + 1
                                 /\ memory.number[o] \in Nat
      /\ memory.next \in Nat /\ issued + 1 \notin Born(memory)
  BY <1>2, ManagerType, OpIsNat DEF Sane
<1>5. \A o \in Born(memory) : e.number[o] = memory.number[o]
  BY <1>3, <1>4
<1>6. \A o \in Present(e) : o \in Present(memory) \/ o > issued
  BY <1>2, <1>3
<1>7. Covered(e)
  <2> SUFFICES ASSUME NEW k \in Len(stream) + 1 .. memory.next
               PROVE  \E o \in Retryable(e) : e.number[o] = k
    BY <1>3, <1>4 DEF Covered
  <2>1. CASE k = memory.next
    BY <1>3, <2>1
  <2>2. CASE k # memory.next
    <3>1. k \in Len(stream) + 1 .. memory.next - 1
      BY <1>2, <1>4, <2>2
    <3>2. PICK o \in Retryable(memory) : memory.number[o] = k
      BY <1>2, <3>1 DEF SavedOK, Covered
    <3>3. o \in Born(memory) /\ o \in Retryable(e)
      BY <1>2, <1>3, ManagerType
    <3> QED
      BY <1>5, <3>2, <3>3
  <2> QED
    BY <2>1, <2>2
<1>8. ASSUME NEW o \in Op, e.status[o] = "inflight"
      PROVE  e.number[o] <= Len(stream) + 1
  <2>1. o # issued + 1
    BY <1>3, <1>8
  <2> QED
    BY <1>2, <1>3, <1>8, <2>1 DEF SavedOK
<1>9. Numbered(e)
  <2> SUFFICES ASSUME NEW o \in Kept(e)
               PROVE  /\ e.number[o] < e.next
                      /\ \A p \in Born(e) : o < p => e.number[o] < e.number[p]
    BY DEF Numbered
  <2>1. CASE o = issued + 1
    <3>1. \A p \in Born(e) : ~(o < p)
      BY <1>2, <1>3, <1>4, <2>1
    <3> QED
      BY <1>3, <1>4, <2>1, <3>1
  <2>2. CASE o # issued + 1
    <3>1. o \in Kept(memory) /\ o \in Born(memory)
      BY <1>2, <1>3, <2>2, ManagerType DEF Kept
    <3>2. e.number[o] = memory.number[o] /\ memory.number[o] < memory.next
          /\ \A p \in Born(memory) : o < p => memory.number[o] < memory.number[p]
      BY <1>2, <1>5, <3>1 DEF Numbered
    <3> QED
      BY <1>3, <1>4, <1>5, <3>1, <3>2
  <2> QED
    BY <2>1, <2>2
<1>10. \A o \in Born(memory) : e.number[o] <= memory.number[o]
  BY <1>4, <1>5
<1> QED
  BY <1>3, <1>5, <1>6, <1>7, <1>8, <1>9, <1>10 DEF Continues, e

LEMMA ReindexedContinues ==
    ASSUME TypeInv, PlainInv, Plain, user.restarts = 0, NEW q \in Present(memory)
    PROVE  Continues(RemovedAndReindexed(memory, q))
<1>1. PICK e : e = RemovedAndReindexed(memory, q)
  OBVIOUS
<1>2. /\ Sane(memory, issued) /\ memory \in Manager /\ issued \in Nat /\ Len(stream) \in Nat
      /\ SavedOK(memory) /\ Numbered(memory)
  BY MemoryOK DEF ReturningOK
<1>3. /\ Sane(e, issued)
      /\ Born(e) = Born(memory) /\ Present(e) = Present(memory) \ {q}
      /\ Retryable(e) = Retryable(memory) \ {q}
      /\ e.next = memory.next - 1
      /\ e.status[q] = "dropped"
      /\ \A p \in Op \ {q} : e.status[p] = memory.status[p]
      /\ \A p \in Op : e.number[p] = IF p \in Present(memory) /\ memory.number[p] > memory.number[q]
                                     THEN memory.number[p] - 1 ELSE memory.number[p]
  BY <1>1, <1>2, SaneReindexed
<1>4. /\ \A o \in Op : memory.number[o] \in Nat /\ e.number[o] <= memory.number[o]
      /\ Born(memory) \subseteq Op /\ memory.next \in Nat /\ q \in Op
      /\ Retryable(memory) \subseteq Present(memory) /\ Present(memory) \subseteq Op
  <2>1. \A o \in Op : memory.number[o] \in Nat
    BY <1>2, ManagerType
  <2> QED
    BY <1>2, <1>3, <2>1, ManagerType
<1>5. Covered(e)
  <2> SUFFICES ASSUME NEW k \in Len(stream) + 1 .. memory.next - 2
               PROVE  \E o \in Retryable(e) : e.number[o] = k
    BY <1>3, <1>4 DEF Covered
  <2>1. CASE k < memory.number[q]
    <3>1. k \in Len(stream) + 1 .. memory.next - 1
      BY <1>2, <1>4
    <3>2. PICK o \in Retryable(memory) : memory.number[o] = k
      BY <1>2, <3>1 DEF SavedOK, Covered
    <3>3. o # q /\ ~(memory.number[o] > memory.number[q]) /\ o \in Op
      BY <1>2, <1>4, <2>1, <3>2
    <3> QED
      BY <1>3, <3>2, <3>3
  <2>2. CASE ~(k < memory.number[q])
    <3>1. k + 1 \in Len(stream) + 1 .. memory.next - 1
      BY <1>2, <1>4
    <3>2. PICK o \in Retryable(memory) : memory.number[o] = k + 1
      BY <1>2, <3>1 DEF SavedOK, Covered
    <3>3. memory.number[o] > memory.number[q] /\ o \in Op /\ o \in Present(memory) /\ k \in Nat
      BY <1>2, <1>4, <2>2, <3>2
    <3>4. o # q
      BY <1>4, <3>3
    <3>5. e.number[o] = k
      BY <1>3, <3>2, <3>3
    <3> QED
      BY <1>3, <3>2, <3>4, <3>5
  <2> QED
    BY <2>1, <2>2
<1>6. ASSUME NEW o \in Op, e.status[o] = "inflight"
      PROVE  e.number[o] <= Len(stream) + 1
  <2>1. o # q
    BY <1>3, <1>6
  <2>2. memory.number[o] <= Len(stream) + 1 /\ memory.number[o] \in Nat
    BY <1>2, <1>3, <1>4, <1>6, <2>1 DEF SavedOK
  <2>3. e.number[o] \in Nat
    BY <1>3, ManagerType DEF Sane
  <2> QED
    BY <1>2, <1>4, <2>2, <2>3
<1>7. Numbered(e)
  <2>1. Kept(e) = Present(e) /\ \A o \in Present(e) : e.number[o] \in 1 .. e.next - 1
    BY <1>3 DEF Kept, Sane
  <2>2. \A o \in Present(e) : e.number[o] < e.next
    BY <1>3, <1>4, <2>1
  <2> QED
    BY <1>3, <2>1, <2>2 DEF Numbered, Sane
<1>8. \A o \in Present(e) : o \in Present(memory)
  BY <1>3
<1> QED
  BY <1>1, <1>3, <1>4, <1>5, <1>6, <1>7, <1>8 DEF Continues

LEMMA StatusContinues ==
    ASSUME TypeInv, PlainInv, Plain, NEW o \in Op, NEW s \in {"acked", "conflicted", "queued"},
           s = "queued" \/ o \in Accepted
    PROVE  Continues(WithStatus(memory, o, s))
<1> DEFINE e == WithStatus(memory, o, s)
<1>1. /\ Sane(memory, issued) /\ memory \in Manager /\ issued \in Nat /\ Len(stream) \in Nat
      /\ SavedOK(memory) /\ Numbered(memory) /\ s \in Status \ {"unborn"}
  BY MemoryOK DEF ReturningOK, Status
<1>2. /\ Sane(e, issued) /\ e.number = memory.number /\ e.next = memory.next
      /\ Born(e) = Born(memory) /\ Present(e) \subseteq Present(memory)
      /\ \A p \in Op : e.status[p] = IF p = o /\ o \in Present(memory) THEN s ELSE memory.status[p]
  BY <1>1, SaneWithStatus
<1> HIDE DEF e
<1>3. Covered(e)
  <2> SUFFICES ASSUME NEW k \in Len(stream) + 1 .. memory.next - 1
               PROVE  \E p \in Retryable(e) : e.number[p] = k
    BY <1>2 DEF Covered
  <2>1. PICK p \in Retryable(memory) : memory.number[p] = k
    BY <1>1 DEF SavedOK, Covered
  <2>2. p \in Op /\ p \in Present(memory) /\ p \in Retryable(memory)
    BY <1>1, ManagerType DEF Retryable
  <2>3. p = o => s = "queued"
    <3>1. ASSUME p = o, o \in Accepted PROVE FALSE
      <4>1. memory.number[p] <= Len(stream)
        BY <2>2, <3>1, TakenIsBelow
      <4> QED
        BY <1>1, <2>1, <4>1
    <3> QED
      BY <3>1
  <2>4. p \in Retryable(e)
    BY <1>2, <2>2, <2>3 DEF Retryable
  <2> QED
    BY <1>2, <2>1, <2>4
<1>4. \A p \in Op : e.status[p] = "inflight" => e.number[p] <= Len(stream) + 1
  BY <1>1, <1>2 DEF SavedOK
<1>5. e \in Manager
  BY <1>2 DEF Sane
<1>6. Continues(e)
  BY <1>2, <1>3, <1>4, <1>5, ContinuesSame
<1> QED
  BY <1>6 DEF e

LEMMA FlushedContinues ==
    ASSUME TypeInv, PlainInv, Plain, NEW ready
    PROVE  Continues(Flushed(memory, ready))
<1> DEFINE e == Flushed(memory, ready)
<1>1. /\ Sane(memory, issued) /\ issued \in Nat /\ SavedOK(memory)
  BY MemoryOK
<1>2. /\ Sane(e, issued)
      /\ e.number = memory.number /\ e.next = memory.next
      /\ Born(e) = Born(memory) /\ Present(e) = Present(memory)
      /\ Retryable(e) = Retryable(memory)
      /\ \A p \in Op : e.status[p] = IF p \in Chosen(memory, ready) THEN "inflight"
                                     ELSE memory.status[p]
  BY <1>1, SaneFlushed
<1> HIDE DEF e
<1>3. Covered(e)
  BY <1>1, <1>2 DEF SavedOK, Covered
<1>4. ASSUME NEW p \in Op, e.status[p] = "inflight"
      PROVE  e.number[p] <= Len(stream) + 1
  <2>1. CASE p \in Chosen(memory, ready)
    BY <1>2, <2>1, ChosenIsNext
  <2>2. CASE p \notin Chosen(memory, ready)
    BY <1>1, <1>2, <1>4, <2>2 DEF SavedOK
  <2> QED
    BY <2>1, <2>2
<1>5. e \in Manager
  BY <1>2 DEF Sane
<1>6. Continues(e)
  BY <1>2, <1>3, <1>4, <1>5, ContinuesSame
<1> QED
  BY <1>6 DEF e

LEMMA PlainContinues ==
    ASSUME TypeInv, AckInv, PlainInv, Plain, Next
    PROVE  Continues(memory') \/ (user.restarts # 0 /\ Restart)
<1>1. /\ memory \in Manager /\ SavedOK(memory) /\ issued <= user.ops /\ user.ops <= MaxOps
      /\ issued \in Nat /\ user.ops \in Nat /\ MaxOps \in Nat
  BY MemoryOK, IssuedType, OpIsNat
<1>2. CASE UNCHANGED <<memory, issued>>
  <2>1. Continues(memory)
    BY <1>1, ContinuesSame DEF SavedOK
  <2> QED
    BY <1>2, <2>1
<1>3. CASE issued < user.ops /\ memory' = Enqueued(memory, issued + 1)
  <2>1. issued < MaxOps
    BY <1>1, <1>3
  <2>2. Continues(Enqueued(memory, issued + 1))
    BY <2>1, EnqueuedContinues
  <2> QED
    BY <1>3, <2>2
<1>4. ASSUME NEW o \in Accepted, NEW s \in {"acked", "conflicted"},
             memory' = WithStatus(memory, o, s)
      PROVE  Continues(memory')
  <2>1. o \in Op
    <3>1. PICK i \in DOMAIN stream : o = stream[i].op
      BY DEF Accepted
    <3>2. stream[i] \in Row
      BY LenProperties, ElementOfSeq DEF TypeInv, OutboxTypeOK
    <3> QED
      BY <3>1, <3>2 DEF Row
  <2>2. Continues(WithStatus(memory, o, s))
    BY <2>1, StatusContinues
  <2> QED
    BY <1>4, <2>2
<1>5. ASSUME NEW o \in Op, memory' = WithStatus(memory, o, "queued")
      PROVE  Continues(memory')
  <2>1. Continues(WithStatus(memory, o, "queued"))
    BY StatusContinues
  <2> QED
    BY <1>5, <2>1
<1>6. ASSUME user.restarts = 0, NEW o \in Present(memory), memory' = RemovedAndReindexed(memory, o)
      PROVE  Continues(memory')
  <2>1. Continues(RemovedAndReindexed(memory, o))
    BY <1>6, ReindexedContinues
  <2> QED
    BY <1>6, <2>1
<1>7. ASSUME NEW ready, memory' = Flushed(memory, ready)
      PROVE  Continues(memory')
  <2>1. Continues(Flushed(memory, ready))
    BY FlushedContinues
  <2> QED
    BY <1>7, <2>1
<1> QED
  BY <1>2, <1>3, <1>4, <1>5, <1>6, <1>7, PlainCases DEF PlainStep

-----------------------------------------------------------------------------
(***************************************************************************)
(* The network, step by step.                                              *)
(***************************************************************************)

\* Of an operation that is in the outbox with the next number, nothing later has been
\* accepted.
LEMMA FreshInMemory ==
    ASSUME TypeInv, PlainInv, Plain, NEW o \in Present(memory),
           memory.number[o] <= Len(stream) + 1
    PROVE  Fresh(o, memory.number[o])
<1> SUFFICES ASSUME memory.number[o] = Len(stream) + 1, o \notin Accepted, NEW p \in Accepted
             PROVE  p < o
  BY DEF Fresh
<1>1. PICK i \in DOMAIN stream : stream[i].op = p
  BY DEF Accepted
<1>2. [op |-> p, number |-> i] \in Taken
  BY <1>1 DEF Taken
<1>3. Follows(memory, p, i) /\ i \in Nat /\ i <= Len(stream) /\ Len(stream) \in Nat
  BY <1>2, MemoryOK DEF ReturningOK
<1>4. ~(o < p)
  BY <1>3 DEF Follows
<1>5. o \in Nat /\ p \in Nat
  <2>1. stream[i] \in Row
    BY LenProperties, ElementOfSeq DEF TypeInv, OutboxTypeOK
  <2> QED
    BY <1>1, <2>1, OpIsNat DEF Row, Present
<1> QED
  BY <1>4, <1>5

\* What a step may put on its way.
LEMMA GoesOut ==
    ASSUME TypeInv, PlainInv, Plain, NEW o \in Op, o \in Range(pending) \/ Sends(o)
    PROVE  /\ o \in Born(memory) /\ o <= issued
           /\ memory.number[o] \in Nat
           /\ Fresh(o, memory.number[o])
           /\ \A m \in Returning : Follows(m, o, memory.number[o])
<1>1. /\ Sane(memory, issued) /\ memory \in Manager /\ Numbered(memory)
  BY MemoryOK DEF ReturningOK
<1>2. o \in Born(memory) /\ Fresh(o, memory.number[o])
  <2>1. CASE o \in Range(pending)
    BY <2>1 DEF PlainInv
  <2>2. CASE Sends(o)
    <3>1. o \in Retryable(memory) /\ memory.number[o] <= Len(stream) + 1
      BY <2>2, ChosenIsNext DEF Sends
    <3>2. o \in Present(memory) /\ o \in Born(memory)
      BY <1>1, <3>1, ManagerType
    <3> QED
      BY <3>1, <3>2, FreshInMemory
  <2> QED
    BY <2>1, <2>2
<1>3. Follows(memory, o, memory.number[o])
  BY <1>1, <1>2, ManagerType DEF Sane, Follows
<1>4. ASSUME user.restarts # 0, NEW m \in Copies
      PROVE  Follows(m, o, memory.number[o])
  <2>1. SavedOK(m) /\ ReturningOK(m) /\ Sane(m, issued)
    BY <1>4 DEF PlainInv, Returning, TypeInv, OutboxTypeOK
  <2>2. Present(m) \subseteq Born(m) /\ Born(m) \subseteq Born(memory)
        /\ \A p \in Born(m) : m.number[p] = memory.number[p]
    BY <2>1, ManagerType DEF SavedOK, ReturningOK, Sane
  <2>3. \A p \in Born(memory) : p < o => memory.number[p] < memory.number[o]
    BY <1>1, <1>2, <1>4 DEF Numbered, Kept
  <2>4. memory.number[o] \in Nat
    BY <1>1, ManagerType
  <2> QED
    BY <2>2, <2>3, <2>4 DEF Follows
<1>5. memory.number[o] \in Nat /\ o <= issued
  BY <1>1, <1>2, ManagerType DEF Sane
<1> QED
  BY <1>2, <1>3, <1>4, <1>5 DEF Returning

\* What the server takes was on its way, under the number it gets.
LEMMA StreamPlain ==
    ASSUME TypeInv, PlainInv, Plain, Next
    PROVE  /\ Len(stream) \in Nat
           /\ \/ UNCHANGED stream
              \/ Len(stream') = Len(stream) + 1
           /\ Accepted \subseteq Accepted'
           /\ Accepted' \subseteq Accepted \cup {x.op : x \in Messages}
           /\ Taken' \subseteq Taken \cup Messages
<1>0. Len(stream) \in Nat
  BY MemoryOK
<1>1. CASE UNCHANGED stream
  BY <1>0, <1>1 DEF Accepted, Taken
<1>2. ASSUME NEW n \in 1 .. MaxLinks, Serve(n), stream' # stream
      PROVE  /\ Len(stream') = Len(stream) + 1
             /\ Accepted \subseteq Accepted'
             /\ Accepted' \subseteq Accepted \cup {x.op : x \in Messages}
             /\ Taken' \subseteq Taken \cup Messages
  <2>1. PICK m : m = Head(arriving[n])
    OBVIOUS
  <2>2. /\ m \in Message /\ arriving[n] # <<>> /\ arriving[n] \in Seq(Message)
        /\ StreamStep(m)
    BY <1>2, <2>1, ServeCases
  <2>3. PICK c \in BOOLEAN : /\ InSequence(m)
                             /\ stream' = Append(stream, [op |-> m.op, conflict |-> c])
    BY <1>2, <2>2 DEF StreamStep
  <2>4. stream \in Seq(Row)
    BY DEF TypeInv, OutboxTypeOK
  <2>5. /\ Len(stream') = Len(stream) + 1
        /\ DOMAIN stream = 1 .. Len(stream) /\ DOMAIN stream' = 1 .. Len(stream) + 1
        /\ \A i \in DOMAIN stream : stream'[i] = stream[i]
        /\ stream'[Len(stream) + 1] = [op |-> m.op, conflict |-> c]
        /\ Accepted' = Accepted \cup {m.op}
    BY <2>2, <2>3, <2>4, StreamGrows
  <2>6. m \in Messages
    BY <2>1, <2>2, Elements DEF Messages
  <2>7. m = [op |-> m.op, number |-> Len(stream) + 1]
    BY <2>2, <2>3 DEF Message, InSequence
  <2>8. ASSUME NEW i \in DOMAIN stream'
        PROVE  [op |-> stream'[i].op, number |-> i] \in Taken \cup Messages
    <3>1. CASE i \in DOMAIN stream
      BY <2>5, <3>1 DEF Taken
    <3>2. CASE i = Len(stream) + 1
      <4>1. stream'[i].op = m.op
        BY <2>5, <3>2
      <4> QED
        BY <2>6, <2>7, <3>2, <4>1
    <3> QED
      BY <1>0, <2>5, <3>1, <3>2
  <2>9. Taken' \subseteq Taken \cup Messages
    BY <2>8 DEF Taken
  <2> QED
    BY <2>5, <2>6, <2>9
<1> QED
  BY <1>0, <1>1, <1>2, StreamCases

\* What may go out may still go out, under that number or one the server has seen.
LEMMA FreshLater ==
    ASSUME TypeInv, PlainInv, Plain, Next, NEW o, NEW k \in Nat, Fresh(o, k),
           NEW j \in Nat, j <= k
    PROVE  Fresh(o, j)'
<1>1. Len(stream) \in Nat /\ k <= Len(stream) + 1
  BY MemoryOK DEF Fresh
<1>2. CASE UNCHANGED stream
  <2>1. Accepted' = Accepted
    BY <1>2 DEF Accepted
  <2> QED
    BY <1>1, <1>2, <2>1 DEF Fresh
<1>3. CASE Len(stream') = Len(stream) + 1
  BY <1>1, <1>3 DEF Fresh
<1> QED
  BY <1>2, <1>3, StreamPlain

\* Every outbox that may return follows what is on its way and what has been taken.
LEMMA StillFollows ==
    ASSUME TypeInv, PlainInv, Plain, Next, NEW x \in Messages' \cup Taken'
    PROVE  /\ x.op \in Op /\ x.number \in Nat /\ x.op <= issued
           /\ \A m \in Returning : Follows(m, x.op, x.number)
<1>1. \A y \in Messages : y \in Message
  BY Elements DEF Messages, TypeInv, OutboxTypeOK
<1>2. \A y \in Taken : y.op \in Op /\ y.number \in Nat /\ y.op \in Accepted
  <2> SUFFICES ASSUME NEW i \in DOMAIN stream
               PROVE  stream[i].op \in Op /\ i \in Nat /\ stream[i].op \in Accepted
    BY DEF Taken
  <2>1. stream[i] \in Row
    BY LenProperties, ElementOfSeq DEF TypeInv, OutboxTypeOK
  <2> QED
    BY <2>1, MemoryOK DEF Row, Accepted
<1>3. CASE x \in Messages \cup Taken
  <2>1. x.op <= issued
    BY <1>2, <1>3 DEF PlainInv
  <2>2. x.op \in Op /\ x.number \in Nat
    BY <1>1, <1>2, <1>3 DEF Message
  <2>3. \A m \in Returning : Follows(m, x.op, x.number)
    BY <1>3 DEF PlainInv, ReturningOK
  <2> QED
    BY <2>1, <2>2, <2>3
<1>4. ASSUME NEW o \in Op, o \in Range(pending) \/ Sends(o), x = Carried(o, memory)
      PROVE  /\ x.op \in Op /\ x.number \in Nat /\ x.op <= issued
             /\ \A m \in Returning : Follows(m, x.op, x.number)
  <2>1. x.op = o /\ x.number = memory.number[o]
    BY <1>4 DEF Carried
  <2> QED
    BY <1>4, <2>1, GoesOut
<1>5. Range(pending) \subseteq Op
  BY Elements DEF TypeInv, OutboxTypeOK
<1> QED
  BY <1>3, <1>4, <1>5, NetworkStep, StreamPlain DEF Plain

-----------------------------------------------------------------------------
(***************************************************************************)
(* The invariant.                                                          *)
(***************************************************************************)

\* What was saved stays good, whatever the server takes in the meantime.
LEMMA SavedLater ==
    ASSUME TypeInv, AckInv, PlainInv, Plain, Next, NEW m \in Copies'
    PROVE  SavedOK(m)'
<1>1. /\ Len(stream) \in Nat /\ Len(stream') \in {Len(stream), Len(stream) + 1}
  BY StreamPlain
<1>2. m \in Manager /\ (\A o \in Op : m.number[o] \in Nat) /\ m.next \in Nat
  <2>1. m \in Manager
    BY CopiesStaySane DEF Sane
  <2> QED
    BY <2>1, ManagerType
<1>3. ASSUME Covered(m), \A o \in Op : m.status[o] = "inflight" => m.number[o] <= Len(stream) + 1,
             Born(m) \subseteq Born(memory')
      PROVE  SavedOK(m)'
  <2>1. Covered(m)'
    <3> SUFFICES ASSUME NEW k \in Len(stream') + 1 .. m.next - 1
                 PROVE  \E o \in Retryable(m) : m.number[o] = k
      BY DEF Covered
    <3>1. k \in Len(stream) + 1 .. m.next - 1
      BY <1>1, <1>2
    <3> QED
      BY <1>3, <3>1 DEF Covered
  <2>2. \A o \in Op : m.status[o] = "inflight" => m.number[o] <= Len(stream') + 1
    BY <1>1, <1>2, <1>3
  <2> QED
    BY <1>3, <2>1, <2>2 DEF SavedOK
<1>4. CASE Continues(memory')
  <2>1. CASE m = memory'
    <3>1. Covered(m) /\ \A o \in Op : m.status[o] = "inflight" => m.number[o] <= Len(stream) + 1
      BY <1>4, <2>1 DEF Continues
    <3> QED
      BY <1>3, <2>1, <3>1
  <2>2. CASE m \in Copies
    BY <1>3, <1>4, <2>2 DEF PlainInv, SavedOK, Continues
  <2> QED
    BY <2>1, <2>2, CopiesStep
<1>5. CASE Restart
  <2>1. memory' = disk /\ saving' = <<>> /\ disk' = disk
    BY <1>5, IssuedType, LoadedIsSame DEF Restart
  <2>2. m = disk
    <3>1. \A i \in DOMAIN saving' : FALSE
      BY <2>1, EmptySeq
    <3> QED
      BY <2>1, <3>1 DEF Copies
  <2>3. SavedOK(disk)
    BY DEF PlainInv, Copies
  <2> QED
    BY <1>3, <2>1, <2>2, <2>3 DEF SavedOK
<1> QED
  BY <1>4, <1>5, PlainContinues

\* The outbox in memory follows what it followed before, and what goes out of it.
LEMMA MemoryFollows ==
    ASSUME TypeInv, AckInv, PlainInv, Plain, Next, Continues(memory'),
           NEW x \in Messages' \cup Taken'
    PROVE  Follows(memory', x.op, x.number)
<1>1. /\ x.op \in Op /\ x.number \in Nat /\ x.op <= issued /\ Follows(memory, x.op, x.number)
      /\ x.op \in Nat /\ issued \in Nat
  BY StillFollows, MemoryOK, OpIsNat DEF Returning, Copies
<1>2. /\ \A p \in Op : p \in Nat /\ memory.number[p] \in Nat /\ memory'.number[p] \in Nat
      /\ Present(memory') \subseteq Op /\ Present(memory) \subseteq Born(memory)
  <2>1. memory' \in Manager
    BY MemoryCases, MemoryStaysSane DEF Sane
  <2> QED
    BY <2>1, MemoryOK, ManagerType, OpIsNat
<1>3. ASSUME NEW p \in Present(memory'), p <= x.op
      PROVE  p \in Present(memory) /\ memory'.number[p] <= memory.number[p]
             /\ memory'.number[p] \in Nat /\ memory.number[p] \in Nat
  <2>1. p \in Nat /\ p \in Op
    BY <1>2
  <2>2. ~(p > issued)
    BY <1>1, <1>3, <2>1
  <2>3. p \in Present(memory)
    BY <2>2 DEF Continues
  <2> QED
    BY <1>2, <2>1, <2>3 DEF Continues
<1>4. ASSUME NEW p \in Present(memory'), p < x.op
      PROVE  memory'.number[p] < x.number
  <2>1. p <= x.op /\ p \in Nat
    BY <1>1, <1>2, <1>4
  <2>2. p \in Present(memory) /\ memory'.number[p] <= memory.number[p]
        /\ memory'.number[p] \in Nat /\ memory.number[p] \in Nat
    BY <1>3, <2>1
  <2>3. memory.number[p] < x.number
    BY <1>1, <1>4, <2>2 DEF Follows
  <2> QED
    BY <1>1, <2>2, <2>3
<1>5. ASSUME x.op \in Present(memory')
      PROVE  memory'.number[x.op] <= x.number
  <2>1. x.op \in Present(memory) /\ memory'.number[x.op] <= memory.number[x.op]
        /\ memory'.number[x.op] \in Nat /\ memory.number[x.op] \in Nat
    BY <1>1, <1>3, <1>5
  <2>2. memory.number[x.op] <= x.number
    BY <1>1, <2>1 DEF Follows
  <2> QED
    BY <1>1, <2>1, <2>2
<1> QED
  BY <1>4, <1>5 DEF Follows

LEMMA ReturningLater ==
    ASSUME TypeInv, AckInv, PlainInv, Plain, Next, UNCHANGED user, NEW m \in Returning'
    PROVE  ReturningOK(m)'
<1>1. user' = user
  OBVIOUS
<1>2. \A x \in Messages' \cup Taken' : \A q \in Returning : Follows(q, x.op, x.number)
  BY StillFollows
<1>3. ASSUME Numbered(m), \A o \in Born(m) : m.number[o] = memory'.number[o],
             \A x \in Messages' \cup Taken' : Follows(m, x.op, x.number)
      PROVE  ReturningOK(m)'
  <2>1. Numbered(m)'
    BY <1>1, <1>3 DEF Numbered, Kept
  <2> QED
    BY <1>3, <2>1 DEF ReturningOK
<1>4. CASE Continues(memory')
  <2>1. CASE m = memory'
    <3>1. Numbered(m)
      BY <1>4, <2>1 DEF Continues
    <3>2. \A x \in Messages' \cup Taken' : Follows(m, x.op, x.number)
      BY <1>4, <2>1, MemoryFollows
    <3> QED
      BY <1>3, <2>1, <3>1, <3>2
  <2>2. CASE m # memory'
    <3>1. user.restarts # 0 /\ m \in Copies'
      BY <1>1, <2>2 DEF Returning
    <3>2. m \in Copies /\ m \in Returning
      BY <2>2, <3>1, CopiesStep DEF Returning
    <3>3. ReturningOK(m) /\ SavedOK(m)
      BY <3>2 DEF PlainInv
    <3>4. \A o \in Born(m) : m.number[o] = memory'.number[o]
      BY <1>4, <3>1, <3>3 DEF ReturningOK, SavedOK, Continues
    <3> QED
      BY <1>2, <1>3, <3>2, <3>3, <3>4 DEF ReturningOK
  <2> QED
    BY <2>1, <2>2
<1>5. CASE user.restarts # 0 /\ Restart
  <2>1. memory' = disk /\ saving' = <<>> /\ disk' = disk
    BY <1>5, IssuedType, LoadedIsSame DEF Restart
  <2>2. m = disk
    <3>1. \A i \in DOMAIN saving' : FALSE
      BY <2>1, EmptySeq
    <3> QED
      BY <2>1, <3>1 DEF Returning, Copies
  <2>3. disk \in Returning
    BY <1>5 DEF Returning, Copies
  <2>4. Numbered(disk)
    BY <2>3 DEF PlainInv, ReturningOK
  <2> QED
    BY <1>2, <1>3, <2>1, <2>2, <2>3, <2>4
<1> QED
  BY <1>4, <1>5, PlainContinues

LEMMA NextPlainInv ==
    ASSUME TypeInv, AckInv, PlainInv, [Next /\ UNCHANGED user]_<<outboxVars, user>>
    PROVE  PlainInv'
<1>1. CASE Next /\ UNCHANGED user
  <2> SUFFICES ASSUME Plain
               PROVE  /\ \A m \in Copies' : SavedOK(m)'
                      /\ \A m \in Returning' : ReturningOK(m)'
                      /\ \A x \in Messages' : x.op <= issued' /\ Fresh(x.op, x.number)'
                      /\ \A o \in Accepted' : o <= issued'
                      /\ (\A o \in Range(pending) : o \in Born(memory) /\ Fresh(o, memory.number[o]))'
    BY <1>1 DEF PlainInv, Plain
  <2>1. \A m \in Copies' : SavedOK(m)'
    BY <1>1, SavedLater
  <2>2. \A m \in Returning' : ReturningOK(m)'
    BY <1>1, ReturningLater
  <2>3. issued \in Nat /\ issued' \in {issued, issued + 1}
    BY <1>1, MemoryCases, MemoryStaysSane, MemoryOK
  <2>4. ASSUME NEW x \in Messages'
        PROVE  x.op <= issued' /\ Fresh(x.op, x.number)'
    <3>1. x.op \in Op /\ x.op \in Nat /\ x.number \in Nat /\ x.op <= issued
      BY <1>1, StillFollows, OpIsNat
    <3>2. Fresh(x.op, x.number)
      <4>1. CASE x \in Messages
        BY <4>1 DEF PlainInv
      <4>2. ASSUME NEW o \in Op, o \in Range(pending) \/ Sends(o), x = Carried(o, memory)
            PROVE  Fresh(x.op, x.number)
        <5>1. x.op = o /\ x.number = memory.number[o]
          BY <4>2 DEF Carried
        <5> QED
          BY <4>2, <5>1, GoesOut
      <4>3. Range(pending) \subseteq Op
        BY Elements DEF TypeInv, OutboxTypeOK
      <4> QED
        BY <1>1, <4>1, <4>2, <4>3, NetworkStep DEF Plain
    <3>3. x.number <= x.number
      BY <3>1
    <3>4. Fresh(x.op, x.number)'
      BY <1>1, <3>1, <3>2, <3>3, FreshLater
    <3> QED
      BY <2>3, <3>1, <3>4
  <2>5. ASSUME NEW o \in Accepted'
        PROVE  o <= issued'
    <3>1. o \in Accepted \/ \E x \in Messages : o = x.op
      BY <1>1, StreamPlain
    <3>2. o <= issued
      BY <3>1 DEF PlainInv
    <3>3. o \in Nat
      <4>1. \A a \in Accepted : a \in Nat
        <5>1. \A i \in DOMAIN stream : stream[i] \in Row
          BY LenProperties, ElementOfSeq DEF TypeInv, OutboxTypeOK
        <5> QED
          BY <5>1, OpIsNat DEF Accepted, Row
      <4>2. \A x \in Messages : x.op \in Nat
        <5>1. \A x \in Messages : x \in Message
          BY Elements DEF Messages, TypeInv, OutboxTypeOK
        <5> QED
          BY <5>1, OpIsNat DEF Message
      <4> QED
        BY <3>1, <4>1, <4>2
    <3> QED
      BY <2>3, <3>2, <3>3
  <2>6. ASSUME NEW o \in Range(pending')
        PROVE  (o \in Born(memory) /\ Fresh(o, memory.number[o]))'
    <3>1. CASE Continues(memory')
      <4>1. o \in Op /\ (o \in Range(pending) \/ Sends(o))
        <5>1. Range(pending) \subseteq Op
          BY Elements DEF TypeInv, OutboxTypeOK
        <5> QED
          BY <1>1, <5>1, NetworkStep DEF Plain
      <4>2. o \in Born(memory) /\ Fresh(o, memory.number[o]) /\ memory.number[o] \in Nat
        BY <4>1, GoesOut
      <4>3. o \in Born(memory') /\ memory'.number[o] <= memory.number[o]
        BY <3>1, <4>2 DEF Continues
      <4>4. memory'.number[o] \in Nat
        <5>1. memory' \in Manager
          BY <1>1, MemoryCases, MemoryStaysSane DEF Sane
        <5> QED
          BY <4>1, <5>1, ManagerType
      <4>5. PICK j \in Nat : j = memory'.number[o]
        BY <4>4
      <4>6. Fresh(o, j)'
        BY <1>1, <4>2, <4>3, <4>5, FreshLater
      <4> QED
        BY <4>3, <4>5, <4>6 DEF Fresh
    <3>2. CASE Restart
      <4>1. pending' = <<>>
        BY <3>2 DEF Restart
      <4> QED
        BY <4>1, EmptySeq DEF Range
    <3> QED
      BY <1>1, <3>1, <3>2, PlainContinues
  <2> QED
    BY <2>1, <2>2, <2>4, <2>5, <2>6
<1>2. CASE UNCHANGED <<outboxVars, user>>
  <2>1. /\ Copies' = Copies /\ Returning' = Returning /\ Messages' = Messages
        /\ Taken' = Taken /\ Accepted' = Accepted /\ Plain' = Plain
        /\ UNCHANGED <<memory, stream, issued, pending, user>>
    BY <1>2 DEF outboxVars, Copies, Returning, Messages, Taken, Accepted, Plain
  <2>2. ASSUME NEW m
        PROVE  SavedOK(m)' = SavedOK(m) /\ ReturningOK(m)' = ReturningOK(m)
    BY <2>1 DEF SavedOK, Covered, ReturningOK, Numbered, Kept
  <2>3. ASSUME NEW o, NEW k
        PROVE  Fresh(o, k)' = Fresh(o, k)
    BY <2>1 DEF Fresh
  <2> QED
    BY <2>1, <2>2, <2>3 DEF PlainInv
<1> QED
  BY <1>1, <1>2

LEMMA InitPlainInv ==
    ASSUME Init
    PROVE  PlainInv
<1>1. /\ memory = NewManager /\ disk = NewManager /\ saving = <<>> /\ stream = <<>>
      /\ pending = <<>> /\ arriving = [n \in 1 .. MaxLinks |-> <<>>]
  BY DEF Init
<1>2. /\ DOMAIN saving = {} /\ DOMAIN stream = {} /\ Range(pending) = {} /\ Range(<<>>) = {}
      /\ Len(stream) = 0
  BY <1>1, EmptySeq DEF Range
<1>3. Messages = {} /\ Taken = {} /\ Accepted = {}
  BY <1>1, <1>2 DEF Messages, Taken, Accepted
<1>4. Copies = {NewManager} /\ Returning = {NewManager}
  BY <1>1, <1>2 DEF Copies, Returning
<1>5. Born(NewManager) = {} /\ Present(NewManager) = {} /\ NewManager.next = 1
      /\ \A o \in Op : NewManager.status[o] = "unborn"
  BY DEF NewManager, Born, Present
<1>6. SavedOK(NewManager)
  <2>1. \A k \in Len(stream) + 1 .. NewManager.next - 1 : FALSE
    BY <1>2, <1>5
  <2> QED
    BY <1>5, <2>1 DEF SavedOK, Covered
<1>7. ReturningOK(NewManager)
  BY <1>3, <1>5 DEF ReturningOK, Numbered, Kept
<1> QED
  BY <1>2, <1>3, <1>4, <1>6, <1>7 DEF PlainInv

\* In an outbox without a gap each number belongs to exactly one operation.
LEMMA CoveredOnce ==
    ASSUME stream \in Seq(Row), NEW m, NEW n \in Nat, Sane(m, n), Covered(m)
    PROVE  Contiguous(m)
<1> SUFFICES ASSUME NEW k \in Len(stream) + 1 .. m.next - 1
             PROVE  Cardinality({o \in Retryable(m) : m.number[o] = k}) = 1
  BY DEF Contiguous
<1>1. PICK o \in Retryable(m) : m.number[o] = k
  BY DEF Covered
<1>2. ASSUME NEW p \in Retryable(m), m.number[p] = k
      PROVE  p = o
  <2>1. /\ o \in Present(m) /\ p \in Present(m) /\ o \in Born(m) /\ p \in Born(m)
        /\ o \in Nat /\ p \in Nat /\ m.number[o] \in Nat
    BY ManagerType, OpIsNat DEF Sane
  <2>2. ~(m.number[o] < m.number[p]) /\ ~(m.number[p] < m.number[o])
    BY <1>1, <1>2, <2>1
  <2> QED
    BY <2>1, <2>2 DEF Sane
<1>3. {p \in Retryable(m) : m.number[p] = k} = {o}
  BY <1>1, <1>2
<1> QED
  BY <1>3, FS_Singleton

Invariant == TypeInv /\ AckInv /\ PlainInv

LEMMA InvariantHolds == Spec => []Invariant
<1>1. Init => Invariant
  BY InitTypeInv, InitAckInv, InitPlainInv DEF Invariant
<1>2. Invariant /\ [Next /\ UNCHANGED user]_<<outboxVars, user>> => Invariant'
  BY NextTypeInv, NextAckInv, NextPlainInv DEF Invariant
<1> QED
  BY <1>1, <1>2, PTL DEF Spec

\* device_seq has no hole, in memory or on the disk: every number above those the
\* server has seen and below nextDeviceSeq belongs to exactly one operation that is
\* going to be sent, through answers that come late or twice, refusals that renumber
\* the rest, and restarts.  (Refusals and restarts together would break it.)
THEOREM NumbersStayContiguous ==
    ASSUME \A u \in Users : u.forces \/ u.restarts = 0 \/ "refuse" \notin Verdicts
    PROVE  Spec => []NumbersContiguous
<1>1. Invariant => NumbersContiguous
  <2> SUFFICES ASSUME Invariant, ~user.forces
               PROVE  Contiguous(memory) /\ Contiguous(disk)
    BY DEF NumbersContiguous
  <2>1. TypeInv /\ PlainInv /\ user \in Users /\ stream \in Seq(Row)
    BY DEF Invariant, TypeInv, OutboxTypeOK
  <2>2. Plain
    BY <2>1 DEF Plain
  <2>3. memory \in Copies /\ disk \in Copies
    BY DEF Copies
  <2>4. Covered(memory) /\ Covered(disk)
    BY <2>1, <2>2, <2>3 DEF PlainInv, SavedOK
  <2>5. Sane(memory, issued) /\ Sane(disk, issued) /\ issued \in Nat
    BY <2>1, IssuedType
  <2> QED
    BY <2>1, <2>4, <2>5, CoveredOnce
<1> QED
  BY <1>1, InvariantHolds, PTL

\* Whatever is on its way, also from before a reconnect or a restart, has a number the
\* server has seen or the next one: nobody makes the server wait for a gap to be
\* filled.  A force-push, which sends past the queue, may.
THEOREM NeverSendsAhead ==
    ASSUME \A u \in Users : ~u.forces /\ (u.restarts = 0 \/ "refuse" \notin Verdicts)
    PROVE  Spec => []NeverAhead
<1>1. Invariant => NeverAhead
  <2> SUFFICES ASSUME Invariant, NEW n \in 1 .. MaxLinks, NEW i \in DOMAIN arriving[n]
               PROVE  arriving[n][i].number <= Len(stream) + 1
    BY DEF NeverAhead
  <2>1. Plain
    BY DEF Plain, Invariant, TypeInv, OutboxTypeOK
  <2>2. arriving[n][i] \in Messages
    BY DEF Messages, Range
  <2> QED
    BY <2>1, <2>2 DEF Invariant, PlainInv, Fresh
<1> QED
  BY <1>1, InvariantHolds, PTL

-----------------------------------------------------------------------------
(***************************************************************************)
(* The refinement: the outbox and the server are an ordered channel.       *)
(***************************************************************************)

\* Only a force-push gives an operation up and keeps it.
NoneRejected == Plain => \A m \in Copies, o \in Op : m.status[o] # "rejected"

LEMMA NextNoneRejected ==
    ASSUME TypeInv, AckInv, NoneRejected, [Next /\ UNCHANGED user]_<<outboxVars, user>>
    PROVE  NoneRejected'
<1>1. CASE Next /\ UNCHANGED user
  <2> SUFFICES ASSUME Plain, NEW o \in Op
               PROVE  memory'.status[o] # "rejected"
    BY <1>1, CopiesStep DEF NoneRejected, Plain
  <2>1. /\ Sane(memory, issued) /\ Sane(disk, issued) /\ issued \in Nat
        /\ issued <= user.ops /\ user.ops <= MaxOps /\ user.ops \in Nat /\ MaxOps \in Nat
    BY IssuedType, OpIsNat
  <2>2. memory.status[o] # "rejected" /\ disk.status[o] # "rejected"
    BY DEF NoneRejected, Copies
  <2>3. CASE issued < user.ops /\ memory' = Enqueued(memory, issued + 1)
    <3>1. issued < MaxOps
      BY <2>1, <2>3
    <3>2. \/ o = issued + 1 /\ memory'.status[o] = "queued"
          \/ memory'.status[o] = memory.status[o]
      BY <2>1, <2>3, <3>1, SaneEnqueued
    <3> QED
      BY <2>2, <3>2
  <2>4. ASSUME NEW q, NEW s \in {"acked", "conflicted", "queued"},
               memory' = WithStatus(memory, q, s)
        PROVE  memory'.status[o] # "rejected"
    <3>1. memory'.status[o] = s \/ memory'.status[o] = memory.status[o]
      BY <2>1, <2>4, SaneWithStatus DEF Status
    <3> QED
      BY <2>2, <3>1
  <2>5. ASSUME NEW q \in Present(memory), memory' = RemovedAndReindexed(memory, q)
        PROVE  memory'.status[o] # "rejected"
    <3>1. memory'.status[o] = "dropped" \/ memory'.status[o] = memory.status[o]
      BY <2>1, <2>5, SaneReindexed
    <3> QED
      BY <2>2, <3>1
  <2>6. ASSUME NEW ready, memory' = Flushed(memory, ready)
        PROVE  memory'.status[o] # "rejected"
    <3>1. memory'.status[o] = "inflight" \/ memory'.status[o] = memory.status[o]
      BY <2>1, <2>6, SaneFlushed
    <3> QED
      BY <2>2, <3>1
  <2>7. CASE Restart
    <3>1. memory' = disk
      BY <2>1, <2>7, LoadedIsSame DEF Restart
    <3> QED
      BY <2>2, <3>1
  <2> QED
    BY <1>1, <2>2, <2>3, <2>4, <2>5, <2>6, <2>7, PlainCases DEF PlainStep
<1>2. CASE UNCHANGED <<outboxVars, user>>
  BY <1>2 DEF outboxVars, NoneRejected, Plain, Copies
<1> QED
  BY <1>1, <1>2

\* Where an operation is that the server may still accept.
Possible(o) ==
    \/ \E m \in Copies : o \in Retryable(m)
    \/ o \in Range(pending)
    \/ \E x \in Messages : x.op = o

LEMMA PossibleIs ==
    ASSUME NEW o
    PROVE  (MayArrive(o) <=> Possible(o)) /\ (MayArrive(o) <=> Possible(o))'
<1>1. MayArrive(o) <=> Possible(o)
  BY DEF MayArrive, Possible, Copies, Range, Messages
<1>2. (MayArrive(o) <=> Possible(o))'
  BY DEF MayArrive, Possible, Copies, Range, Messages
<1> QED
  BY <1>1, <1>2

\* What has been lost does not come back, unless the server has it.
LEMMA StaysLost ==
    ASSUME Invariant, NoneRejected, Plain, Next, NEW o \in Op, Possible(o)'
    PROVE  Possible(o) \/ o \in Accepted \/ o > issued
<1>0. TypeInv /\ AckInv /\ PlainInv
  BY DEF Invariant
<1>1. /\ Sane(memory, issued) /\ Sane(disk, issued) /\ memory \in Manager /\ issued \in Nat
      /\ issued <= user.ops /\ user.ops <= MaxOps /\ user.ops \in Nat /\ MaxOps \in Nat
      /\ memory \in Copies /\ disk \in Copies
  BY <1>0, IssuedType, OpIsNat DEF Copies
<1>2. ASSUME o \in Retryable(memory')
      PROVE  Possible(o) \/ o \in Accepted \/ o > issued
  <2>1. CASE o \in Retryable(memory)
    BY <1>1, <2>1 DEF Possible
  <2>2. CASE issued < user.ops /\ memory' = Enqueued(memory, issued + 1)
    <3>1. issued < MaxOps
      BY <1>1, <2>2
    <3>2. Retryable(memory') = Retryable(memory) \cup {issued + 1}
      BY <1>1, <2>2, <3>1, SaneEnqueued
    <3> QED
      BY <1>1, <1>2, <2>1, <3>2
  <2>3. ASSUME NEW q, NEW s \in {"acked", "conflicted", "queued"},
               memory' = WithStatus(memory, q, s)
        PROVE  Possible(o) \/ o \in Accepted
    <3>1. memory'.status[o] = IF o = q /\ q \in Present(memory) THEN s ELSE memory.status[o]
      BY <1>1, <2>3, SaneWithStatus DEF Status
    <3>2. CASE o = q /\ q \in Present(memory)
      <4>1. memory.status[o] \in {"queued", "inflight", "conflicted"}
        BY <1>1, <3>2 DEF NoneRejected, Present
      <4>2. memory.status[o] = "conflicted" => o \in Accepted
        BY <1>0, <1>1 DEF AckInv, TrueOf, Entry, Accepted
      <4> QED
        BY <1>1, <4>1, <4>2 DEF Retryable, Possible
    <3>3. CASE ~(o = q /\ q \in Present(memory))
      <4>1. o \in Retryable(memory)
        BY <1>2, <3>1, <3>3 DEF Retryable
      <4> QED
        BY <2>1, <4>1, <1>1 DEF Possible
    <3> QED
      BY <3>2, <3>3
  <2>4. ASSUME NEW q \in Present(memory), memory' = RemovedAndReindexed(memory, q)
        PROVE  Possible(o)
    <3>1. o \in Retryable(memory)
      BY <1>1, <1>2, <2>4, SaneReindexed
    <3> QED
      BY <1>1, <3>1 DEF Possible
  <2>5. ASSUME NEW ready, memory' = Flushed(memory, ready)
        PROVE  Possible(o)
    <3>1. o \in Retryable(memory)
      BY <1>1, <1>2, <2>5, SaneFlushed
    <3> QED
      BY <1>1, <3>1 DEF Possible
  <2>6. CASE Restart
    <3>1. memory' = disk
      BY <1>1, <2>6, LoadedIsSame DEF Restart
    <3> QED
      BY <1>1, <1>2, <3>1 DEF Possible
  <2>7. CASE memory' = memory
    BY <1>2, <2>1, <2>7
  <2> QED
    BY <1>0, <2>2, <2>3, <2>4, <2>5, <2>6, <2>7, PlainCases DEF PlainStep
<1>3. ASSUME NEW m \in Copies', o \in Retryable(m)
      PROVE  Possible(o) \/ o \in Accepted \/ o > issued
  <2>1. m \in Copies \/ m = memory'
    BY <1>0, <1>3, CopiesStep
  <2> QED
    BY <1>2, <1>3, <2>1 DEF Possible
<1>4. ASSUME Sends(o)
      PROVE  Possible(o)
  <2>1. o \in Retryable(memory)
    BY <1>0, <1>4, ChosenIsNext DEF Sends
  <2> QED
    BY <1>1, <2>1 DEF Possible
<1>5. CASE o \in Range(pending')
  <2>1. o \in Range(pending) \/ Sends(o)
    BY <1>0, <1>5, NetworkStep DEF Plain
  <2> QED
    BY <1>4, <2>1 DEF Possible
<1>6. ASSUME NEW x \in Messages', x.op = o
      PROVE  Possible(o)
  <2>1. CASE x \in Messages
    BY <1>6, <2>1 DEF Possible
  <2>2. ASSUME NEW q, q \in Range(pending) \/ Sends(q), x = Carried(q, memory)
        PROVE  Possible(o)
    <3>1. q = o
      BY <1>6, <2>2 DEF Carried
    <3> QED
      BY <1>4, <2>2, <3>1 DEF Possible
  <2> QED
    BY <1>0, <2>1, <2>2, NetworkStep DEF Plain
<1> QED
  BY <1>3, <1>5, <1>6 DEF Possible

\* The state of the ordered channel, for a user who runs no force-push.
Waiting == {o \in 1 .. issued : MayArrive(o) /\ \A p \in Accepted : p < o}

Delivered == [i \in DOMAIN stream |-> stream[i].op]

\* A step that neither issues nor delivers.
LEMMA LosesOnly ==
    ASSUME Invariant, NoneRejected, Plain, Next, UNCHANGED <<stream, issued>>
    PROVE  Waiting' \subseteq Waiting
<1> SUFFICES ASSUME NEW o \in Waiting'
             PROVE  o \in Waiting
  OBVIOUS
<1>1. /\ o \in 1 .. issued /\ MayArrive(o)' /\ Accepted' = Accepted
      /\ \A p \in Accepted : p < o
  BY DEF Waiting, Accepted
<1>2. o \in Op /\ ~(o > issued) /\ o \notin Accepted /\ o \in Nat
  <2>1. TypeInv
    BY DEF Invariant
  <2>2. issued \in Nat /\ issued <= MaxOps /\ MaxOps \in Nat
    BY <2>1, IssuedType, OpIsNat
  <2>3. o \in Op /\ ~(o > issued) /\ o \in Nat
    BY <1>1, <2>2 DEF Op
  <2>4. o \notin Accepted
    BY <1>1, <2>3
  <2> QED
    BY <2>3, <2>4
<1>3. Possible(o)
  BY <1>1, <1>2, PossibleIs, StaysLost
<1> QED
  BY <1>1, <1>3, PossibleIs DEF Waiting

LEMMA EnqueueSubmits ==
    ASSUME Invariant, NoneRejected, Plain, Next, EnqueueLocalChange
    PROVE  /\ issued < MaxOps /\ issued' = issued + 1
           /\ Waiting' = Waiting \cup {issued + 1}
           /\ Delivered' = Delivered
<1>1. TypeInv /\ PlainInv
  BY DEF Invariant
<1>2. /\ Sane(memory, issued) /\ memory \in Manager /\ issued \in Nat
      /\ issued <= user.ops /\ user.ops <= MaxOps /\ user.ops \in Nat /\ MaxOps \in Nat
      /\ saving \in Seq(SaveRecord)
  BY <1>1, IssuedType, OpIsNat DEF TypeInv, OutboxTypeOK
<1>3. /\ issued < user.ops /\ issued' = issued + 1 /\ memory' = Enqueued(memory, issued + 1)
      /\ UNCHANGED <<disk, pending, arriving, stream>>
  BY DEF EnqueueLocalChange, network
<1>4. issued < MaxOps /\ issued + 1 \in Op
  BY <1>2, <1>3 DEF Op
<1>5. Accepted' = Accepted /\ Delivered' = Delivered
  BY <1>3 DEF Accepted, Delivered
<1>6. Retryable(memory') = Retryable(memory) \cup {issued + 1}
  BY <1>2, <1>3, <1>4, SaneEnqueued
<1>7. ASSUME NEW o, Possible(o)
      PROVE  Possible(o)'
  <2>1. ASSUME NEW m \in Copies, o \in Retryable(m)
        PROVE  \E q \in Copies' : o \in Retryable(q)
    <3>1. CASE m = memory
      BY <1>6, <2>1, <3>1 DEF Copies
    <3>2. CASE m = disk
      BY <1>3, <2>1, <3>2 DEF Copies
    <3>3. ASSUME NEW i \in DOMAIN saving, m = saving[i].outbox
          PROVE  m \in Copies'
      <4> DEFINE r == [outbox |-> memory', then |-> "flush", op |-> 0]
      <4>1. r \in SaveRecord
        <5>1. memory' \in Manager
          BY <1>1, MemoryCases, MemoryStaysSane DEF Sane
        <5> QED
          BY <1>2, <5>1 DEF SaveRecord, OpOrNone
      <4>2. saving' = Append(saving, r)
        BY <1>3 DEF EnqueueLocalChange, Save
      <4> HIDE DEF r
      <4>3. /\ Append(saving, r) \in Seq(SaveRecord) /\ Len(Append(saving, r)) = Len(saving) + 1
            /\ \A j \in 1 .. Len(saving) : Append(saving, r)[j] = saving[j]
        BY <1>2, <4>1, AppendProperties
      <4>4. Len(saving) \in Nat /\ i \in 1 .. Len(saving)
        BY <1>2, <3>3, LenProperties
      <4>5. DOMAIN saving' = 1 .. Len(saving) + 1
        BY <4>2, <4>3, LenProperties
      <4>6. i \in DOMAIN saving' /\ saving'[i] = saving[i]
        BY <4>2, <4>3, <4>4, <4>5
      <4> QED
        BY <3>3, <4>6 DEF Copies
    <3> QED
      BY <2>1, <3>1, <3>2, <3>3 DEF Copies
  <2>2. Range(pending') = Range(pending) /\ Messages' = Messages
    BY <1>3 DEF Messages
  <2> QED
    BY <1>7, <2>1, <2>2 DEF Possible
<1>8. PICK new \in Op : new = issued + 1
  BY <1>4
<1>9. ASSUME NEW o \in Waiting'
      PROVE  o \in Waiting \cup {issued + 1}
  <2>1. /\ o \in 1 .. issued + 1 /\ MayArrive(o)' /\ \A p \in Accepted : p < o
    BY <1>3, <1>5 DEF Waiting
  <2>2. CASE o # issued + 1
    <3>1. o \in 1 .. issued /\ o \in Op /\ ~(o > issued) /\ o \in Nat
      BY <1>2, <2>1, <2>2 DEF Op
    <3>2. o \notin Accepted
      BY <2>1, <3>1
    <3>3. Possible(o)
      BY <2>1, <3>1, <3>2, PossibleIs, StaysLost
    <3> QED
      BY <2>1, <3>1, <3>3, PossibleIs DEF Waiting
  <2> QED
    BY <2>2
<1>10. ASSUME NEW o \in Waiting
       PROVE  o \in Waiting'
  <2>1. o \in 1 .. issued /\ o \in 1 .. issued + 1 /\ MayArrive(o) /\ \A p \in Accepted : p < o
    BY <1>2 DEF Waiting
  <2>2. MayArrive(o)'
    BY <1>7, <2>1, PossibleIs
  <2> QED
    BY <1>3, <1>5, <2>1, <2>2 DEF Waiting
<1>11. issued + 1 \in Waiting'
  <2>1. \A p \in Accepted : p < issued + 1
    <3>1. \A p \in Accepted : p <= issued /\ p \in Nat
      <4>1. \A i \in DOMAIN stream : stream[i] \in Row
        BY <1>1, LenProperties, ElementOfSeq DEF TypeInv, OutboxTypeOK
      <4> QED
        BY <1>1, <4>1, OpIsNat DEF PlainInv, Accepted, Row
    <3> QED
      BY <1>2, <3>1
  <2>2. MayArrive(new)'
    <3>1. new \in Retryable(memory') /\ memory' \in Copies'
      BY <1>6, <1>8 DEF Copies
    <3>2. Possible(new)'
      BY <3>1 DEF Possible
    <3> QED
      BY <3>2, PossibleIs
  <2>3. issued + 1 \in 1 .. issued + 1
    BY <1>2
  <2> QED
    BY <1>3, <1>5, <1>8, <2>1, <2>2, <2>3 DEF Waiting
<1> QED
  BY <1>3, <1>4, <1>5, <1>9, <1>10, <1>11

LEMMA ServeDelivers ==
    ASSUME Invariant, NoneRejected, Plain, Next, NEW n \in 1 .. MaxLinks, Serve(n),
           stream' # stream
    PROVE  \E a \in Waiting :
              /\ Delivered' = Append(Delivered, a)
              /\ Waiting' = {o \in Waiting : o > a}
              /\ issued' = issued
<1>1. TypeInv /\ PlainInv
  BY DEF Invariant
<1>2. /\ issued \in Nat /\ issued <= MaxOps /\ MaxOps \in Nat /\ stream \in Seq(Row)
      /\ arriving \in [1 .. MaxLinks -> Seq(Message)] /\ Len(stream) \in Nat
  <2>1. issued \in Nat /\ issued <= MaxOps /\ MaxOps \in Nat
    BY <1>1, IssuedType, OpIsNat
  <2>2. stream \in Seq(Row) /\ arriving \in [1 .. MaxLinks -> Seq(Message)]
    BY <1>1 DEF TypeInv, OutboxTypeOK
  <2> QED
    BY <2>1, <2>2, LenProperties
<1>3. PICK m : m = Head(arriving[n])
  OBVIOUS
<1>4. /\ m \in Message /\ arriving[n] # <<>> /\ arriving[n] \in Seq(Message)
      /\ StreamStep(m) /\ arriving' = [arriving EXCEPT ![n] = Tail(arriving[n])]
  BY <1>1, <1>3, ServeCases
<1>5. PICK c \in BOOLEAN : /\ InSequence(m)
                           /\ stream' = Append(stream, [op |-> m.op, conflict |-> c])
  BY <1>4 DEF StreamStep
<1>6. UNCHANGED <<issued, memory, disk, saving, pending>>
  BY DEF Serve, client
<1>7. /\ DOMAIN stream = 1 .. Len(stream) /\ DOMAIN stream' = 1 .. Len(stream) + 1
      /\ \A i \in DOMAIN stream : stream'[i] = stream[i]
      /\ stream'[Len(stream) + 1] = [op |-> m.op, conflict |-> c]
      /\ Accepted' = Accepted \cup {m.op}
  BY <1>2, <1>4, <1>5, StreamGrows
<1>8. m \in Messages
  BY <1>3, <1>4, Elements DEF Messages
<1>9. m.op \in Op /\ m.op \in Nat /\ m.op <= issued /\ m.op \in 1 .. issued
  <2>1. m.op \in Op /\ m.op <= issued
    BY <1>1, <1>4, <1>8 DEF PlainInv, Message
  <2> QED
    BY <1>2, <2>1 DEF Op
<1>10. \A p \in Accepted : p < m.op /\ p \in Nat
  <2>1. \A p \in Accepted : p \in Nat
    <3>1. \A i \in DOMAIN stream : stream[i] \in Row
      BY <1>2, ElementOfSeq, LenProperties
    <3> QED
      BY <3>1, OpIsNat DEF Accepted, Row
  <2> QED
    BY <1>1, <1>5, <1>8, <2>1 DEF PlainInv, Fresh, InSequence
<1>11. m.op \in Waiting
  <2>1. Possible(m.op)
    BY <1>8 DEF Possible
  <2> QED
    BY <1>9, <1>10, <2>1, PossibleIs DEF Waiting
<1>12. Delivered' = Append(Delivered, m.op)
  <2>1. Delivered \in Seq(Op) /\ Len(Delivered) = Len(stream)
    <3>1. \A i \in 1 .. Len(stream) : stream[i].op \in Op
      <4>1. \A i \in 1 .. Len(stream) : stream[i] \in Row
        BY <1>2, ElementOfSeq
      <4> QED
        BY <4>1 DEF Row
    <3>2. Delivered \in [1 .. Len(stream) -> Op]
      BY <1>7, <3>1 DEF Delivered
    <3>3. Delivered \in Seq(Op)
      BY <1>2, <3>2, SeqDef
    <3> QED
      BY <1>2, <3>2, <3>3, LenProperties
  <2>2. /\ Append(Delivered, m.op) \in Seq(Op)
        /\ Len(Append(Delivered, m.op)) = Len(stream) + 1
        /\ \A i \in 1 .. Len(stream) : Append(Delivered, m.op)[i] = Delivered[i]
        /\ Append(Delivered, m.op)[Len(stream) + 1] = m.op
    BY <1>9, <2>1, AppendProperties
  <2>3. Append(Delivered, m.op) \in [1 .. Len(stream) + 1 -> Op]
    BY <2>2, LenProperties
  <2>4. Delivered' = [i \in 1 .. Len(stream) + 1 |-> stream'[i].op]
    BY <1>7 DEF Delivered
  <2>5. ASSUME NEW i \in 1 .. Len(stream) + 1
        PROVE  Append(Delivered, m.op)[i] = stream'[i].op
    <3>1. CASE i \in 1 .. Len(stream)
      <4>1. stream'[i] = stream[i] /\ Delivered[i] = stream[i].op
        BY <1>7, <3>1 DEF Delivered
      <4> QED
        BY <2>2, <3>1, <4>1
    <3>2. CASE i = Len(stream) + 1
      <4>1. stream'[i] = [op |-> m.op, conflict |-> c]
        BY <1>7, <3>2
      <4>2. stream'[i].op = m.op
        BY <4>1
      <4> QED
        BY <2>2, <3>2, <4>2
    <3>3. i \in 1 .. Len(stream) \/ i = Len(stream) + 1
      BY <1>2
    <3> QED
      BY <3>1, <3>2, <3>3
  <2> QED
    BY <2>3, <2>4, <2>5
<1>13. ASSUME NEW o \in Waiting'
       PROVE  o \in Waiting /\ o > m.op
  <2>1. o \in 1 .. issued /\ MayArrive(o)' /\ (\A p \in Accepted : p < o) /\ m.op < o
    BY <1>6, <1>7 DEF Waiting
  <2>2. o \in Op /\ ~(o > issued) /\ o \in Nat
    BY <1>2, <2>1 DEF Op
  <2>3. o \notin Accepted
    BY <2>1, <2>2
  <2>4. Possible(o)
    BY <2>1, <2>2, <2>3, PossibleIs, StaysLost
  <2> QED
    BY <1>9, <2>1, <2>2, <2>4, PossibleIs DEF Waiting
<1>14. ASSUME NEW o \in Waiting, o > m.op
       PROVE  o \in Waiting'
  <2>1. o \in 1 .. issued /\ MayArrive(o) /\ o \in Nat
    BY <1>2 DEF Waiting
  <2>2. \A p \in Accepted' : p < o
    BY <1>7, <1>9, <1>14, <2>1 DEF Waiting
  <2>3. ASSUME NEW x \in Messages, x.op = o
        PROVE  x \in Messages'
    <3>1. PICK k \in 1 .. MaxLinks : x \in Range(arriving[k])
      BY DEF Messages
    <3>2. CASE k # n
      <4>1. arriving'[k] = arriving[k]
        BY <1>2, <1>4, <3>2
      <4> QED
        BY <3>1, <4>1 DEF Messages
    <3>3. CASE k = n
      <4>1. x # Head(arriving[n])
        BY <1>3, <1>9, <1>14, <2>1, <2>3
      <4>2. x \in Range(Tail(arriving[n]))
        <5>1. PICK i \in DOMAIN arriving[n] : x = arriving[n][i]
          BY <3>1, <3>3 DEF Range
        <5>2. /\ Tail(arriving[n]) \in Seq(Message)
              /\ Len(Tail(arriving[n])) = Len(arriving[n]) - 1
              /\ \A j \in 1 .. Len(arriving[n]) - 1 : Tail(arriving[n])[j] = arriving[n][j + 1]
          BY <1>4, HeadTailProperties
        <5>3. /\ DOMAIN arriving[n] = 1 .. Len(arriving[n]) /\ Len(arriving[n]) \in Nat
              /\ DOMAIN Tail(arriving[n]) = 1 .. Len(arriving[n]) - 1
          BY <1>4, <5>2, LenProperties
        <5>4. i # 1
          BY <4>1, <5>1
        <5>5. i - 1 \in 1 .. Len(arriving[n]) - 1 /\ i - 1 + 1 = i
          BY <5>1, <5>3, <5>4
        <5>6. Tail(arriving[n])[i - 1] = x
          BY <5>1, <5>2, <5>5
        <5> QED
          BY <5>3, <5>5, <5>6 DEF Range
      <4>3. arriving'[n] = Tail(arriving[n])
        BY <1>2, <1>4
      <4> QED
        BY <4>2, <4>3 DEF Messages
    <3> QED
      BY <3>2, <3>3
  <2>4. Possible(o)'
    <3>1. Copies' = Copies /\ Range(pending') = Range(pending)
      BY <1>6 DEF Copies
    <3>2. Possible(o)
      BY <2>1, PossibleIs
    <3> QED
      BY <2>3, <3>1, <3>2 DEF Possible
  <2>5. MayArrive(o)'
    BY <2>4, PossibleIs
  <2> QED
    BY <1>6, <2>1, <2>2, <2>5 DEF Waiting
<1>15. Waiting' = {o \in Waiting : o > m.op}
  BY <1>13, <1>14
<1> QED
  BY <1>6, <1>11, <1>12, <1>15

\* Only EnqueueLocalChange and the server move the channel forward.
LEMMA ChannelCases ==
    ASSUME TypeInv, Plain, Next
    PROVE  \/ UNCHANGED <<stream, issued>>
           \/ EnqueueLocalChange
           \/ \E n \in 1 .. MaxLinks : Serve(n) /\ stream' # stream
<1>1. ~PushForced
  BY DEF PushForced, Plain, TypeInv, ForcedOK
<1>2. ASSUME NEW n \in 1 .. MaxLinks, Serve(n)
      PROVE  \/ UNCHANGED <<stream, issued>>
             \/ Serve(n) /\ stream' # stream
  <2>1. issued' = issued
    BY <1>2 DEF Serve
  <2> QED
    BY <1>2, <2>1
<1>3. CASE Plugin
  BY <1>3 DEF Plugin, HandleAck, HandleForcedReject, HandleReject, Saved, SavedThenFlush,
              SavedThenSend, SavedThenNotReady, SaveLands
<1>4. CASE User
  BY <1>1, <1>4 DEF User, StartForcePush, EndForcePush, DiscardUnsent, ForceTimesOut, network
<1>5. CASE Links \/ Faults
  BY <1>5 DEF Links, Faults, Connect, FinishHandshake, SocketClosed, Drop, Restart, network
<1> QED
  BY <1>2, <1>3, <1>4, <1>5 DEF Next

LEMMA ChannelStep ==
    ASSUME Invariant, NoneRejected, Plain, [Next /\ UNCHANGED user]_<<outboxVars, user>>
    PROVE  \/ /\ issued < MaxOps /\ issued' = issued + 1
              /\ Waiting' = Waiting \cup {issued'}
              /\ Delivered' = Delivered
           \/ Waiting' \subseteq Waiting /\ UNCHANGED <<Delivered, issued>>
           \/ \E a \in Waiting :
                 /\ Delivered' = Append(Delivered, a)
                 /\ Waiting' = {o \in Waiting : o > a}
                 /\ issued' = issued
<1>1. CASE Next /\ UNCHANGED user
  <2>1. CASE EnqueueLocalChange
    BY <1>1, <2>1, EnqueueSubmits
  <2>2. ASSUME NEW n \in 1 .. MaxLinks, Serve(n), stream' # stream
        PROVE  \E a \in Waiting :
                  /\ Delivered' = Append(Delivered, a)
                  /\ Waiting' = {o \in Waiting : o > a}
                  /\ issued' = issued
    BY <1>1, <2>2, ServeDelivers
  <2>3. CASE UNCHANGED <<stream, issued>>
    BY <1>1, <2>3, LosesOnly DEF Delivered
  <2> QED
    BY <1>1, <2>1, <2>2, <2>3, ChannelCases DEF Invariant
<1>2. CASE UNCHANGED <<outboxVars, user>>
  BY <1>2 DEF outboxVars, Waiting, Delivered, MayArrive, Accepted
<1> QED
  BY <1>1, <1>2

\* The outbox and the server together implement OrderedDelivery: each operation is
\* delivered at most once and in the order in which they were issued, and what was
\* lost, or overtaken, is not delivered any more.  For every number of operations,
\* connections and restarts, unless refusals and restarts come together.
THEOREM OutboxDeliversInOrder ==
    ASSUME \A u \in Users : u.forces \/ u.restarts = 0 \/ "refuse" \notin Verdicts
    PROVE  Spec => DeliversInOrder
<1> DEFINE AInv == Invariant /\ NoneRejected
<1>1. Init => AInv
  <2> SUFFICES ASSUME Init PROVE NoneRejected
    BY InitTypeInv, InitAckInv, InitPlainInv DEF Invariant
  <2>1. saving = <<>> /\ memory = NewManager /\ disk = NewManager
    BY DEF Init
  <2>2. \A i \in DOMAIN saving : FALSE
    BY <2>1, EmptySeq
  <2>3. Copies = {NewManager}
    BY <2>1, <2>2 DEF Copies
  <2> QED
    BY <2>3 DEF NoneRejected, NewManager
<1>2. AInv /\ [Next /\ UNCHANGED user]_<<outboxVars, user>> => AInv'
  BY NextTypeInv, NextAckInv, NextPlainInv, NextNoneRejected DEF Invariant
<1>3. Init => Delivery!Init
  <2> SUFFICES ASSUME Init, ~user.forces
               PROVE  Waiting = {} /\ Delivered = <<>> /\ issued = 0
    BY DEF Delivery!Init, Waiting, Delivered, Init
  <2>1. issued = 0 /\ stream = <<>>
    BY DEF Init
  <2>2. Waiting = {}
    BY <2>1 DEF Waiting
  <2>3. DOMAIN <<>> = {} /\ <<>> = [i \in {} |-> stream[i].op]
    BY EmptySeq
  <2>4. Delivered = <<>>
    BY <2>1, <2>3 DEF Delivered
  <2> QED
    BY <2>1, <2>2, <2>4
<1>4. AInv /\ [Next /\ UNCHANGED user]_<<outboxVars, user>>
        => [Delivery!Next]_(Delivery!channelVars)
  <2> SUFFICES ASSUME AInv, [Next /\ UNCHANGED user]_<<outboxVars, user>>
               PROVE  [Delivery!Next]_(Delivery!channelVars)
    OBVIOUS
  <2>1. user \in Users /\ user' = user
    BY DEF Invariant, TypeInv, OutboxTypeOK
  <2>2. CASE user.forces
    BY <2>1, <2>2 DEF Delivery!channelVars
  <2>3. CASE ~user.forces
    <3>1. Plain
      BY <2>1, <2>3 DEF Plain
    <3>2. /\ (IF user.forces THEN {} ELSE Waiting) = Waiting
          /\ (IF user.forces THEN {} ELSE Waiting)' = Waiting'
          /\ (IF user.forces THEN <<>> ELSE Delivered) = Delivered
          /\ (IF user.forces THEN <<>> ELSE Delivered)' = Delivered'
          /\ (IF user.forces THEN 0 ELSE issued) = issued
          /\ (IF user.forces THEN 0 ELSE issued)' = issued'
      BY <2>1, <2>3
    <3>3. CASE /\ issued < MaxOps /\ issued' = issued + 1
               /\ Waiting' = Waiting \cup {issued'}
               /\ Delivered' = Delivered
      BY <3>2, <3>3 DEF Delivery!Next, Delivery!Submit, Waiting, Delivered
    <3>4. CASE Waiting' \subseteq Waiting /\ UNCHANGED <<Delivered, issued>>
      BY <3>2, <3>4 DEF Delivery!Next, Delivery!Lose, Delivery!channelVars, Waiting, Delivered
    <3>5. ASSUME NEW a \in Waiting, Delivered' = Append(Delivered, a),
                 Waiting' = {o \in Waiting : o > a}, issued' = issued
          PROVE  Delivery!Next
      BY <3>2, <3>5 DEF Delivery!Next, Delivery!Deliver, Waiting, Delivered
    <3> QED
      BY <3>1, <3>3, <3>4, <3>5, ChannelStep
  <2> QED
    BY <2>2, <2>3
<1> HIDE DEF AInv
<1> QED
  BY <1>1, <1>2, <1>3, <1>4, PTL DEF Spec, DeliversInOrder, Delivery!Spec
==============================================================================
