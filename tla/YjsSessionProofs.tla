--------------------------- MODULE YjsSessionProofs ---------------------------
(***************************************************************************)
(* What YjsSession promises for every number of devices, sessions, marks   *)
(* and broken connections: nothing typed comes into the room twice, and    *)
(* what a session takes for acknowledged is in the room.                   *)
(*                                                                         *)
(* Why nothing comes twice: a mark that is not in the room is in the hands *)
(* of one device only (Exclusive), in one update for each epoch            *)
(* (ApartInv); an update is for the epoch of the session that made it, and *)
(* by the time the session gets to a later epoch, the room has closed the  *)
(* earlier one, so that its text, which the session then compares with, is *)
(* final as to that epoch (Sound).                                         *)
(***************************************************************************)
EXTENDS YjsSession, SequenceTheorems, TLAPS

-----------------------------------------------------------------------------
(***************************************************************************)
(* Types.                                                                  *)
(***************************************************************************)
Epochs == 0 .. MaxEpochs

Promotes == [t : {"promote"}]
Updates == [t : {"update"}, epoch : Epochs, id : Nat, items : SUBSET Items]
Leaves == [t : {"leave"}, epoch : Epochs]
Syncs == [t : {"sync"}, epoch : Epochs, have : SUBSET Items]
ToServer == Promotes \cup Updates \cup Leaves \cup Syncs

States == [t : {"state"}, epoch : 1 .. MaxEpochs, doc : SUBSET Items]
Relays == [t : {"update"}, epoch : Epochs, seq : Nat, items : SUBSET Items]
Acks == [t : {"ack"}, epoch : Epochs, id : Nat, seq : Nat]
Closings == [t : {"closed"}, epoch : Epochs]
ToDevice == States \cup Relays \cup Acks \cup Closings

Outstanding == [id : Nat, items : SUBSET Items]

Sessions ==
    {s \in [open : BOOLEAN, epoch : Epochs, doc : SUBSET Items, lastSeq : Nat,
            ackedText : SUBSET Nat, outstanding : SUBSET Outstanding, nextUpdateId : Nat] :
       s.open => s.epoch >= 1}

RoomType == [epoch : Epochs, open : BOOLEAN, doc : SUBSET Items, log : Seq(SUBSET Items)]

TypeInv ==
    /\ session \in [Device -> Sessions]
    /\ leaving \in [Device -> [on : BOOLEAN, epoch : Epochs, awaited : SUBSET Nat]]
    /\ sent \in [Device -> Seq(ToServer)]
    /\ late \in [Device -> Seq(ToServer)]
    /\ received \in [Device -> Seq(ToDevice)]
    /\ shared \in RoomType /\ (shared.open => shared.epoch \in 1 .. MaxEpochs)
    /\ marks \in 0 .. MaxMarks
    /\ mixed \in BOOLEAN
    /\ sink \in [Device -> {"none", "live", "dead"}]

LEMMA Bounds == MaxEpochs \in Nat /\ MaxMarks \in Nat
BY YjsSessionAssumption

LEMMA ItemsType ==
    ASSUME NEW i \in Items
    PROVE  /\ i[1] \in Nat /\ i[1] \in 0 .. MaxMarks
           /\ i[2] \in Nat /\ i[2] \in 1 .. MaxEpochs /\ i = <<i[1], i[2]>>
BY Bounds DEF Items

LEMMA TextType ==
    ASSUME NEW items \in SUBSET Items, NEW name
    PROVE  TextOf(name, items) \in SUBSET Nat
BY ItemsType DEF TextOf

LEMMA NoSessionType == NoSession \in Sessions
BY Bounds DEF NoSession, Sessions, Epochs

\* A message by its type.
LEMMA ToServerType ==
    ASSUME NEW m \in ToServer
    PROVE  /\ m.t \in {"promote", "update", "leave", "sync"}
           /\ m.t = "update" => m \in Updates
           /\ m.t = "leave" => m \in Leaves
           /\ m.t = "sync" => m \in Syncs
           /\ m.t # "promote" => m.epoch \in Epochs
BY DEF ToServer, Promotes, Updates, Leaves, Syncs

LEMMA ToDeviceType ==
    ASSUME NEW m \in ToDevice
    PROVE  /\ m.t = "state" => m \in States
           /\ m.t = "update" => m \in Relays
           /\ m.t = "ack" => m \in Acks
           /\ m.epoch \in Epochs /\ m.epoch \in Nat
BY Bounds DEF ToDevice, States, Relays, Acks, Closings, Epochs

-----------------------------------------------------------------------------
(***************************************************************************)
(* Connections as sequences.                                               *)
(***************************************************************************)
LEMMA RangeOf ==
    ASSUME NEW S, NEW q \in Seq(S)
    PROVE  /\ DOMAIN q = 1 .. Len(q) /\ Len(q) \in Nat
           /\ Range(q) = {q[i] : i \in 1 .. Len(q)} /\ Range(q) \subseteq S
<1>1. DOMAIN q = 1 .. Len(q) /\ Len(q) \in Nat
  BY LenProperties
<1>2. \A i \in 1 .. Len(q) : q[i] \in S
  BY ElementOfSeq
<1>3. Range(q) = {q[i] : i \in 1 .. Len(q)}
  BY <1>1 DEF Range
<1> QED
  BY <1>1, <1>2, <1>3

LEMMA TailOf ==
    ASSUME NEW S, NEW q \in Seq(S), q # <<>>
    PROVE  /\ Tail(q) \in Seq(S) /\ Len(Tail(q)) = Len(q) - 1
           /\ Len(q) \in Nat \ {0} /\ Head(q) = q[1]
           /\ Head(q) \in S /\ Head(q) \in Range(q) /\ Range(Tail(q)) \subseteq Range(q)
           /\ \A i \in 1 .. Len(q) - 1 : i + 1 \in 1 .. Len(q) /\ Tail(q)[i] = q[i + 1]
<1>1. Len(q) \in Nat /\ Len(q) # 0 /\ Len(q) > 0
  BY EmptySeq, LenProperties
<1>2. Tail(q) \in Seq(S) /\ Len(Tail(q)) = Len(q) - 1
  BY <1>1, HeadTailProperties
<1>3. \A i \in 1 .. Len(q) - 1 : Tail(q)[i] = q[i + 1]
  BY <1>1, <1>2, HeadTailProperties
<1>4. \A i \in 1 .. Len(q) - 1 : i + 1 \in 1 .. Len(q)
  BY <1>1
<1>5. Head(q) = q[1] /\ 1 \in 1 .. Len(q)
  BY <1>1
<1>6. Head(q) \in Range(q) /\ Head(q) \in S
  BY <1>5, RangeOf
<1>7. Range(Tail(q)) \subseteq Range(q)
  <2>1. ASSUME NEW x \in Range(Tail(q))
        PROVE  x \in Range(q)
    <3>1. PICK i \in 1 .. Len(Tail(q)) : x = Tail(q)[i]
      BY <1>2, <2>1, RangeOf, Zenon
    <3>2. i \in 1 .. Len(q) - 1
      BY <1>2, <3>1, Zenon
    <3>3. i + 1 \in 1 .. Len(q) /\ x = q[i + 1]
      BY <1>3, <1>4, <3>1, <3>2, Zenon
    <3> QED
      BY <3>3, RangeOf
  <2> QED
    BY <2>1
<1> QED
  BY <1>1, <1>2, <1>3, <1>4, <1>5, <1>6, <1>7

LEMMA AppendOf ==
    ASSUME NEW S, NEW q \in Seq(S), NEW x \in S
    PROVE  /\ q \o <<x>> = Append(q, x)
           /\ Append(q, x) \in Seq(S) /\ Len(Append(q, x)) = Len(q) + 1
           /\ Append(q, x)[Len(q) + 1] = x
           /\ \A i \in 1 .. Len(q) : Append(q, x)[i] = q[i]
           /\ Range(Append(q, x)) = Range(q) \cup {x}
<1> DEFINE r == Append(q, x)
<1>1. q \o <<x>> = r
  BY AppendIsConcat
<1>2. Len(q) \in Nat
  BY LenProperties
<1>3. /\ r \in Seq(S) /\ Len(r) = Len(q) + 1
      /\ r[Len(q) + 1] = x /\ \A i \in 1 .. Len(q) : r[i] = q[i]
  BY <1>2, AppendProperties
<1>4. /\ Range(q) = {q[i] : i \in 1 .. Len(q)}
      /\ Range(r) = {r[i] : i \in 1 .. Len(r)}
  BY <1>3, RangeOf, Zenon
<1>5. \A i : i \in 1 .. Len(r) <=> i \in 1 .. Len(q) \/ i = Len(q) + 1
  BY <1>2, <1>3
<1> HIDE DEF r
<1>6. Range(r) = Range(q) \cup {x}
  BY <1>3, <1>4, <1>5
<1> QED
  BY <1>1, <1>3, <1>6 DEF r

\* What comes of q when the first n of r follow it: what a server that has not
\* noticed the break still gets.
LEMMA PrefixJoined ==
    ASSUME NEW S, NEW q \in Seq(S), NEW r \in Seq(S), NEW n \in 0 .. Len(r)
    PROVE  LET p == q \o SubSeq(r, 1, n) IN
           /\ p \in Seq(S) /\ Len(p) = Len(q) + n
           /\ \A i \in 1 .. Len(q) : p[i] = q[i]
           /\ \A i \in 1 .. n : i \in 1 .. Len(r) /\ p[Len(q) + i] = r[i]
           /\ Range(p) \subseteq Range(q) \cup Range(r)
<1> DEFINE s == SubSeq(r, 1, n)
           p == q \o s
<1>1. Len(q) \in Nat /\ Len(r) \in Nat /\ n \in Nat /\ n <= Len(r)
  BY LenProperties
<1>2. s \in Seq(S) /\ Len(s) = n /\ \A i \in 1 .. n : s[i] = r[i]
  <2>1. \A i \in 1 .. n : i \in 1 .. Len(r) /\ r[i] \in S
    <3>1. \A i \in 1 .. Len(r) : r[i] \in S
      BY ElementOfSeq
    <3> QED
      BY <1>1, <3>1
  <2>2. /\ s \in Seq(S) /\ Len(s) = IF 1 <= n THEN n - 1 + 1 ELSE 0
        /\ \A i \in 1 .. n - 1 + 1 : s[i] = r[1 + i - 1]
    <3>1. 1 \in Int /\ n \in Int
      BY <1>1
    <3> QED
      BY <2>1, <3>1, SubSeqProperties
  <2> QED
    BY <1>1, <2>2
<1> HIDE DEF s
<1>3. /\ p \in Seq(S) /\ Len(p) = Len(q) + Len(s)
      /\ \A i \in 1 .. Len(q) + Len(s) : p[i] = IF i <= Len(q) THEN q[i] ELSE s[i - Len(q)]
  BY <1>2, ConcatProperties, Zenon
<1> HIDE DEF p
<1>4. \A i \in 1 .. Len(q) : p[i] = q[i]
  BY <1>1, <1>2, <1>3
<1>5. ASSUME NEW i \in 1 .. n
      PROVE  i \in 1 .. Len(r) /\ p[Len(q) + i] = r[i]
  BY <1>1, <1>2, <1>3
<1>6. ASSUME NEW x \in Range(p)
      PROVE  x \in Range(q) \cup Range(r)
  <2>1. PICK i \in 1 .. Len(p) : x = p[i]
    BY <1>3, <1>6, RangeOf, Zenon
  <2>2. CASE i <= Len(q)
    <3>1. i \in 1 .. Len(q) /\ x = q[i]
      BY <1>1, <1>4, <2>1, <2>2
    <3> QED
      BY <3>1, RangeOf
  <2>3. CASE i > Len(q)
    <3> DEFINE j == i - Len(q)
    <3>1. j \in 1 .. n /\ i = Len(q) + j
      BY <1>1, <1>2, <1>3, <2>1, <2>3
    <3>2. j \in 1 .. Len(r) /\ x = r[j]
      BY <1>5, <2>1, <3>1
    <3> QED
      BY <3>2, RangeOf
  <2> QED
    BY <1>1, <2>1, <2>2, <2>3
<1> QED
  BY <1>2, <1>3, <1>4, <1>5, <1>6 DEF p, s

-----------------------------------------------------------------------------
(***************************************************************************)
(* Type correctness.                                                       *)
(***************************************************************************)
LEMMA SendType ==
    ASSUME sent \in [Device -> Seq(ToServer)], NEW d \in Device, NEW m \in ToServer,
           Send(d, <<m>>)
    PROVE  /\ sent' \in [Device -> Seq(ToServer)]
           /\ sent' = [sent EXCEPT ![d] = Append(sent[d], m)]
           /\ \A e \in Device \ {d} : sent'[e] = sent[e]
           /\ sent'[d] = Append(sent[d], m)
           /\ Range(sent'[d]) = Range(sent[d]) \cup {m}
<1>1. sent[d] \in Seq(ToServer)
  OBVIOUS
<1>2. sent[d] \o <<m>> = Append(sent[d], m) /\ Append(sent[d], m) \in Seq(ToServer)
  BY <1>1, AppendOf
<1>3. sent' = [sent EXCEPT ![d] = Append(sent[d], m)]
  BY <1>2 DEF Send
<1>4. Range(Append(sent[d], m)) = Range(sent[d]) \cup {m}
  BY <1>1, AppendOf
<1>5. sent'[d] = Append(sent[d], m)
  BY <1>3
<1>6. Range(sent'[d]) = Range(sent[d]) \cup {m}
  BY <1>4, <1>5
<1> QED
  BY <1>2, <1>3, <1>5, <1>6

\* A device handles the next message it has received.
LEMMA ReceivesType ==
    ASSUME TypeInv, NEW d \in Device, NEW type, Receives(d, type)
    PROVE  /\ Head(received[d]) \in ToDevice /\ Head(received[d]).t = type
           /\ Head(received[d]) \in Range(received[d])
           /\ received' \in [Device -> Seq(ToDevice)]
           /\ received'[d] = Tail(received[d])
           /\ Range(received'[d]) \subseteq Range(received[d])
           /\ \A e \in Device \ {d} : received'[e] = received[e]
<1>1. received[d] \in Seq(ToDevice) /\ received[d] # <<>>
  BY DEF TypeInv, Receives
<1>2. /\ Tail(received[d]) \in Seq(ToDevice) /\ Head(received[d]) \in ToDevice
      /\ Head(received[d]) \in Range(received[d])
      /\ Range(Tail(received[d])) \subseteq Range(received[d])
  BY <1>1, TailOf
<1>3. received' = [received EXCEPT ![d] = Tail(received[d])] /\ Head(received[d]).t = type
  BY DEF Receives
<1>4. received'[d] = Tail(received[d])
  BY <1>3 DEF TypeInv
<1>5. Range(received'[d]) \subseteq Range(received[d])
  BY <1>2, <1>4
<1> QED
  BY <1>2, <1>3, <1>4, <1>5 DEF TypeInv

LEMMA WithUpdateType ==
    ASSUME NEW s \in Sessions, NEW items \in SUBSET Items
    PROVE  /\ WithUpdate(s, items) \in Sessions
           /\ UpdateMessage(s, items) \in ToServer
           /\ UpdateMessage(s, items) \in Updates
<1> DEFINE doc == s.doc \cup items
           out == s.outstanding \cup {[id |-> s.nextUpdateId, items |-> items]}
           next == s.nextUpdateId + 1
<1>1. doc \in SUBSET Items /\ out \in SUBSET Outstanding /\ next \in Nat
  <2>1. [id |-> s.nextUpdateId, items |-> items] \in Outstanding
    BY DEF Sessions, Outstanding
  <2> QED
    BY <2>1 DEF Sessions
<1>2. WithUpdate(s, items) = [s EXCEPT !.doc = doc, !.outstanding = out, !.nextUpdateId = next]
  BY DEF WithUpdate
<1> HIDE DEF doc, out, next
<1>3. WithUpdate(s, items) \in Sessions
  BY <1>1, <1>2 DEF Sessions
<1>4. UpdateMessage(s, items) \in Updates
  BY DEF UpdateMessage, Updates, Sessions
<1> QED
  BY <1>3, <1>4 DEF ToServer

LEMMA SeededType ==
    ASSUME NEW m \in States
    PROVE  Seeded(m) \in Sessions
<1>1. m.epoch \in Epochs /\ m.doc \in SUBSET Items /\ m.epoch >= 1
  BY Bounds DEF States, Epochs
<1>2. TextOf("content", m.doc) \in SUBSET Nat
  BY <1>1, TextType
<1> QED
  BY <1>1, <1>2 DEF Seeded, Sessions, NoSession

\* What is carried is put in in the new epoch.
LEMMA CarriedType ==
    ASSUME NEW s \in Sessions, NEW m \in States
    PROVE  Carried(s, m) \in SUBSET Items
<1>1. m.epoch \in 1 .. MaxEpochs /\ s.doc \in SUBSET Items
  BY Bounds DEF States, Sessions
<1>2. Shown(s) \subseteq 0 .. MaxMarks
  BY <1>1, ItemsType DEF Shown, TextOf
<1> QED
  BY <1>1, <1>2 DEF Carried, Items

\* What a device is told.
LEMMA ToldType ==
    ASSUME received \in [Device -> Seq(ToDevice)], NEW d \in Device, NEW to,
           NEW x \in ToDevice, received' = Told(d, to, <<x>>)
    PROVE  /\ received' \in [Device -> Seq(ToDevice)]
           /\ \A e \in Device : received'[e] \in {received[e], Append(received[e], x)}
<1>1. received[d] \in Seq(ToDevice)
  OBVIOUS
<1>2. received[d] \o <<x>> = Append(received[d], x) /\ Append(received[d], x) \in Seq(ToDevice)
  BY <1>1, AppendOf
<1>3. CASE to = "live"
  <2>1. received' = [received EXCEPT ![d] = Append(received[d], x)]
    BY <1>2, <1>3 DEF Told
  <2> QED
    BY <1>2, <2>1
<1>4. CASE to # "live"
  BY <1>4 DEF Told
<1> QED
  BY <1>3, <1>4

LEMMA ServeCases ==
    ASSUME NEW d \in Device, NEW m, NEW from, Serve(d, m, from)
    PROVE  \/ ServePromote(d, from)
           \/ ServeStale(d)
           \/ UNCHANGED <<served, received, skips>>
           \/ ~IsStale(m) /\ m.t = "update" /\ ServeUpdate(d, m)
           \/ ~IsStale(m) /\ m.t = "sync" /\ ServeSync(d, m)
           \/ ServeLeave(d)
BY DEF Serve

LEMMA StateMessageType ==
    ASSUME NEW r \in RoomType, r.open => r.epoch \in 1 .. MaxEpochs, r.open
    PROVE  StateMessage(r) \in ToDevice /\ StateMessage(r) \in States
BY DEF StateMessage, States, ToDevice, RoomType

\* What ServeUpdate sends, to each device one message or none.
LEMMA ServeUpdateSends ==
    ASSUME TypeInv, NEW d \in Device, NEW m \in Updates, ServeUpdate(d, m)
    PROVE  /\ received' \in [Device -> Seq(ToDevice)]
           /\ shared' \in RoomType /\ shared'.epoch = shared.epoch /\ shared'.open = shared.open
           /\ shared'.doc = shared.doc \cup m.items
           /\ shared'.log = Append(shared.log, m.items)
           /\ \A e \in Device :
                \/ received'[e] = received[e]
                \/ \E x \in ToDevice :
                     /\ received'[e] = Append(received[e], x) /\ x.epoch = shared.epoch
                     /\ \/ x.t = "ack" /\ x.id = m.id /\ e = d
                        \/ x.t = "update" /\ x.items = m.items
<1>1. /\ shared.epoch \in Epochs /\ shared.doc \in SUBSET Items /\ shared.log \in Seq(SUBSET Items)
      /\ m.items \in SUBSET Items /\ m.id \in Nat
  BY DEF TypeInv, RoomType, Updates
<1> DEFINE seq == Len(shared.log) + 1
           ack == [t |-> "ack", epoch |-> shared.epoch, id |-> m.id, seq |-> seq]
           relay == [t |-> "update", epoch |-> shared.epoch, seq |-> seq, items |-> m.items]
           reached == {r \in Device : sink[r] = "live"}
<1>2. seq \in Nat
  BY <1>1, LenProperties
<1> HIDE DEF seq
<1>3. ack \in ToDevice /\ relay \in ToDevice
  BY <1>1, <1>2 DEF ToDevice, Acks, Relays
<1>4. PICK full \in SUBSET reached :
        received' = [r \in Device |->
                      IF r \notin reached \ full THEN received[r]
                      ELSE Append(received[r], IF r = d THEN ack ELSE relay)]
  BY DEF ServeUpdate, seq
<1>5. ASSUME NEW e \in Device
      PROVE  /\ received'[e] \in Seq(ToDevice)
             /\ \/ received'[e] = received[e]
                \/ \E x \in ToDevice :
                     /\ received'[e] = Append(received[e], x) /\ x.epoch = shared.epoch
                     /\ \/ x.t = "ack" /\ x.id = m.id /\ e = d
                        \/ x.t = "update" /\ x.items = m.items
  <2>1. received[e] \in Seq(ToDevice)
    BY DEF TypeInv
  <2>2. CASE e \notin reached \ full
    BY <1>4, <2>1, <2>2
  <2>3. CASE e \in reached \ full /\ e = d
    <3>1. received'[e] = Append(received[e], ack)
      BY <1>4, <2>3
    <3>2. ack.epoch = shared.epoch /\ ack.t = "ack" /\ ack.id = m.id
      OBVIOUS
    <3> HIDE DEF ack
    <3>3. received'[e] \in Seq(ToDevice)
      BY <1>3, <2>1, <3>1, AppendOf
    <3> QED
      BY <1>3, <2>3, <3>1, <3>2, <3>3
  <2>4. CASE e \in reached \ full /\ e # d
    <3>1. received'[e] = Append(received[e], relay)
      BY <1>4, <2>4
    <3>2. relay.epoch = shared.epoch /\ relay.t = "update" /\ relay.items = m.items
      OBVIOUS
    <3> HIDE DEF relay
    <3>3. received'[e] \in Seq(ToDevice)
      BY <1>3, <2>1, <3>1, AppendOf
    <3> QED
      BY <1>3, <2>4, <3>1, <3>2, <3>3
  <2> QED
    BY <2>2, <2>3, <2>4
<1>6. received' \in [Device -> Seq(ToDevice)]
  <2>1. DOMAIN received' = Device /\ received' = [r \in Device |-> received'[r]]
    BY <1>4
  <2> QED
    BY <1>5, <2>1
<1>7. /\ shared' \in RoomType /\ shared'.epoch = shared.epoch /\ shared'.open = shared.open
      /\ shared'.doc = shared.doc \cup m.items
      /\ shared'.log = Append(shared.log, m.items)
  <2> DEFINE doc == shared.doc \cup m.items
             log == Append(shared.log, m.items)
  <2>1. doc \in SUBSET Items /\ log \in Seq(SUBSET Items)
    BY <1>1, AppendOf
  <2>2. shared' = [shared EXCEPT !.doc = doc, !.log = log]
    BY DEF ServeUpdate
  <2> HIDE DEF doc, log
  <2>3. /\ shared' \in RoomType /\ shared'.epoch = shared.epoch /\ shared'.open = shared.open
        /\ shared'.doc = doc /\ shared'.log = log
    BY <2>1, <2>2 DEF RoomType, TypeInv
  <2> QED
    BY <2>3 DEF doc, log
<1> QED
  BY <1>5, <1>6, <1>7

LEMMA ActivatedType ==
    ASSUME TypeInv, shared.epoch < MaxEpochs
    PROVE  /\ Activated \in RoomType /\ Activated.epoch = shared.epoch + 1 /\ Activated.open
           /\ Activated.epoch \in 1 .. MaxEpochs
           /\ Activated.log = <<>>
           /\ Activated.doc = IF shared.epoch = 0 THEN {<<0, 1>>} ELSE shared.doc
<1>1. shared.epoch \in 0 .. MaxEpochs /\ shared.doc \in SUBSET Items
  BY DEF TypeInv, RoomType, Epochs
<1>2. shared.epoch + 1 \in 1 .. MaxEpochs /\ shared.epoch + 1 \in Epochs
  BY <1>1, Bounds DEF Epochs
<1>3. <<0, 1>> \in Items
  BY <1>2, Bounds DEF Items
<1>4. <<>> \in Seq(SUBSET Items)
  BY EmptySeq
<1>5. (IF shared.epoch = 0 THEN {<<0, 1>>} ELSE shared.doc) \in SUBSET Items
  BY <1>1, <1>3
<1>6. Activated \in RoomType
  BY <1>2, <1>4, <1>5 DEF Activated, RoomType
<1> QED
  BY <1>2, <1>6 DEF Activated

\* The answer to sync.
LEMMA SyncAnswerType ==
    ASSUME TypeInv, NEW have \in SUBSET Items
    PROVE  [t |-> "update", epoch |-> shared.epoch, seq |-> Len(shared.log),
            items |-> shared.doc \ have] \in ToDevice
<1>1. shared.epoch \in Epochs /\ shared.doc \in SUBSET Items /\ Len(shared.log) \in Nat
  <2>1. shared.log \in Seq(SUBSET Items)
    BY DEF TypeInv, RoomType
  <2> QED
    BY <2>1, LenProperties DEF TypeInv, RoomType
<1> HIDE DEF TypeInv
<1> QED
  BY <1>1 DEF ToDevice, Relays

ServedType ==
    /\ shared \in RoomType /\ (shared.open => shared.epoch \in 1 .. MaxEpochs)
    /\ received \in [Device -> Seq(ToDevice)]
    /\ sink \in [Device -> {"none", "live", "dead"}]

LEMMA ServeType ==
    ASSUME TypeInv, NEW d \in Device, NEW m \in ToServer, NEW from \in {"live", "dead"},
           Serve(d, m, from)
    PROVE  ServedType'
<1>1. CASE ServePromote(d, from)
  <2>1. /\ shared' \in RoomType /\ shared'.open /\ shared'.epoch \in 1 .. MaxEpochs
    <3>1. CASE shared.open
      <4>1. shared' = shared
        BY <1>1, <3>1 DEF ServePromote
      <4> QED
        BY <3>1, <4>1 DEF TypeInv
    <3>2. CASE ~shared.open
      <4>1. shared' = Activated /\ shared.epoch < MaxEpochs
        BY <1>1, <3>2 DEF ServePromote
      <4> QED
        BY <4>1, ActivatedType
    <3> QED
      BY <3>1, <3>2
  <2>2. StateMessage(shared') \in ToDevice
    BY <2>1, StateMessageType
  <2>3. received' = Told(d, from, <<StateMessage(shared')>>)
    BY <1>1 DEF ServePromote
  <2>4. received' \in [Device -> Seq(ToDevice)]
    BY <2>2, <2>3, ToldType DEF TypeInv
  <2>5. sink' \in [Device -> {"none", "live", "dead"}]
    BY <1>1 DEF ServePromote, TypeInv
  <2> QED
    BY <2>1, <2>4, <2>5 DEF ServedType
<1>2. CASE ServeStale(d)
  <2>1. received' \in [Device -> Seq(ToDevice)]
    <3>1. CASE shared.open
      <4>1. StateMessage(shared) \in ToDevice
        BY <3>1, StateMessageType DEF TypeInv
      <4>2. received' = Told(d, sink[d], <<StateMessage(shared)>>)
        BY <1>2, <3>1 DEF ServeStale
      <4> QED
        BY <4>1, <4>2, ToldType DEF TypeInv
    <3>2. CASE ~shared.open
      BY <1>2, <3>2 DEF ServeStale, TypeInv
    <3> QED
      BY <3>1, <3>2
  <2> QED
    BY <1>2, <2>1 DEF ServeStale, served, ServedType, TypeInv
<1>3. CASE UNCHANGED <<served, received, skips>>
  BY <1>3 DEF served, ServedType, TypeInv
<1>4. CASE ~IsStale(m) /\ m.t = "update" /\ ServeUpdate(d, m)
  <2>1. m \in Updates
    BY <1>4, ToServerType
  <2>2. /\ received' \in [Device -> Seq(ToDevice)]
        /\ shared' \in RoomType /\ shared'.epoch = shared.epoch /\ shared'.open = shared.open
    BY <1>4, <2>1, ServeUpdateSends
  <2>3. sink' = sink
    BY <1>4 DEF ServeUpdate
  <2> QED
    BY <2>2, <2>3 DEF ServedType, TypeInv
<1>5. CASE ~IsStale(m) /\ m.t = "sync" /\ ServeSync(d, m)
  <2>1. m.have \in SUBSET Items
    BY <1>5, ToServerType DEF Syncs
  <2>2. received' \in [Device -> Seq(ToDevice)]
    BY <1>5, <2>1, SyncAnswerType, ToldType DEF ServeSync, TypeInv
  <2> QED
    BY <1>5, <2>2 DEF ServeSync, served, ServedType, TypeInv
<1>6. CASE ServeLeave(d)
  BY <1>6 DEF ServeLeave, ServedType, TypeInv
<1> QED
  BY <1>1, <1>2, <1>3, <1>4, <1>5, <1>6, ServeCases

\* handleRoomState makes a session that is new, with an update for what is carried
\* into it, or leaves the one there is.
LEMMA RoomStateCases ==
    ASSUME TypeInv, NEW d \in Device, HandleRoomState(d)
    PROVE  LET m == Head(received[d])
               s == session[d]
               c == Carried(s, m)
           IN /\ m \in States /\ m \in Range(received[d]) /\ Seeded(m) \in Sessions
              /\ c \in SUBSET Items /\ (c # {} => s.outstanding # {})
              /\ UpdateMessage(Seeded(m), c) \in Updates
              /\ \/ s.open /\ s.epoch = m.epoch /\ session' = session /\ UNCHANGED sent
                 \/ /\ ~s.open \/ s.epoch # m.epoch
                    /\ c = {} /\ session' = [session EXCEPT ![d] = Seeded(m)] /\ UNCHANGED sent
                    /\ mixed' = (mixed \/ ToCome(d, m.epoch))
                 \/ /\ ~s.open \/ s.epoch # m.epoch
                    /\ c # {} /\ session' = [session EXCEPT ![d] = WithUpdate(Seeded(m), c)]
                    /\ mixed' = (mixed \/ ToCome(d, m.epoch))
                    /\ \/ Send(d, <<UpdateMessage(Seeded(m), c)>>)
                       \/ s.epoch = m.epoch /\ UNCHANGED sent
<1> DEFINE m == Head(received[d])
           s == session[d]
           c == Carried(s, m)
           next == IF s.open /\ s.epoch = m.epoch THEN s
                   ELSE IF c = {} THEN Seeded(m)
                   ELSE WithUpdate(Seeded(m), c)
<1>1. m \in ToDevice /\ m.t = "state" /\ m \in Range(received[d])
  BY ReceivesType DEF HandleRoomState
<1>2. m \in States
  BY <1>1, ToDeviceType
<1>3. Seeded(m) \in Sessions /\ s \in Sessions
  BY <1>2, SeededType DEF TypeInv
<1>4. c \in SUBSET Items
  BY <1>2, <1>3, CarriedType
<1>5. UpdateMessage(Seeded(m), c) \in Updates
  BY <1>3, <1>4, WithUpdateType
<1>6. c # {} => s.outstanding # {}
  BY DEF Carried
<1>7. /\ session' = [session EXCEPT ![d] = next]
      /\ IF next.epoch # s.epoch /\ c # {}
         THEN Send(d, <<UpdateMessage(Seeded(m), c)>>) ELSE UNCHANGED sent
      /\ mixed' = (mixed \/ (next # s /\ ToCome(d, m.epoch)))
  BY DEF HandleRoomState
<1>8. session[d] = s /\ session = [session EXCEPT ![d] = s]
  BY DEF TypeInv
<1>9. Seeded(m).epoch = m.epoch /\ Seeded(m).open
  BY DEF Seeded, NoSession
<1>10. WithUpdate(Seeded(m), c).epoch = m.epoch /\ WithUpdate(Seeded(m), c).open
  <2>1. \A x \in Sessions : WithUpdate(x, c).epoch = x.epoch /\ WithUpdate(x, c).open = x.open
    BY DEF WithUpdate, Sessions
  <2> QED
    BY <1>3, <1>9, <2>1
<1> HIDE DEF m, s, c
<1>11. CASE s.open /\ s.epoch = m.epoch
  <2>1. next = s
    BY <1>11
  <2> HIDE DEF next
  <2>2. session' = session /\ UNCHANGED sent
    BY <1>7, <1>8, <2>1
  <2> QED
    BY <1>1, <1>2, <1>3, <1>4, <1>5, <1>6, <1>11, <2>2 DEF m, s, c
<1>12. CASE (~s.open \/ s.epoch # m.epoch) /\ c = {}
  <2>1. next = Seeded(m)
    BY <1>12
  <2>2. next # s
    BY <1>9, <1>12, <2>1
  <2> HIDE DEF next
  <2>3. /\ session' = [session EXCEPT ![d] = Seeded(m)] /\ UNCHANGED sent
        /\ mixed' = (mixed \/ ToCome(d, m.epoch))
    BY <1>7, <1>12, <2>1, <2>2
  <2> QED
    BY <1>1, <1>2, <1>3, <1>4, <1>5, <1>6, <1>12, <2>3 DEF m, s, c
<1>13. CASE (~s.open \/ s.epoch # m.epoch) /\ c # {}
  <2>1. next = WithUpdate(Seeded(m), c)
    BY <1>13
  <2>2. next # s /\ next.epoch = m.epoch
    BY <1>10, <1>13, <2>1
  <2> HIDE DEF next
  <2>3. /\ session' = [session EXCEPT ![d] = WithUpdate(Seeded(m), c)]
        /\ mixed' = (mixed \/ ToCome(d, m.epoch))
        /\ \/ Send(d, <<UpdateMessage(Seeded(m), c)>>)
           \/ s.epoch = m.epoch /\ UNCHANGED sent
    BY <1>7, <1>13, <2>1, <2>2
  <2> QED
    BY <1>1, <1>2, <1>3, <1>4, <1>5, <1>6, <1>13, <2>3 DEF m, s, c
<1> QED
  BY <1>11, <1>12, <1>13

LEMMA RoomStateType ==
    ASSUME TypeInv, NEW d \in Device, HandleRoomState(d)
    PROVE  /\ session' \in [Device -> Sessions] /\ sent' \in [Device -> Seq(ToServer)]
           /\ mixed' \in BOOLEAN
<1> DEFINE m == Head(received[d])
           s == session[d]
           c == Carried(s, m)
<1>1. /\ m \in States /\ Seeded(m) \in Sessions /\ c \in SUBSET Items
      /\ \/ s.open /\ s.epoch = m.epoch /\ session' = session /\ UNCHANGED sent
         \/ /\ ~s.open \/ s.epoch # m.epoch
            /\ c = {} /\ session' = [session EXCEPT ![d] = Seeded(m)] /\ UNCHANGED sent
            /\ mixed' = (mixed \/ ToCome(d, m.epoch))
         \/ /\ ~s.open \/ s.epoch # m.epoch
            /\ c # {} /\ session' = [session EXCEPT ![d] = WithUpdate(Seeded(m), c)]
            /\ mixed' = (mixed \/ ToCome(d, m.epoch))
            /\ \/ Send(d, <<UpdateMessage(Seeded(m), c)>>)
               \/ s.epoch = m.epoch /\ UNCHANGED sent
  BY RoomStateCases
<1>2. mixed' \in BOOLEAN
  BY DEF HandleRoomState
<1>3. /\ WithUpdate(Seeded(m), c) \in Sessions /\ UpdateMessage(Seeded(m), c) \in ToServer
  BY <1>1, WithUpdateType
<1> HIDE DEF m, s, c
<1>4. session' \in [Device -> Sessions]
  BY <1>1, <1>3 DEF TypeInv
<1>5. sent' \in [Device -> Seq(ToServer)]
  BY <1>1, <1>3, SendType DEF TypeInv
<1> QED
  BY <1>2, <1>4, <1>5

LEMMA YjsUpdateType ==
    ASSUME TypeInv, NEW d \in Device, HandleYjsUpdate(d)
    PROVE  LET m == Head(received[d])
               s == session[d]
               next == [s EXCEPT !.doc = s.doc \cup m.items, !.lastSeq = m.seq,
                                 !.ackedText = TextOf("content", s.doc \cup m.items)]
           IN  /\ m \in Relays /\ m \in Range(received[d])
               /\ \/ UNCHANGED <<session, sent>>
                  \/ UNCHANGED session /\ Send(d, <<SyncMessage(s)>>)
                  \/ /\ UNCHANGED sent /\ session' = [session EXCEPT ![d] = next]
                     /\ s.open /\ s.epoch = m.epoch
               /\ SyncMessage(s) \in ToServer
               /\ next \in Sessions /\ next.open = s.open /\ next.epoch = s.epoch
               /\ next.doc = s.doc \cup m.items /\ next.outstanding = s.outstanding
               /\ next.nextUpdateId = s.nextUpdateId
<1> DEFINE m == Head(received[d])
           s == session[d]
           applied == s.doc \cup m.items
           text == TextOf("content", applied)
           next == [s EXCEPT !.doc = applied, !.lastSeq = m.seq, !.ackedText = text]
<1>1. m \in ToDevice /\ m.t = "update" /\ m \in Range(received[d])
  BY ReceivesType DEF HandleYjsUpdate
<1>2. m \in Relays /\ s \in Sessions
  BY <1>1, ToDeviceType DEF TypeInv
<1>3. \/ UNCHANGED <<session, sent>>
      \/ UNCHANGED session /\ Send(d, <<SyncMessage(s)>>)
      \/ /\ UNCHANGED sent /\ session' = [session EXCEPT ![d] = next]
         /\ s.open /\ s.epoch = m.epoch
  BY DEF HandleYjsUpdate, Concerns
<1> HIDE DEF m, s
<1>4. SyncMessage(s) \in ToServer
  BY <1>2 DEF SyncMessage, ToServer, Syncs, Sessions
<1>5. applied \in SUBSET Items /\ m.seq \in Nat
  BY <1>2 DEF Sessions, Relays
<1>6. text \in SUBSET Nat
  BY <1>5, TextType
<1> HIDE DEF applied, text
<1>7. /\ next \in Sessions /\ next.open = s.open /\ next.epoch = s.epoch
      /\ next.doc = applied /\ next.outstanding = s.outstanding
      /\ next.nextUpdateId = s.nextUpdateId
  BY <1>2, <1>5, <1>6 DEF Sessions
<1> QED
  BY <1>1, <1>2, <1>3, <1>4, <1>7 DEF m, s, applied, text

LEMMA YjsAckType ==
    ASSUME TypeInv, NEW d \in Device, HandleYjsAck(d)
    PROVE  LET m == Head(received[d])
               s == session[d]
           IN  /\ m \in Acks /\ m \in Range(received[d])
               /\ \/ UNCHANGED <<session, confirmed>>
                  \/ \E next \in Sessions :
                       /\ session' = [session EXCEPT ![d] = next]
                       /\ s.open /\ m.epoch = s.epoch
                       /\ next.open = s.open /\ next.epoch = s.epoch /\ next.doc = s.doc
                       /\ next.outstanding \subseteq s.outstanding
                       /\ next.nextUpdateId = s.nextUpdateId
                       /\ confirmed' = confirmed \cup UNION {u.items : u \in Acknowledges(s, m)}
<1> DEFINE m == Head(received[d])
           s == session[d]
           for == Acknowledges(s, m)
           last == IF m.seq > s.lastSeq THEN m.seq ELSE s.lastSeq
           seen == [s EXCEPT !.lastSeq = last]
           out == s.outstanding \ for
           text == Shown(s)
           next == IF for = {} THEN seen
                   ELSE [seen EXCEPT !.outstanding = out, !.ackedText = text]
<1>1. m \in ToDevice /\ m.t = "ack" /\ m \in Range(received[d])
  BY ReceivesType DEF HandleYjsAck
<1>2. m \in Acks /\ s \in Sessions
  BY <1>1, ToDeviceType DEF TypeInv
<1>3. \/ UNCHANGED <<session, confirmed>>
      \/ /\ session' = [session EXCEPT ![d] = next]
         /\ s.open /\ m.epoch = s.epoch
         /\ confirmed' = confirmed \cup UNION {u.items : u \in Acknowledges(s, m)}
  BY DEF HandleYjsAck, Concerns
<1> HIDE DEF m, s
<1>4. last \in Nat /\ out \in SUBSET Outstanding /\ out \subseteq s.outstanding
  BY <1>2 DEF Sessions, Acks
<1>5. text \in SUBSET Nat
  BY <1>2, TextType DEF Shown, Sessions
<1> HIDE DEF last, out, text, for
<1>6. /\ seen \in Sessions /\ seen.open = s.open /\ seen.epoch = s.epoch /\ seen.doc = s.doc
      /\ seen.outstanding = s.outstanding /\ seen.nextUpdateId = s.nextUpdateId
  BY <1>2, <1>4 DEF Sessions
<1> HIDE DEF seen
<1>7. /\ next \in Sessions /\ next.open = s.open /\ next.epoch = s.epoch /\ next.doc = s.doc
      /\ next.outstanding \subseteq s.outstanding /\ next.nextUpdateId = s.nextUpdateId
  <2>1. CASE for = {}
    BY <1>6, <2>1
  <2>2. CASE for # {}
    BY <1>4, <1>5, <1>6, <2>2 DEF Sessions
  <2> QED
    BY <2>1, <2>2
<1> HIDE DEF next
<1> QED
  BY <1>1, <1>2, <1>3, <1>7 DEF m, s

\* What the closing of the room sends.
LEMMA ClosedType ==
    ASSUME TypeInv, CloseRoom
    PROVE  /\ received' \in [Device -> Seq(ToDevice)]
           /\ \A e \in Device :
                \/ received'[e] = received[e]
                \/ \E x \in ToDevice :
                     /\ received'[e] = Append(received[e], x)
                     /\ x.epoch = shared.epoch /\ x.t = "closed"
<1> DEFINE x == [t |-> "closed", epoch |-> shared.epoch]
<1>1. x \in ToDevice
  BY DEF TypeInv, RoomType, ToDevice, Closings
<1>2. x.epoch = shared.epoch /\ x.t = "closed"
  OBVIOUS
<1>3. received' = [d \in Device |->
                     IF sink[d] = "live" THEN Append(received[d], x) ELSE received[d]]
  BY DEF CloseRoom
<1> HIDE DEF x
<1>4. \A e \in Device : Append(received[e], x) \in Seq(ToDevice)
  BY <1>1, AppendOf DEF TypeInv
<1> QED
  BY <1>1, <1>2, <1>3, <1>4 DEF TypeInv

LEMMA TypeCorrectStep == TypeInv /\ [SessionsNext]_sessionVars => TypeInv'
<1> SUFFICES ASSUME TypeInv, [SessionsNext]_sessionVars PROVE TypeInv'
  OBVIOUS
<1>1. ASSUME NEW d \in Device
      PROVE  /\ [t |-> "promote"] \in ToServer /\ SyncMessage(session[d]) \in ToServer
             /\ [t |-> "leave", epoch |-> leaving[d].epoch] \in ToServer
  <2>1. leaving[d].epoch \in Epochs /\ session[d] \in Sessions
    BY DEF TypeInv
  <2> HIDE DEF TypeInv
  <2> QED
    BY <2>1 DEF ToServer, Promotes, Leaves, Syncs, SyncMessage, Sessions
<1>2. ASSUME NEW s \in Sessions
      PROVE  Leaving(s) \in [on : BOOLEAN, epoch : Epochs, awaited : SUBSET Nat]
  <2>1. \A u \in s.outstanding : u.id \in Nat
    BY DEF Sessions, Outstanding
  <2> QED
    BY <2>1 DEF Leaving, Sessions
<1>3. NotLeaving \in [on : BOOLEAN, epoch : Epochs, awaited : SUBSET Nat]
  BY Bounds DEF NotLeaving, Epochs
<1>4. ASSUME NEW d \in Device, OpenFile(d)
      PROVE  TypeInv'
  <2>1. sent' \in [Device -> Seq(ToServer)]
    BY <1>1, <1>4, SendType DEF OpenFile, TypeInv
  <2> QED
    BY <1>4, <2>1 DEF OpenFile, TypeInv, wire, served, answered
<1>5. ASSUME NEW d \in Device, LeaveFile(d)
      PROVE  TypeInv'
  <2>1. leaving' \in [Device -> [on : BOOLEAN, epoch : Epochs, awaited : SUBSET Nat]]
    BY <1>2, <1>5 DEF LeaveFile, TypeInv
  <2> QED
    BY <1>5, <2>1 DEF LeaveFile, TypeInv, wire, served, answered, limits
<1>6. ASSUME NEW d \in Device, LeaveFileEnds(d)
      PROVE  TypeInv'
  <2>1. sent' \in [Device -> Seq(ToServer)]
    BY <1>1, <1>6, SendType DEF LeaveFileEnds, TypeInv
  <2>2. session' \in [Device -> Sessions]
    BY <1>6, NoSessionType DEF LeaveFileEnds, TypeInv
  <2>3. leaving' \in [Device -> [on : BOOLEAN, epoch : Epochs, awaited : SUBSET Nat]]
    BY <1>3, <1>6 DEF LeaveFileEnds, TypeInv
  <2> QED
    BY <1>6, <2>1, <2>2, <2>3 DEF LeaveFileEnds, TypeInv, wire, served, answered, limits
<1>7. ASSUME NEW d \in Device, OpenTimesOut(d)
      PROVE  TypeInv'
  BY <1>7 DEF OpenTimesOut, TypeInv, wire, served, answered
<1>8. ASSUME NEW d \in Device, Type(d)
      PROVE  TypeInv'
  <2> DEFINE typed == {<<marks + 1, session[d].epoch>>}
  <2>1. session[d] \in Sessions /\ marks \in 0 .. MaxMarks /\ marks < MaxMarks
    BY <1>8 DEF Type, TypeInv
  <2>2. marks + 1 \in 0 .. MaxMarks
    BY <2>1, Bounds
  <2>3. ASSUME typed \in SUBSET Items
        PROVE  TypeInv'
    <3>1. /\ WithUpdate(session[d], typed) \in Sessions
          /\ UpdateMessage(session[d], typed) \in ToServer
      BY <2>1, <2>3, WithUpdateType
    <3>2. /\ session' = [session EXCEPT ![d] = WithUpdate(session[d], typed)]
          /\ Send(d, <<UpdateMessage(session[d], typed)>>) /\ marks' = marks + 1
      BY <1>8 DEF Type
    <3> HIDE DEF typed
    <3>3. sent' \in [Device -> Seq(ToServer)]
      BY <3>1, <3>2, SendType DEF TypeInv
    <3>4. session' \in [Device -> Sessions]
      BY <3>1, <3>2 DEF TypeInv
    <3> QED
      BY <1>8, <2>2, <3>2, <3>3, <3>4 DEF Type, TypeInv, wire, served, answered
  <2>4. session[d].epoch \in 1 .. MaxEpochs
    BY <1>8, <2>1, Bounds DEF Type, Sessions, Epochs
  <2>5. <<marks + 1, session[d].epoch>> \in Items
    BY <2>2, <2>4 DEF Items
  <2> QED
    BY <2>3, <2>5
<1>9. ASSUME NEW d \in Device, EnginePromotes(d)
      PROVE  TypeInv'
  <2>1. sent' \in [Device -> Seq(ToServer)]
    BY <1>1, <1>9, SendType DEF EnginePromotes, TypeInv
  <2> QED
    BY <1>9, <2>1 DEF EnginePromotes, TypeInv, wire, served, answered
<1>10. ASSUME NEW d \in Device, HandleRoomState(d)
       PROVE  TypeInv'
  <2>1. /\ session' \in [Device -> Sessions] /\ sent' \in [Device -> Seq(ToServer)]
        /\ mixed' \in BOOLEAN
    BY <1>10, RoomStateType
  <2>2. received' \in [Device -> Seq(ToDevice)]
    BY <1>10, ReceivesType DEF HandleRoomState
  <2>3. leaving' \in [Device -> [on : BOOLEAN, epoch : Epochs, awaited : SUBSET Nat]]
    <3> DEFINE m == Head(received[d])
               s == session[d]
               c == Carried(s, m)
               next == IF s.open /\ s.epoch = m.epoch THEN s
                       ELSE IF c = {} THEN Seeded(m)
                       ELSE WithUpdate(Seeded(m), c)
    <3>1. Seeded(m) \in Sessions /\ c \in SUBSET Items /\ s \in Sessions
      BY <1>10, RoomStateCases DEF TypeInv
    <3>2. WithUpdate(Seeded(m), c) \in Sessions
      BY <3>1, WithUpdateType
    <3>3. next \in Sessions
      BY <3>1, <3>2
    <3>4. leaving' \in {leaving, [leaving EXCEPT ![d] = Leaving(next)]}
      BY <1>10 DEF HandleRoomState
    <3> HIDE DEF next
    <3>5. Leaving(next) \in [on : BOOLEAN, epoch : Epochs, awaited : SUBSET Nat]
      BY <1>2, <3>3
    <3> QED
      BY <3>4, <3>5 DEF TypeInv
  <2> QED
    BY <1>10, <2>1, <2>2, <2>3 DEF HandleRoomState, TypeInv, wire, served
<1>11. ASSUME NEW d \in Device, HandleYjsUpdate(d)
       PROVE  TypeInv'
  <2>1. session' \in [Device -> Sessions] /\ sent' \in [Device -> Seq(ToServer)]
    <3>1. CASE UNCHANGED <<session, sent>>
      BY <3>1 DEF TypeInv
    <3>2. CASE UNCHANGED session /\ Send(d, <<SyncMessage(session[d])>>)
      BY <1>1, <3>2, SendType DEF TypeInv
    <3>3. CASE UNCHANGED sent /\ \E next \in Sessions : session' = [session EXCEPT ![d] = next]
      BY <3>3 DEF TypeInv
    <3> QED
      BY <1>11, <3>1, <3>2, <3>3, YjsUpdateType
  <2>2. received' \in [Device -> Seq(ToDevice)]
    BY <1>11, ReceivesType DEF HandleYjsUpdate
  <2> QED
    BY <1>11, <2>1, <2>2 DEF HandleYjsUpdate, TypeInv, wire, served, answered
<1>12. ASSUME NEW d \in Device, HandleYjsAck(d)
       PROVE  TypeInv'
  <2>1. session' \in [Device -> Sessions]
    BY <1>12, YjsAckType DEF TypeInv
  <2>2. received' \in [Device -> Seq(ToDevice)]
    BY <1>12, ReceivesType DEF HandleYjsAck
  <2> QED
    BY <1>12, <2>1, <2>2 DEF HandleYjsAck, TypeInv, wire, served
<1>13. ASSUME NEW d \in Device, HandleRoomClosed(d)
       PROVE  TypeInv'
  <2>1. session' \in [Device -> Sessions]
    BY <1>13, NoSessionType DEF HandleRoomClosed, TypeInv
  <2>2. received' \in [Device -> Seq(ToDevice)]
    BY <1>13, ReceivesType DEF HandleRoomClosed
  <2> QED
    BY <1>13, <2>1, <2>2 DEF HandleRoomClosed, TypeInv, wire, served, answered
<1>14. ASSUME NEW d \in Device, ServeNext(d)
       PROVE  TypeInv'
  <2>1. sent[d] \in Seq(ToServer) /\ sent[d] # <<>>
    BY <1>14 DEF ServeNext, TypeInv
  <2>2. Head(sent[d]) \in ToServer /\ Tail(sent[d]) \in Seq(ToServer)
    BY <2>1, TailOf
  <2>3. ServedType'
    BY <1>14, <2>2, ServeType DEF ServeNext
  <2>4. sent' \in [Device -> Seq(ToServer)]
    BY <1>14, <2>2 DEF ServeNext, TypeInv
  <2> QED
    BY <1>14, <2>3, <2>4 DEF ServeNext, ServedType, TypeInv, wire, answered
<1>15. ASSUME NEW d \in Device, ServeLate(d)
       PROVE  TypeInv'
  <2>1. late[d] \in Seq(ToServer) /\ late[d] # <<>>
    BY <1>15 DEF ServeLate, TypeInv
  <2>2. Head(late[d]) \in ToServer /\ Tail(late[d]) \in Seq(ToServer)
    BY <2>1, TailOf
  <2>3. ServedType'
    BY <1>15, <2>2, ServeType DEF ServeLate
  <2>4. late' \in [Device -> Seq(ToServer)]
    BY <1>15, <2>2 DEF ServeLate, TypeInv
  <2> QED
    BY <1>15, <2>3, <2>4 DEF ServeLate, ServedType, TypeInv, answered
<1>16. ASSUME NEW d \in Device, Break(d)
       PROVE  TypeInv'
  <2>1. late' \in [Device -> Seq(ToServer)]
    <3>1. PICK n \in 0 .. Len(sent[d]) :
            late' = [late EXCEPT ![d] = late[d] \o SubSeq(sent[d], 1, n)]
      BY <1>16 DEF Break
    <3>2. late[d] \in Seq(ToServer) /\ sent[d] \in Seq(ToServer)
      BY DEF TypeInv
    <3>3. late[d] \o SubSeq(sent[d], 1, n) \in Seq(ToServer)
      BY <3>2, PrefixJoined
    <3> QED
      BY <3>1, <3>3 DEF TypeInv
  <2>2. <<>> \in Seq(ToServer) /\ <<>> \in Seq(ToDevice)
    BY EmptySeq
  <2>3. sent' \in [Device -> Seq(ToServer)] /\ received' \in [Device -> Seq(ToDevice)]
    BY <1>16, <2>2 DEF Break, TypeInv
  <2>4. sink' \in [Device -> {"none", "live", "dead"}]
    BY <1>16 DEF Break, TypeInv
  <2> QED
    BY <1>16, <2>1, <2>3, <2>4 DEF Break, TypeInv, answered
<1>17. ASSUME NEW d \in Device, Reconnect(d)
       PROVE  TypeInv'
  <2>1. sent' \in [Device -> Seq(ToServer)]
    BY <1>1, <1>17, SendType DEF Reconnect, TypeInv
  <2> QED
    BY <1>17, <2>1 DEF Reconnect, TypeInv, served, answered
<1>18. ASSUME NEW d \in Device, NoticeBreak(d)
       PROVE  TypeInv'
  <2>1. sink' \in [Device -> {"none", "live", "dead"}]
    BY <1>18 DEF NoticeBreak, TypeInv
  <2> QED
    BY <1>18, <2>1 DEF NoticeBreak, TypeInv, answered
<1>19. ASSUME CloseRoom
       PROVE  TypeInv'
  <2>1. shared' \in RoomType /\ (shared'.open => shared'.epoch \in 1 .. MaxEpochs)
    BY <1>19 DEF CloseRoom, TypeInv, RoomType
  <2>2. received' \in [Device -> Seq(ToDevice)]
    BY <1>19, ClosedType DEF TypeInv
  <2>3. sink' \in [Device -> {"none", "live", "dead"}]
    BY <1>19 DEF CloseRoom
  <2> QED
    BY <1>19, <2>1, <2>2, <2>3 DEF CloseRoom, TypeInv, wire, answered
<1>20. CASE UNCHANGED sessionVars
  BY <1>20 DEF sessionVars, TypeInv
<1> QED
  BY <1>4, <1>5, <1>6, <1>7, <1>8, <1>9, <1>10, <1>11, <1>12, <1>13, <1>14, <1>15, <1>16,
     <1>17, <1>18, <1>19, <1>20 DEF SessionsNext, Handle

-----------------------------------------------------------------------------
(***************************************************************************)
(* Why nothing comes twice: the invariant.                                 *)
(***************************************************************************)
Marks(items) == {i[1] : i \in items}

\* The updates of d that the server has not come to.
Unserved(d) == {m \in Range(sent[d]) \cup Range(late[d]) : m.t = "update"}

\* The marks d could still bring to the room.
Held(d) == Marks(session[d].doc) \cup UNION {Marks(u.items) : u \in Unserved(d)}

\* What a device is told is in the room; a room_state has all there is of the epochs
\* before it.
Sound(m) ==
    /\ m.epoch <= shared.epoch
    /\ m.t = "state" =>
         /\ m.doc \subseteq shared.doc
         /\ \A i \in m.doc : i[2] <= m.epoch
         /\ \A i \in shared.doc : i[2] < m.epoch => i \in m.doc
    /\ m.t = "update" => m.items \subseteq shared.doc /\ \A i \in m.items : i[2] <= m.epoch

InOrder(q) == \A i, j \in DOMAIN q : i < j => q[i].epoch <= q[j].epoch

ReceivedInv(d) == InOrder(received[d]) /\ \A m \in Range(received[d]) : Sound(m)

\* A session is not ahead of what is still to come, nor behind the epoch in which a
\* mark it shows came into the room.
SessionInv(d) ==
    /\ ~session[d].open => session[d] = NoSession
    /\ session[d].epoch <= shared.epoch
    /\ \A m \in Range(received[d]) : session[d].epoch <= m.epoch
    /\ \A i \in session[d].doc : i[1] <= marks /\ i[2] <= session[d].epoch
    /\ \A i \in shared.doc : i[1] \in Marks(session[d].doc) => i[2] <= session[d].epoch

\* An update is for the epoch of its session, and what could still be served is new.
SentInv(d) ==
    \A u \in Unserved(d) :
       /\ u.epoch <= shared.epoch
       /\ session[d].open => u.epoch <= session[d].epoch
       /\ \A m \in Range(received[d]) : u.epoch <= m.epoch
       /\ \A i \in u.items : i[2] = u.epoch /\ i[1] \in 1 .. marks
       /\ u.epoch = shared.epoch => Marks(u.items) \cap Marks(shared.doc) = {}

Apart(m, n) ==
    (m.t = "update" /\ n.t = "update" /\ m.epoch = n.epoch)
      => Marks(m.items) \cap Marks(n.items) = {}

AllApart(q) == \A i, j \in DOMAIN q : i # j => Apart(q[i], q[j])

\* A mark is on its way to an epoch once.
ApartInv(d) ==
    /\ AllApart(sent[d]) /\ AllApart(late[d])
    /\ \A m \in Range(sent[d]), n \in Range(late[d]) : Apart(m, n)

RoomInv ==
    /\ \A i \in shared.doc : i[2] <= shared.epoch /\ i[1] <= marks
    /\ shared.epoch = 0 => shared.doc = {} /\ ~shared.open
    /\ \A n \in DOMAIN shared.log : shared.log[n] \subseteq shared.doc
    /\ NothingTwice

\* What is not in the room is in the hands of one device.
Exclusive == \A d, e \in Device : d # e => Held(d) \cap Held(e) \subseteq Marks(shared.doc)

OnceInv ==
    /\ RoomInv /\ Exclusive
    /\ \A d \in Device : SessionInv(d) /\ ReceivedInv(d) /\ SentInv(d) /\ ApartInv(d)

-----------------------------------------------------------------------------
LEMMA ApartSymmetric ==
    ASSUME NEW m, NEW n, Apart(m, n)
    PROVE  Apart(n, m)
BY DEF Apart

LEMMA ApartTail ==
    ASSUME NEW S, NEW q \in Seq(S), q # <<>>, AllApart(q)
    PROVE  /\ AllApart(Tail(q))
           /\ \A m \in Range(Tail(q)) : Apart(Head(q), m)
<1> DEFINE r == Tail(q)
<1>1. r \in Seq(S) /\ Len(r) = Len(q) - 1 /\ Len(q) \in Nat \ {0}
      /\ \A i \in 1 .. Len(q) - 1 : i + 1 \in 1 .. Len(q) /\ r[i] = q[i + 1]
  BY TailOf
<1>2. DOMAIN r = 1 .. Len(q) - 1 /\ DOMAIN q = 1 .. Len(q)
      /\ Range(r) = {r[i] : i \in 1 .. Len(q) - 1}
  BY <1>1, RangeOf, Zenon
<1>3. Head(q) = q[1]
  BY TailOf
<1> HIDE DEF r
<1>4. ASSUME NEW i \in 1 .. Len(q) - 1, NEW j \in 1 .. Len(q) - 1, i # j
      PROVE  Apart(r[i], r[j])
  <2>1. i + 1 # j + 1 /\ i + 1 \in DOMAIN q /\ j + 1 \in DOMAIN q
    BY <1>1, <1>2, <1>4
  <2> QED
    BY <1>1, <2>1 DEF AllApart
<1>5. ASSUME NEW i \in 1 .. Len(q) - 1
      PROVE  Apart(q[1], r[i])
  <2>1. i + 1 # 1 /\ i + 1 \in DOMAIN q /\ 1 \in DOMAIN q
    BY <1>1, <1>2
  <2> QED
    BY <1>1, <2>1 DEF AllApart
<1>6. AllApart(r)
  BY <1>2, <1>4 DEF AllApart
<1> QED
  BY <1>2, <1>3, <1>5, <1>6 DEF r

LEMMA ApartAppend ==
    ASSUME NEW S, NEW q \in Seq(S), NEW x \in S, AllApart(q),
           \A m \in Range(q) : Apart(m, x)
    PROVE  AllApart(Append(q, x))
<1> DEFINE r == Append(q, x)
<1>1. /\ r \in Seq(S) /\ Len(r) = Len(q) + 1 /\ r[Len(q) + 1] = x /\ Len(q) \in Nat
      /\ \A i \in 1 .. Len(q) : r[i] = q[i]
  BY AppendOf, RangeOf
<1>2. DOMAIN r = 1 .. Len(q) + 1 /\ DOMAIN q = 1 .. Len(q)
      /\ Range(q) = {q[i] : i \in 1 .. Len(q)}
  BY <1>1, RangeOf, Zenon
<1> HIDE DEF r
<1>3. ASSUME NEW i \in 1 .. Len(q) + 1, NEW j \in 1 .. Len(q) + 1, i # j
      PROVE  Apart(r[i], r[j])
  <2>1. CASE i \in 1 .. Len(q) /\ j \in 1 .. Len(q)
    BY <1>1, <1>2, <1>3, <2>1 DEF AllApart
  <2>2. CASE i = Len(q) + 1 /\ j \in 1 .. Len(q)
    BY <1>1, <1>2, <2>2, ApartSymmetric
  <2>3. CASE i \in 1 .. Len(q) /\ j = Len(q) + 1
    BY <1>1, <1>2, <2>3
  <2> QED
    BY <1>1, <1>3, <2>1, <2>2, <2>3
<1> QED
  BY <1>2, <1>3 DEF AllApart, r

LEMMA ApartJoined ==
    ASSUME NEW S, NEW q \in Seq(S), NEW r \in Seq(S), NEW n \in 0 .. Len(r),
           AllApart(q), AllApart(r), \A m \in Range(r), k \in Range(q) : Apart(m, k)
    PROVE  AllApart(q \o SubSeq(r, 1, n))
<1> DEFINE p == q \o SubSeq(r, 1, n)
<1>1. /\ p \in Seq(S) /\ Len(p) = Len(q) + n /\ Len(q) \in Nat /\ n \in Nat
      /\ \A i \in 1 .. Len(q) : p[i] = q[i]
      /\ \A i \in 1 .. n : i \in 1 .. Len(r) /\ p[Len(q) + i] = r[i]
  <2>1. Len(q) \in Nat /\ Len(r) \in Nat
    BY LenProperties
  <2> QED
    BY <2>1, PrefixJoined
<1>2. /\ DOMAIN p = 1 .. Len(q) + n /\ DOMAIN q = 1 .. Len(q) /\ DOMAIN r = 1 .. Len(r)
      /\ Range(q) = {q[i] : i \in 1 .. Len(q)} /\ Range(r) = {r[i] : i \in 1 .. Len(r)}
  BY <1>1, RangeOf, Zenon
<1> HIDE DEF p
<1>3. ASSUME NEW i \in 1 .. Len(q) + n, i \notin 1 .. Len(q)
      PROVE  i - Len(q) \in 1 .. n /\ i - Len(q) \in 1 .. Len(r) /\ p[i] = r[i - Len(q)]
  <2>1. i - Len(q) \in 1 .. n /\ Len(q) + (i - Len(q)) = i
    BY <1>1, <1>3
  <2> QED
    BY <1>1, <2>1
<1>4. ASSUME NEW i \in 1 .. Len(q) + n, NEW j \in 1 .. Len(q) + n, i # j
      PROVE  Apart(p[i], p[j])
  <2>1. CASE i \in 1 .. Len(q) /\ j \in 1 .. Len(q)
    BY <1>1, <1>2, <1>4, <2>1 DEF AllApart
  <2>2. CASE i \notin 1 .. Len(q) /\ j \in 1 .. Len(q)
    BY <1>1, <1>2, <1>3, <2>2
  <2>3. CASE i \in 1 .. Len(q) /\ j \notin 1 .. Len(q)
    BY <1>1, <1>2, <1>3, <2>3, ApartSymmetric
  <2>4. CASE i \notin 1 .. Len(q) /\ j \notin 1 .. Len(q)
    <3>1. i - Len(q) # j - Len(q)
      BY <1>1, <1>4
    <3> QED
      BY <1>2, <1>3, <2>4, <3>1 DEF AllApart
  <2> QED
    BY <2>1, <2>2, <2>3, <2>4
<1> QED
  BY <1>2, <1>4 DEF AllApart, p

LEMMA OrderTail ==
    ASSUME NEW S, NEW q \in Seq(S), q # <<>>, InOrder(q)
    PROVE  /\ InOrder(Tail(q))
           /\ \A m \in Range(Tail(q)) : Head(q).epoch <= m.epoch
<1> DEFINE r == Tail(q)
<1>1. r \in Seq(S) /\ Len(r) = Len(q) - 1 /\ Len(q) \in Nat \ {0}
      /\ \A i \in 1 .. Len(q) - 1 : i + 1 \in 1 .. Len(q) /\ r[i] = q[i + 1]
  BY TailOf
<1>2. DOMAIN r = 1 .. Len(q) - 1 /\ DOMAIN q = 1 .. Len(q)
      /\ Range(r) = {r[i] : i \in 1 .. Len(q) - 1}
  BY <1>1, RangeOf, Zenon
<1>3. Head(q) = q[1]
  BY TailOf
<1> HIDE DEF r
<1>4. ASSUME NEW i \in 1 .. Len(q) - 1, NEW j \in 1 .. Len(q) - 1, i < j
      PROVE  r[i].epoch <= r[j].epoch
  <2>1. i + 1 < j + 1 /\ i + 1 \in DOMAIN q /\ j + 1 \in DOMAIN q
    BY <1>1, <1>2, <1>4
  <2>2. r[i] = q[i + 1] /\ r[j] = q[j + 1]
    BY <1>1
  <2> QED
    BY <2>1, <2>2 DEF InOrder
<1>5. ASSUME NEW i \in 1 .. Len(q) - 1
      PROVE  q[1].epoch <= r[i].epoch
  <2>1. 1 < i + 1 /\ i + 1 \in DOMAIN q /\ 1 \in DOMAIN q
    BY <1>1, <1>2
  <2>2. r[i] = q[i + 1]
    BY <1>1
  <2> QED
    BY <2>1, <2>2 DEF InOrder
<1>6. InOrder(r)
  BY <1>2, <1>4 DEF InOrder
<1> QED
  BY <1>2, <1>3, <1>5, <1>6 DEF r

LEMMA OrderAppend ==
    ASSUME NEW S, NEW q \in Seq(S), NEW x \in S, InOrder(q),
           \A m \in Range(q) : m.epoch <= x.epoch
    PROVE  InOrder(Append(q, x))
<1> DEFINE r == Append(q, x)
<1>1. /\ r \in Seq(S) /\ Len(r) = Len(q) + 1 /\ r[Len(q) + 1] = x /\ Len(q) \in Nat
      /\ \A i \in 1 .. Len(q) : r[i] = q[i]
  BY AppendOf, RangeOf
<1>2. DOMAIN r = 1 .. Len(q) + 1 /\ DOMAIN q = 1 .. Len(q)
      /\ Range(q) = {q[i] : i \in 1 .. Len(q)}
  BY <1>1, RangeOf, Zenon
<1> HIDE DEF r
<1>3. ASSUME NEW i \in 1 .. Len(q) + 1, NEW j \in 1 .. Len(q) + 1, i < j
      PROVE  r[i].epoch <= r[j].epoch
  <2>1. i \in 1 .. Len(q) /\ (j \in 1 .. Len(q) \/ j = Len(q) + 1)
    BY <1>1, <1>3
  <2>2. CASE j \in 1 .. Len(q)
    <3>1. r[i] = q[i] /\ r[j] = q[j]
      BY <1>1, <2>1, <2>2
    <3> QED
      BY <1>2, <1>3, <2>1, <2>2, <3>1 DEF InOrder
  <2>3. CASE j = Len(q) + 1
    <3>1. r[i] = q[i] /\ r[j] = x /\ q[i] \in Range(q)
      BY <1>1, <1>2, <2>1, <2>3
    <3> QED
      BY <3>1
  <2> QED
    BY <2>1, <2>2, <2>3
<1> QED
  BY <1>2, <1>3 DEF InOrder, r

-----------------------------------------------------------------------------
(***************************************************************************)
(* What keeps it.                                                          *)
(***************************************************************************)
LEMMA StateTypes ==
    ASSUME TypeInv
    PROVE  /\ shared.epoch \in Nat /\ shared.epoch \in 0 .. MaxEpochs /\ shared.doc \in SUBSET Items
           /\ marks \in Nat
           /\ \A i \in shared.doc : i \in Items /\ i[1] \in Nat /\ i[2] \in Nat /\ i[2] >= 1
           /\ \A d \in Device :
                /\ session[d] \in Sessions /\ session[d].epoch \in Nat
                /\ session[d].doc \in SUBSET Items
                /\ sent[d] \in Seq(ToServer) /\ late[d] \in Seq(ToServer)
                /\ received[d] \in Seq(ToDevice)
                /\ \A m \in Range(received[d]) : m \in ToDevice /\ m.epoch \in Nat
                /\ \A u \in Unserved(d) :
                     u \in Updates /\ u.epoch \in Nat /\ u.items \in SUBSET Items
<1>1. /\ shared.epoch \in 0 .. MaxEpochs /\ shared.doc \in SUBSET Items
      /\ marks \in Nat
  BY Bounds DEF TypeInv, RoomType, Epochs
<1>2. \A i \in shared.doc : i \in Items /\ i[1] \in Nat /\ i[2] \in Nat /\ i[2] >= 1
  BY <1>1, ItemsType
<1>3. ASSUME NEW d \in Device
      PROVE  /\ session[d] \in Sessions /\ session[d].epoch \in Nat
             /\ session[d].doc \in SUBSET Items
             /\ sent[d] \in Seq(ToServer) /\ late[d] \in Seq(ToServer)
             /\ received[d] \in Seq(ToDevice)
             /\ \A m \in Range(received[d]) : m \in ToDevice /\ m.epoch \in Nat
             /\ \A u \in Unserved(d) :
                  u \in Updates /\ u.epoch \in Nat /\ u.items \in SUBSET Items
  <2>1. /\ session[d] \in Sessions
        /\ sent[d] \in Seq(ToServer) /\ late[d] \in Seq(ToServer)
        /\ received[d] \in Seq(ToDevice)
    BY DEF TypeInv
  <2>2. session[d].epoch \in Nat /\ session[d].doc \in SUBSET Items
    BY <2>1, Bounds DEF Sessions, Epochs
  <2>3. \A m \in Range(received[d]) : m \in ToDevice /\ m.epoch \in Nat
    BY <2>1, RangeOf, ToDeviceType
  <2>4. \A u \in Unserved(d) : u \in ToServer /\ u.t = "update"
    BY <2>1, RangeOf DEF Unserved
  <2>5. \A u \in Unserved(d) : u \in Updates
    BY <2>4, ToServerType
  <2>6. \A u \in Updates : u.epoch \in Nat /\ u.items \in SUBSET Items
    BY Bounds DEF Updates, Epochs
  <2> QED
    BY <2>1, <2>2, <2>3, <2>5, <2>6
<1> QED
  BY <1>1, <1>2, <1>3

\* A step that makes no update and no session, and gives out only what is sound.
LEMMA OnceKept ==
    ASSUME TypeInv, TypeInv', OnceInv, RoomInv',
           marks' = marks, shared.epoch <= shared'.epoch, shared.doc \subseteq shared'.doc,
           \A i \in shared'.doc \ shared.doc : i[2] = shared'.epoch,
           \A e \in Device :
             /\ \/ session'[e] = NoSession
                \/ /\ session'[e].open = session[e].open
                   /\ session'[e].epoch = session[e].epoch /\ session'[e].doc = session[e].doc
                   /\ ~session[e].open => session'[e] = session[e]
             /\ \A i \in shared'.doc \ shared.doc :
                  i[1] \in Marks(session[e].doc) => i[2] <= session[e].epoch
             /\ Unserved(e)' \subseteq Unserved(e)
             /\ \A u \in Unserved(e)' :
                  u.epoch = shared'.epoch => Marks(u.items) \cap Marks(shared'.doc) = {}
             /\ ApartInv(e)'
             /\ InOrder(received'[e])
             /\ \A m \in Range(received'[e]) :
                  \/ m \in Range(received[e])
                  \/ m.epoch = shared'.epoch /\ Sound(m)'
    PROVE  OnceInv'
<1>1. Marks(shared.doc) \subseteq Marks(shared'.doc)
  BY DEF Marks
<1>2. ASSUME NEW e \in Device, NEW m \in Range(received[e])
      PROVE  Sound(m)'
  <2>1. Sound(m) /\ m.epoch \in Nat
    BY StateTypes DEF OnceInv, ReceivedInv
  <2>2. shared'.epoch \in Nat
    <3>1. shared'.epoch \in Epochs
      BY DEF TypeInv, RoomType
    <3> QED
      BY <3>1, Bounds DEF Epochs
  <2>3. \A i \in shared'.doc : i[2] < m.epoch => i \in shared.doc
    <3>1. m.epoch <= shared.epoch /\ shared.epoch \in Nat
      BY <2>1, StateTypes DEF Sound
    <3>2. ~(shared'.epoch < m.epoch)
      BY <2>1, <2>2, <3>1
    <3> QED
      BY <3>2
  <2>4. m.epoch <= shared'.epoch
    BY <2>1, <2>2, StateTypes DEF Sound
  <2>5. ASSUME m.t = "state"
        PROVE  /\ m.doc \subseteq shared'.doc
               /\ \A i \in m.doc : i[2] <= m.epoch
               /\ \A i \in shared'.doc : i[2] < m.epoch => i \in m.doc
    BY <2>1, <2>3, <2>5 DEF Sound
  <2>6. ASSUME m.t = "update"
        PROVE  m.items \subseteq shared'.doc /\ \A i \in m.items : i[2] <= m.epoch
    BY <2>1, <2>6 DEF Sound
  <2> QED
    BY <2>4, <2>5, <2>6 DEF Sound
<1>3. ASSUME NEW e \in Device
      PROVE  ReceivedInv(e)'
  BY <1>2 DEF ReceivedInv
<1>4. ASSUME NEW e \in Device
      PROVE  Marks(session'[e].doc) \subseteq Marks(session[e].doc)
  BY DEF NoSession, Marks
<1>5. shared'.epoch \in Nat /\ shared.epoch \in Nat
  <2>1. shared'.epoch \in Epochs
    BY DEF TypeInv, RoomType
  <2> QED
    BY <2>1, Bounds, StateTypes DEF Epochs
<1>6. ASSUME NEW e \in Device
      PROVE  SessionInv(e)'
  <2>1. SessionInv(e) /\ session[e].epoch \in Nat
    BY StateTypes DEF OnceInv
  <2>2. CASE session'[e] = NoSession
    <3>1. session'[e].epoch = 0 /\ session'[e].doc = {}
      BY <2>2 DEF NoSession
    <3>2. \A m \in Range(received'[e]) : m.epoch \in Nat
      BY <1>5, StateTypes
    <3> QED
      BY <1>5, <2>2, <3>1, <3>2 DEF SessionInv, Marks
  <2>3. CASE /\ session'[e].open = session[e].open
             /\ session'[e].epoch = session[e].epoch /\ session'[e].doc = session[e].doc
             /\ ~session[e].open => session'[e] = session[e]
    <3>1. session'[e].epoch <= shared'.epoch
      BY <1>5, <2>1, <2>3 DEF SessionInv
    <3>2. \A m \in Range(received'[e]) : session'[e].epoch <= m.epoch
      BY <2>1, <2>3, <3>1 DEF SessionInv
    <3>3. \A i \in shared'.doc : i[1] \in Marks(session'[e].doc) => i[2] <= session'[e].epoch
      BY <2>1, <2>3 DEF SessionInv
    <3> QED
      BY <2>1, <2>3, <3>1, <3>2, <3>3 DEF SessionInv
  <2> QED
    BY <2>2, <2>3
<1>7. ASSUME NEW e \in Device
      PROVE  SentInv(e)'
  <2> SUFFICES ASSUME NEW u \in Unserved(e)'
               PROVE  /\ u.epoch <= shared'.epoch
                      /\ session'[e].open => u.epoch <= session'[e].epoch
                      /\ \A m \in Range(received'[e]) : u.epoch <= m.epoch
                      /\ \A i \in u.items : i[2] = u.epoch /\ i[1] \in 1 .. marks'
                      /\ u.epoch = shared'.epoch => Marks(u.items) \cap Marks(shared'.doc) = {}
    BY DEF SentInv
  <2>1. u \in Unserved(e) /\ u.epoch \in Nat
    BY StateTypes
  <2>2. /\ u.epoch <= shared.epoch
        /\ session[e].open => u.epoch <= session[e].epoch
        /\ \A m \in Range(received[e]) : u.epoch <= m.epoch
        /\ \A i \in u.items : i[2] = u.epoch /\ i[1] \in 1 .. marks
    BY <2>1 DEF OnceInv, SentInv
  <2>3. u.epoch <= shared'.epoch
    BY <1>5, <2>1, <2>2
  <2>4. session'[e].open => u.epoch <= session'[e].epoch
    <3>1. ~NoSession.open
      BY DEF NoSession
    <3> QED
      BY <2>2, <3>1
  <2> QED
    BY <2>2, <2>3, <2>4
<1>8. Exclusive'
  <2>1. ASSUME NEW e \in Device
        PROVE  Held(e)' \subseteq Held(e)
    BY <1>4 DEF Held
  <2> QED
    BY <1>1, <2>1 DEF OnceInv, Exclusive
<1> QED
  BY <1>3, <1>6, <1>7, <1>8 DEF OnceInv

\* A step of which the room notices nothing.
QuietFor(e) ==
    /\ \/ session'[e] = NoSession
       \/ /\ session'[e].open = session[e].open
          /\ session'[e].epoch = session[e].epoch /\ session'[e].doc = session[e].doc
          /\ ~session[e].open => session'[e] = session[e]
    /\ Unserved(e)' \subseteq Unserved(e)
    /\ ApartInv(e)'
    /\ InOrder(received'[e])
    /\ \A m \in Range(received'[e]) :
         \/ m \in Range(received[e])
         \/ m.epoch = shared.epoch /\ Sound(m)

LEMMA OnceKeptQuietly ==
    ASSUME TypeInv, TypeInv', OnceInv, UNCHANGED <<shared, marks>>,
           \A e \in Device : QuietFor(e)
    PROVE  OnceInv'
<1> USE DEF QuietFor
<1>1. RoomInv'
  BY DEF OnceInv, RoomInv, NothingTwice, CarriedOnce, LoggedOnce
<1>2. \A m : Sound(m)' <=> Sound(m)
  BY DEF Sound
<1>3. shared.epoch <= shared'.epoch /\ shared.doc \subseteq shared'.doc
  BY StateTypes
<1>4. ASSUME NEW e \in Device, NEW u \in Unserved(e)', u.epoch = shared'.epoch
      PROVE  Marks(u.items) \cap Marks(shared'.doc) = {}
  <2>1. u \in Unserved(e)
    BY <1>4
  <2> QED
    BY <1>4, <2>1 DEF OnceInv, SentInv
<1>5. \A i : i \notin shared'.doc \ shared.doc
  OBVIOUS
<1>6. \A e \in Device : \A m \in Range(received'[e]) :
        m \in Range(received[e]) \/ (m.epoch = shared'.epoch /\ Sound(m)')
  BY <1>2
<1> HIDE DEF RoomInv, Sound
<1> QED
  <2>1. ASSUME NEW e \in Device
        PROVE  /\ \/ session'[e] = NoSession
                  \/ /\ session'[e].open = session[e].open
                     /\ session'[e].epoch = session[e].epoch /\ session'[e].doc = session[e].doc
                     /\ ~session[e].open => session'[e] = session[e]
               /\ Unserved(e)' \subseteq Unserved(e)
               /\ ApartInv(e)' /\ InOrder(received'[e])
    OBVIOUS
  <2> HIDE DEF QuietFor
  <2> QED
    BY <1>1, <1>3, <1>4, <1>5, <1>6, <2>1, OnceKept

\* Sending something other than an update.
LEMMA OnceSend ==
    ASSUME TypeInv, OnceInv, NEW d \in Device, NEW m \in ToServer, m.t # "update",
           Send(d, <<m>>), UNCHANGED late
    PROVE  \A e \in Device : Unserved(e)' \subseteq Unserved(e) /\ ApartInv(e)'
<1>1. /\ sent'[d] = Append(sent[d], m) /\ Range(sent'[d]) = Range(sent[d]) \cup {m}
      /\ \A e \in Device \ {d} : sent'[e] = sent[e]
  BY SendType DEF TypeInv
<1>2. \A e \in Device : ApartInv(e)
  BY DEF OnceInv
<1>3. \A n : Apart(n, m) /\ Apart(m, n)
  BY DEF Apart
<1>4. AllApart(sent'[d])
  BY <1>1, <1>2, <1>3, ApartAppend DEF TypeInv, ApartInv
<1>5. ASSUME NEW e \in Device
      PROVE  ApartInv(e)'
  <2>1. CASE e = d
    BY <1>1, <1>2, <1>3, <1>4, <2>1 DEF ApartInv
  <2>2. CASE e # d
    BY <1>1, <1>2, <2>2 DEF ApartInv
  <2> QED
    BY <2>1, <2>2
<1>6. ASSUME NEW e \in Device
      PROVE  Unserved(e)' \subseteq Unserved(e)
  <2>1. CASE e = d
    BY <1>1, <2>1 DEF Unserved
  <2>2. CASE e # d
    BY <1>1, <2>2 DEF Unserved
  <2> QED
    BY <2>1, <2>2
<1> QED
  BY <1>5, <1>6

\* Nothing is sent.
LEMMA OnceSilent ==
    ASSUME OnceInv, UNCHANGED <<sent, late>>
    PROVE  \A e \in Device : Unserved(e)' = Unserved(e) /\ ApartInv(e)'
BY DEF OnceInv, Unserved, ApartInv

\* Nothing is received, or d handles one message.
LEMMA OnceReceives ==
    ASSUME TypeInv, OnceInv, NEW d \in Device,
           UNCHANGED received \/ \E type : Receives(d, type)
    PROVE  \A e \in Device :
             InOrder(received'[e]) /\ Range(received'[e]) \subseteq Range(received[e])
<1>1. \A e \in Device : InOrder(received[e])
  BY DEF OnceInv, ReceivedInv
<1>2. CASE UNCHANGED received
  BY <1>1, <1>2
<1>3. CASE \E type : Receives(d, type)
  <2>1. PICK type : Receives(d, type)
    BY <1>3
  <2>2. /\ received'[d] = Tail(received[d])
        /\ Range(received'[d]) \subseteq Range(received[d])
        /\ \A e \in Device \ {d} : received'[e] = received[e]
    BY <2>1, ReceivesType
  <2>3. received[d] \in Seq(ToDevice) /\ received[d] # <<>>
    BY <2>1 DEF Receives, TypeInv
  <2>4. InOrder(Tail(received[d]))
    BY <1>1, <2>3, OrderTail
  <2> QED
    BY <1>1, <2>2, <2>4
<1> QED
  BY <1>2, <1>3

-----------------------------------------------------------------------------
(***************************************************************************)
(* The steps of the devices.                                               *)
(***************************************************************************)
LEMMA SessionSame ==
    ASSUME UNCHANGED session, NEW e \in Device
    PROVE  /\ session'[e].open = session[e].open
           /\ session'[e].epoch = session[e].epoch /\ session'[e].doc = session[e].doc
           /\ ~session[e].open => session'[e] = session[e]
OBVIOUS

\* The message is not an update, or nothing is sent.
LEMMA OnceSmallTalk ==
    ASSUME TypeInv, TypeInv', OnceInv, NEW d \in Device, UNCHANGED <<shared, marks, late>>,
           UNCHANGED session \/ session' = [session EXCEPT ![d] = NoSession],
           \/ UNCHANGED sent
           \/ \E m \in ToServer : m.t # "update" /\ Send(d, <<m>>),
           UNCHANGED received \/ \E type : Receives(d, type)
    PROVE  OnceInv'
<1>1. \A e \in Device : Unserved(e)' \subseteq Unserved(e) /\ ApartInv(e)'
  <2>1. CASE UNCHANGED sent
    BY <2>1, OnceSilent
  <2>2. CASE \E m \in ToServer : m.t # "update" /\ Send(d, <<m>>)
    BY <2>2, OnceSend
  <2> QED
    BY <2>1, <2>2
<1>2. \A e \in Device :
        InOrder(received'[e]) /\ Range(received'[e]) \subseteq Range(received[e])
  BY OnceReceives
<1>3. ASSUME NEW e \in Device
      PROVE  \/ session'[e] = NoSession
             \/ /\ session'[e].open = session[e].open
                /\ session'[e].epoch = session[e].epoch /\ session'[e].doc = session[e].doc
                /\ ~session[e].open => session'[e] = session[e]
  BY DEF TypeInv
<1> QED
  <2>1. ASSUME NEW e \in Device
        PROVE  QuietFor(e)
    BY <1>1, <1>2, <1>3 DEF QuietFor
  <2> QED
    BY <2>1, OnceKeptQuietly

LEMMA OnceQuietActions ==
    ASSUME TypeInv, TypeInv', OnceInv, NEW d \in Device,
           \/ OpenFile(d) \/ LeaveFile(d) \/ LeaveFileEnds(d) \/ OpenTimesOut(d)
           \/ EnginePromotes(d) \/ HandleRoomClosed(d) \/ Reconnect(d) \/ NoticeBreak(d)
    PROVE  OnceInv'
<1> DEFINE promote == [t |-> "promote"]
           leave == [t |-> "leave", epoch |-> leaving[d].epoch]
           sync == SyncMessage(session[d])
<1>1. promote \in ToServer /\ promote.t # "update"
  BY DEF ToServer, Promotes
<1>2. leave \in ToServer /\ leave.t # "update"
  <2>1. leaving[d].epoch \in Epochs
    BY DEF TypeInv
  <2> QED
    BY <2>1 DEF ToServer, Leaves
<1>3. sync \in ToServer /\ sync.t # "update"
  BY StateTypes DEF ToServer, Syncs, SyncMessage, Sessions
<1>4. UNCHANGED <<shared, marks, late>>
  BY DEF OpenFile, LeaveFile, LeaveFileEnds, OpenTimesOut, EnginePromotes, HandleRoomClosed,
         Reconnect, NoticeBreak, served, wire, limits
<1>5. UNCHANGED session \/ session' = [session EXCEPT ![d] = NoSession]
  BY DEF OpenFile, LeaveFile, LeaveFileEnds, OpenTimesOut, EnginePromotes, HandleRoomClosed,
         Reconnect, NoticeBreak
<1>6. \/ UNCHANGED sent
      \/ Send(d, <<promote>>) \/ Send(d, <<leave>>) \/ Send(d, <<sync>>)
  BY DEF OpenFile, LeaveFile, LeaveFileEnds, OpenTimesOut, EnginePromotes, HandleRoomClosed,
         Reconnect, NoticeBreak
<1>7. UNCHANGED received \/ \E type : Receives(d, type)
  BY DEF OpenFile, LeaveFile, LeaveFileEnds, OpenTimesOut, EnginePromotes, HandleRoomClosed,
         Reconnect, NoticeBreak
<1> HIDE DEF promote, leave, sync
<1>8. UNCHANGED sent \/ \E m \in ToServer : m.t # "update" /\ Send(d, <<m>>)
  BY <1>1, <1>2, <1>3, <1>6
<1> QED
  BY <1>4, <1>5, <1>7, <1>8, OnceSmallTalk

LEMMA OnceAck ==
    ASSUME TypeInv, TypeInv', OnceInv, NEW d \in Device, HandleYjsAck(d)
    PROVE  OnceInv'
<1>1. UNCHANGED <<shared, marks, sent, late>> /\ \E type : Receives(d, type)
  BY DEF HandleYjsAck, served, wire
<1>2. \A e \in Device : Unserved(e)' \subseteq Unserved(e) /\ ApartInv(e)'
  BY <1>1, OnceSilent
<1>3. \A e \in Device :
        InOrder(received'[e]) /\ Range(received'[e]) \subseteq Range(received[e])
  BY <1>1, OnceReceives
<1>4. ASSUME NEW e \in Device
      PROVE  /\ session'[e].open = session[e].open
             /\ session'[e].epoch = session[e].epoch /\ session'[e].doc = session[e].doc
             /\ ~session[e].open => session'[e] = session[e]
  <2>1. CASE UNCHANGED <<session, confirmed>>
    BY <2>1
  <2>2. CASE \E next \in Sessions :
               /\ session' = [session EXCEPT ![d] = next] /\ session[d].open
               /\ next.open = session[d].open /\ next.epoch = session[d].epoch
               /\ next.doc = session[d].doc
    BY <2>2 DEF TypeInv
  <2> QED
    BY <2>1, <2>2, YjsAckType
<1> QED
  <2>1. ASSUME NEW e \in Device
        PROVE  QuietFor(e)
    BY <1>2, <1>3, <1>4 DEF QuietFor
  <2> QED
    BY <1>1, <2>1, OnceKeptQuietly

LEMMA OnceBreak ==
    ASSUME TypeInv, TypeInv', OnceInv, NEW d \in Device, Break(d)
    PROVE  OnceInv'
<1>1. UNCHANGED <<session, shared, marks>>
  BY DEF Break
<1>2. PICK n \in 0 .. Len(sent[d]) :
        late' = [late EXCEPT ![d] = late[d] \o SubSeq(sent[d], 1, n)]
  BY DEF Break
<1>3. late[d] \in Seq(ToServer) /\ sent[d] \in Seq(ToServer) /\ ApartInv(d)
  BY StateTypes DEF OnceInv
<1>4. /\ AllApart(late[d] \o SubSeq(sent[d], 1, n))
      /\ Range(late[d] \o SubSeq(sent[d], 1, n)) \subseteq Range(late[d]) \cup Range(sent[d])
  BY <1>3, ApartJoined, PrefixJoined DEF ApartInv
<1>5. /\ late'[d] = late[d] \o SubSeq(sent[d], 1, n)
      /\ sent'[d] = <<>> /\ received'[d] = <<>>
      /\ \A e \in Device \ {d} : late'[e] = late[e] /\ sent'[e] = sent[e] /\ received'[e] = received[e]
  BY <1>2 DEF Break, TypeInv
<1>6. AllApart(<<>>) /\ InOrder(<<>>) /\ Range(<<>>) = {}
  BY DEF AllApart, InOrder, Range
<1>7. ASSUME NEW e \in Device
      PROVE  Unserved(e)' \subseteq Unserved(e) /\ ApartInv(e)'
  <2>1. CASE e = d
    BY <1>4, <1>5, <1>6, <2>1 DEF Unserved, ApartInv
  <2>2. CASE e # d
    BY <1>5, <2>2 DEF Unserved, ApartInv, OnceInv
  <2> QED
    BY <2>1, <2>2
<1>8. ASSUME NEW e \in Device
      PROVE  InOrder(received'[e]) /\ Range(received'[e]) \subseteq Range(received[e])
  BY <1>5, <1>6 DEF OnceInv, ReceivedInv
<1> QED
  <2>1. ASSUME NEW e \in Device
        PROVE  QuietFor(e)
    BY <1>1, <1>7, <1>8 DEF QuietFor
  <2> QED
    BY <1>1, <2>1, OnceKeptQuietly

\* A mark nobody has seen.
LEMMA OnceType ==
    ASSUME TypeInv, TypeInv', OnceInv, NEW d \in Device, Type(d)
    PROVE  OnceInv'
<1> DEFINE s == session[d]
           item == <<marks + 1, s.epoch>>
           x == UpdateMessage(s, {item})
<1>1. s \in Sessions /\ s.open /\ marks \in Nat /\ marks' = marks + 1
  BY StateTypes DEF Type
<1>2. /\ session' = [session EXCEPT ![d] = WithUpdate(s, {item})]
      /\ Send(d, <<x>>) /\ UNCHANGED <<shared, late, received>>
  BY DEF Type, served, wire
<1>3. s.epoch \in 1 .. MaxEpochs /\ marks + 1 \in 0 .. MaxMarks
  BY <1>1, Bounds DEF Type, Sessions, Epochs, TypeInv
<1>4. item \in Items
  BY <1>3 DEF Items
<1>5. x \in Updates /\ x \in ToServer
  BY <1>1, <1>4, WithUpdateType
<1>6. x.t = "update" /\ x.epoch = s.epoch /\ x.items = {item}
  BY DEF UpdateMessage
<1>7. /\ session'[d].open /\ session'[d].epoch = s.epoch /\ session'[d].doc = s.doc \cup {item}
      /\ \A e \in Device \ {d} : session'[e] = session[e]
  <2>1. \A y \in Sessions : /\ WithUpdate(y, {item}).open = y.open
                            /\ WithUpdate(y, {item}).epoch = y.epoch
                            /\ WithUpdate(y, {item}).doc = y.doc \cup {item}
    BY DEF WithUpdate, Sessions
  <2> QED
    BY <1>1, <1>2, <2>1 DEF TypeInv
<1>8. item[1] = marks + 1 /\ item[2] = s.epoch
  OBVIOUS
<1> HIDE DEF item, x, s
<1>9. Marks({item}) = {marks + 1}
  BY <1>8 DEF Marks
<1>10. /\ sent'[d] = Append(sent[d], x) /\ Range(sent'[d]) = Range(sent[d]) \cup {x}
       /\ \A e \in Device \ {d} : sent'[e] = sent[e]
  BY <1>2, <1>5, SendType DEF TypeInv
<1>11. /\ Unserved(d)' = Unserved(d) \cup {x}
       /\ \A e \in Device \ {d} : Unserved(e)' = Unserved(e)
  BY <1>2, <1>6, <1>10 DEF Unserved
<1>12. ASSUME NEW e \in Device, NEW u \in Unserved(e)
       PROVE  marks + 1 \notin Marks(u.items)
  <2>1. \A i \in u.items : i[1] \in 1 .. marks
    BY DEF OnceInv, SentInv
  <2> QED
    BY <1>1, <2>1 DEF Marks
<1>13. /\ marks + 1 \notin Marks(shared.doc)
       /\ \A e \in Device : marks + 1 \notin Marks(session[e].doc)
  <2>1. \A i \in shared.doc : i[1] <= marks
    BY DEF OnceInv, RoomInv
  <2>2. \A e \in Device : \A i \in session[e].doc : i[1] <= marks
    BY DEF OnceInv, SessionInv
  <2> QED
    BY <1>1, <2>1, <2>2 DEF Marks
<1>14. RoomInv'
  <2>1. \A i \in shared.doc : i[2] <= shared.epoch /\ i[1] <= marks + 1
    BY <1>1, StateTypes DEF OnceInv, RoomInv
  <2> QED
    BY <1>1, <1>2, <2>1 DEF OnceInv, RoomInv, NothingTwice, CarriedOnce, LoggedOnce
<1>15. Exclusive'
  <2>1. Held(d)' = Held(d) \cup {marks + 1}
    <3>1. Marks(session'[d].doc) = Marks(s.doc) \cup {marks + 1}
      BY <1>7, <1>8 DEF Marks
    <3> QED
      BY <1>6, <1>9, <1>11, <3>1 DEF Held, s
  <2>2. \A e \in Device : marks + 1 \notin Held(e)
    BY <1>12, <1>13 DEF Held
  <2>3. \A e \in Device \ {d} : Held(e)' = Held(e)
    BY <1>7, <1>11 DEF Held
  <2> QED
    BY <1>2, <2>1, <2>2, <2>3 DEF OnceInv, Exclusive
<1>16. ASSUME NEW e \in Device
       PROVE  SessionInv(e)'
  <2>1. SessionInv(e) /\ session[e].epoch \in Nat
    BY StateTypes DEF OnceInv
  <2>2. CASE e # d
    <3>1. \A i \in session[e].doc : i[1] <= marks' /\ i[2] <= session[e].epoch
      <4>1. \A i \in session[e].doc : i[1] \in Nat
        BY StateTypes, ItemsType
      <4> QED
        BY <1>1, <2>1, <4>1 DEF SessionInv
    <3> QED
      BY <1>2, <1>7, <2>1, <2>2, <3>1 DEF SessionInv
  <2>3. CASE e = d
    <3>1. \A i \in s.doc \cup {item} : i[1] <= marks' /\ i[2] <= s.epoch
      <4>1. \A i \in s.doc : i[1] \in Nat
        BY StateTypes, ItemsType DEF s
      <4>2. s.epoch \in Nat
        BY StateTypes DEF s
      <4> QED
        BY <1>1, <1>8, <2>1, <2>3, <4>1, <4>2 DEF SessionInv, s
    <3>2. \A i \in shared.doc : i[1] \in Marks(s.doc \cup {item}) => i[2] <= s.epoch
      <4>1. \A i \in shared.doc : i[1] # marks + 1
        BY <1>13 DEF Marks
      <4>2. Marks(s.doc \cup {item}) = Marks(s.doc) \cup {marks + 1}
        BY <1>8 DEF Marks
      <4> QED
        BY <2>1, <2>3, <4>1, <4>2 DEF SessionInv, s
    <3> QED
      BY <1>2, <1>7, <2>1, <2>3, <3>1, <3>2 DEF SessionInv, s
  <2> QED
    BY <2>2, <2>3
<1>17. ASSUME NEW e \in Device
       PROVE  ReceivedInv(e)'
  BY <1>2 DEF OnceInv, ReceivedInv, Sound
<1>18. ASSUME NEW e \in Device
       PROVE  SentInv(e)'
  <2> SUFFICES ASSUME NEW u \in Unserved(e)'
               PROVE  /\ u.epoch <= shared'.epoch
                      /\ session'[e].open => u.epoch <= session'[e].epoch
                      /\ \A m \in Range(received'[e]) : u.epoch <= m.epoch
                      /\ \A i \in u.items : i[2] = u.epoch /\ i[1] \in 1 .. marks'
                      /\ u.epoch = shared'.epoch => Marks(u.items) \cap Marks(shared'.doc) = {}
    BY DEF SentInv
  <2>1. CASE u \in Unserved(e)
    <3>1. /\ u.epoch <= shared.epoch
          /\ session[e].open => u.epoch <= session[e].epoch
          /\ \A m \in Range(received[e]) : u.epoch <= m.epoch
          /\ \A i \in u.items : i[2] = u.epoch /\ i[1] \in 1 .. marks
          /\ u.epoch = shared.epoch => Marks(u.items) \cap Marks(shared.doc) = {}
      BY <2>1 DEF OnceInv, SentInv
    <3>2. \A i \in u.items : i[1] \in 1 .. marks'
      BY <1>1, <3>1
    <3>3. session'[e].epoch = session[e].epoch
      BY <1>7 DEF s
    <3>4. session'[e].open => u.epoch <= session'[e].epoch
      <4>1. CASE e = d
        BY <1>1, <3>1, <3>3, <4>1 DEF s
      <4>2. CASE e # d
        BY <1>7, <3>1, <4>2
      <4> QED
        BY <4>1, <4>2
    <3> QED
      BY <1>2, <3>1, <3>2, <3>4
  <2>2. CASE u \notin Unserved(e)
    <3>1. e = d /\ u = x
      BY <1>11, <2>2
    <3>2. SessionInv(d) /\ s.epoch \in Nat
      BY StateTypes DEF OnceInv, s
    <3>3. Marks(u.items) \cap Marks(shared.doc) = {}
      BY <1>6, <1>9, <1>13, <3>1
    <3>4. marks + 1 \in 1 .. marks'
      BY <1>1
    <3>5. u.epoch = s.epoch /\ s.epoch <= shared.epoch /\ session'[e].epoch = s.epoch
      BY <1>6, <1>7, <3>1, <3>2 DEF SessionInv, s
    <3>6. \A m \in Range(received'[e]) : u.epoch <= m.epoch
      BY <1>2, <3>1, <3>2, <3>5 DEF SessionInv, s
    <3>7. \A i \in u.items : i[2] = u.epoch /\ i[1] \in 1 .. marks'
      BY <1>6, <1>8, <3>1, <3>4
    <3> QED
      BY <1>2, <3>2, <3>3, <3>5, <3>6, <3>7
  <2> QED
    BY <2>1, <2>2
<1>19. ASSUME NEW e \in Device
       PROVE  ApartInv(e)'
  <2>1. ApartInv(e)
    BY DEF OnceInv
  <2>2. CASE e # d
    BY <1>2, <1>10, <2>1, <2>2 DEF ApartInv
  <2>3. CASE e = d
    <3>1. ASSUME NEW n \in Range(sent[d]) \cup Range(late[d])
          PROVE  Apart(n, x) /\ Apart(x, n)
      <4>1. n.t = "update" => n \in Unserved(d)
        BY DEF Unserved
      <4>2. n.t = "update" => marks + 1 \notin Marks(n.items)
        BY <1>12, <4>1
      <4> QED
        BY <1>6, <1>9, <4>2 DEF Apart
    <3>2. AllApart(sent'[d])
      BY <1>5, <1>10, <2>1, <2>3, <3>1, StateTypes, ApartAppend DEF ApartInv
    <3> QED
      BY <1>2, <1>10, <2>1, <2>3, <3>1, <3>2 DEF ApartInv
  <2> QED
    BY <2>2, <2>3
<1> QED
  BY <1>14, <1>15, <1>16, <1>17, <1>18, <1>19 DEF OnceInv

\* A session is given up for the room_state of a later epoch, or there was none.
LEMMA CarriedFresh ==
    ASSUME TypeInv, OnceInv, NEW d \in Device, HandleRoomState(d),
           NEW i \in Carried(session[d], Head(received[d])),
           session[d].epoch # Head(received[d]).epoch
    PROVE  /\ session[d].epoch < Head(received[d]).epoch
           /\ i[2] = Head(received[d]).epoch /\ i[1] \in 1 .. marks
           /\ i[1] \in Marks(session[d].doc) /\ i[1] \notin Marks(shared.doc)
<1> DEFINE m == Head(received[d])
           s == session[d]
<1>1. m \in States /\ m \in Range(received[d])
  BY RoomStateCases
<1>2. /\ i[1] \in Shown(s) /\ i[1] \notin TextOf("content", m.doc) /\ i[2] = m.epoch
  <2>1. Carried(s, m) \subseteq ((Shown(s) \ s.ackedText) \ TextOf("content", m.doc)) \X {m.epoch}
    BY DEF Carried
  <2> QED
    BY <2>1
<1> HIDE DEF m, s
<1>3. /\ m.epoch \in Nat /\ s.epoch \in Nat /\ s.epoch <= m.epoch /\ Sound(m)
  BY <1>1, StateTypes DEF OnceInv, SessionInv, ReceivedInv, s
<1>4. s.epoch < m.epoch
  BY <1>3 DEF m, s
<1>5. PICK k \in s.doc : TextName(k) = "content" /\ k[1] = i[1]
  BY <1>2 DEF Shown, TextOf
<1>6. k \in Items /\ k[1] # 0 /\ k[1] \in Nat
  BY <1>5, StateTypes, ItemsType DEF TextName, s
<1>7. k[1] <= marks /\ marks \in Nat
  BY <1>5, StateTypes DEF OnceInv, SessionInv, s
<1>8. i[1] \in 1 .. marks /\ i[1] \in Marks(s.doc)
  BY <1>5, <1>6, <1>7 DEF Marks
<1>9. ASSUME NEW j \in shared.doc, j[1] = i[1]
      PROVE  FALSE
  <2>1. j[2] <= s.epoch
    BY <1>8, <1>9 DEF OnceInv, SessionInv, s
  <2>2. j[2] < m.epoch
    BY <1>3, <1>4, <2>1, StateTypes
  <2>3. j \in m.doc
    BY <1>1, <1>3, <2>2 DEF Sound, States
  <2>4. TextName(j) = "content"
    BY <1>5, <1>6, <1>9 DEF TextName
  <2>5. j[1] \in TextOf("content", m.doc)
    BY <2>3, <2>4 DEF TextOf
  <2> QED
    BY <1>2, <1>9, <2>5
<1>10. i[1] \notin Marks(shared.doc)
  BY <1>9 DEF Marks
<1> QED
  BY <1>2, <1>4, <1>8, <1>10 DEF m, s

\* The session begins on the state that came, with c carried over, of which the
\* updates X are sent.
Enters(d, c, X) ==
    LET m == Head(received[d]) IN
    /\ c = Carried(session[d], m) /\ (c # {} => session[d].epoch # m.epoch)
    /\ session'[d].open /\ session'[d].epoch = m.epoch
    /\ session'[d].doc = m.doc \cup c
    /\ \A e \in Device \ {d} : session'[e] = session[e]
    /\ \A x \in X : x.t = "update" /\ x.epoch = m.epoch /\ x.items = c /\ c # {}
    /\ \/ X = {} /\ UNCHANGED sent
       \/ \E x \in X : X = {x} /\ Send(d, <<x>>)

\* The new session, and the update, if any, for what is carried.
LEMMA OnceNewSession ==
    ASSUME TypeInv, TypeInv', OnceInv, NEW d \in Device, HandleRoomState(d),
           NEW c, NEW X \in SUBSET ToServer, Enters(d, c, X)
    PROVE  OnceInv'
<1> DEFINE m == Head(received[d])
           s == session[d]
<1> SUFFICES ASSUME c = Carried(s, m), c # {} => s.epoch # m.epoch,
                    session'[d].open, session'[d].epoch = m.epoch,
                    session'[d].doc = m.doc \cup c,
                    \A e \in Device \ {d} : session'[e] = session[e],
                    \A x \in X : x.t = "update" /\ x.epoch = m.epoch /\ x.items = c /\ c # {},
                    \/ X = {} /\ UNCHANGED sent
                    \/ \E x \in X : X = {x} /\ Send(d, <<x>>)
             PROVE  OnceInv'
  BY DEF Enters
<1>1. /\ m \in States /\ m \in Range(received[d])
      /\ UNCHANGED <<shared, marks, late>> /\ \E type : Receives(d, type)
  BY RoomStateCases DEF HandleRoomState, served, wire
<1>2. Sound(m) /\ m.t = "state" /\ m.epoch \in Nat
  BY <1>1, StateTypes DEF OnceInv, ReceivedInv, States
<1>3. \A i \in c : i[2] = m.epoch /\ i[1] \in 1 .. marks
                   /\ i[1] \in Marks(s.doc) /\ i[1] \notin Marks(shared.doc)
  BY CarriedFresh
<1>4. c # {} => s.epoch < m.epoch
  BY CarriedFresh
<1>5. /\ received'[d] = Tail(received[d]) /\ received[d] \in Seq(ToDevice)
      /\ received[d] # <<>> /\ InOrder(received[d])
      /\ \A e \in Device \ {d} : received'[e] = received[e]
      /\ Range(received'[d]) \subseteq Range(received[d])
  <2>1. PICK type : Receives(d, type)
    BY <1>1
  <2> QED
    BY <2>1, ReceivesType, StateTypes DEF Receives, OnceInv, ReceivedInv
<1>6. InOrder(received'[d]) /\ \A n \in Range(received'[d]) : m.epoch <= n.epoch
  BY <1>5, OrderTail
<1>7. /\ \A e \in Device \ {d} : Unserved(e)' = Unserved(e) /\ sent'[e] = sent[e]
      /\ Unserved(d)' = Unserved(d) \cup X
  <2>1. CASE X = {} /\ UNCHANGED sent
    BY <1>1, <2>1 DEF Unserved
  <2>2. CASE \E x \in X : X = {x} /\ Send(d, <<x>>)
    <3>1. PICK x \in X : X = {x} /\ Send(d, <<x>>)
      BY <2>2
    <3>2. /\ Range(sent'[d]) = Range(sent[d]) \cup {x}
          /\ \A e \in Device \ {d} : sent'[e] = sent[e]
      BY <3>1, SendType DEF TypeInv
    <3> QED
      BY <1>1, <3>1, <3>2 DEF Unserved
  <2> QED
    BY <2>1, <2>2
<1> HIDE DEF m, s
<1>8. RoomInv'
  BY <1>1 DEF OnceInv, RoomInv, NothingTwice, CarriedOnce, LoggedOnce
<1>9. Marks(m.doc) \subseteq Marks(shared.doc) /\ Marks(c) \subseteq Marks(s.doc)
  <2>1. m.doc \subseteq shared.doc
    BY <1>2 DEF Sound
  <2> QED
    BY <1>3, <2>1 DEF Marks
<1>10. Exclusive'
  <2>1. Held(d)' \subseteq Held(d) \cup Marks(shared.doc)
    <3>1. Marks(session'[d].doc) \subseteq Marks(m.doc) \cup Marks(c)
      BY DEF Marks, m
    <3>2. \A u \in Unserved(d)' : u \in Unserved(d) \/ Marks(u.items) = Marks(c)
      BY <1>7
    <3>3. \A u \in Unserved(d) : Marks(u.items) \subseteq Held(d)
      BY DEF Held
    <3>4. Marks(s.doc) \subseteq Held(d)
      BY DEF Held, s
    <3>5. \A u \in Unserved(d)' : Marks(u.items) \subseteq Held(d)
      BY <1>9, <3>2, <3>3, <3>4
    <3>6. ASSUME NEW k \in Held(d)'
          PROVE  k \in Held(d) \cup Marks(shared.doc)
      <4>1. k \in Marks(session'[d].doc) \/ \E u \in Unserved(d)' : k \in Marks(u.items)
        BY <3>6 DEF Held
      <4> QED
        BY <1>9, <3>1, <3>4, <3>5, <4>1
    <3> QED
      BY <3>6
  <2>2. \A e \in Device \ {d} : Held(e)' = Held(e)
    BY <1>7 DEF Held
  <2> QED
    BY <1>1, <2>1, <2>2 DEF OnceInv, Exclusive
<1>11. ASSUME NEW e \in Device
       PROVE  ReceivedInv(e)'
  <2>1. \A n : Sound(n)' <=> Sound(n)
    BY <1>1 DEF Sound
  <2>2. ReceivedInv(e) /\ ReceivedInv(d)
    BY DEF OnceInv
  <2> HIDE DEF Sound
  <2> QED
    BY <1>5, <1>6, <2>1, <2>2 DEF ReceivedInv
<1>12. ASSUME NEW e \in Device
       PROVE  SessionInv(e)'
  <2>1. CASE e # d
    BY <1>1, <1>5, <2>1 DEF OnceInv, SessionInv
  <2>2. CASE e = d
    <3>1. m.epoch <= shared.epoch /\ m.doc \subseteq shared.doc /\ \A i \in m.doc : i[2] <= m.epoch
      BY <1>2 DEF Sound
    <3>2. \A i \in m.doc \cup c : i[1] <= marks /\ i[2] <= m.epoch
      <4>1. \A i \in m.doc : i[1] <= marks /\ i[2] <= m.epoch
        BY <3>1 DEF OnceInv, RoomInv
      <4> QED
        BY <1>2, <1>3, <4>1, StateTypes
    <3>3. ASSUME NEW i \in shared.doc, i[1] \in Marks(m.doc \cup c)
          PROVE  i[2] <= m.epoch
      <4>1. i[1] \notin Marks(c)
        BY <1>3 DEF Marks
      <4>2. PICK j \in m.doc : j[1] = i[1]
        BY <3>3, <4>1 DEF Marks
      <4>3. j = i
        BY <3>1, <4>2 DEF OnceInv, RoomInv, NothingTwice, CarriedOnce
      <4> QED
        BY <3>1, <4>2, <4>3
    <3> QED
      BY <1>1, <1>6, <2>2, <3>1, <3>2, <3>3 DEF SessionInv, m
  <2> QED
    BY <2>1, <2>2
<1>13. ASSUME NEW e \in Device
       PROVE  SentInv(e)'
  <2> SUFFICES ASSUME NEW u \in Unserved(e)'
               PROVE  /\ u.epoch <= shared'.epoch
                      /\ session'[e].open => u.epoch <= session'[e].epoch
                      /\ \A n \in Range(received'[e]) : u.epoch <= n.epoch
                      /\ \A i \in u.items : i[2] = u.epoch /\ i[1] \in 1 .. marks'
                      /\ u.epoch = shared'.epoch => Marks(u.items) \cap Marks(shared'.doc) = {}
    BY DEF SentInv
  <2>1. CASE u \in Unserved(e)
    <3>1. /\ u.epoch <= shared.epoch
          /\ session[e].open => u.epoch <= session[e].epoch
          /\ \A n \in Range(received[e]) : u.epoch <= n.epoch
          /\ \A i \in u.items : i[2] = u.epoch /\ i[1] \in 1 .. marks
          /\ u.epoch = shared.epoch => Marks(u.items) \cap Marks(shared.doc) = {}
      BY <2>1 DEF OnceInv, SentInv
    <3>2. session'[e].open => u.epoch <= session'[e].epoch
      <4>1. CASE e = d
        BY <1>1, <3>1, <4>1 DEF m
      <4>2. CASE e # d
        BY <3>1, <4>2
      <4> QED
        BY <4>1, <4>2
    <3>3. \A n \in Range(received'[e]) : u.epoch <= n.epoch
      <4>1. CASE e = d
        BY <1>5, <3>1, <4>1
      <4>2. CASE e # d
        BY <1>5, <3>1, <4>2
      <4> QED
        BY <4>1, <4>2
    <3> QED
      BY <1>1, <3>1, <3>2, <3>3
  <2>2. CASE u \notin Unserved(e)
    <3>1. e = d /\ u \in X
      BY <1>7, <2>2
    <3>2. u.epoch = m.epoch /\ u.items = c
      BY <3>1 DEF m
    <3>3. m.epoch <= shared.epoch
      BY <1>2 DEF Sound
    <3>4. Marks(c) \cap Marks(shared.doc) = {}
      BY <1>3 DEF Marks
    <3>5. session'[e].epoch = m.epoch
      BY <3>1 DEF m
    <3>6. u.epoch <= shared'.epoch /\ u.epoch <= session'[e].epoch
      BY <1>1, <1>2, <3>2, <3>3, <3>5
    <3>7. \A n \in Range(received'[e]) : u.epoch <= n.epoch
      BY <1>6, <3>1, <3>2
    <3>8. \A i \in u.items : i[2] = u.epoch /\ i[1] \in 1 .. marks'
      <4>1. marks' = marks
        BY <1>1
      <4>2. \A i \in c : i[2] = m.epoch /\ i[1] \in 1 .. marks
        BY <1>3
      <4> QED
        BY <3>2, <4>1, <4>2
    <3>9. Marks(u.items) \cap Marks(shared'.doc) = {}
      <4>1. shared' = shared
        BY <1>1
      <4> QED
        BY <3>2, <3>4, <4>1
    <3> QED
      BY <3>6, <3>7, <3>8, <3>9
  <2> QED
    BY <2>1, <2>2
<1>14. ASSUME NEW e \in Device
       PROVE  ApartInv(e)'
  <2>1. ApartInv(e)
    BY DEF OnceInv
  <2>2. CASE e # d \/ UNCHANGED sent
    BY <1>1, <1>7, <2>1, <2>2 DEF ApartInv
  <2>3. CASE e = d /\ \E x \in X : X = {x} /\ Send(d, <<x>>)
    <3>1. PICK x \in X : Send(d, <<x>>)
      BY <2>3
    <3>2. /\ sent'[d] = Append(sent[d], x) /\ Range(sent'[d]) = Range(sent[d]) \cup {x}
      <4>1. sent \in [Device -> Seq(ToServer)] /\ x \in ToServer
        BY DEF TypeInv
      <4> QED
        BY <3>1, <4>1, SendType
    <3>3. ASSUME NEW n \in Range(sent[d]) \cup Range(late[d])
          PROVE  Apart(n, x) /\ Apart(x, n)
      <4>1. CASE n.t = "update"
        <5>1. n \in Unserved(d)
          BY <4>1 DEF Unserved
        <5>2. s.open
          <6>1. SessionInv(d) /\ c # {}
            BY DEF OnceInv
          <6>2. s.outstanding # {}
            BY <6>1 DEF Carried, s
          <6> QED
            BY <6>1, <6>2 DEF SessionInv, NoSession, s
        <5>3. n.epoch <= s.epoch /\ n.epoch \in Nat /\ s.epoch \in Nat
          BY <5>1, <5>2, StateTypes DEF OnceInv, SentInv, s
        <5>4. n.epoch # x.epoch
          BY <1>2, <1>4, <5>3 DEF m
        <5> QED
          BY <5>4 DEF Apart
      <4>2. CASE n.t # "update"
        BY <4>2 DEF Apart
      <4> QED
        BY <4>1, <4>2
    <3>4. x \in ToServer /\ sent[d] \in Seq(ToServer) /\ AllApart(sent[d])
      BY <2>1, <2>3, StateTypes DEF ApartInv
    <3>5. AllApart(sent'[d])
      BY <3>2, <3>3, <3>4, ApartAppend
    <3> QED
      BY <1>1, <2>1, <2>3, <3>2, <3>3, <3>5 DEF ApartInv
  <2> QED
    BY <2>2, <2>3
<1> QED
  BY <1>8, <1>10, <1>11, <1>12, <1>13, <1>14 DEF OnceInv

LEMMA OnceRoomState ==
    ASSUME TypeInv, TypeInv', OnceInv, NEW d \in Device, HandleRoomState(d)
    PROVE  OnceInv'
<1> DEFINE m == Head(received[d])
           s == session[d]
           c == Carried(s, m)
           x == UpdateMessage(Seeded(m), c)
<1>1. /\ m \in States /\ Seeded(m) \in Sessions
      /\ c \in SUBSET Items /\ (c # {} => s.outstanding # {})
      /\ x \in Updates
      /\ \/ s.open /\ s.epoch = m.epoch /\ session' = session /\ UNCHANGED sent
         \/ /\ ~s.open \/ s.epoch # m.epoch
            /\ c = {} /\ session' = [session EXCEPT ![d] = Seeded(m)] /\ UNCHANGED sent
            /\ mixed' = (mixed \/ ToCome(d, m.epoch))
         \/ /\ ~s.open \/ s.epoch # m.epoch
            /\ c # {} /\ session' = [session EXCEPT ![d] = WithUpdate(Seeded(m), c)]
            /\ mixed' = (mixed \/ ToCome(d, m.epoch))
            /\ \/ Send(d, <<x>>)
               \/ s.epoch = m.epoch /\ UNCHANGED sent
  BY RoomStateCases
<1>2. UNCHANGED <<shared, marks, late>> /\ \E type : Receives(d, type)
  BY DEF HandleRoomState, served, wire
<1>3. /\ Seeded(m).open /\ Seeded(m).epoch = m.epoch /\ Seeded(m).doc = m.doc
      /\ x.t = "update" /\ x.epoch = m.epoch /\ x.items = c
  BY DEF Seeded, NoSession, UpdateMessage
<1>4. /\ WithUpdate(Seeded(m), c).open /\ WithUpdate(Seeded(m), c).epoch = m.epoch
      /\ WithUpdate(Seeded(m), c).doc = m.doc \cup c
  <2>1. \A y \in Sessions : /\ WithUpdate(y, c).open = y.open
                            /\ WithUpdate(y, c).epoch = y.epoch
                            /\ WithUpdate(y, c).doc = y.doc \cup c
    BY DEF WithUpdate, Sessions
  <2> QED
    BY <1>1, <1>3, <2>1
<1> HIDE DEF x
<1>5. x \in ToServer
  BY <1>1 DEF ToServer
<1>6. CASE s.open /\ s.epoch = m.epoch /\ session' = session /\ UNCHANGED sent
  BY <1>2, <1>6, OnceSmallTalk
<1>7. CASE c = {} /\ session' = [session EXCEPT ![d] = Seeded(m)] /\ UNCHANGED sent
  <2>1. /\ session'[d] = Seeded(m)
        /\ \A e \in Device \ {d} : session'[e] = session[e]
    BY <1>7 DEF TypeInv
  <2>2. /\ session'[d].open /\ session'[d].epoch = m.epoch /\ session'[d].doc = m.doc \cup c
    BY <1>3, <1>7, <2>1
  <2>3. Enters(d, c, {})
    BY <1>7, <2>1, <2>2 DEF Enters
  <2> QED
    BY <2>3, OnceNewSession
<1>8. CASE /\ ~s.open \/ s.epoch # m.epoch
           /\ c # {} /\ session' = [session EXCEPT ![d] = WithUpdate(Seeded(m), c)]
           /\ \/ Send(d, <<x>>)
              \/ s.epoch = m.epoch /\ UNCHANGED sent
  <2>1. s.open
    <3>1. SessionInv(d)
      BY DEF OnceInv
    <3> QED
      BY <1>1, <1>8, <3>1 DEF SessionInv, NoSession
  <2>2. s.epoch # m.epoch /\ Send(d, <<x>>)
    BY <1>8, <2>1
  <2>3. /\ session'[d] = WithUpdate(Seeded(m), c)
        /\ \A e \in Device \ {d} : session'[e] = session[e]
    BY <1>8 DEF TypeInv
  <2>4. /\ session'[d].open /\ session'[d].epoch = m.epoch /\ session'[d].doc = m.doc \cup c
    BY <1>4, <2>3
  <2>5. {x} \in SUBSET ToServer
    BY <1>5
  <2>6. \A y \in {x} : y.t = "update" /\ y.epoch = m.epoch /\ y.items = c /\ c # {}
    BY <1>3, <1>8
  <2>7. Enters(d, c, {x})
    <3>1. \/ {x} = {} /\ UNCHANGED sent
          \/ \E y \in {x} : {x} = {y} /\ Send(d, <<y>>)
      BY <2>2
    <3>2. c # {} => s.epoch # m.epoch
      BY <2>2
    <3> QED
      BY <2>3, <2>4, <2>6, <3>1, <3>2 DEF Enters
  <2> QED
    BY <2>5, <2>7, OnceNewSession
<1> QED
  BY <1>1, <1>6, <1>7, <1>8

\* A relay brings what is in the room.
LEMMA OnceYjsUpdate ==
    ASSUME TypeInv, TypeInv', OnceInv, NEW d \in Device, HandleYjsUpdate(d)
    PROVE  OnceInv'
<1> DEFINE m == Head(received[d])
           s == session[d]
<1>1. UNCHANGED <<shared, marks, late>> /\ \E type : Receives(d, type)
  BY DEF HandleYjsUpdate, served, wire
<1>2. /\ m \in Relays /\ m \in Range(received[d]) /\ SyncMessage(s) \in ToServer
      /\ \/ UNCHANGED <<session, sent>>
         \/ UNCHANGED session /\ Send(d, <<SyncMessage(s)>>)
         \/ /\ UNCHANGED sent /\ s.open /\ s.epoch = m.epoch
            /\ \E next \in Sessions :
                 /\ session' = [session EXCEPT ![d] = next]
                 /\ next.open = s.open /\ next.epoch = s.epoch
                 /\ next.doc = s.doc \cup m.items
  BY YjsUpdateType
<1>3. CASE UNCHANGED <<session, sent>>
  BY <1>1, <1>3, OnceSmallTalk
<1>4. CASE UNCHANGED session /\ Send(d, <<SyncMessage(s)>>)
  <2>1. SyncMessage(s).t # "update"
    BY DEF SyncMessage
  <2> QED
    BY <1>1, <1>2, <1>4, <2>1, OnceSmallTalk
<1>5. CASE /\ UNCHANGED sent /\ s.open /\ s.epoch = m.epoch
           /\ \E next \in Sessions :
                /\ session' = [session EXCEPT ![d] = next]
                /\ next.open = s.open /\ next.epoch = s.epoch
                /\ next.doc = s.doc \cup m.items
  <2>1. /\ session'[d].open /\ session'[d].epoch = s.epoch
        /\ session'[d].doc = s.doc \cup m.items
        /\ \A e \in Device \ {d} : session'[e] = session[e]
    BY <1>5 DEF TypeInv
  <2>2. \A e \in Device : Unserved(e)' = Unserved(e) /\ ApartInv(e)'
    BY <1>1, <1>5, OnceSilent
  <2>3. \A e \in Device :
          InOrder(received'[e]) /\ Range(received'[e]) \subseteq Range(received[e])
    BY <1>1, OnceReceives
  <2>4. m.items \subseteq shared.doc /\ \A i \in m.items : i[2] <= s.epoch
    BY <1>2, <1>5 DEF OnceInv, ReceivedInv, Sound, Relays
  <2> HIDE DEF m, s
  <2>5. RoomInv'
    BY <1>1 DEF OnceInv, RoomInv, NothingTwice, CarriedOnce, LoggedOnce
  <2>6. Exclusive'
    <3>1. Marks(session'[d].doc) \subseteq Marks(s.doc) \cup Marks(shared.doc)
      BY <2>1, <2>4 DEF Marks
    <3>2. Held(d)' \subseteq Held(d) \cup Marks(shared.doc)
      BY <2>2, <3>1 DEF Held, s
    <3>3. \A e \in Device \ {d} : Held(e)' = Held(e)
      BY <2>1, <2>2 DEF Held
    <3> QED
      BY <1>1, <3>2, <3>3 DEF OnceInv, Exclusive
  <2>7. ASSUME NEW e \in Device
        PROVE  ReceivedInv(e)'
    <3>1. \A n : Sound(n)' <=> Sound(n)
      BY <1>1 DEF Sound
    <3> HIDE DEF Sound
    <3> QED
      BY <2>3, <3>1 DEF OnceInv, ReceivedInv
  <2>8. ASSUME NEW e \in Device
        PROVE  SessionInv(e)'
    <3>1. SessionInv(e)
      BY DEF OnceInv
    <3>2. CASE e # d
      BY <1>1, <2>1, <2>3, <3>1, <3>2 DEF SessionInv
    <3>3. CASE e = d
      <4>1. \A i \in s.doc \cup m.items : i[1] <= marks /\ i[2] <= s.epoch
        BY <2>4, <3>1, <3>3 DEF SessionInv, OnceInv, RoomInv, s
      <4>2. ASSUME NEW i \in shared.doc, i[1] \in Marks(s.doc \cup m.items)
            PROVE  i[2] <= s.epoch
        <5>1. CASE i[1] \in Marks(s.doc)
          BY <3>1, <3>3, <5>1 DEF SessionInv, s
        <5>2. CASE i[1] \notin Marks(s.doc)
          <6>1. PICK j \in m.items : j[1] = i[1]
            BY <4>2, <5>2 DEF Marks
          <6>2. j = i
            BY <2>4, <6>1 DEF OnceInv, RoomInv, NothingTwice, CarriedOnce
          <6> QED
            BY <2>4, <6>1, <6>2
        <5> QED
          BY <5>1, <5>2
      <4> QED
        BY <1>1, <2>1, <2>3, <3>1, <3>3, <4>1, <4>2 DEF SessionInv, s
    <3> QED
      BY <3>2, <3>3
  <2>9. ASSUME NEW e \in Device
        PROVE  SentInv(e)'
    <3>1. SentInv(e)
      BY DEF OnceInv
    <3>2. CASE e # d
      BY <1>1, <2>1, <2>2, <2>3, <3>1, <3>2 DEF SentInv
    <3>3. CASE e = d
      <4>1. s.open
        BY <1>5 DEF s
      <4> QED
        BY <1>1, <2>1, <2>2, <2>3, <3>1, <3>3, <4>1 DEF SentInv, s
    <3> QED
      BY <3>2, <3>3
  <2> QED
    BY <2>2, <2>5, <2>6, <2>7, <2>8, <2>9 DEF OnceInv
<1> QED
  BY <1>2, <1>3, <1>4, <1>5

-----------------------------------------------------------------------------
(***************************************************************************)
(* The steps of the room.                                                  *)
(***************************************************************************)
\* At most one message more for each device.
LEMMA OnceTold ==
    ASSUME TypeInv, OnceInv, NEW e \in Device, NEW x \in ToDevice, x.epoch = shared.epoch,
           NEW q, q = received[e] \/ q = Append(received[e], x)
    PROVE  InOrder(q) /\ Range(q) \subseteq Range(received[e]) \cup {x}
<1>1. /\ received[e] \in Seq(ToDevice) /\ InOrder(received[e])
      /\ \A m \in Range(received[e]) : m.epoch <= shared.epoch
  BY StateTypes DEF OnceInv, ReceivedInv, Sound
<1>2. CASE q = received[e]
  BY <1>1, <1>2
<1>3. CASE q = Append(received[e], x)
  BY <1>1, <1>3, AppendOf, OrderAppend
<1> QED
  BY <1>2, <1>3

\* The server takes a message from a connection.
Takes(d, m) ==
    \/ /\ sent[d] # <<>> /\ m = Head(sent[d])
       /\ sent' = [sent EXCEPT ![d] = Tail(@)] /\ late' = late
    \/ /\ late[d] # <<>> /\ m = Head(late[d])
       /\ late' = [late EXCEPT ![d] = Tail(@)] /\ sent' = sent

LEMMA OnceTakes ==
    ASSUME TypeInv, OnceInv, NEW d \in Device, NEW m, Takes(d, m)
    PROVE  /\ m \in ToServer /\ (m.t = "update" => m \in Unserved(d))
           /\ \A e \in Device : Unserved(e)' \subseteq Unserved(e) /\ ApartInv(e)'
           /\ \A u \in Unserved(d)' : Apart(m, u)
<1>1. sent[d] \in Seq(ToServer) /\ late[d] \in Seq(ToServer) /\ \A e \in Device : ApartInv(e)
  BY StateTypes DEF OnceInv
<1>2. CASE /\ sent[d] # <<>> /\ m = Head(sent[d])
           /\ sent' = [sent EXCEPT ![d] = Tail(sent[d])] /\ late' = late
  <2>1. /\ sent'[d] = Tail(sent[d]) /\ \A e \in Device \ {d} : sent'[e] = sent[e]
    BY <1>2 DEF TypeInv
  <2>2. /\ m \in ToServer /\ m \in Range(sent[d]) /\ Range(sent'[d]) \subseteq Range(sent[d])
    BY <1>1, <1>2, <2>1, TailOf
  <2>3. AllApart(sent'[d]) /\ \A n \in Range(sent'[d]) : Apart(m, n)
    BY <1>1, <1>2, <2>1, ApartTail DEF ApartInv
  <2>4. \A e \in Device : Range(sent'[e]) \subseteq Range(sent[e])
    BY <2>1, <2>2
  <2>5. \A e \in Device : Unserved(e)' \subseteq Unserved(e)
    BY <1>2, <2>4 DEF Unserved
  <2>6. \A e \in Device : AllApart(sent'[e])
    BY <1>1, <2>1, <2>3 DEF ApartInv
  <2>7. \A e \in Device : ApartInv(e)'
    BY <1>1, <1>2, <2>4, <2>6 DEF ApartInv
  <2>8. \A u \in Unserved(d)' : Apart(m, u)
    BY <1>1, <1>2, <2>2, <2>3 DEF ApartInv, Unserved
  <2> QED
    BY <2>2, <2>5, <2>7, <2>8 DEF Unserved
<1>3. CASE /\ late[d] # <<>> /\ m = Head(late[d])
           /\ late' = [late EXCEPT ![d] = Tail(late[d])] /\ sent' = sent
  <2>1. /\ late'[d] = Tail(late[d]) /\ \A e \in Device \ {d} : late'[e] = late[e]
    BY <1>3 DEF TypeInv
  <2>2. /\ m \in ToServer /\ m \in Range(late[d]) /\ Range(late'[d]) \subseteq Range(late[d])
    BY <1>1, <1>3, <2>1, TailOf
  <2>3. AllApart(late'[d]) /\ \A n \in Range(late'[d]) : Apart(m, n)
    BY <1>1, <1>3, <2>1, ApartTail DEF ApartInv
  <2>4. \A e \in Device : Range(late'[e]) \subseteq Range(late[e])
    BY <2>1, <2>2
  <2>5. \A e \in Device : Unserved(e)' \subseteq Unserved(e)
    BY <1>3, <2>4 DEF Unserved
  <2>6. \A e \in Device : AllApart(late'[e])
    BY <1>1, <2>1, <2>3 DEF ApartInv
  <2>7. \A e \in Device : ApartInv(e)'
    BY <1>1, <1>3, <2>4, <2>6 DEF ApartInv
  <2>8. \A u \in Unserved(d)' : Apart(m, u)
    <3>1. \A n \in Range(sent[d]) : Apart(m, n)
      BY <1>1, <2>2, ApartSymmetric DEF ApartInv
    <3> QED
      BY <1>3, <2>3, <3>1 DEF Unserved
  <2> QED
    BY <2>2, <2>5, <2>7, <2>8 DEF Unserved
<1> QED
  BY <1>2, <1>3 DEF Takes

\* The room answers with what it has and takes nothing.
LEMMA OnceAnswer ==
    ASSUME TypeInv, TypeInv', OnceInv, NEW d \in Device, NEW m, Takes(d, m),
           UNCHANGED <<session, marks, shared>>,
           NEW x \in ToDevice, x.epoch = shared.epoch, Sound(x),
           \A e \in Device : received'[e] \in {received[e], Append(received[e], x)}
    PROVE  OnceInv'
<1>1. \A e \in Device : Unserved(e)' \subseteq Unserved(e) /\ ApartInv(e)'
  BY OnceTakes
<1>2. \A e \in Device :
        InOrder(received'[e]) /\ Range(received'[e]) \subseteq Range(received[e]) \cup {x}
  BY OnceTold
<1>3. \A e \in Device : \A n \in Range(received'[e]) :
        n \in Range(received[e]) \/ (n.epoch = shared.epoch /\ Sound(n))
  BY <1>2
<1> HIDE DEF Sound
<1> QED
  <2>1. ASSUME NEW e \in Device
        PROVE  QuietFor(e)
    BY <1>1, <1>2, <1>3 DEF QuietFor
  <2> QED
    BY <2>1, OnceKeptQuietly

LEMMA StateMessageSound ==
    ASSUME TypeInv, OnceInv, shared.open
    PROVE  /\ StateMessage(shared) \in ToDevice
           /\ StateMessage(shared).epoch = shared.epoch /\ Sound(StateMessage(shared))
<1>1. StateMessage(shared) \in ToDevice
  BY StateMessageType DEF TypeInv
<1>2. /\ StateMessage(shared).epoch = shared.epoch /\ StateMessage(shared).doc = shared.doc
      /\ StateMessage(shared).t = "state"
  BY DEF StateMessage
<1> QED
  BY <1>1, <1>2, StateTypes DEF Sound, OnceInv, RoomInv

\* The room is opened for its next epoch.
LEMMA OnceActivate ==
    ASSUME TypeInv, TypeInv', OnceInv, NEW d \in Device, NEW m, Takes(d, m),
           UNCHANGED <<session, marks>>, shared' = Activated, shared.epoch < MaxEpochs,
           NEW x \in ToDevice, x.t = "state", x.epoch = shared'.epoch, x.doc = shared'.doc,
           \A e \in Device : received'[e] \in {received[e], Append(received[e], x)}
    PROVE  OnceInv'
<1>1. /\ shared'.epoch = shared.epoch + 1 /\ shared'.open /\ shared'.log = <<>>
      /\ shared'.doc = IF shared.epoch = 0 THEN {<<0, 1>>} ELSE shared.doc
      /\ shared' \in RoomType /\ shared'.epoch \in 1 .. MaxEpochs
  BY ActivatedType
<1>2. shared.epoch \in Nat /\ marks \in Nat /\ RoomInv
  BY StateTypes DEF OnceInv
<1>4. x.epoch = shared'.epoch /\ x.doc = shared'.doc /\ x.t = "state" /\ x \in ToDevice
  OBVIOUS
<1>5. shared.doc \subseteq shared'.doc
  BY <1>1, <1>2 DEF RoomInv
<1>6. \A i \in shared'.doc \ shared.doc : shared.epoch = 0 /\ i = <<0, 1>>
  BY <1>1
<1>7. \A i \in shared'.doc : i[2] <= shared'.epoch /\ i[1] <= marks'
  <2>1. \A i \in shared.doc : i[2] <= shared'.epoch /\ i[1] <= marks'
    BY <1>1, <1>2, StateTypes DEF RoomInv
  <2>2. <<0, 1>>[1] = 0 /\ <<0, 1>>[2] = 1
    OBVIOUS
  <2> QED
    BY <1>1, <1>2, <2>1, <2>2
<1>8. RoomInv'
  <2>1. \A i, j \in shared'.doc : i[1] = j[1] => i = j
    BY <1>1, <1>2 DEF RoomInv, NothingTwice, CarriedOnce
  <2>2. DOMAIN shared'.log = {}
    BY <1>1
  <2>3. shared'.epoch # 0
    BY <1>1, <1>2
  <2> QED
    BY <1>7, <2>1, <2>2, <2>3 DEF RoomInv, NothingTwice, CarriedOnce, LoggedOnce
<1>9. \A e \in Device : Unserved(e)' \subseteq Unserved(e) /\ ApartInv(e)'
  BY OnceTakes
<1>10. ASSUME NEW e \in Device
       PROVE  /\ InOrder(received'[e]) /\ Range(received'[e]) \subseteq Range(received[e]) \cup {x}
  <2>1. /\ received[e] \in Seq(ToDevice) /\ InOrder(received[e])
        /\ \A n \in Range(received[e]) : n.epoch <= shared.epoch /\ n.epoch \in Nat
    BY StateTypes DEF OnceInv, ReceivedInv, Sound
  <2>2. \A n \in Range(received[e]) : n.epoch <= x.epoch
    BY <1>1, <1>2, <1>4, <2>1
  <2>3. InOrder(Append(received[e], x)) /\ Range(Append(received[e], x)) = Range(received[e]) \cup {x}
    BY <2>1, <2>2, AppendOf, OrderAppend
  <2>4. received'[e] \in {received[e], Append(received[e], x)}
    OBVIOUS
  <2> QED
    BY <2>1, <2>3, <2>4
<1>11. Sound(x)'
  <2>1. Sound(x)' <=> /\ x.epoch <= shared'.epoch
                      /\ x.t = "state" =>
                           /\ x.doc \subseteq shared'.doc
                           /\ \A i \in x.doc : i[2] <= x.epoch
                           /\ \A i \in shared'.doc : i[2] < x.epoch => i \in x.doc
                      /\ x.t = "update" => x.items \subseteq shared'.doc
                                             /\ \A i \in x.items : i[2] <= x.epoch
    BY DEF Sound
  <2> QED
    BY <1>1, <1>4, <1>7, <2>1
<1>12. ASSUME NEW e \in Device
       PROVE  /\ session'[e].open = session[e].open
              /\ session'[e].epoch = session[e].epoch /\ session'[e].doc = session[e].doc
              /\ ~session[e].open => session'[e] = session[e]
              /\ \A i \in shared'.doc \ shared.doc :
                   i[1] \in Marks(session[e].doc) => i[2] <= session[e].epoch
              /\ \A u \in Unserved(e)' :
                   u.epoch = shared'.epoch => Marks(u.items) \cap Marks(shared'.doc) = {}
  <2>1. shared.epoch = 0 => session[e].doc = {}
    <3>1. /\ \A i \in session[e].doc : i[2] <= session[e].epoch /\ i[2] \in Nat /\ i[2] >= 1
          /\ session[e].epoch <= shared.epoch /\ session[e].epoch \in Nat
      BY StateTypes, ItemsType, Bounds DEF OnceInv, SessionInv
    <3> QED
      BY <1>2, <3>1
  <2>2. \A i : i \notin Marks({})
    BY DEF Marks
  <2>3. \A u \in Unserved(e)' : u.epoch <= shared.epoch /\ u.epoch \in Nat
    BY <1>9, StateTypes DEF OnceInv, SentInv
  <2>4. \A u \in Unserved(e)' : u.epoch # shared'.epoch
    BY <1>1, <1>2, <2>3
  <2> QED
    BY <1>6, <2>1, <2>2, <2>4
<1>13. \A i \in shared'.doc \ shared.doc : i[2] = shared'.epoch
  BY <1>1, <1>6
<1>14. shared.epoch <= shared'.epoch
  BY <1>1, <1>2
<1>15. \A e \in Device : \A n \in Range(received'[e]) :
         n \in Range(received[e]) \/ (n.epoch = shared'.epoch /\ Sound(n)')
  <2>1. \A e \in Device : \A n \in Range(received'[e]) : n \in Range(received[e]) \/ n = x
    BY <1>10
  <2> QED
    BY <1>4, <1>11, <2>1
<1> HIDE DEF RoomInv, Sound
<1> QED
  BY <1>5, <1>8, <1>9, <1>10, <1>12, <1>13, <1>14, <1>15, OnceKept

\* The server stores an update and relays it.
LEMMA OnceServeUpdate ==
    ASSUME TypeInv, TypeInv', OnceInv, NEW d \in Device, NEW m, Takes(d, m),
           UNCHANGED <<session, marks>>, m.t = "update", ~IsStale(m), ServeUpdate(d, m)
    PROVE  OnceInv'
<1>1. m \in Updates /\ m \in Unserved(d) /\ m.epoch = shared.epoch
  <2>1. m \in ToServer /\ m \in Unserved(d)
    BY OnceTakes
  <2> QED
    BY <2>1, ToServerType DEF IsStale
<1>2. shared.epoch \in Nat /\ marks \in Nat /\ RoomInv /\ m.items \in SUBSET Items
  BY <1>1, StateTypes DEF OnceInv
<1>3. /\ shared'.epoch = shared.epoch /\ shared'.open = shared.open
      /\ shared'.doc = shared.doc \cup m.items /\ shared'.log = Append(shared.log, m.items)
      /\ \A e \in Device :
           \/ received'[e] = received[e]
           \/ \E x \in ToDevice :
                /\ received'[e] = Append(received[e], x) /\ x.epoch = shared.epoch
                /\ x.t = "ack" \/ (x.t = "update" /\ x.items = m.items)
  BY <1>1, ServeUpdateSends
<1>4. /\ \A i \in m.items : i[2] = shared.epoch /\ i[1] \in 1 .. marks
      /\ Marks(m.items) \cap Marks(shared.doc) = {}
  BY <1>1 DEF OnceInv, SentInv
<1>5. \A i \in m.items : i[1] \in Marks(m.items)
  BY DEF Marks
<1>6. \A i \in shared.doc : i[1] \in Marks(shared.doc)
  BY DEF Marks
<1>7. Marks(shared'.doc) = Marks(shared.doc) \cup Marks(m.items)
  BY <1>3 DEF Marks
<1>8. m.items \cap shared.doc = {}
  BY <1>4, <1>5, <1>6
<1>9. \A i, j \in shared'.doc : i[1] = j[1] => i = j
  <2>1. \A i, j \in m.items : i[1] = j[1] => i = j
    BY <1>2, <1>4, ItemsType
  <2>2. \A i, j \in shared.doc : i[1] = j[1] => i = j
    BY <1>2 DEF RoomInv, NothingTwice, CarriedOnce
  <2>3. \A i \in m.items, j \in shared.doc : i[1] # j[1]
    BY <1>4, <1>5, <1>6
  <2> QED
    BY <1>3, <2>1, <2>2, <2>3
<1>10. /\ DOMAIN shared'.log = 1 .. Len(shared.log) + 1 /\ DOMAIN shared.log = 1 .. Len(shared.log)
       /\ shared'.log[Len(shared.log) + 1] = m.items /\ Len(shared.log) \in Nat
       /\ \A n \in 1 .. Len(shared.log) : shared'.log[n] = shared.log[n]
  <2>1. shared.log \in Seq(SUBSET Items)
    BY DEF TypeInv, RoomType
  <2>2. /\ Append(shared.log, m.items) \in Seq(SUBSET Items)
        /\ Len(Append(shared.log, m.items)) = Len(shared.log) + 1
        /\ Append(shared.log, m.items)[Len(shared.log) + 1] = m.items
        /\ \A n \in 1 .. Len(shared.log) : Append(shared.log, m.items)[n] = shared.log[n]
    BY <1>2, <2>1, AppendOf
  <2>3. DOMAIN Append(shared.log, m.items) = 1 .. Len(Append(shared.log, m.items))
    BY <2>2, RangeOf
  <2>4. DOMAIN shared.log = 1 .. Len(shared.log) /\ Len(shared.log) \in Nat
    BY <2>1, RangeOf
  <2> QED
    BY <1>3, <2>2, <2>3, <2>4
<1>11. \A n \in 1 .. Len(shared.log) : shared.log[n] \subseteq shared.doc
  BY <1>2, <1>10 DEF RoomInv
<1>12. \A n \in DOMAIN shared'.log : shared'.log[n] \subseteq shared'.doc
  <2> SUFFICES ASSUME NEW n \in 1 .. Len(shared.log) + 1
               PROVE  shared'.log[n] \subseteq shared'.doc
    BY <1>10
  <2>1. CASE n \in 1 .. Len(shared.log)
    BY <1>3, <1>10, <1>11, <2>1
  <2>2. CASE n = Len(shared.log) + 1
    BY <1>3, <1>10, <2>2
  <2> QED
    BY <1>10, <2>1, <2>2
<1>13. \A i, j \in DOMAIN shared'.log : i # j => shared'.log[i] \cap shared'.log[j] = {}
  <2>1. \A i, j \in 1 .. Len(shared.log) : i # j => shared.log[i] \cap shared.log[j] = {}
    BY <1>2, <1>10 DEF RoomInv, NothingTwice, LoggedOnce
  <2>2. \A i \in 1 .. Len(shared.log) : shared.log[i] \cap m.items = {}
    BY <1>8, <1>11
  <2> SUFFICES ASSUME NEW i \in 1 .. Len(shared.log) + 1, NEW j \in 1 .. Len(shared.log) + 1,
                      i # j
               PROVE  shared'.log[i] \cap shared'.log[j] = {}
    BY <1>10
  <2>3. CASE i \in 1 .. Len(shared.log) /\ j \in 1 .. Len(shared.log)
    BY <1>10, <2>1, <2>3
  <2>4. CASE i = Len(shared.log) + 1 /\ j \in 1 .. Len(shared.log)
    BY <1>10, <2>2, <2>4
  <2>5. CASE i \in 1 .. Len(shared.log) /\ j = Len(shared.log) + 1
    BY <1>10, <2>2, <2>5
  <2> QED
    BY <1>10, <2>3, <2>4, <2>5
<1>14. \A i \in shared'.doc : i[2] <= shared'.epoch /\ i[1] <= marks'
  <2>1. \A i \in shared.doc : i[2] <= shared.epoch /\ i[1] <= marks
    BY <1>2 DEF RoomInv
  <2>2. \A i \in m.items : i[2] <= shared.epoch /\ i[1] <= marks
    BY <1>2, <1>4
  <2> QED
    BY <1>3, <2>1, <2>2
<1>15. RoomInv'
  <2>1. shared.open
    BY DEF IsStale
  <2>2. shared'.epoch # 0
    BY <1>2, <1>3, <2>1 DEF RoomInv
  <2>3. NothingTwice'
    BY <1>9, <1>13 DEF NothingTwice, CarriedOnce, LoggedOnce
  <2> QED
    BY <1>12, <1>14, <2>2, <2>3 DEF RoomInv
<1>16. \A e \in Device : Unserved(e)' \subseteq Unserved(e) /\ ApartInv(e)'
  BY OnceTakes
<1>17. ASSUME NEW e \in Device, e # d, NEW k \in Marks(m.items), k \in Held(e)
       PROVE  FALSE
  <2>1. k \in Held(d)
    BY <1>1 DEF Held
  <2>2. Held(d) \cap Held(e) \subseteq Marks(shared.doc)
    BY <1>17 DEF OnceInv, Exclusive
  <2> QED
    BY <1>4, <1>17, <2>1, <2>2
<1>18. ASSUME NEW e \in Device, NEW i \in shared'.doc \ shared.doc,
              i[1] \in Marks(session[e].doc)
       PROVE  i[2] <= session[e].epoch
  <2>1. i \in m.items
    BY <1>3
  <2>2. CASE e # d
    <3>1. i[1] \in Held(e) /\ i[1] \in Marks(m.items)
      BY <1>5, <1>18, <2>1 DEF Held
    <3> QED
      BY <1>17, <2>2, <3>1
  <2>3. CASE e = d
    <3>1. session[d].open
      <4>1. session[d].doc # {}
        BY <1>18, <2>3 DEF Marks
      <4> QED
        BY <4>1 DEF OnceInv, SessionInv, NoSession
    <3>2. m.epoch <= session[d].epoch
      BY <1>1, <3>1 DEF OnceInv, SentInv
    <3> QED
      BY <1>1, <1>4, <2>1, <2>3, <3>2
  <2> QED
    BY <2>2, <2>3
<1>19. ASSUME NEW e \in Device, NEW u \in Unserved(e)', u.epoch = shared'.epoch
       PROVE  Marks(u.items) \cap Marks(shared'.doc) = {}
  <2>1. u \in Unserved(e) /\ Marks(u.items) \cap Marks(shared.doc) = {}
    BY <1>3, <1>16, <1>19 DEF OnceInv, SentInv
  <2>2. CASE e # d
    <3>1. \A k \in Marks(u.items) : k \in Held(e)
      BY <2>1 DEF Held
    <3> QED
      BY <1>7, <1>17, <2>1, <2>2, <3>1
  <2>3. CASE e = d
    <3>1. Apart(m, u)
      BY <1>19, <2>3, OnceTakes
    <3>2. u.t = "update" /\ u.epoch = m.epoch
      BY <1>1, <1>3, <1>19, <2>1 DEF Unserved
    <3> QED
      BY <1>7, <2>1, <3>1, <3>2 DEF Apart
  <2> QED
    BY <2>2, <2>3
<1>20. ASSUME NEW x \in ToDevice, x.epoch = shared.epoch,
              x.t = "ack" \/ (x.t = "update" /\ x.items = m.items)
       PROVE  Sound(x)'
  <2>1. \A i \in m.items : i[2] <= x.epoch
    BY <1>2, <1>4, <1>20
  <2> QED
    BY <1>2, <1>3, <1>20, <2>1 DEF Sound
<1>21. ASSUME NEW e \in Device
       PROVE  /\ InOrder(received'[e])
              /\ \A n \in Range(received'[e]) :
                   n \in Range(received[e]) \/ (n.epoch = shared'.epoch /\ Sound(n)')
  <2>1. CASE received'[e] = received[e]
    BY <2>1 DEF OnceInv, ReceivedInv
  <2>2. ASSUME NEW x \in ToDevice, received'[e] = Append(received[e], x),
               x.epoch = shared.epoch,
               x.t = "ack" \/ (x.t = "update" /\ x.items = m.items)
        PROVE  /\ InOrder(received'[e])
               /\ \A n \in Range(received'[e]) :
                    n \in Range(received[e]) \/ (n.epoch = shared'.epoch /\ Sound(n)')
    <3>1. InOrder(received'[e]) /\ Range(received'[e]) \subseteq Range(received[e]) \cup {x}
      BY <2>2, OnceTold
    <3>2. Sound(x)'
      BY <1>20, <2>2
    <3> HIDE DEF Sound
    <3> QED
      BY <1>3, <2>2, <3>1, <3>2
  <2> HIDE DEF Sound
  <2> QED
    BY <1>3, <2>1, <2>2
<1>22. \A i \in shared'.doc \ shared.doc : i[2] = shared'.epoch
  BY <1>3, <1>4
<1>23. shared.epoch <= shared'.epoch /\ shared.doc \subseteq shared'.doc /\ marks' = marks
  BY <1>2, <1>3
<1>24. \A e \in Device : /\ session'[e].open = session[e].open
                         /\ session'[e].epoch = session[e].epoch /\ session'[e].doc = session[e].doc
                         /\ ~session[e].open => session'[e] = session[e]
  BY SessionSame
<1> HIDE DEF RoomInv, Sound
<1> QED
  BY <1>15, <1>16, <1>18, <1>19, <1>21, <1>22, <1>23, <1>24, OnceKept

LEMMA OnceServe ==
    ASSUME TypeInv, TypeInv', OnceInv, NEW d \in Device, NEW m, NEW from, Takes(d, m),
           UNCHANGED <<session, marks>>, Serve(d, m, from)
    PROVE  OnceInv'
<1>1. received \in [Device -> Seq(ToDevice)]
  BY DEF TypeInv
<1>2. m \in ToServer
  BY OnceTakes
<1>3. CASE ServePromote(d, from) /\ shared.open
  <2>1. shared' = shared /\ received' = Told(d, from, <<StateMessage(shared)>>)
    BY <1>3 DEF ServePromote
  <2>2. PICK x \in ToDevice : x = StateMessage(shared) /\ x.epoch = shared.epoch /\ Sound(x)
    BY <1>3, StateMessageSound, Zenon
  <2>3. \A e \in Device : received'[e] \in {received[e], Append(received[e], x)}
    BY <1>1, <2>1, <2>2, ToldType, Zenon
  <2> QED
    BY <2>1, <2>2, <2>3, OnceAnswer
<1>4. CASE ServePromote(d, from) /\ ~shared.open
  <2>1. shared' = Activated /\ shared.epoch < MaxEpochs
    BY <1>4 DEF ServePromote
  <2>2. received' = Told(d, from, <<StateMessage(Activated)>>)
    BY <1>4, <2>1 DEF ServePromote
  <2>3. PICK x \in ToDevice : x = StateMessage(Activated)
    <3>1. Activated \in RoomType /\ Activated.open /\ Activated.epoch \in 1 .. MaxEpochs
      BY <2>1, ActivatedType
    <3> HIDE DEF Activated
    <3> QED
      BY <3>1, StateMessageType
  <2>4. x.t = "state" /\ x.epoch = shared'.epoch /\ x.doc = shared'.doc
    BY <2>1, <2>3 DEF StateMessage
  <2>5. \A e \in Device : received'[e] \in {received[e], Append(received[e], x)}
    BY <1>1, <2>2, <2>3, ToldType, Zenon
  <2> QED
    BY <2>1, <2>4, <2>5, OnceActivate
<1>5. CASE UNCHANGED <<shared, received>>
  <2>1. \A e \in Device : Unserved(e)' \subseteq Unserved(e) /\ ApartInv(e)'
    BY OnceTakes
  <2>2. \A e \in Device : InOrder(received'[e]) /\ received'[e] = received[e]
    BY <1>5 DEF OnceInv, ReceivedInv
  <2>3. \A e \in Device : /\ session'[e].open = session[e].open
                          /\ session'[e].epoch = session[e].epoch
                          /\ session'[e].doc = session[e].doc
                          /\ ~session[e].open => session'[e] = session[e]
    BY SessionSame
  <2> QED
    <3>1. ASSUME NEW e \in Device
          PROVE  QuietFor(e)
      BY <2>1, <2>2, <2>3 DEF QuietFor
    <3> QED
      BY <1>5, <3>1, OnceKeptQuietly
<1>6. CASE ServeStale(d)
  <2>1. CASE shared.open
    <3>1. shared' = shared /\ received' = Told(d, sink[d], <<StateMessage(shared)>>)
      BY <1>6, <2>1 DEF ServeStale, served
    <3>2. PICK x \in ToDevice : x = StateMessage(shared) /\ x.epoch = shared.epoch /\ Sound(x)
      BY <2>1, StateMessageSound, Zenon
    <3>3. \A e \in Device : received'[e] \in {received[e], Append(received[e], x)}
      BY <1>1, <3>1, <3>2, ToldType, Zenon
    <3> QED
      BY <3>1, <3>2, <3>3, OnceAnswer
  <2>2. CASE ~shared.open
    BY <1>5, <1>6, <2>2 DEF ServeStale, served
  <2> QED
    BY <2>1, <2>2
<1>7. CASE ~IsStale(m) /\ m.t = "sync" /\ ServeSync(d, m)
  <2>1. PICK x \in ToDevice : x = [t |-> "update", epoch |-> shared.epoch, seq |-> Len(shared.log),
                                   items |-> shared.doc \ m.have]
    <3>1. m.have \in SUBSET Items
      BY <1>2, <1>7, ToServerType DEF Syncs
    <3> QED
      BY <3>1, SyncAnswerType
  <2>2. shared' = shared /\ received' = Told(d, sink[d], <<x>>)
    BY <1>7, <2>1 DEF ServeSync, served
  <2>3. \A e \in Device : received'[e] \in {received[e], Append(received[e], x)}
    BY <1>1, <2>2, ToldType
  <2>4. x.epoch = shared.epoch /\ x.t = "update" /\ x.items \subseteq shared.doc
    BY <2>1
  <2>5. Sound(x)
    <3>1. shared.epoch \in Nat /\ \A i \in shared.doc : i[2] <= shared.epoch
      BY StateTypes DEF OnceInv, RoomInv
    <3>2. \A i \in x.items : i[2] <= x.epoch
      BY <2>4, <3>1
    <3> QED
      BY <2>4, <3>1, <3>2 DEF Sound
  <2> HIDE DEF Sound
  <2> QED
    BY <2>2, <2>3, <2>4, <2>5, OnceAnswer
<1>8. CASE ~IsStale(m) /\ m.t = "update" /\ ServeUpdate(d, m)
  BY <1>8, OnceServeUpdate
<1>9. CASE ServeLeave(d)
  BY <1>5, <1>9 DEF ServeLeave
<1>10. CASE UNCHANGED <<served, received, skips>>
  BY <1>5, <1>10 DEF served
<1> QED
  BY <1>3, <1>4, <1>6, <1>7, <1>8, <1>9, <1>10, ServeCases, Zenon

LEMMA OnceServes ==
    ASSUME TypeInv, TypeInv', OnceInv, NEW d \in Device, ServeNext(d) \/ ServeLate(d)
    PROVE  OnceInv'
<1>1. CASE ServeNext(d)
  <2>1. PICK m : m = Head(sent[d])
    OBVIOUS
  <2>2. Takes(d, m)
    BY <1>1, <2>1 DEF ServeNext, Takes, wire
  <2>3. UNCHANGED <<session, marks>> /\ Serve(d, m, "live")
    BY <1>1, <2>1, Zenon DEF ServeNext
  <2> QED
    BY <2>2, <2>3, OnceServe
<1>2. CASE ServeLate(d)
  <2>1. PICK m : m = Head(late[d])
    OBVIOUS
  <2>2. Takes(d, m)
    BY <1>2, <2>1 DEF ServeLate, Takes
  <2>3. UNCHANGED <<session, marks>> /\ Serve(d, m, "dead")
    BY <1>2, <2>1, Zenon DEF ServeLate
  <2> QED
    BY <2>2, <2>3, OnceServe
<1> QED
  BY <1>1, <1>2

LEMMA OnceCloseRoom ==
    ASSUME TypeInv, TypeInv', OnceInv, CloseRoom
    PROVE  OnceInv'
<1>1. /\ shared'.epoch = shared.epoch /\ shared'.doc = shared.doc /\ shared'.log = shared.log
      /\ ~shared'.open
  BY DEF CloseRoom, TypeInv, RoomType
<1>2. UNCHANGED <<session, sent, late, marks>>
  BY DEF CloseRoom, wire
<1>3. RoomInv'
  BY <1>1, <1>2 DEF OnceInv, RoomInv, NothingTwice, CarriedOnce, LoggedOnce
<1>4. \A e \in Device : Unserved(e)' = Unserved(e) /\ ApartInv(e)'
  BY <1>2, OnceSilent
<1>5. \A x \in ToDevice : x.epoch = shared.epoch /\ x.t = "closed" => Sound(x)'
  BY <1>1, StateTypes DEF Sound
<1>6. ASSUME NEW e \in Device
      PROVE  /\ InOrder(received'[e])
             /\ \A n \in Range(received'[e]) :
                  n \in Range(received[e]) \/ (n.epoch = shared'.epoch /\ Sound(n)')
  <2>1. CASE received'[e] = received[e]
    BY <2>1 DEF OnceInv, ReceivedInv
  <2>2. ASSUME NEW x \in ToDevice, received'[e] = Append(received[e], x),
               x.epoch = shared.epoch, x.t = "closed"
        PROVE  /\ InOrder(received'[e])
               /\ \A n \in Range(received'[e]) :
                    n \in Range(received[e]) \/ (n.epoch = shared'.epoch /\ Sound(n)')
    <3>1. InOrder(received'[e]) /\ Range(received'[e]) \subseteq Range(received[e]) \cup {x}
      BY <2>2, OnceTold
    <3>2. Sound(x)'
      BY <1>5, <2>2
    <3> HIDE DEF Sound
    <3> QED
      BY <1>1, <2>2, <3>1, <3>2
  <2> HIDE DEF Sound
  <2> QED
    BY <2>1, <2>2, ClosedType
<1>7. \A e \in Device : /\ session'[e].open = session[e].open
                        /\ session'[e].epoch = session[e].epoch /\ session'[e].doc = session[e].doc
                        /\ ~session[e].open => session'[e] = session[e]
  BY <1>2, SessionSame
<1>8. \A e \in Device : \A u \in Unserved(e)' :
        u.epoch = shared'.epoch => Marks(u.items) \cap Marks(shared'.doc) = {}
  BY <1>1, <1>4 DEF OnceInv, SentInv
<1>9. shared.epoch <= shared'.epoch
  BY <1>1, StateTypes
<1> HIDE DEF RoomInv, Sound
<1> QED
  BY <1>1, <1>2, <1>3, <1>4, <1>6, <1>7, <1>8, <1>9, OnceKept

LEMMA OnceInit == SessionsInit => OnceInv
<1> SUFFICES ASSUME SessionsInit
             PROVE  OnceInv
  OBVIOUS
<1>1. Range(<<>>) = {}
  BY DEF Range
<1>2. \A d \in Device : /\ sent[d] = <<>> /\ late[d] = <<>> /\ received[d] = <<>>
                        /\ session[d] = NoSession
  BY DEF SessionsInit
<1>3. DOMAIN <<>> = {}
  OBVIOUS
<1>4. shared.doc = {} /\ shared.epoch = 0 /\ ~shared.open /\ shared.log = <<>>
  BY DEF SessionsInit
<1>5. \A d \in Device : Unserved(d) = {} /\ ApartInv(d) /\ ReceivedInv(d)
  BY <1>1, <1>2, <1>3 DEF Unserved, ApartInv, AllApart, ReceivedInv, InOrder
<1>6. NoSession.doc = {} /\ NoSession.epoch = 0
  BY DEF NoSession
<1>7. \A d \in Device : SessionInv(d) /\ SentInv(d)
  BY <1>1, <1>2, <1>4, <1>5, <1>6 DEF SessionInv, SentInv
<1>8. \A d \in Device : Held(d) = {}
  BY <1>2, <1>5, <1>6 DEF Held, Marks
<1>9. RoomInv
  BY <1>3, <1>4 DEF RoomInv, NothingTwice, CarriedOnce, LoggedOnce
<1> QED
  BY <1>5, <1>7, <1>8, <1>9 DEF OnceInv, Exclusive

LEMMA OnceStep ==
    ASSUME TypeInv, TypeInv', OnceInv, [SessionsNext]_sessionVars
    PROVE  OnceInv'
<1>1. CASE UNCHANGED sessionVars
  <2>1. UNCHANGED <<shared, marks, session, sent, late, received>>
    BY <1>1 DEF sessionVars
  <2> QED
    BY <2>1 DEF OnceInv, RoomInv, NothingTwice, CarriedOnce, LoggedOnce, Exclusive, SessionInv,
                ReceivedInv, SentInv, ApartInv, Sound, Held, Unserved
<1>2. CASE CloseRoom
  BY <1>2, OnceCloseRoom
<1>3. ASSUME NEW d \in Device,
             \/ OpenFile(d) \/ LeaveFile(d) \/ LeaveFileEnds(d) \/ OpenTimesOut(d)
             \/ EnginePromotes(d) \/ HandleRoomClosed(d) \/ Reconnect(d) \/ NoticeBreak(d)
      PROVE  OnceInv'
  BY <1>3, OnceQuietActions
<1>4. ASSUME NEW d \in Device, Type(d)
      PROVE  OnceInv'
  BY <1>4, OnceType
<1>5. ASSUME NEW d \in Device, HandleRoomState(d)
      PROVE  OnceInv'
  BY <1>5, OnceRoomState
<1>6. ASSUME NEW d \in Device, HandleYjsUpdate(d)
      PROVE  OnceInv'
  BY <1>6, OnceYjsUpdate
<1>7. ASSUME NEW d \in Device, HandleYjsAck(d)
      PROVE  OnceInv'
  BY <1>7, OnceAck
<1>8. ASSUME NEW d \in Device, ServeNext(d) \/ ServeLate(d)
      PROVE  OnceInv'
  BY <1>8, OnceServes
<1>9. ASSUME NEW d \in Device, Break(d)
      PROVE  OnceInv'
  BY <1>9, OnceBreak
<1> QED
  BY <1>1, <1>2, <1>3, <1>4, <1>5, <1>6, <1>7, <1>8, <1>9, Zenon DEF SessionsNext, Handle

LEMMA TypeCorrectInit == SessionsInit => TypeInv
<1> SUFFICES ASSUME SessionsInit
             PROVE  TypeInv
  OBVIOUS
<1>1. \A S : <<>> \in Seq(S)
  BY EmptySeq
<1>2. 0 \in Epochs /\ 0 \in 0 .. MaxMarks
  BY Bounds DEF Epochs
<1>3. session \in [Device -> Sessions]
  BY NoSessionType DEF SessionsInit
<1>4. leaving \in [Device -> [on : BOOLEAN, epoch : Epochs, awaited : SUBSET Nat]]
  BY <1>2 DEF SessionsInit, NotLeaving
<1>5. sent \in [Device -> Seq(ToServer)] /\ late \in [Device -> Seq(ToServer)]
  BY <1>1 DEF SessionsInit
<1>6. received \in [Device -> Seq(ToDevice)]
  BY <1>1 DEF SessionsInit
<1>7. shared \in RoomType /\ ~shared.open
  BY <1>1, <1>2 DEF SessionsInit, RoomType
<1> QED
  BY <1>2, <1>3, <1>4, <1>5, <1>6, <1>7 DEF SessionsInit, TypeInv

\* Every variable stays in its type, whatever the devices, the room and the network do.
THEOREM SessionsTypeCorrect == SessionsSpec => []TypeInv
<1> QED
  BY TypeCorrectInit, TypeCorrectStep, PTL DEF SessionsSpec

\* Nothing typed is in the room twice, neither carried into its next epoch
\* (handleRoomState) nor stored by two updates of one epoch (handleUpdate).
THEOREM NothingComesTwice == SessionsSpec => []NothingTwice
<1>1. TypeInv /\ TypeInv' /\ OnceInv /\ [SessionsNext]_sessionVars => OnceInv'
  BY OnceStep
<1>2. OnceInv => NothingTwice
  BY DEF OnceInv, RoomInv
<1> QED
  BY OnceInit, SessionsTypeCorrect, <1>1, <1>2, PTL DEF SessionsSpec

-----------------------------------------------------------------------------
(***************************************************************************)
(* What is taken for acknowledged is in the room.  Until a session is made *)
(* while answers to another one of its epoch are still to come, a number   *)
(* stands for one update: the one outstanding under it, the one under way  *)
(* and the one an acknowledgement is for.                                  *)
(***************************************************************************)
AckedInv(d) ==
    session[d].open =>
      /\ \A u \in session[d].outstanding : u.id < session[d].nextUpdateId
      /\ \A m \in Unserved(d) : m.epoch = session[d].epoch =>
           /\ m.id < session[d].nextUpdateId
           /\ \A u \in session[d].outstanding : u.id = m.id => u.items \subseteq m.items
      /\ \A m \in Range(received[d]) : m.t = "ack" /\ m.epoch = session[d].epoch =>
           /\ m.id < session[d].nextUpdateId
           /\ \A u \in session[d].outstanding : u.id = m.id => u.items \subseteq shared.doc

ConfirmInv == ~mixed => confirmed \subseteq shared.doc /\ \A d \in Device : AckedInv(d)

\* An acknowledgement that comes to a device is for an update of its own, which is
\* now in the room; nothing else is sent to the room.
LEMMA ConfirmKept ==
    ASSUME ConfirmInv, mixed => mixed', shared.doc \subseteq shared'.doc,
           ~mixed => confirmed' \subseteq confirmed \cup shared'.doc,
           \A e \in Device :
             /\ \/ session'[e] = NoSession
                \/ /\ session'[e].open = session[e].open
                   /\ session'[e].epoch = session[e].epoch
                   /\ session'[e].nextUpdateId = session[e].nextUpdateId
                   /\ session'[e].outstanding \subseteq session[e].outstanding
             /\ Unserved(e)' \subseteq Unserved(e)
             /\ \A m \in Range(received'[e]) : m.t = "ack" =>
                  \/ m \in Range(received[e])
                  \/ \E k \in Unserved(e) :
                       k.epoch = m.epoch /\ k.id = m.id /\ k.items \subseteq shared'.doc
    PROVE  ConfirmInv'
<1> SUFFICES ASSUME ~mixed
             PROVE  confirmed' \subseteq shared'.doc /\ \A e \in Device : AckedInv(e)'
  BY DEF ConfirmInv
<1>1. confirmed \subseteq shared.doc /\ \A e \in Device : AckedInv(e)
  BY DEF ConfirmInv
<1>2. ASSUME NEW e \in Device
      PROVE  AckedInv(e)'
  <2>1. CASE session'[e] = NoSession
    BY <2>1 DEF AckedInv, NoSession
  <2>2. CASE /\ session'[e].open = session[e].open /\ session'[e].epoch = session[e].epoch
             /\ session'[e].nextUpdateId = session[e].nextUpdateId
             /\ session'[e].outstanding \subseteq session[e].outstanding
    <3> SUFFICES ASSUME session[e].open
                 PROVE  AckedInv(e)'
      BY <2>2 DEF AckedInv
    <3>1. /\ \A u \in session[e].outstanding : u.id < session[e].nextUpdateId
          /\ \A m \in Unserved(e) : m.epoch = session[e].epoch =>
               /\ m.id < session[e].nextUpdateId
               /\ \A u \in session[e].outstanding : u.id = m.id => u.items \subseteq m.items
          /\ \A m \in Range(received[e]) : m.t = "ack" /\ m.epoch = session[e].epoch =>
               /\ m.id < session[e].nextUpdateId
               /\ \A u \in session[e].outstanding : u.id = m.id => u.items \subseteq shared.doc
      BY <1>1 DEF AckedInv
    <3>2. Unserved(e)' \subseteq Unserved(e)
      OBVIOUS
    <3>3. ASSUME NEW m \in Range(received'[e]), m.t = "ack", m.epoch = session[e].epoch
          PROVE  /\ m.id < session[e].nextUpdateId
                 /\ \A u \in session[e].outstanding : u.id = m.id => u.items \subseteq shared'.doc
      <4>1. CASE m \in Range(received[e])
        BY <3>1, <3>3, <4>1
      <4>2. CASE \E k \in Unserved(e) :
                   k.epoch = m.epoch /\ k.id = m.id /\ k.items \subseteq shared'.doc
        BY <3>1, <3>3, <4>2
      <4> QED
        BY <3>3, <4>1, <4>2
    <3> QED
      BY <2>2, <3>1, <3>2, <3>3 DEF AckedInv
  <2> QED
    BY <2>1, <2>2
<1> QED
  BY <1>1, <1>2

\* A session makes an update; before it, a number stood for one update.
LEMMA ConfirmWith ==
    ASSUME NEW d \in Device, NEW y \in Sessions, NEW items \in SUBSET Items,
           session'[d] = WithUpdate(y, items),
           \A u \in y.outstanding : u.id < y.nextUpdateId,
           \A n \in Unserved(d)' : n.epoch = y.epoch =>
             \/ n = UpdateMessage(y, items)
             \/ /\ n.id \in Nat /\ n.id < y.nextUpdateId
                /\ \A u \in y.outstanding : u.id = n.id => u.items \subseteq n.items,
           \A n \in Range(received'[d]) : n.t = "ack" /\ n.epoch = y.epoch =>
             /\ n.id \in Nat /\ n.id < y.nextUpdateId
             /\ \A u \in y.outstanding : u.id = n.id => u.items \subseteq shared'.doc
    PROVE  AckedInv(d)'
<1> DEFINE new == [id |-> y.nextUpdateId, items |-> items]
           k == y.nextUpdateId
<1>1. k \in Nat /\ \A u \in y.outstanding : u.id \in Nat
  BY DEF Sessions, Outstanding
<1>2. /\ session'[d].epoch = y.epoch /\ session'[d].nextUpdateId = k + 1
      /\ session'[d].outstanding = y.outstanding \cup {new}
  <2>1. \A z \in Sessions : /\ WithUpdate(z, items).epoch = z.epoch
                            /\ WithUpdate(z, items).nextUpdateId = z.nextUpdateId + 1
                            /\ WithUpdate(z, items).outstanding
                                 = z.outstanding \cup {[id |-> z.nextUpdateId, items |-> items]}
    BY DEF WithUpdate, Sessions
  <2> QED
    BY <2>1
<1>3. new.id = k /\ new.items = items
  OBVIOUS
<1>4. UpdateMessage(y, items).id = k /\ UpdateMessage(y, items).items = items
  BY DEF UpdateMessage
<1> HIDE DEF new, k
<1>5. \A u \in session'[d].outstanding : u.id < k + 1
  BY <1>1, <1>2, <1>3 DEF k
<1>6. ASSUME NEW n \in Unserved(d)', n.epoch = y.epoch
      PROVE  /\ n.id < k + 1
             /\ \A u \in y.outstanding \cup {new} : u.id = n.id => u.items \subseteq n.items
  <2>1. CASE n = UpdateMessage(y, items)
    BY <1>1, <1>3, <1>4, <2>1 DEF k
  <2>2. CASE /\ n.id \in Nat /\ n.id < k
             /\ \A u \in y.outstanding : u.id = n.id => u.items \subseteq n.items
    BY <1>1, <1>3, <2>2
  <2> QED
    BY <1>6, <2>1, <2>2 DEF k
<1>7. ASSUME NEW n \in Range(received'[d]), n.t = "ack", n.epoch = y.epoch
      PROVE  /\ n.id < k + 1
             /\ \A u \in y.outstanding \cup {new} : u.id = n.id => u.items \subseteq shared'.doc
  <2>1. /\ n.id \in Nat /\ n.id < k
        /\ \A u \in y.outstanding : u.id = n.id => u.items \subseteq shared'.doc
    BY <1>7 DEF k
  <2> QED
    BY <1>1, <1>3, <2>1
<1> QED
  BY <1>2, <1>5, <1>6, <1>7 DEF AckedInv

LEMMA ConfirmType ==
    ASSUME TypeInv, ConfirmInv, NEW d \in Device, Type(d)
    PROVE  ConfirmInv'
<1> DEFINE s == session[d]
           item == <<marks + 1, s.epoch>>
           x == UpdateMessage(s, {item})
<1>1. s \in Sessions /\ s.open /\ marks \in Nat
  BY StateTypes DEF Type
<1>2. /\ session' = [session EXCEPT ![d] = WithUpdate(s, {item})]
      /\ Send(d, <<x>>) /\ UNCHANGED <<shared, late, received, confirmed, mixed>>
  BY DEF Type, served, wire, answered
<1>3. s.epoch \in 1 .. MaxEpochs /\ marks + 1 \in 0 .. MaxMarks
  BY <1>1, Bounds DEF Type, Sessions, Epochs, TypeInv
<1>4. {item} \in SUBSET Items
  BY <1>3 DEF Items
<1>5. x \in ToServer
  BY <1>1, <1>4, WithUpdateType
<1> HIDE DEF item, x
<1>6. /\ Range(sent'[d]) = Range(sent[d]) \cup {x}
      /\ \A e \in Device \ {d} : sent'[e] = sent[e]
  BY <1>2, <1>5, SendType DEF TypeInv
<1>7. /\ Unserved(d)' \subseteq Unserved(d) \cup {x}
      /\ \A e \in Device \ {d} : Unserved(e)' = Unserved(e)
  BY <1>2, <1>6 DEF Unserved
<1>8. session'[d] = WithUpdate(s, {item}) /\ \A e \in Device \ {d} : session'[e] = session[e]
  BY <1>2 DEF TypeInv
<1> SUFFICES ASSUME ~mixed
             PROVE  confirmed \subseteq shared.doc /\ \A e \in Device : AckedInv(e)'
  BY <1>2 DEF ConfirmInv
<1>9. confirmed \subseteq shared.doc /\ \A e \in Device : AckedInv(e)
  BY DEF ConfirmInv
<1>10. \A e \in Device \ {d} : AckedInv(e)'
  BY <1>2, <1>7, <1>8, <1>9 DEF AckedInv
<1>11. AckedInv(d)'
  <2>1. /\ \A u \in s.outstanding : u.id < s.nextUpdateId
        /\ \A n \in Unserved(d) : n.epoch = s.epoch =>
             /\ n.id < s.nextUpdateId
             /\ \A u \in s.outstanding : u.id = n.id => u.items \subseteq n.items
        /\ \A n \in Range(received[d]) : n.t = "ack" /\ n.epoch = s.epoch =>
             /\ n.id < s.nextUpdateId
             /\ \A u \in s.outstanding : u.id = n.id => u.items \subseteq shared.doc
    BY <1>1, <1>9 DEF AckedInv
  <2>2. \A n \in Unserved(d) : n.id \in Nat
    BY StateTypes DEF Updates
  <2>3. \A n \in Range(received[d]) : n.t = "ack" => n.id \in Nat
    BY StateTypes, ToDeviceType DEF Acks
  <2>4. \A n \in Unserved(d)' : n \in Unserved(d) \/ n = UpdateMessage(s, {item})
    BY <1>7 DEF x
  <2>5. received'[d] = received[d] /\ shared' = shared
    BY <1>2
  <2> HIDE DEF s
  <2>6. PICK y \in Sessions, items \in SUBSET Items : y = s /\ items = {item}
    BY <1>1, <1>4 DEF s
  <2>7. session'[d] = WithUpdate(y, items) /\ \A u \in y.outstanding : u.id < y.nextUpdateId
    BY <1>8, <2>1, <2>6
  <2>8. \A n \in Unserved(d)' : n.epoch = y.epoch =>
          \/ n = UpdateMessage(y, items)
          \/ /\ n.id \in Nat /\ n.id < y.nextUpdateId
             /\ \A u \in y.outstanding : u.id = n.id => u.items \subseteq n.items
    BY <2>1, <2>2, <2>4, <2>6
  <2>9. \A n \in Range(received'[d]) : n.t = "ack" /\ n.epoch = y.epoch =>
          /\ n.id \in Nat /\ n.id < y.nextUpdateId
          /\ \A u \in y.outstanding : u.id = n.id => u.items \subseteq shared'.doc
    BY <2>1, <2>3, <2>5, <2>6
  <2> QED
    BY <2>7, <2>8, <2>9, ConfirmWith
<1> QED
  BY <1>9, <1>10, <1>11

LEMMA ConfirmRoomState ==
    ASSUME TypeInv, OnceInv, ConfirmInv, NEW d \in Device, HandleRoomState(d)
    PROVE  ConfirmInv'
<1> DEFINE m == Head(received[d])
           s == session[d]
           c == Carried(s, m)
           x == UpdateMessage(Seeded(m), c)
<1>1. /\ m \in States /\ Seeded(m) \in Sessions
      /\ c \in SUBSET Items
      /\ x \in Updates
      /\ \/ s.open /\ s.epoch = m.epoch /\ session' = session /\ UNCHANGED sent
         \/ /\ c = {} /\ session' = [session EXCEPT ![d] = Seeded(m)] /\ UNCHANGED sent
            /\ mixed' = (mixed \/ ToCome(d, m.epoch))
         \/ /\ c # {} /\ session' = [session EXCEPT ![d] = WithUpdate(Seeded(m), c)]
            /\ mixed' = (mixed \/ ToCome(d, m.epoch))
            /\ Send(d, <<x>>) \/ UNCHANGED sent
  BY RoomStateCases
<1>2. UNCHANGED <<shared, late, confirmed>> /\ \E type : Receives(d, type)
  BY DEF HandleRoomState, served, wire
<1>3. mixed => mixed'
  BY DEF HandleRoomState
<1>4. \A e \in Device : Range(received'[e]) \subseteq Range(received[e])
  BY <1>2, OnceReceives
<1>5. /\ Seeded(m).epoch = m.epoch /\ Seeded(m).outstanding = {} /\ Seeded(m).nextUpdateId = 1
      /\ Seeded(m).open
  BY DEF Seeded, NoSession
<1>6. CASE s.open /\ s.epoch = m.epoch /\ session' = session /\ UNCHANGED sent
  <2>1. \A e \in Device : Unserved(e)' = Unserved(e)
    BY <1>2, <1>6, OnceSilent
  <2> QED
    BY <1>2, <1>3, <1>4, <1>6, <2>1, ConfirmKept
<1>7. ASSUME ~mixed, ~ToCome(d, m.epoch),
             \A e \in Device \ {d} : session'[e] = session[e] /\ Unserved(e)' = Unserved(e),
             AckedInv(d)'
      PROVE  ConfirmInv'
  <2>1. confirmed' \subseteq shared'.doc /\ \A e \in Device : AckedInv(e)
    BY <1>2, <1>7 DEF ConfirmInv
  <2>2. \A e \in Device \ {d} : AckedInv(e)'
    BY <1>2, <1>4, <1>7, <2>1 DEF AckedInv
  <2> QED
    BY <1>7, <2>1, <2>2 DEF ConfirmInv
<1>8. ASSUME ~ToCome(d, m.epoch)
      PROVE  /\ \A n \in Unserved(d) : n.epoch # m.epoch
             /\ \A n \in Range(received'[d]) : ~(n.t = "ack" /\ n.epoch = m.epoch)
  BY <1>4, <1>8 DEF ToCome, Unserved
<1>9. CASE /\ session' = [session EXCEPT ![d] = Seeded(m)] /\ UNCHANGED sent
           /\ mixed' = (mixed \/ ToCome(d, m.epoch))
  <2>1. CASE mixed'
    BY <2>1 DEF ConfirmInv
  <2>2. CASE ~mixed'
    <3>1. ~mixed /\ ~ToCome(d, m.epoch)
      BY <1>9, <2>2
    <3>2. \A e \in Device : Unserved(e)' = Unserved(e)
      BY <1>2, <1>9, OnceSilent
    <3>3. session'[d] = Seeded(m) /\ \A e \in Device \ {d} : session'[e] = session[e]
      BY <1>9 DEF TypeInv
    <3>4. AckedInv(d)'
      BY <1>5, <1>8, <3>1, <3>2, <3>3 DEF AckedInv
    <3> QED
      BY <1>7, <3>1, <3>2, <3>3, <3>4
  <2> QED
    BY <2>1, <2>2
<1>10. CASE /\ session' = [session EXCEPT ![d] = WithUpdate(Seeded(m), c)]
            /\ mixed' = (mixed \/ ToCome(d, m.epoch))
            /\ Send(d, <<x>>) \/ UNCHANGED sent
  <2>1. CASE mixed'
    BY <2>1 DEF ConfirmInv
  <2>2. CASE ~mixed'
    <3>1. ~mixed /\ ~ToCome(d, m.epoch)
      BY <1>10, <2>2
    <3>2. x \in ToServer
      BY <1>1 DEF ToServer
    <3> HIDE DEF x
    <3>3. /\ Range(sent'[d]) \subseteq Range(sent[d]) \cup {x}
          /\ \A e \in Device \ {d} : sent'[e] = sent[e]
      BY <1>10, <3>2, SendType DEF TypeInv
    <3>4. /\ Unserved(d)' \subseteq Unserved(d) \cup {x}
          /\ \A e \in Device \ {d} : Unserved(e)' = Unserved(e)
      BY <1>2, <3>3 DEF Unserved
    <3>5. /\ session'[d] = WithUpdate(Seeded(m), c)
          /\ \A e \in Device \ {d} : session'[e] = session[e]
      BY <1>10 DEF TypeInv
    <3>6. PICK y \in Sessions : y = Seeded(m)
      BY <1>1
    <3>7. /\ y.epoch = m.epoch /\ y.outstanding = {}
          /\ session'[d] = WithUpdate(y, c) /\ x = UpdateMessage(y, c)
      BY <1>5, <3>5, <3>6 DEF x
    <3>8. /\ \A n \in Unserved(d)' : n.epoch = y.epoch => n = UpdateMessage(y, c)
          /\ \A n \in Range(received'[d]) : ~(n.t = "ack" /\ n.epoch = y.epoch)
      BY <1>8, <3>1, <3>4, <3>7
    <3>9. c \in SUBSET Items
      BY <1>1
    <3> HIDE DEF c, m, s
    <3>10. AckedInv(d)'
      BY <3>7, <3>8, <3>9, ConfirmWith
    <3> QED
      BY <1>7, <3>1, <3>4, <3>5, <3>10
  <2> QED
    BY <2>1, <2>2
<1> QED
  BY <1>1, <1>6, <1>9, <1>10

LEMMA ConfirmQuietActions ==
    ASSUME TypeInv, OnceInv, ConfirmInv, NEW d \in Device,
           \/ OpenFile(d) \/ LeaveFile(d) \/ LeaveFileEnds(d) \/ OpenTimesOut(d)
           \/ EnginePromotes(d) \/ HandleRoomClosed(d) \/ Reconnect(d) \/ NoticeBreak(d)
    PROVE  ConfirmInv'
<1> DEFINE promote == [t |-> "promote"]
           leave == [t |-> "leave", epoch |-> leaving[d].epoch]
           sync == SyncMessage(session[d])
<1>1. promote \in ToServer /\ promote.t # "update"
  BY DEF ToServer, Promotes
<1>2. leave \in ToServer /\ leave.t # "update"
  <2>1. leaving[d].epoch \in Epochs
    BY DEF TypeInv
  <2> QED
    BY <2>1 DEF ToServer, Leaves
<1>3. sync \in ToServer /\ sync.t # "update"
  BY StateTypes DEF ToServer, Syncs, SyncMessage, Sessions
<1>4. UNCHANGED <<shared, late, confirmed, mixed>>
  BY DEF OpenFile, LeaveFile, LeaveFileEnds, OpenTimesOut, EnginePromotes, HandleRoomClosed,
         Reconnect, NoticeBreak, served, wire, answered
<1>5. UNCHANGED session \/ session' = [session EXCEPT ![d] = NoSession]
  BY DEF OpenFile, LeaveFile, LeaveFileEnds, OpenTimesOut, EnginePromotes, HandleRoomClosed,
         Reconnect, NoticeBreak
<1>6. \/ UNCHANGED sent
      \/ Send(d, <<promote>>) \/ Send(d, <<leave>>) \/ Send(d, <<sync>>)
  BY DEF OpenFile, LeaveFile, LeaveFileEnds, OpenTimesOut, EnginePromotes, HandleRoomClosed,
         Reconnect, NoticeBreak
<1>7. UNCHANGED received \/ \E type : Receives(d, type)
  BY DEF OpenFile, LeaveFile, LeaveFileEnds, OpenTimesOut, EnginePromotes, HandleRoomClosed,
         Reconnect, NoticeBreak
<1> HIDE DEF promote, leave, sync
<1>8. \A e \in Device : Unserved(e)' \subseteq Unserved(e)
  <2>1. CASE UNCHANGED sent
    BY <1>4, <2>1, OnceSilent
  <2>2. CASE \E m \in ToServer : m.t # "update" /\ Send(d, <<m>>)
    BY <1>4, <2>2, OnceSend
  <2> QED
    BY <1>1, <1>2, <1>3, <1>6, <2>1, <2>2
<1>9. \A e \in Device : Range(received'[e]) \subseteq Range(received[e])
  BY <1>7, OnceReceives
<1>10. \A e \in Device : session'[e] = NoSession \/ session'[e] = session[e]
  BY <1>5 DEF TypeInv
<1> QED
  BY <1>4, <1>8, <1>9, <1>10, ConfirmKept

LEMMA ConfirmYjsUpdate ==
    ASSUME TypeInv, OnceInv, ConfirmInv, NEW d \in Device, HandleYjsUpdate(d)
    PROVE  ConfirmInv'
<1> DEFINE s == session[d]
<1>1. UNCHANGED <<shared, late, confirmed, mixed>> /\ \E type : Receives(d, type)
  BY DEF HandleYjsUpdate, served, wire, answered
<1>2. /\ SyncMessage(s) \in ToServer
      /\ \/ UNCHANGED <<session, sent>>
         \/ UNCHANGED session /\ Send(d, <<SyncMessage(s)>>)
         \/ /\ UNCHANGED sent
            /\ \E next \in Sessions :
                 /\ session' = [session EXCEPT ![d] = next]
                 /\ next.open = s.open /\ next.epoch = s.epoch
                 /\ next.outstanding = s.outstanding /\ next.nextUpdateId = s.nextUpdateId
  BY YjsUpdateType
<1>3. SyncMessage(s).t # "update"
  BY DEF SyncMessage
<1> HIDE DEF s
<1>4. \A e \in Device : Unserved(e)' \subseteq Unserved(e)
  <2>1. CASE UNCHANGED sent
    BY <1>1, <2>1, OnceSilent
  <2>2. CASE Send(d, <<SyncMessage(s)>>)
    BY <1>1, <1>2, <1>3, <2>2, OnceSend
  <2> QED
    BY <1>2, <2>1, <2>2
<1>5. \A e \in Device : Range(received'[e]) \subseteq Range(received[e])
  BY <1>1, OnceReceives
<1>6. ASSUME NEW e \in Device
      PROVE  /\ session'[e].open = session[e].open /\ session'[e].epoch = session[e].epoch
             /\ session'[e].nextUpdateId = session[e].nextUpdateId
             /\ session'[e].outstanding = session[e].outstanding
  <2>1. CASE UNCHANGED session
    BY <2>1
  <2>2. CASE \E next \in Sessions :
               /\ session' = [session EXCEPT ![d] = next]
               /\ next.open = s.open /\ next.epoch = s.epoch
               /\ next.outstanding = s.outstanding /\ next.nextUpdateId = s.nextUpdateId
    BY <2>2 DEF TypeInv, s
  <2> QED
    BY <1>2, <2>1, <2>2
<1> QED
  BY <1>1, <1>4, <1>5, <1>6, ConfirmKept

\* An acknowledgement clears the update with its number.
LEMMA ConfirmAck ==
    ASSUME TypeInv, OnceInv, ConfirmInv, NEW d \in Device, HandleYjsAck(d)
    PROVE  ConfirmInv'
<1> DEFINE m == Head(received[d])
           s == session[d]
<1>1. UNCHANGED <<shared, sent, late, mixed>> /\ \E type : Receives(d, type)
  BY DEF HandleYjsAck, served, wire
<1>2. /\ m \in Acks /\ m \in Range(received[d])
      /\ \/ UNCHANGED <<session, confirmed>>
         \/ \E next \in Sessions :
              /\ session' = [session EXCEPT ![d] = next]
              /\ s.open /\ m.epoch = s.epoch
              /\ next.open = s.open /\ next.epoch = s.epoch
              /\ next.outstanding \subseteq s.outstanding
              /\ next.nextUpdateId = s.nextUpdateId
              /\ confirmed' = confirmed \cup UNION {u.items : u \in Acknowledges(s, m)}
  BY YjsAckType
<1>3. m.t = "ack"
  BY <1>2 DEF Acks
<1>4. \A e \in Device : Unserved(e)' = Unserved(e)
  BY <1>1, OnceSilent
<1>5. \A e \in Device : Range(received'[e]) \subseteq Range(received[e])
  BY <1>1, OnceReceives
<1> HIDE DEF m, s
<1>6. ASSUME NEW e \in Device
      PROVE  /\ session'[e].open = session[e].open /\ session'[e].epoch = session[e].epoch
             /\ session'[e].nextUpdateId = session[e].nextUpdateId
             /\ session'[e].outstanding \subseteq session[e].outstanding
  <2>1. CASE UNCHANGED session
    BY <2>1
  <2>2. CASE \E next \in Sessions :
               /\ session' = [session EXCEPT ![d] = next]
               /\ next.open = s.open /\ next.epoch = s.epoch
               /\ next.outstanding \subseteq s.outstanding
               /\ next.nextUpdateId = s.nextUpdateId
    BY <2>2 DEF TypeInv, s
  <2> QED
    BY <1>2, <2>1, <2>2
<1>7. ASSUME ~mixed
      PROVE  confirmed' \subseteq confirmed \cup shared'.doc
  <2>1. CASE UNCHANGED confirmed
    BY <2>1
  <2>2. CASE /\ s.open /\ m.epoch = s.epoch
             /\ confirmed' = confirmed \cup UNION {u.items : u \in Acknowledges(s, m)}
    <3>1. AckedInv(d)
      BY <1>7 DEF ConfirmInv
    <3>2. \A u \in s.outstanding : u.id = m.id => u.items \subseteq shared.doc
      BY <1>2, <1>3, <2>2, <3>1 DEF AckedInv, s
    <3>3. \A u \in Acknowledges(s, m) : u.items \subseteq shared.doc
      BY <3>2 DEF Acknowledges
    <3> QED
      BY <1>1, <2>2, <3>3
  <2> QED
    BY <1>2, <2>1, <2>2
<1> QED
  BY <1>1, <1>4, <1>5, <1>6, <1>7, ConfirmKept

LEMMA ConfirmBreak ==
    ASSUME TypeInv, ConfirmInv, NEW d \in Device, Break(d)
    PROVE  ConfirmInv'
<1>1. UNCHANGED <<session, shared, confirmed, mixed>>
  BY DEF Break, answered
<1>2. PICK n \in 0 .. Len(sent[d]) :
        late' = [late EXCEPT ![d] = late[d] \o SubSeq(sent[d], 1, n)]
  BY DEF Break
<1>3. late[d] \in Seq(ToServer) /\ sent[d] \in Seq(ToServer)
  BY StateTypes
<1>4. Range(late[d] \o SubSeq(sent[d], 1, n)) \subseteq Range(late[d]) \cup Range(sent[d])
  BY <1>3, PrefixJoined
<1>5. /\ late'[d] = late[d] \o SubSeq(sent[d], 1, n)
      /\ sent'[d] = <<>> /\ received'[d] = <<>>
      /\ \A e \in Device \ {d} : late'[e] = late[e] /\ sent'[e] = sent[e] /\ received'[e] = received[e]
  BY <1>2 DEF Break, TypeInv
<1>6. Range(<<>>) = {}
  BY DEF Range
<1>7. ASSUME NEW e \in Device
      PROVE  Unserved(e)' \subseteq Unserved(e)
  <2>1. CASE e = d
    BY <1>4, <1>5, <1>6, <2>1 DEF Unserved
  <2>2. CASE e # d
    BY <1>5, <2>2 DEF Unserved
  <2> QED
    BY <2>1, <2>2
<1>8. \A e \in Device : Range(received'[e]) \subseteq Range(received[e])
  BY <1>5, <1>6
<1> QED
  BY <1>1, <1>7, <1>8, ConfirmKept

LEMMA ConfirmServe ==
    ASSUME TypeInv, OnceInv, ConfirmInv, NEW d \in Device, NEW m, NEW from, Takes(d, m),
           UNCHANGED <<session, confirmed, mixed>>, Serve(d, m, from)
    PROVE  ConfirmInv'
<1>1. /\ m \in ToServer /\ (m.t = "update" => m \in Unserved(d))
      /\ \A e \in Device : Unserved(e)' \subseteq Unserved(e)
  BY OnceTakes
<1>2. ASSUME shared.doc \subseteq shared'.doc,
             \A e \in Device :
               \/ received'[e] = received[e]
               \/ \E x \in ToDevice : x.t # "ack" /\ received'[e] = Append(received[e], x)
      PROVE  ConfirmInv'
  <2>1. ASSUME NEW e \in Device, NEW n \in Range(received'[e]), n.t = "ack"
        PROVE  n \in Range(received[e])
    <3>1. CASE received'[e] = received[e]
      BY <2>1, <3>1
    <3>2. ASSUME NEW x \in ToDevice, x.t # "ack", received'[e] = Append(received[e], x)
          PROVE  n \in Range(received[e])
      BY <2>1, <3>2, AppendOf, StateTypes
    <3> QED
      BY <1>2, <3>1, <3>2
  <2> QED
    BY <1>1, <1>2, <2>1, ConfirmKept
<1>3. received \in [Device -> Seq(ToDevice)]
  BY DEF TypeInv
<1>4. CASE ServePromote(d, from)
  <2>1. /\ shared' \in RoomType /\ shared'.open /\ shared'.epoch \in 1 .. MaxEpochs
        /\ shared.doc \subseteq shared'.doc
    <3>1. CASE shared.open
      BY <1>4, <3>1 DEF ServePromote, TypeInv
    <3>2. CASE ~shared.open
      <4>1. shared' = Activated /\ shared.epoch < MaxEpochs
        BY <1>4, <3>2 DEF ServePromote
      <4>2. shared.epoch = 0 => shared.doc = {}
        BY DEF OnceInv, RoomInv
      <4> QED
        BY <4>1, <4>2, ActivatedType
    <3> QED
      BY <3>1, <3>2
  <2>2. PICK x \in ToDevice : x = StateMessage(shared')
    BY <2>1, StateMessageType
  <2>3. x.t # "ack" /\ received' = Told(d, from, <<x>>)
    BY <1>4, <2>2 DEF ServePromote, StateMessage
  <2>4. \A e \in Device : received'[e] \in {received[e], Append(received[e], x)}
    BY <1>3, <2>3, ToldType
  <2> QED
    BY <1>2, <2>1, <2>3, <2>4
<1>5. CASE UNCHANGED <<shared, received>>
  BY <1>2, <1>5
<1>6. CASE ServeStale(d)
  <2>1. CASE shared.open
    <3>1. PICK x \in ToDevice : x = StateMessage(shared)
      BY <2>1, StateMessageType DEF TypeInv
    <3>2. x.t # "ack" /\ received' = Told(d, sink[d], <<x>>) /\ shared' = shared
      BY <1>6, <2>1, <3>1 DEF ServeStale, StateMessage, served
    <3>3. \A e \in Device : received'[e] \in {received[e], Append(received[e], x)}
      BY <1>3, <3>2, ToldType
    <3> QED
      BY <1>2, <3>2, <3>3
  <2>2. CASE ~shared.open
    BY <1>5, <1>6, <2>2 DEF ServeStale, served
  <2> QED
    BY <2>1, <2>2
<1>7. CASE ~IsStale(m) /\ m.t = "sync" /\ ServeSync(d, m)
  <2>1. PICK x \in ToDevice : x = [t |-> "update", epoch |-> shared.epoch, seq |-> Len(shared.log),
                                   items |-> shared.doc \ m.have]
    <3>1. m.have \in SUBSET Items
      BY <1>1, <1>7, ToServerType DEF Syncs
    <3> QED
      BY <3>1, SyncAnswerType
  <2>2. x.t # "ack" /\ shared' = shared /\ received' = Told(d, sink[d], <<x>>)
    BY <1>7, <2>1 DEF ServeSync, served
  <2>3. \A e \in Device : received'[e] \in {received[e], Append(received[e], x)}
    BY <1>3, <2>2, ToldType
  <2> QED
    BY <1>2, <2>2, <2>3
<1>8. CASE ~IsStale(m) /\ m.t = "update" /\ ServeUpdate(d, m)
  <2>1. m \in Unserved(d) /\ m \in Updates /\ m.epoch = shared.epoch
    BY <1>1, <1>8, ToServerType DEF IsStale
  <2>2. /\ shared'.doc = shared.doc \cup m.items
        /\ \A e \in Device :
             \/ received'[e] = received[e]
             \/ \E x \in ToDevice :
                  /\ received'[e] = Append(received[e], x) /\ x.epoch = shared.epoch
                  /\ \/ x.t = "ack" /\ x.id = m.id /\ e = d
                     \/ x.t = "update"
    BY <1>8, <2>1, ServeUpdateSends
  <2>3. ASSUME NEW e \in Device, NEW n \in Range(received'[e]), n.t = "ack"
        PROVE  \/ n \in Range(received[e])
               \/ \E k \in Unserved(e) :
                    k.epoch = n.epoch /\ k.id = n.id /\ k.items \subseteq shared'.doc
    <3>1. CASE received'[e] = received[e]
      BY <2>3, <3>1
    <3>2. ASSUME NEW x \in ToDevice, received'[e] = Append(received[e], x),
                 x.epoch = shared.epoch, (x.t = "ack" /\ x.id = m.id /\ e = d) \/ x.t = "update"
          PROVE  \/ n \in Range(received[e])
                 \/ \E k \in Unserved(e) :
                      k.epoch = n.epoch /\ k.id = n.id /\ k.items \subseteq shared'.doc
      <4>1. n \in Range(received[e]) \/ n = x
        BY <3>2, AppendOf, StateTypes
      <4>2. CASE n = x
        BY <2>1, <2>2, <2>3, <3>2, <4>2
      <4> QED
        BY <4>1, <4>2
    <3> QED
      BY <2>2, <3>1, <3>2
  <2>4. shared.doc \subseteq shared'.doc
    BY <2>2
  <2> QED
    BY <1>1, <2>3, <2>4, ConfirmKept
<1>9. CASE ServeLeave(d)
  BY <1>5, <1>9 DEF ServeLeave
<1>10. CASE UNCHANGED <<served, received, skips>>
  BY <1>5, <1>10 DEF served
<1> QED
  BY <1>4, <1>6, <1>7, <1>8, <1>9, <1>10, ServeCases, Zenon

LEMMA ConfirmServes ==
    ASSUME TypeInv, OnceInv, ConfirmInv, NEW d \in Device, ServeNext(d) \/ ServeLate(d)
    PROVE  ConfirmInv'
<1>1. CASE ServeNext(d)
  <2>1. PICK m : m = Head(sent[d])
    OBVIOUS
  <2>2. Takes(d, m)
    BY <1>1, <2>1 DEF ServeNext, Takes, wire
  <2>3. UNCHANGED <<session, answered>> /\ Serve(d, m, "live")
    BY <1>1, <2>1, Zenon DEF ServeNext
  <2> QED
    BY <2>2, <2>3, ConfirmServe DEF answered
<1>2. CASE ServeLate(d)
  <2>1. PICK m : m = Head(late[d])
    OBVIOUS
  <2>2. Takes(d, m)
    BY <1>2, <2>1 DEF ServeLate, Takes
  <2>3. UNCHANGED <<session, answered>> /\ Serve(d, m, "dead")
    BY <1>2, <2>1, Zenon DEF ServeLate
  <2> QED
    BY <2>2, <2>3, ConfirmServe DEF answered
<1> QED
  BY <1>1, <1>2

LEMMA ConfirmCloseRoom ==
    ASSUME TypeInv, OnceInv, ConfirmInv, CloseRoom
    PROVE  ConfirmInv'
<1>1. shared'.doc = shared.doc
  BY DEF CloseRoom, TypeInv, RoomType
<1>2. UNCHANGED <<session, sent, late, confirmed, mixed>>
  BY DEF CloseRoom, wire, answered
<1>3. \A e \in Device : Unserved(e)' = Unserved(e)
  BY <1>2, OnceSilent
<1>4. ASSUME NEW e \in Device, NEW n \in Range(received'[e]), n.t = "ack"
      PROVE  n \in Range(received[e])
  <2>1. CASE received'[e] = received[e]
    BY <1>4, <2>1
  <2>2. ASSUME NEW x \in ToDevice, received'[e] = Append(received[e], x), x.t = "closed"
        PROVE  n \in Range(received[e])
    BY <1>4, <2>2, AppendOf, StateTypes
  <2> QED
    BY <2>1, <2>2, ClosedType
<1> QED
  BY <1>1, <1>2, <1>3, <1>4, ConfirmKept

LEMMA ConfirmStep ==
    ASSUME TypeInv, OnceInv, ConfirmInv, [SessionsNext]_sessionVars
    PROVE  ConfirmInv'
<1>1. CASE UNCHANGED sessionVars
  <2>1. UNCHANGED <<shared, session, sent, late, received, confirmed, mixed>>
    BY <1>1 DEF sessionVars
  <2> QED
    BY <2>1 DEF ConfirmInv, AckedInv, Unserved
<1>2. CASE CloseRoom
  BY <1>2, ConfirmCloseRoom
<1>3. ASSUME NEW d \in Device,
             \/ OpenFile(d) \/ LeaveFile(d) \/ LeaveFileEnds(d) \/ OpenTimesOut(d)
             \/ EnginePromotes(d) \/ HandleRoomClosed(d) \/ Reconnect(d) \/ NoticeBreak(d)
      PROVE  ConfirmInv'
  BY <1>3, ConfirmQuietActions
<1>4. ASSUME NEW d \in Device, Type(d)
      PROVE  ConfirmInv'
  BY <1>4, ConfirmType
<1>5. ASSUME NEW d \in Device, HandleRoomState(d)
      PROVE  ConfirmInv'
  BY <1>5, ConfirmRoomState
<1>6. ASSUME NEW d \in Device, HandleYjsUpdate(d)
      PROVE  ConfirmInv'
  BY <1>6, ConfirmYjsUpdate
<1>7. ASSUME NEW d \in Device, HandleYjsAck(d)
      PROVE  ConfirmInv'
  BY <1>7, ConfirmAck
<1>8. ASSUME NEW d \in Device, ServeNext(d) \/ ServeLate(d)
      PROVE  ConfirmInv'
  BY <1>8, ConfirmServes
<1>9. ASSUME NEW d \in Device, Break(d)
      PROVE  ConfirmInv'
  BY <1>9, ConfirmBreak
<1> QED
  BY <1>1, <1>2, <1>3, <1>4, <1>5, <1>6, <1>7, <1>8, <1>9, Zenon DEF SessionsNext, Handle

\* What a session takes for acknowledged is in the document of the room (handleAck,
\* handleUpdate), whatever breaks, unless a session is made while answers to another
\* one of its epoch are still to come.
THEOREM ConfirmedUpdatesServed == SessionsSpec => []ConfirmedIsServed
<1>1. SessionsInit => ConfirmInv
  BY DEF SessionsInit, ConfirmInv, AckedInv, NoSession
<1>2. TypeInv /\ TypeInv' /\ OnceInv /\ [SessionsNext]_sessionVars => OnceInv'
  BY OnceStep
<1>3. TypeInv /\ OnceInv /\ ConfirmInv /\ [SessionsNext]_sessionVars => ConfirmInv'
  BY ConfirmStep
<1>4. ConfirmInv => ConfirmedIsServed
  BY DEF ConfirmInv, ConfirmedIsServed
<1> QED
  BY OnceInit, SessionsTypeCorrect, <1>1, <1>2, <1>3, <1>4, PTL DEF SessionsSpec
=============================================================================
