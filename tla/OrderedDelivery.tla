--------------------------- MODULE OrderedDelivery ---------------------------
(***************************************************************************)
(* What a device's outbox and the server promise together: the operations  *)
(* of the device are delivered at most once and in the order in which they *)
(* were issued (docs/spec-core-protocol.md S1).  An operation may be lost: *)
(* the server refuses it, the user throws it away, or the plugin stops     *)
(* before the operation is on disk.  What has been lost, or overtaken by a *)
(* later operation, is never delivered.                                    *)
(***************************************************************************)
EXTENDS Naturals, Sequences

CONSTANT MaxOps   \* operations are 1 .. MaxOps in the order they are issued

VARIABLES
    waiting,      \* the operations that may still be delivered
    delivered,    \* those that have been, in order
    submitted     \* how many have been issued

channelVars == <<waiting, delivered, submitted>>

Init == waiting = {} /\ delivered = <<>> /\ submitted = 0

Submit ==
    /\ submitted < MaxOps
    /\ submitted' = submitted + 1
    /\ waiting' = waiting \cup {submitted'}
    /\ UNCHANGED delivered

Deliver(op) ==
    /\ op \in waiting
    /\ delivered' = Append(delivered, op)
    /\ waiting' = {o \in waiting : o > op}
    /\ UNCHANGED submitted

\* One step may make several operations undeliverable: a restart loses what was
\* not on disk yet.
Lose ==
    /\ waiting' \in SUBSET waiting
    /\ waiting' # waiting
    /\ UNCHANGED <<delivered, submitted>>

Next == Submit \/ Lose \/ \E op \in waiting : Deliver(op)

Spec == Init /\ [][Next]_channelVars
=============================================================================
