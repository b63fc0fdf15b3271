------------------------------- MODULE MCOutbox -------------------------------
(***************************************************************************)
(* Instances of Outbox for TLC.                                            *)
(***************************************************************************)
EXTENDS Outbox

AUser(forces, ops, restarts) == [forces |-> forces, ops |-> ops, restarts |-> restarts]

\* One whose plugin is restarted, for a server that refuses nothing.
Restarting == {AUser(FALSE, 3, 1)}

\* One who edits, one who forces syncs, for a server that refuses.
EditingOrForcing == {AUser(FALSE, 3, 0), AUser(TRUE, 2, 1)}
=============================================================================
