------------------------------- MODULE MCRooms -------------------------------
(***************************************************************************)
(* Instances of Rooms for TLC.                                             *)
(***************************************************************************)
EXTENDS Rooms

CONSTANTS d1, d2

MCDevice == {d1, d2}
MCWriter == {1, 2}
=============================================================================
