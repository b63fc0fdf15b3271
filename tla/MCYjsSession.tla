----------------------------- MODULE MCYjsSession -----------------------------
(***************************************************************************)
(* Instances of YjsSession for TLC.                                        *)
(***************************************************************************)
EXTENDS YjsSession

CONSTANTS d1, d2

MCDevice == {d1, d2}
MCAuthor == {d1}
===============================================================================
