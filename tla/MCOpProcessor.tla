---------------------------- MODULE MCOpProcessor ----------------------------
(***************************************************************************)
(* Instances of OpProcessor for TLC.  Writer 0 stands for collab:<fileId>. *)
(* Paths are numbered so that path p with number n in it is path p + n - 1:*)
(* a client may well ask for a name that another file got as a suffix.     *)
(***************************************************************************)
EXTENDS OpProcessor

\* The last path has no further suffix, so names can run out.
MCSuffixPath ==
    [p \in Path |-> [n \in 1 .. SuffixLimit |-> IF p + n - 1 \in Path THEN p + n - 1 ELSE p]]
=============================================================================
