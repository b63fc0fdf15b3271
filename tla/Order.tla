------------------------------- MODULE Order -------------------------------
(***************************************************************************)
(* The sequences in which the plugin goes through what it has found.  One  *)
(* order stands for that of its lists and maps.                            *)
(***************************************************************************)
EXTENDS Naturals, FiniteSets

\* The elements of a finite set in the order of their keys.
SortedBy(elements, key) ==
    CHOOSE s \in [1..Cardinality(elements) -> elements] :
        \A i, j \in DOMAIN s : i < j => s[i] # s[j] /\ key[s[i]] <= key[s[j]]

Ascending(numbers) == SortedBy(numbers, [n \in numbers |-> n])
=============================================================================
