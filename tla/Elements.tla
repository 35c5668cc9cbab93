------------------------------ MODULE Elements ------------------------------
(***************************************************************************)
(* The std::vector and the queues of the server as sequences: what is in   *)
(* one, and whether it is there once.                                      *)
(***************************************************************************)
EXTENDS Naturals, Sequences

Elems(s) == {s[i] : i \in 1 .. Len(s)}

Distinct(s) == \A i, j \in 1 .. Len(s) : s[i] = s[j] => i = j
==============================================================================
