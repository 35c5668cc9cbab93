----------------------------- MODULE MCLogLine -----------------------------
(* A buffer of eight bytes, a header of three, and pieces that fill it. *)
EXTENDS LogLine
==============================================================================
