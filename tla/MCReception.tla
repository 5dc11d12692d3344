----------------------------- MODULE MCReception -----------------------------
(* Reception on two sessions, one with two attachments and one with one. *)
EXTENDS Reception

CONSTANTS s1, s2

TwoSessions == {s1, s2}
Attachments == [s \in TwoSessions |-> IF s = s1 THEN 2 ELSE 1]
Numbers == 0..2
=============================================================================
