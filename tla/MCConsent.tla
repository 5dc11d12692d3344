------------------------------ MODULE MCConsent ------------------------------
(* Consent on model values, for TLC. *)
EXTENDS Consent

CONSTANTS s1, s2

TwoSessions == {s1, s2}
=============================================================================
