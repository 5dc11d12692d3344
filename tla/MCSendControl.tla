----------------------------- MODULE MCSendControl -----------------------------
(* SendControl on model values, for TLC. *)
EXTENDS SendControl

CONSTANTS d1, d2, r1

TwoDevices == {d1, d2}
OneReceiver == {r1}
=============================================================================
