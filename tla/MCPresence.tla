------------------------------ MODULE MCPresence ------------------------------
(* Presence with one peer that may restart once, and this phone as instance 3. *)
EXTENDS Presence

CONSTANTS near1, near2, far

Instances == {1, 2, 3}
Addresses == {near1, near2, far}
OneNetwork == {near1, near2} \X {near1, near2}
                 \cup {<<far, far>>}
=============================================================================
