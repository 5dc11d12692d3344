------------------------------ MODULE MCTransfer ------------------------------
(* Transfer on two or three files of at most two chunks. *)
EXTENDS Transfer
=============================================================================
