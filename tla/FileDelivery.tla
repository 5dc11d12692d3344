----------------------------- MODULE FileDelivery -----------------------------
(***************************************************************************)
(* What a transfer between two phones promises, with no protocol in sight: *)
(* files of certain lengths are proposed; the user of the receiving phone  *)
(* may say yes; then the files may appear there, each one whole and at     *)
(* once, in the order of the selection; at any moment it may all be over,  *)
(* and then nothing changes any more.                                      *)
(***************************************************************************)
EXTENDS Integers, Sequences

CONSTANTS N,          \* how many files are offered
          Lengths     \* the lengths a file may have

VARIABLES proposal,   \* the lengths of the files
          accepted,   \* the receiving user said yes
          store,      \* the contents of the files that have appeared, in order
          over        \* the receiving side is done, well or badly

vars == <<proposal, accepted, store, over>>

\* The contents of file i: its units, from the first to the proposed last.
Content(i) == [u \in 1..proposal[i] |-> [file |-> i, unit |-> u]]

Init ==
  /\ proposal \in [1..N -> Lengths]
  /\ accepted = FALSE
  /\ store = <<>>
  /\ over = FALSE

Propose ==
  /\ ~accepted
  /\ proposal' \in [1..N -> Lengths]
  /\ UNCHANGED <<accepted, store, over>>

Accept ==
  /\ ~over /\ ~accepted
  /\ accepted' = TRUE
  /\ UNCHANGED <<proposal, store, over>>

\* A whole file appears; with the last one all is over.
Appear ==
  /\ ~over /\ accepted
  /\ Len(store) < N
  /\ store' = Append(store, Content(Len(store) + 1))
  /\ over' = (Len(store') = N)
  /\ UNCHANGED <<proposal, accepted>>

Stop ==
  /\ ~over
  /\ over' = TRUE
  /\ UNCHANGED <<proposal, accepted, store>>

Next == Propose \/ Accept \/ Appear \/ Stop

Spec == Init /\ [][Next]_vars
=============================================================================
