---------------------------- MODULE ConsentProofs ----------------------------
(***************************************************************************)
(* What Consent guarantees for every set of connections, proved.  Each     *)
(* invariant is stated with the strengthening that makes it inductive.     *)
(***************************************************************************)
EXTENDS Consent, SequenceTheorems, TLAPS

\* Type correctness of the gate, for any set of connections: the decision word
\* keeps to its three values although three threads' worth of code writes it.
THEOREM TypeCorrect == Spec => []TypeOK
<1>1. Init => TypeOK
  BY DEF Init, TypeOK, Location
<1>2. TypeOK /\ [Next]_vars => TypeOK'
  <2> SUFFICES ASSUME TypeOK, [Next]_vars PROVE TypeOK'
    OBVIOUS
  <2> USE DEF TypeOK, history
  <2>1. ASSUME NEW s \in Session, ConsentStep(s) PROVE TypeOK'
    <3>1. CASE PostShow(s)
      BY <3>1 DEF PostShow, Goto, Location
    <3>2. CASE ReadAccepted(s) \/ ReadUndecided(s) \/ PollAgain(s) \/ PeerGone(s)
      BY <3>2 DEF ReadAccepted, ReadUndecided, PollAgain, PeerGone, Goto, Location
    <3>3. CASE ReadRejected(s) \/ Granted(s) \/ GrantFails(s) \/ Destroy(s)
      BY <3>3 DEF ReadRejected, Granted, GrantFails, Destroy, CallFinish, Goto, Location
    <3>4. CASE FinishConsent(s)
      BY <3>4 DEF FinishConsent, Goto, Location
    <3>5. CASE PostClear(s)
      BY <3>5 DEF PostClear, Goto, Location
    <3> QED
      BY <2>1, <3>1, <3>2, <3>3, <3>4, <3>5 DEF ConsentStep
  <2>2. ASSUME NEW s \in Session, PeerStep(s) \/ ConsentTimeout(s) PROVE TypeOK'
    BY <2>2 DEF PeerStep, HandshakeEnds, BeginConsent, RefuseConsent, ReceivingEnds,
                ConsentTimeout, Goto, Location
  <2>3. CASE DeliverPosted
    BY <2>3 DEF DeliverPosted
  <2>4. CASE AcceptTransfer \/ RejectTransfer
    BY <2>4 DEF AcceptTransfer, RejectTransfer, Pending
  <2>5. CASE UNCHANGED vars
    BY <2>5 DEF vars
  <2> QED
    BY <2>1, <2>2, <2>3, <2>4, <2>5 DEF Next
<1> QED
  BY <1>1, <1>2, PTL DEF Spec

-----------------------------------------------------------------------------
\* The decision word never waits for a thread that is gone: it needs no
\* strengthening, because every way out of Pending resets the word.
THEOREM NoOrphan == Spec => []NoOrphanDecision
<1>1. Init => NoOrphanDecision
  BY DEF Init, NoOrphanDecision
<1>2. TypeOK /\ NoOrphanDecision /\ [Next]_vars => NoOrphanDecision'
  <2> SUFFICES ASSUME TypeOK, NoOrphanDecision, [Next]_vars PROVE NoOrphanDecision'
    OBVIOUS
  <2> USE DEF TypeOK, NoOrphanDecision, Pending, history
  <2>1. ASSUME NEW s \in Session, ConsentStep(s) PROVE NoOrphanDecision'
    <3>1. CASE PostShow(s) \/ ReadAccepted(s) \/ ReadUndecided(s) \/ PollAgain(s)
                 \/ PeerGone(s)
      BY <3>1 DEF PostShow, ReadAccepted, ReadUndecided, PollAgain, PeerGone, Goto
    <3>2. CASE ReadRejected(s) \/ Granted(s) \/ GrantFails(s) \/ Destroy(s)
      BY <3>2 DEF ReadRejected, Granted, GrantFails, Destroy, CallFinish, Goto
    <3>3. CASE FinishConsent(s)
      BY <3>3 DEF FinishConsent
    <3>4. CASE PostClear(s)
      BY <3>4 DEF PostClear, Goto
    <3> QED
      BY <2>1, <3>1, <3>2, <3>3, <3>4 DEF ConsentStep
  <2>2. ASSUME NEW s \in Session, PeerStep(s) \/ ConsentTimeout(s)
        PROVE NoOrphanDecision'
    BY <2>2 DEF PeerStep, HandshakeEnds, BeginConsent, RefuseConsent, ReceivingEnds,
                ConsentTimeout, Goto
  <2>3. CASE DeliverPosted
    BY <2>3 DEF DeliverPosted
  <2>4. CASE AcceptTransfer \/ RejectTransfer
    BY <2>4 DEF AcceptTransfer, RejectTransfer
  <2>5. CASE UNCHANGED vars
    BY <2>5 DEF vars
  <2> QED
    BY <2>1, <2>2, <2>3, <2>4, <2>5 DEF Next
<1> QED
  BY <1>1, <1>2, TypeCorrect, PTL DEF Spec

-----------------------------------------------------------------------------
\* While the word says "accepted", everyone who could still read it was at the
\* gate when the user pressed the button.
Readers == {s \in Session : pc[s] \in {"announce", "consult", "poll"}}
HeardInv == /\ FreshConsent
            /\ decision = 1 => Readers \subseteq heard

\* No session ever acts on an acceptance older than its own question.
THEOREM Fresh == Spec => []FreshConsent
<1>1. Init => HeardInv
  BY DEF Init, HeardInv, FreshConsent, Admitted
<1>2. TypeOK /\ HeardInv /\ [Next]_vars => HeardInv'
  <2> SUFFICES ASSUME TypeOK, HeardInv, [Next]_vars PROVE HeardInv'
    OBVIOUS
  <2> USE DEF TypeOK, HeardInv, FreshConsent, Admitted, Readers, Pending, history
  <2>1. ASSUME NEW s \in Session, ConsentStep(s) PROVE HeardInv'
    <3>1. CASE PostShow(s) \/ ReadUndecided(s) \/ PollAgain(s) \/ PeerGone(s)
      BY <3>1 DEF PostShow, ReadUndecided, PollAgain, PeerGone, Goto
    <3>2. CASE ReadAccepted(s)
      BY <3>2 DEF ReadAccepted, Goto
    <3>3. CASE ReadRejected(s) \/ GrantFails(s) \/ Destroy(s)
      BY <3>3 DEF ReadRejected, GrantFails, Destroy, CallFinish, Goto
    <3>4. CASE Granted(s)
      BY <3>4 DEF Granted, CallFinish, Goto
    <3>5. CASE FinishConsent(s)
      BY <3>5 DEF FinishConsent, Goto
    <3>6. CASE PostClear(s)
      BY <3>6 DEF PostClear, Goto
    <3> QED
      BY <2>1, <3>1, <3>2, <3>3, <3>4, <3>5, <3>6 DEF ConsentStep
  <2>2. ASSUME NEW s \in Session, PeerStep(s) \/ ConsentTimeout(s) PROVE HeardInv'
    BY <2>2 DEF PeerStep, HandshakeEnds, BeginConsent, RefuseConsent, ReceivingEnds,
                ConsentTimeout, Goto
  <2>3. CASE DeliverPosted
    BY <2>3 DEF DeliverPosted
  <2>4. CASE AcceptTransfer \/ RejectTransfer
    BY <2>4 DEF AcceptTransfer, RejectTransfer
  <2>5. CASE UNCHANGED vars
    BY <2>5 DEF vars
  <2> QED
    BY <2>1, <2>2, <2>3, <2>4, <2>5 DEF Next
<1>3. HeardInv => FreshConsent
  BY DEF HeardInv
<1> QED
  BY <1>1, <1>2, <1>3, TypeCorrect, PTL DEF Spec

-----------------------------------------------------------------------------
\* What posting and delivering do to the dialog the queue settles on.
LEMMA SettledAfterPost ==
  ASSUME TypeOK, NEW call \in Session \cup {NoSession},
         posted' = Append(posted, call)
  PROVE  SettledDialog' = call
BY DEF TypeOK, SettledDialog

LEMMA SettledAfterDelivery ==
  ASSUME TypeOK, DeliverPosted
  PROVE  SettledDialog' = SettledDialog
<1> DEFINE S == Session \cup {NoSession}
<1>1. posted \in Seq(S) /\ posted # <<>> /\ posted' = Tail(posted)
  BY DEF TypeOK, DeliverPosted
<1>2. Len(posted) \in Nat \ {0}
  BY <1>1, EmptySeq, Zenon
<1>3. /\ Tail(posted) \in Seq(S)
      /\ Len(Tail(posted)) = Len(posted) - 1
      /\ \A i \in 1 .. Len(Tail(posted)) : Tail(posted)[i] = posted[i + 1]
  BY <1>1, HeadTailProperties, Zenon
<1>4. CASE Len(posted) = 1
  <2>1. posted' = <<>>
    BY <1>1, <1>3, <1>4, EmptySeq
  <2>2. dialog' = posted[1]
    BY <1>1 DEF DeliverPosted
  <2> QED
    BY <1>1, <1>4, <2>1, <2>2 DEF SettledDialog
<1>5. CASE Len(posted) > 1
  <2>1. Len(Tail(posted)) \in 1 .. Len(Tail(posted)) /\ Len(Tail(posted)) + 1 = Len(posted)
    BY <1>2, <1>3, <1>5
  <2>2. posted'[Len(posted')] = posted[Len(posted)]
    BY <1>1, <1>3, <2>1
  <2>3. posted' # <<>>
    <3>1. Len(posted') # 0
      BY <1>1, <2>1
    <3>2. Len(<<>>) = 0
      BY EmptySeq
    <3> QED
      BY <3>1, <3>2, Zenon
  <2> QED
    BY <1>1, <2>2, <2>3 DEF SettledDialog
<1>6. \A n \in Nat \ {0} : n = 1 \/ n > 1
  OBVIOUS
<1> QED
  BY <1>2, <1>4, <1>5, <1>6, Zenon

\* A dialog is never left on the screen by a thread that is gone.
THEOREM DialogOwned == Spec => []NoStaleDialog
<1>1. Init => NoStaleDialog
  BY DEF Init, NoStaleDialog, SettledDialog
<1>2. TypeOK /\ NoStaleDialog /\ [Next]_vars => NoStaleDialog'
  <2> SUFFICES ASSUME TypeOK, NoStaleDialog, [Next]_vars PROVE NoStaleDialog'
    OBVIOUS
  <2> USE DEF history
  <2>1. ASSUME NEW s \in Session, PostShow(s) PROVE NoStaleDialog'
    <3>1. SettledDialog' = s
      BY <2>1, SettledAfterPost DEF PostShow
    <3>2. s \in OwesClear'
      BY <2>1 DEF TypeOK, PostShow, Goto, OwesClear, Pending
    <3> QED
      BY <3>1, <3>2 DEF NoStaleDialog
  <2>2. ASSUME NEW s \in Session, PostClear(s) PROVE NoStaleDialog'
    <3>1. SettledDialog' = NoSession
      BY <2>2, SettledAfterPost DEF PostClear
    <3> QED
      BY <3>1 DEF NoStaleDialog
  <2>3. CASE DeliverPosted
    <3>1. OwesClear' = OwesClear
      BY <2>3 DEF DeliverPosted, OwesClear, Pending
    <3> QED
      BY <2>3, <3>1, SettledAfterDelivery DEF NoStaleDialog
  <2>4. ASSUME SettledDialog' = SettledDialog, OwesClear \subseteq OwesClear'
        PROVE  NoStaleDialog'
    BY <2>4 DEF NoStaleDialog
  <2>5. ASSUME NEW s \in Session,
               \/ ReadAccepted(s) \/ ReadUndecided(s) \/ PollAgain(s) \/ PeerGone(s)
               \/ FinishConsent(s)
        PROVE  NoStaleDialog'
    BY <2>4, <2>5 DEF TypeOK, SettledDialog, OwesClear, Pending, Goto, ReadAccepted,
                      ReadUndecided, PollAgain, PeerGone, FinishConsent
  <2>6. ASSUME NEW s \in Session,
               ReadRejected(s) \/ Granted(s) \/ GrantFails(s) \/ Destroy(s)
        PROVE  NoStaleDialog'
    BY <2>4, <2>6 DEF TypeOK, SettledDialog, OwesClear, Pending, Goto, CallFinish,
                      ReadRejected, Granted, GrantFails, Destroy
  <2>7. ASSUME NEW s \in Session, PeerStep(s) \/ ConsentTimeout(s)
        PROVE  NoStaleDialog'
    BY <2>4, <2>7 DEF TypeOK, SettledDialog, OwesClear, Pending, Goto, PeerStep,
                      HandshakeEnds, BeginConsent, RefuseConsent, ReceivingEnds,
                      ConsentTimeout
  <2>8. CASE AcceptTransfer \/ RejectTransfer \/ UNCHANGED vars
    BY <2>4, <2>8 DEF SettledDialog, OwesClear, Pending, AcceptTransfer,
                      RejectTransfer, vars
  <2> QED
    BY <2>1, <2>2, <2>3, <2>5, <2>6, <2>7, <2>8 DEF Next, ConsentStep
<1> QED
  BY <1>1, <1>2, TypeCorrect, PTL DEF Spec
=============================================================================
