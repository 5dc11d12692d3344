------------------------------ MODULE Reception ------------------------------
(***************************************************************************)
(* The receiver threads between the consent gate (Consent) and the shared  *)
(* download directory (Downloads).  A session picks its paths before it    *)
(* asks for the gate, creates its files between the user's answer and the  *)
(* finishConsent that frees the gate, and removes what it has not finished *)
(* after the last finishConsent of its destructor.                         *)
(***************************************************************************)
EXTENDS Consent

CONSTANTS Count, Path,
          UserPath  \* bound: the paths that the user and other applications touch

VARIABLES disk, plan, objects, attached, done, contested

Files == INSTANCE Downloads

ASSUME ReceptionAssumption ==
  Files!DownloadsAssumption /\ UserPath \subseteq Path

fileVars == <<disk, plan, objects, attached, done, contested>>
receptionVars == <<vars, fileVars>>

ReceptionInit == Init /\ Files!Init

-----------------------------------------------------------------------------
(* Steps of a session thread on the directory. *)

\* processIntroduction, one attachment after the other, before beginConsent.
ReservePath(s) ==
  /\ pc[s] = "handshake"
  /\ Files!Reserve(s)
  /\ UNCHANGED vars

CreateFile(s) ==
  /\ pc[s] = "create"
  /\ \E a \in Files!Attachment : Files!OpenFile(s, a)
  /\ UNCHANGED vars

\* A file that cannot be created ends the session.
CreateFails(s) ==
  /\ GrantFails(s)
  /\ \E a \in Files!Attachment : Files!OpenFails(s, a)

ReceiveChunk(s) ==
  /\ pc[s] = "receiving"
  /\ \E a \in Files!Attachment : Files!WriteChunk(s, a) \/ Files!FinishFile(s, a)
  /\ UNCHANGED vars

\* The destructor, after its finishConsent.
Close(s) ==
  /\ pc[s] = "ended"
  /\ Files!CloseFiles(s)
  /\ UNCHANGED vars

-----------------------------------------------------------------------------
(* Steps of a session thread on the gate. *)

\* beginConsent comes after every attachment of the Introduction.
AskConsent(s) ==
  /\ Len(plan[s]) = Count[s]
  /\ BeginConsent(s) \/ RefuseConsent(s)
  /\ UNCHANGED fileVars

\* The ACCEPT response is sent, or not, once every file is open.
Grant(s) ==
  /\ Files!AllOpen(s)
  /\ Granted(s) \/ GrantFails(s)
  /\ UNCHANGED fileVars

GateStep(s) ==
  /\ \/ PostShow(s)
     \/ ReadAccepted(s) \/ ReadRejected(s) \/ ReadUndecided(s)
     \/ PollAgain(s) \/ PeerGone(s)
     \/ FinishConsent(s) \/ PostClear(s) \/ Destroy(s)
  /\ UNCHANGED fileVars

\* What a thread does by itself.
ThreadStep(s) ==
  \/ CreateFile(s) \/ CreateFails(s) \/ Close(s)
  \/ Grant(s) \/ GateStep(s)

\* What waits for the peer.
SessionPeerStep(s) ==
  \/ ReservePath(s) \/ AskConsent(s) \/ ReceiveChunk(s)
  \/ (HandshakeEnds(s) \/ ReceivingEnds(s)) /\ UNCHANGED fileVars

UserStep ==
  \/ (AcceptTransfer \/ RejectTransfer) /\ UNCHANGED fileVars
  \/ (\E p \in UserPath : Files!OtherSaves(p) \/ Files!UserDeletes(p)) /\ UNCHANGED vars

Timer(s) == ConsentTimeout(s) /\ UNCHANGED fileVars
EventLoop == DeliverPosted /\ UNCHANGED fileVars

ReceptionNext ==
  \/ \E s \in Session : ThreadStep(s) \/ SessionPeerStep(s) \/ Timer(s)
  \/ EventLoop
  \/ UserStep

ReceptionSpec == ReceptionInit /\ [][ReceptionNext]_receptionVars

\* As in Consent: threads run, timers elapse, the event loop turns; neither the
\* user nor the peer owes anything.
FairReceptionSpec ==
  /\ ReceptionSpec
  /\ \A s \in Session : WF_receptionVars(ThreadStep(s)) /\ WF_receptionVars(Timer(s))
  /\ WF_receptionVars(EventLoop)

-----------------------------------------------------------------------------
(* Properties: those of Consent under the same names, and these. *)

ReceptionTypeOK == TypeOK /\ Files!TypeOK

\* See Downloads: a file at rest is changed by the user only, unless its path
\* was claimed twice.
KeepsOthers == Files!KeepsOthers

\* See Downloads: no way out of a session leaves a part of a file behind.
NoPartialLeft == Files!NoPartialLeft

\* README.md: "name collisions create a new numbered file instead of
\* overwriting an existing one".
NeverOverwrites == Files!NeverOverwrites
=============================================================================
