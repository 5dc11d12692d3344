------------------------------- MODULE Consent -------------------------------
(***************************************************************************)
(* The consent gate of ShareService: one decision word guarded by a mutex, *)
(* shared by every receiver thread (QuickShareSession), and one dialog,    *)
(* which the UI thread shows and hides when it delivers the calls that the *)
(* threads post to it.                                                     *)
(*                                                                         *)
(* A Session is one accepted TCP connection with its own thread.  The      *)
(* decision word and the dialog are not keyed by session: whoever calls    *)
(* beginConsent, consentDecision or finishConsent touches the same word.   *)
(* The post of a dialog call comes after the mutex is released, so every   *)
(* consent operation takes two steps here.                                 *)
(***************************************************************************)
EXTENDS Integers, Sequences

CONSTANTS Session,    \* the connections accepted while the app runs
          NoSession   \* no dialog; in the posted calls, clearPendingTransfer

ASSUME NoSessionAssumption == NoSession \notin Session

VARIABLES
  decision,  \* m_consentDecision: 0 undecided, 1 accepted, -1 rejected or idle
  dialog,    \* the session whose title and PIN the dialog shows, or NoSession
  posted,    \* calls queued to the UI thread: a session (show) or NoSession
  pc,        \* where each receiver thread is
  resume,    \* where it goes when the finishConsent it runs returns
  expired,   \* the sessions whose consent timer has passed 60 s
  heard,     \* history: sessions that were pending at some effective accept
  agreed     \* history: sessions whose own dialog was up at such an accept

code == <<decision, dialog, posted, pc, resume, expired>>
history == <<heard, agreed>>
vars == <<decision, dialog, posted, pc, resume, expired, heard, agreed>>

Location == {"handshake",  \* before beginConsent
             "announce",   \* beginConsent took the gate, show not yet posted
             "consult",    \* top of the run loop, m_state = AwaitConsent
             "poll",       \* in poll() or handling a frame, still undecided
             "create",     \* read 1: opening the files, sending ACCEPT
             "finish",     \* in finishConsent, before its mutex section
             "post",       \* in finishConsent, before its post
             "destroy",    \* in the destructor, m_state = AwaitConsent
             "receiving",  \* m_state = Receiving
             "ended"}

\* The sessions that began consent and have not reset the decision since.
Pending == {s \in Session :
              pc[s] \in {"announce", "consult", "poll", "create", "finish", "destroy"}}

\* The sessions that will still post a clearPendingTransfer.
OwesClear == Pending \cup {s \in Session : pc[s] = "post"}

TypeOK ==
  /\ decision \in {-1, 0, 1}
  /\ dialog \in Session \cup {NoSession}
  /\ posted \in Seq(Session \cup {NoSession})
  /\ pc \in [Session -> Location]
  /\ resume \in [Session -> {"receiving", "destroy", "ended"}]
  /\ expired \in SUBSET Session
  /\ heard \in SUBSET Session
  /\ agreed \in SUBSET Session

Init ==
  /\ decision = -1
  /\ dialog = NoSession
  /\ posted = <<>>
  /\ pc = [s \in Session |-> "handshake"]
  /\ resume = [s \in Session |-> "ended"]
  /\ expired = {}
  /\ heard = {}
  /\ agreed = {}

-----------------------------------------------------------------------------
(* The receiver threads. *)

Goto(s, there) == pc' = [pc EXCEPT ![s] = there]

\* A call of finishConsent that returns to `back`.
CallFinish(s, back) ==
  /\ Goto(s, "finish")
  /\ resume' = [resume EXCEPT ![s] = back]

\* mutant of TimedOut: an undecided session never looks at its timer.
TimedOutNever(s) == FALSE

\* m_consentTimer.elapsed() > CONSENT_TIMEOUT_MS, as run() tests it.
TimedOut(s) == s \in expired

\* The connection ends before its Introduction reaches the gate.
HandshakeEnds(s) ==
  /\ pc[s] = "handshake"
  /\ Goto(s, "ended")
  /\ UNCHANGED <<decision, dialog, posted, resume, expired, history>>

\* mutant of BeginConsent: a free gate is taken without resetting the word.
BeginConsentStale(s) ==
  /\ pc[s] = "handshake"
  /\ decision # 0
  /\ decision' = IF decision = 1 THEN 1 ELSE 0
  /\ Goto(s, "announce")
  /\ UNCHANGED <<dialog, posted, resume, expired, history>>

\* beginConsent, its mutex section: only an undecided word refuses.
BeginConsent(s) ==
  /\ pc[s] = "handshake"
  /\ decision # 0
  /\ decision' = 0
  /\ Goto(s, "announce")
  /\ UNCHANGED <<dialog, posted, resume, expired, history>>

\* The refused session fails with m_state = AwaitIntroduction.
RefuseConsent(s) ==
  /\ pc[s] = "handshake"
  /\ decision = 0
  /\ Goto(s, "ended")
  /\ UNCHANGED <<decision, dialog, posted, resume, expired, history>>

PostShow(s) ==
  /\ pc[s] = "announce"
  /\ posted' = Append(posted, s)
  /\ Goto(s, "consult")
  /\ UNCHANGED <<decision, dialog, resume, expired, history>>

ReadAccepted(s) ==
  /\ pc[s] = "consult"
  /\ decision = 1
  /\ Goto(s, "create")
  /\ UNCHANGED <<decision, dialog, posted, resume, expired, history>>

\* The reject response may or may not reach the peer: run() ignores it.
ReadRejected(s) ==
  /\ pc[s] = "consult"
  /\ decision = -1 \/ (decision = 0 /\ TimedOut(s))
  /\ CallFinish(s, "destroy")
  /\ UNCHANGED <<decision, dialog, posted, expired, history>>

ReadUndecided(s) ==
  /\ pc[s] = "consult"
  /\ decision = 0 /\ ~TimedOut(s)
  /\ Goto(s, "poll")
  /\ UNCHANGED <<decision, dialog, posted, resume, expired, history>>

\* poll() times out, or the frame it announced asks for nothing.
PollAgain(s) ==
  /\ pc[s] = "poll"
  /\ Goto(s, "consult")
  /\ UNCHANGED <<decision, dialog, posted, resume, expired, history>>

\* mutant of PeerGone: the destructor does not check for AwaitConsent.
PeerGoneSilently(s) ==
  /\ pc[s] = "poll"
  /\ Goto(s, "ended")
  /\ UNCHANGED <<decision, dialog, posted, resume, expired, history>>

\* End of stream, a cancel, a bad frame or a socket error: run() returns.
PeerGone(s) ==
  /\ pc[s] = "poll"
  /\ Goto(s, "destroy")
  /\ UNCHANGED <<decision, dialog, posted, resume, expired, history>>

\* mutant of Granted: m_state moves to Receiving with no finishConsent.
GrantedUnfinished(s) ==
  /\ pc[s] = "create"
  /\ Goto(s, "receiving")
  /\ UNCHANGED <<decision, dialog, posted, resume, expired, history>>

\* Files created and the ACCEPT response sent.
Granted(s) ==
  /\ pc[s] = "create"
  /\ CallFinish(s, "receiving")
  /\ UNCHANGED <<decision, dialog, posted, expired, history>>

\* A file cannot be created, or the response cannot be sent.
GrantFails(s) ==
  /\ pc[s] = "create"
  /\ CallFinish(s, "destroy")
  /\ UNCHANGED <<decision, dialog, posted, expired, history>>

\* mutant of FinishConsent: the word is counted down instead of set.
FinishConsentCounts(s) ==
  /\ pc[s] = "finish"
  /\ decision' = decision - 1
  /\ Goto(s, "post")
  /\ UNCHANGED <<dialog, posted, resume, expired, history>>

\* finishConsent, its mutex section.
FinishConsent(s) ==
  /\ pc[s] = "finish"
  /\ decision' = -1
  /\ Goto(s, "post")
  /\ UNCHANGED <<dialog, posted, resume, expired, history>>

\* mutant of PostClear: an accepted transfer leaves the dialog up.
PostClearUnlessGranted(s) ==
  /\ pc[s] = "post"
  /\ posted' = IF resume[s] = "receiving" THEN posted ELSE Append(posted, NoSession)
  /\ Goto(s, resume[s])
  /\ UNCHANGED <<decision, dialog, resume, expired, history>>

\* finishConsent, its queued call of clearPendingTransfer.
PostClear(s) ==
  /\ pc[s] = "post"
  /\ posted' = Append(posted, NoSession)
  /\ Goto(s, resume[s])
  /\ UNCHANGED <<decision, dialog, resume, expired, history>>

\* The destructor still finds AwaitConsent and calls finishConsent (again).
Destroy(s) ==
  /\ pc[s] = "destroy"
  /\ CallFinish(s, "ended")
  /\ UNCHANGED <<decision, dialog, posted, expired, history>>

ReceivingEnds(s) ==
  /\ pc[s] = "receiving"
  /\ Goto(s, "ended")
  /\ UNCHANGED <<decision, dialog, posted, resume, expired, history>>

\* m_consentTimer passes CONSENT_TIMEOUT_MS.
ConsentTimeout(s) ==
  /\ pc[s] \in {"consult", "poll"}
  /\ s \notin expired
  /\ expired' = expired \cup {s}
  /\ UNCHANGED <<decision, dialog, posted, pc, resume, history>>

-----------------------------------------------------------------------------
(* The UI thread: queued calls in posting order, and the user's buttons.   *)

\* showPendingTransfer and clearPendingTransfer.
DeliverPosted ==
  /\ posted # <<>>
  /\ dialog' = Head(posted)
  /\ posted' = Tail(posted)
  /\ UNCHANGED <<decision, pc, resume, expired, history>>

\* The buttons exist only in the dialog; a word that is not 0 ignores them.
AcceptTransfer ==
  /\ dialog # NoSession
  /\ decision = 0
  /\ decision' = 1
  /\ heard' = heard \cup Pending
  /\ agreed' = agreed \cup {dialog}
  /\ UNCHANGED <<dialog, posted, pc, resume, expired>>

RejectTransfer ==
  /\ dialog # NoSession
  /\ decision = 0
  /\ decision' = -1
  /\ UNCHANGED <<dialog, posted, pc, resume, expired, history>>

-----------------------------------------------------------------------------
\* What a thread does by itself once its Introduction passed the gate.
ConsentStep(s) ==
  \/ PostShow(s)
  \/ ReadAccepted(s) \/ ReadRejected(s) \/ ReadUndecided(s)
  \/ PollAgain(s) \/ PeerGone(s)
  \/ Granted(s) \/ GrantFails(s)
  \/ FinishConsent(s) \/ PostClear(s) \/ Destroy(s)

\* What depends on the peer: nothing forces it.
PeerStep(s) ==
  \/ HandshakeEnds(s)
  \/ BeginConsent(s) \/ RefuseConsent(s)
  \/ ReceivingEnds(s)

Next ==
  \/ \E s \in Session : ConsentStep(s) \/ PeerStep(s) \/ ConsentTimeout(s)
  \/ DeliverPosted
  \/ AcceptTransfer
  \/ RejectTransfer

Spec == Init /\ [][Next]_vars

\* Threads run, timers elapse and the UI thread's event loop turns; neither
\* the user nor the peer owes anything.
FairSpec ==
  /\ Spec
  /\ \A s \in Session : WF_vars(ConsentStep(s)) /\ WF_vars(ConsentTimeout(s))
  /\ WF_vars(DeliverPosted)

-----------------------------------------------------------------------------
(* Safety. *)

\* A decision word that is not idle belongs to a session that still has a
\* finishConsent ahead of it.  Were it ever left at 0 by a thread that is gone,
\* beginConsent would refuse every later transfer until the app restarts.
NoOrphanDecision == decision # -1 => Pending # {}

\* No session reads an acceptance that the user gave before that session began
\* to ask: beginConsent resets the word on every path that lets it through.
Admitted == {s \in Session : pc[s] = "create"
                             \/ (pc[s] \in {"finish", "post"} /\ resume[s] = "receiving")
                             \/ pc[s] = "receiving"}
FreshConsent == Admitted \subseteq heard

\* What the dialog will show once the UI thread has drained its queue.
SettledDialog == IF posted = <<>> THEN dialog ELSE posted[Len(posted)]

\* The dialog never outlives its session: whatever it will settle on, that
\* session has yet to post the clear, on every exit path of run().
NoStaleDialog == SettledDialog # NoSession => SettledDialog \in OwesClear

-----------------------------------------------------------------------------
(* Liveness. *)

\* Every session that passed the gate is decided, by the user or by its timer,
\* and its thread leaves consent whatever the peer and the user do.
ConsentResolves ==
  \A s \in Session : pc[s] = "announce" ~> pc[s] \in {"receiving", "ended"}

\* A question on the screen is always taken away again, answered or not.
DialogDismissed == \A s \in Session : dialog = s ~> dialog # s

-----------------------------------------------------------------------------
(* What docs/plan.md promises: "consenso esplicito con nome dispositivo,   *)
(* allegati e PIN".  A session receives only if the user accepted while    *)
(* the dialog showed that session's device, attachments and PIN.           *)
ExplicitConsent == Admitted \subseteq agreed
=============================================================================
