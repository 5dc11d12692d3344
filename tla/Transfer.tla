------------------------------- MODULE Transfer -------------------------------
(***************************************************************************)
(* A transfer from one BBX Share to another: the sending thread of         *)
(* SendSession, the receiving thread of ReceiveSession and the TCP stream  *)
(* between them.  A direction of the stream delivers frames in order; it   *)
(* may be cut, and then what was on its way never arrives and nobody is    *)
(* told.  Closing an end is seen by the other as an end of stream once it  *)
(* has read what was sent before; if the closing end had not read all, the *)
(* reset may destroy what the other had not read.                          *)
(***************************************************************************)
EXTENDS Integers, Sequences, FiniteSets

CONSTANTS N,        \* how many files are selected
          Lengths   \* the lengths, in chunks, a file may have

ASSUME TransferAssumption == N \in Nat \ {0} /\ Lengths \subseteq Nat

\* Limits that a well-behaved sender stays below.
Id == 0..N
MaxTotal == 1000

VARIABLES
  \* QuickShareSender
  at, length, declared, current, offset, ended, control, safe, consented, completed, result,
  \* QuickShareSession
  state, offered, text, size, received, open, onDisk, written, receivedBytes,
  buffers, buffered, events, progress, asked, verdict,
  \* TCP
  toReceiver, toSender,  \* frames sent and not read yet
  cut,                   \* the directions that carry nothing any more
  calm                   \* history: nothing has gone wrong by itself

senderVars == <<at, length, declared, current, offset, ended, control, safe, consented,
                completed, result>>
receiverVars == <<state, offered, text, size, received, open, onDisk, written,
                  receivedBytes, buffers, buffered, events, progress, asked, verdict>>
vars == <<senderVars, receiverVars, toReceiver, toSender, cut, calm>>

Sender == INSTANCE SendSession
  WITH ControlId <- {0}, MaxControl <- 1, ReceiverFrames <- {}, MaxUnread <- 0,
       accepted <- consented, unreachable <- FALSE, outbox <- toReceiver

Receiver == INSTANCE ReceiveSession
  WITH PeerFrames <- {}, MaxBytePayload <- 1, MaxBuffered <- 1, MaxInt64 <- MaxTotal,
       MaxOutbox <- 0, silent <- FALSE, outbox <- toSender

Init ==
  /\ Sender!Init
  /\ Receiver!Init
  /\ cut = {}
  /\ calm = TRUE

SenderClosed == at = "closed"
ReceiverClosed == state = "Closed"

-----------------------------------------------------------------------------
(* The sending phone. *)

SenderReads ==
  /\ toSender # <<>> /\ "toSender" \notin cut
  /\ Sender!Frame(Head(toSender))
  /\ toSender' = Tail(toSender)
  /\ UNCHANGED <<receiverVars, cut>>

\* checkPeerControl goes on only when it finds nothing to read, and no end.
SenderStreams ==
  /\ Sender!CheckClear
  /\ "toSender" \in cut \/ (toSender = <<>> /\ ~ReceiverClosed)
  /\ UNCHANGED <<receiverVars, toSender, cut>>

SenderWorks ==
  /\ Sender!Start \/ Sender!OpenFile \/ Sender!SendChunk
  /\ UNCHANGED <<receiverVars, toSender, cut>>

\* A timeout or an end of stream, with nothing left to read.
SenderGivesUp ==
  /\ "toSender" \in cut \/ toSender = <<>>
  /\ Sender!NoAnswer
  /\ UNCHANGED <<receiverVars, toSender, cut>>

SenderSeesEnd ==
  /\ cut # {} \/ (toSender = <<>> /\ ReceiverClosed)
  /\ Sender!ReceiverLeft
  /\ UNCHANGED <<receiverVars, toSender, cut>>

FileResized ==
  /\ Sender!Resize
  /\ UNCHANGED <<toReceiver, receiverVars, toSender, cut>>

-----------------------------------------------------------------------------
(* The receiving phone. *)

ReceiverReads ==
  /\ toReceiver # <<>> /\ "toReceiver" \notin cut
  /\ Receiver!PlainFrame(Head(toReceiver)) \/ Receiver!SecureFrame(Head(toReceiver))
  /\ toReceiver' = Tail(toReceiver)
  /\ UNCHANGED <<senderVars, cut>>

ReceiverAnswers ==
  /\ Receiver!ConsentAccepted \/ Receiver!ConsentFails \/ Receiver!ConsentRejected
  /\ UNCHANGED <<senderVars, toReceiver, cut>>

\* A timeout, with nothing left to read.
ReceiverTimesOut ==
  /\ "toReceiver" \in cut \/ toReceiver = <<>>
  /\ Receiver!HandshakeGivesUp \/ Receiver!InactivityTimeout
  /\ UNCHANGED <<senderVars, toReceiver, cut>>

ReceiverSeesEnd ==
  /\ cut # {} \/ (toReceiver = <<>> /\ SenderClosed)
  /\ Receiver!StreamEnds
  /\ UNCHANGED <<senderVars, toReceiver, cut>>

-----------------------------------------------------------------------------
(* The network. *)

Cut(direction) ==
  /\ direction \notin cut
  /\ cut' = cut \cup {direction}
  /\ UNCHANGED <<senderVars, receiverVars, toReceiver, toSender>>

\* One end closed with frames it had not read: the other end may lose its own.
Reset ==
  /\ \/ /\ ReceiverClosed /\ toReceiver # <<>> /\ toSender # <<>>
        /\ toSender' = <<>> /\ UNCHANGED toReceiver
     \/ /\ SenderClosed /\ toSender # <<>> /\ toReceiver # <<>>
        /\ toReceiver' = <<>> /\ UNCHANGED toSender
  /\ UNCHANGED <<senderVars, receiverVars, cut>>

-----------------------------------------------------------------------------
SenderNext ==
  \/ SenderReads \/ SenderStreams \/ SenderWorks
  \/ SenderGivesUp \/ SenderSeesEnd \/ FileResized

ReceiverNext ==
  \/ ReceiverReads \/ ReceiverAnswers \/ ReceiverTimesOut \/ ReceiverSeesEnd

Step ==
  \/ SenderNext
  \/ ReceiverNext
  \/ Cut("toReceiver") \/ Cut("toSender")
  \/ Reset

\* A step in which nothing goes wrong by itself: no cut, no change of the files,
\* no failure of a call, no timeout, and the user accepts.  The sender may still
\* fail once the receiver is gone.
Calm ==
  /\ cut' = {}
  /\ length' = length
  /\ result' = "failed" => ReceiverClosed
  /\ verdict' # "failed"
  /\ verdict' = "ok" => asked = "accepted"

Next == Step /\ calm' = (calm /\ Calm)

\* As long as all is calm, the two threads run.
Spec == Init /\ [][Next]_vars /\ WF_vars(Next /\ calm')

-----------------------------------------------------------------------------
(* Safety. *)

TypeOK ==
  /\ Sender!TypeOK
  /\ Receiver!TypeOK
  /\ cut \subseteq {"toReceiver", "toSender"}

\* The receiver is never ahead: a file it holds whole was sent to its end, under
\* the size that the sender measured, to a receiver whose consent it had read.
ReceiverBehind ==
  \A i \in Receiver!Reported : i \in completed /\ size[i] = declared[i] /\ consented

\* The sender's success presupposes the receiving user's yes.
SuccessNeedsConsent == result = "ok" => asked = "accepted"

\* The sender reports success when its last bytes are with TCP.  They may still be
\* lost, but in two ways only: the stream was cut, or the receiver failed by itself.
\* Otherwise every file is whole at the receiver or its end is on its way there;
\* no close of either end destroys it.
SuccessOnItsWay ==
  result = "ok" /\ cut = {} /\ verdict # "failed" =>
    \A i \in Sender!Files :
      \/ i \in Receiver!Reported
      \/ \E n \in 1..Len(toReceiver) :
           toReceiver[n].kind = "file" /\ toReceiver[n].id = i /\ toReceiver[n].last

-----------------------------------------------------------------------------
(* Liveness, when nothing goes wrong by itself. *)

\* The two threads never wait for each other: without a single timeout, every
\* file arrives.
TransferCompletes == <>(~calm \/ (ReceiverClosed /\ Len(events) = N))

-----------------------------------------------------------------------------
(* Refinement. *)

Delivery == INSTANCE FileDelivery
  WITH proposal <- declared,
       accepted <- (asked = "accepted"),
       store <- [n \in 1..Len(events) |-> written[events[n]]],
       over <- ReceiverClosed

\* The two threads and the stream implement FileDelivery.
Delivers == Delivery!Spec

-----------------------------------------------------------------------------
(* What test/test_outbound_integration.cpp asserts of a transfer between two *)
(* instances (senderResult && receiverResult): when the receiver has all the *)
(* files, the sender, once done, has succeeded.                              *)
BothSucceed ==
  calm /\ SenderClosed /\ verdict = "ok" => result = "ok"
=============================================================================
