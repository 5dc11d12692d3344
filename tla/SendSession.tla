----------------------------- MODULE SendSession -----------------------------
(***************************************************************************)
(* One outgoing transfer: the thread of QuickShareSender, from the check   *)
(* of the selected files to the destructor.  Frames are the records of     *)
(* ReceiveSession; the units of a file are numbered, so that the receiver's*)
(* copy can be compared with the source.                                   *)
(*                                                                         *)
(* The selected files stay on the phone's storage while they are sent and  *)
(* may change size there: the thread looks at the size when it starts, and *)
(* again when it opens each file.                                          *)
(***************************************************************************)
EXTENDS Integers, Sequences

CONSTANTS
  N,              \* how many files are selected
  Lengths,        \* the lengths, in chunks, a source file may have
  ControlId,      \* payload ids of the receiver's messages
  MaxControl,     \* MAX_CONTROL_PAYLOAD_SIZE, in units
  ReceiverFrames, \* the frames an arbitrary receiver may send
  MaxUnread       \* bound of Next: frames the receiver leaves unread

ASSUME FilesAssumption == N \in Nat \ {0} /\ Lengths \subseteq Nat

\* The flag of a ConnectionResponse is there or not (safe_to_disconnect_version).
ASSUME RepliesAssumption ==
  \A f \in ReceiverFrames : f.kind = "ConnectionResponse" => f.safe \in BOOLEAN

Files == 1..N

VARIABLES
  at,        \* where run() is
  length,    \* the length of each source file now
  declared,  \* OutgoingFile.size, taken when run() starts
  current,   \* the file being sent
  offset,    \* how much of it has been sent
  ended,     \* whether its last, empty chunk has been sent
  control,   \* m_controlBuffers
  safe,      \* m_safeDisconnect
  accepted,  \* history: the receiver's ACCEPT has been read
  completed, \* history: the files whose last chunk has been sent
  result,    \* what run() returned: "none" while it runs
  unreachable, \* the receiver is out of reach
  outbox     \* frames sent to the receiver and not read yet

fileVars == <<current, offset, ended, completed>>
senderVars == <<at, length, declared, fileVars, control, safe, accepted, result, outbox>>
vars == <<senderVars, unreachable>>

\* The frame each place waits for; "open", "check" and "send" are sendFilePayload.
Waiting == {"serverInit", "connectionResponse", "pairedKey", "pairedResult",
            "introductionResponse"}
Streaming == {"open", "check", "send"}

Init ==
  /\ at = "start"
  /\ length \in [Files -> Lengths]
  /\ declared = length
  /\ current = 1 /\ offset = 0 /\ ended = FALSE
  /\ control = [i \in ControlId |-> <<>>]
  /\ safe = FALSE
  /\ accepted = FALSE
  /\ completed = {}
  /\ result = "none"
  /\ unreachable = FALSE
  /\ outbox = <<>>

-----------------------------------------------------------------------------
Message(share, meta) == [share |-> share, meta |-> meta]

\* sendSharingFrame: the message in one chunk, then an empty last chunk.
SharingFrames(message) ==
  LET Chunk(from, last, body) ==
        [kind |-> "bytes", id |-> 0, total |-> 1, offset |-> from, last |-> last, body |-> body]
  IN <<Chunk(0, FALSE, <<message>>), Chunk(1, TRUE, <<>>)>>

\* sendIntroduction: one entry a file, each with a payload id of its own.
Introduction ==
  Message("Introduction",
          [i \in Files |-> [id |-> i, size |-> declared[i], text |-> FALSE]])

\* mutant of FileChunk: the last chunk is written like the others, with flags 0.
FileChunkUnmarked(i, from, body, last) ==
  [kind |-> "file", id |-> i, total |-> declared[i], offset |-> from, last |-> FALSE,
   body |-> body]

FileChunk(i, from, body, last) ==
  [kind |-> "file", id |-> i, total |-> declared[i], offset |-> from, last |-> last,
   body |-> body]

Send(frames) == outbox' = outbox \o frames

Return(value) ==
  /\ at' = "closed"
  /\ result' = value
  /\ UNCHANGED <<length, declared, fileVars, safe, accepted>>

Fail == Return("failed") /\ UNCHANGED outbox

-----------------------------------------------------------------------------
(* The handshake. *)

\* The files are examined, the peer is connected, two frames go out.
Start ==
  /\ at = "start"
  /\ UNCHANGED control
  /\ \/ /\ at' = "serverInit"
        /\ declared' = length
        /\ Send(<<[kind |-> "ConnectionRequest"], [kind |-> "ClientInit"]>>)
        /\ UNCHANGED <<length, fileVars, safe, accepted, result>>
     \/ Fail   \* a file is gone, or the receiver cannot be reached

ServerInit(f) ==
  /\ at = "serverInit"
  /\ UNCHANGED control
  /\ \/ /\ f.kind = "ServerInit"
        /\ at' = "connectionResponse"
        /\ Send(<<[kind |-> "ClientFinish"], [kind |-> "ConnectionResponse"]>>)
        /\ UNCHANGED <<length, declared, fileVars, safe, accepted, result>>
     \/ Fail

ConnectionResponse(f) ==
  /\ at = "connectionResponse"
  /\ UNCHANGED control
  /\ \/ /\ f.kind = "ConnectionResponse"
        /\ at' = "pairedKey"
        /\ safe' = f.safe
        /\ Send(SharingFrames(Message("PairedKeyEncryption", <<>>)))
        /\ UNCHANGED <<length, declared, fileVars, accepted, result>>
     \/ Fail

-----------------------------------------------------------------------------
(* Messages of the receiver: processReceivedOffline. *)

\* A chunk that continues its buffer within its declared total.
Continues(f) ==
  /\ f.kind \in {"bytes", "file"}
  /\ f.total <= MaxControl
  /\ f.offset = Len(control[f.id])
  /\ f.offset + Len(f.body) <= f.total

Assembled(f) == control[f.id] \o f.body

\* The frame completes a message.
Delivers(f) == Continues(f) /\ f.last /\ Len(Assembled(f)) = f.total

\* The frame leaves the sender waiting for more.
KeepWaiting(f) ==
  /\ UNCHANGED <<at, length, declared, fileVars, safe, accepted, result>>
  /\ \/ f.kind = "keepAlive" /\ Send(<<[kind |-> "keepAlive"]>>) /\ UNCHANGED control
     \/ /\ Continues(f) /\ ~f.last
        /\ control' = [control EXCEPT ![f.id] = Assembled(f)]
        /\ UNCHANGED outbox

\* The kind of an assembled message; "text" stands for one that does not parse.
Kind(f) == IF Len(Assembled(f)) = 1 THEN Assembled(f)[1].share ELSE "text"

Forget(f) == control' = [control EXCEPT ![f.id] = <<>>]

\* Anything else ends the transfer: garbage, a disconnection, a chunk out of place,
\* a keep-alive that cannot be answered.
BadReply(f) ==
  /\ Continues(f) => f.last /\ ~Delivers(f)
  /\ Fail /\ UNCHANGED control

\* The first two messages are not looked at: any complete one will do.
PairedKey(f) ==
  /\ at = "pairedKey"
  /\ \/ KeepWaiting(f) \/ BadReply(f)
     \/ /\ Delivers(f) /\ Forget(f)
        /\ \/ /\ at' = "pairedResult"
              /\ Send(SharingFrames(Message("PairedKeyResult", <<>>)))
              /\ UNCHANGED <<length, declared, fileVars, safe, accepted, result>>
           \/ Fail

\* mutant of AfterIntroduction: the answer to the question is not awaited.
AfterIntroductionAtOnce == "open"

\* After the Introduction the receiver's user is asked.
AfterIntroduction == "introductionResponse"

PairedResult(f) ==
  /\ at = "pairedResult"
  /\ \/ KeepWaiting(f) \/ BadReply(f)
     \/ /\ Delivers(f) /\ Forget(f)
        /\ \/ /\ at' = AfterIntroduction
              /\ Send(SharingFrames(Introduction))
              /\ UNCHANGED <<length, declared, fileVars, safe, accepted, result>>
           \/ Fail

\* mutant of Accepts: any answer to the question goes on.
AcceptsAny(f) == Kind(f) # "text"

\* processIntroductionResponse.
Accepts(f) == Kind(f) = "Accept"

\* Only ACCEPT goes on; a rejection, or any other message, ends the transfer.
IntroductionResponse(f) ==
  /\ at = "introductionResponse"
  /\ \/ KeepWaiting(f) \/ BadReply(f)
     \/ /\ Delivers(f) /\ Forget(f)
        /\ IF Accepts(f)
           THEN /\ at' = "open"
                /\ accepted' = TRUE
                /\ UNCHANGED <<length, declared, fileVars, safe, result, outbox>>
           ELSE Fail

-----------------------------------------------------------------------------
(* The files: sendFilePayload and checkPeerControl. *)

\* The file is opened and its size compared with the declared one.
OpenFile ==
  /\ at = "open"
  /\ UNCHANGED control
  /\ IF length[current] = declared[current]
     THEN /\ at' = IF length[current] = 0 THEN "send" ELSE "check"
          /\ UNCHANGED <<length, declared, fileVars, safe, accepted, result, outbox>>
     ELSE Fail

\* checkPeerControl finds a frame: of the messages, a cancel and one that does not
\* parse end the transfer, the others are passed over.
CheckFrame(f) ==
  /\ at = "check"
  /\ \/ KeepWaiting(f) \/ BadReply(f)
     \/ /\ Delivers(f) /\ Forget(f)
        /\ IF Kind(f) \in {"Cancel", "text"}
           THEN Fail
           ELSE UNCHANGED <<at, length, declared, fileVars, safe, accepted, result, outbox>>

\* The loop over the files goes on.
MoreFiles == current < N

\* mutant of AllSent: the last file is not waited for.
AllSentEarly == current = N

\* The loop over the files has ended.
AllSent == ended /\ current = N

\* sendFilePayload starts on the next file.
NextFile ==
  /\ current' = current + 1
  /\ offset' = 0 /\ ended' = FALSE
  /\ UNCHANGED completed

\* mutant of AfterDisconnection: the result is there before the drain has ended.
AfterDisconnectionTooSure == [at |-> IF safe THEN "disconnect" ELSE "closed", result |-> "ok"]

\* A drain is awaited only when the receiver has offered the safe disconnect.
AfterDisconnection ==
  IF safe THEN [at |-> "disconnect", result |-> "none"] ELSE [at |-> "closed", result |-> "ok"]

\* checkPeerControl finds nothing more: the next chunk, the next file, or the end.
CheckClear ==
  /\ at = "check"
  /\ \/ ~ended /\ at' = "send" /\ UNCHANGED <<fileVars, outbox, result>>
     \/ /\ ended /\ MoreFiles
        /\ at' = "open"
        /\ NextFile
        /\ UNCHANGED <<outbox, result>>
     \/ /\ AllSent
        /\ at' = AfterDisconnection.at
        /\ result' = AfterDisconnection.result
        /\ Send(<<[kind |-> "disconnection", ack |-> FALSE]>>)
        /\ UNCHANGED fileVars
     \/ /\ AllSent
        /\ Fail   \* the disconnection cannot be sent
  /\ UNCHANGED <<length, declared, control, safe, accepted>>

\* mutant of Unit: the file is opened again for every chunk.
UnitReopened(i, n) == [file |-> i, unit |-> 1]

\* The chunk read from file i at position n.
Unit(i, n) == [file |-> i, unit |-> n + 1]

\* One chunk, or the empty one that ends the file; sending may fail, and the
\* deadline of the whole transfer may have passed.
SendChunk ==
  /\ at = "send"
  /\ UNCHANGED control
  /\ \/ /\ offset < length[current]
        /\ at' = "check"
        /\ offset' = offset + 1
        /\ Send(<<FileChunk(current, offset, <<Unit(current, offset)>>, FALSE)>>)
        /\ UNCHANGED <<length, declared, current, ended, completed, safe, accepted, result>>
     \/ /\ offset >= length[current]
        /\ at' = "check"
        /\ ended' = TRUE
        /\ completed' = completed \cup {current}
        /\ Send(<<FileChunk(current, offset, <<>>, TRUE)>>)
        /\ UNCHANGED <<length, declared, current, offset, safe, accepted, result>>
     \/ Fail

\* A disconnection that acknowledges the request, or one without a body.
Drained(f) == f.kind = "bareDisconnection" \/ (f.kind = "disconnection" /\ f.ack)

\* waitForSafeDisconnect: only a frame that does not decrypt is a failure.
DisconnectFrame(f) ==
  /\ at = "disconnect"
  /\ UNCHANGED <<control, outbox>>
  /\ \/ f.kind = "garbage" /\ Return("failed")
     \/ Drained(f) /\ Return("ok")
     \/ /\ f.kind # "garbage" /\ ~Drained(f)
        /\ UNCHANGED <<at, length, declared, fileVars, safe, accepted, result>>

\* After 1.5 s, or at the end of the stream, the drain counts as done.
DisconnectWaited ==
  /\ at = "disconnect"
  /\ Return("ok")
  /\ UNCHANGED <<control, outbox>>

-----------------------------------------------------------------------------
Frame(f) ==
  \/ ServerInit(f) \/ ConnectionResponse(f)
  \/ PairedKey(f) \/ PairedResult(f) \/ IntroductionResponse(f)
  \/ CheckFrame(f)
  \/ DisconnectFrame(f)

\* mutant of NoAnswer: the wait for the receiver's user has no limit.
NoAnswerButConsent ==
  /\ at \in Waiting \ {"introductionResponse"}
  /\ Fail
  /\ UNCHANGED control

\* No answer in time, or the end of the stream, where an answer is awaited.
NoAnswer ==
  /\ at \in Waiting
  /\ Fail
  /\ UNCHANGED control

\* The stream has ended when checkPeerControl looks, or a send fails there.
ReceiverLeft ==
  /\ at = "check"
  /\ Fail
  /\ UNCHANGED control

\* Another program truncates or extends a selected file.
Resize ==
  /\ at # "closed"
  /\ \E i \in Files, n \in Lengths : length' = [length EXCEPT ![i] = n]
  /\ UNCHANGED <<at, declared, fileVars, control, safe, accepted, result, outbox>>

ThreadStep == Start \/ OpenFile \/ CheckClear \/ SendChunk \/ DisconnectWaited

-----------------------------------------------------------------------------
(* An arbitrary receiver. *)

ReceiverFrame ==
  /\ ~unreachable
  /\ Len(outbox) <= MaxUnread
  /\ \E f \in ReceiverFrames : Frame(f)
  /\ UNCHANGED unreachable

ReceiverTakes ==
  /\ ~unreachable
  /\ outbox # <<>>
  /\ outbox' = <<>>
  /\ UNCHANGED <<at, length, declared, fileVars, control, safe, accepted, result, unreachable>>

ReceiverVanishes ==
  /\ ~unreachable
  /\ unreachable' = TRUE
  /\ UNCHANGED senderVars

OwnStep == (ThreadStep \/ NoAnswer) /\ UNCHANGED unreachable

Next ==
  \/ ReceiverFrame \/ ReceiverTakes \/ ReceiverVanishes
  \/ OwnStep
  \/ ReceiverLeft /\ UNCHANGED unreachable
  \/ Resize /\ UNCHANGED unreachable

Spec == Init /\ [][Next]_vars

\* The thread runs and its waits are timed, so it owes its own steps; nothing is
\* owed by the receiver.
FairSpec == Spec /\ WF_vars(OwnStep)

-----------------------------------------------------------------------------
TypeOK ==
  /\ at \in {"start", "closed", "disconnect"} \cup Waiting \cup Streaming
  /\ length \in [Files -> Lengths] /\ declared \in [Files -> Lengths]
  /\ current \in Files /\ offset \in Nat /\ ended \in BOOLEAN
  /\ safe \in BOOLEAN /\ accepted \in BOOLEAN /\ unreachable \in BOOLEAN
  /\ completed \in SUBSET Files
  /\ result \in {"none", "ok", "failed"}
  /\ (at = "closed") <=> (result # "none")

\* A success is reported only for a receiver that accepted and to which every
\* selected file was sent to its end, whatever the receiver sends meanwhile.
SuccessMeansSent == result = "ok" => accepted /\ completed = Files

\* Bytes leave only for a receiver that accepted, and the files go one after the
\* other: whatever is complete precedes the file in hand.
SentInOrder ==
  /\ offset > 0 \/ completed # {} => accepted
  /\ completed = 1..(current - 1) \cup (IF ended THEN {current} ELSE {})

\* A transfer that has been started ends, even if the receiver disappears at any
\* point: otherwise sendActive would stay set and no other send could start.
SenderEnds == at # "start" ~> at = "closed"
=============================================================================
