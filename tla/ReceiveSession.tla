---------------------------- MODULE ReceiveSession ----------------------------
(***************************************************************************)
(* One incoming connection: the thread of QuickShareSession, from the      *)
(* first plaintext frame to the destructor.                                *)
(*                                                                         *)
(* A frame from the peer is a record.  Cryptography is abstract: an        *)
(* encrypted frame is what decryptOffline returns for it, or "garbage"     *)
(* when its HMAC or its sequence number does not verify.  Payload contents *)
(* are sequences of units; a sharing message is one unit that carries its  *)
(* kind, so reassembling a message is concatenating units.  An attachment  *)
(* is known by its payload id, which also stands for its path: within one  *)
(* session m_reservedPaths keeps the paths apart.                          *)
(*                                                                         *)
(* The peer of Next sends any frame of PeerFrames at any time.  The module *)
(* Transfer puts the BB10 sender in its place.                             *)
(***************************************************************************)
EXTENDS Integers, Sequences, FiniteSets, Sums

CONSTANTS
  Id,              \* payload ids
  PeerFrames,      \* the frames an arbitrary peer may send
  MaxBytePayload,  \* MAX_BYTE_PAYLOAD_SIZE, in units
  MaxBuffered,     \* MAX_BUFFERED_BYTES, in units
  MaxInt64,        \* the largest total of declared sizes
  MaxOutbox        \* bound of Next: frames the peer leaves unread

ASSUME LimitsAssumption ==
  /\ MaxBytePayload \in Nat /\ MaxBuffered \in Nat
  /\ MaxInt64 \in Nat /\ MaxOutbox \in Nat

\* One entry of an Introduction (FileMetadata or TextMetadata).
Metadata == [id : Id, size : Nat, text : BOOLEAN]

\* A unit of a payload: data of no form, or a whole sharing message.
PayloadUnit == [share : STRING, meta : Seq(Metadata)]

ASSUME FramesAssumption ==
  \A f \in PeerFrames :
    /\ f.kind \in {"bytes", "file"} => f.body \in Seq(PayloadUnit)
    /\ f.kind = "bytes" => f.id \in Id /\ f.total \in Nat /\ f.offset \in Nat

VARIABLES
  state,     \* m_state; the name of the awaited frame during PlainHandshake
  offered,   \* the keys of m_files
  text,      \* those whose bytePayload is set
  size,      \* IncomingFile.size, as the Introduction declared it; -1 undeclared
  received,  \* IncomingFile.received
  open,      \* those whose IncomingFile.file is not null
  onDisk,    \* the attachments whose path exists
  written,   \* what has been written to each path
  receivedBytes,  \* m_receivedBytes
  buffers,   \* m_byteBuffers; an absent key is an empty buffer
  buffered,  \* m_bufferedBytes
  events,    \* the attachments reported by appendEvent, in order
  progress,  \* the last progress call posted: TRUE set, FALSE clear
  asked,     \* history: "no", "asked", or "accepted" by the user
  silent,    \* the peer is out of reach and no end of stream will arrive
  verdict,   \* what run() returned: "none" while it runs
  outbox     \* frames sent to the peer and not read yet

fileVars == <<offered, text, size, received, open, onDisk, written, receivedBytes, events>>
bufferVars == <<buffers, buffered>>
sessionVars == <<state, fileVars, bufferVars, progress, asked, verdict, outbox>>
vars == <<sessionVars, silent>>

PlainStates == {"ConnectionRequest", "ClientInit", "ClientFinish", "ConnectionResponse"}
SecureStates == {"AwaitPairedEncryption", "AwaitPairedResult", "AwaitIntroduction",
                 "AwaitConsent", "Receiving"}

Init ==
  /\ state = "ConnectionRequest"
  /\ offered = {} /\ text = {} /\ open = {} /\ onDisk = {}
  /\ size = [i \in Id |-> -1]
  /\ received = [i \in Id |-> 0]
  /\ written = [i \in Id |-> <<>>]
  /\ receivedBytes = 0
  /\ buffers = [i \in Id |-> <<>>]
  /\ buffered = 0
  /\ events = <<>>
  /\ progress = FALSE
  /\ asked = "no"
  /\ silent = FALSE
  /\ verdict = "none"
  /\ outbox = <<>>

-----------------------------------------------------------------------------
(* Sending. *)

\* sendSharingFrame: the message in one chunk, then an empty last chunk.
SharingFrames(message) ==
  LET Chunk(from, last, body) ==
        [kind |-> "bytes", id |-> 0, total |-> 1, offset |-> from, last |-> last, body |-> body]
  IN <<Chunk(0, FALSE, <<message>>), Chunk(1, TRUE, <<>>)>>

Message(kind) == [share |-> kind, meta |-> <<>>]

Send(frames) == outbox' = outbox \o frames

-----------------------------------------------------------------------------
(* The end of run() and the destructor. *)

\* mutant of CloseFiles: the file is closed and its path kept.
CloseFilesKept ==
  /\ onDisk' = onDisk
  /\ offered' = {}
  /\ open' = {}
  /\ UNCHANGED <<text, size, received, written, receivedBytes, events>>

\* closeFiles: an entry whose file object exists loses its path.
CloseFiles ==
  /\ onDisk' = onDisk \ (offered \cap open)
  /\ offered' = {}
  /\ open' = {}
  /\ UNCHANGED <<text, size, received, written, receivedBytes, events>>

\* mutant of Return: the destructor leaves the progress of a transfer alone.
ReturnUncleared(result) ==
  /\ state' = "Closed"
  /\ verdict' = result
  /\ progress' = progress
  /\ CloseFiles
  /\ UNCHANGED asked

\* run() returns; ~QuickShareSession clears the progress of a transfer.
Return(result) ==
  /\ state' = "Closed"
  /\ verdict' = result
  /\ progress' = (progress /\ state # "Receiving")
  /\ CloseFiles
  /\ UNCHANGED asked

\* fail() posts the clear itself.
Fail ==
  /\ state' = "Closed"
  /\ verdict' = "failed"
  /\ progress' = FALSE
  /\ CloseFiles
  /\ UNCHANGED <<asked, outbox>>

-----------------------------------------------------------------------------
(* The plaintext handshake. *)

\* mutant of PlainReply: the receiver waits to be greeted on the secure channel.
PlainReplyBare(kind) ==
  CASE kind = "ClientInit" -> <<[kind |-> "ServerInit"]>>
    [] kind = "ConnectionResponse" -> <<[kind |-> "ConnectionResponse", safe |-> FALSE]>>
    [] OTHER -> <<>>

\* The last plaintext frame is answered in the clear, then the secure channel
\* opens with PairedKeyEncryption; this receiver offers no safe disconnect.
PlainReply(kind) ==
  CASE kind = "ClientInit" -> <<[kind |-> "ServerInit"]>>
    [] kind = "ConnectionResponse" ->
         <<[kind |-> "ConnectionResponse", safe |-> FALSE]>>
           \o SharingFrames(Message("PairedKeyEncryption"))
    [] OTHER -> <<>>

PlainNext(kind) ==
  CASE kind = "ConnectionRequest" -> "ClientInit"
    [] kind = "ClientInit" -> "ClientFinish"
    [] kind = "ClientFinish" -> "ConnectionResponse"
    [] OTHER -> "AwaitPairedEncryption"

PlainFrame(f) ==
  /\ state \in PlainStates
  /\ UNCHANGED bufferVars
  /\ \/ /\ f.kind = state
        /\ state' = PlainNext(state)
        /\ Send(PlainReply(state))
        /\ UNCHANGED <<fileVars, progress, asked, verdict>>
     \/ Fail   \* another frame, keys that cannot be derived, a send that fails

-----------------------------------------------------------------------------
(* Attachments. *)

\* The total of the sizes in a list of metadata.
DeclaredTotal(meta) == SumOver(DOMAIN meta, [n \in DOMAIN meta |-> meta[n].size])

\* What processIntroduction accepts: at least one item, no id twice, texts
\* within the byte payload limit, a total that fits.
ValidIntroduction(meta) ==
  /\ meta # <<>>
  /\ \A m, n \in 1..Len(meta) : meta[m].id = meta[n].id => m = n
  /\ \A m \in 1..Len(meta) : meta[m].text => meta[m].size <= MaxBytePayload
  /\ DeclaredTotal(meta) <= MaxInt64

ProcessIntroduction(meta) ==
  \/ /\ ValidIntroduction(meta)
     /\ LET Entry(i) == CHOOSE m \in 1..Len(meta) : meta[m].id = i IN
        /\ offered' = {meta[m].id : m \in 1..Len(meta)}
        /\ text' = {meta[m].id : m \in {n \in 1..Len(meta) : meta[n].text}}
        /\ size' = [i \in Id |-> IF i \in offered' THEN meta[Entry(i)].size ELSE -1]
     /\ state' = "AwaitConsent"
     /\ asked' = "asked"
     /\ UNCHANGED <<received, open, onDisk, written, receivedBytes, events,
                    progress, verdict, outbox>>
  \/ Fail   \* not valid, no room on disk, or another session is being asked

\* mutant of Fits: the file object is created by the first write.
FitsUnopened(id, offset, body) ==
  /\ id \in offered
  /\ offset = received[id]
  /\ received[id] + Len(body) <= size[id]

\* The chunk belongs to an open file, where the file ends, and does not run past
\* its size.
Fits(id, offset, body) ==
  /\ id \in offered
  /\ offset = received[id]
  /\ received[id] + Len(body) <= size[id]
  /\ id \in open

\* mutant of Finishes: the file is done with the last of its bytes.
FinishesFull(id, last, body) == received[id] + Len(body) = size[id]

\* The chunk that ends the file: the one so flagged.
Finishes(id, last, body) == last

\* mutant of Completes: the last chunk is taken as the end of the file.
CompletesAnyway(id, body) == TRUE

\* What the last chunk must achieve.
Completes(id, body) == received[id] + Len(body) = size[id]

\* mutant of WriteChunk: the transfer's counter follows the file's.
WriteChunkOneCounter(id, body) ==
  /\ written' = [written EXCEPT ![id] = @ \o body]
  /\ received' = [received EXCEPT ![id] = @ + Len(body)]
  /\ receivedBytes' = received[id] + Len(body)

WriteChunk(id, body) ==
  /\ written' = [written EXCEPT ![id] = @ \o body]
  /\ received' = [received EXCEPT ![id] = @ + Len(body)]
  /\ receivedBytes' = receivedBytes + Len(body)

\* processIncomingFile, and run() returning when no attachment is left.
IncomingFile(id, offset, last, body) ==
  \/ /\ Fits(id, offset, body)
     /\ Finishes(id, last, body) => Completes(id, body)
     /\ WriteChunk(id, body)
     /\ IF Finishes(id, last, body)
        THEN /\ events' = Append(events, id)
             /\ offered' = offered \ {id}
             /\ open' = open \ {id}
        ELSE UNCHANGED <<events, offered, open>>
     /\ IF offered' = {}
        THEN state' = "Closed" /\ verdict' = "ok" /\ progress' = FALSE
        ELSE UNCHANGED <<state, verdict>> /\ progress' = TRUE
     /\ UNCHANGED <<text, size, onDisk, asked, outbox>>
  \/ Fail   \* the chunk does not fit, the write fails, or the file is short

-----------------------------------------------------------------------------
(* Encrypted frames. *)

\* processSharingFrame on a complete byte payload.
SharingFrame(payload) ==
  LET kind == IF Len(payload) = 1 THEN payload[1].share ELSE "text"
      parses == kind # "text"
  IN
  \/ kind \in {"text", "Cancel"} /\ Fail   \* does not parse, or a cancel
  \/ /\ parses
     /\ state = "AwaitPairedEncryption" /\ kind = "PairedKeyEncryption"
     /\ \/ /\ state' = "AwaitPairedResult"
           /\ Send(SharingFrames(Message("PairedKeyResult")))
           /\ UNCHANGED <<fileVars, progress, asked, verdict>>
        \/ Return("failed") /\ UNCHANGED outbox
  \/ /\ parses
     /\ state = "AwaitPairedResult" /\ kind = "PairedKeyResult"
     /\ state' = "AwaitIntroduction"
     /\ UNCHANGED <<fileVars, progress, asked, verdict, outbox>>
  \/ /\ parses
     /\ state = "AwaitIntroduction" /\ kind = "Introduction"
     /\ ProcessIntroduction(payload[1].meta)
  \/ /\ parses /\ kind # "Cancel"
     /\ <<state, kind>> \notin {<<"AwaitPairedEncryption", "PairedKeyEncryption">>,
                                <<"AwaitPairedResult", "PairedKeyResult">>,
                                <<"AwaitIntroduction", "Introduction">>}
     /\ UNCHANGED <<state, fileVars, progress, asked, verdict, outbox>>

FilePayload(f) ==
  /\ f.kind = "file"
  /\ IF f.id \in offered /\ f.total = size[f.id]
     THEN IncomingFile(f.id, f.offset, f.last, f.body)
     ELSE Fail
  /\ UNCHANGED bufferVars

\* mutant of Release: a dropped payload keeps its share of the account.
ReleaseUncounted(id) ==
  /\ buffers' = [buffers EXCEPT ![id] = <<>>]
  /\ buffered' = buffered

\* mutant of Release: the chunk in hand is subtracted before it was added.
ReleaseEarly(id) ==
  /\ buffers' = [buffers EXCEPT ![id] = <<>>]
  /\ buffered' = buffered - Len(buffers[id]) - 1

\* Drop what is buffered for the id, with its share of the account.
Release(id) ==
  /\ buffers' = [buffers EXCEPT ![id] = <<>>]
  /\ buffered' = buffered - Len(buffers[id])

\* Byte payloads: reassembled in memory, then a text attachment or a message.
BytePayload(f) ==
  LET oversize == f.total > MaxBytePayload \/ f.offset > f.total
                  \/ Len(f.body) > f.total - f.offset
      room == buffered <= MaxBuffered - Len(f.body)
      payload == buffers[f.id] \o f.body
  IN
  /\ f.kind = "bytes"
  /\ \/ oversize /\ Fail /\ UNCHANGED bufferVars
     \/ /\ ~oversize
        /\ f.offset # Len(buffers[f.id]) \/ ~room
        /\ Fail /\ Release(f.id)
     \/ /\ ~oversize /\ f.offset = Len(buffers[f.id]) /\ room
        /\ ~f.last
        /\ buffers' = [buffers EXCEPT ![f.id] = payload]
        /\ buffered' = buffered + Len(f.body)
        /\ UNCHANGED <<state, fileVars, progress, asked, verdict, outbox>>
     \/ /\ ~oversize /\ f.offset = Len(buffers[f.id]) /\ room
        /\ f.last
        /\ Release(f.id)
        /\ IF Len(payload) # f.total THEN Fail
           ELSE IF state = "Receiving" /\ f.id \in offered \cap text
                THEN IncomingFile(f.id, 0, TRUE, payload)
                ELSE SharingFrame(payload)

\* processEncryptedFrame, whatever is not a payload transfer.
ControlFrame(f) ==
  /\ f.kind \notin {"file", "bytes"}
  /\ UNCHANGED bufferVars
  /\ \/ /\ f.kind = "keepAlive"
        /\ \/ /\ Send(<<[kind |-> "keepAlive"]>>)
              /\ UNCHANGED <<state, fileVars, progress, asked, verdict>>
           \/ Return("failed") /\ UNCHANGED outbox
     \/ /\ f.kind = "other"
        /\ UNCHANGED <<state, fileVars, progress, asked, verdict, outbox>>
     \/ f.kind \notin {"keepAlive", "other"} /\ Fail

SecureFrame(f) ==
  /\ state \in SecureStates
  /\ FilePayload(f) \/ BytePayload(f) \/ ControlFrame(f)

-----------------------------------------------------------------------------
(* The top of the run loop in AwaitConsent; Consent models the gate itself. *)

\* The answer is yes: every file is created, the peer told, the gate left.
ConsentAccepted ==
  /\ state = "AwaitConsent"
  /\ state' = "Receiving"
  /\ asked' = "accepted"
  /\ open' = offered
  /\ onDisk' = onDisk \cup offered
  /\ progress' = TRUE
  /\ Send(SharingFrames(Message("Accept")))
  /\ UNCHANGED <<offered, text, size, received, written, receivedBytes, events,
                 bufferVars, verdict>>

\* A file cannot be created (closeFiles removes those that were), or the ACCEPT
\* cannot be sent.
ConsentFails ==
  /\ state = "AwaitConsent"
  /\ Return("failed")
  /\ UNCHANGED <<bufferVars, outbox>>

\* The answer is no, or 60 s have passed; run() returns true all the same.
ConsentRejected ==
  /\ state = "AwaitConsent"
  /\ Return("ok")
  /\ \/ Send(SharingFrames(Message("Reject")))
     \/ UNCHANGED outbox
  /\ UNCHANGED bufferVars

-----------------------------------------------------------------------------
(* What ends the session without a frame. *)

\* readFrame gives up on a plaintext frame after 30 s, or finds the end.
HandshakeGivesUp ==
  /\ state \in PlainStates
  /\ Return("failed")
  /\ UNCHANGED <<bufferVars, outbox>>

\* mutant of StreamEnds: the end of a transfer's stream counts as its success.
StreamEndsWell ==
  /\ state \in SecureStates
  /\ Return(IF state = "Receiving" THEN "ok" ELSE "failed")
  /\ UNCHANGED <<bufferVars, outbox>>

\* End of stream or a read error once the channel is encrypted.
StreamEnds ==
  /\ state \in SecureStates
  /\ Return("failed")
  /\ UNCHANGED <<bufferVars, outbox>>

\* mutant of InactivityTimeout: the timer only counts before the first byte.
InactivityTimeoutEarly ==
  /\ state = "Receiving" /\ receivedBytes = 0
  /\ Fail
  /\ UNCHANGED bufferVars

\* Nothing for 60 s while receiving: the only inactivity timeout of the loop.
InactivityTimeout ==
  /\ state = "Receiving"
  /\ Fail
  /\ UNCHANGED bufferVars

-----------------------------------------------------------------------------
(* An arbitrary peer. *)

PeerFrame ==
  /\ ~silent
  /\ Len(outbox) <= MaxOutbox
  /\ \E f \in PeerFrames : PlainFrame(f) \/ SecureFrame(f)
  /\ UNCHANGED silent

PeerTakes ==
  /\ ~silent
  /\ outbox # <<>>
  /\ outbox' = <<>>
  /\ UNCHANGED <<state, fileVars, bufferVars, progress, asked, verdict, silent>>

PeerCloses ==
  /\ ~silent
  /\ HandshakeGivesUp \/ StreamEnds
  /\ UNCHANGED silent

\* The Wi-Fi drops: no more frames, and no end of stream either.
PeerVanishes ==
  /\ ~silent
  /\ silent' = TRUE
  /\ UNCHANGED sessionVars

\* What the thread does on its own clock.
OwnStep ==
  /\ ConsentAccepted \/ ConsentFails \/ ConsentRejected
     \/ HandshakeGivesUp \/ InactivityTimeout
  /\ UNCHANGED silent

Next == PeerFrame \/ PeerTakes \/ PeerCloses \/ PeerVanishes \/ OwnStep

Spec == Init /\ [][Next]_vars

\* The clock runs: whoever waits for a peer that is out of reach reaches its
\* timeout.  While the peer speaks nothing is owed, for frames restart the timer.
FairSpec == Spec /\ WF_vars(silent /\ OwnStep)

-----------------------------------------------------------------------------
(* Safety. *)

Reported == {events[n] : n \in 1..Len(events)}
Declared == {i \in Id : size[i] >= 0}

TypeOK ==
  /\ state \in PlainStates \cup SecureStates \cup {"Closed"}
  /\ offered \in SUBSET Id /\ text \in SUBSET Id
  /\ open \in SUBSET Id /\ onDisk \in SUBSET Id
  /\ size \in [Id -> -1..MaxInt64]
  /\ received \in [Id -> Nat]
  /\ receivedBytes \in Nat
  /\ buffered \in Nat
  /\ progress \in BOOLEAN /\ silent \in BOOLEAN
  /\ asked \in {"no", "asked", "accepted"}
  /\ verdict \in {"none", "ok", "failed"}
  /\ (state = "Closed") <=> (verdict # "none")

\* The account of buffered bytes is the memory really held, on every error path
\* too, and it stays within the limit; no single payload outgrows its own.
BufferAccount ==
  /\ buffered = SumOver(Id, [i \in Id |-> Len(buffers[i])])
  /\ buffered <= MaxBuffered
  /\ \A i \in Id : Len(buffers[i]) <= MaxBytePayload

\* An attachment enters the history once, and only when its path holds exactly
\* the bytes that were declared for it.
ReportedWhole ==
  /\ \A m, n \in 1..Len(events) : events[m] = events[n] => m = n
  /\ \A i \in Reported : i \in onDisk /\ Len(written[i]) = size[i]

\* A path that exists is a finished attachment or one being received: whatever
\* way the session ends, partial files are gone.
NoPartialFile ==
  /\ onDisk = Reported \cup open
  /\ state = "Closed" => open = {}

\* Before the user accepts, nothing of the attachments reaches the disk.
NothingBeforeConsent ==
  asked # "accepted" => onDisk = {} /\ \A i \in Id : written[i] = <<>>

\* Success after an acceptance means that all that was declared was delivered.
SuccessIsComplete ==
  verdict = "ok" /\ asked = "accepted" => Reported = Declared

\* The progress counter is the bytes on disk and cannot pass the declared total.
ReceivedAccount ==
  /\ receivedBytes = SumOver(Id, received)
  /\ \A i \in Id : received[i] = Len(written[i]) /\ (received[i] > 0 => received[i] <= size[i])

\* However it ends, the session leaves no progress bar behind.
NoStuckProgress == state = "Closed" => ~progress

-----------------------------------------------------------------------------
(* Liveness. *)

\* A peer that drops off the network during the handshake, the question or the
\* transfer does not keep the thread and its socket.
SilentPeerReleased ==
  (silent /\ state \in PlainStates \cup {"AwaitConsent", "Receiving"}) ~> state = "Closed"

\* What docs/plan.md claims without restriction ("timeout di inattivita'"): a
\* session whose peer is out of reach ends.  The states between the handshake and
\* the question have no timer.
InactiveSessionEnds == silent ~> state = "Closed"
=============================================================================
