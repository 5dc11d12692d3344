--------------------------- MODULE TransferProofs ---------------------------
(***************************************************************************)
(* What a transfer between two phones guarantees, for every number and     *)
(* every length of the files, and that it implements FileDelivery.         *)
(*                                                                         *)
(* A step of either thread is one of a few kinds (SenderKind,              *)
(* ReceiverKind), whatever handler takes it; the invariant is preserved by *)
(* each kind.  Its core is Leads: the frames on their way lead from the    *)
(* receiver's place in the files to the sender's.                          *)
(***************************************************************************)
EXTENDS Transfer, DataLemmas, SequenceTheorems, TLAPS

-----------------------------------------------------------------------------
(* What may be on its way. *)

Items(sizes) == [i \in 1..N |-> [id |-> i, size |-> sizes[i], text |-> FALSE]]

\* A message in its chunk, and the empty chunk that ends it.
AtMostOne(units) == {<<>>} \cup {<<u>> : u \in units}
Bytes(units) ==
  [kind : {"bytes"}, id : {0}, total : {1}, offset : {0, 1}, last : BOOLEAN,
   body : AtMostOne(units)]

\* What the sender says ...
Spoken ==
  {[share |-> k, meta |-> <<>>] : k \in {"PairedKeyEncryption", "PairedKeyResult"}}
    \cup {[share |-> "Introduction", meta |-> Items(sizes)] : sizes \in [1..N -> Lengths]}

Greetings ==
  [kind : {"ConnectionRequest", "ClientInit", "ClientFinish", "ConnectionResponse"}]
    \cup [kind : {"disconnection"}, ack : {FALSE}]
    \cup Bytes(Spoken)

\* ... and sends of its files, once it has read the ACCEPT.
FileFrames ==
  [kind : {"file"}, id : 1..N, total : Lengths, offset : Nat, last : BOOLEAN,
   body : Seq([file : 1..N, unit : Nat])]

Chunks ==
  {f \in FileFrames :
     /\ consented
     /\ f.total = declared[f.id]
     /\ f.last => f.body = <<>> /\ f.id \in completed
     /\ ~f.last => f.body = <<[file |-> f.id, unit |-> f.offset + 1]>>}

\* What the receiver says; ACCEPT is never said unless the user has accepted.
Yes == [share |-> "Accept", meta |-> <<>>]
Said ==
  {[share |-> k, meta |-> <<>>] : k \in {"PairedKeyEncryption", "PairedKeyResult", "Reject"}}
    \cup (IF asked = "accepted" THEN {Yes} ELSE {})

Replies ==
  [kind : {"ServerInit"}] \cup [kind : {"ConnectionResponse"}, safe : {FALSE}]
    \cup Bytes(Said)

-----------------------------------------------------------------------------
(* The invariant. *)

\* The sending thread.
SenderSide ==
  /\ length \in [1..N -> Lengths] /\ declared \in [1..N -> Lengths]
  /\ current \in 1..N /\ offset \in Nat
  /\ at = "start" => toReceiver = <<>> /\ asked = "no"
  /\ at \in {"start"} \cup Sender!Waiting =>
       ~consented /\ current = 1 /\ offset = 0 /\ ~ended
  /\ at \in {"open", "send"} => ~ended
  /\ at \in Sender!Streaming \cup {"disconnect"} => consented
  /\ result = "ok" => consented
  /\ at = "closed" <=> result # "none"

\* What has come back to it.
ReplySide ==
  /\ toSender \in Seq(Replies)
  /\ control \in [{0} -> AtMostOne(Said)]
  /\ consented => asked = "accepted"

PreConsent == Receiver!PlainStates \cup
              {"AwaitPairedEncryption", "AwaitPairedResult", "AwaitIntroduction"}

\* The receiving thread: how far it is, and what it has.
ReceiverSide ==
  /\ state \in PreConsent => asked = "no" /\ events = <<>> /\ offered = {} /\ open = {}
  /\ state = "AwaitConsent" => asked = "asked" /\ events = <<>> /\ offered = 1..N /\ open = {}
  /\ state = "Receiving" =>
       asked = "accepted" /\ offered = (Len(events) + 1)..N /\ open = offered /\ Len(events) < N
  /\ state \in PreConsent \cup {"AwaitConsent", "Receiving", "Closed"}
  /\ asked \in {"no", "asked", "accepted"}
  /\ buffers \in [0..N -> Seq(Spoken)]

\* The copies: whole ones for the files reported, in the order of the selection, and
\* a part of the next.
Copies ==
  /\ events \in Seq(1..N) /\ Len(events) <= N
  /\ received \in [0..N -> Nat]
  /\ \A n \in 1..Len(events) :
       /\ events[n] = n
       /\ n \in completed /\ consented
       /\ size[n] = declared[n] /\ received[n] = declared[n]
  /\ \A i \in 1..N : written[i] = [u \in 1..received[i] |-> [file |-> i, unit |-> u]]
  /\ DOMAIN written = 0..N
  /\ \A i \in 1..N : i > Len(events) + 1 => received[i] = 0

\* Where the two threads are in the list of files and in the file in hand.
SenderPlace == IF ended THEN <<current + 1, 0>> ELSE <<current, offset>>
ReceiverPlace == <<Len(events) + 1, received[Len(events) + 1]>>

Follows(f, p, q) ==
  IF f.kind = "file"
  THEN p = <<f.id, f.offset>> /\ q = IF f.last THEN <<f.id + 1, 0>> ELSE <<f.id, f.offset + 1>>
  ELSE q = p

\* The frames on their way lead from the one place to the other.
Leads(places) ==
  /\ places[0] = ReceiverPlace
  /\ at # "closed" => places[Len(toReceiver)] = SenderPlace
  /\ \A n \in 1..Len(toReceiver) : Follows(toReceiver[n], places[n - 1], places[n])

Stream ==
  /\ toReceiver \in Seq(Greetings \cup Chunks)
  /\ state # "Closed" => \E places : Leads(places)

TransferInv == SenderSide /\ ReplySide /\ ReceiverSide /\ Copies /\ Stream

-----------------------------------------------------------------------------
(* Frames and sequences. *)

LEMMA Count == N \in Nat /\ N >= 1 /\ 1 \in 1..N /\ Lengths \subseteq Nat
BY TransferAssumption

LEMMA BytesForm ==
  ASSUME NEW units, NEW f \in Bytes(units)
  PROVE  /\ f.kind = "bytes" /\ f.id = 0 /\ f.total = 1 /\ f.offset \in {0, 1}
         /\ f.last \in BOOLEAN
         /\ f.body \in AtMostOne(units)
BY DEF Bytes

LEMMA ReplyForm ==
  ASSUME NEW f \in Replies
  PROVE  /\ f.kind \in {"ServerInit", "ConnectionResponse", "bytes"}
         /\ f.kind = "bytes" => f \in Bytes(Said)
BY BytesForm DEF Replies

LEMMA StreamForm ==
  ASSUME NEW f \in Greetings \cup Chunks
  PROVE  /\ f.kind = "bytes" => f \in Bytes(Spoken)
         /\ f.kind = "file" => f \in Chunks
         /\ f.kind # "file" => f \in Greetings
<1>1. CASE f \in Chunks
  BY <1>1 DEF Chunks, FileFrames
<1>2. CASE f \in Greetings
  BY <1>2, BytesForm DEF Greetings
<1> QED
  BY <1>1, <1>2

\* One message is two frames.
LEMMA TwoBytes ==
  ASSUME NEW units, NEW u \in units
  PROVE  /\ Sender!SharingFrames(u) \in Seq(Bytes(units))
         /\ Receiver!SharingFrames(u) \in Seq(Bytes(units))
<1>1. [kind |-> "bytes", id |-> 0, total |-> 1, offset |-> 0, last |-> FALSE, body |-> <<u>>]
        \in Bytes(units)
  BY DEF Bytes, AtMostOne
<1>2. [kind |-> "bytes", id |-> 0, total |-> 1, offset |-> 1, last |-> TRUE, body |-> <<>>]
        \in Bytes(units)
  BY DEF Bytes, AtMostOne
<1> QED
  BY <1>1, <1>2 DEF Sender!SharingFrames, Receiver!SharingFrames

LEMMA JoinedForm ==
  ASSUME NEW units, NEW a \in AtMostOne(units), NEW b \in AtMostOne(units),
         Len(a) + Len(b) <= 1
  PROVE  a \o b \in AtMostOne(units)
<1>1. a \in Seq(units) /\ b \in Seq(units)
  <2>1. \A u \in units : <<u>> \in Seq(units)
    OBVIOUS
  <2> QED
    BY <2>1, EmptySeq DEF AtMostOne
<1>2. a = <<>> \/ b = <<>>
  <2>1. a # <<>> => Len(a) = 1
    BY DEF AtMostOne
  <2>2. b # <<>> => Len(b) = 1
    BY DEF AtMostOne
  <2> QED
    BY <2>1, <2>2
<1> QED
  BY <1>1, <1>2, ConcatEmptySeq

-----------------------------------------------------------------------------
(* What a step of the sending phone may do. *)

Says(frames) == toReceiver' = toReceiver \o frames
SaysMore == toReceiver' = toReceiver \/ \E frames \in Seq(Greetings) : Says(frames)

SamePlace == UNCHANGED <<current, offset, ended, completed>>

SenderTalks ==
  /\ at # "closed" /\ SaysMore /\ SamePlace
  /\ UNCHANGED <<declared, consented, result>>
  /\ \/ at' = at /\ (at = "start" => toReceiver' = toReceiver)
     \/ at \in Sender!Waiting /\ at' \in Sender!Waiting
     \/ at = "open" /\ at' \in {"send", "check"}
     \/ at = "check" /\ ((at' = "send" /\ ~ended) \/ at' = "disconnect")

SenderBegins ==
  /\ at = "start" /\ at' = "serverInit"
  /\ declared' = length
  /\ \E frames \in Seq(Greetings) : Says(frames)
  /\ SamePlace /\ UNCHANGED <<consented, result>>

SenderStops ==
  /\ at # "closed" /\ at' = "closed"
  /\ result' = "failed" \/ (result' = "ok" /\ at \in {"check", "disconnect"})
  /\ SaysMore /\ SamePlace
  /\ UNCHANGED <<declared, consented>>

SenderHears ==
  /\ at = "introductionResponse" /\ at' = "open"
  /\ asked = "accepted" /\ consented' = TRUE
  /\ SamePlace /\ UNCHANGED <<declared, result, toReceiver>>

SenderOnward ==
  /\ at = "check" /\ at' = "open"
  /\ ended /\ current < N
  /\ current' = current + 1 /\ offset' = 0 /\ ~ended'
  /\ UNCHANGED <<completed, declared, consented, result, toReceiver>>

SenderChunk ==
  /\ at = "send" /\ at' = "check"
  /\ UNCHANGED <<declared, current, consented, result>>
  /\ \/ /\ offset' = offset + 1
        /\ UNCHANGED <<ended, completed>>
        /\ Says(<<Sender!FileChunk(current, offset, <<Sender!Unit(current, offset)>>, FALSE)>>)
     \/ /\ ended' /\ completed' = completed \cup {current}
        /\ offset' = offset
        /\ Says(<<Sender!FileChunk(current, offset, <<>>, TRUE)>>)

SenderKinds ==
  \/ SenderTalks \/ SenderBegins \/ SenderStops \/ SenderHears
  \/ SenderOnward \/ SenderChunk

LEMMA SpokenKeys ==
  ASSUME NEW k \in {"PairedKeyEncryption", "PairedKeyResult"}
  PROVE  Sender!SharingFrames(Sender!Message(k, <<>>)) \in Seq(Greetings)
<1>1. Sender!Message(k, <<>>) \in Spoken
  BY DEF Sender!Message, Spoken
<1>2. Sender!SharingFrames(Sender!Message(k, <<>>)) \in Seq(Bytes(Spoken))
  BY <1>1, TwoBytes
<1>3. Bytes(Spoken) \subseteq Greetings
  BY DEF Greetings
<1> QED
  BY <1>2, <1>3, SeqMonotonic

LEMMA SpokenIntroduction ==
  ASSUME SenderSide PROVE Sender!SharingFrames(Sender!Introduction) \in Seq(Greetings)
<1>1. Sender!Introduction = [share |-> "Introduction", meta |-> Items(declared)]
  BY DEF Sender!Introduction, Sender!Message, Sender!Files, Items
<1>2. Sender!Introduction \in Spoken
  BY <1>1 DEF Spoken, SenderSide
<1>3. Sender!SharingFrames(Sender!Introduction) \in Seq(Bytes(Spoken))
  BY <1>2, TwoBytes
<1>4. Bytes(Spoken) \subseteq Greetings
  BY DEF Greetings
<1> QED
  BY <1>3, <1>4, SeqMonotonic

LEMMA SpokenPlain ==
  /\ <<[kind |-> "disconnection", ack |-> FALSE]>> \in Seq(Greetings)
  /\ <<[kind |-> "ConnectionRequest"], [kind |-> "ClientInit"]>> \in Seq(Greetings)
  /\ <<[kind |-> "ClientFinish"], [kind |-> "ConnectionResponse"]>> \in Seq(Greetings)
BY DEF Greetings

\* What has been put together of the receiver's messages is nothing or one of them.
LEMMA AssembledForm ==
  ASSUME ReplySide, NEW f \in Replies, Sender!Continues(f)
  PROVE  f.id = 0 /\ Sender!Assembled(f) \in AtMostOne(Said)
<1>1. f \in Bytes(Said)
  BY ReplyForm DEF Sender!Continues
<1>2. f.id = 0 /\ f.total = 1 /\ f.offset \in {0, 1} /\ f.body \in AtMostOne(Said)
  BY <1>1, BytesForm
<1>3. control[0] \in AtMostOne(Said)
  BY DEF ReplySide
<1>4. Len(control[0]) + Len(f.body) <= 1
  BY <1>2 DEF Sender!Continues
<1> QED
  BY <1>2, <1>3, <1>4, JoinedForm DEF Sender!Assembled

LEMMA AcceptForm ==
  ASSUME ReplySide, NEW f \in Replies, Sender!Delivers(f), Sender!Accepts(f)
  PROVE  asked = "accepted"
<1>1. Sender!Assembled(f) \in AtMostOne(Said)
  BY AssembledForm DEF Sender!Delivers
<1>2. PICK u \in Said : Sender!Assembled(f) = <<u>>
  BY <1>1, EmptySeq DEF AtMostOne, Sender!Accepts, Sender!Kind
<1>3. u.share = "Accept"
  BY <1>2 DEF Sender!Accepts, Sender!Kind
<1> QED
  BY <1>3 DEF Said

-----------------------------------------------------------------------------
(* Every step of the sending phone is one of these. *)

SenderData ==
  /\ length' \in [1..N -> Lengths]
  /\ control' \in [{0} -> AtMostOne(Said)]

LEMMA NothingSaid == toReceiver' = toReceiver => SaysMore
BY DEF SaysMore

LEMMA FailStops ==
  ASSUME at # "closed", Sender!Fail
  PROVE  SenderStops
BY NothingSaid DEF Sender!Fail, Sender!Return, Sender!fileVars, SenderStops, SamePlace

LEMMA KeepTalks ==
  ASSUME TransferInv, NEW f \in Replies, Sender!KeepWaiting(f),
         at \in Sender!Waiting \cup {"check"}
  PROVE  SenderTalks /\ SenderData
<1> USE DEF TransferInv
<1>1. SaysMore
  <2>1. f.kind # "keepAlive"
    BY ReplyForm
  <2> QED
    BY <2>1, NothingSaid DEF Sender!KeepWaiting
<1>2. SenderTalks
  BY <1>1 DEF Sender!KeepWaiting, Sender!fileVars, Sender!Waiting, SenderTalks, SamePlace
<1>3. SenderData
  <2>1. \/ control' = control
        \/ /\ control' = [control EXCEPT ![0] = Sender!Assembled(f)]
           /\ Sender!Assembled(f) \in AtMostOne(Said)
    BY AssembledForm DEF Sender!KeepWaiting
  <2>2. control \in [{0} -> AtMostOne(Said)]
    BY DEF ReplySide
  <2>3. length' = length
    BY DEF Sender!KeepWaiting
  <2> QED
    BY <2>1, <2>2, <2>3 DEF SenderData, SenderSide
<1> QED
  BY <1>2, <1>3

LEMMA BadStops ==
  ASSUME TransferInv, NEW f \in Replies, Sender!BadReply(f), at # "closed"
  PROVE  SenderStops /\ SenderData
<1>1. SenderStops
  BY FailStops DEF Sender!BadReply
<1>2. length' = length /\ control' = control
  BY DEF Sender!BadReply, Sender!Fail, Sender!Return
<1> QED
  BY <1>1, <1>2 DEF SenderData, TransferInv, SenderSide, ReplySide

LEMMA ForgetForm ==
  ASSUME TransferInv, NEW f \in Replies, Sender!Delivers(f), Sender!Forget(f), length' = length
  PROVE  SenderData
<1>1. f.id = 0
  BY AssembledForm DEF TransferInv, Sender!Delivers
<1>2. control' = [control EXCEPT ![0] = <<>>]
  BY <1>1 DEF Sender!Forget
<1>3. <<>> \in AtMostOne(Said)
  BY DEF AtMostOne
<1> QED
  BY <1>2, <1>3 DEF SenderData, TransferInv, SenderSide, ReplySide

LEMMA SenderWorksKind ==
  ASSUME TransferInv, SenderWorks
  PROVE  SenderKinds /\ SenderData
<1> USE DEF TransferInv
<1>1. CASE Sender!Start
  <2>1. CASE Sender!Fail
    BY <1>1, <2>1, FailStops DEF Sender!Start, SenderKinds, SenderData, SenderSide, ReplySide,
       Sender!Fail, Sender!Return
  <2>2. CASE ~Sender!Fail
    <3>1. \E frames \in Seq(Greetings) : Says(frames)
      BY <1>1, <2>2, SpokenPlain DEF Sender!Start, Sender!Send, Says
    <3> QED
      BY <1>1, <2>2, <3>1 DEF Sender!Start, Sender!fileVars, SenderKinds, SenderBegins,
         SamePlace, SenderData, SenderSide, ReplySide
  <2> QED
    BY <2>1, <2>2
<1>2. CASE Sender!OpenFile
  <2>1. CASE Sender!Fail
    BY <1>2, <2>1, FailStops DEF Sender!OpenFile, SenderKinds, SenderData, SenderSide, ReplySide,
       Sender!Fail, Sender!Return
  <2>2. CASE ~Sender!Fail
    BY <1>2, <2>2, NothingSaid DEF Sender!OpenFile, Sender!fileVars, SenderKinds, SenderTalks,
       SamePlace, SenderData, SenderSide, ReplySide
  <2> QED
    BY <2>1, <2>2
<1>3. CASE Sender!SendChunk
  <2>1. CASE Sender!Fail
    BY <1>3, <2>1, FailStops DEF Sender!SendChunk, SenderKinds, SenderData, SenderSide, ReplySide,
       Sender!Fail, Sender!Return
  <2>2. CASE ~Sender!Fail
    BY <1>3, <2>2 DEF Sender!SendChunk, Sender!Send, SenderKinds, SenderChunk, Says,
       SenderData, SenderSide, ReplySide
  <2> QED
    BY <2>1, <2>2
<1> QED
  BY <1>1, <1>2, <1>3 DEF SenderWorks

LEMMA SenderStreamsKind ==
  ASSUME TransferInv, SenderStreams
  PROVE  SenderKinds /\ SenderData
<1> USE DEF TransferInv
<1>1. at = "check" /\ length' = length /\ control' = control
      /\ declared' = declared /\ consented' = consented
  BY DEF SenderStreams, Sender!CheckClear
<1>2. SenderData
  BY <1>1 DEF SenderData, SenderSide, ReplySide
<1>3. CASE Sender!Fail
  BY <1>1, <1>2, <1>3, FailStops DEF SenderKinds
<1>4. CASE ~ended /\ at' = "send" /\ UNCHANGED <<Sender!fileVars, toReceiver, result>>
  BY <1>1, <1>2, <1>4, NothingSaid DEF Sender!fileVars, SenderKinds, SenderTalks, SamePlace
<1>5. CASE ended /\ Sender!MoreFiles /\ at' = "open" /\ Sender!NextFile
           /\ UNCHANGED <<toReceiver, result>>
  BY <1>1, <1>2, <1>5 DEF Sender!MoreFiles, Sender!NextFile, SenderKinds, SenderOnward
<1>6. CASE /\ at' = Sender!AfterDisconnection.at
           /\ result' = Sender!AfterDisconnection.result
           /\ Sender!Send(<<[kind |-> "disconnection", ack |-> FALSE]>>)
           /\ UNCHANGED Sender!fileVars
  <2>1. SaysMore
    BY <1>6, SpokenPlain DEF Sender!Send, SaysMore, Says
  <2>2. SamePlace
    BY <1>6 DEF Sender!fileVars, SamePlace
  <2>3. result = "none"
    BY <1>1 DEF SenderSide
  <2>4. \/ at' = "disconnect" /\ result' = "none"
        \/ at' = "closed" /\ result' = "ok"
    BY <1>6 DEF Sender!AfterDisconnection
  <2> QED
    BY <1>1, <1>2, <2>1, <2>2, <2>3, <2>4 DEF SenderKinds, SenderTalks, SenderStops
<1> QED
  BY <1>3, <1>4, <1>5, <1>6 DEF SenderStreams, Sender!CheckClear

LEMMA SenderEndsKind ==
  ASSUME TransferInv, SenderGivesUp \/ SenderSeesEnd
  PROVE  SenderKinds /\ SenderData
<1>1. at # "closed" /\ Sender!Fail /\ control' = control
  BY DEF SenderGivesUp, SenderSeesEnd, Sender!NoAnswer, Sender!ReceiverLeft, Sender!Waiting
<1>2. length' = length
  BY <1>1 DEF Sender!Fail, Sender!Return
<1> QED
  BY <1>1, <1>2, FailStops DEF SenderKinds, SenderData, TransferInv, SenderSide, ReplySide

LEMMA ResizedKind ==
  ASSUME TransferInv, FileResized
  PROVE  SenderKinds /\ SenderData
<1>1. SenderTalks
  BY NothingSaid DEF FileResized, Sender!Resize, Sender!fileVars, SenderTalks, SamePlace
<1>2. length' \in [1..N -> Lengths]
  BY DEF FileResized, Sender!Resize, Sender!Files, TransferInv, SenderSide
<1>3. control' = control
  BY DEF FileResized, Sender!Resize
<1> QED
  BY <1>1, <1>2, <1>3 DEF SenderKinds, SenderData, TransferInv, ReplySide

LEMMA SenderReadsKind ==
  ASSUME TransferInv, NEW f \in Replies, Sender!Frame(f)
  PROVE  SenderKinds /\ SenderData
<1> USE DEF TransferInv
<1>0. CASE Sender!Fail /\ control' = control /\ at # "closed"
  BY <1>0, FailStops DEF SenderKinds, SenderData, SenderSide, ReplySide,
     Sender!Fail, Sender!Return
<1>1. CASE Sender!ServerInit(f) /\ ~Sender!Fail
  <2>1. SaysMore
    BY <1>1, SpokenPlain DEF Sender!ServerInit, Sender!Send, SaysMore, Says
  <2> QED
    BY <1>1, <2>1 DEF Sender!ServerInit, Sender!fileVars, Sender!Waiting, SenderKinds,
       SenderTalks, SamePlace, SenderData, SenderSide, ReplySide
<1>2. CASE Sender!ConnectionResponse(f) /\ ~Sender!Fail
  <2>1. SaysMore
    BY <1>2, SpokenKeys DEF Sender!ConnectionResponse, Sender!Send, SaysMore, Says
  <2> QED
    BY <1>2, <2>1 DEF Sender!ConnectionResponse, Sender!fileVars, Sender!Waiting, SenderKinds,
       SenderTalks, SamePlace, SenderData, SenderSide, ReplySide
<1>3. CASE at \in Sender!Waiting \cup {"check"} /\ (Sender!KeepWaiting(f) \/ Sender!BadReply(f))
  BY <1>3, KeepTalks, BadStops DEF SenderKinds, Sender!Waiting
<1>4. CASE at # "closed" /\ Sender!Delivers(f) /\ Sender!Forget(f) /\ Sender!Fail
  <2>1. length' = length
    BY <1>4 DEF Sender!Fail, Sender!Return
  <2> QED
    BY <1>4, <2>1, FailStops, ForgetForm DEF SenderKinds
<1>5. CASE at = "pairedKey" /\ Sender!Delivers(f) /\ Sender!Forget(f) /\ at' = "pairedResult"
           /\ Sender!Send(Sender!SharingFrames(Sender!Message("PairedKeyResult", <<>>)))
           /\ UNCHANGED <<length, declared, Sender!fileVars, safe, consented, result>>
  <2>1. SaysMore
    BY <1>5, SpokenKeys DEF Sender!Send, SaysMore, Says
  <2> QED
    BY <1>5, <2>1, ForgetForm DEF Sender!fileVars, Sender!Waiting, SenderKinds,
       SenderTalks, SamePlace
<1>6. CASE at = "pairedResult" /\ Sender!Delivers(f) /\ Sender!Forget(f)
           /\ at' = "introductionResponse"
           /\ Sender!Send(Sender!SharingFrames(Sender!Introduction))
           /\ UNCHANGED <<length, declared, Sender!fileVars, safe, consented, result>>
  <2>1. SaysMore
    BY <1>6, SpokenIntroduction DEF Sender!Send, SaysMore, Says
  <2> QED
    BY <1>6, <2>1, ForgetForm DEF Sender!fileVars, Sender!Waiting, SenderKinds,
       SenderTalks, SamePlace
<1>7. CASE at = "introductionResponse" /\ Sender!Delivers(f) /\ Sender!Forget(f)
           /\ Sender!Accepts(f) /\ at' = "open" /\ consented' = TRUE
           /\ UNCHANGED <<length, declared, Sender!fileVars, safe, result, toReceiver>>
  BY <1>7, AcceptForm, ForgetForm DEF Sender!fileVars, SenderKinds, SenderHears, SamePlace
<1>8. CASE at = "check" /\ Sender!Delivers(f) /\ Sender!Forget(f)
           /\ UNCHANGED <<at, length, declared, Sender!fileVars, safe, consented, result,
                          toReceiver>>
  BY <1>8, NothingSaid, ForgetForm DEF Sender!fileVars, SenderKinds, SenderTalks, SamePlace
<1>9. CASE Sender!DisconnectFrame(f)
  <2>1. length' = length /\ control' = control /\ toReceiver' = toReceiver
    BY <1>9 DEF Sender!DisconnectFrame, Sender!Return
  <2>2. SenderStops \/ SenderTalks
    BY <1>9, NothingSaid DEF Sender!DisconnectFrame, Sender!Return, Sender!fileVars,
       SenderStops, SenderTalks, SamePlace
  <2> QED
    BY <2>1, <2>2 DEF SenderKinds, SenderData, SenderSide, ReplySide
<1> HIDE DEF TransferInv
<1>a. CASE Sender!ServerInit(f)
  BY <1>a, <1>0, <1>1 DEF Sender!ServerInit
<1>b. CASE Sender!ConnectionResponse(f)
  BY <1>b, <1>0, <1>2 DEF Sender!ConnectionResponse
<1>c. CASE Sender!PairedKey(f)
  BY <1>c, <1>3, <1>4, <1>5 DEF Sender!PairedKey, Sender!Waiting
<1>d. CASE Sender!PairedResult(f)
  BY <1>d, <1>3, <1>4, <1>6 DEF Sender!PairedResult, Sender!AfterIntroduction, Sender!Waiting
<1>e. CASE Sender!IntroductionResponse(f)
  BY <1>e, <1>3, <1>4, <1>7 DEF Sender!IntroductionResponse, Sender!Waiting
<1>f. CASE Sender!CheckFrame(f)
  BY <1>f, <1>3, <1>4, <1>8 DEF Sender!CheckFrame
<1> QED
  BY <1>a, <1>b, <1>c, <1>d, <1>e, <1>f, <1>9 DEF Sender!Frame

\* Every step of the sending phone.
LEMMA SenderKind ==
  ASSUME TransferInv, SenderNext
  PROVE  /\ SenderKinds /\ SenderData
         /\ UNCHANGED receiverVars
         /\ toSender' = toSender \/ (toSender # <<>> /\ toSender' = Tail(toSender))
<1>1. CASE SenderReads
  <2>1. Head(toSender) \in Replies
    BY <1>1, HeadTailProperties DEF SenderReads, TransferInv, ReplySide
  <2> QED
    BY <1>1, <2>1, SenderReadsKind DEF SenderReads
<1>2. CASE SenderStreams
  BY <1>2, SenderStreamsKind DEF SenderStreams
<1>3. CASE SenderWorks
  BY <1>3, SenderWorksKind DEF SenderWorks
<1>4. CASE SenderGivesUp \/ SenderSeesEnd
  BY <1>4, SenderEndsKind DEF SenderGivesUp, SenderSeesEnd
<1>5. CASE FileResized
  BY <1>5, ResizedKind DEF FileResized
<1> QED
  BY <1>1, <1>2, <1>3, <1>4, <1>5 DEF SenderNext

-----------------------------------------------------------------------------
(* What a step of the receiving phone may do. *)

Answers(frames) == toSender' = toSender \o frames
AnswersMore == toSender' = toSender \/ \E frames \in Seq(Replies) : Answers(frames)

CopiesStay == UNCHANGED <<size, received, written, events>>

ReceiverTalks ==
  /\ state # "Closed" /\ AnswersMore
  /\ CopiesStay /\ UNCHANGED <<offered, open, asked>>
  /\ state' = state \/ (state \in PreConsent /\ state' \in PreConsent)

ReceiverEnds ==
  /\ state # "Closed" /\ state' = "Closed"
  /\ AnswersMore
  /\ CopiesStay /\ UNCHANGED asked

ReceiverIntroduced ==
  /\ state = "AwaitIntroduction" /\ state' = "AwaitConsent"
  /\ asked' = "asked"
  /\ offered' = 1..N
  /\ UNCHANGED <<open, received, written, events, toSender>>

ReceiverGranted ==
  /\ state = "AwaitConsent" /\ state' = "Receiving"
  /\ asked' = "accepted"
  /\ open' = offered
  /\ \E frames \in Seq(Replies') : Answers(frames)
  /\ CopiesStay /\ UNCHANGED offered

ReceiverStored(f) ==
  /\ state # "Closed" /\ f.kind = "file"
  /\ f.total = size[f.id]
  /\ Receiver!Fits(f.id, f.offset, f.body)
  /\ f.last => Receiver!Completes(f.id, f.body)
  /\ Receiver!WriteChunk(f.id, f.body)
  /\ IF f.last
     THEN events' = Append(events, f.id) /\ offered' = offered \ {f.id} /\ open' = open \ {f.id}
     ELSE UNCHANGED <<events, offered, open>>
  /\ state' = IF offered' = {} THEN "Closed" ELSE state
  /\ UNCHANGED <<size, asked, toSender>>

\* What becomes of a frame.
Handled(f) ==
  \/ f.kind # "file" /\ ReceiverTalks
  \/ f.kind # "file" /\ ReceiverIntroduced
  \/ ReceiverEnds
  \/ ReceiverStored(f)

LEMMA SaidFrames ==
  ASSUME NEW k \in {"PairedKeyEncryption", "PairedKeyResult", "Reject"}
  PROVE  Receiver!SharingFrames(Receiver!Message(k)) \in Seq(Replies)
<1>1. Receiver!Message(k) \in Said
  BY DEF Receiver!Message, Said
<1>2. Receiver!SharingFrames(Receiver!Message(k)) \in Seq(Bytes(Said))
  BY <1>1, TwoBytes
<1>3. Bytes(Said) \subseteq Replies
  BY DEF Replies
<1> QED
  BY <1>2, <1>3, SeqMonotonic

LEMMA PlainReplyForm ==
  ASSUME NEW k \in Receiver!PlainStates
  PROVE  Receiver!PlainReply(k) \in Seq(Replies)
<1>1. CASE k = "ClientInit"
  <2>1. [kind |-> "ServerInit"] \in Replies
    BY DEF Replies
  <2> QED
    BY <1>1, <2>1 DEF Receiver!PlainReply
<1>2. CASE k = "ConnectionResponse"
  <2>1. [kind |-> "ConnectionResponse", safe |-> FALSE] \in Replies
    BY DEF Replies
  <2>2. <<[kind |-> "ConnectionResponse", safe |-> FALSE]>> \in Seq(Replies)
    BY <2>1
  <2> QED
    BY <1>2, <2>2, SaidFrames, ConcatProperties DEF Receiver!PlainReply
<1>3. CASE k \in {"ConnectionRequest", "ClientFinish"}
  BY <1>3, EmptySeq DEF Receiver!PlainReply
<1> QED
  BY <1>1, <1>2, <1>3 DEF Receiver!PlainStates

LEMMA NothingAnswered == toSender' = toSender => AnswersMore
BY DEF AnswersMore

LEMMA FailEnds ==
  ASSUME state # "Closed", Receiver!Fail
  PROVE  ReceiverEnds
BY NothingAnswered DEF Receiver!Fail, Receiver!CloseFiles, ReceiverEnds, CopiesStay

LEMMA ReturnEnds ==
  ASSUME state # "Closed", NEW v, Receiver!Return(v), AnswersMore
  PROVE  ReceiverEnds
BY DEF Receiver!Return, Receiver!CloseFiles, ReceiverEnds, CopiesStay

LEMMA PlainHandled ==
  ASSUME TransferInv, NEW f, Receiver!PlainFrame(f)
  PROVE  Handled(f) /\ buffers' \in [0..N -> Seq(Spoken)]
<1>1. state # "Closed" /\ state \in PreConsent
  BY DEF Receiver!PlainFrame, Receiver!PlainStates, PreConsent
<1>2. buffers' \in [0..N -> Seq(Spoken)]
  BY DEF Receiver!PlainFrame, Receiver!bufferVars, TransferInv, ReceiverSide
<1>3. CASE Receiver!Fail
  BY <1>1, <1>2, <1>3, FailEnds DEF Handled
<1>4. CASE ~Receiver!Fail
  <2>1. AnswersMore
    BY <1>4, PlainReplyForm DEF Receiver!PlainFrame, Receiver!Send, AnswersMore, Answers
  <2>2. f.kind # "file"
    BY <1>4 DEF Receiver!PlainFrame, Receiver!PlainStates
  <2>3. state' \in PreConsent
    BY <1>4 DEF Receiver!PlainFrame, Receiver!PlainNext, Receiver!PlainStates, PreConsent
  <2>4. CopiesStay /\ UNCHANGED <<offered, open, asked>>
    BY <1>4 DEF Receiver!PlainFrame, Receiver!fileVars, CopiesStay
  <2> QED
    BY <1>1, <1>2, <2>1, <2>2, <2>3, <2>4 DEF Handled, ReceiverTalks
<1> QED
  BY <1>3, <1>4

LEMMA ControlHandled ==
  ASSUME TransferInv, state # "Closed", NEW f \in Greetings \cup Chunks, Receiver!ControlFrame(f)
  PROVE  Handled(f) /\ buffers' \in [0..N -> Seq(Spoken)] /\ toSender' = toSender
<1>1. f.kind # "file" /\ f.kind # "keepAlive" /\ buffers' = buffers
  BY StreamForm, BytesForm DEF Receiver!ControlFrame, Receiver!bufferVars, Greetings
<1>2. buffers' \in [0..N -> Seq(Spoken)]
  BY <1>1 DEF TransferInv, ReceiverSide
<1>3. CASE Receiver!Fail
  BY <1>2, <1>3, FailEnds DEF Handled, Receiver!Fail
<1>4. CASE UNCHANGED <<state, Receiver!fileVars, asked, toSender>>
  BY <1>1, <1>2, <1>4, NothingAnswered DEF Receiver!fileVars, Handled, ReceiverTalks, CopiesStay
<1> QED
  BY <1>1, <1>3, <1>4 DEF Receiver!ControlFrame

LEMMA FileHandled ==
  ASSUME TransferInv, state # "Closed", NEW f, Receiver!FilePayload(f)
  PROVE  Handled(f) /\ buffers' \in [0..N -> Seq(Spoken)]
<1>1. f.kind = "file"
  BY DEF Receiver!FilePayload
<1>2. buffers' \in [0..N -> Seq(Spoken)]
  BY DEF Receiver!FilePayload, Receiver!bufferVars, TransferInv, ReceiverSide
<1>3. CASE Receiver!Fail
  BY <1>2, <1>3, FailEnds DEF Handled
<1>4. CASE ~Receiver!Fail
  <2>1. f.total = size[f.id] /\ Receiver!IncomingFile(f.id, f.offset, f.last, f.body)
    BY <1>4 DEF Receiver!FilePayload
  <2>2. ReceiverStored(f)
    BY <1>1, <1>4, <2>1 DEF Receiver!IncomingFile, Receiver!Finishes, ReceiverStored
  <2> QED
    BY <1>2, <2>2 DEF Handled
<1> QED
  BY <1>3, <1>4

\* The Introduction names the files by their numbers.
LEMMA IntroductionForm ==
  ASSUME NEW u \in Spoken, u.share = "Introduction"
  PROVE  {u.meta[m].id : m \in 1..Len(u.meta)} = 1..N
<1>1. PICK sizes \in [1..N -> Lengths] : u.meta = Items(sizes)
  BY DEF Spoken
<1>2. Len(Items(sizes)) = N
  BY Count DEF Items
<1>3. \A m \in 1..N : Items(sizes)[m].id = m
  BY DEF Items
<1> QED
  BY <1>1, <1>2, <1>3

LEMMA SharingHandled ==
  ASSUME TransferInv, state \in Receiver!SecureStates, NEW f, f.kind = "bytes",
         NEW payload \in Seq(Spoken), Receiver!SharingFrame(payload)
  PROVE  Handled(f)
<1> DEFINE kind == IF Len(payload) = 1 THEN payload[1].share ELSE "text"
<1>1. state # "Closed"
  BY DEF Receiver!SecureStates
<1>2. CASE Receiver!Fail
  BY <1>1, <1>2, FailEnds DEF Handled
<1>3. CASE Receiver!Return("failed") /\ UNCHANGED toSender
  BY <1>1, <1>3, ReturnEnds, NothingAnswered DEF Handled
<1>4. CASE state = "AwaitPairedEncryption" /\ state' = "AwaitPairedResult"
           /\ Receiver!Send(Receiver!SharingFrames(Receiver!Message("PairedKeyResult")))
           /\ UNCHANGED <<Receiver!fileVars, asked>>
  <2>1. AnswersMore
    BY <1>4, SaidFrames DEF Receiver!Send, AnswersMore, Answers
  <2> QED
    BY <1>4, <2>1 DEF Receiver!fileVars, Handled, ReceiverTalks, CopiesStay, PreConsent
<1>5. CASE state = "AwaitPairedResult" /\ state' = "AwaitIntroduction"
           /\ UNCHANGED <<Receiver!fileVars, asked, toSender>>
  BY <1>5, NothingAnswered DEF Receiver!fileVars, Handled, ReceiverTalks, CopiesStay, PreConsent
<1>6. CASE state = "AwaitIntroduction" /\ kind = "Introduction"
           /\ Receiver!ProcessIntroduction(payload[1].meta)
  <2>1. CASE Receiver!Fail
    BY <1>2, <2>1
  <2>2. CASE ~Receiver!Fail
    <3>1. Len(payload) = 1 /\ payload[1] \in Spoken /\ payload[1].share = "Introduction"
      BY <1>6, ElementOfSeq
    <3>2. offered' = {payload[1].meta[m].id : m \in 1..Len(payload[1].meta)}
      BY <1>6, <2>2 DEF Receiver!ProcessIntroduction
    <3>3. offered' = 1..N
      BY <3>1, <3>2, IntroductionForm
    <3> QED
      BY <1>6, <2>2, <3>3 DEF Receiver!ProcessIntroduction, Handled, ReceiverIntroduced
  <2> QED
    BY <2>1, <2>2
<1>7. CASE UNCHANGED <<state, Receiver!fileVars, asked, toSender>>
  BY <1>1, <1>7, NothingAnswered DEF Receiver!fileVars, Handled, ReceiverTalks, CopiesStay
<1> QED
  BY <1>2, <1>3, <1>4, <1>5, <1>6, <1>7 DEF Receiver!SharingFrame

LEMMA BytesHandled ==
  ASSUME TransferInv, state \in Receiver!SecureStates, NEW f \in Bytes(Spoken),
         Receiver!BytePayload(f)
  PROVE  Handled(f) /\ buffers' \in [0..N -> Seq(Spoken)]
<1> DEFINE payload == buffers[f.id] \o f.body
<1>1. f.kind = "bytes" /\ f.id = 0 /\ f.body \in AtMostOne(Spoken)
  BY BytesForm
<1>2. buffers \in [0..N -> Seq(Spoken)] /\ 0 \in 0..N
  BY Count DEF TransferInv, ReceiverSide
<1>3. payload \in Seq(Spoken)
  <2>1. \A u \in Spoken : <<u>> \in Seq(Spoken)
    OBVIOUS
  <2>2. f.body \in Seq(Spoken)
    BY <1>1, <2>1, EmptySeq DEF AtMostOne
  <2>3. buffers[f.id] \in Seq(Spoken)
    BY <1>1, <1>2
  <2> QED
    BY <2>2, <2>3, ConcatProperties
<1>4. buffers' \in [0..N -> Seq(Spoken)]
  <2>1. \/ buffers' = buffers
        \/ buffers' = [buffers EXCEPT ![0] = <<>>]
        \/ buffers' = [buffers EXCEPT ![0] = payload]
    BY <1>1 DEF Receiver!BytePayload, Receiver!Release, Receiver!bufferVars
  <2> QED
    BY <1>2, <1>3, <2>1, EmptySeq
<1>5. state # "Closed"
  BY DEF Receiver!SecureStates
<1>6. CASE Receiver!Fail
  BY <1>4, <1>5, <1>6, FailEnds DEF Handled
<1>7. CASE UNCHANGED <<state, Receiver!fileVars, asked, toSender>>
  BY <1>1, <1>4, <1>5, <1>7, NothingAnswered
  DEF Receiver!fileVars, Handled, ReceiverTalks, CopiesStay
<1>8. CASE Receiver!SharingFrame(payload)
  BY <1>1, <1>3, <1>4, <1>8, SharingHandled
<1>9. ~(state = "Receiving" /\ f.id \in offered \cap text)
  <2>1. state = "Receiving" => offered = (Len(events) + 1)..N /\ Len(events) \in Nat
    BY LenProperties DEF TransferInv, ReceiverSide, Copies
  <2> QED
    BY <1>1, <2>1, Count
<1> HIDE DEF payload
<1> QED
  <2> USE DEF payload
  <2> QED
    BY <1>6, <1>7, <1>8, <1>9 DEF Receiver!BytePayload

LEMMA FrameHandled ==
  ASSUME TransferInv, NEW f \in Greetings \cup Chunks,
         Receiver!PlainFrame(f) \/ Receiver!SecureFrame(f)
  PROVE  Handled(f) /\ buffers' \in [0..N -> Seq(Spoken)]
<1>1. CASE Receiver!PlainFrame(f)
  BY <1>1, PlainHandled
<1>2. CASE Receiver!SecureFrame(f)
  <2>1. state # "Closed" /\ state \in Receiver!SecureStates
    BY <1>2 DEF Receiver!SecureFrame, Receiver!SecureStates
  <2>2. CASE Receiver!FilePayload(f)
    BY <2>1, <2>2, FileHandled
  <2>3. CASE Receiver!BytePayload(f)
    BY <2>1, <2>3, BytesHandled, StreamForm DEF Receiver!BytePayload
  <2>4. CASE Receiver!ControlFrame(f)
    BY <2>1, <2>4, ControlHandled
  <2> QED
    BY <1>2, <2>2, <2>3, <2>4 DEF Receiver!SecureFrame
<1> QED
  BY <1>1, <1>2

LEMMA AnsweredKind ==
  ASSUME TransferInv, ReceiverAnswers
  PROVE  (ReceiverGranted \/ ReceiverEnds) /\ buffers' = buffers
<1>1. buffers' = buffers /\ state # "Closed"
  BY DEF ReceiverAnswers, Receiver!ConsentAccepted, Receiver!ConsentFails,
     Receiver!ConsentRejected, Receiver!bufferVars
<1>2. CASE Receiver!ConsentAccepted
  <2>1. Receiver!Message("Accept") \in Said'
    BY <1>2 DEF Receiver!ConsentAccepted, Receiver!Message, Said, Yes
  <2>2. Receiver!SharingFrames(Receiver!Message("Accept")) \in Seq(Bytes(Said'))
    BY <2>1, TwoBytes
  <2>3. Bytes(Said') \subseteq Replies'
    BY DEF Replies, Bytes
  <2>4. Receiver!SharingFrames(Receiver!Message("Accept")) \in Seq(Replies')
    BY <2>2, <2>3, SeqMonotonic
  <2> QED
    BY <1>1, <1>2, <2>4 DEF Receiver!ConsentAccepted, Receiver!Send, ReceiverGranted, Answers,
       CopiesStay
<1>3. CASE Receiver!ConsentFails
  BY <1>1, <1>3, ReturnEnds, NothingAnswered DEF Receiver!ConsentFails
<1>4. CASE Receiver!ConsentRejected
  <2>1. AnswersMore
    BY <1>4, SaidFrames DEF Receiver!ConsentRejected, Receiver!Send, AnswersMore, Answers
  <2> QED
    BY <1>1, <1>4, <2>1, ReturnEnds DEF Receiver!ConsentRejected
<1> QED
  BY <1>1, <1>2, <1>3, <1>4 DEF ReceiverAnswers

LEMMA QuietEndKind ==
  ASSUME ReceiverTimesOut \/ ReceiverSeesEnd
  PROVE  ReceiverEnds /\ buffers' = buffers
<1>1. buffers' = buffers /\ state # "Closed"
  BY DEF ReceiverTimesOut, ReceiverSeesEnd, Receiver!HandshakeGivesUp,
     Receiver!InactivityTimeout, Receiver!StreamEnds, Receiver!bufferVars,
     Receiver!PlainStates, Receiver!SecureStates
<1>2. CASE Receiver!Fail
  BY <1>1, <1>2, FailEnds
<1>3. CASE Receiver!Return("failed") /\ toSender' = toSender
  BY <1>1, <1>3, ReturnEnds, NothingAnswered
<1> QED
  BY <1>1, <1>2, <1>3 DEF ReceiverTimesOut, ReceiverSeesEnd, Receiver!HandshakeGivesUp,
     Receiver!InactivityTimeout, Receiver!StreamEnds

\* Every step of the receiving phone.
LEMMA ReceiverKind ==
  ASSUME TransferInv, ReceiverNext
  PROVE  /\ UNCHANGED senderVars
         /\ buffers' \in [0..N -> Seq(Spoken)]
         /\ \/ /\ toReceiver # <<>> /\ toReceiver' = Tail(toReceiver)
               /\ Handled(Head(toReceiver))
            \/ toReceiver' = toReceiver /\ (ReceiverGranted \/ ReceiverEnds)
<1>1. CASE ReceiverReads
  <2>1. Head(toReceiver) \in Greetings \cup Chunks
    BY <1>1, HeadTailProperties DEF ReceiverReads, TransferInv, Stream
  <2> QED
    BY <1>1, <2>1, FrameHandled DEF ReceiverReads
<1>2. CASE ReceiverAnswers
  BY <1>2, AnsweredKind DEF ReceiverAnswers, TransferInv, ReceiverSide
<1>3. CASE ReceiverTimesOut \/ ReceiverSeesEnd
  BY <1>3, QuietEndKind DEF ReceiverTimesOut, ReceiverSeesEnd, TransferInv, ReceiverSide
<1> QED
  BY <1>1, <1>2, <1>3 DEF ReceiverNext

-----------------------------------------------------------------------------
(* A step of the sending phone preserves the invariant. *)

LEMMA SentForm ==
  ASSUME TransferInv
  PROVE  /\ toReceiver \in Seq(Greetings \cup Chunks) /\ Len(toReceiver) \in Nat
         /\ toSender \in Seq(Replies)
         /\ events \in Seq(1..N) /\ Len(events) \in Nat
BY LenProperties DEF TransferInv, Stream, ReplySide, Copies

LEMMA GreetingKind ==
  ASSUME NEW f \in Greetings PROVE f.kind # "file"
BY BytesForm DEF Greetings

\* What the sending thread never takes back.
SenderForward ==
  /\ completed \subseteq completed'
  /\ consented => consented' /\ declared' = declared

LEMMA SenderGoesForward ==
  ASSUME TransferInv, SenderKinds PROVE SenderForward
BY DEF TransferInv, SenderSide, Sender!Waiting, SenderKinds, SenderTalks, SenderBegins,
   SenderStops, SenderHears, SenderOnward, SenderChunk, SamePlace, SenderForward

LEMMA ChunksGrow ==
  ASSUME SenderForward PROVE Chunks \subseteq Chunks'
BY DEF SenderForward, Chunks

LEMMA SenderSideKept ==
  ASSUME TransferInv, SenderKinds, SenderData, UNCHANGED receiverVars
  PROVE  SenderSide'
<1> USE DEF SenderSide, Sender!Waiting, Sender!Streaming
<1>0. SenderSide /\ asked' = asked
  BY DEF TransferInv, receiverVars
<1>1. CASE SenderTalks
  BY <1>0, <1>1 DEF SenderTalks, SamePlace, SenderData
<1>2. CASE SenderBegins
  BY <1>0, <1>2 DEF SenderBegins, SamePlace, SenderData
<1>3. CASE SenderStops
  BY <1>0, <1>3 DEF SenderStops, SamePlace, SenderData
<1>4. CASE SenderHears
  BY <1>0, <1>4 DEF SenderHears, SamePlace, SenderData
<1>5. CASE SenderOnward
  <2>1. current' \in 1..N
    BY <1>0, <1>5, Count DEF SenderOnward
  <2> QED
    BY <1>0, <1>5, <2>1 DEF SenderOnward, SenderData
<1>6. CASE SenderChunk
  <2>1. offset' \in Nat
    BY <1>0, <1>6 DEF SenderChunk
  <2> QED
    BY <1>0, <1>6, <2>1 DEF SenderChunk, SenderData
<1> QED
  BY <1>1, <1>2, <1>3, <1>4, <1>5, <1>6 DEF SenderKinds

LEMMA CopiesSeen ==
  ASSUME TransferInv, SenderForward, UNCHANGED receiverVars
  PROVE  Copies'
<1>1. Copies /\ UNCHANGED <<events, received, size, written>>
  BY DEF TransferInv, receiverVars
<1>2. \A n \in 1..Len(events) : n \in completed' /\ consented' /\ declared'[n] = declared[n]
  BY <1>1 DEF Copies, SenderForward
<1> QED
  BY <1>1, <1>2 DEF Copies

\* Frames that start where the sender is and end where it is then make the stream
\* longer.
LEMMA StreamLonger ==
  ASSUME TransferInv, UNCHANGED <<state, events, received>>, at # "closed",
         Chunks \subseteq Chunks',
         NEW frames \in Seq(Greetings \cup Chunks'), Says(frames),
         \A m \in 1..Len(frames) :
           Follows(frames[m], IF m = 1 THEN SenderPlace ELSE SenderPlace', SenderPlace'),
         frames = <<>> => SenderPlace' = SenderPlace
  PROVE  Stream'
<1> DEFINE old == toReceiver
<1>1. old \in Seq(Greetings \cup Chunks') /\ Len(old) \in Nat /\ Len(frames) \in Nat
  BY SentForm, SeqMonotonic, LenProperties
<1>2. /\ toReceiver' \in Seq(Greetings \cup Chunks')
      /\ Len(toReceiver') = Len(old) + Len(frames)
      /\ \A n \in 1..Len(old) + Len(frames) :
           toReceiver'[n] = IF n <= Len(old) THEN old[n] ELSE frames[n - Len(old)]
  BY <1>1, ConcatProperties DEF Says
<1>3. ASSUME state # "Closed" PROVE \E places : Leads(places)'
  <2>1. PICK places : Leads(places)
    BY <1>3 DEF TransferInv, Stream
  <2> DEFINE longer == [n \in 0..(Len(old) + Len(frames)) |->
                          IF n <= Len(old) THEN places[n] ELSE SenderPlace']
  <2>2. longer[0] = ReceiverPlace'
    BY <1>1, <2>1 DEF Leads, ReceiverPlace
  <2>3. longer[Len(old) + Len(frames)] = SenderPlace'
    <3>1. CASE frames = <<>>
      <4>1. Len(frames) = 0
        BY <3>1
      <4>2. places[Len(old)] = SenderPlace
        BY <2>1 DEF Leads
      <4> QED
        BY <1>1, <3>1, <4>1, <4>2
    <3>2. CASE frames # <<>>
      <4>1. Len(frames) > 0
        BY <1>1, <3>2, EmptySeq
      <4> QED
        BY <1>1, <4>1
    <3> QED
      BY <3>1, <3>2
  <2>4. ASSUME NEW n \in 1..(Len(old) + Len(frames))
        PROVE  Follows(toReceiver'[n], longer[n - 1], longer[n])
    <3>1. CASE n <= Len(old)
      <4>1. n \in 1..Len(old) /\ toReceiver'[n] = old[n]
        BY <1>1, <1>2, <3>1
      <4>2. longer[n - 1] = places[n - 1] /\ longer[n] = places[n]
        BY <1>1, <3>1
      <4>3. Follows(old[n], places[n - 1], places[n])
        BY <2>1, <4>1 DEF Leads
      <4> QED
        BY <4>1, <4>2, <4>3
    <3>2. CASE n > Len(old)
      <4> DEFINE k == n - Len(old)
      <4>1. k \in 1..Len(frames) /\ toReceiver'[n] = frames[k]
        BY <1>1, <1>2, <3>2
      <4>2. longer[n] = SenderPlace'
        BY <1>1, <3>2
      <4>3. longer[n - 1] = IF k = 1 THEN SenderPlace ELSE SenderPlace'
        <5>1. CASE k = 1
          <6>1. n - 1 = Len(old)
            BY <1>1, <5>1
          <6>2. longer[Len(old)] = places[Len(old)]
            BY <1>1
          <6> QED
            BY <2>1, <5>1, <6>1, <6>2 DEF Leads
        <5>2. CASE k # 1
          <6>1. n - 1 > Len(old) /\ n - 1 \in 0..(Len(old) + Len(frames))
            BY <1>1, <3>2, <5>2
          <6> QED
            BY <1>1, <5>2, <6>1
        <5> QED
          BY <5>1, <5>2
      <4> HIDE DEF k, longer
      <4> QED
        BY <4>1, <4>2, <4>3
    <3> QED
      BY <1>1, <3>1, <3>2
  <2> HIDE DEF longer
  <2>5. \A n \in 1..Len(toReceiver') : Follows(toReceiver'[n], longer[n - 1], longer[n])
    BY <1>2, <2>4
  <2>6. longer[Len(toReceiver')] = SenderPlace'
    BY <1>2, <2>3
  <2> QED
    BY <2>2, <2>5, <2>6 DEF Leads, Follows
<1>4. state' # "Closed" => \E places : Leads(places)'
  BY <1>3
<1>5. (Greetings \cup Chunks)' = Greetings \cup Chunks'
  BY DEF Greetings, Bytes, Spoken, Items
<1> QED
  BY <1>2, <1>4, <1>5 DEF Stream

\* What is said leaves the place as it is.
LEMMA StreamTalked ==
  ASSUME TransferInv, UNCHANGED receiverVars, at # "closed", SenderForward,
         SaysMore, SenderPlace' = SenderPlace
  PROVE  Stream'
<1>1. PICK frames \in Seq(Greetings) : Says(frames)
  <2>1. toReceiver \o <<>> = toReceiver /\ <<>> \in Seq(Greetings)
    BY SentForm, ConcatEmptySeq, EmptySeq
  <2> QED
    BY <2>1 DEF SaysMore, Says
<1>2. frames \in Seq(Greetings \cup Chunks')
  BY SeqMonotonic
<1>3. \A m \in 1..Len(frames) : frames[m].kind # "file"
  BY ElementOfSeq, GreetingKind
<1>4. \A m \in 1..Len(frames) :
        Follows(frames[m], IF m = 1 THEN SenderPlace ELSE SenderPlace', SenderPlace')
  BY <1>3 DEF Follows
<1>5. UNCHANGED <<state, events, received>>
  BY DEF receiverVars
<1> QED
  BY <1>1, <1>2, <1>4, <1>5, ChunksGrow, StreamLonger

LEMMA StreamOneLonger ==
  ASSUME TransferInv, UNCHANGED <<state, events, received>>, at # "closed", SenderForward,
         NEW f \in Chunks', Says(<<f>>), Follows(f, SenderPlace, SenderPlace')
  PROVE  Stream'
<1> DEFINE frames == <<f>>
<1>1. /\ frames \in Seq(Greetings \cup Chunks') /\ frames # <<>>
      /\ Len(frames) = 1 /\ frames[1] = f
  OBVIOUS
<1>2. Says(frames)
  OBVIOUS
<1> HIDE DEF frames
<1>3. \A m \in 1..Len(frames) :
        Follows(frames[m], IF m = 1 THEN SenderPlace ELSE SenderPlace', SenderPlace')
  <2> SUFFICES ASSUME NEW m \in 1..Len(frames)
               PROVE  Follows(frames[m], IF m = 1 THEN SenderPlace ELSE SenderPlace',
                              SenderPlace')
    OBVIOUS
  <2>1. m = 1
    BY <1>1
  <2> QED
    BY <1>1, <2>1
<1> QED
  BY <1>1, <1>2, <1>3, ChunksGrow, StreamLonger

LEMMA StreamChunked ==
  ASSUME TransferInv, UNCHANGED receiverVars, SenderForward, SenderChunk
  PROVE  Stream'
<1>1. /\ at # "closed" /\ consented' /\ ~ended /\ current \in 1..N /\ offset \in Nat
      /\ declared[current] \in Lengths /\ declared' = declared /\ current' = current
  BY DEF TransferInv, SenderSide, SenderChunk, Sender!Streaming
<1>2. UNCHANGED <<state, events, received>>
  BY DEF receiverVars
<1>3. CASE /\ offset' = offset + 1 /\ UNCHANGED <<ended, completed>>
           /\ Says(<<Sender!FileChunk(current, offset, <<Sender!Unit(current, offset)>>, FALSE)>>)
  <2> DEFINE f == Sender!FileChunk(current, offset, <<Sender!Unit(current, offset)>>, FALSE)
  <2>1. /\ f.kind = "file" /\ f.id = current /\ f.offset = offset /\ ~f.last
        /\ f.total = declared[current]
        /\ f.body = <<[file |-> current, unit |-> offset + 1]>>
    BY DEF Sender!FileChunk, Sender!Unit
  <2>2. f \in FileFrames
    <3>1. [file |-> current, unit |-> offset + 1] \in [file : 1..N, unit : Nat]
      BY <1>1
    <3>2. <<[file |-> current, unit |-> offset + 1]>> \in Seq([file : 1..N, unit : Nat])
      BY <3>1
    <3> QED
      BY <1>1, <3>2 DEF Sender!FileChunk, Sender!Unit, FileFrames
  <2>3. f \in Chunks'
    BY <1>1, <2>1, <2>2 DEF Chunks
  <2>4. SenderPlace = <<current, offset>> /\ SenderPlace' = <<current, offset + 1>>
    BY <1>1, <1>3 DEF SenderPlace
  <2>5. Follows(f, SenderPlace, SenderPlace')
    BY <2>1, <2>4 DEF Follows
  <2> HIDE DEF f
  <2>6. Says(<<f>>)
    BY <1>3 DEF f
  <2> QED
    BY <1>1, <1>2, <2>3, <2>5, <2>6, StreamOneLonger
<1>4. CASE /\ ended' /\ completed' = completed \cup {current} /\ offset' = offset
           /\ Says(<<Sender!FileChunk(current, offset, <<>>, TRUE)>>)
  <2> DEFINE f == Sender!FileChunk(current, offset, <<>>, TRUE)
  <2>1. /\ f.kind = "file" /\ f.id = current /\ f.offset = offset /\ f.last
        /\ f.total = declared[current] /\ f.body = <<>>
    BY DEF Sender!FileChunk
  <2>2. f \in FileFrames
    BY <1>1, EmptySeq DEF Sender!FileChunk, FileFrames
  <2>3. f \in Chunks'
    BY <1>1, <1>4, <2>1, <2>2 DEF Chunks
  <2>4. SenderPlace = <<current, offset>> /\ SenderPlace' = <<current + 1, 0>>
    BY <1>1, <1>4 DEF SenderPlace
  <2>5. Follows(f, SenderPlace, SenderPlace')
    BY <2>1, <2>4 DEF Follows
  <2> HIDE DEF f
  <2>6. Says(<<f>>)
    BY <1>4 DEF f
  <2> QED
    BY <1>1, <1>2, <2>3, <2>5, <2>6, StreamOneLonger
<1> QED
  BY <1>3, <1>4 DEF SenderChunk

LEMMA SenderPreserves ==
  ASSUME TransferInv, SenderNext PROVE TransferInv'
<1>1. /\ SenderKinds /\ SenderData /\ UNCHANGED receiverVars
      /\ toSender' = toSender \/ (toSender # <<>> /\ toSender' = Tail(toSender))
  BY SenderKind
<1>2. SenderForward
  BY <1>1, SenderGoesForward
<1>3. SenderSide'
  BY <1>1, SenderSideKept
<1>4. ReplySide'
  <2>1. asked' = asked
    BY <1>1 DEF receiverVars
  <2>2. Said' = Said /\ Replies' = Replies
    BY <2>1 DEF Said, Yes, Replies, Bytes
  <2>3. toSender' \in Seq(Replies)
    BY <1>1, SentForm, HeadTailProperties
  <2>4. consented' => asked' = "accepted"
    BY <1>1, <2>1 DEF TransferInv, ReplySide, SenderKinds, SenderTalks, SenderBegins, SenderStops,
       SenderHears, SenderOnward, SenderChunk
  <2> QED
    BY <1>1, <2>2, <2>3, <2>4 DEF SenderData, ReplySide
<1>5. ReceiverSide'
  BY <1>1 DEF receiverVars, TransferInv, ReceiverSide
<1>6. Copies'
  BY <1>1, <1>2, CopiesSeen
<1>7. Stream'
  <2>1. CASE SenderTalks
    BY <1>1, <1>2, <2>1, StreamTalked DEF SenderTalks, SamePlace, SenderPlace
  <2>2. CASE SenderBegins
    <3>1. SaysMore
      BY <2>2 DEF SenderBegins, SaysMore
    <3> QED
      BY <1>1, <1>2, <2>2, <3>1, StreamTalked DEF SenderBegins, SamePlace, SenderPlace
  <2>3. CASE SenderStops
    BY <1>1, <1>2, <2>3, StreamTalked DEF SenderStops, SamePlace, SenderPlace
  <2>4. CASE SenderHears
    BY <1>1, <1>2, <2>4, StreamTalked, NothingSaid DEF SenderHears, SamePlace, SenderPlace
  <2>5. CASE SenderOnward
    BY <1>1, <1>2, <2>5, StreamTalked, NothingSaid DEF SenderOnward, SenderPlace
  <2>6. CASE SenderChunk
    BY <1>1, <1>2, <2>6, StreamChunked
  <2> QED
    BY <1>1, <2>1, <2>2, <2>3, <2>4, <2>5, <2>6 DEF SenderKinds
<1> QED
  BY <1>3, <1>4, <1>5, <1>6, <1>7 DEF TransferInv

-----------------------------------------------------------------------------
(* A step of the receiving phone preserves the invariant. *)

\* The copy of a file, as far as unit n.
Part(i, n) == [u \in 1..n |-> [file |-> i, unit |-> u]]

LEMMA PartForm ==
  ASSUME NEW i, NEW n \in Nat
  PROVE  /\ Part(i, n) \o <<>> = Part(i, n)
         /\ Part(i, n) \o <<[file |-> i, unit |-> n + 1]>> = Part(i, n + 1)
<1> DEFINE S == [file : {i}, unit : Nat]
           u == [file |-> i, unit |-> n + 1]
<1>1. /\ Part(i, n) \in Seq(S) /\ Len(Part(i, n)) = n
      /\ Part(i, n + 1) \in Seq(S) /\ Len(Part(i, n + 1)) = n + 1
  BY DEF Part
<1>2. u \in S /\ <<u>> \in Seq(S) /\ Len(<<u>>) = 1 /\ <<u>>[1] = u
  OBVIOUS
<1>3. Part(i, n) \o <<>> = Part(i, n)
  BY <1>1, ConcatEmptySeq
<1>4. /\ Part(i, n) \o <<u>> \in Seq(S) /\ Len(Part(i, n) \o <<u>>) = n + 1
      /\ \A m \in 1..n + 1 :
           (Part(i, n) \o <<u>>)[m] = IF m <= n THEN Part(i, n)[m] ELSE <<u>>[m - n]
  <2> HIDE DEF u, S
  <2> QED
    BY <1>1, <1>2, ConcatProperties
<1>5. ASSUME NEW m \in 1..n + 1 PROVE (Part(i, n) \o <<u>>)[m] = Part(i, n + 1)[m]
  <2>1. CASE m <= n
    BY <1>4, <2>1 DEF Part
  <2>2. CASE m = n + 1
    <3>1. (Part(i, n) \o <<u>>)[m] = u
      BY <1>2, <1>4, <2>2
    <3> QED
      BY <2>2, <3>1 DEF Part
  <2>3. m <= n \/ m = n + 1
    OBVIOUS
  <2> HIDE DEF u, S
  <2> QED
    BY <2>1, <2>2, <2>3
<1>6. Part(i, n) \o <<u>> = Part(i, n + 1)
  <2> HIDE DEF u, S
  <2> QED
    BY <1>1, <1>4, <1>5, SeqEqual
<1> QED
  BY <1>3, <1>6

\* A chunk that is stored continues the first file that is not whole.
LEMMA StoredForm ==
  ASSUME TransferInv, toReceiver # <<>>, NEW f, f = Head(toReceiver), ReceiverStored(f)
  PROVE  /\ f \in Chunks
         /\ state = "Receiving" /\ offered = (Len(events) + 1)..N /\ open = offered
         /\ f.id = Len(events) + 1 /\ f.id \in 1..N
         /\ f.offset = received[f.id]
<1>1. f \in Chunks
  <2>1. Head(toReceiver) \in Greetings \cup Chunks
    BY SentForm, HeadTailProperties
  <2> QED
    BY <2>1, StreamForm DEF ReceiverStored
<1>2. state = "Receiving" /\ f.id \in offered
  BY DEF TransferInv, ReceiverSide, ReceiverStored, Receiver!Fits
<1>3. offered = (Len(events) + 1)..N /\ open = offered
  BY <1>2 DEF TransferInv, ReceiverSide
<1>4. PICK places : Leads(places)
  BY <1>2 DEF TransferInv, Stream
<1>5. Follows(toReceiver[1], places[0], places[1])
  <2>1. 1 \in 1..Len(toReceiver)
    BY SentForm, EmptySeq
  <2> QED
    BY <1>4, <2>1 DEF Leads
<1>6. toReceiver[1] = f
  BY SentForm
<1>7. <<f.id, f.offset>> = <<Len(events) + 1, received[Len(events) + 1]>>
  BY <1>4, <1>5, <1>6 DEF Leads, ReceiverPlace, Follows, ReceiverStored
<1>8. f.id \in 1..N
  BY <1>1 DEF Chunks, FileFrames
<1> QED
  BY <1>1, <1>2, <1>3, <1>7, <1>8

LEMMA CopiesStored ==
  ASSUME TransferInv, UNCHANGED senderVars,
         toReceiver # <<>>, NEW f, f = Head(toReceiver), ReceiverStored(f)
  PROVE  Copies'
<1> DEFINE i == f.id
<1>1. /\ f \in Chunks /\ i = Len(events) + 1 /\ i \in 1..N /\ f.offset = received[i]
      /\ f.total = size[i] /\ consented
  BY StoredForm DEF ReceiverStored, Chunks
<1>2. Copies /\ declared' = declared /\ completed' = completed /\ consented' = consented
      /\ size' = size
  BY DEF TransferInv, senderVars, ReceiverStored
<1>3. /\ events \in Seq(1..N) /\ Len(events) \in Nat /\ received[i] \in Nat
      /\ written[i] = Part(i, received[i])
      /\ N \in Nat
  <2>1. received \in [0..N -> Nat] /\ N \in Nat
    BY <1>2, Count DEF Copies
  <2>2. \A j \in 1..N : written[j] = Part(j, received[j])
    BY <1>2 DEF Copies, Part
  <2>3. received[i] \in Nat
    <3> HIDE DEF i
    <3> QED
      BY <1>1, <2>1
  <2> QED
    BY <1>1, <2>1, <2>2, <2>3, SentForm
<1>4. /\ written' = [written EXCEPT ![i] = @ \o f.body]
      /\ received' = [received EXCEPT ![i] = @ + Len(f.body)]
  BY DEF ReceiverStored, Receiver!WriteChunk
<1>5. i \in 0..N /\ DOMAIN written = 0..N /\ received \in [0..N -> Nat]
  BY <1>1, <1>2, <1>3 DEF Copies
<1>6. CASE f.last
  <2>1. f.body = <<>> /\ i \in completed /\ size[i] = declared[i]
    BY <1>1, <1>6 DEF Chunks
  <2>2. received[i] + Len(f.body) = size[i]
    BY <1>6 DEF ReceiverStored, Receiver!Completes
  <2>3. received[i] = declared[i]
    <3>1. Len(f.body) = 0
      BY <2>1
    <3> QED
      BY <1>3, <2>1, <2>2, <3>1
  <2>4. received' = received
    <3>1. Len(f.body) = 0
      BY <2>1
    <3> QED
      BY <1>3, <1>4, <1>5, <3>1
  <2>5. \A j \in 1..N : written'[j] = written[j]
    <3>1. written[i] \o <<>> = written[i]
      BY <1>3, PartForm
    <3>2. written' = [written EXCEPT ![i] = written[i]]
      BY <1>4, <2>1, <3>1
    <3> HIDE DEF i
    <3> QED
      BY <1>5, <3>2
  <2>6. DOMAIN written' = 0..N
    BY <1>4, <1>5
  <2>7. /\ events' \in Seq(1..N) /\ Len(events') = i
        /\ \A n \in 1..Len(events) : events'[n] = events[n]
        /\ events'[i] = i
    <3>1. events' = Append(events, i)
      BY <1>6 DEF ReceiverStored
    <3> HIDE DEF i
    <3> QED
      BY <1>1, <1>3, <3>1, AppendProperties
  <2>8. \A n \in 1..Len(events') :
          /\ events'[n] = n
          /\ n \in completed /\ consented
          /\ size[n] = declared[n] /\ received[n] = declared[n]
    <3> HIDE DEF i
    <3> TAKE n \in 1..Len(events')
    <3>1. CASE n \in 1..Len(events)
      BY <1>2, <2>7, <3>1 DEF Copies
    <3>2. CASE n = i
      BY <1>1, <2>1, <2>3, <2>7, <3>2
    <3>3. n \in 1..Len(events) \/ n = i
      BY <1>1, <1>3, <2>7
    <3> QED
      BY <3>1, <3>2, <3>3
  <2>9. \A j \in 1..N : j > Len(events') + 1 => received'[j] = 0
    <3> HIDE DEF i
    <3> QED
      BY <1>1, <1>2, <1>3, <2>4, <2>7 DEF Copies
  <2>10. \A j \in 1..N : written'[j] = [u \in 1..received'[j] |-> [file |-> j, unit |-> u]]
    BY <1>2, <2>4, <2>5 DEF Copies
  <2>11. Len(events') <= N
    <3> HIDE DEF i
    <3> QED
      BY <1>1, <1>3, <2>7
  <2> HIDE DEF i
  <2> QED
    BY <1>2, <1>5, <2>4, <2>6, <2>7, <2>8, <2>9, <2>10, <2>11 DEF Copies
<1>7. CASE ~f.last
  <2>1. f.body = <<[file |-> i, unit |-> received[i] + 1]>> /\ Len(f.body) = 1
    BY <1>1, <1>7 DEF Chunks
  <2>2. events' = events
    BY <1>7 DEF ReceiverStored
  <2> HIDE DEF i
  <2>3. received' = [received EXCEPT ![i] = @ + 1]
    BY <1>4, <2>1
  <2>4. received' \in [0..N -> Nat] /\ received'[i] = received[i] + 1
    BY <1>3, <1>5, <2>3
  <2>5. written'[i] = Part(i, received[i] + 1) /\ DOMAIN written' = 0..N
    <3>1. written'[i] = written[i] \o <<[file |-> i, unit |-> received[i] + 1]>>
      BY <1>4, <1>5, <2>1
    <3> QED
      BY <1>3, <1>4, <1>5, <3>1, PartForm
  <2>6. \A j \in 1..N : j # i => written'[j] = written[j] /\ received'[j] = received[j]
    BY <1>4, <1>5, <2>3
  <2>7. \A j \in 1..N : written'[j] = [u \in 1..received'[j] |-> [file |-> j, unit |-> u]]
    <3>1. \A j \in 1..N : written[j] = Part(j, received[j])
      BY <1>2 DEF Copies, Part
    <3>2. \A j \in 1..N : written'[j] = Part(j, received'[j])
      BY <2>4, <2>5, <2>6, <3>1
    <3> QED
      BY <3>2 DEF Part
  <2>8. \A n \in 1..Len(events) : n \in 1..N /\ n # i
    BY <1>1, <1>3
  <2>9. \A j \in 1..N : j > Len(events') + 1 => received'[j] = 0
    <3>1. \A j \in 1..N : j > Len(events) + 1 => j # i
      BY <1>1, <1>3
    <3> QED
      BY <1>2, <2>2, <2>6, <3>1 DEF Copies
  <2>10. \A n \in 1..Len(events') :
           /\ events'[n] = n
           /\ n \in completed /\ consented
           /\ size[n] = declared[n] /\ received'[n] = declared[n]
    BY <1>2, <2>2, <2>6, <2>8 DEF Copies
  <2>11. events' \in Seq(1..N) /\ Len(events') <= N
    BY <1>2, <2>2 DEF Copies
  <2> QED
    BY <1>2, <2>4, <2>5, <2>7, <2>9, <2>10, <2>11 DEF Copies
<1> QED
  BY <1>6, <1>7

LEMMA StoredSide ==
  ASSUME TransferInv, toReceiver # <<>>, NEW f, f = Head(toReceiver), ReceiverStored(f),
         buffers' \in [0..N -> Seq(Spoken)]
  PROVE  /\ ReceiverSide'
         /\ state' # "Closed" =>
              ReceiverPlace' = IF f.last THEN <<f.id + 1, 0>> ELSE <<f.id, f.offset + 1>>
<1>1. /\ f \in Chunks
      /\ state = "Receiving" /\ offered = (Len(events) + 1)..N /\ open = offered
      /\ f.id = Len(events) + 1 /\ f.id \in 1..N /\ f.offset = received[f.id]
  BY StoredForm
<1>2. asked' = asked /\ asked = "accepted" /\ state' = IF offered' = {} THEN "Closed" ELSE state
  BY <1>1 DEF ReceiverStored, TransferInv, ReceiverSide
<1>3. /\ events \in Seq(1..N) /\ Len(events) \in Nat /\ N \in Nat
      /\ received \in [0..N -> Nat]
      /\ \A j \in 1..N : j > Len(events) + 1 => received[j] = 0
  BY SentForm, Count DEF TransferInv, Copies
<1>4. received' = [received EXCEPT ![f.id] = @ + Len(f.body)]
  BY DEF ReceiverStored, Receiver!WriteChunk
<1>5. CASE f.last
  <2>1. /\ events' = Append(events, f.id)
        /\ offered' = offered \ {f.id} /\ open' = open \ {f.id}
    BY <1>5 DEF ReceiverStored
  <2>2. Len(events') = Len(events) + 1
    BY <1>1, <1>3, <2>1, AppendProperties
  <2>3. offered' = (Len(events') + 1)..N /\ open' = offered'
    <3>1. \A k, n \in Nat : (k..n) \ {k} = (k + 1)..n
      OBVIOUS
    <3>2. offered' = ((Len(events) + 1)..N) \ {Len(events) + 1} /\ open' = offered'
      BY <1>1, <2>1
    <3> QED
      BY <1>3, <2>2, <3>1, <3>2
  <2>4. state' # "Closed" => Len(events') < N
    <3>1. state' # "Closed" => offered' # {}
      BY <1>2
    <3>2. Len(events') \in Nat
      BY <1>3, <2>2
    <3> QED
      BY <1>3, <2>3, <3>1, <3>2
  <2>5. ReceiverSide'
    BY <1>1, <1>2, <2>3, <2>4
    DEF ReceiverSide, PreConsent, Receiver!PlainStates
  <2>6. ASSUME state' # "Closed" PROVE ReceiverPlace' = <<f.id + 1, 0>>
    <3>1. f.id + 1 \in 1..N /\ f.id + 1 > Len(events) + 1 /\ f.id + 1 # f.id
      BY <1>1, <1>3, <2>2, <2>4, <2>6
    <3>2. received'[f.id + 1] = 0
      BY <1>3, <1>4, <3>1
    <3> QED
      BY <1>1, <2>2, <3>2 DEF ReceiverPlace
  <2> QED
    BY <1>5, <2>5, <2>6
<1>6. CASE ~f.last
  <2>1. UNCHANGED <<events, offered, open>>
    BY <1>6 DEF ReceiverStored
  <2>2. offered # {}
    BY <1>1, <1>3
  <2>3. ReceiverSide'
    BY <1>1, <1>2, <2>1, <2>2
    DEF TransferInv, ReceiverSide, PreConsent, Receiver!PlainStates
  <2>4. Len(f.body) = 1
    BY <1>1, <1>6 DEF Chunks
  <2>5. received'[f.id] = received[f.id] + 1
    <3>1. received' = [received EXCEPT ![f.id] = @ + 1]
      BY <1>4, <2>4
    <3>2. f.id \in 0..N
      BY <1>1, <1>3
    <3> QED
      BY <1>3, <3>1, <3>2
  <2>6. ReceiverPlace' = <<f.id, f.offset + 1>>
    BY <1>1, <2>1, <2>5 DEF ReceiverPlace
  <2> QED
    BY <1>6, <2>3, <2>6
<1> QED
  BY <1>5, <1>6

\* The stream without its first frame.
LEMMA StreamShorter ==
  ASSUME TransferInv, UNCHANGED senderVars,
         toReceiver # <<>>, toReceiver' = Tail(toReceiver),
         state' # "Closed" => state # "Closed",
         \A q : Follows(Head(toReceiver), ReceiverPlace, q) /\ state' # "Closed"
                  => q = ReceiverPlace'
  PROVE  Stream'
<1> DEFINE old == toReceiver
<1>1. /\ old \in Seq(Greetings \cup Chunks) /\ Len(old) \in Nat /\ Len(old) >= 1
      /\ old[1] = Head(old)
  BY SentForm, EmptySeq
<1>2. /\ toReceiver' \in Seq(Greetings \cup Chunks)
      /\ Len(toReceiver') = Len(old) - 1
      /\ \A n \in 1..Len(toReceiver') : toReceiver'[n] = old[n + 1]
  BY SentForm, HeadTailProperties
<1>3. (Greetings \cup Chunks)' = Greetings \cup Chunks
  BY DEF senderVars, Greetings, Bytes, Spoken, Items, Chunks, FileFrames
<1>4. UNCHANGED <<at, SenderPlace>>
  BY DEF senderVars, SenderPlace
<1>5. ASSUME state' # "Closed" PROVE \E places : Leads(places)'
  <2>1. PICK places : Leads(places)
    BY <1>5 DEF TransferInv, Stream
  <2> DEFINE rest == [n \in 0..(Len(old) - 1) |-> places[n + 1]]
  <2>2. rest[0] = ReceiverPlace'
    <3>1. Follows(old[1], places[0], places[1]) /\ places[0] = ReceiverPlace
      BY <1>1, <2>1 DEF Leads
    <3>2. places[1] = ReceiverPlace'
      BY <1>1, <1>5, <3>1
    <3> QED
      BY <1>1, <3>2
  <2>3. at' # "closed" => rest[Len(old) - 1] = SenderPlace'
    <3>1. at # "closed" => places[Len(old)] = SenderPlace
      BY <2>1 DEF Leads
    <3>2. rest[Len(old) - 1] = places[Len(old)]
      BY <1>1
    <3> QED
      BY <1>4, <3>1, <3>2
  <2>4. ASSUME NEW n \in 1..Len(toReceiver')
        PROVE  Follows(toReceiver'[n], rest[n - 1], rest[n])
    <3>1. n + 1 \in 1..Len(old) /\ rest[n - 1] = places[n] /\ rest[n] = places[n + 1]
      BY <1>1, <1>2
    <3>2. Follows(old[n + 1], places[(n + 1) - 1], places[n + 1])
      BY <2>1, <3>1 DEF Leads
    <3>3. (n + 1) - 1 = n
      BY <1>1, <1>2
    <3> QED
      BY <1>2, <3>1, <3>2, <3>3
  <2> HIDE DEF rest
  <2>5. rest[Len(toReceiver')] = rest[Len(old) - 1]
    BY <1>2
  <2> QED
    BY <2>2, <2>3, <2>4, <2>5 DEF Leads, Follows
<1> QED
  BY <1>2, <1>3, <1>5 DEF Stream

\* The stream as it was, or lost after the sender has closed.
LEMMA StreamStays ==
  ASSUME TransferInv, UNCHANGED senderVars, UNCHANGED <<events, received>>,
         \/ toReceiver' = toReceiver
         \/ toReceiver' = <<>> /\ at = "closed",
         state' # "Closed" => state # "Closed"
  PROVE  Stream'
<1>1. (Greetings \cup Chunks)' = Greetings \cup Chunks
  BY DEF senderVars, Greetings, Bytes, Spoken, Items, Chunks, FileFrames
<1>2. toReceiver' \in Seq(Greetings \cup Chunks)
  BY SentForm, EmptySeq
<1>3. UNCHANGED <<at, SenderPlace, ReceiverPlace>>
  BY DEF senderVars, SenderPlace, ReceiverPlace
<1>4. ASSUME state' # "Closed" PROVE \E places : Leads(places)'
  <2>1. PICK places : Leads(places)
    BY <1>4 DEF TransferInv, Stream
  <2>2. CASE toReceiver' = toReceiver
    BY <1>3, <2>1, <2>2 DEF Leads, Follows
  <2>3. CASE toReceiver' = <<>> /\ at = "closed"
    <3>1. Len(toReceiver') = 0
      BY <2>3
    <3> QED
      BY <1>3, <2>1, <2>3, <3>1 DEF Leads, Follows
  <2> QED
    BY <2>2, <2>3
<1> QED
  BY <1>1, <1>2, <1>4 DEF Stream

\* A step of the receiver with which the copies stay as they are.
LEMMA CopiesUntouched ==
  ASSUME TransferInv, UNCHANGED senderVars,
         UNCHANGED <<events, received, written>>,
         \A n \in 1..Len(events) : size'[n] = size[n]
  PROVE  Copies'
BY DEF TransferInv, senderVars, Copies

LEMMA RepliesGrow ==
  ASSUME asked = "accepted" => asked' = "accepted"
  PROVE  /\ Said \subseteq Said' /\ Replies \subseteq Replies'
         /\ AtMostOne(Said) \subseteq AtMostOne(Said')
<1>1. Said \subseteq Said'
  BY DEF Said, Yes
<1>2. AtMostOne(Said) \subseteq AtMostOne(Said')
  BY <1>1 DEF AtMostOne
<1>3. Bytes(Said) \subseteq Bytes(Said')
  BY <1>2 DEF Bytes
<1>4. Replies' = [kind : {"ServerInit"}]
                   \cup [kind : {"ConnectionResponse"}, safe : {FALSE}] \cup Bytes(Said')
  BY DEF Replies, Bytes, AtMostOne
<1> QED
  BY <1>1, <1>2, <1>3, <1>4 DEF Replies

\* What comes back to the sender stays well formed.
LEMMA ReplySideKept ==
  ASSUME TransferInv, UNCHANGED senderVars,
         asked = "accepted" => asked' = "accepted",
         toSender' = toSender \/ \E frames \in Seq(Replies') : Answers(frames)
  PROVE  ReplySide'
<1>1. /\ toSender \in Seq(Replies) /\ control \in [{0} -> AtMostOne(Said)]
      /\ consented => asked = "accepted"
      /\ control' = control /\ consented' = consented
  BY DEF TransferInv, ReplySide, senderVars
<1>2. toSender \in Seq(Replies')
  BY <1>1, RepliesGrow, SeqMonotonic
<1>3. toSender' \in Seq(Replies')
  BY <1>2, ConcatProperties DEF Answers
<1>4. control' \in [{0} -> AtMostOne(Said)']
  <2>1. AtMostOne(Said)' = AtMostOne(Said')
    BY DEF AtMostOne
  <2> QED
    BY <1>1, <2>1, RepliesGrow
<1> QED
  BY <1>1, <1>3, <1>4 DEF ReplySide

LEMMA SenderSideStays ==
  ASSUME TransferInv, UNCHANGED senderVars,
         at = "start" => toReceiver' = <<>> /\ asked' = "no"
  PROVE  SenderSide'
BY DEF TransferInv, SenderSide, senderVars

LEMMA AnswersGrow ==
  ASSUME AnswersMore, asked = "accepted" => asked' = "accepted"
  PROVE  toSender' = toSender \/ \E frames \in Seq(Replies') : Answers(frames)
<1>1. \A frames \in Seq(Replies) : frames \in Seq(Replies')
  BY RepliesGrow, SeqMonotonic
<1> QED
  BY <1>1 DEF AnswersMore

\* A step that ends the session, or grants it: no frame is read, or none matters.
LEMMA EndPreserves ==
  ASSUME TransferInv, UNCHANGED senderVars, buffers' \in [0..N -> Seq(Spoken)],
         ReceiverEnds,
         toReceiver' = toReceiver \/ (toReceiver # <<>> /\ toReceiver' = Tail(toReceiver))
  PROVE  TransferInv'
<1>1. asked' = asked /\ state' = "Closed" /\ UNCHANGED <<events, received, written, size>>
  BY DEF ReceiverEnds, CopiesStay
<1>2. SenderSide'
  BY <1>1, SenderSideStays DEF TransferInv, SenderSide
<1>3. ReplySide'
  BY <1>1, AnswersGrow, ReplySideKept DEF ReceiverEnds
<1>4. ReceiverSide'
  BY <1>1 DEF TransferInv, ReceiverSide, PreConsent, Receiver!PlainStates
<1>5. Copies'
  BY <1>1, CopiesUntouched
<1>6. Stream'
  <2>1. CASE toReceiver' = toReceiver
    BY <1>1, <2>1, StreamStays
  <2>2. CASE toReceiver # <<>> /\ toReceiver' = Tail(toReceiver)
    BY <1>1, <2>2, StreamShorter
  <2> QED
    BY <2>1, <2>2
<1> QED
  BY <1>2, <1>3, <1>4, <1>5, <1>6 DEF TransferInv

LEMMA GrantPreserves ==
  ASSUME TransferInv, UNCHANGED senderVars, buffers' \in [0..N -> Seq(Spoken)],
         ReceiverGranted, toReceiver' = toReceiver
  PROVE  TransferInv'
<1>1. /\ state = "AwaitConsent" /\ state' = "Receiving"
      /\ asked = "asked" /\ asked' = "accepted"
      /\ offered' = offered /\ open' = offered /\ UNCHANGED <<events, received, written, size>>
      /\ events = <<>> /\ offered = 1..N
  BY DEF ReceiverGranted, CopiesStay, TransferInv, ReceiverSide
<1>2. SenderSide'
  BY <1>1, SenderSideStays DEF TransferInv, SenderSide
<1>3. ReplySide'
  BY <1>1, ReplySideKept DEF ReceiverGranted
<1>4. ReceiverSide'
  <2>1. Len(events') = 0 /\ 0 < N /\ 0 + 1 = 1
    BY <1>1, Count
  <2> QED
    BY <1>1, <2>1 DEF ReceiverSide, PreConsent, Receiver!PlainStates
<1>5. Copies'
  BY <1>1, CopiesUntouched
<1>6. Stream'
  BY <1>1, StreamStays
<1> QED
  BY <1>2, <1>3, <1>4, <1>5, <1>6 DEF TransferInv

LEMMA ReadPreserves ==
  ASSUME TransferInv, UNCHANGED senderVars, buffers' \in [0..N -> Seq(Spoken)],
         toReceiver # <<>>, toReceiver' = Tail(toReceiver),
         NEW f, f = Head(toReceiver), Handled(f), ~ReceiverEnds
  PROVE  TransferInv'
<1>0. at # "start"
  BY DEF TransferInv, SenderSide
<1>1. SenderSide'
  BY <1>0, SenderSideStays
<1>2. CASE f.kind # "file" /\ ReceiverTalks
  <2>1. asked' = asked /\ UNCHANGED <<events, received, written, size, offered, open>>
    BY <1>2 DEF ReceiverTalks, CopiesStay
  <2>2. ReplySide'
    BY <1>2, <2>1, AnswersGrow, ReplySideKept DEF ReceiverTalks
  <2>3. ReceiverSide'
    BY <1>2, <2>1 DEF ReceiverTalks, TransferInv, ReceiverSide, PreConsent, Receiver!PlainStates
  <2>4. Copies'
    BY <2>1, CopiesUntouched
  <2>5. Stream'
    <3>1. \A q : Follows(f, ReceiverPlace, q) => q = ReceiverPlace'
      BY <1>2, <2>1 DEF Follows, ReceiverPlace
    <3> QED
      BY <1>2, <3>1, StreamShorter DEF ReceiverTalks
  <2> QED
    BY <1>1, <2>2, <2>3, <2>4, <2>5 DEF TransferInv
<1>3. CASE f.kind # "file" /\ ReceiverIntroduced
  <2>1. /\ state = "AwaitIntroduction" /\ state' = "AwaitConsent"
        /\ asked = "no" /\ asked' = "asked"
        /\ events = <<>> /\ open = {} /\ offered' = 1..N
        /\ UNCHANGED <<events, received, written, open, toSender>>
    BY <1>3 DEF ReceiverIntroduced, TransferInv, ReceiverSide, PreConsent
  <2>2. ReplySide'
    BY <2>1, ReplySideKept
  <2>3. ReceiverSide'
    BY <2>1 DEF ReceiverSide, PreConsent, Receiver!PlainStates
  <2>4. Copies'
    <3>1. 1..Len(events) = {}
      BY <2>1
    <3> QED
      BY <2>1, <3>1, CopiesUntouched
  <2>5. Stream'
    <3>1. \A q : Follows(f, ReceiverPlace, q) => q = ReceiverPlace'
      BY <1>3, <2>1 DEF Follows, ReceiverPlace
    <3> QED
      BY <2>1, <3>1, StreamShorter
  <2> QED
    BY <1>1, <2>2, <2>3, <2>4, <2>5 DEF TransferInv
<1>4. CASE ReceiverStored(f)
  <2>1. asked' = asked /\ toSender' = toSender /\ f.kind = "file" /\ state # "Closed"
    BY <1>4 DEF ReceiverStored
  <2>2. ReplySide'
    BY <2>1, ReplySideKept
  <2>3. ReceiverSide'
    BY <1>4, StoredSide
  <2>4. Copies'
    BY <1>4, CopiesStored
  <2>5. Stream'
    <3>1. \A q : Follows(f, ReceiverPlace, q) =>
                   q = IF f.last THEN <<f.id + 1, 0>> ELSE <<f.id, f.offset + 1>>
      BY <2>1 DEF Follows
    <3>2. state' # "Closed" =>
            ReceiverPlace' = IF f.last THEN <<f.id + 1, 0>> ELSE <<f.id, f.offset + 1>>
      BY <1>4, StoredSide
    <3> QED
      BY <2>1, <3>1, <3>2, StreamShorter
  <2> QED
    BY <1>1, <2>2, <2>3, <2>4, <2>5 DEF TransferInv
<1> QED
  BY <1>2, <1>3, <1>4 DEF Handled

LEMMA ReceiverPreserves ==
  ASSUME TransferInv, ReceiverNext PROVE TransferInv'
BY ReceiverKind, EndPreserves, GrantPreserves, ReadPreserves

-----------------------------------------------------------------------------
(* The network preserves the invariant, and it is invariant. *)

LEMMA NetworkPreserves ==
  ASSUME TransferInv, UNCHANGED <<senderVars, receiverVars>>,
         toSender' = toSender \/ toSender' = <<>>,
         \/ toReceiver' = toReceiver
         \/ toReceiver' = <<>> /\ at = "closed"
  PROVE  TransferInv'
<1>1. asked' = asked /\ state' = state /\ UNCHANGED <<events, received, written, size>>
  BY DEF receiverVars
<1>2. SenderSide'
  BY <1>1, SenderSideStays DEF TransferInv, SenderSide
<1>3. ReplySide'
  <2>1. Said' = Said /\ Replies' = Replies
    BY <1>1 DEF Said, Yes, Replies, Bytes
  <2>2. toSender' \in Seq(Replies)
    BY SentForm, EmptySeq
  <2> QED
    BY <1>1, <2>1, <2>2 DEF TransferInv, ReplySide, senderVars
<1>4. ReceiverSide'
  BY DEF receiverVars, TransferInv, ReceiverSide
<1>5. Copies'
  BY <1>1, CopiesUntouched
<1>6. Stream'
  BY <1>1, StreamStays
<1> QED
  BY <1>2, <1>3, <1>4, <1>5, <1>6 DEF TransferInv

LEMMA TransferInit == Init => TransferInv
<1> SUFFICES ASSUME Init PROVE TransferInv
  OBVIOUS
<1> USE DEF Init, Sender!Init, Receiver!Init
<1>1. SenderSide
  BY Count DEF SenderSide, Sender!Files, Sender!Waiting, Sender!Streaming
<1>2. ReplySide
  BY EmptySeq DEF ReplySide, AtMostOne
<1>3. ReceiverSide
  BY EmptySeq DEF ReceiverSide, PreConsent, Receiver!PlainStates, Id
<1>4. Copies
  <2>1. events = <<>> /\ Len(events) = 0 /\ events \in Seq(1..N)
    BY EmptySeq
  <2>2. \A i \in 0..N : written[i] = <<>> /\ received[i] = 0
    BY DEF Id
  <2>3. \A i : Part(i, 0) = <<>>
    BY DEF Part
  <2>4. \A i \in 1..N : i \in 0..N
    BY Count
  <2>5. \A i \in 1..N : written[i] = [u \in 1..received[i] |-> [file |-> i, unit |-> u]]
    BY <2>2, <2>3, <2>4 DEF Part
  <2>6. received \in [0..N -> Nat] /\ DOMAIN written = 0..N
    BY DEF Id
  <2> QED
    BY <2>1, <2>2, <2>4, <2>5, <2>6, Count DEF Copies
<1>5. Stream
  <2>1. toReceiver = <<>> /\ Len(toReceiver) = 0 /\ toReceiver \in Seq(Greetings \cup Chunks)
    BY EmptySeq
  <2>2. SenderPlace = <<1, 0>>
    BY DEF SenderPlace
  <2>3. ReceiverPlace = <<1, 0>>
    <3>1. Len(events) + 1 = 1 /\ received[1] = 0
      BY Count DEF Id
    <3> QED
      BY <3>1 DEF ReceiverPlace
  <2>4. Leads([n \in {0} |-> <<1, 0>>])
    BY <2>1, <2>2, <2>3 DEF Leads
  <2> QED
    BY <2>1, <2>4 DEF Stream
<1> QED
  BY <1>1, <1>2, <1>3, <1>4, <1>5 DEF TransferInv

LEMMA TransferStep ==
  ASSUME TransferInv, [Next]_vars PROVE TransferInv'
<1>1. CASE SenderNext
  BY <1>1, SenderPreserves
<1>2. CASE ReceiverNext
  BY <1>2, ReceiverPreserves
<1>3. CASE Cut("toReceiver") \/ Cut("toSender")
  BY <1>3, NetworkPreserves DEF Cut
<1>4. CASE Reset
  BY <1>4, NetworkPreserves DEF Reset, SenderClosed
<1>5. CASE UNCHANGED vars
  BY <1>5, NetworkPreserves DEF vars
<1> QED
  BY <1>1, <1>2, <1>3, <1>4, <1>5 DEF Next, Step

-----------------------------------------------------------------------------
(* Theorems. *)

\* At every moment the frames on their way lead from the receiver's place in the files
\* to the sender's, and the copies are whole up to there.
THEOREM Invariance == Spec => []TransferInv
<1>1. Init => TransferInv
  BY TransferInit
<1>2. TransferInv /\ [Next]_vars => TransferInv'
  BY TransferStep
<1> QED
  BY <1>1, <1>2, PTL DEF Spec

\* A file that the receiver reports was sent to its last chunk, under the size that
\* the sender had measured, after the sender had read the ACCEPT
\* (processIncomingFile against sendFilePayload).
THEOREM NeverAhead == Spec => []ReceiverBehind
<1>1. TransferInv => ReceiverBehind
  BY DEF TransferInv, Copies, ReceiverBehind, Receiver!Reported
<1> QED
  BY <1>1, Invariance, PTL

\* The sender reports success only of a transfer that the user of the receiving phone
\* has accepted (run of the sender against the consent of the receiver).
THEOREM ConsentBeforeSuccess == Spec => []SuccessNeedsConsent
<1>1. TransferInv => SuccessNeedsConsent
  BY DEF TransferInv, SenderSide, ReplySide, SuccessNeedsConsent
<1> QED
  BY <1>1, Invariance, PTL

-----------------------------------------------------------------------------
(* Types.  The invariant above already says what is on its way and where    *)
(* the two threads are; what is left is the type of each variable.          *)

SenderTypes ==
  /\ at \in {"start", "closed", "disconnect"} \cup Sender!Waiting \cup Sender!Streaming
  /\ ended \in BOOLEAN /\ safe \in BOOLEAN /\ consented \in BOOLEAN
  /\ completed \in SUBSET (1..N)
  /\ result \in {"none", "ok", "failed"}

ReceiverTypes ==
  /\ offered \subseteq 0..N /\ text \subseteq 0..N /\ open \subseteq 0..N /\ onDisk \subseteq 0..N
  /\ size \in [0..N -> -1..MaxTotal]
  /\ receivedBytes \in Nat
  /\ progress \in BOOLEAN
  /\ verdict \in {"none", "ok", "failed"}
  /\ state = "Closed" <=> verdict # "none"

\* Of the sending thread: whatever ends it or keeps it, each variable stays in its type.
LEMMA ReturnTyped ==
  ASSUME SenderTypes, NEW v \in {"ok", "failed"}, Sender!Return(v)
  PROVE  SenderTypes'
BY DEF SenderTypes, Sender!Return, Sender!fileVars

LEMMA FailTyped ==
  ASSUME SenderTypes, Sender!Fail PROVE SenderTypes'
BY ReturnTyped DEF Sender!Fail

LEMMA KeepTyped ==
  ASSUME SenderTypes, UNCHANGED <<ended, completed, safe, consented, result>>,
         at' \in {"disconnect"} \cup Sender!Waiting \cup Sender!Streaming \cup {at}
  PROVE  SenderTypes'
BY DEF SenderTypes

\* The flag that comes with a ConnectionResponse is there, and it says no.
LEMMA ReadsTyped ==
  ASSUME SenderTypes, NEW f \in Replies, Sender!Frame(f)
  PROVE  SenderTypes'
<1> USE DEF Sender!fileVars, Sender!Waiting, Sender!Streaming
<1>1. CASE Sender!Fail
  BY <1>1, FailTyped
<1>2. CASE Sender!ServerInit(f) /\ ~Sender!Fail
  BY <1>2, KeepTyped DEF Sender!ServerInit
<1>3. CASE Sender!ConnectionResponse(f) /\ ~Sender!Fail
  <2>1. f.kind = "ConnectionResponse"
    BY <1>3 DEF Sender!ConnectionResponse
  <2>2. f.safe = FALSE
    BY <2>1, BytesForm DEF Replies
  <2>3. safe' \in BOOLEAN
    BY <1>3, <2>2 DEF Sender!ConnectionResponse
  <2>4. at' = "pairedKey" /\ UNCHANGED <<ended, completed, consented, result>>
    BY <1>3 DEF Sender!ConnectionResponse
  <2> QED
    BY <2>3, <2>4 DEF SenderTypes
<1>4. CASE Sender!KeepWaiting(f)
  BY <1>4, KeepTyped DEF Sender!KeepWaiting
<1>5. CASE Sender!BadReply(f)
  BY <1>1, <1>5 DEF Sender!BadReply
<1> USE <1>1, <1>4, <1>5
<1>6. CASE Sender!PairedKey(f)
  BY <1>6, KeepTyped DEF Sender!PairedKey
<1>7. CASE Sender!PairedResult(f)
  BY <1>7, KeepTyped DEF Sender!PairedResult, Sender!AfterIntroduction
<1>8. CASE Sender!IntroductionResponse(f)
  <2>1. CASE at' = "open" /\ consented' = TRUE /\ UNCHANGED <<ended, completed, safe, result>>
    BY <2>1 DEF SenderTypes
  <2> QED
    BY <1>8, <2>1 DEF Sender!IntroductionResponse
<1>9. CASE Sender!CheckFrame(f)
  BY <1>9, KeepTyped DEF Sender!CheckFrame
<1>10. CASE Sender!DisconnectFrame(f)
  BY <1>10, KeepTyped, ReturnTyped DEF Sender!DisconnectFrame
<1> QED
  BY <1>2, <1>3, <1>6, <1>7, <1>8, <1>9, <1>10
  DEF Sender!Frame, Sender!ServerInit, Sender!ConnectionResponse

LEMMA SenderTyped ==
  ASSUME TransferInv, SenderTypes, SenderNext PROVE SenderTypes'
<1> USE DEF Sender!fileVars, Sender!Waiting, Sender!Streaming
<1>1. CASE Sender!Fail
  BY <1>1, FailTyped
<1>2. CASE SenderReads
  <2>1. Head(toSender) \in Replies
    BY <1>2, HeadTailProperties DEF SenderReads, TransferInv, ReplySide
  <2> QED
    BY <1>2, <2>1, ReadsTyped DEF SenderReads
<1>3. CASE SenderGivesUp \/ SenderSeesEnd
  BY <1>1, <1>3 DEF SenderGivesUp, SenderSeesEnd, Sender!NoAnswer, Sender!ReceiverLeft
<1>4. CASE FileResized
  BY <1>4, KeepTyped DEF FileResized, Sender!Resize
<1>5. CASE Sender!Start
  BY <1>1, <1>5, KeepTyped DEF Sender!Start
<1>6. CASE Sender!OpenFile
  BY <1>1, <1>6, KeepTyped DEF Sender!OpenFile
<1>7. CASE Sender!SendChunk
  <2>1. CASE at' = "check" /\ UNCHANGED <<ended, completed, safe, consented, result>>
    BY <2>1, KeepTyped
  <2>2. CASE at' = "check" /\ ended' = TRUE /\ completed' = completed \cup {current}
             /\ UNCHANGED <<safe, consented, result>>
    BY <2>2 DEF SenderTypes, TransferInv, SenderSide
  <2> QED
    BY <1>1, <1>7, <2>1, <2>2 DEF Sender!SendChunk
<1>8. CASE Sender!CheckClear
  <2>1. UNCHANGED <<safe, consented>>
    BY <1>8 DEF Sender!CheckClear
  <2>2. CASE at' = "send" /\ UNCHANGED <<Sender!fileVars, result>>
    BY <2>1, <2>2, KeepTyped
  <2>3. CASE at' = "open" /\ Sender!NextFile /\ result' = result
    BY <2>1, <2>3 DEF Sender!NextFile, SenderTypes
  <2>4. CASE /\ at' = Sender!AfterDisconnection.at
             /\ result' = Sender!AfterDisconnection.result
             /\ UNCHANGED Sender!fileVars
    BY <2>1, <2>4 DEF Sender!AfterDisconnection, SenderTypes
  <2> QED
    BY <1>1, <1>8, <2>2, <2>3, <2>4 DEF Sender!CheckClear
<1> QED
  BY <1>2, <1>3, <1>4, <1>5, <1>6, <1>7, <1>8 DEF SenderNext, SenderStreams, SenderWorks

\* Of the receiving thread: what ends it ...
LEMMA ReceiverFailTyped ==
  ASSUME ReceiverTypes, Receiver!Fail PROVE ReceiverTypes'
<1>1. progress' \in BOOLEAN
  BY DEF Receiver!Fail
<1> QED
  BY <1>1 DEF ReceiverTypes, Receiver!Fail, Receiver!CloseFiles

LEMMA ReceiverReturnTyped ==
  ASSUME ReceiverTypes, NEW v \in {"ok", "failed"}, Receiver!Return(v) PROVE ReceiverTypes'
<1>1. progress' \in BOOLEAN
  BY DEF ReceiverTypes, Receiver!Return
<1> QED
  BY <1>1 DEF ReceiverTypes, Receiver!Return, Receiver!CloseFiles

\* ... what leaves the attachments alone ...
LEMMA TalkTyped ==
  ASSUME ReceiverTypes, state # "Closed", state' # "Closed",
         UNCHANGED <<Receiver!fileVars, verdict>>, progress' \in BOOLEAN
  PROVE  ReceiverTypes'
BY DEF ReceiverTypes, Receiver!fileVars

LEMMA PlainTyped ==
  ASSUME ReceiverTypes, NEW f, Receiver!PlainFrame(f) PROVE ReceiverTypes'
<1>1. CASE Receiver!Fail
  BY <1>1, ReceiverFailTyped
<1>2. CASE ~Receiver!Fail
  <2>1. state # "Closed" /\ state' # "Closed"
    BY <1>2 DEF Receiver!PlainFrame, Receiver!PlainStates, Receiver!PlainNext
  <2>2. UNCHANGED <<Receiver!fileVars, verdict, progress>>
    BY <1>2 DEF Receiver!PlainFrame
  <2>3. progress' \in BOOLEAN
    BY <2>2 DEF ReceiverTypes
  <2> QED
    BY <2>1, <2>2, <2>3, TalkTyped
<1> QED
  BY <1>1, <1>2

LEMMA ControlTyped ==
  ASSUME ReceiverTypes, state # "Closed", NEW f, Receiver!ControlFrame(f) PROVE ReceiverTypes'
<1>1. CASE UNCHANGED <<state, Receiver!fileVars, progress, verdict>>
  <2>1. progress' \in BOOLEAN
    BY <1>1 DEF ReceiverTypes
  <2> QED
    BY <1>1, <2>1, TalkTyped
<1> QED
  BY <1>1, ReceiverFailTyped, ReceiverReturnTyped DEF Receiver!ControlFrame

\* ... what is written, and what is introduced.
LEMMA IncomingTyped ==
  ASSUME TransferInv, ReceiverTypes, state # "Closed",
         NEW id, NEW from, NEW last, NEW body, Len(body) \in Nat,
         Receiver!IncomingFile(id, from, last, body)
  PROVE  ReceiverTypes'
<1>1. CASE Receiver!Fail
  BY <1>1, ReceiverFailTyped
<1>2. CASE ~Receiver!Fail
  <2>1. receivedBytes' \in Nat
    BY <1>2 DEF Receiver!IncomingFile, Receiver!WriteChunk, ReceiverTypes
  <2>2. UNCHANGED <<text, size, onDisk>>
    BY <1>2 DEF Receiver!IncomingFile
  <2>3. offered' \subseteq offered /\ open' \subseteq open
    BY <1>2 DEF Receiver!IncomingFile
  <2>4. progress' \in BOOLEAN
    BY <1>2 DEF Receiver!IncomingFile
  <2>5. \/ state' = "Closed" /\ verdict' = "ok"
        \/ state' = state /\ verdict' = verdict
    BY <1>2 DEF Receiver!IncomingFile
  <2> QED
    BY <2>1, <2>2, <2>3, <2>4, <2>5 DEF ReceiverTypes
<1> QED
  BY <1>1, <1>2

LEMMA LargestTotal == MaxTotal \in Nat
BY DEF MaxTotal

\* The sizes of an Introduction that is accepted lie within the limit of their sum.
LEMMA IntroducedSizes ==
  ASSUME NEW u \in Spoken, u.share = "Introduction", Receiver!ValidIntroduction(u.meta)
  PROVE  /\ Len(u.meta) = N
         /\ \A m \in 1..N : u.meta[m].id = m /\ u.meta[m].text = FALSE
                            /\ u.meta[m].size \in 0..MaxTotal
<1>1. PICK sizes \in [1..N -> Lengths] : u.meta = Items(sizes)
  BY DEF Spoken
<1>2. DOMAIN u.meta = 1..N /\ Len(u.meta) = N
  BY <1>1, Count DEF Items
<1>3. \A m \in 1..N : u.meta[m].id = m /\ u.meta[m].text = FALSE /\ u.meta[m].size = sizes[m]
  BY <1>1 DEF Items
<1> DEFINE f == [m \in 1..N |-> u.meta[m].size]
<1>4. f \in [1..N -> Nat] /\ \A m \in 1..N : f[m] = u.meta[m].size
  BY <1>3, Count
<1>5. SumOver(1..N, f) <= MaxTotal
  <2>1. Receiver!DeclaredTotal(u.meta) = SumOver(1..N, f)
    <3>1. Receiver!DeclaredTotal(u.meta) = Receiver!SumOver(1..N, f)
      BY <1>2 DEF Receiver!DeclaredTotal
    <3> HIDE DEF f
    <3> QED
      BY <3>1 DEF Receiver!SumOver, Receiver!UnitsOf, SumOver, UnitsOf,
         Receiver!Cardinality, Cardinality, Receiver!IsFiniteSet, IsFiniteSet
  <2> QED
    BY <2>1 DEF Receiver!ValidIntroduction
<1>6. IsFiniteSet(1..N)
  BY Count, FS_Interval
<1> HIDE DEF f
<1>7. SumOver(1..N, f) \in Nat /\ \A m \in 1..N : f[m] <= SumOver(1..N, f)
  BY <1>4, <1>6, SumBounds
<1>8. \A m \in 1..N : f[m] \in 0..MaxTotal
  BY <1>4, <1>5, <1>7, LargestTotal
<1> QED
  BY <1>2, <1>3, <1>4, <1>8

LEMMA IntroducedTyped ==
  ASSUME TransferInv, ReceiverTypes, state = "AwaitIntroduction",
         NEW u \in Spoken, u.share = "Introduction", Receiver!ProcessIntroduction(u.meta)
  PROVE  ReceiverTypes'
<1>1. CASE Receiver!Fail
  BY <1>1, ReceiverFailTyped
<1>2. CASE ~Receiver!Fail
  <2> DEFINE Entry(i) == CHOOSE m \in 1..Len(u.meta) : u.meta[m].id = i
  <2>1. /\ Receiver!ValidIntroduction(u.meta)
        /\ offered' = {u.meta[m].id : m \in 1..Len(u.meta)}
        /\ text' = {u.meta[m].id : m \in {n \in 1..Len(u.meta) : u.meta[n].text}}
        /\ size' = [i \in 0..N |-> IF i \in offered' THEN u.meta[Entry(i)].size ELSE -1]
        /\ state' = "AwaitConsent"
        /\ UNCHANGED <<open, onDisk, receivedBytes, progress, verdict>>
    BY <1>2 DEF Receiver!ProcessIntroduction, Id
  <2>2. /\ Len(u.meta) = N
        /\ \A m \in 1..N : u.meta[m].id = m /\ u.meta[m].text = FALSE
                           /\ u.meta[m].size \in 0..MaxTotal
    BY <2>1, IntroducedSizes
  <2>3. offered' = 1..N
    BY <2>1, <2>2
  <2>4. text' = {}
    BY <2>1, <2>2
  <2>5. \A i \in 1..N : Entry(i) = i
    <3> SUFFICES ASSUME NEW i \in 1..N PROVE Entry(i) = i
      OBVIOUS
    <3>1. \A m \in 1..Len(u.meta) : u.meta[m].id = i <=> m = i
      BY <2>2
    <3>2. i \in 1..Len(u.meta)
      BY <2>2
    <3> QED
      BY <3>1, <3>2
  <2>6. \A i \in 0..N : size'[i] = IF i \in 1..N THEN u.meta[i].size ELSE -1
    <3>1. size' = [i \in 0..N |-> IF i \in 1..N THEN u.meta[Entry(i)].size ELSE -1]
      BY <2>1, <2>3
    <3> HIDE DEF Entry
    <3>2. \A i \in 0..N : size'[i] = IF i \in 1..N THEN u.meta[Entry(i)].size ELSE -1
      BY <3>1
    <3> QED
      BY <2>5, <3>2
  <2>7. size' \in [0..N -> -1..MaxTotal]
    <3>1. \A i \in 0..N : size'[i] \in -1..MaxTotal
      BY <2>2, <2>6, LargestTotal
    <3>2. size' = [i \in 0..N |-> size'[i]]
      BY <2>1
    <3> QED
      BY <3>1, <3>2
  <2>8. offered' \subseteq 0..N
    BY <2>3, Count
  <2> QED
    BY <2>1, <2>4, <2>7, <2>8 DEF ReceiverTypes
<1> QED
  BY <1>1, <1>2

LEMMA SharingTyped ==
  ASSUME TransferInv, ReceiverTypes, state # "Closed",
         NEW payload \in Seq(Spoken), Receiver!SharingFrame(payload)
  PROVE  ReceiverTypes'
<1> DEFINE kind == IF Len(payload) = 1 THEN payload[1].share ELSE "text"
<1>1. CASE Receiver!Fail
  BY <1>1, ReceiverFailTyped
<1>2. CASE Receiver!Return("failed")
  BY <1>2, ReceiverReturnTyped
<1>3. CASE UNCHANGED <<Receiver!fileVars, progress, verdict>>
           /\ state' \in {"AwaitPairedResult", "AwaitIntroduction", state}
  <2>1. progress' \in BOOLEAN
    BY <1>3 DEF ReceiverTypes
  <2> QED
    BY <1>3, <2>1, TalkTyped
<1>4. CASE state = "AwaitIntroduction" /\ kind = "Introduction"
           /\ Receiver!ProcessIntroduction(payload[1].meta)
  <2>1. payload[1] \in Spoken /\ payload[1].share = "Introduction"
    BY <1>4, ElementOfSeq
  <2> QED
    BY <1>4, <2>1, IntroducedTyped
<1> QED
  BY <1>1, <1>2, <1>3, <1>4 DEF Receiver!SharingFrame

LEMMA BytesTyped ==
  ASSUME TransferInv, ReceiverTypes, state \in Receiver!SecureStates,
         NEW f \in Bytes(Spoken), Receiver!BytePayload(f)
  PROVE  ReceiverTypes'
<1> DEFINE payload == buffers[f.id] \o f.body
<1>1. state # "Closed" /\ payload \in Seq(Spoken) /\ Len(payload) \in Nat
  <2>1. f.id = 0 /\ f.body \in AtMostOne(Spoken)
    BY BytesForm
  <2>2. \A u \in Spoken : <<u>> \in Seq(Spoken)
    OBVIOUS
  <2>3. f.body \in Seq(Spoken)
    BY <2>1, <2>2, EmptySeq DEF AtMostOne
  <2>4. buffers[f.id] \in Seq(Spoken)
    BY <2>1, Count DEF TransferInv, ReceiverSide
  <2>5. payload \in Seq(Spoken)
    BY <2>3, <2>4, ConcatProperties
  <2> QED
    BY <2>5, LenProperties DEF Receiver!SecureStates
<1>2. CASE Receiver!Fail
  BY <1>2, ReceiverFailTyped
<1>3. CASE UNCHANGED <<state, Receiver!fileVars, progress, verdict>>
  <2>1. progress' \in BOOLEAN
    BY <1>3 DEF ReceiverTypes
  <2> QED
    BY <1>1, <1>3, <2>1, TalkTyped
<1>4. CASE Receiver!SharingFrame(payload)
  BY <1>1, <1>4, SharingTyped
<1>5. CASE Receiver!IncomingFile(f.id, 0, TRUE, payload)
  BY <1>1, <1>5, IncomingTyped
<1> QED
  BY <1>2, <1>3, <1>4, <1>5 DEF Receiver!BytePayload

LEMMA FrameTyped ==
  ASSUME TransferInv, ReceiverTypes, NEW f \in Greetings \cup Chunks,
         Receiver!PlainFrame(f) \/ Receiver!SecureFrame(f)
  PROVE  ReceiverTypes'
<1>1. CASE Receiver!PlainFrame(f)
  BY <1>1, PlainTyped
<1>2. CASE Receiver!SecureFrame(f)
  <2>1. state # "Closed" /\ state \in Receiver!SecureStates
    BY <1>2 DEF Receiver!SecureFrame, Receiver!SecureStates
  <2>2. CASE Receiver!FilePayload(f)
    <3>1. f.kind = "file"
      BY <2>2 DEF Receiver!FilePayload
    <3>2. f.body \in Seq([file : 1..N, unit : Nat])
      BY <3>1, StreamForm DEF Chunks, FileFrames
    <3>3. Len(f.body) \in Nat
      BY <3>2, LenProperties
    <3> QED
      BY <2>1, <2>2, <3>3, IncomingTyped, ReceiverFailTyped DEF Receiver!FilePayload
  <2>3. CASE Receiver!BytePayload(f)
    BY <2>1, <2>3, BytesTyped, StreamForm DEF Receiver!BytePayload
  <2>4. CASE Receiver!ControlFrame(f)
    BY <2>1, <2>4, ControlTyped
  <2> QED
    BY <1>2, <2>2, <2>3, <2>4 DEF Receiver!SecureFrame
<1> QED
  BY <1>1, <1>2

LEMMA AnswersTyped ==
  ASSUME ReceiverTypes, ReceiverAnswers PROVE ReceiverTypes'
<1>1. CASE Receiver!ConsentAccepted
  <2>1. progress' \in BOOLEAN
    BY <1>1 DEF Receiver!ConsentAccepted
  <2> QED
    BY <1>1, <2>1 DEF Receiver!ConsentAccepted, ReceiverTypes
<1> QED
  BY <1>1, ReceiverReturnTyped DEF ReceiverAnswers, Receiver!ConsentFails, Receiver!ConsentRejected

LEMMA ReceiverTyped ==
  ASSUME TransferInv, ReceiverTypes, ReceiverNext PROVE ReceiverTypes'
<1>1. CASE ReceiverReads
  <2>1. Head(toReceiver) \in Greetings \cup Chunks
    BY <1>1, HeadTailProperties DEF ReceiverReads, TransferInv, Stream
  <2> QED
    BY <1>1, <2>1, FrameTyped DEF ReceiverReads
<1>2. CASE ReceiverTimesOut \/ ReceiverSeesEnd
  BY <1>2, ReceiverFailTyped, ReceiverReturnTyped DEF ReceiverTimesOut, ReceiverSeesEnd,
     Receiver!HandshakeGivesUp, Receiver!InactivityTimeout, Receiver!StreamEnds
<1> QED
  BY <1>1, <1>2, AnswersTyped DEF ReceiverNext

\* Every message comes under the one payload id, so its buffer is all there is to count.
Counted == buffered = Len(buffers[0])

LEMMA CountedKept ==
  ASSUME TransferInv, Counted, ReceiverNext PROVE Counted'
<1>1. CASE UNCHANGED Receiver!bufferVars
  BY <1>1 DEF Counted, Receiver!bufferVars
<1>2. ASSUME NEW f \in Bytes(Spoken), Receiver!BytePayload(f) PROVE Counted'
  <2>1. f.id = 0 /\ f.body \in AtMostOne(Spoken)
    BY <1>2, BytesForm
  <2>2. buffers \in [0..N -> Seq(Spoken)] /\ 0 \in 0..N
    BY Count DEF TransferInv, ReceiverSide
  <2>3. buffers[0] \in Seq(Spoken) /\ Len(buffers[0]) \in Nat
    BY <2>2, LenProperties
  <2>4. CASE Receiver!Release(f.id)
    <3>1. buffers'[0] = <<>>
      BY <2>1, <2>2, <2>4 DEF Receiver!Release
    <3>2. buffered' = Len(buffers[0]) - Len(buffers[0])
      BY <2>1, <2>4 DEF Receiver!Release, Counted
    <3>3. Len(<<>>) = 0
      OBVIOUS
    <3> QED
      BY <2>3, <3>1, <3>2, <3>3 DEF Counted
  <2>5. CASE /\ buffers' = [buffers EXCEPT ![f.id] = buffers[f.id] \o f.body]
             /\ buffered' = buffered + Len(f.body)
    <3>1. \A u \in Spoken : <<u>> \in Seq(Spoken)
      OBVIOUS
    <3>2. f.body \in Seq(Spoken)
      BY <2>1, <3>1, EmptySeq DEF AtMostOne
    <3>3. Len(buffers[0] \o f.body) = Len(buffers[0]) + Len(f.body)
      BY <2>3, <3>2, ConcatProperties
    <3>4. buffers'[0] = buffers[0] \o f.body
      BY <2>1, <2>2, <2>5
    <3> QED
      BY <2>5, <3>3, <3>4 DEF Counted
  <2> QED
    BY <1>1, <1>2, <2>4, <2>5 DEF Receiver!BytePayload
<1>3. CASE ReceiverReads
  <2> DEFINE f == Head(toReceiver)
  <2>1. f \in Greetings \cup Chunks
    BY <1>3, HeadTailProperties DEF ReceiverReads, TransferInv, Stream
  <2>2. f.kind = "bytes" => f \in Bytes(Spoken)
    BY <2>1, StreamForm
  <2>3. Receiver!PlainFrame(f) \/ Receiver!SecureFrame(f)
    BY <1>3 DEF ReceiverReads
  <2> HIDE DEF f
  <2>4. Receiver!BytePayload(f) => f.kind = "bytes"
    BY DEF Receiver!BytePayload
  <2> QED
    BY <1>1, <1>2, <2>2, <2>3, <2>4 DEF Receiver!PlainFrame, Receiver!SecureFrame,
       Receiver!FilePayload, Receiver!ControlFrame
<1> QED
  BY <1>1, <1>3 DEF ReceiverNext, ReceiverAnswers, Receiver!ConsentAccepted,
     Receiver!ConsentFails, Receiver!ConsentRejected, ReceiverTimesOut, ReceiverSeesEnd,
     Receiver!HandshakeGivesUp, Receiver!InactivityTimeout, Receiver!StreamEnds

TypesInv ==
  /\ SenderTypes /\ ReceiverTypes /\ Counted
  /\ cut \subseteq {"toReceiver", "toSender"}

LEMMA StepTyped ==
  ASSUME TransferInv, TypesInv, [Next]_vars PROVE TypesInv'
<1> USE DEF TypesInv
<1>1. CASE SenderNext
  <2>1. UNCHANGED receiverVars /\ cut' = cut
    BY <1>1 DEF SenderNext, SenderReads, SenderStreams, SenderWorks, SenderGivesUp,
       SenderSeesEnd, FileResized
  <2>2. ReceiverTypes' /\ Counted'
    BY <2>1 DEF ReceiverTypes, Counted, receiverVars
  <2> QED
    BY <1>1, <2>1, <2>2, SenderTyped
<1>2. CASE ReceiverNext
  <2>1. UNCHANGED senderVars /\ cut' = cut
    BY <1>2 DEF ReceiverNext, ReceiverReads, ReceiverAnswers, ReceiverTimesOut, ReceiverSeesEnd
  <2>2. SenderTypes'
    BY <2>1 DEF SenderTypes, senderVars
  <2> QED
    BY <1>2, <2>1, <2>2, ReceiverTyped, CountedKept
<1>3. CASE /\ UNCHANGED <<senderVars, receiverVars>>
           /\ cut' \subseteq cut \cup {"toReceiver", "toSender"}
  <2>1. SenderTypes'
    BY <1>3 DEF SenderTypes, senderVars
  <2>2. ReceiverTypes' /\ Counted'
    BY <1>3 DEF ReceiverTypes, Counted, receiverVars
  <2> QED
    BY <1>3, <2>1, <2>2
<1> HIDE DEF TypesInv
<1> QED
  BY <1>1, <1>2, <1>3 DEF Next, Step, Cut, Reset, vars

LEMMA TypesInit == Init => TypesInv
<1> SUFFICES ASSUME Init PROVE TypesInv
  OBVIOUS
<1>1. SenderTypes
  BY DEF Init, Sender!Init, SenderTypes
<1>2. ReceiverTypes
  <2>1. -1 \in -1..MaxTotal
    BY LargestTotal
  <2>2. size \in [0..N -> -1..MaxTotal]
    BY <2>1 DEF Init, Receiver!Init, Id
  <2> QED
    BY <2>2 DEF Init, Receiver!Init, ReceiverTypes
<1>3. Counted
  BY Count DEF Init, Receiver!Init, Counted, Id
<1> QED
  BY <1>1, <1>2, <1>3 DEF TypesInv, Init

LEMMA InvsTyped ==
  ASSUME TransferInv, TypesInv PROVE TypeOK
<1>1. Sender!TypeOK
  BY DEF TransferInv, SenderSide, TypesInv, SenderTypes, Sender!TypeOK, Sender!Files
<1>2. buffered \in Nat
  BY Count, LenProperties DEF TransferInv, ReceiverSide, TypesInv, Counted
<1>3. state \in Receiver!PlainStates \cup Receiver!SecureStates \cup {"Closed"}
  BY DEF TransferInv, ReceiverSide, PreConsent, Receiver!SecureStates
<1>4. received \in [Id -> Nat] /\ asked \in {"no", "asked", "accepted"}
  BY DEF TransferInv, ReceiverSide, Copies, Id
<1>5. Receiver!TypeOK
  BY <1>2, <1>3, <1>4 DEF TypesInv, ReceiverTypes, Receiver!TypeOK, Id
<1> QED
  BY <1>1, <1>5 DEF TypesInv, TypeOK

\* Whatever either phone reads, answers or gives up, and whatever is cut or reset, every
\* variable of the two threads keeps its type: what is buffered never counts below zero,
\* no declared size is beyond the limit of the total, and a thread is closed exactly when
\* it has its result.
THEOREM TypesKept == Spec => []TypeOK
<1>1. Init => TypesInv
  BY TypesInit
<1>2. TransferInv /\ TypesInv /\ [Next]_vars => TypesInv'
  BY StepTyped
<1>3. TransferInv /\ TypesInv => TypeOK
  BY InvsTyped
<1> QED
  BY <1>1, <1>2, <1>3, Invariance, PTL DEF Spec

-----------------------------------------------------------------------------
(* What a success leaves on its way.                                         *)

Ends(f, i) == f.kind = "file" /\ f.id = i /\ f.last

Arriving(i) ==
  \/ i \in Receiver!Reported
  \/ \E n \in 1..Len(toReceiver) : Ends(toReceiver[n], i)

Undisturbed == cut = {} /\ verdict # "failed"

\* This receiver offers no safe disconnect, so the sender is done with its last bytes.
Unsafe == safe = FALSE /\ at # "disconnect"

\* The files from the first to the one in hand are exactly those completed.
Sent ==
  /\ completed = 1..(current - 1) \cup (IF ended THEN {current} ELSE {})
  /\ result = "ok" => ended /\ current = N

\* A sender that succeeded left nothing unread, so that its close destroys nothing.
NothingUnread == Undisturbed /\ result = "ok" => toSender = <<>>

\* What was sent to its end is there or on its way, until the sender fails.
EndsArrive == Undisturbed /\ result # "failed" => \A i \in completed : Arriving(i)

ArrivalInv == Unsafe /\ Sent /\ NothingUnread /\ EndsArrive

LEMMA ReadsUnsafe ==
  ASSUME Unsafe, NEW f \in Replies, Sender!Frame(f)
  PROVE  Unsafe' /\ (result' = result \/ result' = "failed")
<1> USE DEF Unsafe
<1>1. CASE Sender!Fail
  BY <1>1 DEF Sender!Fail, Sender!Return
<1>2. CASE Sender!ServerInit(f) /\ ~Sender!Fail
  BY <1>2 DEF Sender!ServerInit
<1>3. CASE Sender!ConnectionResponse(f) /\ ~Sender!Fail
  <2>1. f.kind = "ConnectionResponse"
    BY <1>3 DEF Sender!ConnectionResponse
  <2>2. f.safe = FALSE
    BY <2>1, BytesForm DEF Replies
  <2> QED
    BY <1>3, <2>2 DEF Sender!ConnectionResponse
<1>4. CASE Sender!KeepWaiting(f)
  BY <1>4 DEF Sender!KeepWaiting
<1>5. CASE Sender!BadReply(f)
  BY <1>1, <1>5 DEF Sender!BadReply
<1> USE <1>1, <1>4, <1>5
<1>6. CASE Sender!PairedKey(f) \/ Sender!PairedResult(f)
  BY <1>6 DEF Sender!PairedKey, Sender!PairedResult, Sender!AfterIntroduction
<1>7. CASE Sender!IntroductionResponse(f)
  BY <1>7 DEF Sender!IntroductionResponse
<1>8. CASE Sender!CheckFrame(f)
  BY <1>8 DEF Sender!CheckFrame
<1>9. CASE Sender!DisconnectFrame(f)
  BY <1>9 DEF Sender!DisconnectFrame
<1> QED
  BY <1>2, <1>3, <1>6, <1>7, <1>8, <1>9
  DEF Sender!Frame, Sender!ServerInit, Sender!ConnectionResponse

\* The sender succeeds in one place only: after its last check of the peer.
Succeeds ==
  /\ ended /\ current = N /\ SamePlace
  /\ toSender' = toSender
  /\ cut = {} => toSender = <<>>

LEMMA SenderUnsafe ==
  ASSUME TransferInv, Unsafe, SenderNext
  PROVE  /\ Unsafe'
         /\ result' = "ok" => result = "ok" \/ Succeeds
<1> USE DEF Unsafe
<1>1. CASE Sender!Fail
  BY <1>1 DEF Sender!Fail, Sender!Return
<1>2. CASE SenderReads
  <2>1. Head(toSender) \in Replies
    BY <1>2, HeadTailProperties DEF SenderReads, TransferInv, ReplySide
  <2> QED
    BY <1>2, <2>1, ReadsUnsafe DEF SenderReads
<1>3. CASE SenderGivesUp \/ SenderSeesEnd
  BY <1>1, <1>3 DEF SenderGivesUp, SenderSeesEnd, Sender!NoAnswer, Sender!ReceiverLeft
<1>4. CASE FileResized
  BY <1>4 DEF FileResized, Sender!Resize
<1>5. CASE SenderWorks
  BY <1>1, <1>5 DEF SenderWorks, Sender!Start, Sender!OpenFile, Sender!SendChunk
<1>6. CASE SenderStreams
  <2>1. safe' = safe /\ toSender' = toSender
    BY <1>6 DEF SenderStreams, Sender!CheckClear
  <2>2. CASE UNCHANGED result /\ at' \in {"send", "open"}
    BY <2>1, <2>2
  <2>3. CASE /\ Sender!AllSent
             /\ at' = Sender!AfterDisconnection.at
             /\ UNCHANGED Sender!fileVars
    <3>1. Succeeds
      BY <1>6, <2>1, <2>3 DEF SenderStreams, Sender!AllSent, Sender!fileVars, SamePlace, Succeeds
    <3>2. at' = "closed"
      BY <2>3 DEF Sender!AfterDisconnection
    <3> QED
      BY <2>1, <3>1, <3>2
  <2> QED
    BY <1>1, <1>6, <2>2, <2>3 DEF SenderStreams, Sender!CheckClear
<1> QED
  BY <1>2, <1>3, <1>4, <1>5, <1>6 DEF SenderNext

LEMMA SentStep ==
  ASSUME TransferInv, Sent, SenderKinds, result' = "ok" => result = "ok" \/ Succeeds
  PROVE  Sent'
<1> USE DEF Sent
<1>1. at # "closed" /\ result # "ok" /\ current \in 1..N /\ N \in Nat
  BY Count DEF SenderKinds, SenderTalks, SenderBegins, SenderStops, SenderHears,
     SenderOnward, SenderChunk, TransferInv, SenderSide, Sender!Waiting
<1>2. CASE SamePlace
  BY <1>1, <1>2 DEF SamePlace, Succeeds
<1>3. CASE SenderOnward
  <2>1. completed' = 1..(current - 1) \cup {current} /\ current' = current + 1 /\ ~ended'
    BY <1>3 DEF SenderOnward
  <2>2. 1..(current - 1) \cup {current} = 1..current
    BY <1>1
  <2> QED
    BY <1>1, <1>3, <2>1, <2>2 DEF SenderOnward
<1>4. CASE SenderChunk
  <2>1. ~ended
    BY <1>4 DEF SenderChunk, TransferInv, SenderSide
  <2> QED
    BY <1>1, <1>4, <2>1 DEF SenderChunk
<1> QED
  BY <1>2, <1>3, <1>4 DEF SenderKinds, SenderTalks, SenderBegins, SenderStops, SenderHears

\* What is behind other frames stays on its way.
LEMMA ArrivingLonger ==
  ASSUME TransferInv, NEW frames \in Seq(Greetings \cup Chunks'), Says(frames),
         UNCHANGED receiverVars, NEW i, Arriving(i)
  PROVE  Arriving(i)'
<1>1. CASE i \in Receiver!Reported
  BY <1>1 DEF receiverVars, Receiver!Reported, Arriving
<1>2. CASE \E n \in 1..Len(toReceiver) : Ends(toReceiver[n], i)
  <2>1. PICK n \in 1..Len(toReceiver) : Ends(toReceiver[n], i)
    BY <1>2
  <2>2. Len(toReceiver) \in Nat /\ Len(frames) \in Nat
    BY SentForm, LenProperties
  <2>3. n \in 1..Len(toReceiver') /\ toReceiver'[n] = toReceiver[n]
    BY <2>2, SentForm, ConcatProperties DEF Says
  <2>4. Ends(toReceiver'[n], i)
    BY <2>1, <2>3
  <2> QED
    BY <2>3, <2>4 DEF Arriving, Ends
<1> QED
  BY <1>1, <1>2 DEF Arriving

\* The frame that ends a file is put on its way as the file is counted as complete.
LEMMA SenderArrives ==
  ASSUME TransferInv, EndsArrive, SenderKinds, UNCHANGED <<receiverVars, cut>>,
         result' = "ok" => result # "failed"
  PROVE  EndsArrive'
<1>1. SUFFICES ASSUME Undisturbed', result' # "failed", NEW i \in completed'
               PROVE  Arriving(i)'
  BY DEF EndsArrive
<1>2. Undisturbed
  BY <1>1 DEF Undisturbed, receiverVars
<1>3. at # "closed" /\ result # "failed"
  BY DEF SenderKinds, SenderTalks, SenderBegins, SenderStops, SenderHears,
     SenderOnward, SenderChunk, TransferInv, SenderSide
<1>4. \A k \in completed : Arriving(k)
  BY <1>2, <1>3 DEF EndsArrive
<1>5. \A k \in completed : toReceiver' = toReceiver => Arriving(k)'
  BY <1>4 DEF Arriving, Ends, receiverVars, Receiver!Reported
<1>6. ASSUME NEW frames \in Seq(Greetings), Says(frames), NEW k \in completed
      PROVE  Arriving(k)'
  <2>1. frames \in Seq(Greetings \cup Chunks')
    BY <1>6, SeqMonotonic
  <2> QED
    BY <1>4, <1>6, <2>1, ArrivingLonger
<1>7. CASE SamePlace /\ SaysMore
  BY <1>1, <1>5, <1>6, <1>7 DEF SamePlace, SaysMore
<1>8. CASE SamePlace /\ \E frames \in Seq(Greetings) : Says(frames)
  BY <1>1, <1>6, <1>8 DEF SamePlace
<1>9. CASE toReceiver' = toReceiver /\ completed' = completed
  BY <1>1, <1>5, <1>9
<1>10. CASE SenderChunk
  <2>1. ~ended
    BY <1>10 DEF SenderChunk, TransferInv, SenderSide
  <2>2. PICK f : Says(<<f>>) /\ (ended' => Ends(f, current))
    <3>1. CASE ~ended'
      BY <1>10, <3>1 DEF SenderChunk
    <3>2. CASE ended'
      <4>1. Says(<<Sender!FileChunk(current, offset, <<>>, TRUE)>>)
        BY <1>10, <2>1, <3>2 DEF SenderChunk
      <4>2. Ends(Sender!FileChunk(current, offset, <<>>, TRUE), current)
        BY DEF Ends, Sender!FileChunk
      <4> QED
        BY <4>1, <4>2
    <3> QED
      BY <3>1, <3>2
  <2>3. Len(toReceiver) \in Nat /\ Len(toReceiver') = Len(toReceiver) + 1
        /\ toReceiver'[Len(toReceiver) + 1] = f
        /\ \A n \in 1..Len(toReceiver) : toReceiver'[n] = toReceiver[n]
    <3>1. toReceiver' = toReceiver \o <<f>>
      BY <2>2 DEF Says
    <3>2. toReceiver \in Seq(Greetings \cup Chunks)
      BY SentForm
    <3> QED
      BY <3>1, <3>2
  <2>4. CASE i \in completed
    <3>1. CASE i \in Receiver!Reported
      BY <3>1 DEF receiverVars, Receiver!Reported, Arriving
    <3>2. CASE \E n \in 1..Len(toReceiver) : Ends(toReceiver[n], i)
      <4>1. PICK n \in 1..Len(toReceiver) : Ends(toReceiver[n], i)
        BY <3>2
      <4>2. n \in 1..Len(toReceiver') /\ Ends(toReceiver'[n], i)
        BY <2>3, <4>1
      <4> QED
        BY <4>2 DEF Arriving, Ends
    <3> QED
      BY <1>4, <2>4, <3>1, <3>2 DEF Arriving
  <2>5. CASE i \notin completed
    <3>1. ended' /\ i = current
      BY <1>1, <1>10, <2>1, <2>5 DEF SenderChunk
    <3>2. Ends(f, i)
      BY <2>2, <3>1
    <3>3. Len(toReceiver) + 1 \in 1..Len(toReceiver')
      BY <2>3
    <3> QED
      BY <2>3, <3>2, <3>3 DEF Arriving, Ends
  <2> QED
    BY <2>4, <2>5
<1> QED
  BY <1>7, <1>8, <1>9, <1>10 DEF SenderKinds, SenderTalks, SenderBegins, SenderStops,
     SenderHears, SenderOnward, SamePlace

LEMMA SenderArrival ==
  ASSUME TransferInv, ArrivalInv, SenderNext, cut' = cut
  PROVE  ArrivalInv'
<1>1. SenderKinds /\ UNCHANGED receiverVars
  BY SenderKind
<1>2. Unsafe' /\ (result' = "ok" => result = "ok" \/ Succeeds)
  BY SenderUnsafe DEF ArrivalInv
<1>3. Sent'
  BY <1>1, <1>2, SentStep DEF ArrivalInv
<1>4. at # "closed" /\ result = "none"
  BY <1>1 DEF SenderKinds, SenderTalks, SenderBegins, SenderStops, SenderHears,
     SenderOnward, SenderChunk, TransferInv, SenderSide
<1>5. NothingUnread'
  BY <1>2, <1>4 DEF NothingUnread, Undisturbed, Succeeds
<1>6. EndsArrive'
  BY <1>1, <1>4, SenderArrives DEF ArrivalInv
<1> QED
  BY <1>2, <1>3, <1>5, <1>6 DEF ArrivalInv

\* While it receives, this receiver says nothing.
LEMMA ReceiverQuiet ==
  ASSUME TransferInv, asked = "accepted", ReceiverNext
  PROVE  toSender' = toSender
<1>1. state \in {"Receiving", "Closed"}
  BY DEF TransferInv, ReceiverSide
<1>2. state \notin Receiver!PlainStates
  BY <1>1 DEF Receiver!PlainStates
<1>3. CASE ReceiverReads
  <2> DEFINE f == Head(toReceiver)
  <2>1. f \in Greetings \cup Chunks
    BY <1>3, HeadTailProperties DEF ReceiverReads, TransferInv, Stream
  <2>2. Receiver!SecureFrame(f) /\ state = "Receiving"
    BY <1>1, <1>2, <1>3 DEF ReceiverReads, Receiver!PlainFrame, Receiver!SecureFrame,
       Receiver!SecureStates
  <2> HIDE DEF f
  <2>3. CASE Receiver!FilePayload(f)
    BY <2>3 DEF Receiver!FilePayload, Receiver!IncomingFile, Receiver!Fail
  <2>4. CASE Receiver!ControlFrame(f)
    BY <2>1, <2>2, <2>4, ControlHandled
  <2>5. CASE Receiver!BytePayload(f)
    <3>1. ASSUME NEW payload, Receiver!SharingFrame(payload)
          PROVE  toSender' = toSender
      BY <2>2, <3>1 DEF Receiver!SharingFrame, Receiver!Fail
    <3>2. ASSUME NEW payload, Receiver!IncomingFile(f.id, 0, TRUE, payload)
          PROVE  toSender' = toSender
      BY <3>2 DEF Receiver!IncomingFile, Receiver!Fail
    <3> QED
      BY <2>5, <3>1, <3>2 DEF Receiver!BytePayload, Receiver!Fail
  <2> QED
    BY <2>2, <2>3, <2>4, <2>5 DEF Receiver!SecureFrame
<1>4. CASE ReceiverAnswers
  BY <1>1, <1>4 DEF ReceiverAnswers, Receiver!ConsentAccepted, Receiver!ConsentFails,
     Receiver!ConsentRejected
<1>5. CASE ReceiverTimesOut \/ ReceiverSeesEnd
  BY <1>5 DEF ReceiverTimesOut, ReceiverSeesEnd, Receiver!HandshakeGivesUp,
     Receiver!InactivityTimeout, Receiver!StreamEnds, Receiver!Fail
<1> QED
  BY <1>3, <1>4, <1>5 DEF ReceiverNext

\* A chunk is stored, or the session has failed.
LEMMA FileSettled ==
  ASSUME TransferInv, ReceiverReads, Head(toReceiver).kind = "file"
  PROVE  verdict' = "failed" \/ ReceiverStored(Head(toReceiver))
<1> DEFINE f == Head(toReceiver)
<1>1. CASE Receiver!Fail
  BY <1>1 DEF Receiver!Fail
<1>2. CASE Receiver!PlainFrame(f)
  BY <1>1, <1>2 DEF Receiver!PlainFrame, Receiver!PlainStates
<1>3. CASE Receiver!SecureFrame(f)
  <2>1. state # "Closed" /\ f.kind = "file" /\ Receiver!FilePayload(f)
    BY <1>3 DEF Receiver!SecureFrame, Receiver!SecureStates, Receiver!BytePayload,
       Receiver!ControlFrame
  <2> HIDE DEF f
  <2>2. CASE f.total = size[f.id] /\ Receiver!IncomingFile(f.id, f.offset, f.last, f.body)
    BY <1>1, <2>1, <2>2 DEF Receiver!IncomingFile, Receiver!Finishes, ReceiverStored, f
  <2> QED
    BY <1>1, <2>1, <2>2 DEF Receiver!FilePayload
<1> QED
  BY <1>2, <1>3 DEF ReceiverReads

LEMMA ReportsStay ==
  ASSUME TransferInv, ReceiverNext
  PROVE  Receiver!Reported \subseteq Receiver!Reported'
<1>1. events \in Seq(1..N) /\ Len(events) \in Nat
  BY SentForm
<1>2. events' = events \/ \E i \in 1..N : events' = Append(events, i)
  <2>1. CASE ReceiverGranted \/ ReceiverEnds \/ ReceiverTalks \/ ReceiverIntroduced
    BY <2>1 DEF ReceiverGranted, ReceiverEnds, ReceiverTalks, ReceiverIntroduced, CopiesStay
  <2>2. CASE toReceiver # <<>> /\ ReceiverStored(Head(toReceiver))
    <3>1. Head(toReceiver) \in Chunks
      BY <2>2, SentForm, HeadTailProperties, StreamForm DEF ReceiverStored
    <3>2. Head(toReceiver).id \in 1..N
      BY <3>1 DEF Chunks, FileFrames
    <3> QED
      BY <2>2, <3>2 DEF ReceiverStored
  <2> QED
    BY <2>1, <2>2, ReceiverKind DEF Handled
<1>3. CASE events' = events
  BY <1>3 DEF Receiver!Reported
<1>4. ASSUME NEW i \in 1..N, events' = Append(events, i)
      PROVE  Receiver!Reported \subseteq Receiver!Reported'
  <2>1. Len(events') = Len(events) + 1 /\ \A n \in 1..Len(events) : events'[n] = events[n]
    BY <1>1, <1>4
  <2>2. \A n \in 1..Len(events) : n \in 1..Len(events')
    BY <1>1, <2>1
  <2> QED
    BY <2>1, <2>2 DEF Receiver!Reported
<1> QED
  BY <1>2, <1>3, <1>4

LEMMA ReceiverArrives ==
  ASSUME TransferInv, TypesInv, EndsArrive, ReceiverNext, UNCHANGED <<completed, result, cut>>
  PROVE  EndsArrive'
<1>1. SUFFICES ASSUME Undisturbed', result' # "failed", NEW i \in completed'
               PROVE  Arriving(i)'
  BY DEF EndsArrive
<1>2. state # "Closed"
  BY ReceiverKind DEF Handled, ReceiverGranted, ReceiverEnds, ReceiverTalks,
     ReceiverIntroduced, ReceiverStored, PreConsent
<1>3. Undisturbed
  BY <1>1, <1>2 DEF Undisturbed, TypesInv, ReceiverTypes
<1>4. Arriving(i)
  BY <1>1, <1>3 DEF EndsArrive
<1>5. CASE i \in Receiver!Reported
  BY <1>5, ReportsStay DEF Arriving
<1>6. CASE toReceiver' = toReceiver /\ \E n \in 1..Len(toReceiver) : Ends(toReceiver[n], i)
  BY <1>6 DEF Arriving, Ends
<1>7. CASE ReceiverReads /\ \E n \in 1..Len(toReceiver) : Ends(toReceiver[n], i)
  <2>1. PICK n \in 1..Len(toReceiver) : Ends(toReceiver[n], i)
    BY <1>7
  <2>2. /\ toReceiver # <<>> /\ toReceiver' = Tail(toReceiver)
        /\ Len(toReceiver) \in Nat /\ Len(toReceiver') = Len(toReceiver) - 1
    BY <1>7, SentForm DEF ReceiverReads
  <2>3. CASE n = 1
    <3>1. Ends(Head(toReceiver), i)
      BY <2>1, <2>2, <2>3, SentForm
    <3>2. ReceiverStored(Head(toReceiver))
      BY <1>1, <1>7, <3>1, FileSettled DEF Ends, Undisturbed
    <3>3. events' = Append(events, i)
      BY <3>1, <3>2 DEF ReceiverStored, Ends
    <3>4. events'[Len(events) + 1] = i /\ Len(events') = Len(events) + 1 /\ Len(events) \in Nat
      BY <3>3, SentForm
    <3>5. Len(events) + 1 \in 1..Len(events')
      BY <3>4
    <3>6. i \in Receiver!Reported'
      BY <3>4, <3>5 DEF Receiver!Reported
    <3> QED
      BY <3>6 DEF Arriving
  <2>4. CASE n # 1
    <3>1. n - 1 \in 1..Len(toReceiver')
      BY <2>2, <2>4
    <3>2. toReceiver'[n - 1] = toReceiver[n]
      BY <2>2, <2>4, SentForm
    <3>3. Ends(toReceiver'[n - 1], i)
      BY <2>1, <3>2
    <3> QED
      BY <3>1, <3>3 DEF Arriving, Ends
  <2> QED
    BY <2>3, <2>4
<1>8. ReceiverReads \/ toReceiver' = toReceiver
  BY DEF ReceiverNext, ReceiverAnswers, ReceiverTimesOut, ReceiverSeesEnd
<1> QED
  BY <1>4, <1>5, <1>6, <1>7, <1>8 DEF Arriving

LEMMA ReceiverArrival ==
  ASSUME TransferInv, TypesInv, ArrivalInv, ReceiverNext, cut' = cut
  PROVE  ArrivalInv'
<1>1. UNCHANGED senderVars
  BY ReceiverKind
<1>2. Unsafe' /\ Sent'
  BY <1>1 DEF ArrivalInv, Unsafe, Sent, senderVars
<1>3. state # "Closed"
  BY ReceiverKind DEF Handled, ReceiverGranted, ReceiverEnds, ReceiverTalks,
     ReceiverIntroduced, ReceiverStored, PreConsent
<1>4. Undisturbed' => Undisturbed
  BY <1>3 DEF Undisturbed, TypesInv, ReceiverTypes
<1>5. result = "ok" => toSender' = toSender
  BY ReceiverQuiet DEF TransferInv, SenderSide, ReplySide
<1>6. NothingUnread'
  BY <1>1, <1>4, <1>5 DEF ArrivalInv, NothingUnread, senderVars
<1>7. EndsArrive'
  BY <1>1, ReceiverArrives DEF ArrivalInv, senderVars
<1> QED
  BY <1>2, <1>6, <1>7 DEF ArrivalInv

\* A close destroys frames only if there are unread ones at the end that closes.
LEMMA NetworkArrival ==
  ASSUME TransferInv, TypesInv, ArrivalInv, UNCHANGED <<senderVars, receiverVars>>,
         cut \subseteq cut',
         toSender' = toSender \/ toSender' = <<>>,
         toReceiver' = toReceiver \/ (at = "closed" /\ toSender # <<>>)
  PROVE  ArrivalInv'
<1>1. Unsafe' /\ Sent'
  BY DEF ArrivalInv, Unsafe, Sent, senderVars
<1>2. Undisturbed' => Undisturbed
  BY DEF Undisturbed, receiverVars
<1>3. NothingUnread'
  BY <1>2 DEF ArrivalInv, NothingUnread, senderVars
<1>4. EndsArrive'
  <2>1. SUFFICES ASSUME Undisturbed', result' # "failed", NEW i \in completed'
                 PROVE  Arriving(i)'
    BY DEF EndsArrive
  <2>2. Arriving(i)
    BY <1>2, <2>1 DEF ArrivalInv, EndsArrive, senderVars
  <2>3. result = result' /\ (at = "closed" => result # "none")
    BY DEF senderVars, TransferInv, SenderSide
  <2>4. toReceiver' = toReceiver
    <3>1. SUFFICES ASSUME at = "closed", toSender # <<>> PROVE FALSE
      OBVIOUS
    <3>2. result = "ok"
      BY <2>1, <2>3, <3>1 DEF TypesInv, SenderTypes
    <3> QED
      BY <1>2, <2>1, <3>1, <3>2 DEF ArrivalInv, NothingUnread
  <2> QED
    BY <2>2, <2>4 DEF receiverVars, Receiver!Reported, Arriving, Ends
<1> QED
  BY <1>1, <1>3, <1>4 DEF ArrivalInv

LEMMA ArrivalStep ==
  ASSUME TransferInv, TypesInv, ArrivalInv, [Next]_vars PROVE ArrivalInv'
<1>1. CASE SenderNext
  <2>1. cut' = cut
    BY <1>1 DEF SenderNext, SenderReads, SenderStreams, SenderWorks, SenderGivesUp,
       SenderSeesEnd, FileResized
  <2> QED
    BY <1>1, <2>1, SenderArrival
<1>2. CASE ReceiverNext
  <2>1. cut' = cut
    BY <1>2 DEF ReceiverNext, ReceiverReads, ReceiverAnswers, ReceiverTimesOut, ReceiverSeesEnd
  <2> QED
    BY <1>2, <2>1, ReceiverArrival
<1>3. CASE Cut("toReceiver") \/ Cut("toSender")
  BY <1>3, NetworkArrival DEF Cut
<1>4. CASE Reset
  BY <1>4, NetworkArrival DEF Reset, SenderClosed
<1>5. CASE UNCHANGED vars
  BY <1>5, NetworkArrival DEF vars
<1> QED
  BY <1>1, <1>2, <1>3, <1>4, <1>5 DEF Next, Step

LEMMA ArrivalInit == Init => ArrivalInv
<1> SUFFICES ASSUME Init PROVE ArrivalInv
  OBVIOUS
<1>1. current = 1 /\ ended = FALSE /\ completed = {} /\ result = "none" /\ at = "start"
      /\ safe = FALSE
  BY DEF Init, Sender!Init
<1> QED
  BY <1>1 DEF ArrivalInv, Unsafe, Sent, NothingUnread, EndsArrive

\* A success of the sender loses bytes only to a cut stream or to a receiver that fails
\* by itself: no close of either end, in whatever order they close, destroys the end of a
\* file (sendFiles and waitForSafeDisconnect against the receiver's loop).
THEOREM NothingLostOnSuccess == Spec => []SuccessOnItsWay
<1>1. Init => ArrivalInv /\ TypesInv
  BY ArrivalInit, TypesInit
<1>2. TransferInv /\ TypesInv /\ ArrivalInv /\ [Next]_vars => ArrivalInv'
  BY ArrivalStep
<1>3. TransferInv /\ TypesInv /\ [Next]_vars => TypesInv'
  BY StepTyped
<1>4. ArrivalInv => SuccessOnItsWay
  <2> SUFFICES ASSUME ArrivalInv, result = "ok", cut = {}, verdict # "failed",
                      NEW i \in 1..N
               PROVE  Arriving(i)
    BY DEF SuccessOnItsWay, Sender!Files, Arriving, Ends
  <2>1. i \in completed
    BY Count DEF ArrivalInv, Sent
  <2> QED
    BY <2>1 DEF ArrivalInv, EndsArrive, Undisturbed
<1> QED
  BY <1>1, <1>2, <1>3, <1>4, Invariance, PTL DEF Spec

-----------------------------------------------------------------------------
(* Two phones implement FileDelivery. *)

\* A step of the sender is a Propose or nothing.
LEMMA SenderDelivers ==
  ASSUME TransferInv, SenderNext PROVE [Delivery!Next]_(Delivery!vars)
<1>1. SenderKinds /\ UNCHANGED receiverVars
  BY SenderKind
<1>2. UNCHANGED <<asked, events, written, state>>
  BY <1>1 DEF receiverVars
<1>3. CASE SenderBegins
  <2>1. asked = "no" /\ length \in [1..N -> Lengths] /\ declared' = length
    BY <1>3 DEF SenderBegins, TransferInv, SenderSide
  <2>2. Delivery!Propose
    BY <1>2, <2>1 DEF Delivery!Propose, ReceiverClosed
  <2> QED
    BY <2>2 DEF Delivery!Next
<1>4. CASE ~SenderBegins
  <2>1. declared' = declared
    BY <1>1, <1>4 DEF SenderKinds, SenderTalks, SenderStops, SenderHears, SenderOnward,
       SenderChunk
  <2> QED
    BY <1>2, <2>1 DEF Delivery!vars, ReceiverClosed
<1> QED
  BY <1>3, <1>4

\* The copies reported so far.
LEMMA StoreForm ==
  ASSUME TransferInv
  PROVE  /\ Len(events) \in Nat /\ Len(events) <= N
         /\ \A n \in 1..Len(events) : events[n] = n /\ n \in 1..N
         /\ [n \in 1..Len(events) |-> written[events[n]]] \in Seq({written[i] : i \in 1..N})
         /\ Len([n \in 1..Len(events) |-> written[events[n]]]) = Len(events)
<1>1. Len(events) \in Nat /\ Len(events) <= N /\ N \in Nat
  BY SentForm, Count DEF TransferInv, Copies
<1>2. \A n \in 1..Len(events) : events[n] = n /\ n \in 1..N
  BY <1>1 DEF TransferInv, Copies
<1>3. \A n \in 1..Len(events) : written[events[n]] \in {written[i] : i \in 1..N}
  BY <1>2
<1>4. [n \in 1..Len(events) |-> written[events[n]]] \in Seq({written[i] : i \in 1..N})
  BY <1>1, <1>3
<1> QED
  BY <1>1, <1>2, <1>4

\* A chunk that is stored makes a whole file appear, or nothing.
LEMMA StoredDelivers ==
  ASSUME TransferInv, UNCHANGED senderVars,
         toReceiver # <<>>, NEW f, f = Head(toReceiver), ReceiverStored(f)
  PROVE  [Delivery!Next]_(Delivery!vars)
<1> DEFINE store == [n \in 1..Len(events) |-> written[events[n]]]
           i == f.id
<1>1. /\ f \in Chunks /\ state = "Receiving" /\ offered = (Len(events) + 1)..N
      /\ i = Len(events) + 1 /\ i \in 1..N /\ f.offset = received[i] /\ f.total = size[i]
  BY StoredForm DEF ReceiverStored
<1>2. asked = "accepted" /\ asked' = asked /\ declared' = declared
  BY <1>1 DEF TransferInv, ReceiverSide, ReceiverStored, senderVars
<1>3. state' = IF offered' = {} THEN "Closed" ELSE state
  BY DEF ReceiverStored
<1>4. Len(events) \in Nat /\ N \in Nat /\ Len(store) = Len(events)
      /\ \A n \in 1..Len(events) : events[n] = n /\ n \in 1..N /\ n # i
  BY <1>1, StoreForm, Count
<1>5. \A j \in 1..N : j # i => written'[j] = written[j]
  <2>1. written' = [written EXCEPT ![i] = @ \o f.body] /\ DOMAIN written = 0..N
    BY DEF ReceiverStored, Receiver!WriteChunk, TransferInv, Copies
  <2>2. \A j \in 1..N : j \in 0..N
    BY <1>4
  <2> HIDE DEF i
  <2> QED
    BY <2>1, <2>2
<1>6. CASE ~f.last
  <2>1. UNCHANGED <<events, offered>>
    BY <1>6 DEF ReceiverStored
  <2>2. offered # {}
    BY <1>1, <1>4
  <2>3. store' = store
    BY <1>4, <1>5, <2>1
  <2>4. state' = state
    BY <1>3, <2>1, <2>2
  <2> QED
    BY <1>2, <2>3, <2>4 DEF Delivery!vars, ReceiverClosed
<1>7. CASE f.last
  <2>1. events' = Append(events, i) /\ offered' = offered \ {i}
    BY <1>7 DEF ReceiverStored
  <2>2. /\ Len(events') = i /\ events'[i] = i
        /\ \A n \in 1..Len(events) : events'[n] = n
    BY <1>1, <1>4, <2>1, SentForm, AppendProperties
  <2>3. written'[i] = Delivery!Content(i)
    <3>1. Copies'
      BY CopiesStored
    <3>2. written'[i] = [u \in 1..received'[i] |-> [file |-> i, unit |-> u]]
      BY <1>1, <3>1 DEF Copies
    <3>3. received'[i] = declared[i]
      BY <1>1, <1>2, <2>2, <3>1 DEF Copies
    <3> QED
      BY <3>2, <3>3 DEF Delivery!Content
  <2> DEFINE S == {written[j] : j \in 1..N} \cup {Delivery!Content(i)}
  <2>4. store' = Append(store, Delivery!Content(i)) /\ Len(store') = i
    <3>1. store \in Seq(S) /\ Len(store) = Len(events)
      BY StoreForm, SeqMonotonic
    <3>2. /\ Append(store, Delivery!Content(i)) \in Seq(S)
          /\ Len(Append(store, Delivery!Content(i))) = i
          /\ \A n \in 1..Len(events) : Append(store, Delivery!Content(i))[n] = store[n]
          /\ Append(store, Delivery!Content(i))[i] = Delivery!Content(i)
      <4>1. Delivery!Content(i) \in S
        OBVIOUS
      <4> HIDE DEF i, store, S
      <4> QED
        BY <1>1, <3>1, <4>1, AppendProperties
    <3>3. \A n \in 1..Len(events) : store'[n] = store[n] /\ store'[n] \in S
      <4> SUFFICES ASSUME NEW n \in 1..Len(events)
                   PROVE  store'[n] = store[n] /\ store'[n] \in S
        OBVIOUS
      <4>1. n \in 1..Len(events') /\ events'[n] = n /\ n \in 1..N /\ n # i /\ events[n] = n
        BY <1>1, <1>4, <2>2
      <4>2. written'[n] = written[n]
        BY <1>5, <4>1
      <4> QED
        BY <4>1, <4>2
    <3>4. store'[i] = Delivery!Content(i)
      BY <1>1, <1>4, <2>2, <2>3
    <3>5. store' \in Seq(S) /\ Len(store') = i
      <4>1. store' = [n \in 1..i |-> written'[events'[n]]]
        BY <2>2
      <4>2. \A n \in 1..i : n \in 1..Len(events) \/ n = i
        BY <1>1, <1>4
      <4>3. \A n \in 1..i : store'[n] \in S
        BY <3>3, <3>4, <4>2
      <4>4. \A n \in 1..i : written'[events'[n]] \in S
        BY <4>1, <4>3
      <4>5. i \in Nat
        BY <1>1, <1>4
      <4> HIDE DEF i, S
      <4>6. [n \in 1..i |-> written'[events'[n]]] \in Seq(S)
        BY <4>4, <4>5
      <4>7. Len([n \in 1..i |-> written'[events'[n]]]) = i
        BY <4>5
      <4> HIDE DEF store
      <4> QED
        BY <4>1, <4>6, <4>7
    <3>6. \A n \in 1..i : store'[n] = Append(store, Delivery!Content(i))[n]
      <4>1. \A n \in 1..i : n \in 1..Len(events) \/ n = i
        BY <1>1, <1>4
      <4> QED
        BY <3>2, <3>3, <3>4, <4>1
    <3> HIDE DEF i, store, S
    <3> QED
      BY <3>2, <3>5, <3>6, SeqEqual
  <2>5. ReceiverClosed' <=> i = N
    BY <1>1, <1>3, <1>4, <2>1 DEF ReceiverClosed
  <2>6. Delivery!Appear
    BY <1>1, <1>2, <1>4, <2>4, <2>5 DEF Delivery!Appear, ReceiverClosed
  <2> QED
    BY <2>6 DEF Delivery!Next
<1> QED
  BY <1>6, <1>7

\* A step of the receiver is an Accept, an Appear, a Stop or nothing.
LEMMA ReceiverDelivers ==
  ASSUME TransferInv, ReceiverNext PROVE [Delivery!Next]_(Delivery!vars)
<1>1. UNCHANGED senderVars /\ declared' = declared
  BY ReceiverKind DEF senderVars
<1>2. CASE ReceiverEnds
  <2>1. Delivery!Stop
    BY <1>1, <1>2 DEF ReceiverEnds, CopiesStay, Delivery!Stop, ReceiverClosed
  <2> QED
    BY <2>1 DEF Delivery!Next
<1>3. CASE ReceiverGranted
  <2>1. asked = "asked"
    BY <1>3 DEF ReceiverGranted, TransferInv, ReceiverSide
  <2>2. Delivery!Accept
    BY <1>1, <1>3, <2>1 DEF ReceiverGranted, CopiesStay, Delivery!Accept, ReceiverClosed
  <2> QED
    BY <2>2 DEF Delivery!Next
<1>4. CASE ReceiverTalks
  BY <1>1, <1>4 DEF ReceiverTalks, CopiesStay, Delivery!vars, ReceiverClosed, PreConsent,
     Receiver!PlainStates
<1>5. CASE ReceiverIntroduced
  <2>1. asked = "no"
    BY <1>5 DEF ReceiverIntroduced, TransferInv, ReceiverSide, PreConsent
  <2> QED
    BY <1>1, <1>5, <2>1 DEF ReceiverIntroduced, Delivery!vars, ReceiverClosed
<1>6. CASE toReceiver # <<>> /\ ReceiverStored(Head(toReceiver))
  BY <1>1, <1>6, StoredDelivers
<1> QED
  BY <1>2, <1>3, <1>4, <1>5, <1>6, ReceiverKind DEF Handled

LEMMA NextDelivers ==
  ASSUME TransferInv, [Next]_vars PROVE [Delivery!Next]_(Delivery!vars)
<1>1. CASE SenderNext
  BY <1>1, SenderDelivers
<1>2. CASE ReceiverNext
  BY <1>2, ReceiverDelivers
<1>3. CASE UNCHANGED <<senderVars, receiverVars>>
  BY <1>3 DEF senderVars, receiverVars, Delivery!vars, ReceiverClosed
<1> QED
  BY <1>1, <1>2, <1>3 DEF Next, Step, Cut, Reset, vars

LEMMA InitDelivers == Init => Delivery!Init
<1> SUFFICES ASSUME Init PROVE Delivery!Init
  OBVIOUS
<1>1. events = <<>> /\ state # "Closed" /\ asked = "no" /\ declared \in [1..N -> Lengths]
  BY DEF Init, Sender!Init, Receiver!Init, Sender!Files
<1>2. [n \in 1..Len(events) |-> written[events[n]]] = <<>>
  BY <1>1
<1> QED
  BY <1>1, <1>2 DEF Delivery!Init, ReceiverClosed

\* Whatever is cut, lost, resized or given up, what appears on the receiving phone are
\* whole files, in the order of the selection and only after its user's yes: the two
\* threads and the stream between them implement FileDelivery.
THEOREM Implements == Spec => Delivers
<1>1. Init => Delivery!Init
  BY InitDelivers
<1>2. TransferInv /\ [Next]_vars => [Delivery!Next]_(Delivery!vars)
  BY NextDelivers
<1> QED
  BY <1>1, <1>2, Invariance, PTL DEF Spec, Delivers, Delivery!Spec
=============================================================================
