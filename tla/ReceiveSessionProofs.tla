------------------------ MODULE ReceiveSessionProofs ------------------------
(***************************************************************************)
(* What ReceiveSession guarantees for every set of payload ids, every set  *)
(* of well-formed frames and every limit, proved.                          *)
(***************************************************************************)
EXTENDS ReceiveSession, DataLemmas, SequenceTheorems, TLAPS

PreConsent == PlainStates \cup
              {"AwaitPairedEncryption", "AwaitPairedResult", "AwaitIntroduction"}

-----------------------------------------------------------------------------
(* What a step may do, whichever handler takes it. *)

\* Nothing to the attachments; the handshake may go on.
Quiet ==
  /\ UNCHANGED <<fileVars, progress, asked, verdict>>
  /\ state' = state \/ (state \in PreConsent /\ state' \in PreConsent)

\* The end of run(), with its result.
Ends ==
  /\ state # "Closed" /\ state' = "Closed"
  /\ CloseFiles
  /\ asked' = asked
  /\ progress' = FALSE \/ progress' = (progress /\ state # "Receiving")
  /\ verdict' = "failed" \/ (verdict' = "ok" /\ state = "AwaitConsent")

\* The question is asked, with the attachments of a valid Introduction.
Introduced ==
  /\ state = "AwaitIntroduction" /\ state' = "AwaitConsent"
  /\ asked' = "asked"
  /\ offered' \subseteq Id /\ text' \subseteq Id
  /\ size' \in [Id -> -1..MaxInt64]
  /\ \A i \in Id : size'[i] >= 0 <=> i \in offered'
  /\ UNCHANGED <<received, open, onDisk, written, receivedBytes, events, progress, verdict>>

\* The user's yes.
Granted ==
  /\ state = "AwaitConsent" /\ state' = "Receiving"
  /\ asked' = "accepted"
  /\ open' = offered /\ onDisk' = onDisk \cup offered
  /\ progress' = TRUE
  /\ UNCHANGED <<offered, text, size, received, written, receivedBytes, events, verdict>>

\* A chunk is written, and may end its file.
Stored ==
  \E id \in Id, body \in Seq(PayloadUnit) :
    /\ id \in offered /\ id \in open
    /\ WriteChunk(id, body) /\ received[id] + Len(body) <= size[id]
    /\ \/ /\ received[id] + Len(body) = size[id]
          /\ events' = Append(events, id)
          /\ offered' = offered \ {id}
          /\ open' = open \ {id}
       \/ UNCHANGED <<events, offered, open>>
    /\ \/ /\ offered' = {} /\ state' = "Closed" /\ verdict' = "ok" /\ progress' = FALSE
       \/ /\ offered' # {} /\ UNCHANGED <<state, verdict>> /\ progress' = TRUE
    /\ UNCHANGED <<text, size, onDisk, asked>>

\* What the handlers rely on.
Known ==
  /\ state \in PreConsent \cup {"AwaitConsent", "Receiving", "Closed"}
  /\ offered \subseteq Id /\ open \subseteq Id
  /\ buffers \in [Id -> Seq(PayloadUnit)]

LEMMA FailEnds ==
  ASSUME Fail, state # "Closed" PROVE Ends
BY DEF Fail, Ends

LEMMA ReturnEnds ==
  ASSUME NEW result, Return(result), state # "Closed",
         result = "failed" \/ (result = "ok" /\ state = "AwaitConsent")
  PROVE  Ends
BY DEF Return, Ends

LEMMA IncomingStores ==
  ASSUME Known, state # "Closed", NEW id, NEW offset, NEW last,
         NEW body \in Seq(PayloadUnit), IncomingFile(id, offset, last, body)
  PROVE  Stored \/ Ends
<1>1. CASE Fail
  BY <1>1, FailEnds
<1>2. CASE ~Fail
  <2>1. id \in offered /\ id \in open /\ id \in Id
    BY <1>2 DEF IncomingFile, Fits, Known
  <2>2. \/ /\ received[id] + Len(body) = size[id]
           /\ events' = Append(events, id)
           /\ offered' = offered \ {id}
           /\ open' = open \ {id}
        \/ UNCHANGED <<events, offered, open>>
    BY <1>2 DEF IncomingFile, Finishes, Completes
  <2>3. \/ /\ offered' = {} /\ state' = "Closed" /\ verdict' = "ok" /\ progress' = FALSE
        \/ /\ offered' # {} /\ UNCHANGED <<state, verdict>> /\ progress' = TRUE
    BY <1>2 DEF IncomingFile
  <2>4. /\ WriteChunk(id, body) /\ received[id] + Len(body) <= size[id]
        /\ UNCHANGED <<text, size, onDisk, asked>>
    BY <1>2 DEF IncomingFile, Fits
  <2> QED
    BY <2>1, <2>2, <2>3, <2>4 DEF Stored
<1> QED
  BY <1>1, <1>2

\* A total that fits makes every size fit.
LEMMA DeclaredFit ==
  ASSUME NEW meta \in Seq(Metadata), ValidIntroduction(meta)
  PROVE  \A m \in 1..Len(meta) : meta[m].size \in 0..MaxInt64
<1> DEFINE sizes == [m \in DOMAIN meta |-> meta[m].size]
<1>1. DOMAIN meta = 1..Len(meta) /\ Len(meta) \in Nat
  BY LenProperties
<1>2. \A m \in 1..Len(meta) : meta[m] \in Metadata
  BY ElementOfSeq
<1>3. sizes \in [1..Len(meta) -> Nat]
  BY <1>1, <1>2 DEF Metadata
<1>4. IsFiniteSet(1..Len(meta))
  BY <1>1, FS_Interval
<1>5. SumOver(1..Len(meta), sizes) <= MaxInt64
  BY <1>1 DEF ValidIntroduction, DeclaredTotal
<1>6. \A m \in 1..Len(meta) : sizes[m] = meta[m].size
  BY <1>1
<1> HIDE DEF sizes
<1>7. /\ SumOver(1..Len(meta), sizes) \in Nat
      /\ \A m \in 1..Len(meta) : sizes[m] <= SumOver(1..Len(meta), sizes)
  BY <1>3, <1>4, SumBounds
<1>8. \A m \in 1..Len(meta) : sizes[m] \in 0..MaxInt64
  BY <1>3, <1>5, <1>7, LimitsAssumption
<1> QED
  BY <1>6, <1>8

LEMMA IntroductionAsks ==
  ASSUME NEW meta \in Seq(Metadata), ProcessIntroduction(meta), state = "AwaitIntroduction"
  PROVE  Introduced \/ Ends
<1>1. CASE Fail
  BY <1>1, FailEnds
<1>2. CASE ~Fail
  <2> DEFINE Entry(i) == CHOOSE m \in 1..Len(meta) : meta[m].id = i
  <2>1. /\ ValidIntroduction(meta)
        /\ offered' = {meta[m].id : m \in 1..Len(meta)}
        /\ text' \subseteq offered'
        /\ size' = [i \in Id |-> IF i \in offered' THEN meta[Entry(i)].size ELSE -1]
        /\ state' = "AwaitConsent" /\ asked' = "asked"
        /\ UNCHANGED <<received, open, onDisk, written, receivedBytes, events, progress, verdict>>
    BY <1>2 DEF ProcessIntroduction
  <2>2. \A m \in 1..Len(meta) : meta[m].id \in Id /\ meta[m].size \in Nat
    <3>1. \A m \in 1..Len(meta) : meta[m] \in Metadata
      BY ElementOfSeq
    <3> QED
      BY <3>1 DEF Metadata
  <2>3. offered' \subseteq Id
    BY <2>1, <2>2
  <2>4. \A i \in offered' : Entry(i) \in 1..Len(meta)
    BY <2>1
  <2> HIDE DEF Entry
  <2>5. \A i \in Id : size'[i] = IF i \in offered' THEN meta[Entry(i)].size ELSE -1
    BY <2>1
  <2>6. \A i \in offered' : meta[Entry(i)].size \in 0..MaxInt64
    BY <2>1, <2>4, DeclaredFit
  <2>7. size' \in [Id -> -1..MaxInt64] /\ \A i \in Id : size'[i] >= 0 <=> i \in offered'
    BY <2>1, <2>5, <2>6, LimitsAssumption
  <2> QED
    BY <2>1, <2>3, <2>7 DEF Introduced
<1> QED
  BY <1>1, <1>2

LEMMA SharingClass ==
  ASSUME Known, state \in SecureStates, NEW payload \in Seq(PayloadUnit), SharingFrame(payload)
  PROVE  Quiet \/ Ends \/ Introduced
<1> USE DEF SecureStates, PreConsent
<1> DEFINE kind == IF Len(payload) = 1 THEN payload[1].share ELSE "text"
<1>1. CASE Fail
  BY <1>1, FailEnds
<1>2. CASE Return("failed")
  BY <1>2, ReturnEnds
<1>3. CASE state = "AwaitIntroduction" /\ kind = "Introduction" /\ ProcessIntroduction(payload[1].meta)
  <2>1. Len(payload) = 1 /\ payload[1] \in PayloadUnit
    BY <1>3, ElementOfSeq
  <2>2. payload[1].meta \in Seq(Metadata)
    BY <2>1 DEF PayloadUnit
  <2> QED
    BY <1>3, <2>2, IntroductionAsks
<1>4. CASE ~Fail /\ ~Return("failed")
           /\ ~(state = "AwaitIntroduction" /\ kind = "Introduction"
                  /\ ProcessIntroduction(payload[1].meta))
  <2>1. /\ UNCHANGED <<fileVars, progress, asked, verdict>>
        /\ \/ state = "AwaitPairedEncryption" /\ state' = "AwaitPairedResult"
           \/ state = "AwaitPairedResult" /\ state' = "AwaitIntroduction"
           \/ state' = state
    BY <1>4 DEF SharingFrame
  <2> QED
    BY <2>1 DEF Quiet
<1> QED
  BY <1>1, <1>2, <1>3, <1>4

LEMMA FileClass ==
  ASSUME Known, state \in SecureStates, NEW f \in PeerFrames, FilePayload(f)
  PROVE  (Stored \/ Ends) /\ UNCHANGED buffers
<1>1. state # "Closed"
  BY DEF SecureStates
<1>2. f.body \in Seq(PayloadUnit)
  BY FramesAssumption DEF FilePayload
<1>3. IncomingFile(f.id, f.offset, f.last, f.body) \/ Fail
  BY DEF FilePayload
<1>4. UNCHANGED buffers
  BY DEF FilePayload, bufferVars
<1> QED
  BY <1>1, <1>2, <1>3, <1>4, FailEnds, IncomingStores

LEMMA ByteClass ==
  ASSUME Known, state \in SecureStates, NEW f \in PeerFrames, BytePayload(f)
  PROVE  /\ Quiet \/ Stored \/ Ends \/ Introduced
         /\ buffers' \in [Id -> Seq(PayloadUnit)]
<1> DEFINE payload == buffers[f.id] \o f.body
<1>1. f.id \in Id /\ f.body \in Seq(PayloadUnit)
  BY FramesAssumption DEF BytePayload
<1>2. buffers[f.id] \in Seq(PayloadUnit) /\ payload \in Seq(PayloadUnit)
  BY <1>1, ConcatProperties DEF Known
<1>3. buffers' \in [Id -> Seq(PayloadUnit)]
  <2>1. \/ UNCHANGED buffers
        \/ buffers' = [buffers EXCEPT ![f.id] = <<>>]
        \/ buffers' = [buffers EXCEPT ![f.id] = payload]
    BY DEF BytePayload, Release, bufferVars
  <2>2. <<>> \in Seq(PayloadUnit)
    BY EmptySeq
  <2> HIDE DEF payload
  <2> QED
    BY <1>1, <1>2, <2>1, <2>2 DEF Known
<1>4. state # "Closed"
  BY DEF SecureStates
<1>5. \/ Fail
      \/ UNCHANGED <<state, fileVars, progress, asked, verdict>>
      \/ IncomingFile(f.id, 0, TRUE, payload)
      \/ SharingFrame(payload)
  BY DEF BytePayload
<1>6. CASE Fail
  BY <1>3, <1>4, <1>6, FailEnds
<1>7. CASE UNCHANGED <<state, fileVars, progress, asked, verdict>>
  BY <1>3, <1>7 DEF Quiet
<1>8. CASE IncomingFile(f.id, 0, TRUE, payload)
  BY <1>2, <1>3, <1>4, <1>8, IncomingStores
<1>9. CASE SharingFrame(payload)
  BY <1>2, <1>3, <1>9, SharingClass
<1> QED
  BY <1>5, <1>6, <1>7, <1>8, <1>9

LEMMA ControlClass ==
  ASSUME Known, state \in SecureStates, NEW f \in PeerFrames, ControlFrame(f)
  PROVE  (Quiet \/ Ends) /\ UNCHANGED buffers
<1>1. state # "Closed"
  BY DEF SecureStates
<1>2. /\ UNCHANGED buffers
      /\ \/ UNCHANGED <<state, fileVars, progress, asked, verdict>>
         \/ Return("failed") \/ Fail
  BY DEF ControlFrame, bufferVars
<1> QED
  BY <1>1, <1>2, FailEnds, ReturnEnds DEF Quiet

LEMMA PlainClass ==
  ASSUME Known, NEW f, PlainFrame(f)
  PROVE  (Quiet \/ Ends) /\ UNCHANGED buffers
<1>1. state \in PlainStates /\ state # "Closed" /\ state \in PreConsent
  BY DEF PlainFrame, PlainStates, PreConsent
<1>2. UNCHANGED buffers
  BY DEF PlainFrame, bufferVars
<1>3. CASE Fail
  BY <1>1, <1>2, <1>3, FailEnds
<1>4. CASE state' = PlainNext(state) /\ UNCHANGED <<fileVars, progress, asked, verdict>>
  <2>1. state' \in PreConsent
    BY <1>1, <1>4 DEF PlainNext, PlainStates, PreConsent
  <2> QED
    BY <1>1, <1>2, <1>4, <2>1 DEF Quiet
<1> QED
  BY <1>3, <1>4 DEF PlainFrame

\* Every step of the session is of one of the five kinds.
LEMMA StepClass ==
  ASSUME Known, [Next]_vars
  PROVE  /\ Quiet \/ Ends \/ Introduced \/ Granted \/ Stored
         /\ buffers' \in [Id -> Seq(PayloadUnit)]
<1>1. CASE PeerFrame
  <2>1. PICK f \in PeerFrames : PlainFrame(f) \/ SecureFrame(f)
    BY <1>1 DEF PeerFrame
  <2>2. CASE PlainFrame(f)
    BY <2>2, PlainClass DEF Known
  <2>3. CASE SecureFrame(f)
    <3>1. state \in SecureStates /\ (FilePayload(f) \/ BytePayload(f) \/ ControlFrame(f))
      BY <2>3 DEF SecureFrame
    <3> QED
      BY <3>1, FileClass, ByteClass, ControlClass DEF Known
  <2> QED
    BY <2>1, <2>2, <2>3
<1>2. CASE PeerTakes \/ PeerVanishes \/ UNCHANGED vars
  BY <1>2 DEF PeerTakes, PeerVanishes, vars, sessionVars, fileVars, bufferVars, Quiet, Known
<1>3. ASSUME HandshakeGivesUp \/ StreamEnds
      PROVE  Ends /\ UNCHANGED buffers
  BY <1>3, ReturnEnds DEF HandshakeGivesUp, StreamEnds, PlainStates, SecureStates, bufferVars
<1>4. CASE OwnStep
  <2>1. CASE ConsentAccepted
    BY <2>1 DEF ConsentAccepted, Granted, bufferVars, Known
  <2>2. CASE ConsentFails \/ ConsentRejected \/ InactivityTimeout
    BY <2>2, ReturnEnds, FailEnds DEF ConsentFails, ConsentRejected, InactivityTimeout,
       bufferVars, Known
  <2> QED
    BY <1>3, <1>4, <2>1, <2>2 DEF OwnStep, Known
<1> QED
  BY <1>1, <1>2, <1>3, <1>4 DEF Next, PeerCloses, Known

-----------------------------------------------------------------------------
(* The inductive invariant, in three parts. *)

Types ==
  /\ Known
  /\ text \subseteq Id
  /\ progress \in BOOLEAN
  /\ asked \in {"no", "asked", "accepted"}
  /\ verdict \in {"none", "ok", "failed"}
  /\ size \in [Id -> -1..MaxInt64] /\ received \in [Id -> Nat]
  /\ written \in [Id -> Seq(PayloadUnit)]
  /\ events \in Seq(Id)

\* What each stage of the session has done so far.  An entry of m_files has a QFile
\* exactly while the session receives, so that no other stage can store a chunk.
Stages ==
  /\ state \in PreConsent => asked = "no" /\ offered = {} /\ open = {} /\ Declared = {}
  /\ state = "AwaitConsent" => asked = "asked" /\ open = {} /\ Declared = offered
  /\ state = "Receiving" => asked = "accepted" /\ open = offered
                              /\ Declared = offered \cup Reported
  /\ state = "Closed" => open = {} /\ offered = {}
  /\ progress => state = "Receiving"
  /\ verdict = "none" <=> state # "Closed"
  /\ verdict = "ok" /\ asked = "accepted" => Declared = Reported

\* What is on the disk, and what the history says of it.
Disk ==
  /\ onDisk = Reported \cup open
  /\ Reported \cap offered = {}
  /\ asked # "accepted" => events = <<>> /\ \A i \in Id : written[i] = <<>>
  /\ \A i \in Id : received[i] = Len(written[i])
  /\ \A i \in Reported : Len(written[i]) = size[i]
  /\ \A m, n \in 1..Len(events) : events[m] = events[n] => m = n

SessionInv == Types /\ Stages /\ Disk

LEMMA ReportedAppend ==
  ASSUME Types, NEW id \in Id, events' = Append(events, id)
  PROVE  /\ events' \in Seq(Id)
         /\ Reported' = Reported \cup {id}
         /\ id \notin Reported /\ (\A m, n \in 1..Len(events) : events[m] = events[n] => m = n)
              => \A m, n \in 1..Len(events') : events'[m] = events'[n] => m = n
<1>1. /\ events \in Seq(Id) /\ Len(events) \in Nat
      /\ Len(events') = Len(events) + 1 /\ events' \in Seq(Id)
      /\ \A i \in 1..Len(events) : events'[i] = events[i]
      /\ events'[Len(events) + 1] = id
  BY AppendProperties, LenProperties DEF Types
<1>2. \A m \in 1..Len(events') : m \in 1..Len(events) \/ m = Len(events) + 1
  BY <1>1
<1>3. \A m \in 1..Len(events) : m \in 1..Len(events')
  BY <1>1
<1>4. Len(events) + 1 \in 1..Len(events')
  BY <1>1
<1>5. Reported' = Reported \cup {id}
  BY <1>1, <1>2, <1>3, <1>4 DEF Reported
<1>6. ASSUME id \notin Reported, \A m, n \in 1..Len(events) : events[m] = events[n] => m = n,
             NEW m \in 1..Len(events'), NEW n \in 1..Len(events'), events'[m] = events'[n]
      PROVE  m = n
  <2>1. \A k \in 1..Len(events) : events[k] # id
    BY <1>6 DEF Reported
  <2> QED
    BY <1>1, <1>2, <1>6, <2>1
<1> QED
  BY <1>1, <1>5, <1>6

LEMMA NoneReported ==
  ASSUME events = <<>> PROVE Reported = {}
<1>1. Len(events) = 0
  BY EmptySeq
<1> QED
  BY <1>1 DEF Reported

LEMMA InvInit == Init => SessionInv
<1> SUFFICES ASSUME Init PROVE SessionInv
  OBVIOUS
<1>1. Types
  <2>1. /\ size \in [Id -> -1..MaxInt64] /\ received \in [Id -> Nat]
        /\ written \in [Id -> Seq(PayloadUnit)] /\ events \in Seq(Id)
    BY EmptySeq, LimitsAssumption DEF Init
  <2>2. Known
    BY EmptySeq DEF Init, Known, PreConsent, PlainStates
  <2> QED
    BY <2>1, <2>2, Zenon DEF Init, Types
<1>2. Reported = {}
  BY NoneReported DEF Init
<1>3. Declared = {}
  BY DEF Init, Declared
<1>4. Stages
  BY <1>3, SMT DEF Init, Stages, PreConsent, PlainStates
<1>5. Len(<<>>) = 0
  BY EmptySeq
<1>6. Disk
  BY <1>2, <1>5 DEF Init, Disk
<1> QED
  BY <1>1, <1>4, <1>6 DEF SessionInv

LEMMA InvQuiet ==
  ASSUME SessionInv, Quiet, buffers' \in [Id -> Seq(PayloadUnit)] PROVE SessionInv'
<1> USE DEF Quiet, fileVars
<1>1. Types'
  BY DEF SessionInv, Types, Known
<1>2. Reported' = Reported /\ Declared' = Declared
  BY DEF Reported, Declared
<1>3. Stages'
  BY <1>2 DEF SessionInv, Stages, PreConsent, PlainStates
<1>4. Disk'
  BY <1>2 DEF SessionInv, Disk
<1> QED
  BY <1>1, <1>3, <1>4 DEF SessionInv

LEMMA InvEnds ==
  ASSUME SessionInv, Ends, buffers' \in [Id -> Seq(PayloadUnit)] PROVE SessionInv'
<1> USE DEF Ends, CloseFiles
<1>1. Types'
  BY DEF SessionInv, Types, Known
<1>2. Reported' = Reported /\ Declared' = Declared
  BY DEF Reported, Declared
<1>3. Stages'
  BY <1>2 DEF SessionInv, Stages, PreConsent, PlainStates
<1>4. open \subseteq offered /\ onDisk = Reported \cup open /\ Reported \cap offered = {}
  BY DEF SessionInv, Types, Known, Stages, Disk
<1>5. Disk'
  BY <1>2, <1>4 DEF SessionInv, Disk
<1> QED
  BY <1>1, <1>3, <1>5 DEF SessionInv

LEMMA InvIntroduced ==
  ASSUME SessionInv, Introduced, buffers' \in [Id -> Seq(PayloadUnit)] PROVE SessionInv'
<1> USE DEF Introduced
<1>1. Types'
  BY DEF SessionInv, Types, Known
<1>2. state \in PreConsent /\ asked = "no" /\ open = {} /\ events = <<>>
  BY DEF PreConsent, SessionInv, Stages, Disk
<1>3. Reported = {} /\ Reported' = {}
  BY <1>2, NoneReported DEF Reported
<1>4. Declared' = offered'
  BY DEF Declared
<1>5. Stages'
  BY <1>2, <1>3, <1>4 DEF SessionInv, Stages, PreConsent, PlainStates
<1>6. Disk'
  BY <1>2, <1>3 DEF SessionInv, Disk
<1> QED
  BY <1>1, <1>5, <1>6 DEF SessionInv

LEMMA InvGranted ==
  ASSUME SessionInv, Granted, buffers' \in [Id -> Seq(PayloadUnit)] PROVE SessionInv'
<1> USE DEF Granted
<1>1. Types'
  BY DEF SessionInv, Types, Known
<1>2. asked = "asked" /\ open = {} /\ events = <<>> /\ Declared = offered
  BY DEF SessionInv, Stages, Disk
<1>3. Reported = {} /\ Reported' = {} /\ Declared' = Declared
  BY <1>2, NoneReported DEF Reported, Declared
<1>4. Stages'
  BY <1>2, <1>3 DEF SessionInv, Stages, PreConsent, PlainStates
<1>5. Disk'
  BY <1>2, <1>3 DEF SessionInv, Disk
<1> QED
  BY <1>1, <1>4, <1>5 DEF SessionInv

LEMMA InvStored ==
  ASSUME SessionInv, Stored, buffers' \in [Id -> Seq(PayloadUnit)] PROVE SessionInv'
<1>1. PICK id \in Id, body \in Seq(PayloadUnit) :
        /\ id \in offered /\ id \in open
        /\ WriteChunk(id, body)
        /\ \/ /\ received[id] + Len(body) = size[id]
              /\ events' = Append(events, id)
              /\ offered' = offered \ {id}
              /\ open' = open \ {id}
           \/ UNCHANGED <<events, offered, open>>
        /\ \/ /\ offered' = {} /\ state' = "Closed" /\ verdict' = "ok" /\ progress' = FALSE
           \/ /\ offered' # {} /\ UNCHANGED <<state, verdict>> /\ progress' = TRUE
        /\ UNCHANGED <<text, size, onDisk, asked>>
  BY DEF Stored
<1>2. /\ state = "Receiving" /\ asked = "accepted" /\ open = offered
      /\ Declared = offered \cup Reported /\ id \notin Reported
  BY <1>1 DEF SessionInv, Stages, Disk, Types, Known, PreConsent
<1>3. /\ written' = [written EXCEPT ![id] = @ \o body]
      /\ received' = [received EXCEPT ![id] = @ + Len(body)]
  BY <1>1 DEF WriteChunk
<1>4. /\ written[id] \o body \in Seq(PayloadUnit)
      /\ Len(written[id] \o body) = Len(written[id]) + Len(body)
      /\ Len(body) \in Nat /\ Len(written[id]) = received[id] /\ received[id] \in Nat
  BY <1>1, ConcatProperties, LenProperties DEF SessionInv, Types, Disk
<1>5. /\ written' \in [Id -> Seq(PayloadUnit)] /\ received' \in [Id -> Nat]
      /\ received'[id] = Len(written'[id]) /\ Len(written'[id]) = received[id] + Len(body)
      /\ \A i \in Id \ {id} : written'[i] = written[i] /\ received'[i] = received[i]
  BY <1>3, <1>4 DEF SessionInv, Types
<1>6. Declared' = Declared
  BY <1>1 DEF Declared
<1>7. CASE events' = Append(events, id) /\ received[id] + Len(body) = size[id]
           /\ offered' = offered \ {id} /\ open' = open \ {id}
  <2>1. /\ events' \in Seq(Id) /\ Reported' = Reported \cup {id}
        /\ \A m, n \in 1..Len(events') : events'[m] = events'[n] => m = n
    BY <1>2, <1>7, ReportedAppend DEF SessionInv, Disk
  <2>2. Types'
    BY <1>1, <1>5, <1>7, <2>1 DEF SessionInv, Types, Known
  <2>3. Stages'
    BY <1>1, <1>2, <1>6, <1>7, <2>1 DEF SessionInv, Stages, PreConsent, PlainStates
  <2>4. \A i \in Reported' : Len(written'[i]) = size'[i]
    <3>1. Reported \subseteq Id
      BY ElementOfSeq DEF Reported, SessionInv, Types
    <3> QED
      BY <1>1, <1>2, <1>5, <1>7, <2>1, <3>1 DEF SessionInv, Disk
  <2>5. \A i \in Id : received'[i] = Len(written'[i])
    BY <1>5 DEF SessionInv, Disk
  <2>6. onDisk' = Reported' \cup open' /\ Reported' \cap offered' = {} /\ asked' = "accepted"
    BY <1>1, <1>2, <1>7, <2>1 DEF SessionInv, Disk
  <2>7. Disk'
    BY <2>1, <2>4, <2>5, <2>6 DEF Disk
  <2> QED
    BY <2>2, <2>3, <2>7 DEF SessionInv
<1>8. CASE UNCHANGED <<events, offered, open>>
  <2>1. Reported' = Reported
    BY <1>8 DEF Reported
  <2>2. Types'
    BY <1>1, <1>5, <1>8 DEF SessionInv, Types, Known
  <2>3. Stages'
    BY <1>1, <1>2, <1>6, <1>8, <2>1 DEF SessionInv, Stages, PreConsent, PlainStates
  <2>4. \A i \in Reported' : Len(written'[i]) = size'[i]
    <3>1. Reported \subseteq Id
      BY ElementOfSeq DEF Reported, SessionInv, Types
    <3> QED
      BY <1>1, <1>2, <1>5, <2>1, <3>1 DEF SessionInv, Disk
  <2>5. \A i \in Id : received'[i] = Len(written'[i])
    BY <1>5 DEF SessionInv, Disk
  <2>6. \A m, n \in 1..Len(events') : events'[m] = events'[n] => m = n
    BY <1>8 DEF SessionInv, Disk
  <2>7. onDisk' = Reported' \cup open' /\ Reported' \cap offered' = {} /\ asked' = "accepted"
    BY <1>1, <1>2, <1>8, <2>1 DEF SessionInv, Disk
  <2>8. Disk'
    BY <2>4, <2>5, <2>6, <2>7 DEF Disk
  <2> QED
    BY <2>2, <2>3, <2>8 DEF SessionInv
<1> QED
  BY <1>1, <1>7, <1>8

\* The invariant on which the theorems rest.
LEMMA InvAlways == Spec => []SessionInv
<1>1. SessionInv /\ [Next]_vars => SessionInv'
  BY StepClass, InvQuiet, InvEnds, InvIntroduced, InvGranted, InvStored DEF SessionInv, Types
<1> QED
  BY <1>1, InvInit, PTL DEF Spec

-----------------------------------------------------------------------------
(* The theorems. *)

\* Whatever the peer sends and whatever fails, an attachment is reported once and
\* only with as many units on the disk as were declared for it.
THEOREM WholeWhenReported == Spec => []ReportedWhole
<1>1. SessionInv => ReportedWhole
  BY DEF SessionInv, Disk, ReportedWhole
<1> QED
  BY <1>1, InvAlways, PTL

\* On every way out of the session the files it has not finished are gone.
THEOREM NoneLeftPartial == Spec => []NoPartialFile
<1>1. SessionInv => NoPartialFile
  BY DEF SessionInv, Stages, Disk, NoPartialFile
<1> QED
  BY <1>1, InvAlways, PTL

\* No order of frames brings a byte to the disk before the user has accepted.
THEOREM NothingBefore == Spec => []NothingBeforeConsent
<1>1. SessionInv => NothingBeforeConsent
  <2> SUFFICES ASSUME SessionInv, asked # "accepted" PROVE onDisk = {} /\ \A i \in Id : written[i] = <<>>
    BY DEF NothingBeforeConsent
  <2>1. events = <<>> /\ \A i \in Id : written[i] = <<>>
    BY DEF SessionInv, Disk
  <2>2. open = {}
    BY DEF SessionInv, Stages, Types, Known
  <2> QED
    BY <2>1, <2>2, NoneReported DEF SessionInv, Disk
<1> QED
  BY <1>1, InvAlways, PTL

\* A session that reports success after an acceptance has delivered everything the
\* Introduction declared.
THEOREM CompleteOnSuccess == Spec => []SuccessIsComplete
<1>1. SessionInv => SuccessIsComplete
  BY DEF SessionInv, Stages, SuccessIsComplete
<1> QED
  BY <1>1, InvAlways, PTL

\* No ending leaves the progress bar of this session on the screen.
THEOREM ProgressCleared == Spec => []NoStuckProgress
<1>1. SessionInv => NoStuckProgress
  BY DEF SessionInv, Stages, NoStuckProgress
<1> QED
  BY <1>1, InvAlways, PTL

-----------------------------------------------------------------------------
(* Memory: what is held for unfinished byte payloads. *)

Held == [i \in Id |-> Len(buffers[i])]

\* The two limits of BufferAccount, on the code's own account.
Limited ==
  /\ buffered \in Int /\ buffered <= MaxBuffered
  /\ \A i \in Id : Len(buffers[i]) <= MaxBytePayload

\* The account is right.
Accounted == IsFiniteSet(UnitsOf(Id, Held)) /\ buffered = SumOver(Id, Held)

LEMMA LimitedBytes ==
  ASSUME Known, Limited, NEW f \in PeerFrames, BytePayload(f) PROVE Limited'
<1> DEFINE payload == buffers[f.id] \o f.body
<1>1. /\ f.id \in Id /\ f.body \in Seq(PayloadUnit)
      /\ f.total \in Nat /\ f.offset \in Nat
  BY FramesAssumption DEF BytePayload
<1>2. /\ \A i \in Id : buffers[i] \in Seq(PayloadUnit) /\ Len(buffers[i]) \in Nat
      /\ Len(f.body) \in Nat
      /\ Len(payload) = Len(buffers[f.id]) + Len(f.body)
  BY <1>1, ConcatProperties, LenProperties DEF Known
<1>3. Len(<<>>) = 0
  BY EmptySeq
<1> HIDE DEF payload
<1>4. CASE Release(f.id)
  <2>1. buffered' = buffered - Len(buffers[f.id])
        /\ \A i \in Id : buffers'[i] = IF i = f.id THEN <<>> ELSE buffers[i]
    BY <1>4 DEF Release, Known
  <2> QED
    BY <1>1, <1>2, <1>3, <2>1, LimitsAssumption DEF Limited
<1>5. CASE UNCHANGED bufferVars
  BY <1>5 DEF bufferVars, Limited
<1>6. CASE /\ f.total <= MaxBytePayload /\ f.offset <= f.total
           /\ Len(f.body) <= f.total - f.offset
           /\ f.offset = Len(buffers[f.id]) /\ buffered <= MaxBuffered - Len(f.body)
           /\ buffers' = [buffers EXCEPT ![f.id] = payload]
           /\ buffered' = buffered + Len(f.body)
  <2>1. Len(payload) <= MaxBytePayload /\ buffered' <= MaxBuffered /\ buffered' \in Int
    <3>1. Len(buffers[f.id]) \in Nat /\ Len(f.body) \in Nat
          /\ Len(payload) = Len(buffers[f.id]) + Len(f.body)
      BY <1>1, <1>2
    <3>2. buffered \in Int /\ MaxBuffered \in Nat /\ MaxBytePayload \in Nat
      BY LimitsAssumption DEF Limited
    <3>3. Len(payload) <= MaxBytePayload
      <4>1. /\ f.total \in Int /\ f.offset \in Int /\ f.total <= MaxBytePayload
            /\ Len(f.body) <= f.total - f.offset /\ f.offset = Len(buffers[f.id])
        BY <1>1, <1>6
      <4>2. \A n, b, t, o, m \in Int : b <= t - o /\ o = n /\ t <= m => n + b <= m
        OBVIOUS
      <4>3. Len(buffers[f.id]) + Len(f.body) <= MaxBytePayload
        <5>1. /\ Len(buffers[f.id]) \in Int /\ Len(f.body) \in Int
              /\ MaxBytePayload \in Int
          BY <3>1, <3>2
        <5> QED
          BY <4>1, <4>2, <5>1, Zenon
      <4> QED
        BY <3>1, <4>3, Zenon
    <3>4. buffered' <= MaxBuffered /\ buffered' \in Int
      BY <1>6, <3>1, <3>2
    <3> QED
      BY <3>3, <3>4
  <2>2. \A i \in Id : buffers'[i] = IF i = f.id THEN payload ELSE buffers[i]
    BY <1>6 DEF Known
  <2> QED
    BY <2>1, <2>2 DEF Limited
<1>7. CASE Release(f.id) \/ UNCHANGED bufferVars
  BY <1>4, <1>5, <1>7
<1>8. ASSUME ~Release(f.id), ~UNCHANGED bufferVars
      PROVE  /\ ~(f.total > MaxBytePayload \/ f.offset > f.total \/ Len(f.body) > f.total - f.offset)
             /\ f.offset = Len(buffers[f.id]) /\ buffered <= MaxBuffered - Len(f.body)
             /\ buffers' = [buffers EXCEPT ![f.id] = payload]
             /\ buffered' = buffered + Len(f.body)
  BY <1>8 DEF BytePayload, payload
<1>9. CASE ~Release(f.id) /\ ~UNCHANGED bufferVars
  BY <1>1, <1>2, <1>6, <1>8, <1>9, LimitsAssumption
<1> QED
  BY <1>7, <1>9

\* A chunk is added with its length, and a payload leaves with all of its own.
LEMMA AccountedBytes ==
  ASSUME Known, Accounted, NEW f \in PeerFrames, BytePayload(f) PROVE Accounted'
<1> DEFINE payload == buffers[f.id] \o f.body
<1>1. f.id \in Id /\ f.body \in Seq(PayloadUnit)
  BY FramesAssumption DEF BytePayload
<1>2. /\ \A i \in Id : buffers[i] \in Seq(PayloadUnit) /\ Len(buffers[i]) \in Nat
      /\ Len(f.body) \in Nat
      /\ Len(payload) = Len(buffers[f.id]) + Len(f.body)
  BY <1>1, ConcatProperties, LenProperties DEF Known
<1>3. Len(<<>>) = 0
  BY EmptySeq
<1>4. Held \in [Id -> Nat] /\ \A i \in Id : Held[i] = Len(buffers[i])
  BY <1>2 DEF Held
<1>5. ASSUME \A i \in Id : Len(buffers'[i]) \in Nat
      PROVE  Held' \in [Id -> Nat] /\ \A i \in Id : Held'[i] = Len(buffers'[i])
  BY <1>5 DEF Held
<1> HIDE DEF payload
<1>6. CASE Release(f.id)
  <2>1. buffered' = buffered - Len(buffers[f.id])
        /\ \A i \in Id : buffers'[i] = IF i = f.id THEN <<>> ELSE buffers[i]
    BY <1>6 DEF Release, Known
  <2>0. /\ \A i \in Id : Len(buffers'[i]) \in Nat
        /\ Len(buffers'[f.id]) = 0 /\ \A i \in Id \ {f.id} : Len(buffers'[i]) = Len(buffers[i])
    BY <1>1, <1>2, <1>3, <2>1
  <2>2. Held' \in [Id -> Nat] /\ Held'[f.id] = 0 /\ \A i \in Id \ {f.id} : Held'[i] = Held[i]
    BY <1>1, <1>4, <1>5, <2>0
  <2>3. Held[f.id] \in Nat /\ Held[f.id] = Held'[f.id] + Held[f.id]
    BY <1>1, <1>4, <2>2
  <2>4. /\ IsFiniteSet(UnitsOf(Id, Held'))
        /\ SumOver(Id, Held') = SumOver(Id, Held) - Held[f.id]
    BY <1>1, <1>4, <2>2, <2>3, SumLowered DEF Accounted
  <2> QED
    BY <1>1, <1>4, <2>1, <2>4 DEF Accounted
<1>7. CASE buffers' = [buffers EXCEPT ![f.id] = payload] /\ buffered' = buffered + Len(f.body)
  <2>1. \A i \in Id : buffers'[i] = IF i = f.id THEN payload ELSE buffers[i]
    BY <1>7 DEF Known
  <2>2. /\ Held' \in [Id -> Nat] /\ Held'[f.id] = Held[f.id] + Len(f.body)
        /\ \A i \in Id \ {f.id} : Held'[i] = Held[i]
    <3>1. /\ \A i \in Id : Len(buffers'[i]) \in Nat
          /\ Len(buffers'[f.id]) = Len(buffers[f.id]) + Len(f.body)
          /\ \A i \in Id \ {f.id} : Len(buffers'[i]) = Len(buffers[i])
      <4>1. buffers'[f.id] = payload /\ \A i \in Id \ {f.id} : buffers'[i] = buffers[i]
        BY <1>1, <2>1, Zenon
      <4>2. Len(payload) \in Nat
        <5>1. Len(buffers[f.id]) \in Nat /\ Len(f.body) \in Nat
          BY <1>1, <1>2, Zenon
        <5>2. \A m, n \in Nat : m + n \in Nat
          OBVIOUS
        <5> QED
          BY <1>2, <5>1, <5>2, Zenon
      <4>3. \A i \in Id : i = f.id \/ i \in Id \ {f.id}
        OBVIOUS
      <4> QED
        BY <1>2, <4>1, <4>2, <4>3, Zenon
    <3> QED
      BY <1>1, <1>4, <1>5, <3>1
  <2>3. /\ IsFiniteSet(UnitsOf(Id, Held'))
        /\ SumOver(Id, Held') = SumOver(Id, Held) + Len(f.body)
    BY <1>1, <1>2, <1>4, <2>2, SumRaised DEF Accounted
  <2> QED
    BY <1>7, <2>3 DEF Accounted
<1>8. CASE UNCHANGED bufferVars
  BY <1>8 DEF bufferVars, Held, Accounted
<1> QED
  BY <1>6, <1>7, <1>8 DEF BytePayload, payload

LEMMA BuffersElsewhere ==
  ASSUME [Next]_vars
  PROVE  UNCHANGED bufferVars \/ \E f \in PeerFrames : BytePayload(f)
BY DEF Next, PeerFrame, PeerTakes, PeerCloses, PeerVanishes, OwnStep, PlainFrame, SecureFrame,
       FilePayload, ControlFrame, ConsentAccepted, ConsentFails, ConsentRejected, HandshakeGivesUp,
       StreamEnds, InactivityTimeout, vars, sessionVars

LEMMA MemoryInit == Init => Limited /\ Accounted
<1> SUFFICES ASSUME Init PROVE Limited /\ Accounted
  OBVIOUS
<1>1. Len(<<>>) = 0
  BY EmptySeq
<1>2. \A i \in Id : buffers[i] = <<>>
  BY DEF Init
<1>3. Held \in [Id -> Nat] /\ \A i \in Id : Held[i] = 0
  BY <1>1, <1>2 DEF Held
<1> QED
  BY <1>1, <1>2, <1>3, SumOfZeros, LimitsAssumption DEF Init, Limited, Accounted

LEMMA MemoryStep ==
  ASSUME SessionInv, Limited, Accounted, [Next]_vars PROVE Limited' /\ Accounted'
<1>1. CASE UNCHANGED bufferVars
  BY <1>1 DEF bufferVars, Held, Limited, Accounted
<1>2. ASSUME NEW f \in PeerFrames, BytePayload(f) PROVE Limited' /\ Accounted'
  BY <1>2, LimitedBytes, AccountedBytes DEF SessionInv, Types
<1> QED
  BY <1>1, <1>2, BuffersElsewhere

LEMMA MemoryAlways == Spec => [](Limited /\ Accounted)
<1>1. SessionInv /\ Limited /\ Accounted /\ [Next]_vars => Limited' /\ Accounted'
  BY MemoryStep
<1> QED
  BY <1>1, MemoryInit, InvAlways, PTL DEF Spec

\* What a peer can make the session hold in memory, by any sequence of chunks of any
\* number of payloads, finished, abandoned or out of order: m_bufferedBytes is what is
\* really held, on every error path too, and stays below its limit.
THEOREM MemoryAccounted == Spec => []BufferAccount
<1>1. Limited /\ Accounted => BufferAccount
  BY DEF Limited, Accounted, Held, BufferAccount
<1> QED
  BY <1>1, MemoryAlways, PTL

-----------------------------------------------------------------------------
(* The bytes received. *)

Received ==
  /\ IsFiniteSet(UnitsOf(Id, received)) /\ receivedBytes = SumOver(Id, received)
  /\ receivedBytes \in Nat
  /\ \A i \in Id : received[i] > 0 => received[i] <= size[i]

LEMMA ReceivedStored ==
  ASSUME SessionInv, Received, Stored PROVE Received'
<1>1. PICK id \in Id, body \in Seq(PayloadUnit) :
        WriteChunk(id, body) /\ received[id] + Len(body) <= size[id] /\ size' = size
  BY DEF Stored
<1>2. Len(body) \in Nat /\ received \in [Id -> Nat]
  BY LenProperties DEF SessionInv, Types
<1>3. received' = [received EXCEPT ![id] = received[id] + Len(body)]
      /\ receivedBytes' = receivedBytes + Len(body)
  BY <1>1 DEF WriteChunk
<1>4. /\ received' \in [Id -> Nat] /\ received'[id] = received[id] + Len(body)
      /\ \A i \in Id \ {id} : received'[i] = received[i]
  BY <1>2, <1>3
<1>5. /\ IsFiniteSet(UnitsOf(Id, received'))
      /\ SumOver(Id, received') = SumOver(Id, received) + Len(body)
  BY <1>2, <1>4, SumRaised DEF Received
<1>6. receivedBytes' \in Nat
  BY <1>2, <1>3 DEF Received
<1> QED
  BY <1>1, <1>3, <1>4, <1>5, <1>6 DEF Received

LEMMA ReceivedStep ==
  ASSUME SessionInv, Received, [Next]_vars PROVE Received'
<1>1. CASE Quiet \/ Ends \/ Granted
  BY <1>1 DEF Quiet, Ends, CloseFiles, Granted, fileVars, Received
<1>2. CASE Introduced
  <2>1. asked # "accepted"
    BY <1>2 DEF Introduced, PreConsent, SessionInv, Stages
  <2>2. \A i \in Id : received[i] = Len(<<>>)
    BY <2>1 DEF SessionInv, Disk
  <2>3. \A i \in Id : received[i] = 0
    BY <2>2, EmptySeq
  <2> QED
    BY <1>2, <2>3 DEF Introduced, Received
<1>3. CASE Stored
  BY <1>3, ReceivedStored
<1> QED
  BY <1>1, <1>2, <1>3, StepClass DEF SessionInv, Types

LEMMA ReceivedInit == Init => Received
<1> SUFFICES ASSUME Init PROVE Received
  OBVIOUS
<1>1. received \in [Id -> Nat] /\ \A i \in Id : received[i] = 0
  BY DEF Init
<1> QED
  BY <1>1, SumOfZeros DEF Init, Received

LEMMA ReceivedAlways == Spec => []Received
<1>1. SessionInv /\ Received /\ [Next]_vars => Received'
  BY ReceivedStep
<1> QED
  BY <1>1, ReceivedInit, InvAlways, PTL DEF Spec

\* The progress counter m_receivedBytes is the number of bytes on the disk, over all
\* attachments, and no attachment gets more than was declared for it, however its
\* chunks are cut.
THEOREM ReceivedAccounted == Spec => []ReceivedAccount
<1>1. SessionInv /\ Received => ReceivedAccount
  BY DEF SessionInv, Disk, Received, ReceivedAccount
<1> QED
  BY <1>1, InvAlways, ReceivedAlways, PTL

-----------------------------------------------------------------------------
(* Types. *)

LEMMA SilentAlways == Spec => [](silent \in BOOLEAN)
<1>1. Init => silent \in BOOLEAN
  BY DEF Init
<1>2. silent \in BOOLEAN /\ [Next]_vars => (silent \in BOOLEAN)'
  BY Zenon DEF Next, PeerFrame, PeerTakes, PeerCloses, PeerVanishes, OwnStep, vars
<1> QED
  BY <1>1, <1>2, PTL DEF Spec

\* Every variable keeps to its type; in particular no declared size passes the largest
\* total (processIntroduction), and m_bufferedBytes is never negative.
THEOREM TypesKept == Spec => []TypeOK
<1>1. SessionInv /\ Accounted /\ Received /\ silent \in BOOLEAN => TypeOK
  <2> SUFFICES ASSUME SessionInv, Accounted, Received, silent \in BOOLEAN PROVE TypeOK
    OBVIOUS
  <2>1. buffered \in Nat
    BY FS_CardinalityType DEF Accounted, SumOver
  <2>2. onDisk \subseteq Id
    <3>1. Reported \subseteq Id
      BY ElementOfSeq DEF Reported, SessionInv, Types
    <3> QED
      BY <3>1 DEF SessionInv, Types, Known, Disk
  <2>3. state \in PlainStates \cup SecureStates \cup {"Closed"}
    BY DEF SessionInv, Types, Known, PreConsent, SecureStates
  <2>4. (state = "Closed") <=> (verdict # "none")
    BY DEF SessionInv, Stages
  <2>5. receivedBytes \in Nat
    BY DEF Received
  <2> HIDE DEF Accounted, Received
  <2> QED
    BY <2>1, <2>2, <2>3, <2>4, <2>5, Zenon DEF SessionInv, Types, Known, TypeOK
<1> QED
  BY <1>1, InvAlways, MemoryAlways, ReceivedAlways, SilentAlways, PTL
=============================================================================
