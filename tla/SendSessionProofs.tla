-------------------------- MODULE SendSessionProofs --------------------------
(***************************************************************************)
(* What SendSession guarantees for every number of files, every set of     *)
(* lengths and every set of frames of the receiver, proved.                *)
(***************************************************************************)
EXTENDS SendSession, TLAPS

Places == {"start", "closed", "disconnect"} \cup Waiting \cup Streaming

\* The place in the list of files.
Position ==
  /\ current \in Files /\ offset \in Nat /\ ended \in BOOLEAN
  /\ completed = 1..(current - 1) \cup (IF ended THEN {current} ELSE {})

\* What has happened by the time a place is reached.
Stage ==
  /\ at \in Places
  /\ at \in {"start"} \cup Waiting => current = 1 /\ offset = 0 /\ ~ended
  /\ at \in {"open", "send"} => ~ended
  /\ at = "disconnect" => completed = Files

\* What the receiver has agreed to.
Agreed ==
  /\ at \in Streaming \cup {"disconnect"} => accepted
  /\ offset > 0 \/ completed # {} => accepted

Outcome ==
  /\ result \in {"none", "ok", "failed"}
  /\ at = "closed" <=> result # "none"
  /\ result = "ok" => accepted /\ completed = Files

SenderInv == Position /\ Stage /\ Agreed /\ Outcome

LEMMA OneFile == N \in Nat /\ N >= 1 /\ 1 \in Files
BY FilesAssumption DEF Files

LEMMA SenderInit == Init => SenderInv
<1> SUFFICES ASSUME Init PROVE SenderInv
  OBVIOUS
<1>1. current = 1 /\ offset = 0 /\ ~ended /\ completed = {} /\ at = "start" /\ result = "none"
      /\ ended \in BOOLEAN
  BY DEF Init
<1>2. Position
  BY <1>1, OneFile DEF Position
<1>3. Stage /\ Agreed /\ Outcome
  BY <1>1 DEF Stage, Agreed, Outcome, Places, Waiting, Streaming
<1> QED
  BY <1>2, <1>3 DEF SenderInv

-----------------------------------------------------------------------------
(* What a step may do. *)

\* A handler that leaves the files alone and moves from one place to another.
Moves ==
  /\ UNCHANGED <<fileVars, result>>
  /\ accepted' = accepted
  /\ \/ at' = at
     \/ at \in {"start"} \cup Waiting /\ at' \in Waiting
     \/ at = "open" /\ at' \in {"send", "check"}
     \/ at = "check" /\ at' = "send" /\ ~ended

Fails ==
  /\ at # "closed" /\ at' = "closed" /\ result' = "failed"
  /\ UNCHANGED <<fileVars, accepted>>

Accepted ==
  /\ at = "introductionResponse" /\ at' = "open"
  /\ accepted' = TRUE
  /\ UNCHANGED <<fileVars, result>>

Finished ==
  /\ at = "disconnect" /\ at' = "closed" /\ result' = "ok"
  /\ UNCHANGED <<fileVars, accepted>>

LastSent ==
  /\ at = "check" /\ ended /\ current = N
  /\ (at' = "disconnect" /\ result' = "none") \/ (at' = "closed" /\ result' = "ok")
  /\ UNCHANGED <<fileVars, accepted>>

Onward ==
  /\ at = "check" /\ ended /\ current < N
  /\ at' = "open" /\ NextFile
  /\ UNCHANGED <<accepted, result>>

Chunk ==
  /\ at = "send" /\ at' = "check"
  /\ \/ offset' = offset + 1 /\ UNCHANGED <<current, ended, completed>>
     \/ /\ ended' = TRUE /\ completed' = completed \cup {current}
        /\ UNCHANGED <<current, offset>>
  /\ UNCHANGED <<accepted, result>>

LEMMA FrameClass ==
  ASSUME NEW f, Frame(f) PROVE Moves \/ Fails \/ Accepted \/ Finished
<1> USE DEF Waiting, Return, Fail, fileVars
<1>1. CASE ServerInit(f) \/ ConnectionResponse(f)
  BY <1>1 DEF ServerInit, ConnectionResponse, Moves, Fails
<1>2. CASE PairedKey(f) \/ PairedResult(f)
  BY <1>2 DEF PairedKey, PairedResult, AfterIntroduction, KeepWaiting, BadReply, Moves, Fails
<1>3. CASE IntroductionResponse(f)
  BY <1>3 DEF IntroductionResponse, KeepWaiting, BadReply, Moves, Fails, Accepted
<1>4. CASE CheckFrame(f)
  BY <1>4 DEF CheckFrame, KeepWaiting, BadReply, Moves, Fails
<1>5. CASE DisconnectFrame(f)
  BY <1>5 DEF DisconnectFrame, Moves, Fails, Finished
<1> QED
  BY <1>1, <1>2, <1>3, <1>4, <1>5 DEF Frame

LEMMA StepClass ==
  ASSUME Stage, [Next]_vars
  PROVE  Moves \/ Fails \/ Accepted \/ Finished \/ LastSent \/ Onward \/ Chunk
<1> USE DEF Return, Fail, fileVars
<1>1. CASE ReceiverFrame
  BY <1>1, FrameClass DEF ReceiverFrame
<1>2. CASE ReceiverTakes \/ ReceiverVanishes \/ Resize \/ UNCHANGED vars
  BY <1>2 DEF ReceiverTakes, ReceiverVanishes, Resize, vars, senderVars, Moves
<1>3. CASE NoAnswer \/ ReceiverLeft
  BY <1>3 DEF NoAnswer, ReceiverLeft, Fails, Waiting
<1>4. CASE Start \/ OpenFile
  BY <1>4 DEF Start, OpenFile, Moves, Fails, Waiting
<1>5. CASE SendChunk
  BY <1>5 DEF SendChunk, Chunk, Fails
<1>6. CASE DisconnectWaited
  BY <1>6 DEF DisconnectWaited, Finished
<1>7. CASE CheckClear
  <2>1. CASE ~ended /\ at' = "send" /\ UNCHANGED <<fileVars, outbox, result>>
    BY <1>7, <2>1 DEF CheckClear, Moves
  <2>2. CASE ended /\ MoreFiles /\ at' = "open" /\ NextFile /\ UNCHANGED <<outbox, result>>
    BY <1>7, <2>2 DEF CheckClear, MoreFiles, Onward
  <2>3. CASE AllSent /\ at' = AfterDisconnection.at /\ result' = AfterDisconnection.result
             /\ UNCHANGED fileVars
    <3>1. (at' = "disconnect" /\ result' = "none") \/ (at' = "closed" /\ result' = "ok")
      <4>1. CASE safe
        BY <2>3, <4>1 DEF AfterDisconnection
      <4>2. CASE ~safe
        BY <2>3, <4>2 DEF AfterDisconnection
      <4> QED
        BY <4>1, <4>2
    <3> QED
      BY <1>7, <2>3, <3>1 DEF CheckClear, LastSent, AllSent
  <2>4. CASE AllSent /\ Fail
    BY <1>7, <2>4 DEF CheckClear, Fails
  <2> QED
    BY <1>7, <2>1, <2>2, <2>3, <2>4 DEF CheckClear
<1> QED
  BY <1>1, <1>2, <1>3, <1>4, <1>5, <1>6, <1>7 DEF Next, OwnStep, ThreadStep

-----------------------------------------------------------------------------
(* The invariant. *)

\* The files from the first to the one in hand are exactly those completed.
LEMMA PositionStep ==
  ASSUME SenderInv,
         Moves \/ Fails \/ Accepted \/ Finished \/ LastSent \/ Onward \/ Chunk
  PROVE  Position'
<1> USE DEF Files
<1>1. CASE Moves \/ Fails \/ Accepted \/ Finished \/ LastSent
  BY <1>1 DEF SenderInv, Position, Moves, Fails, Accepted, Finished, LastSent, fileVars
<1>2. CASE Onward
  <2>1. /\ current' = current + 1 /\ offset' = 0 /\ ended' = FALSE /\ completed' = completed
        /\ current \in 1..N /\ current < N /\ N \in Nat
    BY <1>2, OneFile DEF Onward, NextFile, SenderInv, Position
  <2>2. completed = 1..(current - 1) \cup {current}
    BY <1>2 DEF Onward, SenderInv, Position
  <2>3. completed' = 1..(current' - 1)
    BY <2>1, <2>2
  <2>4. completed' = 1..(current' - 1) \cup (IF ended' THEN {current'} ELSE {})
    BY <2>1, <2>3
  <2>5. current' \in 1..N /\ offset' \in Nat
    BY <2>1
  <2>6. ended' \in BOOLEAN
    BY <2>1
  <2> QED
    BY <2>4, <2>5, <2>6, Zenon DEF Position
<1>3. CASE Chunk
  <2>1. ~ended /\ current' = current
    BY <1>3 DEF Chunk, SenderInv, Stage
  <2>2. completed = 1..(current - 1)
    BY <2>1 DEF SenderInv, Position
  <2>3. CASE offset' = offset + 1 /\ UNCHANGED <<current, ended, completed>>
    <3>1. offset' \in Nat
      BY <2>3 DEF SenderInv, Position
    <3>2. current' \in 1..N /\ ended' \in BOOLEAN
          /\ completed' = 1..(current' - 1) \cup (IF ended' THEN {current'} ELSE {})
      BY <2>3, Zenon DEF SenderInv, Position
    <3> QED
      BY <3>1, <3>2 DEF Position
  <2>4. CASE ended' = TRUE /\ completed' = completed \cup {current} /\ UNCHANGED <<current, offset>>
    <3>1. completed' = 1..(current' - 1) \cup (IF ended' THEN {current'} ELSE {})
      BY <2>1, <2>2, <2>4
    <3>2. current' \in 1..N /\ offset' \in Nat /\ ended' \in BOOLEAN
      BY <2>4 DEF SenderInv, Position
    <3> QED
      BY <3>1, <3>2 DEF Position
  <2> QED
    BY <1>3, <2>3, <2>4 DEF Chunk
<1> QED
  BY <1>1, <1>2, <1>3

LEMMA StageStep ==
  ASSUME SenderInv,
         Moves \/ Fails \/ Accepted \/ Finished \/ LastSent \/ Onward \/ Chunk
  PROVE  Stage'
<1> USE DEF SenderInv, Stage, Places, Waiting, Streaming
<1>1. CASE Moves \/ Fails \/ Accepted \/ Finished
  BY <1>1 DEF Moves, Fails, Accepted, Finished, fileVars
<1>2. CASE LastSent
  <2>1. completed = Files
    BY <1>2, OneFile DEF LastSent, Position, Files
  <2> QED
    BY <1>2, <2>1 DEF LastSent, fileVars
<1>3. CASE Onward
  BY <1>3 DEF Onward, NextFile
<1>4. CASE Chunk
  BY <1>4 DEF Chunk
<1> QED
  BY <1>1, <1>2, <1>3, <1>4

LEMMA AgreedStep ==
  ASSUME SenderInv,
         Moves \/ Fails \/ Accepted \/ Finished \/ LastSent \/ Onward \/ Chunk
  PROVE  Agreed'
<1> USE DEF SenderInv, Agreed, Stage, Places, Waiting, Streaming
<1>1. CASE Moves \/ Fails \/ Finished \/ LastSent
  BY <1>1 DEF Moves, Fails, Finished, LastSent, fileVars
<1>2. CASE Accepted
  BY <1>2 DEF Accepted
<1>3. CASE Onward \/ Chunk
  BY <1>3 DEF Onward, Chunk
<1> QED
  BY <1>1, <1>2, <1>3

LEMMA OutcomeStep ==
  ASSUME SenderInv,
         Moves \/ Fails \/ Accepted \/ Finished \/ LastSent \/ Onward \/ Chunk
  PROVE  Outcome'
<1> USE DEF SenderInv, Outcome, Agreed, Stage, Places, Waiting, Streaming
<1>1. CASE Moves
  BY <1>1 DEF Moves, fileVars
<1>2. CASE Fails \/ Accepted \/ Finished
  BY <1>2 DEF Fails, Accepted, Finished, fileVars
<1>3. CASE LastSent
  <2>1. completed = Files
    BY <1>3, OneFile DEF LastSent, Position, Files
  <2> QED
    BY <1>3, <2>1 DEF LastSent, fileVars
<1>4. CASE Onward \/ Chunk
  BY <1>4 DEF Onward, Chunk
<1> QED
  BY <1>1, <1>2, <1>3, <1>4

LEMMA SenderAlways == Spec => []SenderInv
<1>1. SenderInv /\ [Next]_vars => SenderInv'
  BY StepClass, PositionStep, StageStep, AgreedStep, OutcomeStep DEF SenderInv
<1> QED
  BY <1>1, SenderInit, PTL DEF Spec

-----------------------------------------------------------------------------
(* The theorems. *)

\* A success means that the receiver said yes and that every file was sent to its
\* end, whatever else the receiver sent, and whatever changed on the disk.
THEOREM SuccessIsEarned == Spec => []SuccessMeansSent
<1>1. SenderInv => SuccessMeansSent
  BY DEF SenderInv, Outcome, SuccessMeansSent
<1> QED
  BY <1>1, SenderAlways, PTL

\* The files go one after the other, and none before the receiver's yes.
THEOREM InOrder == Spec => []SentInOrder
<1>1. SenderInv => SentInOrder
  BY DEF SenderInv, Position, Agreed, SentInOrder
<1> QED
  BY <1>1, SenderAlways, PTL

Sizes == length \in [Files -> Lengths] /\ declared \in [Files -> Lengths]
Flags == safe \in BOOLEAN /\ accepted \in BOOLEAN /\ unreachable \in BOOLEAN

\* The sizes move only when a program changes a file and when run() measures them.
LEMMA SizesStep ==
  ASSUME Sizes, [Next]_vars PROVE Sizes'
<1> USE DEF Sizes
<1>1. CASE Resize
  BY <1>1 DEF Resize
<1>2. CASE Start
  BY <1>2 DEF Start, Return, Fail
<1>3. CASE UNCHANGED <<length, declared>>
  BY <1>3
<1>4. ASSUME NEW f, Frame(f) PROVE UNCHANGED <<length, declared>>
  BY <1>4 DEF Frame, ServerInit, ConnectionResponse, PairedKey, PairedResult,
     IntroductionResponse, CheckFrame, DisconnectFrame, KeepWaiting, BadReply, Return, Fail
<1>5. Resize \/ Start \/ UNCHANGED <<length, declared>>
  BY <1>4 DEF Next, ReceiverFrame, ReceiverTakes, ReceiverVanishes, OwnStep, ThreadStep,
     OpenFile, CheckClear, SendChunk, DisconnectWaited, NoAnswer, ReceiverLeft, Return, Fail,
     vars, senderVars
<1> QED
  BY <1>1, <1>2, <1>3, <1>5

LEMMA FlagsStep ==
  ASSUME Flags, [Next]_vars PROVE Flags'
<1> USE DEF Flags
<1>1. ASSUME NEW f \in ReceiverFrames, Frame(f)
      PROVE  safe' \in BOOLEAN /\ accepted' \in {accepted, TRUE}
  <2>1. CASE ConnectionResponse(f)
    BY <2>1, RepliesAssumption DEF ConnectionResponse, Return, Fail
  <2>2. CASE IntroductionResponse(f)
    BY <2>2 DEF IntroductionResponse, KeepWaiting, BadReply, Return, Fail
  <2>3. CASE \/ ServerInit(f) \/ PairedKey(f) \/ PairedResult(f) \/ CheckFrame(f)
             \/ DisconnectFrame(f)
    BY <2>3 DEF ServerInit, PairedKey, PairedResult, CheckFrame, DisconnectFrame,
       KeepWaiting, BadReply, Return, Fail
  <2> QED
    BY <1>1, <2>1, <2>2, <2>3 DEF Frame
<1>2. CASE ReceiverFrame
  BY <1>1, <1>2 DEF ReceiverFrame
<1>3. CASE ReceiverVanishes
  BY <1>3 DEF ReceiverVanishes, senderVars
<1>4. CASE UNCHANGED <<safe, accepted, unreachable>>
  BY <1>4
<1>5. ReceiverFrame \/ ReceiverVanishes \/ UNCHANGED <<safe, accepted, unreachable>>
  BY DEF Next, ReceiverTakes, OwnStep, ThreadStep, Start, OpenFile, CheckClear, SendChunk,
     DisconnectWaited, NoAnswer, ReceiverLeft, Resize, Return, Fail, vars, senderVars
<1> QED
  BY <1>2, <1>3, <1>4, <1>5

\* The place in the list of files never leaves it, and the result is set exactly
\* when the thread is done, on every path through it.
THEOREM SenderTypes == Spec => []TypeOK
<1>1. Init => Sizes /\ Flags
  BY DEF Init, Sizes, Flags
<1>2. Sizes /\ [Next]_vars => Sizes'
  BY SizesStep
<1>3. Flags /\ [Next]_vars => Flags'
  BY FlagsStep
<1>4. SenderInv => completed \subseteq Files
  BY OneFile DEF SenderInv, Position, Files
<1>5. SenderInv /\ Sizes /\ Flags => TypeOK
  BY <1>4, Zenon DEF SenderInv, Position, Stage, Outcome, Places, Sizes, Flags, TypeOK
<1> QED
  BY <1>1, <1>2, <1>3, <1>5, SenderAlways, PTL DEF Spec
=============================================================================
