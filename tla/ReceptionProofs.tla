--------------------------- MODULE ReceptionProofs ---------------------------
(***************************************************************************)
(* What Reception guarantees for every set of sessions, every number of    *)
(* attachments and every set of paths, proved.                             *)
(***************************************************************************)
EXTENDS Reception, ConsentProofs

-----------------------------------------------------------------------------
(* The two halves of a step. *)

\* What a step does to the directory, whoever takes it.
FilesStep ==
  \/ \E s \in Session :
       \/ Files!Reserve(s)
       \/ \E a \in Files!Attachment :
            \/ Files!OpenFile(s, a) \/ Files!OpenFails(s, a)
            \/ Files!WriteChunk(s, a) \/ Files!FinishFile(s, a)
       \/ Files!CloseFiles(s)
  \/ \E p \in Path : Files!OtherSaves(p) \/ Files!UserDeletes(p)

\* Every step of the composition is one of the directory, or leaves it alone.
LEMMA StepOnFiles ==
  ASSUME [ReceptionNext]_receptionVars PROVE FilesStep \/ UNCHANGED fileVars
<1>1. ASSUME NEW s \in Session, ThreadStep(s) \/ SessionPeerStep(s) \/ Timer(s)
      PROVE  FilesStep \/ UNCHANGED fileVars
  <2>1. CASE ReservePath(s) \/ CreateFile(s) \/ CreateFails(s) \/ ReceiveChunk(s) \/ Close(s)
    BY <2>1 DEF ReservePath, CreateFile, CreateFails, ReceiveChunk, Close, FilesStep
  <2>2. CASE \/ Grant(s) \/ GateStep(s) \/ AskConsent(s)
             \/ (HandshakeEnds(s) \/ ReceivingEnds(s)) /\ UNCHANGED fileVars
             \/ Timer(s)
    BY <2>2 DEF Grant, GateStep, AskConsent, Timer
  <2> QED
    BY <1>1, <2>1, <2>2 DEF ThreadStep, SessionPeerStep
<1>2. CASE EventLoop
  BY <1>2 DEF EventLoop
<1>3. CASE UserStep
  BY <1>3, ReceptionAssumption DEF UserStep, FilesStep
<1>4. CASE UNCHANGED receptionVars
  BY <1>4 DEF receptionVars
<1> QED
  BY <1>1, <1>2, <1>3, <1>4 DEF ReceptionNext

\* Every step of the composition is one of the gate, or leaves it alone.
LEMMA StepOnGate ==
  ASSUME [ReceptionNext]_receptionVars PROVE [Next]_vars
<1>1. ASSUME NEW s \in Session, ThreadStep(s) \/ SessionPeerStep(s) \/ Timer(s)
      PROVE  [Next]_vars
  <2>1. CASE ReservePath(s) \/ CreateFile(s) \/ ReceiveChunk(s) \/ Close(s)
    BY <2>1 DEF ReservePath, CreateFile, ReceiveChunk, Close
  <2>2. CASE CreateFails(s) \/ Grant(s)
    BY <2>2 DEF CreateFails, Grant, Next, ConsentStep
  <2>3. CASE GateStep(s)
    BY <2>3 DEF GateStep, Next, ConsentStep
  <2>4. CASE \/ AskConsent(s) \/ Timer(s)
             \/ (HandshakeEnds(s) \/ ReceivingEnds(s)) /\ UNCHANGED fileVars
    BY <2>4 DEF AskConsent, Timer, Next, PeerStep
  <2> QED
    BY <1>1, <2>1, <2>2, <2>3, <2>4 DEF ThreadStep, SessionPeerStep
<1>2. CASE EventLoop
  BY <1>2 DEF EventLoop, Next
<1>3. CASE UserStep
  BY <1>3 DEF UserStep, Next
<1>4. CASE UNCHANGED receptionVars
  BY <1>4 DEF receptionVars
<1> QED
  BY <1>1, <1>2, <1>3, <1>4 DEF ReceptionNext

\* Sessions that also reserve, create, fail to create, write and remove files
\* use the gate as Consent says: what is proved of Consent holds here too.
THEOREM GateImplemented == ReceptionSpec => Spec
<1>1. ReceptionInit => Init
  BY DEF ReceptionInit
<1>2. [ReceptionNext]_receptionVars => [Next]_vars
  BY StepOnGate
<1> QED
  BY <1>1, <1>2, PTL DEF ReceptionSpec, Spec

-----------------------------------------------------------------------------
(* The invariants of the directory. *)

FilesTyped == Files!TypeOK

\* A QFile belongs to an attachment that its session has planned.
PlannedObjects == \A a \in objects : a \in Files!Planned(a[1])

\* An attachment that has been reported has no QFile any more.
DoneClosed == objects \cap done = {}

\* No path is planned twice by one session (m_reservedPaths) ...
OnePlanEach ==
  \A s \in Session : \A i, j \in DOMAIN plan[s] : plan[s][i] = plan[s][j] => i = j

\* ... and one that two sessions claim, or that is claimed while a file rests
\* there, is contested.
ClaimsSeparate ==
  /\ \A s, t \in Session : s # t => Files!Claims(s) \cap Files!Claims(t) \subseteq contested
  /\ \A p \in Path \ contested : Files!Settled(p) => \A s \in Session : p \notin Files!Claims(s)

LEMMA AttachmentForm ==
  ASSUME NEW a \in Files!Attachment
  PROVE  /\ a[1] \in Session /\ a[2] \in 1 .. Count[a[1]]
         /\ a = <<a[1], a[2]>>
BY DEF Files!Attachment

LEMMA PlannedForm ==
  ASSUME FilesTyped, NEW s \in Session, NEW a \in Files!Planned(s)
  PROVE  /\ a[1] = s /\ a[2] \in DOMAIN plan[s] /\ a = <<s, a[2]>>
         /\ Files!PathOf(a) = plan[s][a[2]]
         /\ Files!PathOf(a) \in Path
<1>1. plan[s] \in Seq(Path)
  BY DEF FilesTyped, Files!TypeOK
<1>2. /\ a[1] = s /\ a[2] \in DOMAIN plan[s] /\ a = <<s, a[2]>>
  BY DEF Files!Planned
<1> QED
  BY <1>1, <1>2, ElementOfSeq DEF Files!PathOf

-----------------------------------------------------------------------------
(* Types, with what a QFile needs. *)

FilesBasic == FilesTyped /\ PlannedObjects

LEMMA BasicReserve ==
  ASSUME FilesBasic, NEW s \in Session, Files!Reserve(s)
  PROVE  FilesBasic'
<1> USE DEF FilesBasic, FilesTyped, Files!TypeOK
<1>1. PICK p \in Path : /\ plan' = [plan EXCEPT ![s] = Append(@, p)]
                       /\ contested' \in {contested, contested \cup {p}}
  BY DEF Files!Reserve
<1>2. /\ plan[s] \in Seq(Path)
      /\ plan'[s] = Append(plan[s], p) /\ plan'[s] \in Seq(Path)
      /\ DOMAIN plan[s] \subseteq DOMAIN plan'[s]
      /\ \A t \in Session \ {s} : plan'[t] = plan[t]
  BY <1>1, AppendProperties
<1>3. FilesTyped'
  BY <1>1, <1>2 DEF Files!Reserve
<1>4. PlannedObjects'
  BY <1>2, AttachmentForm DEF PlannedObjects, Files!Reserve, Files!Planned
<1> QED
  BY <1>3, <1>4

LEMMA BasicFile ==
  ASSUME FilesBasic, NEW s \in Session, NEW a \in Files!Attachment,
         \/ Files!OpenFile(s, a) \/ Files!OpenFails(s, a)
         \/ Files!WriteChunk(s, a) \/ Files!FinishFile(s, a)
  PROVE  FilesBasic'
<1> USE DEF FilesBasic, FilesTyped, Files!TypeOK
<1>1. CASE Files!OpenFile(s, a) \/ Files!OpenFails(s, a)
  <2>1. a \in Files!Planned(s) /\ a[1] = s /\ Files!PathOf(a) \in Path
    BY <1>1, PlannedForm DEF Files!OpenFile, Files!OpenFails
  <2> QED
    BY <1>1, <2>1 DEF PlannedObjects, Files!OpenFile, Files!OpenFails, Files!Planned
<1>2. CASE Files!WriteChunk(s, a) \/ Files!FinishFile(s, a)
  BY <1>2 DEF PlannedObjects, Files!WriteChunk, Files!FinishFile, Files!Write,
              Files!Planned, Files!OwnFiles
<1> QED
  BY <1>1, <1>2

LEMMA BasicClose ==
  ASSUME FilesBasic, NEW s \in Session, Files!CloseFiles(s)
  PROVE  FilesBasic'
<1> USE DEF FilesBasic, FilesTyped, Files!TypeOK, Files!CloseFiles
<1>1. FilesTyped'
  OBVIOUS
<1>2. PlannedObjects'
  BY AttachmentForm DEF PlannedObjects, Files!Planned, Files!OwnFiles
<1> QED
  BY <1>1, <1>2

LEMMA BasicOther ==
  ASSUME FilesBasic, NEW p \in Path, Files!OtherSaves(p) \/ Files!UserDeletes(p)
  PROVE  FilesBasic'
BY DEF FilesBasic, FilesTyped, PlannedObjects, Files!TypeOK, Files!OtherSaves,
       Files!UserDeletes, Files!Outsider, Files!Planned

LEMMA BasicStep ==
  ASSUME FilesBasic, FilesStep \/ UNCHANGED fileVars PROVE FilesBasic'
<1>1. CASE UNCHANGED fileVars
  BY <1>1 DEF fileVars, FilesBasic, FilesTyped, PlannedObjects, Files!TypeOK, Files!Planned
<1>2. CASE FilesStep
  BY <1>2, BasicReserve, BasicFile, BasicClose, BasicOther DEF FilesStep
<1> QED
  BY <1>1, <1>2

\* The gate and the directory keep to their types: at no time does a write go to
\* a file whose QFile has been deleted, whatever the order of the sessions.
THEOREM ReceptionTypes == ReceptionSpec => []ReceptionTypeOK
<1>1. ReceptionInit => FilesBasic
  BY DEF ReceptionInit, Files!Init, FilesBasic, FilesTyped, PlannedObjects,
         Files!TypeOK, Files!Outsider
<1>2. FilesBasic /\ [ReceptionNext]_receptionVars => FilesBasic'
  BY BasicStep, StepOnFiles
<1>3. TypeOK /\ FilesBasic => ReceptionTypeOK
  BY DEF FilesBasic, FilesTyped, ReceptionTypeOK
<1>4. ReceptionSpec => []TypeOK
  BY GateImplemented, TypeCorrect, PTL
<1> QED
  BY <1>1, <1>2, <1>3, <1>4, PTL DEF ReceptionSpec

-----------------------------------------------------------------------------
(* Nothing partial is left behind. *)

\* The path of a planned attachment stays what it is until its session closes.
LEMMA PathKept ==
  ASSUME FilesBasic, NEW a \in Files!Attachment, a \in Files!Planned(a[1]),
         NEW s \in Session, plan'[a[1]] = plan[a[1]] \/ Files!Reserve(s)
  PROVE  Files!PathOf(a)' = Files!PathOf(a)
<1>1. a[1] \in Session /\ plan[a[1]] \in Seq(Path) /\ a[2] \in 1 .. Len(plan[a[1]])
  BY PlannedForm, AttachmentForm, LenProperties DEF FilesBasic, FilesTyped, Files!TypeOK
<1>2. CASE plan'[a[1]] = plan[a[1]]
  BY <1>2 DEF Files!PathOf
<1>3. CASE Files!Reserve(s)
  <2>1. PICK p \in Path : plan' = [plan EXCEPT ![s] = Append(@, p)]
    BY <1>3 DEF Files!Reserve
  <2>2. plan \in [Session -> Seq(Path)]
    BY DEF FilesBasic, FilesTyped, Files!TypeOK
  <2>3. Append(plan[a[1]], p)[a[2]] = plan[a[1]][a[2]]
    BY <1>1, AppendProperties
  <2> QED
    BY <1>1, <2>1, <2>2, <2>3 DEF Files!PathOf
<1> QED
  BY <1>2, <1>3

LEMMA PartialStep ==
  ASSUME FilesBasic, NoPartialLeft, FilesStep \/ UNCHANGED fileVars
  PROVE  NoPartialLeft'
<1> USE DEF NoPartialLeft, Files!NoPartialLeft, FilesBasic, FilesTyped, Files!TypeOK
<1> SUFFICES ASSUME NEW p \in Path, NEW b \in disk'[p] \ (done' \cup {Files!Outsider})
             PROVE  b \in objects' /\ Files!PathOf(b)' = p
  BY DEF Files!Outsider
<1>0. ASSUME b \in disk[p], b \notin done, b \in objects',
             NEW s \in Session, plan'[b[1]] = plan[b[1]] \/ Files!Reserve(s)
      PROVE  b \in objects' /\ Files!PathOf(b)' = p
  <2>1. b \in objects /\ Files!PathOf(b) = p
    BY <1>0 DEF Files!Outsider
  <2>2. b \in Files!Attachment /\ b \in Files!Planned(b[1])
    BY <2>1 DEF PlannedObjects
  <2> QED
    BY <1>0, <2>1, <2>2, PathKept
<1>1. ASSUME NEW s \in Session, Files!Reserve(s)
      PROVE  b \in objects' /\ Files!PathOf(b)' = p
  BY <1>0, <1>1 DEF Files!Reserve, Files!Outsider
<1>2. ASSUME NEW s \in Session, NEW a \in Files!Attachment,
             \/ Files!OpenFile(s, a) \/ Files!OpenFails(s, a)
             \/ Files!WriteChunk(s, a) \/ Files!FinishFile(s, a)
      PROVE  b \in objects' /\ Files!PathOf(b)' = p
  <2>1. plan' = plan
    BY <1>2 DEF Files!OpenFile, Files!OpenFails, Files!WriteChunk, Files!FinishFile
  <2>2. CASE b \in disk[p]
    <3>1. b \in objects /\ b \notin done
      BY <1>2, <2>2 DEF Files!Outsider, Files!OpenFile, Files!OpenFails, Files!WriteChunk,
                        Files!FinishFile
    <3>2. b \in objects'
      BY <1>2, <3>1 DEF Files!OpenFile, Files!OpenFails, Files!WriteChunk, Files!FinishFile
    <3> QED
      BY <1>0, <2>1, <2>2, <3>1, <3>2
  <2>3. CASE b \notin disk[p]
    <3>1. b = a /\ p = Files!PathOf(a)
      BY <1>2, <2>3 DEF Files!OpenFile, Files!OpenFails, Files!WriteChunk,
                        Files!FinishFile, Files!Write
    <3>2. a \in objects'
      BY <1>2, <3>1 DEF Files!OpenFile, Files!OpenFails, Files!WriteChunk,
                        Files!FinishFile, Files!OwnFiles
    <3> QED
      BY <2>1, <3>1, <3>2 DEF Files!PathOf
  <2> QED
    BY <2>2, <2>3
<1>3. ASSUME NEW s \in Session, Files!CloseFiles(s)
      PROVE  b \in objects' /\ Files!PathOf(b)' = p
  <2>1. b \in disk[p] /\ p \notin {Files!PathOf(a) : a \in Files!OwnFiles(s)} /\ b \notin done
    BY <1>3 DEF Files!CloseFiles
  <2>2. b \in objects /\ Files!PathOf(b) = p
    BY <2>1 DEF Files!Outsider
  <2>3. b \notin Files!OwnFiles(s)
    BY <2>1, <2>2
  <2>4. b \in objects' /\ b[1] # s
    BY <1>3, <2>2, <2>3 DEF Files!CloseFiles, PlannedObjects, Files!OwnFiles
  <2>5. plan'[b[1]] = plan[b[1]]
    BY <1>3, <2>2, <2>4, AttachmentForm DEF Files!CloseFiles
  <2> QED
    BY <1>0, <2>1, <2>4, <2>5
<1>4. ASSUME NEW q \in Path, Files!OtherSaves(q) \/ Files!UserDeletes(q)
      PROVE  b \in objects' /\ Files!PathOf(b)' = p
  BY <1>4 DEF Files!OtherSaves, Files!UserDeletes, Files!Outsider, Files!PathOf
<1>5. CASE UNCHANGED fileVars
  BY <1>5 DEF fileVars, Files!Outsider, Files!PathOf
<1> QED
  BY <1>1, <1>2, <1>3, <1>4, <1>5 DEF FilesStep

\* Whatever ends a session and whoever else works in the directory, the bytes of
\* an unfinished attachment are only where its session will remove them.
THEOREM NothingPartial == ReceptionSpec => []NoPartialLeft
<1>1. ReceptionInit => FilesBasic /\ NoPartialLeft
  BY DEF ReceptionInit, Files!Init, FilesBasic, FilesTyped, PlannedObjects,
         Files!TypeOK, Files!Outsider, NoPartialLeft, Files!NoPartialLeft
<1>2. FilesBasic /\ NoPartialLeft /\ [ReceptionNext]_receptionVars
        => FilesBasic' /\ NoPartialLeft'
  BY BasicStep, PartialStep, StepOnFiles
<1> QED
  BY <1>1, <1>2, PTL DEF ReceptionSpec

-----------------------------------------------------------------------------
(* Files at rest. *)

RestInv == FilesBasic /\ NoPartialLeft /\ DoneClosed /\ OnePlanEach /\ ClaimsSeparate

LEMMA ClaimsShrink ==
  ASSUME FilesBasic, NEW s \in Session, done \subseteq done',
         plan'[s] = plan[s] \/ plan'[s] = <<>>
  PROVE  Files!Claims(s)' \subseteq Files!Claims(s)
BY DEF Files!Claims, Files!Planned, Files!PathOf

LEMMA ClaimsGrow ==
  ASSUME FilesBasic, NEW s \in Session, NEW p \in Path,
         plan' = [plan EXCEPT ![s] = Append(@, p)], done' = done
  PROVE  Files!Claims(s)' \subseteq Files!Claims(s) \cup {p}
<1>1. plan[s] \in Seq(Path) /\ plan'[s] = Append(plan[s], p)
  BY DEF FilesBasic, FilesTyped, Files!TypeOK
<1>2. SUFFICES ASSUME NEW a \in Files!Planned(s)' \ done', Files!PathOf(a)' # p
               PROVE  Files!PathOf(a)' \in Files!Claims(s)
  BY DEF Files!Claims
<1>3. a[1] = s /\ a = <<s, a[2]>> /\ a[2] \in DOMAIN plan'[s] /\ Files!PathOf(a)' = plan'[s][a[2]]
  BY DEF Files!Planned, Files!PathOf
<1>4. DOMAIN plan'[s] = 1 .. Len(plan[s]) + 1 /\ plan'[s][Len(plan[s]) + 1] = p
      /\ Len(plan[s]) \in Nat /\ DOMAIN plan[s] = 1 .. Len(plan[s])
  BY <1>1, AppendProperties, LenProperties
<1>5. a[2] \in DOMAIN plan[s]
  BY <1>2, <1>3, <1>4
<1>6. plan'[s][a[2]] = plan[s][a[2]]
  BY <1>1, <1>4, <1>5, AppendProperties
<1> QED
  BY <1>3, <1>5, <1>6 DEF Files!Claims, Files!Planned, Files!PathOf

LEMMA RestReserve ==
  ASSUME RestInv, NEW s \in Session, Files!Reserve(s)
  PROVE  OnePlanEach' /\ ClaimsSeparate'
<1> USE DEF RestInv
<1>1. PICK p \in Path :
        /\ Files!Free(s, p)
        /\ plan' = [plan EXCEPT ![s] = Append(@, p)]
        /\ contested' = IF \E t \in Session \ {s} : p \in Files!Claims(t)
                        THEN contested \cup {p} ELSE contested
        /\ UNCHANGED <<disk, done>>
  BY DEF Files!Reserve
<1>2. /\ plan[s] \in Seq(Path) /\ plan'[s] = Append(plan[s], p)
      /\ \A t \in Session \ {s} : plan'[t] = plan[t]
  BY <1>1 DEF FilesBasic, FilesTyped, Files!TypeOK
<1>3. OnePlanEach'
  <2>1. DOMAIN plan'[s] = 1 .. Len(plan[s]) + 1 /\ plan'[s][Len(plan[s]) + 1] = p
        /\ Len(plan[s]) \in Nat /\ DOMAIN plan[s] = 1 .. Len(plan[s])
        /\ \A i \in DOMAIN plan[s] : plan'[s][i] = plan[s][i]
    BY <1>2, AppendProperties, LenProperties
  <2>2. \A i \in DOMAIN plan[s] : plan[s][i] # p
    BY <1>1 DEF Files!Free, Files!Range
  <2>3. \A i, j \in DOMAIN plan'[s] : plan'[s][i] = plan'[s][j] => i = j
    BY <2>1, <2>2 DEF OnePlanEach
  <2> QED
    BY <1>2, <2>3 DEF OnePlanEach
<1>4. /\ Files!Claims(s)' \subseteq Files!Claims(s) \cup {p}
      /\ \A t \in Session \ {s} : Files!Claims(t)' \subseteq Files!Claims(t)
  BY <1>1, <1>2, ClaimsGrow, ClaimsShrink
<1>5. ASSUME NEW q \in Path, Files!Settled(q)' PROVE Files!Settled(q) /\ q # p
  BY <1>1, <1>5 DEF Files!Settled, Files!Free, Files!Exists, Files!Outsider
<1>6. ClaimsSeparate'
  BY <1>1, <1>4, <1>5 DEF ClaimsSeparate
<1> QED
  BY <1>3, <1>6

\* A step that leaves the plans alone, or drops one, and touches files that do not
\* come to rest by it.
LEMMA RestShrink ==
  ASSUME RestInv, done \subseteq done', contested \subseteq contested',
         \A s \in Session : plan'[s] = plan[s] \/ plan'[s] = <<>>,
         \A p \in Path \ contested' :
           Files!Settled(p)' => \/ Files!Settled(p)
                               \/ \A s \in Session : p \notin Files!Claims(s)'
  PROVE  OnePlanEach' /\ ClaimsSeparate'
<1> USE DEF RestInv
<1>1. OnePlanEach'
  BY DEF OnePlanEach
<1>2. \A s \in Session : Files!Claims(s)' \subseteq Files!Claims(s)
  BY ClaimsShrink
<1>3. ClaimsSeparate'
  BY <1>2 DEF ClaimsSeparate
<1> QED
  BY <1>1, <1>3

\* The last chunk brings a file to rest; nobody claims its path any more.
LEMMA RestFinish ==
  ASSUME RestInv, NEW s \in Session, NEW a \in Files!Attachment, Files!FinishFile(s, a)
  PROVE  OnePlanEach' /\ ClaimsSeparate'
<1> USE DEF RestInv
<1>1. /\ done' = done \cup {a} /\ plan' = plan /\ contested' = contested
      /\ a \in objects /\ a \notin done /\ a \in Files!Planned(s)
  BY DEF Files!FinishFile, Files!OwnFiles, DoneClosed
<1>2. a[1] = s /\ Files!PathOf(a) = plan[s][a[2]] /\ a[2] \in DOMAIN plan[s]
      /\ Files!PathOf(a) \in Files!Claims(s)
  BY <1>1, PlannedForm DEF Files!Claims, FilesBasic
<1>3. Files!PathOf(a) \notin Files!Claims(s)'
  BY <1>1, <1>2 DEF Files!Claims, Files!Planned, Files!PathOf, OnePlanEach
<1>4. ASSUME NEW p \in Path \ contested', Files!Settled(p)', ~Files!Settled(p)
      PROVE  \A t \in Session : p \notin Files!Claims(t)'
  <2>1. a \in disk'[p] /\ p = Files!PathOf(a)
    <3>1. CASE disk'[p] = disk[p]
      <4>1. a \in disk[p]
        BY <1>1, <1>4, <3>1 DEF Files!Settled, Files!Exists, Files!Outsider
      <4>2. a # Files!Outsider
        BY NoSessionAssumption, AttachmentForm DEF Files!Outsider
      <4> QED
        BY <1>1, <3>1, <4>1, <4>2 DEF NoPartialLeft, Files!NoPartialLeft
    <3>2. CASE disk'[p] # disk[p]
      BY <3>2 DEF Files!FinishFile, Files!Write, FilesBasic, FilesTyped, Files!TypeOK
    <3> QED
      BY <3>1, <3>2
  <2>2. \A t \in Session \ {s} : p \notin Files!Claims(t)
    BY <1>1, <1>2, <1>4, <2>1 DEF ClaimsSeparate
  <2>3. \A t \in Session : Files!Claims(t)' \subseteq Files!Claims(t)
    BY <1>1, ClaimsShrink
  <2> QED
    BY <1>3, <2>1, <2>2, <2>3
<1> QED
  BY <1>1, <1>4, RestShrink

LEMMA RestFile ==
  ASSUME RestInv, NEW s \in Session, NEW a \in Files!Attachment,
         Files!OpenFile(s, a) \/ Files!OpenFails(s, a) \/ Files!WriteChunk(s, a)
  PROVE  OnePlanEach' /\ ClaimsSeparate'
<1>1. plan' = plan /\ done' = done /\ contested' = contested /\ a \notin done
  BY DEF RestInv, DoneClosed, Files!OpenFile, Files!OpenFails, Files!WriteChunk,
         Files!OwnFiles
<1>2. a # Files!Outsider
  BY NoSessionAssumption, AttachmentForm DEF Files!Outsider
<1>3. ASSUME NEW p \in Path, Files!Settled(p)' PROVE Files!Settled(p)
  <2>1. a \notin disk'[p]
    BY <1>1, <1>2, <1>3 DEF Files!Settled, Files!Outsider
  <2>2. disk'[p] = disk[p]
    BY <2>1 DEF RestInv, FilesBasic, FilesTyped, Files!TypeOK, Files!OpenFile,
                Files!OpenFails, Files!WriteChunk, Files!Write
  <2> QED
    BY <1>1, <1>3, <2>2 DEF Files!Settled, Files!Exists, Files!Outsider
<1> QED
  BY <1>1, <1>3, RestShrink

LEMMA RestClose ==
  ASSUME RestInv, NEW s \in Session, Files!CloseFiles(s)
  PROVE  OnePlanEach' /\ ClaimsSeparate'
<1>1. done' = done /\ contested' = contested
      /\ \A t \in Session : plan'[t] = plan[t] \/ plan'[t] = <<>>
  BY DEF RestInv, FilesBasic, FilesTyped, Files!TypeOK, Files!CloseFiles
<1>2. ASSUME NEW p \in Path, Files!Settled(p)' PROVE Files!Settled(p)
  BY <1>1, <1>2 DEF Files!CloseFiles, Files!Settled, Files!Exists, Files!Outsider
<1> QED
  BY <1>1, <1>2, RestShrink

LEMMA RestOther ==
  ASSUME RestInv, NEW p \in Path, Files!OtherSaves(p) \/ Files!UserDeletes(p)
  PROVE  OnePlanEach' /\ ClaimsSeparate'
<1>1. plan' = plan /\ done' = done /\ contested \subseteq contested'
  BY DEF Files!OtherSaves, Files!UserDeletes
<1>2. \A t \in Session : Files!Claims(t)' = Files!Claims(t)
  BY <1>1 DEF Files!Claims, Files!Planned, Files!PathOf
<1>3. ASSUME NEW q \in Path \ contested', Files!Settled(q)'
      PROVE  Files!Settled(q) \/ \A t \in Session : q \notin Files!Claims(t)'
  <2>1. CASE q = p
    BY <1>2, <1>3, <2>1 DEF Files!OtherSaves, Files!UserDeletes, Files!Settled,
       Files!Exists, RestInv, FilesBasic, FilesTyped, Files!TypeOK
  <2>2. CASE q # p
    BY <1>3, <2>2 DEF Files!OtherSaves, Files!UserDeletes, Files!Settled,
       Files!Exists, Files!Outsider, RestInv, FilesBasic, FilesTyped, Files!TypeOK
  <2> QED
    BY <2>1, <2>2
<1> QED
  BY <1>1, <1>3, RestShrink

LEMMA RestStep ==
  ASSUME RestInv, FilesStep \/ UNCHANGED fileVars PROVE RestInv'
<1>1. FilesBasic' /\ NoPartialLeft'
  BY BasicStep, PartialStep DEF RestInv
<1>2. CASE UNCHANGED fileVars
  <2>1. DoneClosed' /\ OnePlanEach'
    BY <1>2 DEF RestInv, fileVars, DoneClosed, OnePlanEach
  <2>2. ClaimsSeparate'
    BY <1>2 DEF RestInv, fileVars, ClaimsSeparate, Files!Claims, Files!Planned, Files!PathOf,
                Files!Settled, Files!Exists, Files!Outsider
  <2> QED
    BY <1>1, <2>1, <2>2 DEF RestInv
<1>3. CASE FilesStep
  <2>1. DoneClosed'
    BY <1>3 DEF FilesStep, RestInv, DoneClosed, Files!Reserve, Files!OpenFile, Files!OpenFails,
       Files!WriteChunk, Files!FinishFile, Files!CloseFiles, Files!OtherSaves, Files!UserDeletes
  <2>2. OnePlanEach' /\ ClaimsSeparate'
    BY <1>3, RestReserve, RestFile, RestFinish, RestClose, RestOther DEF FilesStep
  <2> QED
    BY <1>1, <2>1, <2>2 DEF RestInv
<1> QED
  BY <1>2, <1>3

\* Who touches a file at rest: at a path that is not contested, only the user.
LEMMA RestKept ==
  ASSUME RestInv, FilesStep \/ UNCHANGED fileVars,
         NEW p \in Path, Files!Settled(p), disk'[p] # disk[p], p \notin contested
  PROVE  Files!UserDeletes(p)
<1> USE DEF RestInv, FilesBasic, FilesTyped
<1>1. \A s \in Session : p \notin Files!Claims(s)
  BY DEF ClaimsSeparate
<1>2. ASSUME NEW s \in Session, NEW a \in Files!Planned(s), a \notin done
      PROVE  p # Files!PathOf(a)
  BY <1>1, <1>2 DEF Files!Claims
<1>3. ASSUME NEW s \in Session, NEW a \in Files!Attachment,
             \/ Files!OpenFile(s, a) \/ Files!OpenFails(s, a)
             \/ Files!WriteChunk(s, a) \/ Files!FinishFile(s, a)
      PROVE  FALSE
  <2>1. a \in Files!Planned(s) \ done
    BY <1>3 DEF Files!OpenFile, Files!OpenFails, Files!WriteChunk, Files!FinishFile,
                Files!OwnFiles, DoneClosed
  <2> QED
    BY <1>2, <1>3, <2>1 DEF Files!TypeOK, Files!OpenFile, Files!OpenFails, Files!WriteChunk,
                Files!FinishFile, Files!Write
<1>4. ASSUME NEW s \in Session, Files!CloseFiles(s) PROVE FALSE
  <2>1. PICK a \in Files!OwnFiles(s) : p = Files!PathOf(a)
    BY <1>4 DEF Files!CloseFiles, Files!TypeOK
  <2> QED
    BY <1>2, <2>1 DEF Files!OwnFiles, DoneClosed
<1>5. ASSUME NEW q \in Path, Files!OtherSaves(q) \/ Files!UserDeletes(q)
      PROVE  Files!UserDeletes(p)
  BY <1>5 DEF Files!OtherSaves, Files!UserDeletes, Files!TypeOK, Files!Settled, Files!Exists
<1>6. ~\E s \in Session : Files!Reserve(s)
  BY DEF Files!Reserve
<1> QED
  BY <1>3, <1>4, <1>5, <1>6 DEF FilesStep, fileVars

\* Sessions that choose, create, write and remove files by path, a user and other
\* applications: a file at rest whose path was never claimed twice is the user's
\* to delete and nobody else's to change.
THEOREM RestingFilesKept == ReceptionSpec => KeepsOthers
<1>1. ReceptionInit => RestInv
  <2>1. ReceptionInit => FilesBasic /\ NoPartialLeft
    BY DEF ReceptionInit, Files!Init, FilesBasic, FilesTyped, PlannedObjects,
           Files!TypeOK, Files!Outsider, NoPartialLeft, Files!NoPartialLeft
  <2>2. ReceptionInit => DoneClosed /\ OnePlanEach /\ ClaimsSeparate
    BY DEF ReceptionInit, Files!Init, DoneClosed, OnePlanEach, ClaimsSeparate,
           Files!Claims, Files!Planned
  <2> QED
    BY <2>1, <2>2 DEF RestInv
<1>2. RestInv /\ [ReceptionNext]_receptionVars => RestInv'
  BY RestStep, StepOnFiles
<1>3. RestInv /\ [ReceptionNext]_receptionVars
        => [\A p \in Path : Files!Settled(p) /\ disk'[p] # disk[p]
              => p \in contested \/ Files!UserDeletes(p)]_(Files!fileVars)
  BY RestKept, StepOnFiles
<1> QED
  BY <1>1, <1>2, <1>3, PTL DEF ReceptionSpec, KeepsOthers, Files!KeepsOthers

\* One session in the directory at a time.
OneAtATime == \A s, t \in Session : plan[s] # <<>> /\ plan[t] # <<>> => s = t

\* No path has been claimed twice.
Uncontested == contested = {}

LEMMA UncontestedStep ==
  ASSUME UserPath = {}, Files!TypeOK, Uncontested, OneAtATime',
         [ReceptionNext]_receptionVars
  PROVE  Uncontested'
<1> USE DEF Uncontested
<1>1. CASE \E s \in Session : Files!Reserve(s)
  <2> SUFFICES ASSUME NEW s \in Session, Files!Reserve(s) PROVE contested' = {}
    BY <1>1
  <2>1. PICK p \in Path :
          /\ plan' = [plan EXCEPT ![s] = Append(@, p)]
          /\ contested' = IF \E t \in Session \ {s} : p \in Files!Claims(t)
                          THEN contested \cup {p} ELSE contested
    BY DEF Files!Reserve
  <2>2. plan \in [Session -> Seq(Path)]
    BY DEF Files!TypeOK
  <2>3. plan'[s] # <<>> /\ \A t \in Session \ {s} : plan'[t] = plan[t]
    BY <2>1, <2>2
  <2>4. ASSUME NEW t \in Session \ {s} PROVE p \notin Files!Claims(t)
    <3>1. plan[t] = <<>>
      BY <2>3 DEF OneAtATime
    <3> QED
      BY <3>1 DEF Files!Claims, Files!Planned
  <2> QED
    BY <2>1, <2>4
<1>2. CASE contested' = contested
  BY <1>2
<1> QED
  BY <1>1, <1>2 DEF receptionVars, fileVars, ReceptionNext, ThreadStep, SessionPeerStep, Timer,
     EventLoop, UserStep, CreateFile, CreateFails, Close, Grant, GateStep, ReservePath,
     AskConsent, ReceiveChunk, Files!OpenFile, Files!OpenFails, Files!WriteChunk,
     Files!FinishFile, Files!CloseFiles

\* Where README.md is right that name collisions create a new numbered file: as long as
\* the connections come one after the other and only the sessions create files in the
\* directory, none of them changes a file at rest.
THEOREM SerialSessionsOverwriteNothing ==
  ASSUME UserPath = {}
  PROVE  ReceptionSpec /\ []OneAtATime => NeverOverwrites
<1>1. ReceptionInit => Uncontested
  BY DEF ReceptionInit, Files!Init, Uncontested
<1>2. ReceptionTypeOK /\ Uncontested /\ OneAtATime' /\ [ReceptionNext]_receptionVars
        => Uncontested'
  BY UncontestedStep DEF ReceptionTypeOK
<1>3. Uncontested /\ [\A p \in Path : Files!Settled(p) /\ disk'[p] # disk[p]
                           => p \in contested \/ Files!UserDeletes(p)]_(Files!fileVars)
        => [\A p \in Path : Files!Settled(p) /\ disk'[p] # disk[p]
              => Files!UserDeletes(p)]_(Files!fileVars)
  BY DEF Uncontested
<1> QED
  BY <1>1, <1>2, <1>3, ReceptionTypes, RestingFilesKept, PTL
  DEF ReceptionSpec, KeepsOthers, Files!KeepsOthers, NeverOverwrites, Files!NeverOverwrites

-----------------------------------------------------------------------------
(* The gate and the directory together. *)

\* What Consent promises, kept by sessions with files: the gate is never left
\* taken, no session acts on an old acceptance, no dialog outlives its session.
THEOREM GateKept == ReceptionSpec => [](NoOrphanDecision /\ FreshConsent /\ NoStaleDialog)
BY GateImplemented, NoOrphan, Fresh, DialogOwned, PTL

\* Sessions that asked after, or were asking at, an acceptance of the user.
FilesHeard == \A a \in objects : a[1] \in heard
BytesHeard == \A p \in Path : \A a \in disk[p] : a # Files!Outsider => a[1] \in heard

\* No file of a peer is created, and no byte of it reaches the disk, unless the
\* user accepted while that peer's session was at the gate: the check of the word
\* and the creation of the files are steps apart.
THEOREM NothingUnasked == ReceptionSpec => [](FilesHeard /\ BytesHeard)
<1> DEFINE Inv == FilesHeard /\ BytesHeard
<1>1. ReceptionInit => Inv
  BY DEF ReceptionInit, Files!Init, FilesHeard, BytesHeard
<1>2. TypeOK /\ FilesBasic /\ FreshConsent /\ Inv /\ [ReceptionNext]_receptionVars => Inv'
  <2> SUFFICES ASSUME TypeOK, FilesBasic, FreshConsent, Inv, [ReceptionNext]_receptionVars
               PROVE  Inv'
    OBVIOUS
  <2>1. heard \subseteq heard'
    <3>1. [Next]_vars
      BY StepOnGate
    <3> QED
      BY <3>1 DEF Next, ConsentStep, PeerStep, ConsentTimeout, DeliverPosted, AcceptTransfer,
        RejectTransfer, PostShow, ReadAccepted, ReadRejected, ReadUndecided, PollAgain, PeerGone,
        Granted, GrantFails, FinishConsent, PostClear, Destroy, HandshakeEnds, BeginConsent,
        RefuseConsent, ReceivingEnds, vars, history
  <2>2. ASSUME NEW s \in Session, CreateFile(s) \/ CreateFails(s) PROVE Inv'
    <3>1. s \in heard
      BY <2>2 DEF CreateFile, CreateFails, GrantFails, FreshConsent, Admitted
    <3>2. PICK a \in Files!Attachment : Files!OpenFile(s, a) \/ Files!OpenFails(s, a)
      BY <2>2 DEF CreateFile, CreateFails
    <3>3. a[1] = s
      BY <3>2, PlannedForm DEF Files!OpenFile, Files!OpenFails, FilesBasic
    <3>4. FilesHeard'
      BY <2>1, <3>1, <3>2, <3>3 DEF FilesHeard, Files!OpenFile, Files!OpenFails
    <3>5. disk' = disk \/ disk' = [disk EXCEPT ![Files!PathOf(a)] = {a}]
      BY <3>2 DEF Files!OpenFile, Files!OpenFails
    <3>6. \A p \in Path : disk'[p] = disk[p] \/ disk'[p] = {a}
      BY <3>5 DEF FilesBasic, FilesTyped, Files!TypeOK
    <3>7. BytesHeard'
      BY <2>1, <3>1, <3>3, <3>6 DEF BytesHeard, Files!Outsider
    <3> QED
      BY <3>4, <3>7
  <2>3. ASSUME NEW s \in Session, NEW a \in Files!Attachment,
               Files!WriteChunk(s, a) \/ Files!FinishFile(s, a)
        PROVE  Inv'
    <3>1. FilesHeard'
      BY <2>1, <2>3 DEF FilesHeard, Files!WriteChunk, Files!FinishFile
    <3>2. BytesHeard'
      BY <2>1, <2>3 DEF FilesHeard, BytesHeard, Files!WriteChunk, Files!FinishFile,
         Files!Write, Files!OwnFiles, FilesBasic, FilesTyped, Files!TypeOK, Files!Outsider
    <3> QED
      BY <3>1, <3>2
  <2>4. ASSUME NEW s \in Session, Files!CloseFiles(s) \/ Files!Reserve(s) PROVE Inv'
    BY <2>1, <2>4 DEF FilesHeard, BytesHeard, Files!CloseFiles, Files!Reserve, Files!Outsider
  <2>5. ASSUME NEW p \in Path, Files!OtherSaves(p) \/ Files!UserDeletes(p) PROVE Inv'
    BY <2>1, <2>5 DEF FilesHeard, BytesHeard, Files!OtherSaves, Files!UserDeletes,
       FilesBasic, FilesTyped, Files!TypeOK, Files!Outsider
  <2>6. CASE UNCHANGED fileVars
    BY <2>1, <2>6 DEF fileVars, FilesHeard, BytesHeard, Files!Outsider
  <2>7. \/ \E s \in Session : \/ CreateFile(s) \/ CreateFails(s)
                             \/ Files!CloseFiles(s) \/ Files!Reserve(s)
                             \/ \E a \in Files!Attachment : Files!WriteChunk(s, a)
                                                            \/ Files!FinishFile(s, a)
        \/ \E p \in Path : Files!OtherSaves(p) \/ Files!UserDeletes(p)
        \/ UNCHANGED fileVars
    <3>1. CASE UNCHANGED receptionVars
      BY <3>1 DEF receptionVars
    <3>2. CASE ReceptionNext
      BY <3>2, ReceptionAssumption DEF ReceptionNext, ThreadStep, SessionPeerStep, UserStep,
         EventLoop, Timer, ReservePath, ReceiveChunk, Close, Grant, GateStep, AskConsent
    <3> QED
      BY <3>1, <3>2
  <2> QED
    BY <2>2, <2>3, <2>4, <2>5, <2>6, <2>7
<1>3. ReceptionInit => FilesBasic
  BY DEF ReceptionInit, Files!Init, FilesBasic, FilesTyped, PlannedObjects,
         Files!TypeOK, Files!Outsider
<1>4. FilesBasic /\ [ReceptionNext]_receptionVars => FilesBasic'
  BY BasicStep, StepOnFiles
<1>5. ReceptionSpec => [](TypeOK /\ FreshConsent)
  BY GateImplemented, TypeCorrect, Fresh, PTL
<1> QED
  BY <1>1, <1>2, <1>3, <1>4, <1>5, PTL DEF ReceptionSpec
=============================================================================
