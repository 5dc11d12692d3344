------------------------------ MODULE SendControl ------------------------------
(***************************************************************************)
(* The flags of ShareService that say what the app is doing (searching,    *)
(* preparing a send, sending, showing a progress bar), the list of devices *)
(* and the selection.  They belong to the UI thread; each is set there and *)
(* taken back by a call that another thread posts when its work is done:   *)
(* the mDNS worker (workerMain), the sending thread (senderMain) and the   *)
(* receiving threads (sessionMain), the last two seen here only through    *)
(* the calls they post.                                                    *)
(***************************************************************************)
EXTENDS Integers, Sequences

CONSTANTS
  Device,    \* the devices nearby
  NoDevice,  \* nothing selected, or nothing asked for
  Receiver,  \* the incoming connections
  MaxQueue   \* bound: posted calls beyond which no thread repeats itself

ASSUME ControlAssumption == NoDevice \notin Device /\ MaxQueue \in Nat

VARIABLES
  \* the UI thread
  scanning,        \* m_scanning
  devices,         \* m_devices
  selected,        \* m_selectedDeviceInstance
  files,           \* outgoingReady()
  refreshPending,  \* m_sendRefreshPending
  timers,          \* the single-shot timers of sendOutgoing that are running
  sendActive,      \* m_sendActive
  transferActive,  \* m_transferActive
  queue,           \* the calls posted to the UI thread
  \* shared under m_discoveryMutex
  scanRequested,   \* m_scanRequested
  resolveRequested,\* m_resolveInstanceRequested
  \* the other threads
  worker,          \* the mDNS worker; "scanning" is ctx->scanActive
  published,       \* the list behind publishedDeviceSignature
  sender,          \* the sending thread
  target,          \* the device it was started for
  receiver,        \* where each receiving thread is
  \* history
  resolving        \* the device that the last tap on Send asked to resolve

uiVars == <<scanning, devices, selected, files, refreshPending, timers, sendActive,
            transferActive>>
sharedVars == <<scanRequested, resolveRequested>>
threadVars == <<worker, published, sender, target, receiver>>
vars == <<uiVars, queue, sharedVars, threadVars, resolving>>

Call(name) == [call |-> name, list |-> {}]
SyncDevices(list) == [call |-> "syncDevices", list |-> list]

Calls == [call : {"setScanning", "setProgress", "clearProgress", "sendFinished"}, list : {{}}]
           \cup [call : {"syncDevices"}, list : SUBSET Device]

FlagsOK ==
  /\ scanning \in BOOLEAN /\ files \in BOOLEAN /\ refreshPending \in BOOLEAN
  /\ sendActive \in BOOLEAN /\ transferActive \in BOOLEAN /\ scanRequested \in BOOLEAN

DataOK ==
  /\ devices \in SUBSET Device /\ published \in SUBSET Device
  /\ selected \in Device \cup {NoDevice}
  /\ resolveRequested \in Device \cup {NoDevice}
  /\ target \in Device \cup {NoDevice} /\ resolving \in Device \cup {NoDevice}
  /\ timers \in Nat
  /\ queue \in Seq(Calls)
  /\ worker \in {"starting", "idle", "scanning", "gone"}
  /\ sender \in {"none", "running", "reported"}
  /\ receiver \in [Receiver -> {"quiet", "live", "closing", "ended"}]

TypeOK == FlagsOK /\ DataOK

Init ==
  /\ scanning = FALSE /\ files = FALSE /\ refreshPending = FALSE
  /\ sendActive = FALSE /\ transferActive = FALSE
  /\ devices = {} /\ published = {}
  /\ selected = NoDevice /\ target = NoDevice /\ resolving = NoDevice
  /\ timers = 0
  /\ queue = <<>>
  /\ scanRequested = FALSE /\ resolveRequested = NoDevice
  /\ worker = "starting"
  /\ sender = "none"
  /\ receiver = [r \in Receiver |-> "quiet"]

Post(call) == queue' = Append(queue, call)

-----------------------------------------------------------------------------
(* The user. *)

\* mutant of Search: the request is left for the worker even during a search.
SearchAgain ==
  /\ scanning' = TRUE
  /\ scanRequested' = TRUE

\* scanDevices.
Search ==
  IF scanning THEN UNCHANGED <<scanning, scanRequested>>
  ELSE scanning' = TRUE /\ scanRequested' = TRUE

\* Any of the buttons that search: they differ in when they are enabled.
TapSearch ==
  /\ \/ files /\ ~scanning /\ ~sendActive
     \/ ~scanning /\ devices = {}
  /\ Search
  /\ UNCHANGED <<devices, selected, files, refreshPending, timers, sendActive,
                 transferActive, queue, resolveRequested, threadVars, resolving>>

\* "Cambia dispositivo": clearDeviceSelection, scanDevices.
TapChange ==
  /\ selected # NoDevice /\ ~sendActive
  /\ selected' = NoDevice
  /\ Search
  /\ UNCHANGED <<devices, files, refreshPending, timers, sendActive, transferActive,
                 queue, resolveRequested, threadVars, resolving>>

\* A row of the list: it stays there, and active, whatever else goes on.
TapDevice(d) ==
  /\ files /\ d \in devices
  /\ selected' = d
  /\ UNCHANGED <<scanning, devices, files, refreshPending, timers, sendActive,
                 transferActive, queue, sharedVars, threadVars, resolving>>

\* selectOutgoingFiles (the picker, or the Share menu) and clearOutgoingFile.
PickFiles ==
  /\ ~files
  /\ files' = TRUE
  /\ UNCHANGED <<scanning, devices, selected, refreshPending, timers, sendActive,
                 transferActive, queue, sharedVars, threadVars, resolving>>

ClearFiles ==
  /\ files /\ ~sendActive
  /\ files' = FALSE
  /\ UNCHANGED <<scanning, devices, selected, refreshPending, timers, sendActive,
                 transferActive, queue, sharedVars, threadVars, resolving>>

\* mutant of MaySend: a send being prepared is forgotten.
MaySendTwice == ~sendActive /\ files /\ selected # NoDevice

\* The early return of sendOutgoing.
MaySend == ~sendActive /\ ~refreshPending /\ files /\ selected # NoDevice

\* sendOutgoing: the worker is asked to resolve, the send starts in 2 s.
TapSend ==
  /\ files /\ ~transferActive /\ ~sendActive
  /\ MaySend
  /\ resolveRequested' = selected
  /\ resolving' = selected
  /\ refreshPending' = TRUE
  /\ timers' = timers + 1
  /\ UNCHANGED <<scanning, devices, selected, files, sendActive, transferActive, queue,
                 scanRequested, threadVars>>

-----------------------------------------------------------------------------
(* sendOutgoingResolved, when a timer fires. *)

\* mutant of TimerFires: the slot is called without its timer.
TimerFiresUnarmed ==
  /\ timers' = timers - 1
  /\ refreshPending' = FALSE
  /\ UNCHANGED <<devices, files, queue, resolveRequested, worker, published, receiver,
                 resolving>>

TimerFires ==
  /\ timers > 0
  /\ timers' = timers - 1
  /\ refreshPending' = FALSE
  /\ UNCHANGED <<devices, files, queue, resolveRequested, worker, published, receiver,
                 resolving>>

\* The conditions may have changed since the tap; a device that has left the list
\* loses the selection.
SendDropped ==
  /\ TimerFires
  /\ \/ sendActive \/ ~files \/ selected = NoDevice
     \/ selected \notin devices
  /\ selected' = IF sendActive \/ ~files THEN selected ELSE NoDevice
  /\ UNCHANGED <<scanning, scanRequested, sendActive, transferActive, sender, target>>

MayStart == ~sendActive /\ files /\ selected # NoDevice /\ selected \in devices

\* tcpEndpointReachable says no: the selection is cleared, a search starts.
SendUnreachable ==
  /\ TimerFires
  /\ MayStart
  /\ selected' = NoDevice
  /\ Search
  /\ UNCHANGED <<sendActive, transferActive, sender, target>>

SendStarts ==
  /\ TimerFires
  /\ MayStart
  /\ sendActive' = TRUE
  /\ transferActive' = TRUE
  /\ sender' = "running"
  /\ target' = selected
  /\ UNCHANGED <<scanning, scanRequested, selected>>

\* pthread_create fails.
SendNotStarted ==
  /\ TimerFires
  /\ MayStart
  /\ transferActive' = FALSE
  /\ UNCHANGED <<scanning, scanRequested, selected, sendActive, sender, target>>

-----------------------------------------------------------------------------
(* The posted calls, delivered in posting order. *)

DeliverScanning ==
  /\ Head(queue).call = "setScanning"
  /\ scanning' = FALSE
  /\ UNCHANGED <<devices, selected, files, refreshPending, timers, sendActive, transferActive>>

\* mutant of Sync: the selection survives the device.
SyncKeepingSelection(list) ==
  /\ devices' = list
  /\ UNCHANGED selected

\* syncDevices: a selected device that is no longer in the list is dropped.
Sync(list) ==
  /\ devices' = list
  /\ selected' = IF selected \in list THEN selected ELSE NoDevice

DeliverDevices ==
  /\ Head(queue).call = "syncDevices"
  /\ Sync(Head(queue).list)
  /\ UNCHANGED <<scanning, files, refreshPending, timers, sendActive, transferActive>>

DeliverProgress ==
  /\ Head(queue).call \in {"setProgress", "clearProgress"}
  /\ transferActive' = (Head(queue).call = "setProgress")
  /\ UNCHANGED <<scanning, devices, selected, files, refreshPending, timers, sendActive>>

\* sendFinished.
DeliverFinished ==
  /\ Head(queue).call = "sendFinished"
  /\ sendActive' = FALSE
  /\ transferActive' = FALSE
  /\ UNCHANGED <<scanning, devices, selected, files, refreshPending, timers>>

Deliver ==
  /\ queue # <<>>
  /\ queue' = Tail(queue)
  /\ DeliverScanning \/ DeliverDevices \/ DeliverProgress \/ DeliverFinished
  /\ UNCHANGED <<sharedVars, threadVars, resolving>>

-----------------------------------------------------------------------------
(* The mDNS worker. *)

\* The sockets are bound and the names probed.
WorkerStarts ==
  /\ worker = "starting"
  /\ worker' = "idle"
  /\ UNCHANGED <<uiVars, queue, sharedVars, published, sender, target, receiver, resolving>>

\* A socket cannot be had, or poll fails.
WorkerGone ==
  /\ worker # "gone"
  /\ worker' = "gone"
  /\ UNCHANGED <<uiVars, queue, sharedVars, published, sender, target, receiver, resolving>>

\* mutant of Publish: nothing is posted for an empty list.
PublishFound(list) ==
  /\ published' = list
  /\ IF list = published \/ list = {} THEN UNCHANGED queue ELSE Post(SyncDevices(list))

\* publishDiscoveredDevices: only a list that differs from the last one is posted.
Publish(list) ==
  /\ published' = list
  /\ IF list = published THEN UNCHANGED queue ELSE Post(SyncDevices(list))

\* takeScanRequest: a search starts from an empty cache.
TakeScan ==
  /\ worker \in {"idle", "scanning"}
  /\ scanRequested
  /\ scanRequested' = FALSE
  /\ Publish({})
  /\ worker' = "scanning"
  /\ UNCHANGED <<uiVars, resolveRequested, sender, target, receiver, resolving>>

\* takeResolveRequest: two queries go out.
TakeResolve ==
  /\ worker \in {"idle", "scanning"}
  /\ resolveRequested # NoDevice
  /\ resolveRequested' = NoDevice
  /\ UNCHANGED <<uiVars, queue, scanRequested, threadVars, resolving>>

\* Records arrive or expire, with or without a search.
CacheChanges ==
  /\ worker \in {"idle", "scanning"}
  /\ Len(queue) < MaxQueue
  /\ \E list \in SUBSET Device : list # published /\ Publish(list)
  /\ UNCHANGED <<uiVars, sharedVars, worker, sender, target, receiver, resolving>>

\* mutant of ScanOver: the end of the search is posted on every turn after it.
ScanOverRepeated ==
  /\ worker = "scanning"
  /\ Post(Call("setScanning"))
  /\ worker' \in {"idle", "scanning"}
  /\ UNCHANGED <<uiVars, sharedVars, published, sender, target, receiver, resolving>>

\* mutant of ScanOver: only a search that found somebody reports its end.
ScanOverFound ==
  /\ worker = "scanning"
  /\ IF published # {} THEN Post(Call("setScanning")) ELSE UNCHANGED queue
  /\ worker' = "idle"
  /\ UNCHANGED <<uiVars, sharedVars, published, sender, target, receiver, resolving>>

\* scanDeadlineMs has passed.
ScanOver ==
  /\ worker = "scanning"
  /\ Post(Call("setScanning"))
  /\ worker' = "idle"
  /\ UNCHANGED <<uiVars, sharedVars, published, sender, target, receiver, resolving>>

-----------------------------------------------------------------------------
(* The sending thread, as its posted calls. *)

SenderProgress ==
  /\ sender = "running"
  /\ Len(queue) < MaxQueue
  /\ Post(Call("setProgress"))
  /\ UNCHANGED <<uiVars, sharedVars, threadVars, resolving>>

\* fail(), or the end of sendFiles.
SenderClears ==
  /\ sender = "running"
  /\ Post(Call("clearProgress"))
  /\ sender' = "reported"
  /\ UNCHANGED <<uiVars, sharedVars, worker, published, target, receiver, resolving>>

\* mutant of SenderReturns: a failure is not reported.
SenderReturnsSilently ==
  /\ sender # "none"
  /\ IF sender = "reported" THEN Post(Call("sendFinished")) ELSE UNCHANGED queue
  /\ sender' = "none"
  /\ target' = NoDevice
  /\ UNCHANGED <<uiVars, sharedVars, worker, published, receiver, resolving>>

\* senderMain posts the result and the thread ends.
SenderReturns ==
  /\ sender # "none"
  /\ Post(Call("sendFinished"))
  /\ sender' = "none"
  /\ target' = NoDevice
  /\ UNCHANGED <<uiVars, sharedVars, worker, published, receiver, resolving>>

-----------------------------------------------------------------------------
(* The receiving threads, as their posted calls. *)

\* Accepted, or another chunk: m_state is Receiving.
ReceiverProgress(r) ==
  /\ receiver[r] \in {"quiet", "live"}
  /\ Len(queue) < MaxQueue
  /\ Post(Call("setProgress"))
  /\ receiver' = [receiver EXCEPT ![r] = "live"]
  /\ UNCHANGED <<uiVars, sharedVars, worker, published, sender, target, resolving>>

\* fail(), or the last attachment is complete.
ReceiverClears(r) ==
  /\ receiver[r] \in {"quiet", "live"}
  /\ Post(Call("clearProgress"))
  /\ receiver' = [receiver EXCEPT ![r] = IF receiver[r] = "live" THEN "closing" ELSE "ended"]
  /\ UNCHANGED <<uiVars, sharedVars, worker, published, sender, target, resolving>>

\* mutant of ReceiverDestroyed: the destructor leaves the progress alone.
ReceiverDestroyedSilently(r) ==
  /\ receiver[r] \in {"live", "closing"}
  /\ receiver' = [receiver EXCEPT ![r] = "ended"]
  /\ UNCHANGED <<uiVars, queue, sharedVars, worker, published, sender, target, resolving>>

\* The destructor, m_state = Receiving.
ReceiverDestroyed(r) ==
  /\ receiver[r] \in {"live", "closing"}
  /\ Post(Call("clearProgress"))
  /\ receiver' = [receiver EXCEPT ![r] = "ended"]
  /\ UNCHANGED <<uiVars, sharedVars, worker, published, sender, target, resolving>>

\* It never came to receiving: the peer left or was rejected.
ReceiverLeaves(r) ==
  /\ receiver[r] = "quiet"
  /\ receiver' = [receiver EXCEPT ![r] = "ended"]
  /\ UNCHANGED <<uiVars, queue, sharedVars, worker, published, sender, target, resolving>>

-----------------------------------------------------------------------------
UserStep ==
  \/ TapSearch \/ TapChange \/ TapSend
  \/ PickFiles \/ ClearFiles
  \/ \E d \in Device : TapDevice(d)

SendTimer == SendDropped \/ SendUnreachable \/ SendStarts \/ SendNotStarted

WorkerStep ==
  \/ WorkerStarts \/ WorkerGone
  \/ TakeScan \/ TakeResolve \/ CacheChanges \/ ScanOver

SenderStep == SenderProgress \/ SenderClears \/ SenderReturns

ReceiverStep(r) ==
  \/ ReceiverProgress(r) \/ ReceiverClears(r)
  \/ ReceiverDestroyed(r) \/ ReceiverLeaves(r)

Next ==
  \/ UserStep
  \/ SendTimer
  \/ Deliver
  \/ WorkerStep
  \/ SenderStep
  \/ \E r \in Receiver : ReceiverStep(r)

Spec == Init /\ [][Next]_vars

\* The event loop turns, timers fire, the worker's loop turns while it lives, and a
\* sending thread ends (SendSession!SenderEnds).  Users and peers owe nothing.
FairSpec ==
  /\ Spec
  /\ WF_vars(Deliver) /\ WF_vars(SendTimer)
  /\ WF_vars(WorkerStarts) /\ WF_vars(TakeScan) /\ WF_vars(ScanOver)
  /\ WF_vars(SenderReturns)

-----------------------------------------------------------------------------
(* Safety. *)

\* What is said of a queue q of posted calls.
Holds(q, name) == \E n \in 1..Len(q) : q[n].call = name

AtMostOnce(q, name) ==
  \A m, n \in 1..Len(q) : q[m].call = name /\ q[n].call = name => m = n

Clears == {"clearProgress", "sendFinished"}

\* Whether the progress bar shows once q is drained, if shown says whether it does now.
Settles(q, shown) ==
  \/ shown /\ \A n \in 1..Len(q) : q[n].call \notin Clears
  \/ \E m \in 1..Len(q) :
       /\ q[m].call = "setProgress"
       /\ \A n \in (m + 1)..Len(q) : q[n].call \notin Clears

LastListIs(q, list) ==
  \A m \in 1..Len(q) :
    /\ q[m].call = "syncDevices"
    /\ \A n \in (m + 1)..Len(q) : q[n].call # "syncDevices"
    => q[m].list = list

\* One search at a time, whoever holds it: the request, the worker, or the call that
\* ends it.  So the end of one search is never taken for the end of the next, and
\* the search button comes back unless the worker itself is gone.
SearchOwned ==
  /\ scanRequested \/ worker = "scanning" \/ Holds(queue, "setScanning") => scanning
  /\ scanning =>
       scanRequested \/ worker \in {"scanning", "gone"} \/ Holds(queue, "setScanning")
  /\ ~(scanRequested /\ worker = "scanning")
  /\ Holds(queue, "setScanning") => ~scanRequested /\ worker # "scanning"
  /\ AtMostOnce(queue, "setScanning")

\* One send at a time, from the tap on Send to the delivery of its result: a second
\* thread would share the files, the progress bar and the status of the first.
SendOwned ==
  /\ timers = (IF refreshPending THEN 1 ELSE 0)
  /\ sendActive <=> (sender # "none" \/ Holds(queue, "sendFinished"))
  /\ Holds(queue, "sendFinished") => sender = "none"
  /\ AtMostOnce(queue, "sendFinished")
  /\ sender # "none" <=> target # NoDevice

\* A progress bar that will not go away by itself belongs to a thread that has not
\* yet posted its last clear.  The Send button is disabled while the bar shows.
ProgressOwned ==
  Settles(queue, transferActive) =>
    sender # "none" \/ \E r \in Receiver : receiver[r] = "live"

\* The list on the screen settles on what the worker published last, although the
\* worker posts only differences, and the selected device is always in the list.
ListInSync ==
  /\ LastListIs(queue, published)
  /\ ~Holds(queue, "syncDevices") => devices = published
  /\ selected \in devices \cup {NoDevice}

-----------------------------------------------------------------------------
(* Liveness. *)

\* A search ends, unless the worker does first.
SearchEnds == scanning ~> (~scanning \/ worker = "gone")

\* A send that was tapped or started releases its button.
SendEnds == (refreshPending \/ sendActive) ~> (~refreshPending /\ ~sendActive)

-----------------------------------------------------------------------------
(* What docs/plan.md says of each send: "nuova risoluzione SRV/TXT mirata  *)
(* prima di avviare ogni invio".  The device sent to is the one that the   *)
(* tap on Send asked to resolve.                                           *)
ResolvedTarget == target \in {NoDevice, resolving}
=============================================================================
