# A formal model of BBX Share

BBX Share is a Quick Share client for BlackBerry 10 (C++, Qt/Cascades). This
directory holds TLA+ modules translated from its sources, the TLC configurations
that check them on small instances, and theorems about them checked by TLAPS.
Everything is about the behaviour of the program at the level of its threads,
its messages and its files; bytes on the wire and pixels are abstract.

## 1. The system

| Component | State it keeps | Operations |
| --- | --- | --- |
| **Consent gate** (`ShareService`, UI object shared by every thread) | one decision word under `m_consentMutex` (0 undecided, 1 accepted, -1 rejected or idle); the dialog (`m_transferPending`, title, detail) | `beginConsent`, `consentDecision`, `finishConsent` (receiver threads); `acceptTransfer`, `rejectTransfer`, `showPendingTransfer`, `clearPendingTransfer` (UI thread) |
| **Receiver session** (`QuickShareSession`, one detached thread a connection) | `m_state`, the announced attachments with their sizes and file objects, reassembly buffers and their account, timers | `run`, one handler per frame, `closeFiles`, destructor |
| **Download directory** (shared by all receiver threads, the user and other applications) | the files, the paths each session has reserved (`m_reservedPaths`), its file objects | `safeDestination`, creation after consent, `processIncomingFile`, `closeFiles` |
| **Sender** (`QuickShareSender`, one detached thread a transfer) | the place in `run`, the files and their measured sizes, position in the file in hand, control buffers, safe-disconnect flag | `run`, `receiveSharingFrame`, `checkPeerControl`, `sendFilePayload`, `waitForSafeDisconnect` |
| **Send and scan control** (`ShareService`, UI thread) | `m_scanning`, `m_scanRequested`, `m_sendActive`, `m_sendRefreshPending`, selection, progress flag | `scanDevices`, `syncDevices`, `sendOutgoing`, `sendOutgoingResolved`, `sendFinished`, `setTransferProgress`, `clearTransferProgress` |
| **Discovery cache** (mDNS worker thread) | PTR/SRV/TXT/A records with expiry | `parseDiscoveryPacket`, `expireDiscoveryRecords`, `publishDiscoveredDevices` |
| **mDNS responder** (same thread) | own names and addresses, announcement burst, heartbeat | `handlePacket`, `buildResponse`, `sendAnnounce`, `sendGoodbye`, `probeDnsIdentity` |
| **History** (UI thread) | list of at most 50 events, saved in an ini file | `appendEvent`, `saveHistory`, `loadHistory`, `clearHistory` |
| **Wire codec** (`ProtoWire`) | none | `readVarint`, `next`, `append*` |
| Cryptography, start-up, translations, QML layout | keys, texts | not modelled, see section 7 |

How they interact:

* the worker thread accepts TCP connections and starts one receiver thread each;
  nothing limits their number;
* receiver and sender threads call the UI object in two ways: directly, for the
  consent word (mutex), and by queued calls (`Qt::QueuedConnection`), which the
  UI thread delivers later, in posting order;
* receiver threads meet in the download directory without any lock: each looks for a
  free name on its own, creates the file only after the user's answer, and removes
  by path what it has not finished;
* the workers of two phones exchange mDNS packets, which may be lost; each keeps a
  cache of what it heard and posts its device list to its own UI;
* sender and receiver of two phones exchange frames over one TCP stream, each
  reading with its own timeouts (30 s a frame in the handshake, 60 s for the
  question, 60 s without a frame while receiving, 1.5 s for the final drain).

What is hard here: the consent word is not keyed by session and is read, reset
and answered by three kinds of threads; a queued call arrives after the state it
speaks of has changed; every exit of a session thread must give back the gate,
the progress bar and the partial files; the peer may send any frame at any time,
stop, close or vanish; the two ends must not wait for each other; files change
while they are sent; a name that is free when it is picked may not be free when the
file is created; records expire, come back and are taken back by packets that may be
lost, and the list must follow. The full list, with the line where each bites, is
`hazards` in `PROJECT.json`.

## 2. The modules

| Module | Models | Lines of the source |
| --- | --- | --- |
| `Consent` | the consent gate, for a set `Session` of connections | `ShareService.cpp:1216-1272`, `QuickShareSession.cpp:98-101, 970-1022` |
| `ConsentProofs` | theorems about `Consent` | |
| `Downloads` | the directory and the operations of sessions, user and others on it | `QuickShareSession.cpp:653-677, 819-862, 945-980` |
| `Reception` | composes `Consent` and `Downloads`: the receiver threads between gate and directory | `QuickShareSession.cpp:699-783, 961-1024` |
| `ReceptionProofs` | theorems about `Reception` | |
| `ReceiveSession` | one receiver thread and an arbitrary peer | `QuickShareSession.cpp:83-186, 289-1024` |
| `ReceiveSessionProofs` | theorems about `ReceiveSession` | |
| `SendSession` | one sender thread and an arbitrary receiver | `QuickShareSender.cpp:79-224, 386-985` |
| `SendSessionProofs` | theorems about `SendSession` | |
| `FileDelivery` | abstract: what a transfer promises | |
| `Transfer` | `SendSession` and `ReceiveSession` instantiated over one TCP stream; implements `FileDelivery` | both |
| `TransferProofs` | theorems about `Transfer`, the refinement among them | |
| `SendControl` | the UI's flags, device list, selection and queue of posted calls, with the threads that post them | `ShareService.cpp:412-474, 928-1140, 1199-1214, 1281-1295, 1436-1650`, `main.qml` |
| `SendControlProofs` | theorems about `SendControl` | |
| `DiscoveryCache` | the records the mDNS worker keeps and the list it makes of them | `ShareService.cpp:359-617, 774-800` |
| `Announce` | when the worker announces | `ShareService.cpp:766-770, 1044-1126` |
| `Presence` | composes both: a peer that announces, the network, this phone's cache | `ShareService.cpp:641-764, 829-902, 1051-1165` |
| `PresenceProofs` | theorems about `Presence` | |
| `Sums` | sums over a finite set without recursion, for the accounts of `ReceiveSession` | `QuickShareSession.cpp:733-735` |
| `DataLemmas` | facts about sums, orders and step-by-step computations that several proofs use | |
| `MC*` | constants for TLC | |

`PROJECT.json` maps every definition to the lines it translates.

**Consent.** `pc[s]` is the place of thread `s`; `decision` and `dialog` are the
shared word and the shared dialog; `posted` is the UI thread's queue. As in the
code, `beginConsent` and `finishConsent` are two steps each: the mutex section,
then the post. `finishConsent` runs again in the destructor whenever `m_state`
is still `AwaitConsent` (`resume` says where a call returns to). The buttons act
only while the dialog shows, and only on a word that is 0.

**Downloads.** `disk[p]` is the set of attachments whose bytes the file at path `p`
holds, so that a file written by two sessions shows as such. `plan[s]` is the list of
paths `safeDestination` gave session `s`, `objects` the attachments with a `QFile`,
`attached` those whose `QFile` still writes to the file that is now at the path: a
file removed or created anew under an open `QFile` leaves it writing to nothing, or to
the truncated file. All attachments have one name, the only case in which sessions
meet; path 0 is the name and path `n` is "name (n)". `contested` is a history variable:
the paths for which a second claim was made while a session held one. `Reception` puts
each operation at its place in the thread: paths are picked in the handshake, files
created between the answer and `finishConsent`, removed after the destructor's
`finishConsent`.

**ReceiveSession.** A frame is a record. `PlainFrame` is the four-frame UKEY2
handshake; `SecureFrame` is `processEncryptedFrame` with its three branches
(file payload, byte payload, everything else). An encrypted frame is what
`decryptOffline` yields, or `"garbage"` when the HMAC or the sequence number does
not verify. Payload bytes are units of a sequence, so that offsets, totals, the
last-chunk flag and the reassembly buffers are modelled one to one. `Fail`,
`Return` and `CloseFiles` are `fail()`, the end of `run()` with the destructor,
and `closeFiles()`; calls that may fail (a send, a write, creating a file, the
check of the disk) have a failing disjunct.

**SendSession.** `at` is the place in `run()`; `length` is the length of each
selected file now and `declared` the one measured at the start, so a file may
change at any moment (`Resize`). A message of the receiver is reassembled in
`control` exactly as `processReceivedOffline` does. The payload ids that
`sendIntroduction` draws at random are distinct numbers here.

**Transfer** puts the two threads on a stream: `toReceiver` and `toSender` hold
frames in order. A direction may be cut for ever without anybody being told; an
end of stream is seen only after what was sent before it has been read; a close
with unread data may destroy what the other side has not read (`Reset`).

**SendControl.** The variables of the UI thread are the members of `ShareService`
that the QML binds to; the buttons are actions guarded as QML enables them and as
the slots return early. `queue` is the queue of calls posted with
`Qt::QueuedConnection`; one `Deliver` action per posted slot. The mDNS worker is
reduced to what it takes (`takeScanRequest`, `takeResolveRequest`) and posts: which
devices it knows at any moment is arbitrary (`CacheChanges`). The sending and
receiving threads are reduced to the calls they post and the order these come in.
A device stands for its row; a change of its address or port with the same instance
posts the list again and changes nothing the properties see.

**DiscoveryCache.** `cache` holds the four hashes (PTR, SRV, TXT, A) as functions from
names to records with the time they have left, and in `seen` the order in which
instances were last seen, as the set of pairs <<i, j>> with i seen after j; `Receive` is `parseDiscoveryPacket` on the records of one packet, in order:
first what has expired goes, then each record is applied, then missing records are
asked for and the list is published if anything changed, unless the packet turned out
malformed (`cut`). `Rows` is the list: instances with an address and a port that are
not this phone, one a name and address. `Chosen` is the rule for hosts with several
addresses.

**Announce** counts time in the steady interval of 4 s; the steps of a burst and the
2.5 s throttle of the Bluetooth wake are shorter than that unit and due at once.
`silence` is a history variable: the units since the last announcement.

**Presence** connects the peer's announcements, answers and goodbye to this phone's
cache. The peer may stop, with a goodbye or without, start again under a new identity
(`generateDnsIdentity`) and move to another address; so may this phone. It also hears
its own announcements. The TTL of a packet is any of `WireTtl`, see section 5.

**FileDelivery** has four actions: lengths are proposed, the receiving user says
yes, a whole file appears (in the order of the selection, with exactly the units
proposed), or all is over. The refinement mapping takes the receiver's history
events for the files that have appeared.

## 3. The runs

| Run | Module, config | Instance | Shows |
| --- | --- | --- | --- |
| `consent` | `MCConsent.cfg` | 2 sessions | `NoOrphanDecision`, `FreshConsent`, `NoStaleDialog`, `ConsentResolves`, `DialogDismissed` |
| `consent_explicit` | `MCConsentExplicit.cfg` | 2 sessions | `ExplicitConsent` is **violated** |
| `reception` | `MCReception.cfg` | 2 sessions with 2 and 1 attachments of one name, paths 0..2, a user who saves and deletes at path 0 | `NoPartialLeft`, `KeepsOthers` |
| `reception_collision` | `MCReceptionCollision.cfg` | the same without the user | `NeverOverwrites` is **violated** |
| `receive` | `MCReceiveSession.cfg` | 2 payload ids, byte payloads of at most 2 units, 3 units of buffer | `BufferAccount`, `ReportedWhole`, `NoPartialFile`, `NothingBeforeConsent`, `SuccessIsComplete`, `ReceivedAccount`, `NoStuckProgress`, `SilentPeerReleased` |
| `receive_inactive` | `MCReceiveSessionInactive.cfg` | the same with fewer frames | `InactiveSessionEnds` is **violated** |
| `send` | `MCSendSession.cfg` | 2 files of 0 or 2 chunks | `SuccessMeansSent`, `SentInOrder`, `SenderEnds` |
| `transfer` | `MCTransfer.cfg` | 3 files of 0 or 2 chunks | `ReceiverBehind`, `SuccessNeedsConsent`, `SuccessOnItsWay`, `Delivers` (refinement), `TransferCompletes` |
| `transfer_outcome` | `MCTransferOutcome.cfg` | 2 files of 1 chunk | `BothSucceed` is **violated** |
| `send_control` | `MCSendControl.cfg` | 2 devices, 1 incoming connection | `SearchOwned`, `SendOwned`, `ProgressOwned`, `ListInSync`, `SearchEnds`, `SendEnds` |
| `send_target` | `MCSendControlTarget.cfg` | the same | `ResolvedTarget` is **violated** |
| `presence` | `MCPresence.cfg` | a peer with two identities, this phone, 3 addresses on 2 networks, records of at most 2 units, one change of address | `ListCurrent`, `SelfHidden`, `ReachableKept`, `HeartbeatKept`, `GoneDeviceLeaves` |

Every passing run also checks the type invariant of its module, but `transfer`: its types
are those of the two threads, which `receive` and `send` check, and `TypesKept` proves them
for the composition.

Bounds, and why they are enough. The gate couples sessions only through one word,
one dialog and one queue: two sessions give every race between an old and a new
question; each session asks once, as in the code. Nothing bounds the queue but the
number of sessions; the theorems of section 6 hold for any number of them. In the
directory two sessions and three paths are what it takes for one to pick a path of the
other, for a session to number its own second attachment, and for a file of the user
to stand in the way; the user touches only the path the name has without a number
(`UserPath`), where all claims start. For the receiver, two ids give a file and a text, one finished while
the other is open, and an empty file; limits of 2 and 3 units make both limits of
the byte payloads reachable, the second only by two buffers together; the
introductions include a repeated id, an oversized text, an overflowing total and
an empty list. `MaxQueue` (1) only keeps a thread
from posting the same kind of call again and again while the UI is busy: the calls
that end a search, a send or a session are posted whatever the queue holds, so seven
calls and more wait together; the proofs need no such bound. Two devices are
what it takes for a selection to move. `MaxOutbox` and `MaxUnread` bound only how much an arbitrary peer
leaves unread. In `Transfer` nothing is bounded but the files: what is in flight
is bounded by what the sender sends; three files are a first, a middle and a last.
In `Presence` a record lives at most 2 units (`MaxTtl`, the bound of `recordExpiry`), a
packet carries a TTL of 0 or of more than that bound (`WireTtl`), and there is one
change of address (`Moves`), of the peer or of this phone: one is enough for an old
address to stay in the cache, and the properties speak of what follows from one. The
burst has 2 steps for the code's 4, with the same cases: a step that is not the last,
the last, and none.

Deadlock checking is off (`CHECK_DEADLOCK FALSE`) in all runs but `presence`, because
every thread modelled ends; that nobody waits for ever is stated by the liveness properties.

## 4. Fairness

* `Consent!FairSpec`: the threads run, the timers elapse (`ConsentTimeout`) and
  the UI event loop turns. The user and the peer owe nothing.
* `Reception!FairReceptionSpec`: the same for the composition; it is what
  `reception_collision` runs under, so that its counterexample is not a stop.
* `ReceiveSession!FairSpec`: once the peer is out of reach, the thread's own
  timed steps are taken. Nothing is owed while the peer speaks, since each frame
  restarts the timer. In the three states without a timer no step exists, which is
  what `receive_inactive` shows.
* `SendSession!FairSpec`: the thread runs and all of its waits are timed
  (`NoAnswer` is the timeout of `receiveSharingFrame`, counted over all frames of
  one wait, so keep-alives do not extend it).
* `SendControl!FairSpec`: the event loop delivers, a single-shot timer fires, the
  worker turns its loop while it lives, and a sending thread ends (which is
  `SenderEnds` of `SendSession`). The user, the receivers' peers and the records of
  the cache owe nothing. A worker that dies during a search leaves the search on the
  screen; `SearchEnds` says so.
* `Transfer!Spec`: as long as nothing has gone wrong by itself (`calm`: no cut, no
  change of the files, no failing call, no timeout, no refusal), some step that keeps
  it so is taken while one can be: the two threads run and the user answers. Nothing is
  owed after the first thing that goes wrong, and `TransferCompletes` claims nothing
  then.
* `Presence!FairPresenceSpec`: time passes; this phone's worker turns its loop when a
  record has expired; it hears its own announcement once a unit of time (it announces at
  least every 4 s and the loop-back is local); a running peer sends its due
  announcement. The network may lose every packet of the peer, and the peer need not
  stay.

## 5. What was found

* `ExplicitConsent`: `beginConsent` refuses only a word that is 0
  (`ShareService.cpp:1220`). When the user has accepted one session and its thread has
  not looked yet, another session takes the word over and sets it back to 0, while the
  dialog of the first is still on the screen. A second tap on Accept in that dialog
  admits the other session, of which the user has seen nothing. The word names no
  session, and nothing that the code does in between tells the two apart. The same can
  happen after `finishConsent` has freed the word (1239) with its clear still queued; the
  counterexample shown is the shorter one. What does hold, and is proved, is
  `FreshConsent`: the tap came after the session that it admits had begun to ask.
* `InactiveSessionEnds`: a peer that goes silent between the handshake and the
  Introduction keeps the receiver's thread for ever. `SilentPeerReleased` holds in
  all other states.
* `ResolvedTarget`: the rows of the device list stay active during the two seconds
  between Send and the start of the send; a tap there changes the destination to a
  device for which no resolution was asked.
* `BothSucceed`: the receiver closes on its last byte, and the sender's next look
  at the socket takes the end of the stream for a failure.
* `NeverOverwrites`: two sessions can pick one path, since `safeDestination` knows the
  paths of its own session only and nothing is created before the user answers; the
  second one's `open(WriteOnly)` truncates what the first has received. Two things do
  hold and are proved. `KeepsOthers`: a file at rest is touched only at a path that was
  claimed twice in this way. `SerialSessionsOverwriteNothing`: when no two sessions hold
  paths at one time and no other application writes to the directory, nothing is
  overwritten, whatever the number of sessions, so the overlap is the whole cause.

Observed while modelling, without a run of their own:

* `appendRecord` (`ShareService.cpp:649`) puts `htonl(ttl)` into 16-bit fields and sends 4
  bytes from there: the TTL of 120 s of an announcement and the 0 of a goodbye (comment
  at 756-757, `docs/plan.md:30,33`) both go out as what lies next to that variable. The
  models leave the TTL open; `GoneDeviceLeaves` shows that expiry cleans up all the same.
* An A record whose address is not taken renews the one that is (`ShareService.cpp:607-609`),
  while `README.md:101-103` speaks of retention until the TTL only: a peer that moved
  within the network stays listed at its old address while it announces, until a search
  empties the cache. `GoneDeviceLeaves` says that its rows go once it stops announcing.
* After a change of this phone's own address on the same /24 network the old one stays in
  the cache, renewed by the phone's own announcements, and the phone may list itself;
  `SelfHidden` is stated for a phone that kept its address.
* `saveHistory` writes from the first row to the last, `loadHistory` appends from the last
  to the first (`ShareService.cpp:1344, 1382`): each restart reverses the list.
* A process that ends while a file is received leaves the part that was written.

## 6. What is proved

`ConsentProofs`, for every set of sessions (assumption: `NoSession` is not one of
them, `NoSessionAssumption`):

* `TypeCorrect`: `Spec => []TypeOK`.
* `NoOrphan`: `Spec => []NoOrphanDecision`. The invariant alone is not inductive: a
  thread that leaves the pending set must have set the word to -1. It becomes so
  with the type invariant, since every exit from the pending set is
  `FinishConsent`.
* `Fresh`: `Spec => []FreshConsent`, from `HeardInv`: while the word is 1 every
  pending session has heard that acceptance (`BeginConsent` makes the word 0 for
  all), and whoever has read the 1 had heard it.
* `DialogOwned`: `Spec => []NoStaleDialog`. The argument is about the value the
  dialog settles on once the queue is drained: delivery does not change it
  (`SettledAfterDelivery`), a post makes it the posted call
  (`SettledAfterPost`), and a thread leaves the set of those that owe a clear only
  by posting one.

`SendControlProofs`, for every set of devices and of connections and any queue
(assumption: `NoDevice` is not a device, `ControlAssumption`). Each invariant is
inductive together with the type invariant (`ControlTypes`); the work is in the
lemmas about the queue, which say what posting a call and delivering one do to
"such a call waits", "only one waits", "the bar settles on shown" and "the last list
waiting is this one":

* `SearchHasOwner`: `Spec => []SearchOwned`. Request, worker and posted end exclude
  one another, so `setScanning(false)` always ends the search on the screen.
* `SendHasOwner`: `Spec => []SendOwned`. The two flags that `sendOutgoing` tests are
  exactly a send being prepared and a send under way.
* `ProgressHasOwner`: `Spec => []ProgressOwned`. As for the dialog, by the value the
  bar settles on.
* `ListSettlesInSync`: `Spec => []ListInSync`.

`ReceptionProofs`, for every set of sessions, any number of attachments and any paths
(assumption: `ReceptionAssumption`, each session has at least one attachment and paths
are numbers):

* `GateImplemented`: `ReceptionSpec => Spec` of `Consent`, so that `GateKept` gets the
  three invariants of the gate for the composition without a new proof.
* `ReceptionTypes`, `NothingPartial`: `NoPartialLeft` is inductive with the types of the
  directory and the fact that an attachment which writes has its object.
* `RestingFilesKept`: `ReceptionSpec => KeepsOthers`. The invariant `RestInv` says that two
  claims on one path, or a claim on a path where a settled file stands, are recorded in
  `contested`; a step that changes a settled file is an `OpenFile`, a `Write` or a
  `CloseFiles`, each of which needs a claim.
* `SerialSessionsOverwriteNothing`: with `UserPath` empty, `ReceptionSpec` and
  `[]OneAtATime` imply `NeverOverwrites`. It is the counterpart of the violated run: the
  counterexample needs two sessions at once, and without them nothing is ever entered in
  `contested`.
* `NothingUnasked`: no session has a file object, or a byte on the disk, before it has
  heard an acceptance.

`ReceiveSessionProofs`, for any ids, limits and peer (assumptions: `LimitsAssumption` and
`FramesAssumption`, frames carry payload units and, for byte payloads, an id, a total and
an offset): `WholeWhenReported`, `NoneLeftPartial`, `NothingBefore`, `CompleteOnSuccess`,
`ProgressCleared`, `MemoryAccounted`, `ReceivedAccounted`, `TypesKept`. `StepClass` shows
that whatever handler takes a step, the step is one of five kinds: it leaves the
attachments alone, ends the session, asks the question, grants it, or stores a chunk.
Preserving the invariant (`SessionInv`: what each stage has done so far, and what the disk
and the history hold) is then five cases instead of one a handler.

The two accounts are invariants of their own. `MemoryAccounted` (`BufferAccount`) says that
`m_bufferedPayloadBytes` is the sum of what the reassembly buffers hold and stays within
both limits; the frame that would break a limit, the buffer that is finished and the one
that is dropped each change one summand and the account alike (`SumRaised`, `SumLowered`).
`ReceivedAccounted` says the same of `m_receivedBytes` and the attachments, on top of
`SessionInv`. `TypesKept` needs the sums too: a size is bounded only because the sum of
the sizes was (`SumBounds`).

`SendSessionProofs`, for any number of files and any receiver (assumptions:
`FilesAssumption`, `RepliesAssumption`): `SenderTypes`, `SuccessIsEarned`, `InOrder`, by the
same kind of classification and the invariant `SenderInv`, which ties the place in `run()`
to the place in the list of files.

`TransferProofs`, for any number of files and any lengths (assumption:
`TransferAssumption`, there is a file and lengths are numbers): `NeverAhead`,
`ConsentBeforeSuccess`, `NothingLostOnSuccess` and `Implements`, `Spec => Delivers`: whatever is cut, reset or
resized, what appears are whole files, in the order of the selection, after the user's
yes. `SenderKind` and `ReceiverKind` bring the steps of the two threads down to six and
five kinds. `ReceiverBehind` is not inductive: the last chunk of a file may be on its way
while the receiver still has none of it. `TransferInv` says what may be on its way at all
(`Greetings`, `Chunks`, `Replies`; no ACCEPT before the user's, no chunk before the ACCEPT
was read), that the copies are exactly the units stored so far (`Copies`), and, in
`Leads`, that a chain of places in the files goes through the frames in flight, from the
place of the receiver to that of the sender. From it a chunk that is stored continues the
first file that is not whole, and the last one completes it. `TypesKept` proves the types
of both threads. It is not a copy of the proofs of the two components: there the peer
sends any frame of a set, here the frames are what the other thread sent, and their types
follow from `TransferInv`. `TypesInv` adds what that leaves open, among it that all texts
of this sender go through one payload id, so that the account of the receiver is the
length of one buffer (`Counted`).

`NothingLostOnSuccess` is about `SuccessOnItsWay`: the sender says success once its last
bytes are with TCP, and a close with unread data destroys what the other end has not read.
`ArrivalInv` shows why no close of the two threads does: this receiver says nothing while
it receives (`ReceiverQuiet`), and the sender succeeds only after a look at a socket that
has nothing to read (`Succeeds`), so that it closes with nothing unread
(`NothingUnread`); and the last frame of a file, once sent, leaves the stream only by being
stored or by a failure of the receiver (`EndsArrive`, `FileSettled`). What the theorem
leaves to its premise is what the code leaves open, since nothing is acknowledged: a cut
stream, and a receiver that fails by itself.

`PresenceProofs`, for any instances, hosts, addresses and records and any number of
changes of address (assumptions: `CacheAssumption`, `PresenceAssumption`):

* `DevicesTyped` (`PresenceTypeOK`), `ListFollowsCache` (`ListCurrent`), `NeverListsItself`
  (`SelfHidden`), `LocalAddressKept` (`ReachableKept`).
* `DeviceListedOnce`: no two rows have one name and one address.
* `EveryDeviceListed`: while nothing waits to be published, every device the cache can
  resolve has a row, that of the instance seen last. `publishDiscoveredDevices` drops a
  row when a later one describes the same device; that something is left depends on
  "seen after" being an order and on the cache being finite (`MaximalMember`), which is why
  both are part of `Caches`, the set of caches that packets can lead to.
* `AnnouncesSteadily` (`HeartbeatKept`), from `silence + due <= Steady` while the worker runs.

The invariant is `PresenceInv`, in four parts: `ListInv` is about this phone (cache, list,
own address), `PeerInv` about the peer, `HistoryInv` and `Scheduled` about the history
variables and the schedule. `SelfHidden` is not inductive: a row is
made of four records that came in different packets, so `ListInv` speaks of every record
of the cache (`OwnRight`: the SRV record of this phone's own instance names its own host,
and the A record of that host has its address), also of those that no row shows yet. A
packet is a sequence of records applied one after the other (`Applied`): `AppliedWithin`
says that a set of caches which each record keeps is kept by the packet, whatever its
length, and every invariant of the cache goes through it.

`DataLemmas` holds what the proofs share. A sum is the number of pairs of a member and one
of its units (`Sums`), so that adding to a summand adds pairs and the theorems on
cardinalities apply; a RECURSIVE operator is out of the prover's reach. Induction
over numbers is by the least counterexample (`NatSetInduction`), since the library's
induction theorems have an operator as a parameter. `Course` describes a computation that
follows a sequence step by step: there is one for every length (`CourseExists`), it is
unique and can be continued (`CourseUnique`, `CourseLonger`); the recursive function in
`Applied` is one.

Every invariant and every action property of a passing run, and the refinement, is stated
by a theorem. Only model-checked are the eight liveness properties: `ConsentResolves`,
`DialogDismissed`, `SilentPeerReleased`, `SenderEnds`, `TransferCompletes`, `SearchEnds`,
`SendEnds` and `GoneDeviceLeaves`. They rest on fairness, that is on ENABLED, which is out
of the prover's reach.

## 7. Not modelled

* Cryptography: key agreement, AES, HMAC, the PIN. The protocol modules use only
  whether a frame verifies. Sequence numbers are part of that.
* The contents of protobuf frames and DNS packets: `ProtoWire` and the name decompression
  of `readName` are byte-level codecs. The modules use decoded messages and records, and
  the outcome "does not parse".
* History: `appendEvent`, `saveHistory`, `loadHistory` are sequential list code of the UI
  thread. The order reversed by a restart is noted in section 5.
* The name probe at start-up (`probeDnsIdentity`) and the unicast copies of announcements to
  recent queriers: the first picks a fresh identity, which `Launch` takes as given; the
  second only adds packets that are already sent by multicast.
* Delay and reordering of mDNS packets: a packet is heard at once or lost. All records of
  a packet share one TTL. A peer has an address when it announces.
* A phone without an address: `detectLocalIp` may find none at the start or later
  (`ShareService.cpp:772-773, 786-787`). This phone always has one and changes it for
  another.
* Quantities of time. A timeout is a step that may be taken; a blocked read is one
  step.
* Object lifetime at exit (detached threads outlive the service for an instant) and what a
  killed process leaves on the disk.
* QML layout, translations, `main.cpp`, tools.

## 8. Plan

Done: the gate, the two threads and their composition, the send and scan control, the
directory and its composition with the gate, the mDNS cache, announcements and presence,
with the proofs of section 6.

Left, in this order:

1. The safety halves of the liveness properties as theorems: which steps lower which
   measure.
2. Two peers in `Presence` (two devices of one name, a follow-up query answered by the
   wrong one), and delayed packets.
3. `ProtoWire` against a reference definition of varints and length-delimited fields.
