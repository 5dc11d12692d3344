--------------------------- MODULE SendControlProofs ---------------------------
(***************************************************************************)
(* What SendControl guarantees for every set of devices and connections    *)
(* and any backlog of the UI thread, proved.  First, what posting a call   *)
(* and delivering one change of what is said of the queue.                 *)
(***************************************************************************)
EXTENDS SendControl, SequenceTheorems, TLAPS

\* Nothing waits in an empty queue.
LEMMA Drained ==
  ASSUME NEW name, NEW list, NEW shown \in BOOLEAN
  PROVE  /\ ~Holds(<<>>, name) /\ AtMostOnce(<<>>, name)
         /\ LastListIs(<<>>, list)
         /\ Settles(<<>>, shown) => shown
  BY DEF Holds, AtMostOnce, LastListIs, Settles

\* The entries of a queue after a call is posted.
LEMMA Posted ==
  ASSUME NEW q \in Seq(Calls), NEW c \in Calls
  PROVE  /\ Append(q, c) \in Seq(Calls)
         /\ Len(q) \in Nat
         /\ Len(Append(q, c)) = Len(q) + 1
         /\ \A n \in 1..Len(q) : Append(q, c)[n] = q[n]
         /\ Append(q, c)[Len(q) + 1] = c
  OBVIOUS

\* The entries of a queue after its head is delivered.
LEMMA Delivered ==
  ASSUME NEW q \in Seq(Calls), q # <<>>
  PROVE  /\ Head(q) = q[1] /\ Head(q) \in Calls
         /\ Tail(q) \in Seq(Calls)
         /\ Len(q) \in Nat /\ Len(q) > 0
         /\ Len(Tail(q)) = Len(q) - 1
         /\ \A n \in 1..(Len(q) - 1) : Tail(q)[n] = q[n + 1]
  BY EmptySeq, HeadTailProperties

\* A posted call waits in the queue, with all that waited there.
LEMMA HoldsPosted ==
  ASSUME NEW q \in Seq(Calls), NEW c \in Calls, NEW name
  PROVE  Holds(Append(q, c), name) <=> Holds(q, name) \/ c.call = name
<1>1. ASSUME Holds(q, name) PROVE Holds(Append(q, c), name)
  BY <1>1, Posted DEF Holds
<1>2. ASSUME c.call = name PROVE Holds(Append(q, c), name)
  BY <1>2, Posted DEF Holds
<1>3. ASSUME Holds(Append(q, c), name), c.call # name PROVE Holds(q, name)
  BY <1>3, Posted DEF Holds
<1> QED
  BY <1>1, <1>2, <1>3

\* A delivered call waits no more, the others do.
LEMMA HoldsDelivered ==
  ASSUME NEW q \in Seq(Calls), q # <<>>, NEW name
  PROVE  /\ Head(q).call = name => Holds(q, name)
         /\ Holds(Tail(q), name) => Holds(q, name)
         /\ Head(q).call # name => (Holds(q, name) <=> Holds(Tail(q), name))
         /\ Head(q).call = name /\ AtMostOnce(q, name) => ~Holds(Tail(q), name)
<1>1. Head(q).call = name => Holds(q, name)
  BY Delivered DEF Holds
<1>2. ASSUME NEW n \in 1..Len(Tail(q)), Tail(q)[n].call = name
      PROVE  n + 1 \in 1..Len(q) /\ q[n + 1].call = name /\ n + 1 # 1
  BY <1>2, Delivered
<1>3. Holds(Tail(q), name) => Holds(q, name)
  BY <1>2 DEF Holds
<1>4. ASSUME Head(q).call # name, Holds(q, name) PROVE Holds(Tail(q), name)
  <2>1. PICK n \in 1..Len(q) : q[n].call = name
    BY <1>4 DEF Holds
  <2>2. n # 1
    BY <1>4, <2>1, Delivered
  <2>3. n - 1 \in 1..Len(Tail(q)) /\ Tail(q)[n - 1] = q[n]
    BY <2>2, Delivered
  <2> QED
    BY <2>1, <2>3 DEF Holds
<1>5. ASSUME Head(q).call = name, AtMostOnce(q, name), Holds(Tail(q), name) PROVE FALSE
  BY <1>5, <1>2, Delivered DEF Holds, AtMostOnce
<1> QED
  BY <1>1, <1>3, <1>4, <1>5

\* A call that waits for nobody else of its name is the only one once posted.
LEMMA OncePosted ==
  ASSUME NEW q \in Seq(Calls), NEW c \in Calls, NEW name,
         AtMostOnce(q, name), c.call = name => ~Holds(q, name)
  PROVE  AtMostOnce(Append(q, c), name)
  BY Posted DEF AtMostOnce, Holds

\* Delivering a call duplicates none.
LEMMA OnceDelivered ==
  ASSUME NEW q \in Seq(Calls), q # <<>>, NEW name, AtMostOnce(q, name)
  PROVE  AtMostOnce(Tail(q), name)
<1> SUFFICES ASSUME NEW m \in 1..Len(Tail(q)), NEW n \in 1..Len(Tail(q)),
                    Tail(q)[m].call = name, Tail(q)[n].call = name
             PROVE  m = n
  BY DEF AtMostOnce
<1>1. /\ m + 1 \in 1..Len(q) /\ q[m + 1].call = name
      /\ n + 1 \in 1..Len(q) /\ q[n + 1].call = name
  BY Delivered
<1> QED
  BY <1>1 DEF AtMostOnce

\* Where a progress bar settles: a posted clear takes it down, a call that says
\* nothing of it changes nothing.
LEMMA SettlesPosted ==
  ASSUME NEW q \in Seq(Calls), NEW c \in Calls, NEW shown \in BOOLEAN,
         Settles(Append(q, c), shown)
  PROVE  /\ c.call \notin Clears
         /\ c.call # "setProgress" => Settles(q, shown)
<1>1. CASE shown /\ \A n \in 1..Len(Append(q, c)) : Append(q, c)[n].call \notin Clears
  <2>1. c.call \notin Clears /\ \A n \in 1..Len(q) : q[n].call \notin Clears
    BY <1>1, Posted
  <2> QED
    BY <1>1, <2>1 DEF Settles
<1>2. ASSUME NEW m \in 1..Len(Append(q, c)), Append(q, c)[m].call = "setProgress",
             \A n \in (m + 1)..Len(Append(q, c)) : Append(q, c)[n].call \notin Clears
      PROVE  /\ c.call \notin Clears
             /\ c.call # "setProgress" => Settles(q, shown)
  <2>1. CASE m = Len(q) + 1
    BY <1>2, <2>1, Posted DEF Clears
  <2>2. CASE m # Len(q) + 1
    <3>1. m \in 1..Len(q) /\ q[m].call = "setProgress"
      BY <1>2, <2>2, Posted
    <3>2. c.call \notin Clears /\ \A n \in (m + 1)..Len(q) : q[n].call \notin Clears
      BY <1>2, <3>1, Posted
    <3> QED
      BY <3>1, <3>2 DEF Settles
  <2> QED
    BY <2>1, <2>2
<1> QED
  BY <1>1, <1>2 DEF Settles

\* Delivery does not change where the progress bar settles: what is shown then is
\* what the head of the queue asked for.
LEMMA SettlesDelivered ==
  ASSUME NEW q \in Seq(Calls), q # <<>>, NEW shown \in BOOLEAN, NEW then \in BOOLEAN,
         then => \/ Head(q).call = "setProgress"
                 \/ shown /\ Head(q).call \notin Clears,
         Settles(Tail(q), then)
  PROVE  Settles(q, shown)
<1>1. CASE then /\ \A n \in 1..Len(Tail(q)) : Tail(q)[n].call \notin Clears
  <2>1. \A n \in 2..Len(q) : q[n].call \notin Clears
    <3> SUFFICES ASSUME NEW n \in 2..Len(q) PROVE q[n].call \notin Clears
      OBVIOUS
    <3>1. n - 1 \in 1..Len(Tail(q)) /\ Tail(q)[n - 1] = q[n]
      BY Delivered
    <3> QED
      BY <1>1, <3>1
  <2>2. CASE Head(q).call = "setProgress"
    BY <2>1, <2>2, Delivered DEF Settles
  <2>3. CASE shown /\ Head(q).call \notin Clears
    BY <2>1, <2>3, Delivered DEF Settles
  <2> QED
    BY <1>1, <2>2, <2>3
<1>2. ASSUME NEW m \in 1..Len(Tail(q)), Tail(q)[m].call = "setProgress",
             \A n \in (m + 1)..Len(Tail(q)) : Tail(q)[n].call \notin Clears
      PROVE  Settles(q, shown)
  <2>1. m + 1 \in 1..Len(q) /\ q[m + 1].call = "setProgress"
    BY <1>2, Delivered
  <2>2. ASSUME NEW n \in (m + 2)..Len(q) PROVE q[n].call \notin Clears
    <3>1. n - 1 \in (m + 1)..Len(Tail(q)) /\ Tail(q)[n - 1] = q[n]
      BY Delivered
    <3> QED
      BY <1>2, <3>1
  <2>3. \A n \in ((m + 1) + 1)..Len(q) : q[n].call \notin Clears
    BY <2>2
  <2> QED
    BY <2>1, <2>3 DEF Settles
<1> QED
  BY <1>1, <1>2 DEF Settles

\* A posted list becomes the last one, any other call leaves it.
LEMMA LastListPosted ==
  ASSUME NEW q \in Seq(Calls), NEW c \in Calls, NEW list,
         IF c.call = "syncDevices" THEN c.list = list ELSE LastListIs(q, list)
  PROVE  LastListIs(Append(q, c), list)
<1> SUFFICES ASSUME NEW m \in 1..Len(Append(q, c)), Append(q, c)[m].call = "syncDevices",
                    \A n \in (m + 1)..Len(Append(q, c)) :
                      Append(q, c)[n].call # "syncDevices"
             PROVE  Append(q, c)[m].list = list
  BY DEF LastListIs
<1>1. CASE m = Len(q) + 1
  BY <1>1, Posted
<1>2. CASE m # Len(q) + 1
  <2>1. m \in 1..Len(q) /\ Append(q, c)[m] = q[m] /\ q[m].call = "syncDevices"
    BY <1>2, Posted
  <2>2. c.call # "syncDevices" /\ \A n \in (m + 1)..Len(q) : q[n].call # "syncDevices"
    BY <2>1, Posted
  <2> QED
    BY <2>1, <2>2 DEF LastListIs
<1> QED
  BY <1>1, <1>2

\* Delivery leaves the last list the last one; if it was the head, it is now shown.
LEMMA LastListDelivered ==
  ASSUME NEW q \in Seq(Calls), q # <<>>, NEW list, LastListIs(q, list)
  PROVE  /\ LastListIs(Tail(q), list)
         /\ Head(q).call = "syncDevices" /\ ~Holds(Tail(q), "syncDevices")
              => Head(q).list = list
<1>1. LastListIs(Tail(q), list)
  <2> SUFFICES ASSUME NEW m \in 1..Len(Tail(q)), Tail(q)[m].call = "syncDevices",
                      \A n \in (m + 1)..Len(Tail(q)) : Tail(q)[n].call # "syncDevices"
               PROVE  Tail(q)[m].list = list
    BY DEF LastListIs
  <2>1. m + 1 \in 1..Len(q) /\ q[m + 1] = Tail(q)[m]
    BY Delivered
  <2>2. ASSUME NEW n \in ((m + 1) + 1)..Len(q) PROVE q[n].call # "syncDevices"
    <3>1. n - 1 \in (m + 1)..Len(Tail(q)) /\ Tail(q)[n - 1] = q[n]
      BY Delivered
    <3> QED
      BY <3>1
  <2> QED
    BY <2>1, <2>2 DEF LastListIs
<1>2. ASSUME Head(q).call = "syncDevices", ~Holds(Tail(q), "syncDevices")
      PROVE  Head(q).list = list
  <2>1. ASSUME NEW n \in (1 + 1)..Len(q) PROVE q[n].call # "syncDevices"
    <3>1. n - 1 \in 1..Len(Tail(q)) /\ Tail(q)[n - 1] = q[n]
      BY Delivered
    <3> QED
      BY <1>2, <3>1 DEF Holds
  <2>2. 1 \in 1..Len(q) /\ q[1] = Head(q)
    BY Delivered
  <2> QED
    BY <1>2, <2>1, <2>2 DEF LastListIs
<1> QED
  BY <1>1, <1>2

-----------------------------------------------------------------------------
\* Every flag is a Boolean, whatever the steps.
LEMMA FlagSteps == FlagsOK /\ [Next]_vars => FlagsOK'
<1> SUFFICES ASSUME FlagsOK, [Next]_vars PROVE FlagsOK'
  OBVIOUS
<1> USE DEF FlagsOK, uiVars, sharedVars, threadVars
<1>1. CASE UserStep
  BY <1>1, Zenon DEF UserStep, TapSearch, TapChange, TapSend, PickFiles, ClearFiles,
                     TapDevice, Search
<1>2. CASE SendTimer
  BY <1>2, Zenon DEF SendTimer, SendDropped, SendUnreachable, SendStarts, SendNotStarted,
                     TimerFires, Search
<1>3. CASE Deliver
  BY <1>3, Zenon DEF Deliver, DeliverScanning, DeliverDevices, DeliverProgress,
                     DeliverFinished
<1>4. CASE WorkerStep
  BY <1>4, Zenon DEF WorkerStep, WorkerStarts, WorkerGone, TakeScan, TakeResolve,
                     CacheChanges, ScanOver
<1>5. CASE SenderStep
  BY <1>5, Zenon DEF SenderStep, SenderProgress, SenderClears, SenderReturns
<1>6. ASSUME NEW r \in Receiver, ReceiverStep(r) PROVE FlagsOK'
  BY <1>6, Zenon DEF ReceiverStep, ReceiverProgress, ReceiverClears, ReceiverDestroyed,
                     ReceiverLeaves
<1>7. CASE UNCHANGED vars
  BY <1>7, Zenon DEF vars
<1> QED
  BY <1>1, <1>2, <1>3, <1>4, <1>5, <1>6, <1>7 DEF Next

\* Type correctness, for any devices and connections: in particular no timer fires
\* that was not started and only known calls are posted.
THEOREM ControlTypes == Spec => []TypeOK
<1>1. Init => FlagsOK /\ DataOK
  <2>1. Init => FlagsOK
    BY Zenon DEF Init, FlagsOK
  <2>2. Init => DataOK
    BY DEF Init, DataOK
  <2> QED
    BY <2>1, <2>2
<1>2. FlagsOK /\ DataOK /\ [Next]_vars => DataOK'
  <2> SUFFICES ASSUME DataOK, [Next]_vars PROVE DataOK'
    OBVIOUS
  <2> USE DEF DataOK, uiVars, sharedVars, threadVars
  <2>1. CASE UserStep
    BY <2>1 DEF UserStep, TapSearch, TapChange, TapSend, MaySend, PickFiles, ClearFiles,
                TapDevice
  <2>2. CASE SendTimer
    BY <2>2 DEF SendTimer, SendDropped, SendUnreachable, SendStarts, SendNotStarted,
                TimerFires
  <2>3. CASE Deliver
    <3>1. Tail(queue) \in Seq(Calls) /\ Head(queue) \in Calls
      BY <2>3, Delivered DEF Deliver
    <3>2. Head(queue).call = "syncDevices" => Head(queue).list \in SUBSET Device
      BY <3>1 DEF Calls
    <3> QED
      BY <2>3, <3>1, <3>2 DEF Deliver, DeliverScanning, DeliverDevices, DeliverProgress,
                              DeliverFinished, Sync
  <2>4. ASSUME NEW c \in Calls, Post(c) PROVE queue' \in Seq(Calls)
    BY <2>4, Posted DEF Post
  <2>5. /\ \A name \in {"setScanning", "setProgress", "clearProgress", "sendFinished"} :
             Call(name) \in Calls
        /\ \A list \in SUBSET Device : SyncDevices(list) \in Calls
    BY DEF Calls, Call, SyncDevices
  <2>6. CASE WorkerStep
    <3>1. CASE WorkerStarts \/ WorkerGone \/ TakeResolve
      BY <3>1 DEF WorkerStarts, WorkerGone, TakeResolve
    <3>2. CASE TakeScan \/ CacheChanges
      BY <2>4, <2>5, <3>2 DEF TakeScan, CacheChanges, Publish
    <3>3. CASE ScanOver
      BY <2>4, <2>5, <3>3 DEF ScanOver
    <3> QED
      BY <2>6, <3>1, <3>2, <3>3 DEF WorkerStep
  <2>7. CASE SenderStep
    BY <2>4, <2>5, <2>7 DEF SenderStep, SenderProgress, SenderClears, SenderReturns
  <2>8. ASSUME NEW r \in Receiver, ReceiverStep(r) PROVE DataOK'
    BY <2>4, <2>5, <2>8 DEF ReceiverStep, ReceiverProgress, ReceiverClears,
                            ReceiverDestroyed, ReceiverLeaves
  <2>9. CASE UNCHANGED vars
    BY <2>9 DEF vars
  <2> QED
    BY <2>1, <2>2, <2>3, <2>6, <2>7, <2>8, <2>9 DEF Next
<1> QED
  BY <1>1, <1>2, FlagSteps, PTL DEF Spec, TypeOK

-----------------------------------------------------------------------------
\* The calls that are posted.
Names == {"setScanning", "setProgress", "clearProgress", "sendFinished"}

LEMMA CallTypes ==
  /\ \A name \in Names : Call(name) \in Calls /\ Call(name).call = name
  /\ \A list \in SUBSET Device :
       /\ SyncDevices(list) \in Calls
       /\ SyncDevices(list).call = "syncDevices"
       /\ SyncDevices(list).list = list
  BY DEF Calls, Call, SyncDevices, Names

\* What waits for the UI thread once a call is posted.
LEMMA WaitsPosted ==
  ASSUME queue \in Seq(Calls), NEW kind \in Names, Post(Call(kind)), NEW name
  PROVE  /\ Holds(queue', name) <=> Holds(queue, name) \/ kind = name
         /\ AtMostOnce(queue, name) /\ (kind = name => ~Holds(queue, name))
              => AtMostOnce(queue', name)
  BY CallTypes, HoldsPosted, OncePosted DEF Post

\* A list that is published says nothing of searches and sends.
LEMMA WaitsPublished ==
  ASSUME queue \in Seq(Calls), NEW list \in SUBSET Device, Publish(list), NEW name,
         name # "syncDevices"
  PROVE  /\ Holds(queue', name) <=> Holds(queue, name)
         /\ AtMostOnce(queue, name) => AtMostOnce(queue', name)
<1>1. CASE list = published
  BY <1>1 DEF Publish
<1>2. CASE list # published
  <2>1. queue' = Append(queue, SyncDevices(list))
    BY <1>2 DEF Publish, Post
  <2>2. SyncDevices(list) \in Calls /\ SyncDevices(list).call # name
    BY CallTypes
  <2> QED
    BY <2>1, <2>2, HoldsPosted, OncePosted
<1> QED
  BY <1>1, <1>2

\* What waits once the UI thread has taken a call.
LEMMA WaitsDelivered ==
  ASSUME queue \in Seq(Calls), Deliver, NEW name, AtMostOnce(queue, name)
  PROVE  /\ AtMostOnce(queue', name)
         /\ Head(queue).call = name => Holds(queue, name) /\ ~Holds(queue', name)
         /\ Head(queue).call # name => (Holds(queue', name) <=> Holds(queue, name))
  BY HoldsDelivered, OnceDelivered DEF Deliver

\* One search at a time, for any number of devices and connections and any backlog.
\* The invariant is inductive: the request, the worker and the posted call exclude
\* one another, so a step that takes one token away puts the next in its place.
THEOREM SearchHasOwner == Spec => []SearchOwned
<1>1. Init => SearchOwned
  <2> SUFFICES ASSUME Init PROVE SearchOwned
    OBVIOUS
  <2>1. ~Holds(queue, "setScanning") /\ AtMostOnce(queue, "setScanning")
    BY Drained DEF Init
  <2> QED
    BY <2>1, Zenon DEF Init, SearchOwned
<1>2. TypeOK /\ SearchOwned /\ [Next]_vars => SearchOwned'
  <2> SUFFICES ASSUME TypeOK, SearchOwned, [Next]_vars PROVE SearchOwned'
    OBVIOUS
  <2> USE DEF TypeOK, FlagsOK, DataOK, SearchOwned, uiVars, sharedVars, threadVars
  <2>1. CASE UserStep
    BY <2>1 DEF UserStep, TapSearch, TapChange, TapSend, PickFiles, ClearFiles,
                TapDevice, Search
  <2>2. CASE SendTimer
    BY <2>2 DEF SendTimer, SendDropped, SendUnreachable, SendStarts, SendNotStarted,
                TimerFires, Search
  <2>3. CASE Deliver
    <3>1. /\ AtMostOnce(queue', "setScanning")
          /\ Head(queue).call = "setScanning" =>
               Holds(queue, "setScanning") /\ ~Holds(queue', "setScanning")
          /\ Head(queue).call # "setScanning" =>
               (Holds(queue', "setScanning") <=> Holds(queue, "setScanning"))
      BY <2>3, WaitsDelivered
    <3>2. CASE DeliverScanning
      BY <2>3, <3>1, <3>2, Zenon DEF Deliver, DeliverScanning
    <3>3. CASE Head(queue).call # "setScanning" /\ UNCHANGED scanning
      BY <2>3, <3>1, <3>3, Zenon DEF Deliver
    <3>4. DeliverScanning \/ (Head(queue).call # "setScanning" /\ UNCHANGED scanning)
      BY <2>3 DEF Deliver, DeliverDevices, DeliverProgress, DeliverFinished
    <3> QED
      BY <3>2, <3>3, <3>4
  <2>4. CASE WorkerStep
    <3>1. CASE WorkerStarts \/ WorkerGone \/ TakeResolve
      BY <3>1 DEF WorkerStarts, WorkerGone, TakeResolve
    <3>2. CASE TakeScan
      BY <3>2, WaitsPublished DEF TakeScan
    <3>3. CASE CacheChanges
      BY <3>3, WaitsPublished DEF CacheChanges
    <3>4. CASE ScanOver
      BY <3>4, WaitsPosted DEF ScanOver, Names
    <3> QED
      BY <2>4, <3>1, <3>2, <3>3, <3>4 DEF WorkerStep
  <2>5. CASE SenderStep
    BY <2>5, WaitsPosted DEF SenderStep, SenderProgress, SenderClears, SenderReturns, Names
  <2>6. ASSUME NEW r \in Receiver, ReceiverStep(r) PROVE SearchOwned'
    BY <2>6, WaitsPosted DEF ReceiverStep, ReceiverProgress, ReceiverClears,
                             ReceiverDestroyed, ReceiverLeaves, Names
  <2>7. CASE UNCHANGED vars
    BY <2>7 DEF vars
  <2> QED
    BY <2>1, <2>2, <2>3, <2>4, <2>5, <2>6, <2>7 DEF Next
<1> QED
  BY <1>1, <1>2, ControlTypes, PTL DEF Spec

-----------------------------------------------------------------------------
\* One send at a time, for any number of devices and connections: the flags that
\* sendOutgoing tests are those of a send in preparation and of a send under way.
THEOREM SendHasOwner == Spec => []SendOwned
<1>1. Init => SendOwned
  <2> SUFFICES ASSUME Init PROVE SendOwned
    OBVIOUS
  <2>1. ~Holds(queue, "sendFinished") /\ AtMostOnce(queue, "sendFinished")
    BY Drained DEF Init
  <2> QED
    BY <2>1 DEF Init, SendOwned
<1>2. TypeOK /\ SendOwned /\ [Next]_vars => SendOwned'
  <2> SUFFICES ASSUME TypeOK, SendOwned, [Next]_vars PROVE SendOwned'
    OBVIOUS
  <2> USE DEF TypeOK, FlagsOK, DataOK, SendOwned, uiVars, sharedVars, threadVars
  <2>1. CASE UserStep
    BY <2>1 DEF UserStep, TapSearch, TapChange, TapSend, MaySend, PickFiles, ClearFiles,
                TapDevice
  <2>2. CASE SendTimer
    <3>1. refreshPending /\ timers' = 0 /\ refreshPending' = FALSE /\ UNCHANGED queue
      BY <2>2 DEF SendTimer, SendDropped, SendUnreachable, SendStarts, SendNotStarted,
                  TimerFires
    <3>2. CASE SendStarts
      BY <3>1, <3>2 DEF SendStarts, MayStart
    <3>3. CASE UNCHANGED <<sendActive, sender, target>>
      BY <3>1, <3>3
    <3> QED
      BY <2>2, <3>2, <3>3 DEF SendTimer, SendDropped, SendUnreachable, SendNotStarted
  <2>3. CASE Deliver
    <3>1. /\ AtMostOnce(queue', "sendFinished")
          /\ Head(queue).call = "sendFinished" =>
               Holds(queue, "sendFinished") /\ ~Holds(queue', "sendFinished")
          /\ Head(queue).call # "sendFinished" =>
               (Holds(queue', "sendFinished") <=> Holds(queue, "sendFinished"))
      BY <2>3, WaitsDelivered
    <3>2. UNCHANGED <<timers, refreshPending, sender, target>>
      BY <2>3 DEF Deliver, DeliverScanning, DeliverDevices, DeliverProgress, DeliverFinished
    <3>3. CASE DeliverFinished
      BY <3>1, <3>2, <3>3 DEF DeliverFinished
    <3>4. CASE Head(queue).call # "sendFinished" /\ UNCHANGED sendActive
      BY <3>1, <3>2, <3>4
    <3>5. DeliverFinished \/ (Head(queue).call # "sendFinished" /\ UNCHANGED sendActive)
      BY <2>3 DEF Deliver, DeliverScanning, DeliverDevices, DeliverProgress
    <3> QED
      BY <3>3, <3>4, <3>5
  <2>4. CASE WorkerStep
    <3>1. CASE WorkerStarts \/ WorkerGone \/ TakeResolve
      BY <3>1 DEF WorkerStarts, WorkerGone, TakeResolve
    <3>2. CASE TakeScan
      BY <3>2, WaitsPublished DEF TakeScan
    <3>3. CASE CacheChanges
      BY <3>3, WaitsPublished DEF CacheChanges
    <3>4. CASE ScanOver
      BY <3>4, WaitsPosted DEF ScanOver, Names
    <3> QED
      BY <2>4, <3>1, <3>2, <3>3, <3>4 DEF WorkerStep
  <2>5. CASE SenderStep
    <3>1. CASE SenderProgress \/ SenderClears
      BY <3>1, WaitsPosted DEF SenderProgress, SenderClears, Names
    <3>2. CASE SenderReturns
      BY <3>2, WaitsPosted DEF SenderReturns, Names
    <3> QED
      BY <2>5, <3>1, <3>2 DEF SenderStep
  <2>6. ASSUME NEW r \in Receiver, ReceiverStep(r) PROVE SendOwned'
    BY <2>6, WaitsPosted DEF ReceiverStep, ReceiverProgress, ReceiverClears,
                             ReceiverDestroyed, ReceiverLeaves, Names
  <2>7. CASE UNCHANGED vars
    BY <2>7 DEF vars
  <2> QED
    BY <2>1, <2>2, <2>3, <2>4, <2>5, <2>6, <2>7 DEF Next
<1> QED
  BY <1>1, <1>2, ControlTypes, PTL DEF Spec

-----------------------------------------------------------------------------
\* Where the progress bar will settle, once a call is posted.
LEMMA BarPosted ==
  ASSUME queue \in Seq(Calls), NEW kind \in Names, Post(Call(kind)),
         transferActive \in BOOLEAN, Settles(queue', transferActive)
  PROVE  kind \notin Clears /\ (kind # "setProgress" => Settles(queue, transferActive))
  BY CallTypes, SettlesPosted DEF Post

\* A list that is published says nothing of the progress bar.
LEMMA BarPublished ==
  ASSUME queue \in Seq(Calls), NEW list \in SUBSET Device, Publish(list),
         transferActive \in BOOLEAN, Settles(queue', transferActive)
  PROVE  Settles(queue, transferActive)
<1>1. CASE list = published
  BY <1>1 DEF Publish
<1>2. CASE list # published
  <2>1. queue' = Append(queue, SyncDevices(list))
    BY <1>2 DEF Publish, Post
  <2>2. SyncDevices(list) \in Calls /\ SyncDevices(list).call = "syncDevices"
    BY CallTypes
  <2> QED
    BY <2>1, <2>2, SettlesPosted
<1> QED
  BY <1>1, <1>2

\* Where the progress bar will settle, once a call is delivered.
LEMMA BarDelivered ==
  ASSUME TypeOK, Deliver, Settles(queue', transferActive')
  PROVE  Settles(queue, transferActive)
<1>1. queue # <<>> /\ queue' = Tail(queue) /\ queue \in Seq(Calls)
  BY DEF Deliver, TypeOK, DataOK
<1>2. transferActive \in BOOLEAN /\ transferActive' \in BOOLEAN
  <2>1. FlagsOK /\ [Next]_vars
    BY DEF Next, TypeOK
  <2> QED
    BY <2>1, FlagSteps DEF FlagsOK
<1>3. transferActive' => \/ Head(queue).call = "setProgress"
                         \/ transferActive /\ Head(queue).call \notin Clears
  BY DEF Deliver, DeliverScanning, DeliverDevices, DeliverProgress, DeliverFinished, Clears
<1> QED
  BY <1>1, <1>2, <1>3, SettlesDelivered

\* A progress bar that will stay belongs to a thread that still owes a clear, for
\* any number of connections and any backlog.  The argument is about the value the
\* bar settles on: delivery does not change it, and a thread leaves the set of those
\* that owe a clear only by posting one.
THEOREM ProgressHasOwner == Spec => []ProgressOwned
<1>1. Init => ProgressOwned
  BY Drained DEF Init, ProgressOwned
<1>2. TypeOK /\ ProgressOwned /\ [Next]_vars => ProgressOwned'
  <2> SUFFICES ASSUME TypeOK, ProgressOwned, [Next]_vars,
                      Settles(queue', transferActive')
               PROVE  sender' # "none" \/ \E r \in Receiver : receiver'[r] = "live"
    BY DEF ProgressOwned
  <2>0. queue \in Seq(Calls) /\ transferActive \in BOOLEAN
    BY DEF TypeOK, FlagsOK, DataOK
  <2> USE DEF ProgressOwned, uiVars, sharedVars, threadVars
  <2>1. ASSUME Settles(queue, transferActive), UNCHANGED <<sender, receiver>>
        PROVE  sender' # "none" \/ \E r \in Receiver : receiver'[r] = "live"
    BY <2>1
  <2>2. CASE UserStep
    BY <2>1, <2>2 DEF UserStep, TapSearch, TapChange, TapSend, PickFiles, ClearFiles,
                      TapDevice
  <2>3. CASE SendTimer
    <3>1. CASE SendStarts
      BY <3>1 DEF SendStarts
    <3>2. CASE SendNotStarted
      <4>1. ~transferActive' /\ UNCHANGED <<queue, receiver, sender>>
        BY <3>2 DEF SendNotStarted, TimerFires
      <4>2. Settles(queue, transferActive)
        BY <4>1 DEF Settles
      <4> QED
        BY <2>1, <4>1, <4>2
    <3>3. CASE SendDropped \/ SendUnreachable
      BY <2>1, <3>3 DEF SendDropped, SendUnreachable, TimerFires
    <3> QED
      BY <2>3, <3>1, <3>2, <3>3 DEF SendTimer
  <2>4. CASE Deliver
    BY <2>1, <2>4, BarDelivered DEF Deliver
  <2>5. CASE WorkerStep
    <3>1. UNCHANGED <<transferActive, sender, receiver>>
      BY <2>5 DEF WorkerStep, WorkerStarts, WorkerGone, TakeScan, TakeResolve,
                  CacheChanges, ScanOver
    <3>2. CASE WorkerStarts \/ WorkerGone \/ TakeResolve
      BY <2>1, <3>1, <3>2 DEF WorkerStarts, WorkerGone, TakeResolve
    <3>3. CASE TakeScan \/ CacheChanges
      BY <2>0, <2>1, <3>1, <3>3, BarPublished DEF TakeScan, CacheChanges
    <3>4. CASE ScanOver
      BY <2>0, <2>1, <3>1, <3>4, BarPosted DEF ScanOver, Names
    <3> QED
      BY <2>5, <3>2, <3>3, <3>4 DEF WorkerStep
  <2>6. CASE SenderStep
    <3>1. UNCHANGED transferActive
      BY <2>6 DEF SenderStep, SenderProgress, SenderClears, SenderReturns
    <3>2. CASE SenderProgress
      BY <3>2 DEF SenderProgress
    <3>3. CASE SenderClears \/ SenderReturns
      BY <2>0, <3>1, <3>3, BarPosted DEF SenderClears, SenderReturns, Names, Clears
    <3> QED
      BY <2>6, <3>2, <3>3 DEF SenderStep
  <2>7. ASSUME NEW r \in Receiver, ReceiverStep(r)
        PROVE  sender' # "none" \/ \E s \in Receiver : receiver'[s] = "live"
    <3>1. UNCHANGED <<transferActive, sender>> /\ DOMAIN receiver = Receiver
      BY <2>7 DEF ReceiverStep, ReceiverProgress, ReceiverClears, ReceiverDestroyed,
                  ReceiverLeaves, TypeOK, DataOK
    <3>2. CASE ReceiverProgress(r)
      BY <3>1, <3>2 DEF ReceiverProgress
    <3>3. CASE ReceiverClears(r) \/ ReceiverDestroyed(r)
      <4>1. Post(Call("clearProgress"))
        BY <3>3 DEF ReceiverClears, ReceiverDestroyed
      <4>2. Settles(queue', transferActive)
        BY <3>1
      <4> QED
        BY <2>0, <4>1, <4>2, BarPosted DEF Names, Clears
    <3>4. CASE ReceiverLeaves(r)
      BY <3>1, <3>4 DEF ReceiverLeaves
    <3> QED
      BY <2>7, <3>2, <3>3, <3>4 DEF ReceiverStep
  <2>8. CASE UNCHANGED vars
    BY <2>1, <2>8 DEF vars
  <2> QED
    BY <2>2, <2>3, <2>4, <2>5, <2>6, <2>7, <2>8 DEF Next
<1> QED
  BY <1>1, <1>2, ControlTypes, PTL DEF Spec

-----------------------------------------------------------------------------
\* What the screen will show, as far as the queue says.
ListSettles == /\ LastListIs(queue, published)
               /\ ~Holds(queue, "syncDevices") => devices = published

\* A call about something else leaves the lists in the queue alone.
LEMMA ListPosted ==
  ASSUME queue \in Seq(Calls), NEW kind \in Names, Post(Call(kind)), ListSettles,
         UNCHANGED <<published, devices>>
  PROVE  ListSettles'
<1>1. Call(kind) \in Calls /\ Call(kind).call # "syncDevices"
  BY CallTypes DEF Names
<1>2. LastListIs(queue', published)
  BY <1>1, LastListPosted DEF Post, ListSettles
<1>3. ~Holds(queue', "syncDevices") => devices = published
  BY <1>1, HoldsPosted DEF Post, ListSettles
<1> QED
  BY <1>2, <1>3 DEF ListSettles

\* Publishing posts the list, or finds that it was the last one posted.
LEMMA ListPublished ==
  ASSUME queue \in Seq(Calls), NEW list \in SUBSET Device, Publish(list), ListSettles,
         UNCHANGED devices
  PROVE  ListSettles'
<1>1. CASE list = published
  BY <1>1 DEF Publish, ListSettles
<1>2. CASE list # published
  <2>1. queue' = Append(queue, SyncDevices(list)) /\ published' = list
    BY <1>2 DEF Publish, Post
  <2>2. /\ SyncDevices(list) \in Calls
        /\ SyncDevices(list).call = "syncDevices" /\ SyncDevices(list).list = list
    BY CallTypes
  <2>3. LastListIs(queue', published')
    BY <2>1, <2>2, LastListPosted
  <2>4. Holds(queue', "syncDevices")
    BY <2>1, <2>2, HoldsPosted
  <2> QED
    BY <2>3, <2>4 DEF ListSettles
<1> QED
  BY <1>1, <1>2

\* A delivered list is shown; if it was the last, it is the published one.
LEMMA ListDelivered ==
  ASSUME queue \in Seq(Calls), Deliver, ListSettles
  PROVE  ListSettles'
<1>1. queue # <<>> /\ queue' = Tail(queue) /\ published' = published
  BY DEF Deliver, threadVars
<1>2. /\ LastListIs(queue', published')
      /\ Head(queue).call = "syncDevices" /\ ~Holds(queue', "syncDevices")
           => Head(queue).list = published'
  BY <1>1, LastListDelivered DEF ListSettles
<1>3. CASE DeliverDevices
  BY <1>2, <1>3 DEF DeliverDevices, Sync, ListSettles
<1>4. CASE Head(queue).call # "syncDevices" /\ UNCHANGED devices
  <2>1. Holds(queue', "syncDevices") <=> Holds(queue, "syncDevices")
    BY <1>1, <1>4, HoldsDelivered
  <2> QED
    BY <1>1, <1>2, <1>4, <2>1 DEF ListSettles
<1>5. DeliverDevices \/ (Head(queue).call # "syncDevices" /\ UNCHANGED devices)
  BY DEF Deliver, DeliverScanning, DeliverProgress, DeliverFinished
<1> QED
  BY <1>3, <1>4, <1>5

\* The list on the screen settles on the last one published, and the selection is in
\* the list, for any set of devices, although only differences are posted.
THEOREM ListSettlesInSync == Spec => []ListInSync
<1>1. Init => ListInSync
  <2> SUFFICES ASSUME Init PROVE ListInSync
    OBVIOUS
  <2>1. LastListIs(queue, published)
    BY Drained DEF Init
  <2> QED
    BY <2>1 DEF Init, ListInSync
<1>2. TypeOK /\ ListInSync /\ [Next]_vars => ListInSync'
  <2> SUFFICES ASSUME TypeOK, ListInSync, [Next]_vars
               PROVE  ListSettles' /\ selected' \in devices' \cup {NoDevice}
    BY DEF ListInSync, ListSettles
  <2>0. /\ queue \in Seq(Calls) /\ ListSettles /\ selected \in devices \cup {NoDevice}
    BY DEF TypeOK, DataOK, ListInSync, ListSettles
  <2> USE DEF uiVars, sharedVars, threadVars
  <2>1. ASSUME UNCHANGED <<queue, published, devices>> PROVE ListSettles'
    BY <2>0, <2>1 DEF ListSettles
  <2>2. CASE UserStep
    <3>1. UNCHANGED <<queue, published, devices>>
      BY <2>2 DEF UserStep, TapSearch, TapChange, TapSend, PickFiles, ClearFiles, TapDevice
    <3>2. selected' \in devices \cup {NoDevice}
      BY <2>0, <2>2 DEF UserStep, TapSearch, TapChange, TapSend, PickFiles, ClearFiles,
                        TapDevice
    <3> QED
      BY <2>1, <3>1, <3>2
  <2>3. CASE SendTimer
    <3>1. UNCHANGED <<queue, published, devices>>
      BY <2>3 DEF SendTimer, SendDropped, SendUnreachable, SendStarts, SendNotStarted,
                  TimerFires
    <3>2. selected' \in {selected, NoDevice}
      BY <2>3 DEF SendTimer, SendDropped, SendUnreachable, SendStarts, SendNotStarted
    <3> QED
      BY <2>0, <2>1, <3>1, <3>2
  <2>4. CASE Deliver
    <3>1. selected' \in devices' \cup {NoDevice}
      BY <2>0, <2>4 DEF Deliver, DeliverScanning, DeliverDevices, DeliverProgress,
                        DeliverFinished, Sync
    <3> QED
      BY <2>0, <2>4, <3>1, ListDelivered
  <2>5. CASE WorkerStep
    <3>1. UNCHANGED <<devices, selected>>
      BY <2>5 DEF WorkerStep, WorkerStarts, WorkerGone, TakeScan, TakeResolve,
                  CacheChanges, ScanOver
    <3>2. CASE WorkerStarts \/ WorkerGone \/ TakeResolve
      BY <2>0, <2>1, <3>1, <3>2 DEF WorkerStarts, WorkerGone, TakeResolve
    <3>3. CASE TakeScan \/ CacheChanges
      BY <2>0, <3>1, <3>3, ListPublished DEF TakeScan, CacheChanges
    <3>4. CASE ScanOver
      BY <2>0, <3>1, <3>4, ListPosted DEF ScanOver, Names
    <3> QED
      BY <2>5, <3>2, <3>3, <3>4 DEF WorkerStep
  <2>6. CASE SenderStep
    BY <2>0, <2>6, ListPosted DEF SenderStep, SenderProgress, SenderClears, SenderReturns,
                                  Names
  <2>7. ASSUME NEW r \in Receiver, ReceiverStep(r)
        PROVE  ListSettles' /\ selected' \in devices' \cup {NoDevice}
    <3>1. UNCHANGED <<devices, selected, published>>
      BY <2>7 DEF ReceiverStep, ReceiverProgress, ReceiverClears, ReceiverDestroyed,
                  ReceiverLeaves
    <3>2. CASE ReceiverLeaves(r)
      BY <2>0, <2>1, <3>1, <3>2 DEF ReceiverLeaves
    <3>3. CASE ReceiverProgress(r) \/ ReceiverClears(r) \/ ReceiverDestroyed(r)
      BY <2>0, <3>1, <3>3, ListPosted DEF ReceiverProgress, ReceiverClears,
                                          ReceiverDestroyed, Names
    <3> QED
      BY <2>7, <3>2, <3>3 DEF ReceiverStep
  <2>8. CASE UNCHANGED vars
    BY <2>0, <2>1, <2>8 DEF vars
  <2> QED
    BY <2>2, <2>3, <2>4, <2>5, <2>6, <2>7, <2>8 DEF Next
<1> QED
  BY <1>1, <1>2, ControlTypes, PTL DEF Spec
=============================================================================
