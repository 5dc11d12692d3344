------------------------------- MODULE Announce -------------------------------
(***************************************************************************)
(* The announcing half of the worker thread: when it announces.  A unit of *)
(* time is the steady interval of 4 s; the steps of the burst (120 ms to   *)
(* 1 s) and the throttle of the BLE wake (2.5 s) are shorter, and due at   *)
(* once here.  The worker turns its loop at least twice a second, so time  *)
(* passes only when nothing is due.                                        *)
(***************************************************************************)
EXTENDS Naturals

CONSTANTS Burst,     \* announceBurstLeft when a burst is armed (4)
          Steady     \* units between two announcements outside a burst (1)

AnnounceAssumption ==
  /\ Burst \in Nat \ {0}
  /\ Steady \in Nat \ {0}

VARIABLES
  running,  \* the worker is in its loop
  left,     \* announceBurstLeft
  due,      \* units until nextAnnounceMs
  woken,    \* the last wake was less than BLE_WAKE_THROTTLE_MS ago
  silence   \* history: units since the last announcement

announceVars == <<running, left, due, woken, silence>>

TypeOK ==
  /\ running \in BOOLEAN
  /\ left \in 0..Burst
  /\ due \in 0..Steady
  /\ woken \in BOOLEAN
  /\ silence \in Nat

Init ==
  /\ running = FALSE
  /\ left = 0 /\ due = 0
  /\ woken = FALSE
  /\ silence = 0

-----------------------------------------------------------------------------
\* armAnnounceBurst: the next announcement in 120 ms.
ArmBurst == left' = Burst /\ due' = 0

\* The prologue of workerMain: a first announcement, then a burst.
Launch ==
  /\ ~running
  /\ running' = TRUE
  /\ silence' = 0
  /\ ArmBurst
  /\ UNCHANGED woken

\* Where the loop puts nextAnnounceMs: 250, 500 and 1000 ms after the steps of a
\* burst, 4 s after its last and outside of one.
Reschedule ==
  IF left > 0
  THEN left' = left - 1 /\ due' = IF left = 1 THEN Steady ELSE 0
  ELSE due' = Steady /\ UNCHANGED left

Heartbeat ==
  /\ running /\ due = 0
  /\ silence' = 0
  /\ Reschedule
  /\ UNCHANGED <<running, woken>>

\* A search of this phone's own announces too.
Search ==
  /\ running
  /\ silence' = 0
  /\ ArmBurst
  /\ UNCHANGED <<running, woken>>

\* A Quick Share advertisement (bleAdvertisement sets a flag, the worker takes
\* it on its next turn).
BleWake ==
  /\ running /\ ~woken
  /\ woken' = TRUE
  /\ silence' = 0
  /\ ArmBurst
  /\ UNCHANGED running

\* mutant of NewAddress: only the burst is counted, and the steady time starts
\* anew.
NewAddressLate ==
  /\ running
  /\ left' = Burst /\ due' = Steady
  /\ UNCHANGED <<running, woken, silence>>

\* refreshLocalIp arms a burst and sends nothing itself.
NewAddress ==
  /\ running
  /\ ArmBurst
  /\ UNCHANGED <<running, woken, silence>>

\* The worker ends: stopRequested, or the process is killed.
Stop ==
  /\ running
  /\ running' = FALSE
  /\ left' = 0 /\ due' = 0 /\ woken' = FALSE /\ silence' = 0

\* Time passes once all that is due has been done.
Tick ==
  /\ running => due > 0
  /\ due' = IF due > 0 THEN due - 1 ELSE 0
  /\ woken' = FALSE
  /\ silence' = IF running THEN silence + 1 ELSE silence
  /\ UNCHANGED <<running, left>>
=============================================================================
