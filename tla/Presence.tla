------------------------------- MODULE Presence -------------------------------
(***************************************************************************)
(* Two workers and the network between them: the announcing half of a peer *)
(* (Announce) and the cache of this phone (DiscoveryCache), which also     *)
(* hears its own announcements.  A packet is heard at once or lost.        *)
(*                                                                         *)
(* The TTL of a packet is any of WireTtl: appendRecord stores htonl(ttl)   *)
(* in 16 bits and sends 4 bytes from there, so that the RECORD_TTL of an   *)
(* announcement and the zero of a goodbye both go out as whatever lies     *)
(* next to that variable.                                                  *)
(***************************************************************************)
EXTENDS DiscoveryCache

CONSTANTS Burst, Steady,
          Own,       \* this phone's own instance; the others are one peer,
                     \* which takes a new identity each time it starts
          WireTtl,   \* the TTLs a packet of the peer may carry
          OwnTtl,    \* bound: the TTLs of this phone's own packets
          Start,     \* bound: this phone's first address
          Moves      \* bound: how often it or the peer's changes

ASSUME PresenceAssumption ==
  /\ Burst \in Nat \ {0} /\ Steady \in Nat \ {0}
  /\ Own \in Instance /\ 0 \notin Instance
  /\ Host = Instance /\ Name = Instance
  /\ WireTtl \subseteq Nat /\ OwnTtl \subseteq Nat
  /\ Start \in Address
  /\ Moves \in Nat

VARIABLES
  running, left, due, woken, silence,  \* of the peer: Announce
  self,       \* the identity the peer has taken (generateDnsIdentity); 0: none yet
  address,    \* the address the peer announces
  moves,      \* how often an address has changed
  ownMoved,   \* history: this phone's has
  ownHeard,   \* it has heard an announcement of its own in this unit of time
  unpublished,\* history: the cache or the address changed without a publication
  near        \* history: the hosts heard of on a local address, since they are
              \* known and since this phone has its address

Peer == INSTANCE Announce

announceVars == <<running, left, due, woken, silence>>
peerVars == <<announceVars, self, address>>
vars == <<cacheVars, peerVars, moves, ownMoved, ownHeard, unpublished, near>>

Identity == Instance \ {Own}
PeerName == CHOOSE i \in Identity : \A j \in Identity : i <= j

PresenceTypeOK ==
  /\ TypeOK
  /\ Peer!TypeOK
  /\ self \in Identity \cup {0}
  /\ address \in Address
  /\ moves \in 0..Moves
  /\ ownMoved \in BOOLEAN /\ ownHeard \in BOOLEAN
  /\ unpublished \in BOOLEAN
  /\ near \in SUBSET Host

PresenceInit ==
  /\ Init /\ localIp = Start
  /\ Peer!Init
  /\ self = 0
  /\ address \in Address \ {localIp}
  /\ moves = 0 /\ ownMoved = FALSE /\ ownHeard = FALSE
  /\ unpublished = FALSE
  /\ near = {}

-----------------------------------------------------------------------------
(* Packets: buildResponse, for an announcement and for an answer. *)

Details(i, name, ip, ttl) ==
  <<[type |-> "SRV", instance |-> i, host |-> i, port |-> 1, ttl |-> ttl],
    [type |-> "TXT", instance |-> i, name |-> name, ttl |-> ttl],
    [type |-> "A", host |-> i, address |-> ip, ttl |-> ttl]>>

PointerTo(i, ttl) == <<[type |-> "PTR", instance |-> i, ttl |-> ttl]>>

Announcement(i, name, ip, ttl) == PointerTo(i, ttl) \o Details(i, name, ip, ttl)

\* The hosts that the records put on this phone's network.
NearIn(records) ==
  {records[n].host : n \in {n \in DOMAIN records : records[n].type = "A"
                              /\ records[n].ttl > 0 /\ Local(records[n].address)}}

Hear(records, cut) ==
  /\ Receive(records, cut)
  /\ unpublished' = IF cut /\ cache' # cache THEN TRUE
                    ELSE IF AnyExpired(cache) \/ \E n \in DOMAIN records :
                                                    records[n].type # "other"
                    THEN FALSE ELSE unpublished
  /\ near' = ((near \ OutOf(cache.a)) \cup NearIn(records)) \cap DOMAIN cache'.a

Lose == UNCHANGED <<cacheVars, unpublished, near>>

-----------------------------------------------------------------------------
(* The peer.  Its announcements and its goodbye are packets of one form. *)

Sent ==
  \/ \E ttl \in WireTtl : Hear(Announcement(self, PeerName, address, ttl), FALSE)
  \/ Lose

Heartbeat ==
  /\ Peer!Heartbeat
  /\ Sent
  /\ UNCHANGED <<self, address, moves, ownMoved, ownHeard>>

OtherAnnouncement ==
  /\ Peer!Search \/ Peer!BleWake
  /\ Sent
  /\ UNCHANGED <<self, address, moves, ownMoved, ownHeard>>

\* A peer that is killed, or leaves the network, is one whose goodbye is lost.
Goodbye ==
  /\ Peer!Stop
  /\ Sent
  /\ UNCHANGED <<self, address, moves, ownMoved, ownHeard>>

\* A peer starts for the first time, or again under a new identity.
Launch ==
  /\ Peer!Launch
  /\ self' = self + 1 /\ self' \in Identity
  /\ \/ \E ttl \in WireTtl : Hear(Announcement(self', PeerName, address, ttl), FALSE)
     \/ Lose
  /\ UNCHANGED <<address, moves, ownMoved, ownHeard>>

PeerMoves ==
  /\ moves < Moves /\ moves' = moves + 1
  /\ Peer!NewAddress
  /\ address' \in Address \ {address, localIp}
  /\ Lose
  /\ UNCHANGED <<self, ownMoved, ownHeard>>

\* A follow-up query of this phone reached the peer.
PeerAnswers ==
  /\ running
  /\ \E key \in throttled : key[2] = self
  /\ \E ttl \in WireTtl : Hear(Details(self, PeerName, address, ttl), FALSE)
  /\ UNCHANGED <<peerVars, moves, ownMoved, ownHeard>>

\* Other responders than this code answer with a PTR record alone.
PeerPointer ==
  /\ running
  /\ \E ttl \in WireTtl : Hear(PointerTo(self, ttl), FALSE)
  /\ UNCHANGED <<peerVars, moves, ownMoved, ownHeard>>

-----------------------------------------------------------------------------
(* This phone. *)

\* Its announcements come back to it (IP_MULTICAST_LOOP is on by default).
OwnHeartbeat ==
  /\ \E ttl \in OwnTtl : Hear(Announcement(Own, Own, localIp, ttl), FALSE)
  /\ ownHeard' = TRUE
  /\ UNCHANGED <<peerVars, moves, ownMoved>>

\* mDNS packets about other services, some malformed or too long.
OtherPacket ==
  /\ \E cut \in BOOLEAN : Hear(<<[type |-> "other"]>>, cut)
  /\ UNCHANGED <<peerVars, moves, ownMoved, ownHeard>>

Publication ==
  /\ Turn \/ StartScan
  /\ unpublished' = FALSE
  /\ near' = near \cap (DOMAIN cache'.a)
  /\ UNCHANGED <<peerVars, moves, ownMoved, ownHeard>>

Query ==
  /\ AskAgain
  /\ UNCHANGED <<peerVars, moves, ownMoved, ownHeard, unpublished, near>>

OwnMove ==
  /\ moves < Moves /\ moves' = moves + 1
  /\ \E ip \in Address \ {address} : RefreshLocalIp(ip)
  /\ ownMoved' = TRUE
  /\ unpublished' = TRUE
  /\ near' = {}
  /\ UNCHANGED <<peerVars, ownHeard>>

Time ==
  /\ ownHeard /\ ownHeard' = FALSE
  /\ Tick /\ Peer!Tick
  /\ UNCHANGED <<self, address, moves, ownMoved, unpublished, near>>

PeerStep ==
  \/ Heartbeat \/ OtherAnnouncement \/ Goodbye \/ Launch
  \/ PeerMoves \/ PeerAnswers \/ PeerPointer

PresenceNext ==
  \/ PeerStep
  \/ OwnHeartbeat \/ OtherPacket \/ Publication \/ Query \/ OwnMove
  \/ Time

PresenceSpec == PresenceInit /\ [][PresenceNext]_vars

\* Time passes, and what is due in it is done: this phone's worker drops what has
\* expired and hears its own announcement, the peer announces.  (Each conjunct
\* names the part of a step that decides when it can be taken.)  The network owes
\* nothing, and the peer need not stay.
FairPresenceSpec ==
  /\ PresenceSpec
  /\ WF_vars(Time)
  /\ WF_cache(AnyExpired(cache) /\ cache' = Expired(cache))
  /\ WF_ownHeard(~ownHeard /\ ownHeard' = TRUE)
  /\ WF_announceVars(Peer!Heartbeat)

-----------------------------------------------------------------------------
(* Safety. *)

\* The list shows what the cache holds, whatever expired, was renewed, taken back
\* or searched for anew meanwhile; except after a packet that parseDiscoveryPacket
\* left half way, or a new own address, until the next packet or expiry.
ListCurrent == ~unpublished => published = Rows(cache)

\* The phone hears its own announcements and yet is not in its own list, as long
\* as it has kept the address it started with.
SelfHidden == ~ownMoved => \A row \in published : row.instance # Own

\* A host that was heard of on a local address is not connected to on another
\* one: the A records of its other interfaces, in any order, do not displace it.
ReachableKept == \A h \in near : Local(cache.a[h].address)

\* Neither bursts, nor searches, nor Bluetooth wakes, nor a new address ever put
\* off the next announcement for longer than the steady interval.
HeartbeatKept == running => silence <= Steady

(* Liveness. *)

\* A peer that has gone, with or without a goodbye and whatever TTL its last
\* packet had, leaves the list, although the packet that made the cache drop it
\* may have been one that published nothing.
GoneDeviceLeaves ==
  ~running ~> running \/ \A row \in published : row.instance = Own
=============================================================================
