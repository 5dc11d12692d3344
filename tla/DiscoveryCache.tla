---------------------------- MODULE DiscoveryCache ----------------------------
(***************************************************************************)
(* The cache of mDNS records that the worker thread of ShareService keeps, *)
(* and the device list it makes of them.  A record is kept with the time   *)
(* it has left; time passes in Tick, whose unit is abstract.  The worker   *)
(* turns its loop (Turn) far more often than time passes here: a record    *)
(* that has no time left is dropped before the next Tick.                  *)
(***************************************************************************)
EXTENDS Naturals, Sequences

CONSTANTS Instance,  \* service instances, numbered as their names sort
          Host, Name, Address,
          Near,      \* the pairs of addresses on one /24 network
          NoAddress, \* no route yet (localIp = 0)
          NoName,    \* the name shown for a device without a TXT record
          MaxTtl     \* recordExpiry's bound on a TTL, 24 h in the code

ASSUME CacheAssumption ==
  /\ Instance \subseteq Nat
  /\ NoAddress \notin Address
  /\ MaxTtl \in Nat \ {0}

VARIABLES
  cache,      \* the hashes: four maps from names to records, and the pairs <<i, j>>
              \* of instances of which i was seen after j (discoveredInstanceSeen)
  published,  \* the rows of the last syncDevices (publishedDeviceSignature)
  throttled,  \* follow-up queries sent less than a second ago
  localIp     \* this phone's address, or NoAddress

cacheVars == <<cache, published, throttled, localIp>>

\* One mDNS record as it is read off the wire.
Record ==
  [type : {"PTR"}, instance : Instance, ttl : Nat]
    \cup [type : {"SRV"}, instance : Instance, host : Host, port : Nat, ttl : Nat]
    \cup [type : {"TXT"}, instance : Instance, name : Name, ttl : Nat]
    \cup [type : {"A"}, host : Host, address : Address, ttl : Nat]
    \cup [type : {"other"}]

Kept == 0..MaxTtl
IsMap(map, S, T) == DOMAIN map \subseteq S /\ \A k \in DOMAIN map : map[k] \in T
IsOrder(order, S) ==
  /\ order \subseteq S \X S
  /\ \A i \in S : <<i, i>> \notin order
  /\ \A i, j \in S : i # j => (<<i, j>> \in order <=> <<j, i>> \notin order)
  /\ \A i, j, k \in S : <<i, j>> \in order /\ <<j, k>> \in order => <<i, k>> \in order

TypeOK ==
  /\ IsMap(cache.ptr, Instance, [left : Kept])
  /\ IsOrder(cache.seen, DOMAIN cache.ptr)
  /\ IsMap(cache.srv, Instance, [left : Kept, host : Host, port : Nat])
  /\ IsMap(cache.txt, Instance, [left : Kept, name : Name])
  /\ IsMap(cache.a, Host, [left : Kept, address : Address])
  /\ \A row \in published :
       row \in [instance : Instance, name : Name \cup {NoName},
               address : Address, port : Nat]
  /\ throttled \in SUBSET ({"SRV", "TXT"} \X Instance \cup {"A"} \X Host)
  /\ localIp \in Address \cup {NoAddress}

Empty == [ptr |-> <<>>, seen |-> {}, srv |-> <<>>, txt |-> <<>>, a |-> <<>>]

Init ==
  /\ cache = Empty
  /\ published = {}
  /\ throttled = {}
  /\ localIp \in Address \cup {NoAddress}

-----------------------------------------------------------------------------
(* The cache. *)

\* QHash::insert and QHash::remove.
Put(map, key, value) ==
  [k \in DOMAIN map \cup {key} |-> IF k = key THEN value ELSE map[k]]
Drop(map, keys) == [k \in DOMAIN map \ keys |-> map[k]]
Without(order, keys) == {p \in order : p[1] \notin keys /\ p[2] \notin keys}

\* mutant of Expiry: the bound is lost.
ExpiryUnbounded(ttl) == ttl

\* recordExpiry.
Expiry(ttl) == IF ttl < MaxTtl THEN ttl ELSE MaxTtl

OutOf(map) == {k \in DOMAIN map : map[k].left = 0}

\* mutant of Expired: an instance stays until it says goodbye.
ExpiredLate(c) ==
  [ptr |-> c.ptr, seen |-> c.seen,
   srv |-> Drop(c.srv, OutOf(c.srv)),
   txt |-> Drop(c.txt, OutOf(c.txt)),
   a   |-> Drop(c.a, OutOf(c.a))]

\* expireDiscoveryRecords: an instance takes its SRV and TXT records with it.
Expired(c) ==
  [ptr |-> Drop(c.ptr, OutOf(c.ptr)),
   seen |-> Without(c.seen, OutOf(c.ptr)),
   srv |-> Drop(c.srv, OutOf(c.srv) \cup OutOf(c.ptr)),
   txt |-> Drop(c.txt, OutOf(c.txt) \cup OutOf(c.ptr)),
   a   |-> Drop(c.a, OutOf(c.a))]

AnyExpired(c) ==
  OutOf(c.ptr) \cup OutOf(c.srv) \cup OutOf(c.txt) # {} \/ OutOf(c.a) # {}

Pointer(c, r) ==
  IF r.ttl = 0
  THEN [c EXCEPT !.ptr = Drop(@, {r.instance}), !.seen = Without(@, {r.instance}),
                 !.srv = Drop(@, {r.instance}), !.txt = Drop(@, {r.instance})]
  ELSE [c EXCEPT !.ptr = Put(@, r.instance, [left |-> Expiry(r.ttl)]),
                 !.seen = Without(@, {r.instance})
                          \cup {r.instance} \X (DOMAIN c.ptr \ {r.instance})]

Service(c, r) ==
  [c EXCEPT !.srv = IF r.ttl = 0 THEN Drop(@, {r.instance})
                    ELSE Put(@, r.instance,
                             [left |-> Expiry(r.ttl), host |-> r.host, port |-> r.port])]

Text(c, r) ==
  [c EXCEPT !.txt = IF r.ttl = 0 THEN Drop(@, {r.instance})
                    ELSE Put(@, r.instance, [left |-> Expiry(r.ttl), name |-> r.name])]

\* On the network of this phone's own interface (a comparison of 3 bytes).
Local(address) == localIp # NoAddress /\ <<address, localIp>> \in Near

\* mutant of Chosen: the last address wins.
ChosenLast(c, r) == r.address

\* A known address gives way only to a local one when it is not local itself.
Chosen(c, r) ==
  IF r.host \in DOMAIN c.a /\ ~(Local(r.address) /\ ~Local(c.a[r.host].address))
  THEN c.a[r.host].address ELSE r.address

\* The expiry is renewed whichever address is kept.
HostAddress(c, r) ==
  [c EXCEPT !.a = IF r.ttl = 0 THEN Drop(@, {r.host})
                  ELSE Put(@, r.host, [left |-> Expiry(r.ttl), address |-> Chosen(c, r)])]

\* One record of parseDiscoveryPacket's loop.
Apply(c, r) ==
  CASE r.type = "PTR" -> Pointer(c, r)
    [] r.type = "SRV" -> Service(c, r)
    [] r.type = "TXT" -> Text(c, r)
    [] r.type = "A" -> HostAddress(c, r)
    [] OTHER -> c

\* The loop.
Applied(c, records) ==
  LET upTo[n \in 0..Len(records)] ==
        IF n = 0 THEN c ELSE Apply(upTo[n - 1], records[n])
  IN  upTo[Len(records)]

-----------------------------------------------------------------------------
(* The list. *)

\* mutant of Resolved: this phone is a device like any other.
ResolvedOwn(c, i) ==
  /\ i \in DOMAIN c.srv
  /\ c.srv[i].host \in DOMAIN c.a
  /\ c.srv[i].port > 0

Resolved(c, i) ==
  /\ i \in DOMAIN c.srv
  /\ c.srv[i].host \in DOMAIN c.a
  /\ c.srv[i].port > 0
  /\ c.a[c.srv[i].host].address # localIp

Row(c, i) == [instance |-> i,
              name |-> IF i \in DOMAIN c.txt THEN c.txt[i].name ELSE NoName,
              address |-> c.a[c.srv[i].host].address,
              port |-> c.srv[i].port]

SameDevice(r, q) == r.name = q.name /\ r.address = q.address

\* Of the instances that name one device, the one seen last has the row.
Rows(c) ==
  LET all == {i \in DOMAIN c.ptr : Resolved(c, i)}
  IN  {Row(c, i) : i \in {i \in all : \A j \in all :
                            SameDevice(Row(c, i), Row(c, j)) => <<j, i>> \notin c.seen}}

\* What sendResolutionQueries asks for.
Missing(c) ==
  {<<"SRV", i>> : i \in DOMAIN c.ptr \ DOMAIN c.srv}
    \cup {<<"TXT", i>> : i \in DOMAIN c.ptr \ DOMAIN c.txt}
    \cup {<<"A", h>> : h \in {c.srv[i].host : i \in DOMAIN c.ptr \cap DOMAIN c.srv}
                                \ DOMAIN c.a}

-----------------------------------------------------------------------------
(* The worker. *)

\* parseDiscoveryPacket: a packet that turns out to be malformed, or longer than
\* the 4096 bytes that were read, is left where that shows, with the changes of
\* the records before it but without the queries and the publication.
Receive(records, cut) ==
  LET known == Expired(cache)
      after == Applied(known, records)
      changed == AnyExpired(cache) \/ \E n \in DOMAIN records : records[n].type # "other"
  IN  /\ cache' = after
      /\ published' = IF changed /\ ~cut THEN Rows(after) ELSE published
      /\ throttled' = IF cut THEN throttled ELSE throttled \cup Missing(after)
      /\ UNCHANGED localIp

\* mutant of Turn: only packets publish.
TurnSilent ==
  /\ AnyExpired(cache)
  /\ cache' = Expired(cache)
  /\ UNCHANGED <<published, throttled, localIp>>

\* A turn of the worker's loop in which something expires.
Turn ==
  /\ AnyExpired(cache)
  /\ cache' = Expired(cache)
  /\ published' = Rows(Expired(cache))
  /\ UNCHANGED <<throttled, localIp>>

\* A scan starts from an empty cache.
StartScan ==
  /\ cache' = Empty
  /\ published' = {}
  /\ UNCHANGED <<throttled, localIp>>

\* While it scans, each turn asks for what is missing.
AskAgain ==
  /\ Missing(cache) \ throttled # {}
  /\ throttled' = throttled \cup Missing(cache)
  /\ UNCHANGED <<cache, published, localIp>>

\* refreshLocalIp, without its announcement: nothing is published.
RefreshLocalIp(ip) ==
  /\ ip # localIp
  /\ localIp' = ip
  /\ UNCHANGED <<cache, published, throttled>>

Aged(map) == [k \in DOMAIN map |-> [map[k] EXCEPT !.left = @ - 1]]

Tick ==
  /\ ~AnyExpired(cache)
  /\ cache' = [cache EXCEPT !.ptr = Aged(@), !.srv = Aged(@), !.txt = Aged(@),
                            !.a = Aged(@)]
  /\ throttled' = {}
  /\ UNCHANGED <<published, localIp>>
=============================================================================
