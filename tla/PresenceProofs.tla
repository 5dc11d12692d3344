--------------------------- MODULE PresenceProofs ---------------------------
(***************************************************************************)
(* What Presence guarantees for every set of devices, addresses and TTLs,  *)
(* proved.                                                                 *)
(*                                                                         *)
(* The cache is a member of a set, Caches, that every record of a packet   *)
(* leads back into; what a whole packet does follows record by record      *)
(* along the course of parseDiscoveryPacket's loop (AppliedWithin).  The   *)
(* rest of the invariant ties the list and the addresses to the cache.     *)
(***************************************************************************)
EXTENDS Presence, DataLemmas, TLAPS

-----------------------------------------------------------------------------
(* The cache. *)

Maps(S, T) == UNION {[D -> T] : D \in SUBSET S}

PointerEntry == [left : Kept]
ServiceEntry == [left : Kept, host : Host, port : Nat]
TextEntry == [left : Kept, name : Name]
AddressEntry == [left : Kept, address : Address]

Pointers == {p \in Maps(Instance, PointerEntry) : IsFiniteSet(DOMAIN p)}
Services == Maps(Instance, ServiceEntry)
Texts == Maps(Instance, TextEntry)
Addresses == Maps(Host, AddressEntry)

Caches ==
  {c \in [ptr : Pointers, seen : SUBSET (Instance \X Instance), srv : Services,
          txt : Texts, a : Addresses] : IsOrder(c.seen, DOMAIN c.ptr)}

LEMMA MapMembers ==
  ASSUME NEW S, NEW T, NEW map \in Maps(S, T)
  PROVE  /\ map \in [DOMAIN map -> T]
         /\ IsMap(map, S, T)
BY DEF Maps, IsMap

LEMMA MapKnown ==
  ASSUME NEW S, NEW T, NEW D \in SUBSET S, NEW map \in [D -> T]
  PROVE  map \in Maps(S, T) /\ DOMAIN map = D
BY DEF Maps

LEMMA MapPut ==
  ASSUME NEW S, NEW T, NEW map \in Maps(S, T), NEW k \in S, NEW v \in T
  PROVE  /\ Put(map, k, v) \in Maps(S, T)
         /\ DOMAIN Put(map, k, v) = DOMAIN map \cup {k}
<1>1. DOMAIN map \in SUBSET S /\ \A i \in DOMAIN map : map[i] \in T
  BY MapMembers DEF IsMap
<1>2. Put(map, k, v) \in [DOMAIN map \cup {k} -> T]
  BY <1>1 DEF Put
<1>3. DOMAIN map \cup {k} \in SUBSET S
  BY <1>1
<1> QED
  BY <1>2, <1>3, MapKnown

LEMMA MapDrop ==
  ASSUME NEW S, NEW T, NEW map \in Maps(S, T), NEW keys
  PROVE  /\ Drop(map, keys) \in Maps(S, T)
         /\ DOMAIN Drop(map, keys) = DOMAIN map \ keys
<1>1. DOMAIN map \in SUBSET S /\ \A i \in DOMAIN map : map[i] \in T
  BY MapMembers DEF IsMap
<1>2. Drop(map, keys) \in [DOMAIN map \ keys -> T]
  BY <1>1 DEF Drop
<1>3. DOMAIN map \ keys \in SUBSET S
  BY <1>1
<1> QED
  BY <1>2, <1>3, MapKnown

LEMMA CacheFields ==
  ASSUME NEW c \in Caches
  PROVE  /\ c \in [ptr : Pointers, seen : SUBSET (Instance \X Instance), srv : Services,
                   txt : Texts, a : Addresses]
         /\ c.ptr \in Pointers /\ c.srv \in Services /\ c.txt \in Texts
         /\ c.a \in Addresses
         /\ c.seen \in SUBSET (Instance \X Instance)
         /\ IsOrder(c.seen, DOMAIN c.ptr)
BY DEF Caches

LEMMA OrderTyped ==
  ASSUME NEW p \in Pointers, NEW o, IsOrder(o, DOMAIN p)
  PROVE  o \in SUBSET (Instance \X Instance)
<1>1. DOMAIN p \subseteq Instance
  BY MapMembers DEF Pointers, IsMap
<1> QED
  BY <1>1 DEF IsOrder

LEMMA OrderWithout ==
  ASSUME NEW S, NEW o, IsOrder(o, S), NEW keys
  PROVE  IsOrder(Without(o, keys), S \ keys)
BY DEF IsOrder, Without

LEMMA OrderNewest ==
  ASSUME NEW S, NEW o, IsOrder(o, S), NEW i
  PROVE  IsOrder(Without(o, {i}) \cup ({i} \X (S \ {i})), S \cup {i})
<1> DEFINE n == Without(o, {i}) \cup ({i} \X (S \ {i}))
<1>1. \A j, k : <<j, k>> \in n <=> \/ <<j, k>> \in o /\ j # i /\ k # i
                                   \/ j = i /\ k \in S /\ k # i
  BY DEF Without
<1>2. n \subseteq (S \cup {i}) \X (S \cup {i})
  BY DEF Without, IsOrder
<1> HIDE DEF n
<1>3. IsOrder(n, S \cup {i})
  BY <1>1, <1>2 DEF IsOrder
<1> QED
  BY <1>3 DEF n

LEMMA ExpiryKept == \A ttl \in Nat : Expiry(ttl) \in Kept
BY CacheAssumption DEF Expiry, Kept

LEMMA PointersDropped ==
  ASSUME NEW p \in Pointers, NEW keys
  PROVE  Drop(p, keys) \in Pointers /\ DOMAIN Drop(p, keys) = DOMAIN p \ keys
<1>1. p \in Maps(Instance, PointerEntry) /\ IsFiniteSet(DOMAIN p)
  BY DEF Pointers
<1>2. Drop(p, keys) \in Maps(Instance, PointerEntry) /\ DOMAIN Drop(p, keys) = DOMAIN p \ keys
  BY <1>1, MapDrop
<1>3. IsFiniteSet(DOMAIN p \ keys)
  BY <1>1, FS_Subset
<1> QED
  BY <1>2, <1>3 DEF Pointers

LEMMA PointersPut ==
  ASSUME NEW p \in Pointers, NEW i \in Instance, NEW v \in PointerEntry
  PROVE  Put(p, i, v) \in Pointers /\ DOMAIN Put(p, i, v) = DOMAIN p \cup {i}
<1>1. p \in Maps(Instance, PointerEntry) /\ IsFiniteSet(DOMAIN p)
  BY DEF Pointers
<1>2. Put(p, i, v) \in Maps(Instance, PointerEntry)
  BY <1>1, MapPut
<1>3. DOMAIN Put(p, i, v) = DOMAIN p \cup {i}
  BY <1>1, MapPut
<1>4. IsFiniteSet(DOMAIN p \cup {i})
  BY <1>1, FS_AddElement
<1> QED
  BY <1>2, <1>3, <1>4 DEF Pointers

LEMMA ServicesChange ==
  ASSUME NEW s \in Services
  PROVE  /\ \A keys : Drop(s, keys) \in Services
         /\ \A i \in Instance, v \in ServiceEntry :
              Put(s, i, v) \in Services
BY MapDrop, MapPut DEF Services

LEMMA TextsChange ==
  ASSUME NEW t \in Texts
  PROVE  /\ \A keys : Drop(t, keys) \in Texts
         /\ \A i \in Instance, v \in TextEntry : Put(t, i, v) \in Texts
BY MapDrop, MapPut DEF Texts

LEMMA AddressesChange ==
  ASSUME NEW a \in Addresses
  PROVE  /\ \A keys : Drop(a, keys) \in Addresses
         /\ \A h \in Host, v \in AddressEntry :
              Put(a, h, v) \in Addresses
BY MapDrop, MapPut DEF Addresses

LEMMA PointerKeeps ==
  ASSUME NEW c \in Caches, NEW r \in [type : {"PTR"}, instance : Instance, ttl : Nat]
  PROVE  /\ Pointer(c, r) \in Caches /\ Pointer(c, r).a = c.a
         /\ Pointer(c, r).srv \in {c.srv, Drop(c.srv, {r.instance})}
<1>1. r.instance \in Instance /\ r.ttl \in Nat
  OBVIOUS
<1>2. /\ c \in [ptr : Pointers, seen : SUBSET (Instance \X Instance), srv : Services,
                 txt : Texts, a : Addresses]
      /\ c.ptr \in Pointers /\ c.srv \in Services /\ c.txt \in Texts
      /\ IsOrder(c.seen, DOMAIN c.ptr)
  BY CacheFields
<1>3. CASE r.ttl = 0
  <2> DEFINE p == Drop(c.ptr, {r.instance})
             o == Without(c.seen, {r.instance})
             s == Drop(c.srv, {r.instance})
             t == Drop(c.txt, {r.instance})
             d == [c EXCEPT !.ptr = p, !.seen = o, !.srv = s, !.txt = t]
  <2>1. p \in Pointers /\ s \in Services /\ t \in Texts /\ IsOrder(o, DOMAIN p)
    <3>1. p \in Pointers /\ DOMAIN p = DOMAIN c.ptr \ {r.instance}
      BY <1>2, PointersDropped
    <3>2. s \in Services /\ t \in Texts
      BY <1>2, ServicesChange, TextsChange
    <3>3. IsOrder(o, DOMAIN c.ptr \ {r.instance})
      BY <1>2, OrderWithout
    <3> QED
      BY <3>1, <3>2, <3>3
  <2>2. Pointer(c, r) = d
    BY <1>3 DEF Pointer
  <2> HIDE DEF p, o, s, t
  <2>3. o \in SUBSET (Instance \X Instance)
    BY <2>1, OrderTyped
  <2>4. d.ptr = p /\ d.seen = o /\ d.a = c.a /\ d.srv = s
    BY <1>2
  <2>5. d \in Caches
    BY <1>2, <2>1, <2>3, <2>4 DEF Caches
  <2> QED
    BY <2>2, <2>4, <2>5 DEF s
<1>4. CASE r.ttl # 0
  <2> DEFINE p == Put(c.ptr, r.instance, [left |-> Expiry(r.ttl)])
             o == Without(c.seen, {r.instance})
                    \cup {r.instance} \X (DOMAIN c.ptr \ {r.instance})
             d == [c EXCEPT !.ptr = p, !.seen = o]
  <2>1. [left |-> Expiry(r.ttl)] \in PointerEntry
    BY <1>1, ExpiryKept DEF PointerEntry
  <2>2. p \in Pointers /\ IsOrder(o, DOMAIN p)
    <3>1. p \in Pointers /\ DOMAIN p = DOMAIN c.ptr \cup {r.instance}
      BY <1>1, <1>2, <2>1, PointersPut
    <3>2. IsOrder(o, DOMAIN c.ptr \cup {r.instance})
      BY <1>2, OrderNewest
    <3> QED
      BY <3>1, <3>2
  <2>3. Pointer(c, r) = d
    BY <1>4 DEF Pointer
  <2> HIDE DEF p, o
  <2>4. o \in SUBSET (Instance \X Instance)
    BY <2>2, OrderTyped
  <2>5. d.ptr = p /\ d.seen = o /\ d.a = c.a /\ d.srv = c.srv
    BY <1>2
  <2> QED
    BY <1>2, <2>2, <2>3, <2>4, <2>5 DEF Caches
<1> QED
  BY <1>3, <1>4

LEMMA ServiceKeeps ==
  ASSUME NEW c \in Caches,
         NEW r \in [type : {"SRV"}, instance : Instance, host : Host, port : Nat, ttl : Nat]
  PROVE  /\ Service(c, r) \in Caches /\ Service(c, r).a = c.a
         /\ Service(c, r).srv
              = IF r.ttl = 0 THEN Drop(c.srv, {r.instance})
                ELSE Put(c.srv, r.instance,
                         [left |-> Expiry(r.ttl), host |-> r.host, port |-> r.port])
<1> DEFINE s == IF r.ttl = 0 THEN Drop(c.srv, {r.instance})
                ELSE Put(c.srv, r.instance,
                         [left |-> Expiry(r.ttl), host |-> r.host, port |-> r.port])
           d == [c EXCEPT !.srv = s]
<1>1. [left |-> Expiry(r.ttl), host |-> r.host, port |-> r.port]
        \in ServiceEntry
  BY ExpiryKept DEF ServiceEntry
<1>2. s \in Services
  BY <1>1, CacheFields, ServicesChange
<1>3. Service(c, r) = d
  BY DEF Service
<1> HIDE DEF s
<1>4. d.srv = s /\ d.ptr = c.ptr /\ d.seen = c.seen /\ d.a = c.a
  BY CacheFields
<1>5. d \in Caches
  BY <1>2, <1>4, CacheFields DEF Caches
<1> QED
  BY <1>3, <1>4, <1>5 DEF s

LEMMA TextKeeps ==
  ASSUME NEW c \in Caches,
         NEW r \in [type : {"TXT"}, instance : Instance, name : Name, ttl : Nat]
  PROVE  Text(c, r) \in Caches /\ Text(c, r).a = c.a /\ Text(c, r).srv = c.srv
<1> DEFINE t == IF r.ttl = 0 THEN Drop(c.txt, {r.instance})
                ELSE Put(c.txt, r.instance, [left |-> Expiry(r.ttl), name |-> r.name])
           d == [c EXCEPT !.txt = t]
<1>1. [left |-> Expiry(r.ttl), name |-> r.name] \in TextEntry
  BY ExpiryKept DEF TextEntry
<1>2. t \in Texts
  BY <1>1, CacheFields, TextsChange
<1>3. Text(c, r) = d
  BY DEF Text
<1> HIDE DEF t
<1>4. d.txt = t /\ d.ptr = c.ptr /\ d.seen = c.seen /\ d.a = c.a /\ d.srv = c.srv
  BY CacheFields
<1> QED
  BY <1>2, <1>3, <1>4, CacheFields DEF Caches

LEMMA HostAddressKeeps ==
  ASSUME NEW c \in Caches,
         NEW r \in [type : {"A"}, host : Host, address : Address, ttl : Nat]
  PROVE  /\ HostAddress(c, r) \in Caches /\ HostAddress(c, r).srv = c.srv
         /\ HostAddress(c, r).a
              = IF r.ttl = 0 THEN Drop(c.a, {r.host})
                ELSE Put(c.a, r.host, [left |-> Expiry(r.ttl), address |-> Chosen(c, r)])
<1> DEFINE a == IF r.ttl = 0 THEN Drop(c.a, {r.host})
                ELSE Put(c.a, r.host, [left |-> Expiry(r.ttl), address |-> Chosen(c, r)])
           d == [c EXCEPT !.a = a]
<1>1. c.a \in Maps(Host, AddressEntry)
  BY CacheFields DEF Addresses
<1>2. ASSUME NEW h \in DOMAIN c.a PROVE c.a[h].address \in Address
  <2>1. IsMap(c.a, Host, AddressEntry)
    BY <1>1, MapMembers
  <2>2. c.a[h] \in AddressEntry
    BY <2>1 DEF IsMap
  <2> QED
    BY <2>2 DEF AddressEntry
<1>3. Chosen(c, r) \in Address
  BY <1>2 DEF Chosen
<1>4. [left |-> Expiry(r.ttl), address |-> Chosen(c, r)] \in AddressEntry
  BY <1>3, ExpiryKept DEF AddressEntry
<1>5. a \in Addresses
  BY <1>4, CacheFields, AddressesChange
<1>6. HostAddress(c, r) = d
  BY DEF HostAddress
<1> HIDE DEF a
<1>7. d.a = a /\ d.ptr = c.ptr /\ d.seen = c.seen /\ d.srv = c.srv
  BY CacheFields
<1>8. d \in Caches
  BY <1>5, <1>7, CacheFields DEF Caches
<1> QED
  BY <1>6, <1>7, <1>8 DEF a

LEMMA ApplyKeeps ==
  ASSUME NEW c \in Caches, NEW r \in Record
  PROVE  Apply(c, r) \in Caches
BY PointerKeeps, ServiceKeeps, TextKeeps, HostAddressKeeps DEF Apply, Record

Step == [x \in Caches \X Record |-> Apply(x[1], x[2])]

LEMMA StepApplies ==
  /\ Step \in Steps(Caches, Record)
  /\ \A c \in Caches, r \in Record : Step[<<c, r>>] = Apply(c, r)
<1>1. Step \in Steps(Caches, Record)
  BY ApplyKeeps DEF Step, Steps
<1>2. \A c \in Caches, r \in Record : Step[<<c, r>>] = Apply(c, r)
  BY DEF Step
<1> QED
  BY <1>1, <1>2

LEMMA AppliedEnds ==
  ASSUME NEW c \in Caches, NEW records \in Seq(Record),
         NEW g \in Course(Caches, Step, c, records)
  PROVE  Applied(c, records) = g[Len(records)]
<1> DEFINE built(f) == [n \in 0..Len(records) |->
                          IF n = 0 THEN c ELSE Apply(f[n - 1], records[n])]
           upTo == CHOOSE f : f = built(f)
<1>1. g \in [0..Len(records) -> Caches] /\ g[0] = c
  BY DEF Course
<1>2. \A n \in 1..Len(records) : g[n] = Apply(g[n - 1], records[n])
  <2>1. \A n \in 1..Len(records) : g[n - 1] \in Caches /\ records[n] \in Record
    BY <1>1
  <2>2. \A n \in 1..Len(records) : g[n] = Step[<<g[n - 1], records[n]>>]
    BY DEF Course
  <2> QED
    BY <2>1, <2>2, StepApplies
<1>3. g = built(g)
  BY <1>1, <1>2
<1>4. upTo = built(upTo)
  <2> HIDE DEF built
  <2> QED
    BY <1>3, Zenon
<1>5. Applied(c, records) = upTo[Len(records)]
  BY DEF Applied
<1> HIDE DEF upTo
<1>6. upTo[0] = c /\ \A n \in 1..Len(records) : upTo[n] = Apply(upTo[n - 1], records[n])
  BY <1>4
<1> HIDE DEF built
<1>7. \A n \in 1..Len(records) :
        upTo[n - 1] \in Caches => upTo[n] = Step[<<upTo[n - 1], records[n]>>]
  <2>1. \A n \in 1..Len(records) : records[n] \in Record
    OBVIOUS
  <2> QED
    BY <1>6, <2>1, StepApplies
<1>8. upTo[Len(records)] = g[Len(records)]
  BY <1>6, <1>7, StepApplies, CourseUnique
<1> QED
  BY <1>5, <1>8

\* A packet of any records, in any order and number, leaves the cache well formed.
LEMMA AppliedKeeps ==
  ASSUME NEW c \in Caches, NEW records \in Seq(Record)
  PROVE  Applied(c, records) \in Caches
<1>1. PICK g : g \in Course(Caches, Step, c, records)
  BY StepApplies, CourseExists
<1>2. Applied(c, records) = g[Len(records)]
  BY <1>1, AppliedEnds
<1> QED
  BY <1>1, <1>2 DEF Course

LEMMA AppliedNone ==
  ASSUME NEW c \in Caches
  PROVE  Applied(c, <<>>) = c
<1>1. <<>> \in Seq(Record) /\ Len(<<>>) = 0
  OBVIOUS
<1>2. PICK g : g \in Course(Caches, Step, c, <<>>)
  BY <1>1, StepApplies, CourseExists
<1>3. Applied(c, <<>>) = g[0]
  BY <1>1, <1>2, AppliedEnds
<1> QED
  BY <1>2, <1>3 DEF Course

LEMMA AppliedLast ==
  ASSUME NEW c \in Caches, NEW records \in Seq(Record), NEW r \in Record
  PROVE  Applied(c, Append(records, r)) = Apply(Applied(c, records), r)
<1>1. Append(records, r) \in Seq(Record) /\ Len(Append(records, r)) = Len(records) + 1
  OBVIOUS
<1>2. PICK g : g \in Course(Caches, Step, c, records)
  BY StepApplies, CourseExists
<1>3. PICK h : h \in Course(Caches, Step, c, Append(records, r))
  BY <1>1, StepApplies, CourseExists
<1>4. Applied(c, records) = g[Len(records)]
  BY <1>2, AppliedEnds
<1>5. Applied(c, Append(records, r)) = h[Len(records) + 1]
  BY <1>1, <1>3, AppliedEnds
<1>6. h[Len(records) + 1] = Step[<<g[Len(records)], r>>]
  BY <1>2, <1>3, StepApplies, CourseLonger
<1> QED
  BY <1>4, <1>5, <1>6, StepApplies, AppliedKeeps

\* What every record that may come keeps, a packet keeps.
LEMMA AppliedWithin ==
  ASSUME NEW C \in SUBSET Caches, NEW R \in SUBSET Record,
         \A d \in C, r \in R : Apply(d, r) \in C,
         NEW c \in C, NEW records \in Seq(R)
  PROVE  Applied(c, records) \in C
<1>1. records \in Seq(Record) /\ c \in Caches
  OBVIOUS
<1>2. PICK g : g \in Course(Caches, Step, c, records)
  BY <1>1, StepApplies, CourseExists
<1> DEFINE S == {n \in Nat : n <= Len(records) => g[n] \in C}
<1>3. 0 \in S
  BY <1>2 DEF Course
<1>4. ASSUME NEW n \in Nat, n \in S PROVE n + 1 \in S
  <2> SUFFICES ASSUME n + 1 <= Len(records) PROVE g[n + 1] \in C
    OBVIOUS
  <2>1. g[n] \in C /\ n + 1 \in 1..Len(records) /\ (n + 1) - 1 = n
    BY <1>4
  <2>2. records[n + 1] \in R
    BY <2>1
  <2>3. g[n + 1] = Step[<<g[n], records[n + 1]>>]
    BY <1>2, <2>1 DEF Course
  <2>4. g[n] \in Caches /\ records[n + 1] \in Record
    BY <2>1, <2>2
  <2>5. g[n + 1] = Apply(g[n], records[n + 1])
    BY <2>3, <2>4, StepApplies
  <2> QED
    BY <2>1, <2>2, <2>5
<1>5. Nat \subseteq S
  <2> HIDE DEF S
  <2> QED
    BY <1>3, <1>4, NatSetInduction
<1>6. Applied(c, records) = g[Len(records)]
  BY <1>1, <1>2, AppliedEnds
<1> QED
  BY <1>5, <1>6

-----------------------------------------------------------------------------
(* Expiry and age. *)

LEMMA ExpiredKeeps ==
  ASSUME NEW c \in Caches
  PROVE  /\ Expired(c) \in Caches
         /\ Expired(c).a = Drop(c.a, OutOf(c.a))
         /\ DOMAIN Expired(c).srv \subseteq DOMAIN c.srv
         /\ \A i \in DOMAIN Expired(c).srv : Expired(c).srv[i] = c.srv[i]
<1>1. /\ c.ptr \in Pointers /\ c.srv \in Services /\ c.txt \in Texts /\ c.a \in Addresses
      /\ IsOrder(c.seen, DOMAIN c.ptr)
  BY CacheFields
<1> DEFINE p == Drop(c.ptr, OutOf(c.ptr))
           o == Without(c.seen, OutOf(c.ptr))
           s == Drop(c.srv, OutOf(c.srv) \cup OutOf(c.ptr))
           t == Drop(c.txt, OutOf(c.txt) \cup OutOf(c.ptr))
           a == Drop(c.a, OutOf(c.a))
<1>2. Expired(c) = [ptr |-> p, seen |-> o, srv |-> s, txt |-> t, a |-> a]
  BY DEF Expired
<1>3. p \in Pointers /\ DOMAIN p = DOMAIN c.ptr \ OutOf(c.ptr)
  BY <1>1, PointersDropped
<1>4. IsOrder(o, DOMAIN c.ptr \ OutOf(c.ptr))
  BY <1>1, OrderWithout
<1>5. s \in Services /\ t \in Texts
  BY <1>1, ServicesChange, TextsChange
<1>6. a \in Addresses
  BY <1>1, AddressesChange
<1>7. DOMAIN s \subseteq DOMAIN c.srv /\ \A i \in DOMAIN s : s[i] = c.srv[i]
  BY DEF Drop
<1> HIDE DEF p, o, s, t, a
<1>8. o \in SUBSET (Instance \X Instance)
  BY <1>3, <1>4, OrderTyped
<1>9. Expired(c) \in Caches
  BY <1>2, <1>3, <1>4, <1>5, <1>6, <1>8 DEF Caches
<1>10. Expired(c).a = a /\ Expired(c).srv = s
  BY <1>2
<1> QED
  BY <1>7, <1>9, <1>10 DEF a

LEMMA DropNothing ==
  ASSUME NEW S, NEW T, NEW map \in Maps(S, T) PROVE Drop(map, {}) = map
BY MapMembers DEF Drop

LEMMA ExpiredSame ==
  ASSUME NEW c \in Caches, ~AnyExpired(c) PROVE Expired(c) = c
<1>1. OutOf(c.ptr) = {} /\ OutOf(c.srv) = {} /\ OutOf(c.txt) = {} /\ OutOf(c.a) = {}
  BY DEF AnyExpired
<1>2. Drop(c.ptr, {}) = c.ptr
  BY CacheFields, DropNothing DEF Pointers
<1>3. Drop(c.srv, {}) = c.srv
  BY CacheFields, DropNothing DEF Services
<1>4. Drop(c.txt, {}) = c.txt
  BY CacheFields, DropNothing DEF Texts
<1>5. Drop(c.a, {}) = c.a
  BY CacheFields, DropNothing DEF Addresses
<1>6. Without(c.seen, {}) = c.seen
  BY CacheFields DEF Without
<1>7. Expired(c) = [ptr |-> c.ptr, seen |-> c.seen, srv |-> c.srv, txt |-> c.txt, a |-> c.a]
  BY <1>1, <1>2, <1>3, <1>4, <1>5, <1>6 DEF Expired
<1> QED
  BY <1>7, CacheFields

LEMMA RowsSame ==
  ASSUME NEW c, NEW d,
         DOMAIN d.ptr = DOMAIN c.ptr, d.seen = c.seen,
         DOMAIN d.srv = DOMAIN c.srv,
         \A i \in DOMAIN c.srv : d.srv[i].host = c.srv[i].host /\ d.srv[i].port = c.srv[i].port,
         DOMAIN d.txt = DOMAIN c.txt, \A i \in DOMAIN c.txt : d.txt[i].name = c.txt[i].name,
         DOMAIN d.a = DOMAIN c.a, \A h \in DOMAIN c.a : d.a[h].address = c.a[h].address
  PROVE  Rows(d) = Rows(c)
<1>1. \A i : Resolved(d, i) <=> Resolved(c, i)
  BY DEF Resolved
<1>2. \A i : Resolved(c, i) => Row(d, i) = Row(c, i)
  BY DEF Resolved, Row
<1> QED
  BY <1>1, <1>2 DEF Rows

Ages(T) == \A e \in T : e.left # 0 => [e EXCEPT !.left = @ - 1] \in T

LEMMA RecordAged ==
  /\ Ages(PointerEntry) /\ Ages(ServiceEntry) /\ Ages(TextEntry) /\ Ages(AddressEntry)
  /\ \A e \in ServiceEntry : e.left # 0 =>
       /\ [e EXCEPT !.left = @ - 1].host = e.host
       /\ [e EXCEPT !.left = @ - 1].port = e.port
  /\ \A e \in TextEntry : e.left # 0 =>
       /\ [e EXCEPT !.left = @ - 1].name = e.name
  /\ \A e \in AddressEntry : e.left # 0 =>
       /\ [e EXCEPT !.left = @ - 1].address = e.address
<1>1. \A n \in Kept : n # 0 => n - 1 \in Kept
  BY CacheAssumption DEF Kept
<1>2. Ages(PointerEntry)
  BY <1>1 DEF PointerEntry, Ages
<1>3. \A e \in ServiceEntry : e.left # 0 =>
       /\ [e EXCEPT !.left = @ - 1] \in ServiceEntry
       /\ [e EXCEPT !.left = @ - 1].host = e.host
       /\ [e EXCEPT !.left = @ - 1].port = e.port
  BY <1>1 DEF ServiceEntry
<1>4. \A e \in TextEntry : e.left # 0 =>
       /\ [e EXCEPT !.left = @ - 1] \in TextEntry
       /\ [e EXCEPT !.left = @ - 1].name = e.name
  BY <1>1 DEF TextEntry
<1>5. \A e \in AddressEntry : e.left # 0 =>
       /\ [e EXCEPT !.left = @ - 1] \in AddressEntry
       /\ [e EXCEPT !.left = @ - 1].address = e.address
  BY <1>1 DEF AddressEntry
<1> QED
  BY <1>2, <1>3, <1>4, <1>5 DEF Ages

\* What is kept is a unit of time older, and otherwise the same.
LEMMA AgedKeeps ==
  ASSUME NEW S, NEW T, NEW map \in Maps(S, T), OutOf(map) = {}, Ages(T)
  PROVE  /\ Aged(map) \in Maps(S, T) /\ DOMAIN Aged(map) = DOMAIN map
         /\ \A k \in DOMAIN map :
              /\ map[k] \in T /\ map[k].left # 0
              /\ Aged(map)[k] = [map[k] EXCEPT !.left = @ - 1]
<1>1. map \in [DOMAIN map -> T] /\ DOMAIN map \subseteq S
  BY MapMembers DEF IsMap
<1>2. \A k \in DOMAIN map : map[k].left # 0
  BY DEF OutOf
<1>3. \A k \in DOMAIN map : map[k] \in T
  BY <1>1
<1>4. \A k \in DOMAIN map : [map[k] EXCEPT !.left = @ - 1] \in T
  BY <1>2, <1>3 DEF Ages
<1>5. Aged(map) \in [DOMAIN map -> T]
  BY <1>4 DEF Aged
<1>6. DOMAIN Aged(map) = DOMAIN map
  BY DEF Aged
<1>7. \A k \in DOMAIN map : Aged(map)[k] = [map[k] EXCEPT !.left = @ - 1]
  BY DEF Aged
<1>8. Aged(map) \in Maps(S, T)
  BY <1>1, <1>5, MapKnown
<1> QED
  BY <1>2, <1>3, <1>6, <1>7, <1>8

LEMMA TickKeeps ==
  ASSUME cache \in Caches, Tick
  PROVE  /\ cache' \in Caches
         /\ DOMAIN cache'.srv = DOMAIN cache.srv
         /\ \A i \in DOMAIN cache.srv : cache'.srv[i].host = cache.srv[i].host
         /\ DOMAIN cache'.a = DOMAIN cache.a
         /\ \A h \in DOMAIN cache.a : cache'.a[h].address = cache.a[h].address
         /\ Rows(cache') = Rows(cache)
<1> DEFINE p == Aged(cache.ptr)
           s == Aged(cache.srv)
           t == Aged(cache.txt)
           a == Aged(cache.a)
           d == [cache EXCEPT !.ptr = p, !.srv = s, !.txt = t, !.a = a]
<1>1. cache' = d
  BY DEF Tick
<1>2. OutOf(cache.ptr) = {} /\ OutOf(cache.srv) = {} /\ OutOf(cache.txt) = {}
      /\ OutOf(cache.a) = {}
  BY DEF Tick, AnyExpired
<1>3. p \in Pointers /\ DOMAIN p = DOMAIN cache.ptr
  <2>1. cache.ptr \in Maps(Instance, PointerEntry) /\ IsFiniteSet(DOMAIN cache.ptr)
    BY CacheFields DEF Pointers
  <2>2. p \in Maps(Instance, PointerEntry) /\ DOMAIN p = DOMAIN cache.ptr
    BY <1>2, <2>1, AgedKeeps, RecordAged
  <2> QED
    BY <2>1, <2>2 DEF Pointers
<1>4. /\ s \in Services /\ DOMAIN s = DOMAIN cache.srv
      /\ \A i \in DOMAIN cache.srv :
           s[i].host = cache.srv[i].host /\ s[i].port = cache.srv[i].port
  <2>1. cache.srv \in Maps(Instance, ServiceEntry)
    BY CacheFields DEF Services
  <2>2. /\ s \in Maps(Instance, ServiceEntry) /\ DOMAIN s = DOMAIN cache.srv
        /\ \A i \in DOMAIN cache.srv :
             /\ cache.srv[i] \in ServiceEntry /\ cache.srv[i].left # 0
             /\ s[i] = [cache.srv[i] EXCEPT !.left = @ - 1]
    BY <1>2, <2>1, AgedKeeps, RecordAged
  <2> QED
    BY <2>2, RecordAged DEF Services
<1>5. /\ t \in Texts /\ DOMAIN t = DOMAIN cache.txt
      /\ \A i \in DOMAIN cache.txt : t[i].name = cache.txt[i].name
  <2>1. cache.txt \in Maps(Instance, TextEntry)
    BY CacheFields DEF Texts
  <2>2. /\ t \in Maps(Instance, TextEntry) /\ DOMAIN t = DOMAIN cache.txt
        /\ \A i \in DOMAIN cache.txt :
             /\ cache.txt[i] \in TextEntry /\ cache.txt[i].left # 0
             /\ t[i] = [cache.txt[i] EXCEPT !.left = @ - 1]
    BY <1>2, <2>1, AgedKeeps, RecordAged
  <2> QED
    BY <2>2, RecordAged DEF Texts
<1>6. /\ a \in Addresses /\ DOMAIN a = DOMAIN cache.a
      /\ \A h \in DOMAIN cache.a : a[h].address = cache.a[h].address
  <2>1. cache.a \in Maps(Host, AddressEntry)
    BY CacheFields DEF Addresses
  <2>2. /\ a \in Maps(Host, AddressEntry) /\ DOMAIN a = DOMAIN cache.a
        /\ \A h \in DOMAIN cache.a :
             /\ cache.a[h] \in AddressEntry /\ cache.a[h].left # 0
             /\ a[h] = [cache.a[h] EXCEPT !.left = @ - 1]
    BY <1>2, <2>1, AgedKeeps, RecordAged
  <2> QED
    BY <2>2, RecordAged DEF Addresses
<1> HIDE DEF p, s, t, a
<1>7. d.ptr = p /\ d.srv = s /\ d.txt = t /\ d.a = a /\ d.seen = cache.seen
  BY CacheFields
<1>8. d \in Caches
  BY <1>3, <1>4, <1>5, <1>6, <1>7, CacheFields DEF Caches
<1> HIDE DEF d
<1>9. Rows(d) = Rows(cache)
  BY <1>3, <1>4, <1>5, <1>6, <1>7, RowsSame
<1> QED
  BY <1>1, <1>4, <1>6, <1>7, <1>8, <1>9

LEMMA RowsTyped ==
  ASSUME NEW c \in Caches
  PROVE  \A row \in Rows(c) :
           row \in [instance : Instance, name : Name \cup {NoName},
                    address : Address, port : Nat]
<1>1. /\ IsMap(c.ptr, Instance, PointerEntry) /\ IsMap(c.srv, Instance, ServiceEntry)
      /\ IsMap(c.txt, Instance, TextEntry) /\ IsMap(c.a, Host, AddressEntry)
  BY CacheFields, MapMembers DEF Pointers, Services, Texts, Addresses
<1>2. ASSUME NEW i, Resolved(c, i), i \in DOMAIN c.ptr
      PROVE  Row(c, i) \in [instance : Instance, name : Name \cup {NoName},
                            address : Address, port : Nat]
  <2>1. i \in Instance
    BY <1>1, <1>2 DEF IsMap
  <2>2. c.srv[i] \in ServiceEntry /\ c.srv[i].host \in DOMAIN c.a
    BY <1>1, <1>2 DEF IsMap, Resolved
  <2>3. c.a[c.srv[i].host] \in AddressEntry
    BY <1>1, <2>2 DEF IsMap
  <2>4. i \in DOMAIN c.txt => c.txt[i] \in TextEntry
    BY <1>1 DEF IsMap
  <2> QED
    BY <2>1, <2>2, <2>3, <2>4 DEF Row, ServiceEntry, AddressEntry, TextEntry
<1> QED
  BY <1>2 DEF Rows

LEMMA RowsFrom ==
  ASSUME NEW c, NEW row \in Rows(c)
  PROVE  \E i \in DOMAIN c.ptr : Resolved(c, i) /\ row = Row(c, i) /\ row.instance = i
<1>1. PICK i \in DOMAIN c.ptr : Resolved(c, i) /\ row = Row(c, i)
  BY DEF Rows
<1>2. row.instance = i
  BY <1>1 DEF Row
<1> QED
  BY <1>1, <1>2

\* Of the instances of one device, one has a row.
LEMMA RowsDiffer ==
  ASSUME NEW c \in Caches, NEW row \in Rows(c), NEW other \in Rows(c),
         SameDevice(row, other)
  PROVE  row = other
<1>1. PICK i \in DOMAIN c.ptr : /\ Resolved(c, i) /\ row = Row(c, i)
                                /\ \A j \in DOMAIN c.ptr : Resolved(c, j) =>
                                     (SameDevice(row, Row(c, j)) => <<j, i>> \notin c.seen)
  BY DEF Rows
<1>2. PICK j \in DOMAIN c.ptr : /\ Resolved(c, j) /\ other = Row(c, j)
                                /\ \A k \in DOMAIN c.ptr : Resolved(c, k) =>
                                     (SameDevice(other, Row(c, k)) => <<k, j>> \notin c.seen)
  BY DEF Rows
<1>3. <<j, i>> \notin c.seen /\ <<i, j>> \notin c.seen
  BY <1>1, <1>2 DEF SameDevice
<1>4. i = j
  BY <1>3, CacheFields DEF IsOrder
<1> QED
  BY <1>1, <1>2, <1>4

\* Every device has one: of its instances, one that no other was seen after.
LEMMA RowsComplete ==
  ASSUME NEW c \in Caches, NEW i \in DOMAIN c.ptr, Resolved(c, i)
  PROVE  \E row \in Rows(c) :
           SameDevice(row, Row(c, i)) /\ <<i, row.instance>> \notin c.seen
<1> DEFINE same == {j \in DOMAIN c.ptr : Resolved(c, j) /\ SameDevice(Row(c, j), Row(c, i))}
<1>1. same \in SUBSET (DOMAIN c.ptr) /\ i \in same
  BY DEF SameDevice
<1>2. IsFiniteSet(DOMAIN c.ptr) /\ IsOrder(c.seen, DOMAIN c.ptr)
  BY CacheFields DEF Pointers
<1>3. Orders(c.seen, DOMAIN c.ptr)
  BY <1>2 DEF IsOrder, Orders
<1> HIDE DEF same
<1>4. PICK j \in same : \A k \in same : <<k, j>> \notin c.seen
  BY <1>1, <1>2, <1>3, MaximalMember
<1>5. /\ j \in DOMAIN c.ptr /\ Resolved(c, j) /\ SameDevice(Row(c, j), Row(c, i))
      /\ Row(c, j).instance = j
  BY DEF same, Row
<1>6. \A k \in DOMAIN c.ptr : Resolved(c, k) /\ SameDevice(Row(c, j), Row(c, k)) => k \in same
  BY <1>5 DEF same, SameDevice
<1>7. Row(c, j) \in Rows(c)
  BY <1>4, <1>5, <1>6 DEF Rows
<1> QED
  BY <1>1, <1>4, <1>5, <1>7

LEMMA MissingTyped ==
  ASSUME NEW c \in Caches
  PROVE  Missing(c) \in SUBSET ({"SRV", "TXT"} \X Instance \cup {"A"} \X Host)
<1>1. IsMap(c.ptr, Instance, PointerEntry) /\ IsMap(c.srv, Instance, ServiceEntry)
  BY CacheFields, MapMembers DEF Pointers, Services
<1>2. \A i \in DOMAIN c.ptr : i \in Instance
  BY <1>1 DEF IsMap
<1>3. \A i \in DOMAIN c.srv : c.srv[i].host \in Host
  BY <1>1 DEF IsMap, ServiceEntry
<1> QED
  BY <1>2, <1>3 DEF Missing

LEMMA EmptyKeeps == Empty \in Caches /\ Rows(Empty) = {}
<1>1. /\ <<>> \in Pointers /\ <<>> \in Services /\ <<>> \in Texts /\ <<>> \in Addresses
      /\ DOMAIN <<>> = {}
  <2>1. DOMAIN <<>> = {} /\ \A T : <<>> \in [{} -> T]
    OBVIOUS
  <2>2. \A S, T : <<>> \in Maps(S, T)
    BY <2>1 DEF Maps
  <2>3. IsFiniteSet(DOMAIN <<>>)
    BY <2>1, FS_EmptySet
  <2> QED
    BY <2>1, <2>2, <2>3 DEF Pointers, Services, Texts, Addresses
<1>2. Empty \in Caches
  BY <1>1 DEF Empty, Caches, IsOrder
<1>3. Rows(Empty) = {}
  BY <1>1 DEF Empty, Rows
<1> QED
  BY <1>2, <1>3

\* What a map holds after a change was there before or is the new record.
LEMMA DropReads ==
  ASSUME NEW map, NEW keys, NEW i \in DOMAIN Drop(map, keys)
  PROVE  i \in DOMAIN map /\ i \notin keys /\ Drop(map, keys)[i] = map[i]
BY DEF Drop

LEMMA PutReads ==
  ASSUME NEW map, NEW k, NEW v, NEW i \in DOMAIN Put(map, k, v)
  PROVE  \/ i = k /\ Put(map, k, v)[i] = v
         \/ i # k /\ i \in DOMAIN map /\ Put(map, k, v)[i] = map[i]
BY DEF Put

-----------------------------------------------------------------------------
(* This phone's own records. *)

OwnRight(c) ==
  /\ Own \in DOMAIN c.srv => c.srv[Own].host = Own
  /\ Own \in DOMAIN c.a => c.a[Own].address = localIp

RightRecord(r) ==
  /\ r.type = "SRV" /\ r.instance = Own => r.host = Own
  /\ r.type = "A" /\ r.host = Own => r.address = localIp

LEMMA ApplyRight ==
  ASSUME NEW c \in Caches, OwnRight(c), NEW r \in Record, RightRecord(r)
  PROVE  OwnRight(Apply(c, r))
<1>1. CASE r.type = "PTR"
  <2>1. r \in [type : {"PTR"}, instance : Instance, ttl : Nat] /\ Apply(c, r) = Pointer(c, r)
    BY <1>1 DEF Record, Apply
  <2>2. /\ Pointer(c, r).a = c.a
        /\ Pointer(c, r).srv = c.srv \/ Pointer(c, r).srv = Drop(c.srv, {r.instance})
    BY <2>1, PointerKeeps
  <2>3. Own \in DOMAIN Apply(c, r).srv =>
          Own \in DOMAIN c.srv /\ Apply(c, r).srv[Own] = c.srv[Own]
    BY <2>1, <2>2, DropReads
  <2> QED
    BY <2>1, <2>2, <2>3 DEF OwnRight
<1>2. CASE r.type = "SRV"
  <2>1. /\ r \in [type : {"SRV"}, instance : Instance, host : Host, port : Nat, ttl : Nat]
        /\ Apply(c, r) = Service(c, r)
    BY <1>2 DEF Record, Apply
  <2> DEFINE v == [left |-> Expiry(r.ttl), host |-> r.host, port |-> r.port]
  <2>2. /\ Service(c, r).a = c.a
        /\ \/ Service(c, r).srv = Drop(c.srv, {r.instance})
           \/ Service(c, r).srv = Put(c.srv, r.instance, v)
    BY <2>1, ServiceKeeps
  <2>3. v.host = r.host
    OBVIOUS
  <2> HIDE DEF v
  <2>4. CASE Service(c, r).srv = Drop(c.srv, {r.instance})
    <3>1. Own \in DOMAIN Apply(c, r).srv =>
            Own \in DOMAIN c.srv /\ Apply(c, r).srv[Own] = c.srv[Own]
      BY <2>1, <2>4, DropReads
    <3> QED
      BY <2>1, <2>2, <3>1 DEF OwnRight
  <2>5. CASE Service(c, r).srv = Put(c.srv, r.instance, v)
    <3>1. Own \in DOMAIN Apply(c, r).srv =>
            \/ Own = r.instance /\ Apply(c, r).srv[Own] = v
            \/ Own \in DOMAIN c.srv /\ Apply(c, r).srv[Own] = c.srv[Own]
      BY <2>1, <2>5, PutReads
    <3>2. r.instance = Own => v.host = Own
      BY <1>2, <2>3 DEF RightRecord
    <3> QED
      BY <2>1, <2>2, <3>1, <3>2 DEF OwnRight
  <2> QED
    BY <2>2, <2>4, <2>5
<1>3. CASE r.type = "TXT"
  <2>1. /\ r \in [type : {"TXT"}, instance : Instance, name : Name, ttl : Nat]
        /\ Apply(c, r) = Text(c, r)
    BY <1>3 DEF Record, Apply
  <2> QED
    BY <2>1, TextKeeps DEF OwnRight
<1>4. CASE r.type = "A"
  <2>1. /\ r \in [type : {"A"}, host : Host, address : Address, ttl : Nat]
        /\ Apply(c, r) = HostAddress(c, r)
    BY <1>4 DEF Record, Apply
  <2> DEFINE v == [left |-> Expiry(r.ttl), address |-> Chosen(c, r)]
  <2>2. /\ HostAddress(c, r).srv = c.srv
        /\ \/ HostAddress(c, r).a = Drop(c.a, {r.host})
           \/ HostAddress(c, r).a = Put(c.a, r.host, v)
    BY <2>1, HostAddressKeeps
  <2>3. v.address = Chosen(c, r)
    OBVIOUS
  <2> HIDE DEF v
  <2>4. CASE HostAddress(c, r).a = Drop(c.a, {r.host})
    <3>1. Own \in DOMAIN Apply(c, r).a =>
            Own \in DOMAIN c.a /\ Apply(c, r).a[Own] = c.a[Own]
      BY <2>1, <2>4, DropReads
    <3> QED
      BY <2>1, <2>2, <3>1 DEF OwnRight
  <2>5. CASE HostAddress(c, r).a = Put(c.a, r.host, v)
    <3>1. r.host = Own => Chosen(c, r) = localIp
      BY <1>4 DEF OwnRight, RightRecord, Chosen
    <3>2. Own \in DOMAIN Apply(c, r).a =>
            \/ Own = r.host /\ Apply(c, r).a[Own] = v
            \/ Own \in DOMAIN c.a /\ Apply(c, r).a[Own] = c.a[Own]
      BY <2>1, <2>5, PutReads
    <3> QED
      BY <2>1, <2>2, <2>3, <3>1, <3>2 DEF OwnRight
  <2> QED
    BY <2>2, <2>4, <2>5
<1>5. CASE r.type \notin {"PTR", "SRV", "TXT", "A"}
  BY <1>5 DEF Apply
<1> QED
  BY <1>1, <1>2, <1>3, <1>4, <1>5

LEMMA AppliedRight ==
  ASSUME NEW c \in Caches, OwnRight(c),
         NEW records \in Seq({r \in Record : RightRecord(r)})
  PROVE  OwnRight(Applied(c, records))
<1> DEFINE C == {d \in Caches : OwnRight(d)}
           R == {r \in Record : RightRecord(r)}
<1>1. \A d \in C, r \in R : Apply(d, r) \in C
  BY ApplyKeeps, ApplyRight
<1>2. C \in SUBSET Caches /\ R \in SUBSET Record /\ c \in C
  OBVIOUS
<1>3. records \in Seq(R)
  OBVIOUS
<1>4. \A d : d \in C => OwnRight(d)
  OBVIOUS
<1> HIDE DEF C, R
<1>5. Applied(c, records) \in C
  BY <1>1, <1>2, <1>3, AppliedWithin
<1> QED
  BY <1>4, <1>5

LEMMA OwnNotListed ==
  ASSUME NEW c, OwnRight(c), NEW row \in Rows(c) PROVE row.instance # Own
BY RowsFrom DEF OwnRight, Resolved

-----------------------------------------------------------------------------
(* Packets: none has more than one A record, and that one is its last. *)

Plain == {r \in Record : r.type # "A"}
HostRecord == [type : {"A"}, host : Host, address : Address, ttl : Nat]

OneAddress(records) ==
  \/ records \in Seq(Plain)
  \/ \E front \in Seq(Plain), r \in HostRecord : records = Append(front, r)

LEMMA Things == Host = Instance /\ Name = Instance
BY PresenceAssumption

LEMMA PacketForms ==
  ASSUME NEW i \in Instance, NEW name \in Instance, NEW ip \in Address, NEW ttl \in Nat
  PROVE  /\ PointerTo(i, ttl) \in Seq(Record) /\ OneAddress(PointerTo(i, ttl))
         /\ Details(i, name, ip, ttl) \in Seq(Record) /\ OneAddress(Details(i, name, ip, ttl))
         /\ Announcement(i, name, ip, ttl) \in Seq(Record)
         /\ OneAddress(Announcement(i, name, ip, ttl))
<1> DEFINE p == [type |-> "PTR", instance |-> i, ttl |-> ttl]
           s == [type |-> "SRV", instance |-> i, host |-> i, port |-> 1, ttl |-> ttl]
           t == [type |-> "TXT", instance |-> i, name |-> name, ttl |-> ttl]
           a == [type |-> "A", host |-> i, address |-> ip, ttl |-> ttl]
<1>1. /\ p \in [type : {"PTR"}, instance : Instance, ttl : Nat]
      /\ s \in [type : {"SRV"}, instance : Instance, host : Host, port : Nat, ttl : Nat]
      /\ t \in [type : {"TXT"}, instance : Instance, name : Name, ttl : Nat]
      /\ a \in HostRecord
  BY Things DEF HostRecord
<1>2. p.type = "PTR" /\ s.type = "SRV" /\ t.type = "TXT"
  OBVIOUS
<1>3. /\ PointerTo(i, ttl) = <<p>>
      /\ Details(i, name, ip, ttl) = <<s, t, a>>
      /\ Announcement(i, name, ip, ttl) = <<p>> \o <<s, t, a>>
  BY DEF PointerTo, Details, Announcement
<1> HIDE DEF p, s, t, a
<1>4. p \in Plain /\ s \in Plain /\ t \in Plain /\ a \in Record
  BY <1>1, <1>2 DEF Plain, Record, HostRecord
<1>5. Plain \subseteq Record
  BY DEF Plain
<1>6. <<p>> \in Seq(Plain) /\ <<s, t>> \in Seq(Plain) /\ <<p, s, t>> \in Seq(Plain)
  BY <1>4
<1>7. <<s, t, a>> = Append(<<s, t>>, a) /\ <<p>> \o <<s, t, a>> = Append(<<p, s, t>>, a)
  OBVIOUS
<1>8. <<p>> \in Seq(Record) /\ <<s, t, a>> \in Seq(Record) /\ <<p>> \o <<s, t, a>> \in Seq(Record)
  BY <1>4, <1>5
<1>9. /\ OneAddress(<<p>>) /\ OneAddress(<<s, t, a>>)
      /\ OneAddress(<<p>> \o <<s, t, a>>)
  BY <1>1, <1>6, <1>7 DEF OneAddress
<1> QED
  BY <1>3, <1>8, <1>9

LEMMA PacketRight ==
  ASSUME NEW i \in Instance, NEW name \in Instance, NEW ip \in Address, NEW ttl \in Nat,
         i # Own \/ ip = localIp
  PROVE  /\ PointerTo(i, ttl) \in Seq({r \in Record : RightRecord(r)})
         /\ Details(i, name, ip, ttl) \in Seq({r \in Record : RightRecord(r)})
         /\ Announcement(i, name, ip, ttl) \in Seq({r \in Record : RightRecord(r)})
<1> DEFINE p == [type |-> "PTR", instance |-> i, ttl |-> ttl]
           s == [type |-> "SRV", instance |-> i, host |-> i, port |-> 1, ttl |-> ttl]
           t == [type |-> "TXT", instance |-> i, name |-> name, ttl |-> ttl]
           a == [type |-> "A", host |-> i, address |-> ip, ttl |-> ttl]
           R == {r \in Record : RightRecord(r)}
<1>1. /\ p \in [type : {"PTR"}, instance : Instance, ttl : Nat]
      /\ s \in [type : {"SRV"}, instance : Instance, host : Host, port : Nat, ttl : Nat]
      /\ t \in [type : {"TXT"}, instance : Instance, name : Name, ttl : Nat]
      /\ a \in [type : {"A"}, host : Host, address : Address, ttl : Nat]
  BY Things
<1>2. RightRecord(p) /\ RightRecord(s) /\ RightRecord(t) /\ RightRecord(a)
  BY DEF RightRecord
<1>3. /\ PointerTo(i, ttl) = <<p>>
      /\ Details(i, name, ip, ttl) = <<s, t, a>>
      /\ Announcement(i, name, ip, ttl) = <<p>> \o <<s, t, a>>
  BY DEF PointerTo, Details, Announcement
<1> HIDE DEF p, s, t, a
<1>4. p \in R /\ s \in R /\ t \in R /\ a \in R
  BY <1>1, <1>2 DEF Record
<1> HIDE DEF R
<1>5. <<p>> \in Seq(R) /\ <<s, t, a>> \in Seq(R) /\ <<p>> \o <<s, t, a>> \in Seq(R)
  BY <1>4
<1> QED
  BY <1>3, <1>5 DEF R

LEMMA OtherForm ==
  LET records == <<[type |-> "other"]>>
  IN  /\ records \in Seq(Record) /\ OneAddress(records)
      /\ records \in Seq({r \in Record : RightRecord(r)})
      /\ \A c : c \in Caches => Applied(c, records) = c
<1> DEFINE o == [type |-> "other"]
           R == {r \in Record : RightRecord(r)}
<1>1. o \in [type : {"other"}] /\ o.type = "other"
  OBVIOUS
<1> HIDE DEF o
<1>2. o \in Record /\ o \in Plain /\ o \in R
  BY <1>1 DEF Record, Plain, RightRecord
<1>3. <<o>> \in Seq(Record) /\ OneAddress(<<o>>)
  BY <1>2 DEF OneAddress
<1>4. <<o>> \in Seq(R)
  <2> HIDE DEF R
  <2> QED
    BY <1>2
<1>5. ASSUME NEW c \in Caches PROVE Applied(c, <<o>>) = c
  <2>1. <<o>> = Append(<<>>, o) /\ <<>> \in Seq(Record)
    OBVIOUS
  <2>2. Applied(c, Append(<<>>, o)) = Apply(Applied(c, <<>>), o)
    BY <1>2, <2>1, AppliedLast
  <2>3. Apply(c, o) = c
    BY <1>1 DEF Apply
  <2> QED
    BY <2>1, <2>2, <2>3, AppliedNone
<1> QED
  BY <1>3, <1>4, <1>5 DEF o

LEMMA PlainKeepsAddresses ==
  ASSUME NEW c \in Caches, NEW records \in Seq(Plain)
  PROVE  Applied(c, records).a = c.a
<1> DEFINE C == {d \in Caches : d.a = c.a}
<1>1. ASSUME NEW d \in C, NEW r \in Plain PROVE Apply(d, r) \in C
  <2>1. d \in Caches /\ d.a = c.a /\ r \in Record /\ r.type # "A"
    BY DEF Plain
  <2>2. Apply(d, r) \in Caches
    BY <2>1, ApplyKeeps
  <2>3. Apply(d, r).a = d.a
    BY <2>1, PointerKeeps, ServiceKeeps, TextKeeps DEF Apply, Record
  <2> QED
    BY <2>1, <2>2, <2>3
<1>2. C \in SUBSET Caches /\ c \in C /\ \A d \in C : d.a = c.a
  OBVIOUS
<1>3. Plain \in SUBSET Record
  BY DEF Plain
<1> HIDE DEF C
<1>4. Applied(c, records) \in C
  BY <1>1, <1>2, <1>3, AppliedWithin
<1> QED
  BY <1>2, <1>4

LEMMA AddressLast ==
  ASSUME NEW c \in Caches, NEW front \in Seq(Plain), NEW r \in HostRecord
  PROVE  Applied(c, Append(front, r)).a
           = IF r.ttl = 0 THEN Drop(c.a, {r.host})
             ELSE Put(c.a, r.host, [left |-> Expiry(r.ttl), address |-> Chosen(c, r)])
<1> DEFINE d == Applied(c, front)
<1>1. front \in Seq(Record)
  BY DEF Plain
<1>2. d \in Caches /\ d.a = c.a
  BY <1>1, AppliedKeeps, PlainKeepsAddresses
<1>3. r \in Record /\ r.type = "A"
  BY DEF HostRecord, Record
<1>4. Applied(c, Append(front, r)) = Apply(d, r)
  BY <1>1, <1>3, AppliedLast
<1> HIDE DEF d
<1>5. Apply(d, r) = HostAddress(d, r)
  BY <1>3 DEF Apply
<1>6. Chosen(d, r) = Chosen(c, r)
  BY <1>2 DEF Chosen
<1>7. HostAddress(d, r).a
        = IF r.ttl = 0 THEN Drop(d.a, {r.host})
          ELSE Put(d.a, r.host, [left |-> Expiry(r.ttl), address |-> Chosen(d, r)])
  <2>1. r \in [type : {"A"}, host : Host, address : Address, ttl : Nat]
    BY DEF HostRecord
  <2> QED
    BY <1>2, <2>1, HostAddressKeeps
<1> QED
  BY <1>2, <1>4, <1>5, <1>6, <1>7

LEMMA NearOfPlain ==
  ASSUME NEW records \in Seq(Plain) PROVE NearIn(records) = {}
<1>1. \A n \in DOMAIN records : records[n].type # "A"
  BY DEF Plain
<1> QED
  BY <1>1 DEF NearIn

LEMMA NearOfLast ==
  ASSUME NEW front \in Seq(Plain), NEW r \in HostRecord, NEW h \in NearIn(Append(front, r))
  PROVE  h = r.host /\ r.ttl > 0 /\ Local(r.address)
<1> DEFINE records == Append(front, r)
<1>1. /\ DOMAIN records = 1..(Len(front) + 1) /\ Len(front) \in Nat
      /\ records[Len(front) + 1] = r
      /\ \A n \in 1..Len(front) : records[n] = front[n]
  OBVIOUS
<1>2. \A n \in 1..Len(front) : front[n].type # "A"
  BY DEF Plain
<1> HIDE DEF records
<1>3. PICK n \in DOMAIN records : /\ records[n].type = "A" /\ records[n].ttl > 0
                                  /\ Local(records[n].address) /\ h = records[n].host
  BY DEF NearIn, records
<1>4. n = Len(front) + 1
  BY <1>1, <1>2, <1>3
<1> QED
  BY <1>1, <1>3, <1>4

-----------------------------------------------------------------------------
(* Addresses on the own network stay. *)

Reachable == near \subseteq DOMAIN cache.a /\ ReachableKept

LEMMA HearReachable ==
  ASSUME cache \in Caches, Reachable, NEW records \in Seq(Record), OneAddress(records),
         NEW cut, Hear(records, cut)
  PROVE  Reachable'
<1> DEFINE known == Expired(cache)
<1>1. known \in Caches /\ known.a = Drop(cache.a, OutOf(cache.a))
  BY ExpiredKeeps
<1>2. /\ cache' = Applied(known, records)
      /\ near' = ((near \ OutOf(cache.a)) \cup NearIn(records)) \cap DOMAIN cache'.a
      /\ localIp' = localIp
  BY DEF Hear, Receive
<1> HIDE DEF known
<1>3. ASSUME NEW h \in near \ OutOf(cache.a)
      PROVE  h \in DOMAIN known.a /\ Local(known.a[h].address)
  BY <1>1, <1>3 DEF Reachable, ReachableKept, Drop
<1>4. ASSUME NEW h \in near' PROVE Local(cache'.a[h].address)
  <2>1. h \in DOMAIN cache'.a /\ (h \in near \ OutOf(cache.a) \/ h \in NearIn(records))
    BY <1>2
  <2>2. CASE records \in Seq(Plain)
    <3>1. cache'.a = known.a /\ h \in near \ OutOf(cache.a)
      BY <1>1, <1>2, <2>1, <2>2, PlainKeepsAddresses, NearOfPlain
    <3> QED
      BY <1>3, <3>1
  <2>3. CASE \E front \in Seq(Plain), r \in HostRecord : records = Append(front, r)
    <3>1. PICK front \in Seq(Plain), r \in HostRecord : records = Append(front, r)
      BY <2>3
    <3> DEFINE v == [left |-> Expiry(r.ttl), address |-> Chosen(known, r)]
    <3>2. cache'.a = IF r.ttl = 0 THEN Drop(known.a, {r.host}) ELSE Put(known.a, r.host, v)
      BY <1>1, <1>2, <3>1, AddressLast
    <3>3. v.address = Chosen(known, r)
      OBVIOUS
    <3> HIDE DEF v
    <3>4. h \in NearIn(records) => h = r.host /\ r.ttl > 0 /\ Local(r.address)
      BY <3>1, NearOfLast
    <3>5. CASE r.ttl = 0
      <4>1. h \in near \ OutOf(cache.a)
        BY <2>1, <3>4, <3>5
      <4>2. cache'.a[h] = known.a[h]
        BY <2>1, <3>2, <3>5, DropReads
      <4> QED
        BY <1>3, <4>1, <4>2
    <3>6. CASE r.ttl # 0 /\ h # r.host
      <4>1. h \in near \ OutOf(cache.a)
        BY <2>1, <3>4, <3>6
      <4>2. cache'.a[h] = known.a[h]
        BY <2>1, <3>2, <3>6, PutReads
      <4> QED
        BY <1>3, <4>1, <4>2
    <3>7. CASE r.ttl # 0 /\ h = r.host
      <4>1. cache'.a[h] = v
        BY <2>1, <3>2, <3>7, PutReads
      <4>2. Local(Chosen(known, r))
        <5>1. CASE h \in near \ OutOf(cache.a)
          BY <1>3, <3>7, <5>1 DEF Chosen
        <5>2. CASE h \in NearIn(records)
          BY <3>4, <5>2 DEF Chosen
        <5> QED
          BY <2>1, <5>1, <5>2
      <4> QED
        BY <3>3, <4>1, <4>2
    <3> QED
      BY <3>5, <3>6, <3>7
  <2> QED
    BY <2>2, <2>3 DEF OneAddress
<1>5. \A h \in near' : localIp' # NoAddress /\ <<cache'.a[h].address, localIp'>> \in Near
  BY <1>2, <1>4 DEF Local
<1>6. near' \subseteq DOMAIN cache'.a
  BY <1>2
<1> QED
  BY <1>5, <1>6 DEF Reachable, ReachableKept, Local

-----------------------------------------------------------------------------
(* The list. *)

LEMMA RowsNext ==
  ASSUME localIp' = localIp PROVE Rows(cache)' = Rows(cache')
<1>1. \A i : Resolved(cache, i)' <=> Resolved(cache', i)
  BY DEF Resolved
<1>2. \A i : Row(cache, i)' = Row(cache', i)
  BY DEF Row
<1> QED
  BY <1>1, <1>2 DEF Rows, Resolved, Row, SameDevice

LEMMA RightNext ==
  ASSUME localIp' = localIp PROVE OwnRight(cache)' <=> OwnRight(cache')
BY DEF OwnRight

LEMMA ExpiredChanges ==
  ASSUME NEW c, AnyExpired(c) PROVE Expired(c) # c
<1>1. ASSUME NEW map, NEW keys, Drop(map, keys) = map, keys \cap DOMAIN map # {} PROVE FALSE
  BY <1>1 DEF Drop
<1>2. SUFFICES ASSUME Expired(c) = c PROVE FALSE
  OBVIOUS
<1>3. /\ Drop(c.ptr, OutOf(c.ptr)) = c.ptr
      /\ Drop(c.srv, OutOf(c.srv) \cup OutOf(c.ptr)) = c.srv
      /\ Drop(c.txt, OutOf(c.txt) \cup OutOf(c.ptr)) = c.txt
      /\ Drop(c.a, OutOf(c.a)) = c.a
  BY <1>2 DEF Expired
<1>4. \/ OutOf(c.ptr) \cap DOMAIN c.ptr # {} \/ OutOf(c.srv) \cap DOMAIN c.srv # {}
      \/ OutOf(c.txt) \cap DOMAIN c.txt # {} \/ OutOf(c.a) \cap DOMAIN c.a # {}
  BY DEF AnyExpired, OutOf
<1> QED
  BY <1>1, <1>3, <1>4

Others == {r \in Record : r.type = "other"}

LEMMA OthersChangeNothing ==
  ASSUME NEW c \in Caches, NEW records \in Seq(Others) PROVE Applied(c, records) = c
<1>1. \A d \in {c}, r \in Others : Apply(d, r) \in {c}
  BY DEF Others, Apply
<1>2. {c} \in SUBSET Caches /\ Others \in SUBSET Record
  BY DEF Others
<1>3. Applied(c, records) \in {c}
  BY <1>1, <1>2, AppliedWithin
<1> QED
  BY <1>3

LEMMA OthersOnly ==
  ASSUME NEW records \in Seq(Record), ~ \E n \in DOMAIN records : records[n].type # "other"
  PROVE  records \in Seq(Others)
<1>1. \A n \in 1..Len(records) : records[n] \in Others
  BY DEF Others
<1> QED
  BY <1>1

RowType == [instance : Instance, name : Name \cup {NoName}, address : Address, port : Nat]

ListedOnce == \A row, other \in published : SameDevice(row, other) => row = other

\* What a packet may change.
ListInv ==
  /\ cache \in Caches
  /\ \A row \in published : row \in RowType
  /\ ListedOnce
  /\ throttled \in SUBSET ({"SRV", "TXT"} \X Instance \cup {"A"} \X Host)
  /\ localIp \in Address
  /\ Reachable
  /\ ListCurrent
  /\ ~ownMoved => OwnRight(cache) /\ SelfHidden

LEMMA HearKeeps ==
  ASSUME ListInv, NEW records \in Seq(Record), OneAddress(records),
         ~ownMoved => records \in Seq({r \in Record : RightRecord(r)}),
         NEW cut \in BOOLEAN, cut => records \in Seq(Others),
         Hear(records, cut), ownMoved' = ownMoved
  PROVE  ListInv' /\ (unpublished \in BOOLEAN => unpublished' \in BOOLEAN)
<1> DEFINE known == Expired(cache)
           after == Applied(known, records)
           changed == AnyExpired(cache) \/ \E n \in DOMAIN records : records[n].type # "other"
<1>1. cache \in Caches /\ known \in Caches
  BY ExpiredKeeps DEF ListInv
<1>2. /\ cache' = after
      /\ published' = IF changed /\ ~cut THEN Rows(after) ELSE published
      /\ throttled' = IF cut THEN throttled ELSE throttled \cup Missing(after)
      /\ localIp' = localIp
      /\ unpublished' = IF cut /\ cache' # cache THEN TRUE
                        ELSE IF changed THEN FALSE ELSE unpublished
  BY DEF Hear, Receive
<1>3. after \in Caches
  BY <1>1, AppliedKeeps
<1>4. cut => after = known
  BY <1>1, OthersChangeNothing
<1>5. ~changed => after = cache
  BY <1>1, ExpiredSame, OthersOnly, OthersChangeNothing
<1>6. AnyExpired(cache) => known # cache
  BY ExpiredChanges
<1>7. cut => ~ \E n \in DOMAIN records : records[n].type # "other"
  BY DEF Others
<1> HIDE DEF known, after
<1>8. \A row \in published' : row \in RowType
  BY <1>2, <1>3, RowsTyped DEF ListInv, RowType
<1>9. throttled' \in SUBSET ({"SRV", "TXT"} \X Instance \cup {"A"} \X Host)
  BY <1>2, <1>3, MissingTyped DEF ListInv
<1>10. ListedOnce'
  <2>1. \A row, other \in Rows(after) : SameDevice(row, other) => row = other
    BY <1>3, RowsDiffer
  <2>2. \A row, other \in published' : SameDevice(row, other) => row = other
    BY <1>2, <2>1 DEF ListInv, ListedOnce
  <2> QED
    BY <2>2 DEF ListedOnce, SameDevice
<1>11. Reachable'
  BY <1>1, HearReachable DEF ListInv
<1>12. ~unpublished' => published' = Rows(cache')
  <2>1. CASE changed
    BY <1>2, <1>4, <1>6, <1>7, <2>1
  <2>2. CASE ~changed
    BY <1>2, <1>5, <2>2 DEF ListInv, ListCurrent
  <2> HIDE DEF changed
  <2> QED
    BY <2>1, <2>2
<1>13. ListCurrent'
  BY <1>2, <1>12, RowsNext DEF ListCurrent
<1>14. ~ownMoved => OwnRight(cache')
  <2> SUFFICES ASSUME ~ownMoved PROVE OwnRight(after)
    BY <1>2
  <2>1. OwnRight(known)
    BY <1>1, ExpiredKeeps, DropReads DEF ListInv, OwnRight, known
  <2> QED
    BY <1>1, <2>1, AppliedRight DEF after
<1>15. ~ownMoved' => OwnRight(cache)' /\ SelfHidden'
  <2> SUFFICES ASSUME ~ownMoved PROVE OwnRight(cache)' /\ \A row \in published' : row.instance # Own
    BY DEF SelfHidden
  <2>1. OwnRight(cache') /\ OwnRight(cache)'
    BY <1>2, <1>14, RightNext
  <2>2. \A row \in Rows(cache') : row.instance # Own
    BY <2>1, OwnNotListed
  <2>3. \A row \in published : row.instance # Own
    BY DEF ListInv, SelfHidden
  <2> QED
    BY <1>2, <2>1, <2>2, <2>3
<1>16. unpublished \in BOOLEAN => unpublished' \in BOOLEAN
  BY <1>2
<1>17. cache' \in Caches /\ localIp' \in Address
  BY <1>2, <1>3 DEF ListInv
<1> QED
  BY <1>8, <1>9, <1>11, <1>13, <1>15, <1>16, <1>17, <1>10 DEF ListInv

\* While the worker runs, the time since its last announcement and the time to
\* the next one are within one steady interval.
Scheduled ==
  /\ left \in 0..Burst /\ due \in 0..Steady /\ silence \in Nat
  /\ running => silence + due <= Steady

LEMMA Bounds == Burst \in Nat /\ Burst > 0 /\ Steady \in Nat /\ Steady > 0
BY PresenceAssumption

LEMMA ScheduleStep ==
  ASSUME Scheduled, [PresenceNext]_vars PROVE Scheduled'
<1> USE Bounds DEF Scheduled
<1>1. CASE \/ Peer!Launch \/ Peer!Heartbeat \/ Peer!Search \/ Peer!BleWake
           \/ Peer!NewAddress \/ Peer!Stop
  BY <1>1 DEF Peer!Launch, Peer!Heartbeat, Peer!Search, Peer!BleWake, Peer!NewAddress,
              Peer!Stop, Peer!ArmBurst, Peer!Reschedule
<1>2. CASE Peer!Tick
  BY <1>2 DEF Peer!Tick
<1>3. CASE UNCHANGED announceVars
  BY <1>3 DEF announceVars
<1>4. \/ Peer!Launch \/ Peer!Heartbeat \/ Peer!Search \/ Peer!BleWake
      \/ Peer!NewAddress \/ Peer!Stop \/ Peer!Tick \/ UNCHANGED announceVars
  BY DEF PresenceNext, PeerStep, Heartbeat, OtherAnnouncement, Goodbye, Launch, PeerMoves,
         PeerAnswers, PeerPointer, OwnHeartbeat, OtherPacket, Publication, Query, OwnMove,
         Time, vars, peerVars
<1> QED
  BY <1>1, <1>2, <1>3, <1>4


-----------------------------------------------------------------------------
(* The invariant. *)

PeerInv ==
  /\ running \in BOOLEAN /\ woken \in BOOLEAN
  /\ self \in Identity \cup {0} /\ (running => self \in Identity)
  /\ address \in Address

HistoryInv ==
  /\ moves \in 0..Moves
  /\ ownMoved \in BOOLEAN /\ ownHeard \in BOOLEAN /\ unpublished \in BOOLEAN

PresenceInv == ListInv /\ PeerInv /\ HistoryInv /\ Scheduled

LEMMA Named == Identity # {} => PeerName \in Identity
<1> SUFFICES ASSUME Identity # {} PROVE PeerName \in Identity
  OBVIOUS
<1>1. Identity \in SUBSET Nat
  BY CacheAssumption DEF Identity
<1>2. \E i \in Identity : \A j \in Identity : i <= j
  BY <1>1, LeastMember
<1> QED
  BY <1>2, Zenon DEF PeerName

LEMMA Identities == Identity \subseteq Instance /\ Own \notin Identity /\ Own \in Instance
BY PresenceAssumption DEF Identity

LEMMA LoseKeeps ==
  ASSUME ListInv, HistoryInv, Lose, ownMoved' = ownMoved
  PROVE  ListInv' /\ unpublished' \in BOOLEAN
BY DEF ListInv, HistoryInv, Lose, cacheVars, Reachable, ReachableKept, Local, ListCurrent, Rows,
       Resolved, Row, OwnRight, SelfHidden, ListedOnce, SameDevice

\* A packet of the peer, or of another responder about it.
LEMMA PeerPacket ==
  ASSUME ListInv, HistoryInv, NEW i \in Identity, NEW ip \in Address, NEW ttl \in WireTtl,
         NEW records, records \in {PointerTo(i, ttl), Details(i, PeerName, ip, ttl),
                                   Announcement(i, PeerName, ip, ttl)},
         Hear(records, FALSE), ownMoved' = ownMoved
  PROVE  ListInv' /\ unpublished' \in BOOLEAN
<1>1. i \in Instance /\ PeerName \in Instance /\ i # Own /\ ttl \in Nat
  BY Named, Identities, PresenceAssumption
<1>2. records \in Seq(Record) /\ OneAddress(records)
  BY <1>1, PacketForms
<1>3. records \in Seq({r \in Record : RightRecord(r)})
  BY <1>1, PacketRight
<1> QED
  BY <1>2, <1>3, HearKeeps DEF HistoryInv

LEMMA SentKeeps ==
  ASSUME ListInv, HistoryInv, running, PeerInv, Sent, ownMoved' = ownMoved
  PROVE  ListInv' /\ unpublished' \in BOOLEAN
<1>1. self \in Identity /\ address \in Address
  BY DEF PeerInv
<1>2. CASE Lose
  BY <1>2, LoseKeeps
<1>3. CASE \E ttl \in WireTtl : Hear(Announcement(self, PeerName, address, ttl), FALSE)
  BY <1>1, <1>3, PeerPacket
<1> QED
  BY <1>2, <1>3 DEF Sent

LEMMA PeerStepKeeps ==
  ASSUME PresenceInv, PeerStep
  PROVE  ListInv' /\ PeerInv' /\ HistoryInv'
<1> USE DEF PresenceInv
<1>1. CASE Heartbeat
  <2>1. running /\ running' = running /\ woken' = woken
    BY <1>1 DEF Heartbeat, Peer!Heartbeat
  <2>2. UNCHANGED <<self, address, moves, ownMoved, ownHeard>>
    BY <1>1 DEF Heartbeat
  <2>3. ListInv' /\ unpublished' \in BOOLEAN
    BY <1>1, <2>1, <2>2, SentKeeps DEF Heartbeat
  <2> QED
    BY <2>1, <2>2, <2>3 DEF PeerInv, HistoryInv
<1>2. CASE OtherAnnouncement
  <2>1. running /\ running' = running /\ woken' \in BOOLEAN
    BY <1>2 DEF OtherAnnouncement, Peer!Search, Peer!BleWake, PeerInv
  <2>2. UNCHANGED <<self, address, moves, ownMoved, ownHeard>>
    BY <1>2 DEF OtherAnnouncement
  <2>3. ListInv' /\ unpublished' \in BOOLEAN
    BY <1>2, <2>1, <2>2, SentKeeps DEF OtherAnnouncement
  <2> QED
    BY <2>1, <2>2, <2>3 DEF PeerInv, HistoryInv
<1>3. CASE Goodbye
  <2>1. running /\ running' = FALSE /\ woken' = FALSE
    BY <1>3 DEF Goodbye, Peer!Stop
  <2>2. UNCHANGED <<self, address, moves, ownMoved, ownHeard>>
    BY <1>3 DEF Goodbye
  <2>3. ListInv' /\ unpublished' \in BOOLEAN
    BY <1>3, <2>1, <2>2, SentKeeps DEF Goodbye
  <2> QED
    BY <2>1, <2>2, <2>3 DEF PeerInv, HistoryInv
<1>4. CASE Launch
  <2>1. running' = TRUE /\ woken' = woken /\ self' \in Identity
    BY <1>4 DEF Launch, Peer!Launch
  <2>2. UNCHANGED <<address, moves, ownMoved, ownHeard>>
    BY <1>4 DEF Launch
  <2>3. address \in Address
    BY DEF PeerInv
  <2>4. ListInv' /\ unpublished' \in BOOLEAN
    <3>1. CASE Lose
      BY <2>2, <3>1, LoseKeeps
    <3>2. CASE \E ttl \in WireTtl : Hear(Announcement(self', PeerName, address, ttl), FALSE)
      BY <2>1, <2>2, <2>3, <3>2, PeerPacket
    <3> QED
      BY <1>4, <3>1, <3>2 DEF Launch
  <2> QED
    BY <2>1, <2>2, <2>4 DEF PeerInv, HistoryInv
<1>5. CASE PeerMoves
  <2>1. /\ UNCHANGED <<running, woken, self, ownMoved, ownHeard>>
        /\ address' \in Address /\ moves < Moves /\ moves' = moves + 1
    BY <1>5 DEF PeerMoves, Peer!NewAddress
  <2>2. ListInv' /\ unpublished' \in BOOLEAN
    BY <1>5, <2>1, LoseKeeps DEF PeerMoves
  <2>3. moves' \in 0..Moves
    BY <2>1, PresenceAssumption DEF HistoryInv
  <2> QED
    BY <2>1, <2>2, <2>3 DEF PeerInv, HistoryInv
<1>6. CASE PeerAnswers
  <2>1. running /\ UNCHANGED <<peerVars, moves, ownMoved, ownHeard>>
    BY <1>6 DEF PeerAnswers
  <2>2. self \in Identity /\ address \in Address
    BY <2>1 DEF PeerInv
  <2>3. ListInv' /\ unpublished' \in BOOLEAN
    BY <1>6, <2>1, <2>2, PeerPacket DEF PeerAnswers
  <2> QED
    BY <2>1, <2>3 DEF PeerInv, HistoryInv, peerVars, announceVars
<1>7. CASE PeerPointer
  <2>1. running /\ UNCHANGED <<peerVars, moves, ownMoved, ownHeard>>
    BY <1>7 DEF PeerPointer
  <2>2. self \in Identity /\ address \in Address
    BY <2>1 DEF PeerInv
  <2>3. ListInv' /\ unpublished' \in BOOLEAN
    BY <1>7, <2>1, <2>2, PeerPacket DEF PeerPointer
  <2> QED
    BY <2>1, <2>3 DEF PeerInv, HistoryInv, peerVars, announceVars
<1> QED
  BY <1>1, <1>2, <1>3, <1>4, <1>5, <1>6, <1>7 DEF PeerStep

\* What only lists the cache anew, or only lets time pass, keeps what is right.
LEMMA ListedAnew ==
  ASSUME ListInv, cache' \in Caches, localIp' = localIp, throttled' = throttled,
         published' = Rows(cache'), unpublished' = FALSE,
         near' = near \cap DOMAIN cache'.a, ownMoved' = ownMoved,
         \A h \in DOMAIN cache'.a : h \in DOMAIN cache.a /\ cache'.a[h] = cache.a[h],
         OwnRight(cache) => OwnRight(cache')
  PROVE  ListInv'
<1>1. \A row \in published' : row \in RowType
  BY RowsTyped DEF RowType
<1>2. ListedOnce'
  BY RowsDiffer DEF ListedOnce, SameDevice
<1>3. near' \subseteq DOMAIN cache'.a
  OBVIOUS
<1>4. \A h \in near' : Local(cache'.a[h].address)
  BY DEF ListInv, Reachable, ReachableKept
<1>5. Reachable'
  BY <1>3, <1>4 DEF Reachable, ReachableKept, Local
<1>6. ListCurrent'
  BY RowsNext DEF ListCurrent
<1>7. ~ownMoved' => OwnRight(cache)' /\ SelfHidden'
  <2> SUFFICES ASSUME ~ownMoved
               PROVE  OwnRight(cache)' /\ \A row \in published' : row.instance # Own
    BY DEF SelfHidden
  <2>1. OwnRight(cache') /\ OwnRight(cache)'
    BY RightNext DEF ListInv
  <2> QED
    BY <2>1, OwnNotListed
<1> QED
  BY <1>1, <1>5, <1>6, <1>7, <1>2 DEF ListInv

LEMMA PublicationKeeps ==
  ASSUME ListInv, Publication PROVE ListInv'
<1>1. /\ near' = near \cap DOMAIN cache'.a /\ unpublished' = FALSE
      /\ ownMoved' = ownMoved
  BY DEF Publication
<1>2. cache \in Caches
  BY DEF ListInv
<1>3. CASE Turn
  <2>1. /\ cache' = Expired(cache) /\ published' = Rows(cache') /\ localIp' = localIp
        /\ throttled' = throttled
    BY <1>3 DEF Turn
  <2>2. \A h \in DOMAIN cache'.a : h \in DOMAIN cache.a /\ cache'.a[h] = cache.a[h]
    BY <1>2, <2>1, ExpiredKeeps, DropReads
  <2>3. OwnRight(cache) => OwnRight(cache')
    BY <1>2, <2>1, <2>2, ExpiredKeeps DEF OwnRight
  <2>4. cache' \in Caches
    BY <1>2, <2>1, ExpiredKeeps
  <2> QED
    BY <1>1, <2>1, <2>2, <2>3, <2>4, ListedAnew
<1>4. CASE StartScan
  <2>1. /\ cache' = Empty /\ published' = {} /\ localIp' = localIp /\ throttled' = throttled
    BY <1>4 DEF StartScan
  <2>2. DOMAIN Empty.a = {} /\ DOMAIN Empty.srv = {}
    BY DEF Empty
  <2>3. OwnRight(cache')
    BY <2>1, <2>2 DEF OwnRight
  <2> QED
    BY <1>1, <2>1, <2>2, <2>3, EmptyKeeps, ListedAnew
<1> QED
  BY <1>3, <1>4 DEF Publication

LEMMA TimeKeeps ==
  ASSUME ListInv, Time PROVE ListInv'
<1>1. /\ UNCHANGED <<published, localIp, unpublished, near, ownMoved>> /\ throttled' = {}
      /\ Tick
  BY DEF Time, Tick
<1>2. cache \in Caches
  BY DEF ListInv
<1>3. /\ cache' \in Caches
      /\ DOMAIN cache'.srv = DOMAIN cache.srv
      /\ \A i \in DOMAIN cache.srv : cache'.srv[i].host = cache.srv[i].host
      /\ DOMAIN cache'.a = DOMAIN cache.a
      /\ \A h \in DOMAIN cache.a : cache'.a[h].address = cache.a[h].address
      /\ Rows(cache') = Rows(cache)
  BY <1>1, <1>2, TickKeeps
<1>4. Reachable'
  BY <1>1, <1>3 DEF ListInv, Reachable, ReachableKept, Local
<1>5. ListCurrent'
  BY <1>1, <1>3, RowsNext DEF ListInv, ListCurrent
<1>6. OwnRight(cache) => OwnRight(cache)'
  BY <1>1, <1>3 DEF OwnRight
<1> QED
  BY <1>1, <1>3, <1>4, <1>5, <1>6 DEF ListInv, SelfHidden, ListedOnce, SameDevice

LEMMA OwnMoveKeeps ==
  ASSUME ListInv, OwnMove PROVE ListInv'
<1>1. /\ UNCHANGED <<cache, published, throttled>> /\ localIp' \in Address
      /\ ownMoved' = TRUE /\ unpublished' = TRUE /\ near' = {}
  BY DEF OwnMove, RefreshLocalIp
<1>2. Reachable' /\ ListCurrent'
  BY <1>1 DEF Reachable, ReachableKept, ListCurrent
<1> QED
  BY <1>1, <1>2 DEF ListInv, ListedOnce, SameDevice

LEMMA QueryKeeps ==
  ASSUME ListInv, Query PROVE ListInv'
<1>1. /\ UNCHANGED <<cache, published, localIp, unpublished, near, ownMoved>>
      /\ throttled' = throttled \cup Missing(cache)
  BY DEF Query, AskAgain
<1>2. throttled' \in SUBSET ({"SRV", "TXT"} \X Instance \cup {"A"} \X Host)
  BY <1>1, MissingTyped DEF ListInv
<1>3. ListCurrent'
  BY <1>1, RowsNext DEF ListInv, ListCurrent
<1>4. Reachable'
  BY <1>1 DEF ListInv, Reachable, ReachableKept, Local
<1>5. OwnRight(cache) => OwnRight(cache)'
  BY <1>1 DEF OwnRight
<1> QED
  BY <1>1, <1>2, <1>3, <1>4, <1>5 DEF ListInv, SelfHidden, ListedOnce, SameDevice

LEMMA OwnHeartbeatKeeps ==
  ASSUME ListInv, HistoryInv, OwnHeartbeat PROVE ListInv' /\ unpublished' \in BOOLEAN
<1>1. PICK ttl \in OwnTtl : Hear(Announcement(Own, Own, localIp, ttl), FALSE)
  BY DEF OwnHeartbeat
<1>2. ttl \in Nat /\ Own \in Instance /\ localIp \in Address /\ ownMoved' = ownMoved
  BY PresenceAssumption DEF ListInv, OwnHeartbeat
<1>3. /\ Announcement(Own, Own, localIp, ttl) \in Seq(Record)
      /\ OneAddress(Announcement(Own, Own, localIp, ttl))
  BY <1>2, PacketForms
<1>4. Announcement(Own, Own, localIp, ttl) \in Seq({r \in Record : RightRecord(r)})
  BY <1>2, PacketRight
<1> QED
  BY <1>1, <1>2, <1>3, <1>4, HearKeeps DEF HistoryInv

LEMMA OtherPacketKeeps ==
  ASSUME ListInv, HistoryInv, OtherPacket PROVE ListInv' /\ unpublished' \in BOOLEAN
<1> DEFINE records == <<[type |-> "other"]>>
<1>1. PICK cut \in BOOLEAN : Hear(records, cut)
  BY DEF OtherPacket
<1>2. records \in Seq(Others)
  <2>1. [type |-> "other"] \in Others
    BY DEF Others, Record
  <2> QED
    BY <2>1
<1>3. /\ records \in Seq(Record) /\ OneAddress(records)
      /\ records \in Seq({r \in Record : RightRecord(r)})
  BY OtherForm
<1>4. ownMoved' = ownMoved
  BY DEF OtherPacket
<1> HIDE DEF records
<1> QED
  BY <1>1, <1>2, <1>3, <1>4, HearKeeps DEF HistoryInv

LEMMA StepKeeps ==
  ASSUME PresenceInv, [PresenceNext]_vars PROVE PresenceInv'
<1>1. Scheduled'
  BY ScheduleStep DEF PresenceInv
<1>2. CASE PeerStep
  BY <1>1, <1>2, PeerStepKeeps DEF PresenceInv
<1>3. CASE OwnHeartbeat
  <2>1. UNCHANGED <<peerVars, moves, ownMoved>> /\ ownHeard' = TRUE
    BY <1>3 DEF OwnHeartbeat
  <2> QED
    BY <1>1, <1>3, <2>1, OwnHeartbeatKeeps
    DEF PresenceInv, PeerInv, HistoryInv, peerVars, announceVars
<1>4. CASE OtherPacket
  <2>1. UNCHANGED <<peerVars, moves, ownMoved, ownHeard>>
    BY <1>4 DEF OtherPacket
  <2> QED
    BY <1>1, <1>4, <2>1, OtherPacketKeeps
    DEF PresenceInv, PeerInv, HistoryInv, peerVars, announceVars
<1>5. CASE Publication
  <2>1. UNCHANGED <<peerVars, moves, ownMoved, ownHeard>> /\ unpublished' = FALSE
    BY <1>5 DEF Publication
  <2> QED
    BY <1>1, <1>5, <2>1, PublicationKeeps
    DEF PresenceInv, PeerInv, HistoryInv, peerVars, announceVars
<1>6. CASE Query
  <2>1. UNCHANGED <<peerVars, moves, ownMoved, ownHeard, unpublished>>
    BY <1>6 DEF Query
  <2> QED
    BY <1>1, <1>6, <2>1, QueryKeeps
    DEF PresenceInv, PeerInv, HistoryInv, peerVars, announceVars
<1>7. CASE OwnMove
  <2>1. /\ UNCHANGED <<peerVars, ownHeard>> /\ ownMoved' = TRUE /\ unpublished' = TRUE
        /\ moves < Moves /\ moves' = moves + 1
    BY <1>7 DEF OwnMove
  <2>2. moves' \in 0..Moves
    BY <2>1, PresenceAssumption DEF PresenceInv, HistoryInv
  <2> QED
    BY <1>1, <1>7, <2>1, <2>2, OwnMoveKeeps
    DEF PresenceInv, PeerInv, HistoryInv, peerVars, announceVars
<1>8. CASE Time
  <2>1. /\ UNCHANGED <<self, address, moves, ownMoved, unpublished>>
        /\ ownHeard' = FALSE /\ running' = running /\ woken' = FALSE
    BY <1>8 DEF Time, Peer!Tick
  <2> QED
    BY <1>1, <1>8, <2>1, TimeKeeps DEF PresenceInv, PeerInv, HistoryInv
<1>9. CASE UNCHANGED vars
  <2>1. Lose /\ UNCHANGED <<peerVars, moves, ownMoved, ownHeard>>
    BY <1>9 DEF vars, Lose
  <2> QED
    BY <1>1, <2>1, LoseKeeps DEF PresenceInv, PeerInv, HistoryInv, peerVars, announceVars
<1> QED
  BY <1>2, <1>3, <1>4, <1>5, <1>6, <1>7, <1>8, <1>9 DEF PresenceNext

LEMMA StartsRight ==
  ASSUME PresenceInit PROVE PresenceInv
<1>1. /\ cache = Empty /\ published = {} /\ throttled = {} /\ localIp \in Address
      /\ near = {} /\ ownMoved = FALSE /\ unpublished = FALSE
  BY PresenceAssumption DEF PresenceInit, Init
<1>2. DOMAIN Empty.a = {} /\ DOMAIN Empty.srv = {}
  BY DEF Empty
<1>3. OwnRight(cache)
  BY <1>1, <1>2 DEF OwnRight
<1>4. Reachable /\ ListCurrent
  BY <1>1, EmptyKeeps DEF Reachable, ReachableKept, ListCurrent
<1>5. ListInv
  BY <1>1, <1>3, <1>4, EmptyKeeps DEF ListInv, SelfHidden, ListedOnce
<1>6. PeerInv
  BY DEF PresenceInit, Peer!Init, PeerInv
<1>7. Moves \in Nat /\ moves = 0 /\ ownHeard = FALSE
  BY PresenceAssumption DEF PresenceInit
<1>8. moves \in 0..Moves
  BY <1>7
<1>9. HistoryInv
  BY <1>1, <1>7, <1>8 DEF HistoryInv
<1>10. Scheduled
  BY Bounds DEF PresenceInit, Peer!Init, Scheduled
<1> QED
  BY <1>5, <1>6, <1>9, <1>10 DEF PresenceInv

LEMMA PresenceHolds == PresenceSpec => []PresenceInv
BY StartsRight, StepKeeps, PTL DEF PresenceSpec

\* The types.
LEMMA InvTyped ==
  ASSUME PresenceInv PROVE PresenceTypeOK
<1>1. cache \in Caches
  BY DEF PresenceInv, ListInv
<1>2. /\ IsMap(cache.ptr, Instance, [left : Kept])
      /\ IsMap(cache.srv, Instance, [left : Kept, host : Host, port : Nat])
      /\ IsMap(cache.txt, Instance, [left : Kept, name : Name])
      /\ IsMap(cache.a, Host, [left : Kept, address : Address])
  BY <1>1, CacheFields, MapMembers
  DEF Pointers, Services, Texts, Addresses, PointerEntry, ServiceEntry, TextEntry, AddressEntry
<1>3. IsOrder(cache.seen, DOMAIN cache.ptr)
  BY <1>1, CacheFields
<1>4. TypeOK
  BY <1>2, <1>3 DEF TypeOK, PresenceInv, ListInv, RowType
<1>5. Peer!TypeOK
  BY DEF PresenceInv, PeerInv, Scheduled, Peer!TypeOK
<1>6. near \in SUBSET Host
  BY <1>2 DEF PresenceInv, ListInv, Reachable, IsMap
<1> QED
  BY <1>4, <1>5, <1>6 DEF PresenceTypeOK, PresenceInv, PeerInv, HistoryInv

-----------------------------------------------------------------------------
(* What holds of every behaviour. *)

\* Bursts, searches, Bluetooth wakes and new addresses re-arm one deadline in any
\* order and as often as they like; a running worker is never silent for longer
\* than the steady interval.
THEOREM AnnouncesSteadily == PresenceSpec => []HeartbeatKept
<1>1. PresenceInit => Scheduled
  BY Bounds DEF PresenceInit, Peer!Init, Scheduled
<1>2. Scheduled /\ [PresenceNext]_vars => Scheduled'
  BY ScheduleStep
<1>3. Scheduled => HeartbeatKept
  BY Bounds DEF Scheduled, HeartbeatKept
<1> QED
  BY <1>1, <1>2, <1>3, PTL DEF PresenceSpec

\* Every variable keeps its type, whatever packets come and whatever is kept how long:
\* the maps hold what their records may hold, and of two known instances one was seen
\* after the other.
THEOREM DevicesTyped == PresenceSpec => []PresenceTypeOK
<1>1. PresenceInv => PresenceTypeOK
  BY InvTyped
<1> QED
  BY <1>1, PresenceHolds, PTL

\* The list shows what the cache holds: parseDiscoveryPacket, expireDiscoveryRecords and
\* a new search publish whenever they change it, except for a packet left half way.
THEOREM ListFollowsCache == PresenceSpec => []ListCurrent
<1>1. PresenceInv => ListCurrent
  BY DEF PresenceInv, ListInv
<1> QED
  BY <1>1, PresenceHolds, PTL

\* This phone's announcements come back to it, and it never lists itself before its
\* address changes: no packet of another renames its host or moves it.
THEOREM NeverListsItself == PresenceSpec => []SelfHidden
<1>1. PresenceInv => SelfHidden
  <2> SUFFICES ASSUME PresenceInv, ~ownMoved PROVE SelfHidden
    BY DEF SelfHidden
  <2> QED
    BY DEF PresenceInv, ListInv
<1> QED
  BY <1>1, PresenceHolds, PTL

\* A host that was heard of on the own network keeps an address there until it expires
\* or is taken back.
THEOREM LocalAddressKept == PresenceSpec => []ReachableKept
<1>1. PresenceInv => ReachableKept
  BY DEF PresenceInv, ListInv, Reachable
<1> QED
  BY <1>1, PresenceHolds, PTL

\* publishDiscoveredDevices gives a device one row, however many instances it has left
\* behind in the cache by starting anew.
THEOREM DeviceListedOnce ==
  PresenceSpec => [](\A row, other \in published : SameDevice(row, other) => row = other)
<1>1. PresenceInv => \A row, other \in published : SameDevice(row, other) => row = other
  BY DEF PresenceInv, ListInv, ListedOnce
<1> QED
  BY <1>1, PresenceHolds, PTL

\* ... and it drops none: a device that the cache can resolve has a row, made of the
\* instance that was seen last.  It is so because "seen after" orders the instances: a
\* cycle would leave a device without a row.
THEOREM EveryDeviceListed ==
  PresenceSpec =>
    [](~unpublished =>
         \A i \in DOMAIN cache.ptr : Resolved(cache, i) =>
           \E row \in published :
             SameDevice(row, Row(cache, i)) /\ <<i, row.instance>> \notin cache.seen)
<1>1. PresenceInv => (~unpublished =>
         \A i \in DOMAIN cache.ptr : Resolved(cache, i) =>
           \E row \in published :
             SameDevice(row, Row(cache, i)) /\ <<i, row.instance>> \notin cache.seen)
  BY RowsComplete DEF PresenceInv, ListInv, ListCurrent
<1> QED
  BY <1>1, PresenceHolds, PTL
=============================================================================
