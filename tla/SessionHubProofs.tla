-------------------------- MODULE SessionHubProofs --------------------------
(***************************************************************************)
(* Proofs about SessionHub, for any number of clients, hubs, slots and     *)
(* units, and every limit on what is kept and how far a client may lag.    *)
(***************************************************************************)
EXTENDS SessionHub, Integers, SequenceTheorems, FiniteSetTheorems, TLAPS

\* What the names and limits must be: the starter is not one that attaches,
\* a hub is not a client, "none" is neither and 0 is no slot.
HubConstants ==
  /\ Starter \notin Joiners /\ Hubs \cap Clients = {}
  /\ "none" \notin Hubs /\ "none" \notin Clients /\ 0 \notin Gens
  /\ KEPT \in Nat /\ MAX_BEHIND \in Nat /\ READ_ON_BELOW \in Nat
  /\ \A l \in Loads : l.out \in Nat

-----------------------------------------------------------------------------
(* The inductive invariant. *)

Kinds == {"out", "behind", "exit", "gone"}
Events == [kind : Kinds, n : Nat, counted : {0, 1}]
Places == {"idle", "handshake", "install", "join", "alone", "open", "in", "left", "failed",
           "remove", "gone"}
ActorRecords == [at : Places, slot : Gens \cup {0}, held : BOOLEAN, ask : Nat]
HubRecords == [at : {"none", "wait", "read", "teardown", "closed"}, start : Nat, end : Nat,
               clients : SUBSET Clients, owner : Clients \cup {"none"},
               done : BOOLEAN, conn : BOOLEAN]
ClientRecords == [hub : Hubs \cup {"none"}, queue : Seq(Events), queued : Int, got : Nat,
                  told : {"none", "behind", "exit", "gone"}]

Types ==
  /\ load \in Loads /\ written \in Nat /\ exited \in BOOLEAN
  /\ map \in Gens \cup {0} /\ hubOf \in [Gens -> Hubs \cup {"none"}]
  /\ actor \in [Actors -> ActorRecords] /\ hub \in [Hubs -> HubRecords]
  /\ client \in [Clients -> ClientRecords]

\* Who holds a slot holds the one in the map, and is alone; a hub is in no
\* other slot.
Locks ==
  /\ \A a \in Actors : actor[a].held => actor[a].slot = map /\ map # 0
  /\ \A a, b \in Actors : actor[a].held /\ actor[b].held => a = b
  /\ \A g \in Gens : hubOf[g] # "none" => map = g

\* While a start has no hub yet there is none at all, nobody opens one, and
\* who attaches knows of the start.
Starts ==
  /\ readers = IF actor[Starter].at \in {"handshake", "install"} THEN {Starter} ELSE {}
  /\ \A c \in Joiners : actor[c].at = "open" => writer = {c} /\ readers = {}
  /\ \A c \in Joiners : actor[c].at # "idle" => Started
  /\ actor[Starter].at \in {"idle", "handshake", "install"} =>
       \A h \in Hubs : hub[h].at = "none"

\* A connection belongs to the hub in the slot of the map.
Conns ==
  /\ \A h \in Hubs : hub[h].conn <=> hub[h].at \in {"wait", "read", "teardown"}
  /\ \A h \in Hubs : hub[h].conn => map # 0 /\ hubOf[map] = h
  /\ \A h \in Hubs : actor[h].at # "idle" => hub[h].at = "closed"

LockInv == Types /\ Locks /\ Starts /\ Conns

\* A client on a hub is up to its end, nothing but output queued for it.
OnHub(h, c) ==
  /\ actor[c].at = "in" /\ client[c].hub = h /\ client[c].told = "none"
  /\ \A i \in 1 .. Len(client[c].queue) : client[c].queue[i].kind = "out"
  /\ client[c].got + Len(client[c].queue) = hub[h].end
Reached ==
  /\ \A h \in Hubs : \A c \in hub[h].clients : OnHub(h, c)
  /\ \A h \in Hubs : hub[h].start <= hub[h].end /\ hub[h].end <= written
  /\ \A a \in Actors : actor[a].ask <= written

\* The exit is told once the session has exited, and its output ends then.
ExitTold ==
  \A c \in Clients :
    /\ client[c].told = "exit" => exited
    /\ \A i \in 1 .. Len(client[c].queue) : client[c].queue[i].kind = "exit" => exited

QueueInv == Reached /\ ExitTold /\ Gapless

HubInv == LockInv /\ QueueInv /\ OwnerIsThere

-----------------------------------------------------------------------------
(* The locks. *)

\* An actor that only moves on keeps its slot.
LEMMA MovesOn ==
  ASSUME Types, NEW a \in Actors, NEW at \in Places, At(a, at)
  PROVE  /\ actor' \in [Actors -> ActorRecords]
         /\ actor'[a].at = at /\ actor'[a].slot = actor[a].slot
         /\ actor'[a].held = actor[a].held /\ actor'[a].ask = actor[a].ask
         /\ \A b \in Actors : b # a => actor'[b] = actor[b]
BY DEF Types, At, ActorRecords

\* The actors: the starter and the joiners are apart, and the hubs from both.
LEMMA WhoIsWho ==
  ASSUME HubConstants
  PROVE  /\ Starter \in Actors /\ Joiners \subseteq Actors /\ Hubs \subseteq Actors
         /\ Starter \in Clients /\ Joiners \subseteq Clients /\ Clients \subseteq Actors
         /\ Starter \notin Joiners /\ Starter \notin Hubs
         /\ \A c \in Clients : c \notin Hubs
         /\ "none" \notin Hubs /\ "none" \notin Clients /\ 0 \notin Gens
BY DEF HubConstants, Actors, Clients

\* An actor that lets its slot go empties the map if it leaves no hub.
LEMMA LetsGo ==
  ASSUME HubConstants, Types, Locks, NEW a \in Actors, actor[a].held, NEW at \in Places,
         NEW hs \in [Gens -> Hubs \cup {"none"}],
         \A g \in Gens : g # map => hs[g] = hubOf[g],
         Lets(a, at, hs)
  PROVE  /\ actor' \in [Actors -> ActorRecords] /\ map' \in Gens \cup {0}
         /\ hubOf' \in [Gens -> Hubs \cup {"none"}]
         /\ actor'[a].at = at /\ actor'[a].ask = actor[a].ask /\ actor'[a].held = FALSE
         /\ \A b \in Actors : b # a => actor'[b] = actor[b] /\ ~actor[b].held
         /\ hubOf' = hs /\ map \in Gens
         /\ (hs[map] = "none" => map' = 0) /\ (hs[map] # "none" => map' = map)
         /\ Locks'
<1>1. /\ actor' = [actor EXCEPT ![a] = [Idle EXCEPT !.at = at, !.ask = actor[a].ask]]
      /\ hubOf' = hs /\ map' = Emptied(actor[a].slot, hs)
  BY DEF Lets
<1>2. actor[a].slot = map /\ map # 0 /\ map \in Gens
  BY DEF Locks, Types
<1>3. map' = IF hs[map] = "none" THEN 0 ELSE map
  BY <1>1, <1>2 DEF Emptied
<1>4. /\ actor' \in [Actors -> ActorRecords] /\ actor'[a].at = at
      /\ actor'[a].ask = actor[a].ask /\ actor'[a].held = FALSE
      /\ \A b \in Actors : b # a => actor'[b] = actor[b]
  BY <1>1 DEF Types, ActorRecords, Idle
<1>5. \A b \in Actors : b # a => ~actor[b].held
  BY DEF Locks
<1>6. \A b \in Actors : ~actor'[b].held
  BY <1>4, <1>5
<1>7. ASSUME NEW g \in Gens, hs[g] # "none" PROVE map' = g
  <2>1. g = map
    BY <1>7 DEF Locks
  <2> QED
    BY <1>3, <1>7, <2>1
<1>8. Locks'
  BY <1>1, <1>6, <1>7 DEF Locks
<1> QED
  BY <1>1, <1>2, <1>3, <1>4, <1>5, <1>8

\* Picking a slot, and getting it or going round.
LEMMA SlotsLock ==
  ASSUME HubConstants, LockInv, NEW a \in Actors, pickSlot(a) \/ lock_slot(a)
  PROVE  LockInv'
<1>1. CASE pickSlot(a)
  <2>1. PICK g \in Gens : /\ g = IF map # 0 THEN map ELSE CHOOSE n \in Gens : n \notin Used
                          /\ map' = g /\ actor' = [actor EXCEPT ![a].slot = g]
    BY <1>1 DEF pickSlot
  <2>2. /\ UNCHANGED <<load, written, exited, hubOf, readers, writer, hub, client>>
        /\ map # 0 => map' = map
    BY <1>1, <2>1 DEF pickSlot
  <2>3. /\ actor' \in [Actors -> ActorRecords]
        /\ \A b \in Actors : /\ actor'[b].at = actor[b].at /\ actor'[b].held = actor[b].held
                             /\ b # a => actor'[b] = actor[b]
        /\ actor'[a].slot = g
    BY <2>1, ZenonT(40) DEF LockInv, Types, ActorRecords
  <2>4. Types'
    BY <2>1, <2>2, <2>3 DEF LockInv, Types
  <2>5. Locks'
    BY <2>1, <2>2, <2>3 DEF LockInv, Types, Locks, HubConstants
  <2>6. Starts'
    BY <2>2, <2>3, WhoIsWho DEF LockInv, Starts, Started
  <2>7. Conns'
    BY <2>2, <2>3, WhoIsWho DEF LockInv, Conns
  <2> QED
    BY <2>4, <2>5, <2>6, <2>7 DEF LockInv
<1>2. CASE lock_slot(a)
  <2>1. /\ UNCHANGED <<load, written, exited, map, hubOf, readers, writer, hub, client>>
        /\ actor[a].slot # 0 /\ ~actor[a].held
        /\ \A b \in Actors : actor[b].held => actor[b].slot # actor[a].slot
        /\ actor' = IF map = actor[a].slot THEN [actor EXCEPT ![a].held = TRUE]
                                           ELSE [actor EXCEPT ![a].slot = 0]
    BY <1>2 DEF lock_slot, StillCurrent
  <2>2. /\ actor' \in [Actors -> ActorRecords]
        /\ \A b \in Actors : /\ actor'[b].at = actor[b].at
                             /\ b # a => actor'[b] = actor[b]
    BY <2>1 DEF LockInv, Types, ActorRecords
  <2>3. actor'[a].held => actor'[a].slot = actor[a].slot /\ map = actor[a].slot
    BY <2>1 DEF LockInv, Types, ActorRecords
  <2>4. Types'
    BY <2>1, <2>2 DEF LockInv, Types
  <2>5. Locks'
    BY <2>1, <2>2, <2>3 DEF LockInv, Types, Locks
  <2>6. Starts'
    BY <2>1, <2>2, WhoIsWho DEF LockInv, Starts, Started
  <2>7. Conns'
    BY <2>1, <2>2, WhoIsWho DEF LockInv, Conns
  <2> QED
    BY <2>4, <2>5, <2>6, <2>7 DEF LockInv
<1> QED
  BY <1>1, <1>2

\* A step of the readers and the clients leaves the locks and the slots alone,
\* and a hub keeps its connection until its teardown.
LEMMA LocksKept ==
  ASSUME HubConstants, LockInv, Types',
         UNCHANGED <<map, hubOf, readers, writer>>,
         \A b \in Actors : /\ actor'[b].held = actor[b].held /\ actor'[b].slot = actor[b].slot
                           /\ actor'[b].at # actor[b].at =>
                                \/ b \in Clients /\ actor[b].at = "in" /\ actor'[b].at = "left"
                                \/ b \in Hubs /\ hub'[b].at = "closed",
         \A h \in Hubs : /\ hub'[h].conn <=> hub'[h].at \in {"wait", "read", "teardown"}
                         /\ hub'[h].conn => hub[h].conn
                         /\ hub[h].at = "none" => hub'[h].at = "none"
                         /\ hub[h].at = "closed" => hub'[h].at = "closed"
  PROVE  LockInv'
<1>1. Locks'
  BY DEF LockInv, Locks
<1>2. \A c \in Clients : actor'[c].at = actor[c].at \/ (actor[c].at = "in" /\ actor'[c].at = "left")
  BY WhoIsWho
<1>3. Starts'
  BY <1>2, WhoIsWho DEF LockInv, Starts, Started
<1>4. Conns'
  BY WhoIsWho DEF LockInv, Conns
<1> QED
  BY <1>1, <1>3, <1>4 DEF LockInv

\* The reader of a hub: waiting for room, and finding it empty.
LEMMA WaitsLock ==
  ASSUME HubConstants, LockInv, NEW h \in Hubs, wait_for_room(h) \/ emptied(h)
  PROVE  LockInv'
<1>1. /\ UNCHANGED <<load, written, exited, map, hubOf, readers, writer, actor, client>>
      /\ hub[h].at \in {"wait", "read"}
      /\ \/ hub' = [hub EXCEPT ![h].at = "teardown", ![h].done = TRUE]
         \/ hub' = [hub EXCEPT ![h].at = "read"]
  BY DEF wait_for_room, emptied
<1>2. /\ hub' \in [Hubs -> HubRecords] /\ hub'[h].at \in {"teardown", "read"}
      /\ hub'[h].conn = hub[h].conn /\ \A k \in Hubs : k # h => hub'[k] = hub[k]
  BY <1>1 DEF LockInv, Types, HubRecords
<1>3. Types'
  BY <1>1, <1>2 DEF LockInv, Types
<1>4. hub[h].conn
  BY <1>1 DEF LockInv, Conns
<1> QED
  BY <1>1, <1>2, <1>3, <1>4, LocksKept DEF LockInv, Conns

\* An event put on a queue.
LEMMA Queued ==
  ASSUME NEW q \in Seq(Events), NEW e \in Events
  PROVE  /\ Append(q, e) \in Seq(Events) /\ Len(Append(q, e)) = Len(q) + 1
         /\ Len(q) \in Nat /\ Append(q, e)[Len(q) + 1] = e
         /\ \A i \in 1 .. Len(q) : Append(q, e)[i] = q[i]
BY LenProperties, AppendProperties

\* What publish makes of the clients of a hub.
LEMMA PublishTypes ==
  ASSUME HubConstants, Types, NEW h \in Hubs, publish(h)
  PROVE  /\ Types' /\ hub'[h].at = "wait" /\ hub'[h].conn = hub[h].conn
         /\ hub'[h].end = hub[h].end + 1
         /\ hub'[h].clients = hub[h].clients \ Behind(h)
         /\ hub'[h].owner = IF hub[h].owner \in Behind(h) THEN "none" ELSE hub[h].owner
         /\ hub'[h].done = hub[h].done
         /\ hub[h].start <= hub[h].end => hub'[h].start <= hub'[h].end
         /\ \A k \in Hubs : k # h => hub'[k] = hub[k]
         /\ \A c \in Clients : client'[c] = IF c \in hub[h].clients
                                            THEN queue(h, c, hub'[h].end) ELSE client[c]
<1>0. PICK end : end = hub[h].end + 1
  OBVIOUS
<1>1. /\ client' = [c \in Clients |-> IF c \in hub[h].clients THEN queue(h, c, end) ELSE client[c]]
      /\ hub' = [hub EXCEPT ![h].at = "wait", ![h].end = end,
           ![h].start = IF end - @ > KEPT THEN end - KEPT ELSE @,
           ![h].clients = @ \ Behind(h), ![h].owner = IF @ \in Behind(h) THEN "none" ELSE @]
      /\ UNCHANGED <<load, written, exited, map, hubOf, readers, writer, actor>>
  <2>1. client' = [c \in Clients |-> IF c \in hub[h].clients THEN queue(h, c, end) ELSE client[c]]
    BY <1>0 DEF publish
  <2>2. hub' = [hub EXCEPT ![h].at = "wait", ![h].end = end,
           ![h].start = IF end - @ > KEPT THEN end - KEPT ELSE @,
           ![h].clients = @ \ Behind(h), ![h].owner = IF @ \in Behind(h) THEN "none" ELSE @]
    BY <1>0 DEF publish
  <2>3. UNCHANGED <<load, written, exited, map, hubOf, readers, writer, actor>>
    BY DEF publish
  <2> QED
    BY <2>1, <2>2, <2>3
<1>2. /\ hub[h] \in HubRecords /\ hub[h].end \in Nat /\ hub[h].start \in Nat /\ end \in Nat
      /\ KEPT \in Nat /\ end - 1 \in Nat
  BY <1>0 DEF Types, HubRecords, HubConstants
<1>3. (IF end - hub[h].start > KEPT THEN end - KEPT ELSE hub[h].start) \in Nat
  BY <1>2
<1>4. /\ hub'[h].at = "wait" /\ hub'[h].conn = hub[h].conn /\ hub'[h].end = end
      /\ hub'[h].done = hub[h].done
      /\ hub'[h].clients = hub[h].clients \ Behind(h)
      /\ hub'[h].owner = IF hub[h].owner \in Behind(h) THEN "none" ELSE hub[h].owner
      /\ hub'[h].start = IF end - hub[h].start > KEPT THEN end - KEPT ELSE hub[h].start
      /\ \A k \in Hubs : k # h => hub'[k] = hub[k]
  BY <1>1 DEF Types, HubRecords
<1>5. hub' \in [Hubs -> HubRecords]
  BY <1>1, <1>2, <1>3, ZenonT(90) DEF Types, HubRecords
<1>6. ASSUME NEW c \in Clients PROVE queue(h, c, end) \in ClientRecords
  <2>1. client[c] \in ClientRecords /\ client[c].queue \in Seq(Events) /\ client[c].queued \in Int
    BY DEF Types, ClientRecords
  <2>2. Last("behind", Reach(end)) \in Events /\ Unit(end, 1) \in Events
    BY <1>2 DEF Last, Unit, Reach, Events, Kinds
  <2>3. /\ Append(client[c].queue, Last("behind", Reach(end))) \in Seq(Events)
        /\ Append(client[c].queue, Unit(end, 1)) \in Seq(Events)
    BY <2>1, <2>2, Queued
  <2>4. CASE c \in Behind(h)
    <3>1. queue(h, c, end) =
            [client[c] EXCEPT !.queue = Append(client[c].queue, Last("behind", Reach(end)))]
      BY <2>4 DEF queue
    <3> QED
      BY <2>1, <2>3, <3>1 DEF ClientRecords
  <2>5. CASE c \notin Behind(h)
    <3>1. queue(h, c, end) =
            [client[c] EXCEPT !.queue = Append(client[c].queue, Unit(end, 1)),
                              !.queued = client[c].queued + 1]
      BY <2>5 DEF queue
    <3>. client[c].queued + 1 \in Int
      BY <2>1
    <3>2. PICK q \in Seq(Events), n \in Int : /\ q = Append(client[c].queue, Unit(end, 1))
                                              /\ n = client[c].queued + 1
      BY <2>3, ZenonT(40)
    <3>3. queue(h, c, end) = [client[c] EXCEPT !.queue = q, !.queued = n]
      BY <3>1, <3>2
    <3> QED
      BY <2>1, <3>3 DEF ClientRecords
  <2> QED
    BY <2>4, <2>5
<1>7. client' \in [Clients -> ClientRecords]
  BY <1>1, <1>6 DEF Types
<1>8. Types'
  BY <1>1, <1>5, <1>7 DEF Types
<1>9. \A c \in Clients : client'[c] = IF c \in hub[h].clients THEN queue(h, c, end) ELSE client[c]
  BY <1>1
<1>10. hub[h].start <= hub[h].end => hub'[h].start <= end
  BY <1>0, <1>2, <1>4
<1>11. \A c \in Clients : client'[c] = IF c \in hub[h].clients
                                       THEN queue(h, c, hub'[h].end) ELSE client[c]
  BY <1>4, <1>9, ZenonT(40)
<1> QED
  BY <1>0, <1>4, <1>8, <1>10, <1>11, ZenonT(40)

\* What finish makes of them.
LEMMA FinishTypes ==
  ASSUME HubConstants, Types, NEW h \in Hubs, NEW why \in {"exit", "gone"}, finish(h, why)
  PROVE  /\ Types' /\ hub'[h].at = "teardown" /\ hub'[h].conn = hub[h].conn
         /\ hub'[h].clients = {} /\ hub'[h].done = TRUE /\ hub'[h].end = hub[h].end
         /\ hub'[h].start = hub[h].start
         /\ \A k \in Hubs : k # h => hub'[k] = hub[k]
         /\ \A c \in Clients : client'[c] =
              IF c \in hub[h].clients
              THEN [client[c] EXCEPT !.queue = Append(@, Last(why, 0))] ELSE client[c]
<1>1. /\ client' = [c \in Clients |->
             IF c \in hub[h].clients
             THEN [client[c] EXCEPT !.queue = Append(@, Last(why, 0))] ELSE client[c]]
      /\ hub' = [hub EXCEPT ![h].at = "teardown", ![h].done = TRUE, ![h].clients = {}]
      /\ UNCHANGED <<load, written, exited, map, hubOf, readers, writer, actor>>
  BY DEF finish
<1>2. ASSUME NEW c \in Clients
      PROVE  [client[c] EXCEPT !.queue = Append(@, Last(why, 0))] \in ClientRecords
  <2>1. client[c] \in ClientRecords /\ client[c].queue \in Seq(Events)
    BY DEF Types, ClientRecords
  <2>2. Last(why, 0) \in Events
    BY DEF Last, Events, Kinds
  <2>3. Append(client[c].queue, Last(why, 0)) \in Seq(Events)
    BY <2>1, <2>2, Queued
  <2> QED
    BY <2>1, <2>3 DEF ClientRecords
<1>3. client' \in [Clients -> ClientRecords]
  BY <1>1, <1>2 DEF Types
<1>4. /\ hub' \in [Hubs -> HubRecords] /\ hub'[h].at = "teardown"
      /\ hub'[h].conn = hub[h].conn /\ hub'[h].clients = {} /\ hub'[h].done = TRUE
      /\ hub'[h].end = hub[h].end /\ hub'[h].start = hub[h].start
      /\ \A k \in Hubs : k # h => hub'[k] = hub[k]
  <2>1. PICK n : n = [hub[h] EXCEPT !.at = "teardown", !.done = TRUE, !.clients = {}]
    OBVIOUS
  <2>2. hub[h] \in HubRecords /\ hub \in [Hubs -> HubRecords]
    BY DEF Types
  <2>3. /\ n \in HubRecords /\ n.at = "teardown" /\ n.conn = hub[h].conn /\ n.clients = {}
        /\ n.done = TRUE /\ n.end = hub[h].end /\ n.start = hub[h].start
    BY <2>1, <2>2, ZenonT(60) DEF HubRecords
  <2>4. hub' = [hub EXCEPT ![h] = n]
    BY <1>1, <2>1, <2>2, ZenonT(60)
  <2>5. hub' \in [Hubs -> HubRecords] /\ hub'[h] = n /\ \A k \in Hubs : k # h => hub'[k] = hub[k]
    BY <2>2, <2>3, <2>4
  <2> QED
    BY <2>3, <2>5, ZenonT(40)
<1>5. Types'
  BY <1>1, <1>3, <1>4 DEF Types
<1> QED
  BY <1>1, <1>4, <1>5

\* A unit is published, and the hub goes on; its end is told, and it goes.
LEMMA PublishLocks ==
  ASSUME HubConstants, LockInv, NEW h \in Hubs,
         publish(h) \/ finish(h, "exit") \/ finish(h, "gone")
  PROVE  LockInv'
<1>1. hub[h].at = "read" /\ UNCHANGED <<map, hubOf, readers, writer, actor>>
  BY DEF publish, finish
<1>2. /\ Types' /\ hub'[h].at \in {"wait", "teardown"} /\ hub'[h].conn = hub[h].conn
      /\ \A k \in Hubs : k # h => hub'[k] = hub[k]
  BY PublishTypes, FinishTypes DEF LockInv
<1>3. hub[h].conn
  BY <1>1 DEF LockInv, Conns
<1> QED
  BY <1>1, <1>2, <1>3, LocksKept DEF LockInv, Conns

\* The connection goes, and then the hub says so.
LEMMA TeardownTypes ==
  ASSUME HubConstants, Types, NEW h \in Hubs, teardown(h)
  PROVE  /\ Types' /\ hub'[h] = [NewHub EXCEPT !.at = "closed", !.done = TRUE]
         /\ \A k \in Hubs : k # h => hub'[k] = hub[k]
         /\ actor'[h].at = "remove" /\ actor'[h].slot = actor[h].slot
         /\ actor'[h].held = actor[h].held /\ actor'[h].ask = actor[h].ask
         /\ \A b \in Actors : b # h => actor'[b] = actor[b]
<1>1. /\ hub' = [hub EXCEPT ![h] = [NewHub EXCEPT !.at = "closed", !.done = TRUE]]
      /\ At(h, "remove")
      /\ UNCHANGED <<load, written, exited, map, hubOf, readers, writer, client>>
  BY DEF teardown
<1>2. /\ actor' \in [Actors -> ActorRecords] /\ actor'[h].at = "remove"
      /\ actor'[h].slot = actor[h].slot /\ actor'[h].held = actor[h].held
      /\ actor'[h].ask = actor[h].ask
      /\ \A b \in Actors : b # h => actor'[b] = actor[b]
  <2>1. h \in Actors /\ "remove" \in Places
    BY WhoIsWho DEF Places
  <2> QED
    BY <1>1, <2>1, MovesOn, ZenonT(40)
<1>3. [NewHub EXCEPT !.at = "closed", !.done = TRUE] \in HubRecords
  BY DEF NewHub, HubRecords
<1>4. hub' \in [Hubs -> HubRecords] /\ hub'[h] = [NewHub EXCEPT !.at = "closed", !.done = TRUE]
      /\ \A k \in Hubs : k # h => hub'[k] = hub[k]
  BY <1>1, <1>3 DEF Types
<1>5. Types'
  BY <1>1, <1>2, <1>4 DEF Types
<1> QED
  BY <1>2, <1>4, <1>5

LEMMA TeardownLocks ==
  ASSUME HubConstants, LockInv, NEW h \in Hubs, teardown(h)
  PROVE  LockInv'
<1>1. hub[h].at = "teardown" /\ UNCHANGED <<map, hubOf, readers, writer>>
  BY DEF teardown
<1>2. hub'[h].at = "closed" /\ hub'[h].conn = FALSE
  BY TeardownTypes DEF LockInv, NewHub
<1>3. Types' /\ \A k \in Hubs : k # h => hub'[k] = hub[k]
  BY TeardownTypes DEF LockInv
<1>4. \A b \in Actors : /\ actor'[b].held = actor[b].held /\ actor'[b].slot = actor[b].slot
                        /\ actor'[b].at # actor[b].at => b = h
  BY TeardownTypes DEF LockInv
<1>5. \A k \in Hubs : hub'[k].conn <=> hub'[k].at \in {"wait", "read", "teardown"}
  BY <1>2, <1>3 DEF LockInv, Conns
<1> QED
  BY <1>1, <1>2, <1>3, <1>4, <1>5, LocksKept

\* The slot of a hub that is gone is let go, empty if it was still in it.
LEMMA RemoveLocks ==
  ASSUME HubConstants, LockInv, NEW h \in Hubs, remove(h)
  PROVE  LockInv'
<1>1. /\ actor[h].at = "remove" /\ actor[h].held
      /\ UNCHANGED <<load, written, exited, readers, writer, hub, client>>
  BY DEF remove
<1>2. actor[h].slot = map /\ map \in Gens
  BY <1>1, WhoIsWho DEF LockInv, Locks, Types
<1>3. PICK hs : /\ hs = IF hubOf[map] = h THEN [hubOf EXCEPT ![map] = "none"] ELSE hubOf
                /\ Lets(h, "gone", hs)
  BY <1>2 DEF remove
<1>4. /\ hs \in [Gens -> Hubs \cup {"none"}] /\ \A g \in Gens : g # map => hs[g] = hubOf[g]
      /\ hs[map] = IF hubOf[map] = h THEN "none" ELSE hubOf[map]
  BY <1>2, <1>3 DEF LockInv, Types
<1>5. /\ actor' \in [Actors -> ActorRecords] /\ map' \in Gens \cup {0}
      /\ hubOf' \in [Gens -> Hubs \cup {"none"}]
      /\ actor'[h].at = "gone"
      /\ \A b \in Actors : b # h => actor'[b] = actor[b]
      /\ hubOf' = hs /\ (hs[map] = "none" => map' = 0) /\ (hs[map] # "none" => map' = map)
      /\ Locks'
  <2>1. h \in Actors /\ "gone" \in Places /\ Types /\ Locks
    BY WhoIsWho DEF LockInv, Places
  <2>2. actor[h].held
    BY <1>1, ZenonT(40)
  <2>3. Lets(h, "gone", hs)
    BY <1>3, ZenonT(40)
  <2>4. hs \in [Gens -> Hubs \cup {"none"}] /\ \A g \in Gens : g # map => hs[g] = hubOf[g]
    BY <1>4, ZenonT(40)
  <2> QED
    BY <2>1, <2>2, <2>3, <2>4, LetsGo, ZenonT(40)
<1>6. Types'
  BY <1>1, <1>5 DEF LockInv, Types
<1>7. Starts'
  BY <1>1, <1>5, WhoIsWho DEF LockInv, Starts, Started
<1>8. ASSUME NEW k \in Hubs, hub[k].conn PROVE map' # 0 /\ hubOf'[map'] = k
  <2>1. hubOf[map] = k /\ map # 0
    BY <1>8 DEF LockInv, Conns
  <2>2. hub[h].at = "closed"
    BY <1>1 DEF LockInv, Conns
  <2>3. k # h
    BY <1>8, <2>2 DEF LockInv, Conns
  <2> QED
    BY <1>4, <1>5, <2>1, <2>3, WhoIsWho
<1>9. Conns'
  BY <1>1, <1>5, <1>8, WhoIsWho DEF LockInv, Conns
<1> QED
  BY <1>5, <1>6, <1>7, <1>9 DEF LockInv

-----------------------------------------------------------------------------
(* A client comes on a hub. *)

\* What add queues: the units from an offset the hub still has to its end.
LEMMA Replays ==
  ASSUME NEW from \in Nat, NEW end \in Nat, from <= end
  PROVE  /\ Replay(from, end) \in Seq(Events) /\ from + Len(Replay(from, end)) = end
         /\ \A i \in 1 .. Len(Replay(from, end)) : Replay(from, end)[i] = Unit(from + i, 0)
<1>1. PICK n \in Nat : n = end - from
  OBVIOUS
<1>2. Replay(from, end) = [i \in 1 .. n |-> Unit(from + i, 0)]
  BY <1>1 DEF Replay
<1>3. \A i \in 1 .. n : Unit(from + i, 0) \in Events
  BY DEF Unit, Events, Kinds
<1>4. Replay(from, end) \in [1 .. n -> Events]
  BY <1>2, <1>3
<1>5. Replay(from, end) \in Seq(Events) /\ Len(Replay(from, end)) = n
  <2>1. DOMAIN Replay(from, end) = 1 .. n
    BY <1>2
  <2>2. Replay(from, end) \in Seq(Events)
    BY <1>4, SeqDef
  <2> QED
    BY <2>1, <2>2, LenProperties
<1> QED
  BY <1>1, <1>2, <1>5

\* add: the client is on the hub, all it has queued is output, numbered from
\* what it is taken to have, and the hub is otherwise as it was.
LEMMA AddTypes ==
  ASSUME HubConstants, Types, NEW h \in Hubs, NEW c \in Clients, NEW offset \in Nat,
         hub[h].start <= hub[h].end, add(h, c, offset)
  PROVE  /\ hub' \in [Hubs -> HubRecords] /\ client' \in [Clients -> ClientRecords]
         /\ \A k \in Hubs : /\ hub'[k].at = hub[k].at /\ hub'[k].conn = hub[k].conn
                            /\ hub'[k].start = hub[k].start /\ hub'[k].end = hub[k].end
                            /\ hub'[k].done = hub[k].done
                            /\ k # h => hub'[k] = hub[k]
         /\ hub'[h].clients = hub[h].clients \cup {c}
         /\ hub'[h].owner = hub[h].owner \/ hub'[h].owner = c
         /\ \A d \in Clients : d # c => client'[d] = client[d]
         /\ client'[c].hub = h /\ client'[c].told = "none"
         /\ client'[c].got + Len(client'[c].queue) = hub[h].end
         /\ \A i \in 1 .. Len(client'[c].queue) :
              client'[c].queue[i].kind = "out" /\ client'[c].queue[i].n = client'[c].got + i
<1>1. PICK from : from = Clamp(offset, hub[h].start, hub[h].end)
  OBVIOUS
<1>2. hub[h] \in HubRecords /\ hub[h].start \in Nat /\ hub[h].end \in Nat
  BY DEF Types, HubRecords
<1>3. from \in Nat /\ from <= hub[h].end
  BY <1>1, <1>2 DEF Clamp
<1>4. PICK q : q = Replay(from, hub[h].end)
  OBVIOUS
<1>5. /\ q \in Seq(Events) /\ from + Len(q) = hub[h].end
      /\ \A i \in 1 .. Len(q) : q[i] = Unit(from + i, 0)
  <2>1. /\ Replay(from, hub[h].end) \in Seq(Events)
        /\ from + Len(Replay(from, hub[h].end)) = hub[h].end
        /\ \A i \in 1 .. Len(Replay(from, hub[h].end)) :
             Replay(from, hub[h].end)[i] = Unit(from + i, 0)
    BY <1>2, <1>3, Replays
  <2> QED
    BY <1>4, <2>1, ZenonT(40)
<1>6. /\ hub' = [hub EXCEPT ![h].clients = @ \cup {c},
                            ![h].owner = IF @ = "none" THEN c ELSE @]
      /\ client' = [client EXCEPT ![c] = [NewClient EXCEPT !.hub = h, !.queue = q, !.got = from]]
  BY <1>1, <1>4 DEF add
<1>7. PICK r : r = [NewClient EXCEPT !.hub = h, !.queue = q, !.got = from]
  OBVIOUS
<1>8. /\ r \in ClientRecords /\ r.hub = h /\ r.queue = q /\ r.got = from /\ r.told = "none"
  <2>1. r = [hub |-> h, queue |-> q, queued |-> 0, got |-> from, told |-> "none"]
    BY <1>7 DEF NewClient
  <2>2. q \in Seq(Events) /\ from \in Nat
    BY <1>3, <1>5
  <2> QED
    BY <2>1, <2>2 DEF ClientRecords
<1>9. /\ client' \in [Clients -> ClientRecords] /\ client'[c] = r
      /\ \A d \in Clients : d # c => client'[d] = client[d]
  BY <1>6, <1>7, <1>8 DEF Types
<1>10. /\ hub' \in [Hubs -> HubRecords]
       /\ \A k \in Hubs : /\ hub'[k].at = hub[k].at /\ hub'[k].conn = hub[k].conn
                          /\ hub'[k].start = hub[k].start /\ hub'[k].end = hub[k].end
                          /\ hub'[k].done = hub[k].done
                          /\ k # h => hub'[k] = hub[k]
       /\ hub'[h].clients = hub[h].clients \cup {c}
       /\ hub'[h].owner = hub[h].owner \/ hub'[h].owner = c
  <2>1. /\ hub' \in [Hubs -> HubRecords] /\ \A k \in Hubs : k # h => hub'[k] = hub[k]
        /\ hub'[h].clients = hub[h].clients \cup {c}
        /\ hub'[h].owner = hub[h].owner \/ hub'[h].owner = c
    BY <1>6, ZenonT(90) DEF Types, HubRecords
  <2>2. /\ hub'[h].at = hub[h].at /\ hub'[h].conn = hub[h].conn
        /\ hub'[h].start = hub[h].start /\ hub'[h].end = hub[h].end
        /\ hub'[h].done = hub[h].done
    BY <1>6 DEF Types, HubRecords
  <2> QED
    BY <2>1, <2>2, ZenonT(40)
<1>11. \A i \in 1 .. Len(q) : q[i].kind = "out" /\ q[i].n = from + i
  <2>1. \A n : Unit(n, 0).kind = "out" /\ Unit(n, 0).n = n
    BY DEF Unit
  <2> QED
    BY <1>5, <2>1, ZenonT(60)
<1> QED
  BY <1>5, <1>8, <1>9, <1>10, <1>11, ZenonT(40)

\* open: the first client has the offset the connection starts at.
LEMMA OpenTypes ==
  ASSUME HubConstants, Types, NEW h \in Hubs, NEW c \in Clients, NEW offset \in Nat,
         open(h, c, offset)
  PROVE  /\ hub' \in [Hubs -> HubRecords] /\ client' \in [Clients -> ClientRecords]
         /\ hub[h].at = "none"
         /\ \A k \in Hubs : k # h => hub'[k] = hub[k]
         /\ hub'[h].at = "wait" /\ hub'[h].conn = TRUE
         /\ hub'[h].start = offset /\ hub'[h].end = offset
         /\ hub'[h].clients = {c} /\ hub'[h].owner = c
         /\ \A d \in Clients : d # c => client'[d] = client[d]
         /\ client'[c].hub = h /\ client'[c].told = "none" /\ client'[c].got = offset
         /\ client'[c].queue = <<>>
<1>1. /\ hub[h].at = "none"
      /\ hub' = [hub EXCEPT ![h] = [NewHub EXCEPT !.at = "wait", !.start = offset, !.end = offset,
                                                  !.clients = {c}, !.owner = c, !.conn = TRUE]]
      /\ client' = [client EXCEPT ![c] = [NewClient EXCEPT !.hub = h, !.got = offset]]
  BY DEF open
<1>2. PICK n : n = [NewHub EXCEPT !.at = "wait", !.start = offset, !.end = offset,
                                  !.clients = {c}, !.owner = c, !.conn = TRUE]
  OBVIOUS
<1>3. PICK r : r = [NewClient EXCEPT !.hub = h, !.got = offset]
  OBVIOUS
<1>4. /\ n \in HubRecords /\ n.at = "wait" /\ n.conn = TRUE /\ n.start = offset /\ n.end = offset
      /\ n.clients = {c} /\ n.owner = c
  <2>1. n = [at |-> "wait", start |-> offset, end |-> offset, clients |-> {c}, owner |-> c,
             done |-> FALSE, conn |-> TRUE]
    BY <1>2 DEF NewHub
  <2> QED
    BY <2>1 DEF HubRecords
<1>5. /\ r \in ClientRecords /\ r.hub = h /\ r.told = "none" /\ r.got = offset /\ r.queue = <<>>
  <2>1. PICK q \in Seq(Events) : q = <<>>
    BY EmptySeq
  <2>2. r = [hub |-> h, queue |-> q, queued |-> 0, got |-> offset, told |-> "none"]
    BY <1>3, <2>1 DEF NewClient
  <2> QED
    BY <2>1, <2>2 DEF ClientRecords
<1>6. /\ hub' \in [Hubs -> HubRecords] /\ hub'[h] = n /\ \A k \in Hubs : k # h => hub'[k] = hub[k]
  BY <1>1, <1>2, <1>4 DEF Types
<1>7. /\ client' \in [Clients -> ClientRecords] /\ client'[c] = r
      /\ \A d \in Clients : d # c => client'[d] = client[d]
  BY <1>1, <1>3, <1>5 DEF Types
<1> QED
  BY <1>1, <1>4, <1>5, <1>6, <1>7, ZenonT(40)

-----------------------------------------------------------------------------
(* start and attach keep the locks. *)

\* An actor of start or attach that moves on before it has a hub.
LEMMA StartMoves ==
  ASSUME HubConstants, LockInv, start \/ startAnswered
  PROVE  LockInv'
<1>1. /\ UNCHANGED <<load, written, exited, map, hubOf, writer, hub, client>>
      /\ actor[Starter].at \in {"idle", "handshake"}
  BY DEF start, startAnswered
<1>2. PICK at \in Places : /\ At(Starter, at) /\ at \in {"handshake", "install", "failed"}
                           /\ readers' = IF at = "failed" THEN {} ELSE {Starter}
  <2>1. CASE start
    BY <2>1 DEF start, Places
  <2>2. CASE startAnswered
    <3>1. readers = {Starter}
      BY <2>2 DEF LockInv, Starts, startAnswered
    <3> QED
      BY <2>2, <3>1 DEF startAnswered, Places
  <2> QED
    BY <2>1, <2>2
<1>3. Starter \in Actors /\ Types
  BY WhoIsWho DEF LockInv
<1>4. /\ actor' \in [Actors -> ActorRecords] /\ actor'[Starter].at = at
      /\ actor'[Starter].slot = actor[Starter].slot /\ actor'[Starter].held = actor[Starter].held
      /\ \A b \in Actors : b # Starter => actor'[b] = actor[b]
  BY <1>2, <1>3, MovesOn, ZenonT(40)
<1>5. Types'
  BY <1>1, <1>4 DEF LockInv, Types
<1>6. Locks'
  BY <1>1, <1>3, <1>4 DEF LockInv, Locks
<1>7. \A c \in Joiners : actor[c].at = "idle" /\ actor'[c] = actor[c]
  BY <1>1, <1>4, WhoIsWho DEF LockInv, Starts, Started
<1>8. Starts'
  BY <1>1, <1>2, <1>4, <1>7 DEF LockInv, Starts, Started
<1>9. Conns'
  BY <1>1, <1>4, WhoIsWho DEF LockInv, Conns
<1> QED
  BY <1>5, <1>6, <1>8, <1>9 DEF LockInv

\* attach begins, and takes starting alone.
LEMMA AttachMoves ==
  ASSUME HubConstants, LockInv, NEW c \in Joiners,
         noStarts(c) \/ \E offset \in Nat : attach(c, offset)
  PROVE  LockInv'
<1>1. UNCHANGED <<load, written, exited, map, hubOf, readers, hub, client>>
  BY DEF noStarts, attach
<1>2. c \in Actors /\ c # Starter /\ Types /\ Started
  BY WhoIsWho DEF LockInv, noStarts, attach, Starts
<1>3. CASE noStarts(c)
  <2>1. At(c, "open") /\ writer' = {c} /\ readers = {} /\ writer = {} /\ "open" \in Places
    BY <1>3 DEF noStarts, StartsAlone, Places
  <2>2. /\ actor' \in [Actors -> ActorRecords] /\ actor'[c].at = "open"
        /\ actor'[c].slot = actor[c].slot /\ actor'[c].held = actor[c].held
        /\ \A b \in Actors : b # c => actor'[b] = actor[b]
    BY <1>2, <2>1, MovesOn, ZenonT(40)
  <2>3. Types'
    BY <1>1, <2>2 DEF LockInv, Types
  <2>4. Locks'
    BY <1>1, <1>2, <2>2 DEF LockInv, Locks
  <2>5. \A d \in Joiners : actor[d].at # "open"
    BY <2>1 DEF LockInv, Starts
  <2>6. Starts'
    BY <1>1, <1>2, <2>1, <2>2, <2>5, WhoIsWho DEF LockInv, Starts, Started
  <2>7. Conns'
    BY <1>1, <2>2, WhoIsWho DEF LockInv, Conns
  <2> QED
    BY <2>3, <2>4, <2>6, <2>7 DEF LockInv
<1>4. CASE \E offset \in Nat : attach(c, offset)
  <2>1. PICK offset \in Nat : attach(c, offset)
    BY <1>4
  <2>2. /\ actor' = [actor EXCEPT ![c] = [Idle EXCEPT !.at = "join", !.ask = offset]]
        /\ writer' = writer
    BY <2>1 DEF attach
  <2>3. /\ actor' \in [Actors -> ActorRecords] /\ actor'[c].at = "join"
        /\ ~actor'[c].held
        /\ \A b \in Actors : b # c => actor'[b] = actor[b]
    BY <1>2, <2>2 DEF Types, ActorRecords, Idle, Places
  <2>4. Types'
    BY <1>1, <2>3 DEF LockInv, Types
  <2>5. Locks'
    BY <1>1, <1>2, <2>3 DEF LockInv, Locks
  <2>6. Starts'
    BY <1>1, <1>2, <2>2, <2>3, WhoIsWho DEF LockInv, Starts, Started
  <2>7. Conns'
    BY <1>1, <2>3, WhoIsWho DEF LockInv, Conns
  <2> QED
    BY <2>4, <2>5, <2>6, <2>7 DEF LockInv
<1> QED
  BY <1>3, <1>4

\* attach lets the slot go as it found it: on the hub in it, or for starting
\* alone, or without an answer.
LEMMA JoinLocks ==
  ASSUME HubConstants, LockInv, NEW c \in Joiners, actor[c].held,
         actor[c].at \in {"join", "open"}, NEW to \in {"in", "alone", "failed"},
         Lets(c, to, hubOf), UNCHANGED <<load, written, exited, readers>>,
         writer' = writer \/ (actor[c].at = "open" /\ writer' = {}),
         hub' \in [Hubs -> HubRecords], client' \in [Clients -> ClientRecords],
         \A k \in Hubs : hub'[k].at = hub[k].at /\ hub'[k].conn = hub[k].conn
  PROVE  LockInv'
<1>1. /\ c \in Actors /\ c # Starter /\ to \in Places /\ Types /\ Locks
      /\ hubOf \in [Gens -> Hubs \cup {"none"}]
  BY WhoIsWho DEF LockInv, Places, Types
<1>2. /\ actor' \in [Actors -> ActorRecords] /\ map' \in Gens \cup {0}
      /\ actor'[c].at = to /\ \A b \in Actors : b # c => actor'[b] = actor[b]
      /\ hubOf' = hubOf /\ map \in Gens
      /\ (hubOf[map] = "none" => map' = 0) /\ (hubOf[map] # "none" => map' = map)
      /\ Locks'
  BY <1>1, LetsGo, ZenonT(40)
<1>3. Types'
  BY <1>1, <1>2 DEF Types
<1>4. Started
  BY <1>1 DEF LockInv, Starts
<1>5. \A d \in Joiners : actor'[d].at = "open" => actor[d].at = "open" /\ d # c
  BY <1>1, <1>2, WhoIsWho
<1>6. \A d \in Joiners : actor'[d].at = "open" => writer' = {d} /\ readers = {}
  BY <1>5, SMTT(30) DEF LockInv, Starts
<1>7. \A h \in Hubs : c # h
  BY WhoIsWho
<1>8. actor'[Starter] = actor[Starter]
  BY <1>1, <1>2, WhoIsWho
<1>9. Starts'
  BY <1>4, <1>6, <1>8 DEF LockInv, Starts, Started
<1>10. Conns'
  BY <1>2, <1>7, WhoIsWho DEF LockInv, Conns
<1> QED
  BY <1>2, <1>3, <1>9, <1>10 DEF LockInv

\* A hub is opened and put in the slot where no connection is left.
LEMMA OpenLocks ==
  ASSUME HubConstants, LockInv, NEW c \in Clients, actor[c].held, NEW n \in Hubs,
         \/ c = Starter /\ actor[c].at = "install" /\ readers' = {} /\ writer' = writer
         \/ c \in Joiners /\ actor[c].at = "open" /\ readers' = readers /\ writer' = {},
         Lets(c, "in", [hubOf EXCEPT ![actor[c].slot] = n]),
         UNCHANGED <<load, written, exited>>,
         hub' \in [Hubs -> HubRecords], client' \in [Clients -> ClientRecords],
         hub[n].at = "none", hub'[n].at = "wait", hub'[n].conn = TRUE,
         \A k \in Hubs : ~hub[k].conn /\ (k # n => hub'[k] = hub[k])
  PROVE  LockInv'
<1>1. /\ c \in Actors /\ "in" \in Places /\ Types /\ Locks
      /\ actor[c].slot = map /\ map \in Gens
  BY WhoIsWho DEF LockInv, Places, Types, Locks
<1>2. PICK hs : hs = [hubOf EXCEPT ![map] = n]
  OBVIOUS
<1>3. /\ hs \in [Gens -> Hubs \cup {"none"}] /\ \A g \in Gens : g # map => hs[g] = hubOf[g]
  BY <1>1, <1>2 DEF Types
<1>4. hs[map] = n /\ n # "none"
  BY <1>1, <1>2, WhoIsWho DEF Types
<1>5. Lets(c, "in", hs)
  BY <1>1, <1>2
<1>6. /\ actor' \in [Actors -> ActorRecords] /\ map' \in Gens \cup {0}
      /\ actor'[c].at = "in" /\ \A b \in Actors : b # c => actor'[b] = actor[b]
      /\ hubOf' = hs /\ (hs[map] # "none" => map' = map) /\ Locks'
  BY <1>1, <1>3, <1>5, LetsGo, ZenonT(40)
<1>7. map' = map /\ hubOf'[map'] = n /\ map' # 0
  BY <1>1, <1>4, <1>6, WhoIsWho
<1>8. Types'
  BY <1>1, <1>3, <1>6 DEF Types
<1>9. actor'[Starter].at \notin {"idle", "handshake", "install"} /\ readers' = {}
  BY <1>6, WhoIsWho DEF LockInv, Starts, Started
<1>10. \A d \in Joiners : actor'[d].at # "open"
  <2>1. CASE c = Starter
    BY <2>1, <1>6, WhoIsWho DEF LockInv, Starts
  <2>2. CASE c \in Joiners
    BY <2>2, <1>6, WhoIsWho, SMTT(30) DEF LockInv, Starts
  <2> QED
    BY <2>1, <2>2 DEF Clients
<1>11. Starts'
  BY <1>9, <1>10 DEF Starts, Started
<1>12. \A h \in Hubs : actor'[h] = actor[h]
  BY <1>6, WhoIsWho
<1>13. Conns'
  BY <1>7, <1>12 DEF LockInv, Conns
<1> QED
  BY <1>6, <1>8, <1>11, <1>13 DEF LockInv

-----------------------------------------------------------------------------
(* What a client gets. *)

\* A client's record: its events are numbered from what it got, the last one
\* closes the queue, and the exit is told with all that was written.
Fine(r, w, x) ==
  /\ \A i \in 1 .. Len(r.queue) :
       /\ r.queue[i].kind = "out" => r.queue[i].n = r.got + i
       /\ r.queue[i].kind # "out" => i = Len(r.queue)
       /\ r.queue[i].kind = "behind" => r.queue[i].n = r.got + i - 1
       /\ r.queue[i].kind = "exit" => x /\ w = r.got + i - 1
  /\ r.told = "exit" => x /\ r.got = w

LEMMA FineIs ==
  ASSUME Gapless, ExitTold, NEW c \in Clients
  PROVE  Fine(client[c], written, exited)
<1>1. \A i \in 1 .. Len(client[c].queue) :
        IF client[c].queue[i].kind = "out" THEN client[c].queue[i].n = client[c].got + i
        ELSE /\ i = Len(client[c].queue)
             /\ client[c].queue[i].kind = "behind" =>
                  client[c].queue[i].n = client[c].got + i - 1
             /\ client[c].queue[i].kind = "exit" => written = client[c].got + i - 1
  BY DEF Gapless
<1>2. \A i \in 1 .. Len(client[c].queue) : client[c].queue[i].kind = "exit" => exited
  BY DEF ExitTold
<1>3. client[c].told = "exit" => exited /\ client[c].got = written
  BY DEF ExitTold, Gapless
<1> QED
  BY <1>1, <1>2, <1>3 DEF Fine

\* The invariant after a step, from what it leaves of each client and hub.
LEMMA HubKept ==
  ASSUME HubConstants, HubInv, LockInv',
         \A c \in Clients : Fine(client'[c], written', exited'),
         \A a \in Actors : actor'[a].ask <= written',
         \A h \in Hubs : /\ hub'[h].start <= hub'[h].end /\ hub'[h].end <= written'
                         /\ hub'[h].done \/ hub'[h].owner \in hub'[h].clients \cup {"none"}
                         /\ \A c \in hub'[h].clients : OnHub(h, c)'
  PROVE  HubInv'
<1>1. Reached'
  BY DEF Reached
<1>2. ExitTold'
  BY DEF ExitTold, Fine
<1>3. Gapless'
  <2>1. ASSUME NEW c \in Clients, NEW i \in 1 .. Len(client'[c].queue)
        PROVE  IF client'[c].queue[i].kind = "out" THEN client'[c].queue[i].n = client'[c].got + i
               ELSE /\ i = Len(client'[c].queue)
                    /\ client'[c].queue[i].kind = "behind" =>
                         client'[c].queue[i].n = client'[c].got + i - 1
                    /\ client'[c].queue[i].kind = "exit" => written' = client'[c].got + i - 1
    BY <2>1 DEF Fine
  <2>2. \A c \in Clients : client'[c].told = "exit" => client'[c].got = written'
    BY DEF Fine
  <2> QED
    BY <2>1, <2>2 DEF Gapless
<1>4. OwnerIsThere'
  BY DEF OwnerIsThere
<1> QED
  BY <1>1, <1>2, <1>3, <1>4 DEF HubInv, QueueInv

\* What the invariant says before the step.
LEMMA HubHas ==
  ASSUME HubInv
  PROVE  /\ LockInv /\ Types /\ \A c \in Clients : Fine(client[c], written, exited)
         /\ \A a \in Actors : actor[a].ask <= written
         /\ \A h \in Hubs : /\ hub[h].start <= hub[h].end /\ hub[h].end <= written
                            /\ hub[h].done \/ hub[h].owner \in hub[h].clients \cup {"none"}
                            /\ hub[h].clients \subseteq Clients
                            /\ \A c \in hub[h].clients : OnHub(h, c)
<1>1. LockInv /\ Types /\ Reached /\ ExitTold /\ Gapless /\ OwnerIsThere
  BY DEF HubInv, QueueInv, LockInv
<1>2. \A h \in Hubs : hub[h].clients \subseteq Clients
  BY <1>1 DEF Types, HubRecords
<1> QED
  BY <1>1, <1>2, FineIs DEF Reached, OwnerIsThere

\* A client a step does not touch stays on its hub.
LEMMA StaysOn ==
  ASSUME NEW h \in Hubs, NEW c \in Clients, OnHub(h, c), client'[c] = client[c],
         actor'[c].at = actor[c].at, hub'[h].end = hub[h].end
  PROVE  OnHub(h, c)'
BY DEF OnHub

\* A step that moves only actors which are on no hub.
LEMMA ActorsMove ==
  ASSUME HubConstants, HubInv, LockInv', UNCHANGED <<written, exited, hub, client>>,
         \A a \in Actors : /\ actor'[a].ask <= written
                           /\ actor'[a].at # actor[a].at => actor[a].at # "in"
  PROVE  HubInv'
<1>1. ASSUME NEW h \in Hubs, NEW c \in hub[h].clients PROVE OnHub(h, c)'
  <2>1. c \in Clients /\ c \in Actors /\ OnHub(h, c)
    BY HubHas, WhoIsWho
  <2>2. actor[c].at = "in"
    BY <2>1 DEF OnHub
  <2> QED
    BY <2>1, <2>2, StaysOn
<1> QED
  BY <1>1, HubHas, HubKept

LEMMA SlotSteps ==
  ASSUME HubConstants, HubInv, NEW a \in Actors, pickSlot(a) \/ lock_slot(a)
  PROVE  HubInv'
<1>1. LockInv'
  BY SlotsLock DEF HubInv
<1>2. UNCHANGED <<written, exited, hub, client>>
  BY DEF pickSlot, lock_slot
<1>3. \/ \E g \in Gens : actor' = [actor EXCEPT ![a].slot = g]
      \/ actor' = [actor EXCEPT ![a].held = TRUE]
      \/ actor' = [actor EXCEPT ![a].slot = 0]
  BY DEF pickSlot, lock_slot
<1>4. \A b \in Actors : actor'[b].at = actor[b].at /\ actor'[b].ask = actor[b].ask
  BY <1>3 DEF HubInv, LockInv, Types, ActorRecords
<1> QED
  BY <1>1, <1>2, <1>4, ActorsMove, HubHas

LEMMA RemoveStep ==
  ASSUME HubConstants, HubInv, NEW h \in Hubs, remove(h)
  PROVE  HubInv'
<1>1. LockInv'
  BY RemoveLocks DEF HubInv
<1>2. UNCHANGED <<written, exited, hub, client>> /\ actor[h].at = "remove"
  BY DEF remove
<1>3. actor' = [actor EXCEPT ![h] = [Idle EXCEPT !.at = "gone", !.ask = actor[h].ask]]
  BY DEF remove, Lets
<1>4. \A b \in Actors : /\ actor'[b].ask = actor[b].ask
                        /\ actor'[b].at # actor[b].at => b = h
  BY <1>3 DEF HubInv, LockInv, Types, ActorRecords, Idle
<1> QED
  BY <1>1, <1>2, <1>4, ActorsMove, HubHas

LEMMA StartMoveSteps ==
  ASSUME HubConstants, HubInv, start \/ startAnswered
  PROVE  HubInv'
<1>1. LockInv'
  BY StartMoves DEF HubInv
<1>2. UNCHANGED <<written, exited, hub, client>> /\ actor[Starter].at \in {"idle", "handshake"}
  BY DEF start, startAnswered
<1>3. \/ actor' = [actor EXCEPT ![Starter].at = "handshake"]
      \/ actor' = [actor EXCEPT ![Starter].at = "install"]
      \/ actor' = [actor EXCEPT ![Starter].at = "failed"]
  BY DEF start, startAnswered, At
<1>4. \A b \in Actors : /\ actor'[b].ask = actor[b].ask
                        /\ actor'[b].at # actor[b].at => b = Starter
  BY <1>3 DEF HubInv, LockInv, Types, ActorRecords
<1> QED
  BY <1>1, <1>2, <1>4, ActorsMove, HubHas

LEMMA AttachMoveSteps ==
  ASSUME HubConstants, HubInv, NEW c \in Joiners,
         noStarts(c) \/ \E offset \in Nat : attach(c, offset)
  PROVE  HubInv'
<1>1. LockInv'
  BY AttachMoves DEF HubInv
<1>2. UNCHANGED <<written, exited, hub, client>> /\ actor[c].at \in {"idle", "alone"}
  BY DEF noStarts, attach
<1>3. \/ actor' = [actor EXCEPT ![c].at = "open"]
      \/ \E offset \in Nat : /\ offset <= written
                             /\ actor' = [actor EXCEPT ![c] = [Idle EXCEPT !.at = "join",
                                                                           !.ask = offset]]
  BY DEF noStarts, attach, At
<1>4. \A b \in Actors : /\ actor'[b].ask = actor[b].ask \/ actor'[b].ask <= written
                        /\ actor'[b].at # actor[b].at => b = c
  <2>1. CASE actor' = [actor EXCEPT ![c].at = "open"]
    BY <2>1 DEF HubInv, LockInv, Types, ActorRecords
  <2>2. CASE \E offset \in Nat : /\ offset <= written
                                 /\ actor' = [actor EXCEPT ![c] = [Idle EXCEPT !.at = "join",
                                                                               !.ask = offset]]
    BY <2>2 DEF HubInv, LockInv, Types, ActorRecords, Idle
  <2> QED
    BY <1>3, <2>1, <2>2
<1> QED
  BY <1>1, <1>2, <1>4, ActorsMove, HubHas

\* A hub that waits, reads or finds itself empty keeps what it has.
LEMMA WaitSteps ==
  ASSUME HubConstants, HubInv, NEW h \in Hubs, wait_for_room(h) \/ emptied(h)
  PROVE  HubInv'
<1>1. LockInv'
  BY WaitsLock DEF HubInv
<1>2. /\ UNCHANGED <<written, exited, actor, client>>
      /\ \/ hub' = [hub EXCEPT ![h].at = "teardown", ![h].done = TRUE]
         \/ hub' = [hub EXCEPT ![h].at = "read"]
  BY DEF wait_for_room, emptied
<1>3. \A k \in Hubs : /\ hub'[k].start = hub[k].start /\ hub'[k].end = hub[k].end
                      /\ hub'[k].clients = hub[k].clients /\ hub'[k].owner = hub[k].owner
                      /\ hub[k].done => hub'[k].done
  BY <1>2 DEF HubInv, LockInv, Types, HubRecords
<1>4. ASSUME NEW k \in Hubs, NEW c \in hub'[k].clients PROVE OnHub(k, c)'
  BY <1>2, <1>3, HubHas, StaysOn
<1> QED
  BY <1>1, <1>2, <1>3, <1>4, HubHas, HubKept

-----------------------------------------------------------------------------
(* Events are queued and received. *)

\* An event at the end of a queue of output.
LEMMA FineAppend ==
  ASSUME NEW q \in Seq(Events), NEW e \in Events, NEW got \in Nat, NEW w, NEW x,
         \A i \in 1 .. Len(q) : q[i].kind = "out" /\ q[i].n = got + i,
         e.kind = "out" => e.n = got + Len(q) + 1,
         e.kind = "behind" => e.n = got + Len(q),
         e.kind = "exit" => x /\ w = got + Len(q),
         NEW r, r.queue = Append(q, e), r.got = got, r.told # "exit"
  PROVE  Fine(r, w, x)
<1>1. PICK p \in Seq(Events) : p = Append(q, e)
  BY Queued
<1>2. /\ Len(p) = Len(q) + 1 /\ Len(q) \in Nat /\ p[Len(q) + 1] = e
      /\ \A i \in 1 .. Len(q) : p[i] = q[i]
  BY <1>1, Queued, ZenonT(40)
<1>3. ASSUME NEW i \in 1 .. Len(p)
      PROVE  /\ p[i].kind = "out" => p[i].n = got + i
             /\ p[i].kind # "out" => i = Len(p)
             /\ p[i].kind = "behind" => p[i].n = got + i - 1
             /\ p[i].kind = "exit" => x /\ w = got + i - 1
  <2>1. CASE i \in 1 .. Len(q)
    <3>1. p[i].kind = "out" /\ p[i].n = got + i
      BY <1>2, <2>1, ZenonT(40)
    <3> QED
      BY <3>1
  <2>2. CASE i = Len(q) + 1
    <3>1. p[i] = e
      BY <1>2, <2>2, ZenonT(40)
    <3> QED
      BY <1>2, <2>2, <3>1
  <2> QED
    BY <1>2, <2>1, <2>2
<1>4. r.queue = p
  BY <1>1
<1> QED
  BY <1>3, <1>4, ZenonT(40) DEF Fine

\* A client on a hub has output queued up to its end.
LEMMA OnHubHas ==
  ASSUME HubInv, NEW h \in Hubs, NEW c \in hub[h].clients
  PROVE  /\ c \in Clients /\ client[c] \in ClientRecords /\ client[c].queue \in Seq(Events)
         /\ client[c].got \in Nat /\ client[c].told = "none" /\ client[c].hub = h
         /\ \A i \in 1 .. Len(client[c].queue) :
              client[c].queue[i].kind = "out" /\ client[c].queue[i].n = client[c].got + i
         /\ client[c].got + Len(client[c].queue) = hub[h].end /\ Len(client[c].queue) \in Nat
         /\ actor[c].at = "in"
<1>1. c \in Clients /\ OnHub(h, c) /\ Fine(client[c], written, exited) /\ Types
  BY HubHas
<1>2. client[c] \in ClientRecords /\ client[c].queue \in Seq(Events) /\ client[c].got \in Nat
  BY <1>1 DEF Types, ClientRecords
<1>3. Len(client[c].queue) \in Nat
  BY <1>2, LenProperties
<1>4. \A i \in 1 .. Len(client[c].queue) : client[c].queue[i].kind = "out"
  BY <1>1 DEF OnHub
<1>5. \A i \in 1 .. Len(client[c].queue) : client[c].queue[i].n = client[c].got + i
  BY <1>1, <1>4 DEF Fine
<1> QED
  BY <1>1, <1>2, <1>3, <1>4, <1>5 DEF OnHub

\* publish: who is not too far behind has the unit, who is has the offset
\* before it.
LEMMA PublishStep ==
  ASSUME HubConstants, HubInv, NEW h \in Hubs, publish(h)
  PROVE  HubInv'
<1>1. LockInv' /\ Types
  BY PublishLocks, HubHas
<1>2. /\ UNCHANGED <<written, exited, actor>> /\ hub[h].end < written
  BY DEF publish
<1>3. PICK end : end = hub'[h].end
  OBVIOUS
<1>4. /\ end = hub[h].end + 1
      /\ hub'[h].clients = hub[h].clients \ Behind(h)
      /\ hub'[h].owner = IF hub[h].owner \in Behind(h) THEN "none" ELSE hub[h].owner
      /\ hub'[h].done = hub[h].done
      /\ hub[h].start <= hub[h].end => hub'[h].start <= hub'[h].end
      /\ \A k \in Hubs : k # h => hub'[k] = hub[k]
      /\ \A c \in Clients : client'[c] = IF c \in hub[h].clients THEN queue(h, c, end) ELSE client[c]
  BY <1>1, <1>3, PublishTypes, ZenonT(40)
<1>5. end \in Nat /\ end <= written /\ hub[h].end \in Nat /\ written \in Nat
  BY <1>1, <1>2, <1>4 DEF Types, HubRecords
<1>6. ASSUME NEW c \in hub[h].clients
      PROVE  /\ Fine(client'[c], written, exited)
             /\ c \notin Behind(h) => OnHub(h, c)'
  <2>1. /\ c \in Clients /\ client[c] \in ClientRecords /\ client[c].queue \in Seq(Events)
        /\ client[c].got \in Nat /\ client[c].told = "none" /\ client[c].hub = h
        /\ \A i \in 1 .. Len(client[c].queue) :
             client[c].queue[i].kind = "out" /\ client[c].queue[i].n = client[c].got + i
        /\ client[c].got + Len(client[c].queue) = hub[h].end /\ Len(client[c].queue) \in Nat
        /\ actor[c].at = "in"
    BY OnHubHas
  <2>2. client'[c] = queue(h, c, end)
    BY <1>4, <2>1
  <2>3. CASE c \in Behind(h)
    <3>0. end - 1 \in Nat
      BY <1>4, <1>5
    <3>. Last("behind", end - 1) \in Events
      BY <3>0 DEF Last, Events, Kinds
    <3>1. PICK e \in Events : e = Last("behind", end - 1)
      OBVIOUS
    <3>2. client'[c] = [client[c] EXCEPT !.queue = Append(client[c].queue, e)]
      BY <2>2, <2>3, <3>1 DEF queue, Reach
    <3>3. /\ client'[c].queue = Append(client[c].queue, e) /\ client'[c].got = client[c].got
          /\ client'[c].told = "none"
      BY <2>1, <3>2 DEF ClientRecords
    <3>4. e.kind = "behind" /\ e.n = client[c].got + Len(client[c].queue)
      BY <1>4, <1>5, <2>1, <3>1 DEF Last
    <3> QED
      BY <2>1, <2>3, <3>3, <3>4, FineAppend
  <2>4. CASE c \notin Behind(h)
    <3>1. PICK e \in Events : e = Unit(end, 1)
      BY <1>5 DEF Unit, Events, Kinds
    <3>2. client'[c] = [client[c] EXCEPT !.queue = Append(client[c].queue, e),
                                         !.queued = client[c].queued + 1]
      BY <2>2, <2>4, <3>1 DEF queue
    <3>3. /\ client'[c].queue = Append(client[c].queue, e) /\ client'[c].got = client[c].got
          /\ client'[c].told = "none" /\ client'[c].hub = h
      BY <2>1, <3>2 DEF ClientRecords
    <3>4. e.kind = "out" /\ e.n = client[c].got + Len(client[c].queue) + 1
      BY <1>4, <1>5, <2>1, <3>1 DEF Unit
    <3>5. Fine(client'[c], written, exited)
      BY <2>1, <3>3, <3>4, FineAppend
    <3>6. PICK p \in Seq(Events) : p = Append(client[c].queue, e)
      BY <2>1, Queued
    <3>7. /\ Len(p) = Len(client[c].queue) + 1 /\ p[Len(client[c].queue) + 1] = e
          /\ \A i \in 1 .. Len(client[c].queue) : p[i] = client[c].queue[i]
      BY <2>1, <3>6, Queued, ZenonT(40)
    <3>8. client[c].got + Len(p) = end
      <4>1. client[c].got \in Nat /\ Len(client[c].queue) \in Nat /\ hub[h].end \in Nat
        BY <1>5, <2>1
      <4>2. /\ client[c].got + Len(client[c].queue) = hub[h].end /\ end = hub[h].end + 1
            /\ Len(p) = Len(client[c].queue) + 1
        BY <1>4, <2>1, <3>7
      <4>3. PICK g \in Nat, m \in Nat : g = client[c].got /\ m = Len(client[c].queue)
        BY <4>1
      <4>6. PICK k : k = Len(p)
        OBVIOUS
      <4>4. g + m = hub[h].end /\ k = m + 1
        BY <4>2, <4>3, <4>6
      <4>5. g + k = end
        BY <4>2, <4>4
      <4> QED
        BY <4>3, <4>5, <4>6
    <3>9. \A i \in 1 .. Len(p) : p[i].kind = "out"
      <4>1. ASSUME NEW i \in 1 .. Len(p) PROVE p[i].kind = "out"
        <5>1. i \in 1 .. Len(client[c].queue) \/ i = Len(client[c].queue) + 1
          BY <2>1, <3>7
        <5> QED
          BY <2>1, <3>4, <3>7, <5>1, ZenonT(40)
      <4> QED
        BY <4>1
    <3>10. client'[c].queue = p
      BY <3>3, <3>6
    <3>11. actor'[c].at = "in"
      BY <1>2, <2>1
    <3>12. OnHub(h, c)'
      BY <1>3, <3>3, <3>8, <3>9, <3>10, <3>11, ZenonT(40) DEF OnHub
    <3> QED
      BY <3>5, <3>12
  <2> QED
    BY <2>3, <2>4
<1>7. \A c \in Clients : Fine(client'[c], written, exited)
  BY <1>4, <1>6, HubHas
<1>8. ASSUME NEW k \in Hubs, NEW c \in hub'[k].clients PROVE OnHub(k, c)'
  <2>1. CASE k = h
    BY <1>4, <1>6, <2>1
  <2>2. CASE k # h
    <3>1. c \in hub[k].clients /\ hub'[k].end = hub[k].end
      BY <1>4, <2>2
    <3>2. c \in Clients /\ OnHub(k, c) /\ client[c].hub = k
      BY <3>1, HubHas, OnHubHas
    <3>3. c \notin hub[h].clients
      BY <2>2, <3>2, OnHubHas
    <3>4. client'[c] = client[c]
      BY <1>4, <3>2, <3>3
    <3> QED
      BY <1>2, <3>1, <3>2, <3>4, StaysOn
  <2> QED
    BY <2>1, <2>2
<1>9. ASSUME NEW k \in Hubs
      PROVE  /\ hub'[k].start <= hub'[k].end /\ hub'[k].end <= written
             /\ hub'[k].done \/ hub'[k].owner \in hub'[k].clients \cup {"none"}
  <2>1. /\ hub[k].start <= hub[k].end /\ hub[k].end <= written
        /\ hub[k].done \/ hub[k].owner \in hub[k].clients \cup {"none"}
    BY HubHas
  <2>2. CASE k = h
    BY <1>3, <1>4, <1>5, <2>1, <2>2
  <2>3. CASE k # h
    BY <1>4, <2>1, <2>3
  <2> QED
    BY <2>2, <2>3
<1>10. \A a \in Actors : actor'[a].ask <= written
  BY <1>2, HubHas
<1> QED
  BY <1>1, <1>2, <1>7, <1>8, <1>9, <1>10, HubKept

\* finish: the exit is told when the hub has all the session wrote.
LEMMA FinishStep ==
  ASSUME HubConstants, HubInv, NEW h \in Hubs, NEW why \in {"exit", "gone"}, finish(h, why)
  PROVE  HubInv'
<1>1. LockInv' /\ Types
  BY PublishLocks, HubHas
<1>2. /\ UNCHANGED <<written, exited, actor>>
      /\ why = "exit" => exited /\ hub[h].end = written
  BY DEF finish
<1>3. /\ hub'[h].clients = {} /\ hub'[h].done = TRUE /\ hub'[h].end = hub[h].end
      /\ hub'[h].start = hub[h].start
      /\ \A k \in Hubs : k # h => hub'[k] = hub[k]
      /\ \A c \in Clients : client'[c] =
           IF c \in hub[h].clients
           THEN [client[c] EXCEPT !.queue = Append(@, Last(why, 0))] ELSE client[c]
  BY <1>1, FinishTypes, ZenonT(40)
<1>4. ASSUME NEW c \in hub[h].clients PROVE Fine(client'[c], written, exited)
  <2>1. /\ c \in Clients /\ client[c] \in ClientRecords /\ client[c].queue \in Seq(Events)
        /\ client[c].got \in Nat /\ client[c].told = "none"
        /\ \A i \in 1 .. Len(client[c].queue) :
             client[c].queue[i].kind = "out" /\ client[c].queue[i].n = client[c].got + i
        /\ client[c].got + Len(client[c].queue) = hub[h].end
    BY OnHubHas
  <2>. Last(why, 0) \in Events
    BY DEF Last, Events, Kinds
  <2>2. PICK e \in Events : e = Last(why, 0)
    OBVIOUS
  <2>3. client'[c] = [client[c] EXCEPT !.queue = Append(client[c].queue, e)]
    BY <1>3, <2>1, <2>2
  <2>4. /\ client'[c].queue = Append(client[c].queue, e) /\ client'[c].got = client[c].got
        /\ client'[c].told = "none"
    BY <2>1, <2>3 DEF ClientRecords
  <2>5. /\ e.kind = why
        /\ e.kind = "exit" => exited /\ written = client[c].got + Len(client[c].queue)
    BY <1>2, <2>1, <2>2 DEF Last
  <2> QED
    BY <2>1, <2>4, <2>5, FineAppend
<1>5. \A c \in Clients : Fine(client'[c], written, exited)
  BY <1>3, <1>4, HubHas
<1>6. ASSUME NEW k \in Hubs, NEW c \in hub'[k].clients PROVE OnHub(k, c)'
  <2>1. k # h /\ c \in hub[k].clients /\ hub'[k].end = hub[k].end
    BY <1>3
  <2>2. c \in Clients /\ OnHub(k, c) /\ client[c].hub = k
    BY <2>1, HubHas, OnHubHas
  <2>3. c \notin hub[h].clients
    BY <2>1, <2>2, OnHubHas
  <2> QED
    BY <1>2, <1>3, <2>1, <2>2, <2>3, StaysOn
<1>7. ASSUME NEW k \in Hubs
      PROVE  /\ hub'[k].start <= hub'[k].end /\ hub'[k].end <= written
             /\ hub'[k].done \/ hub'[k].owner \in hub'[k].clients \cup {"none"}
  BY <1>3, HubHas
<1>8. \A a \in Actors : actor'[a].ask <= written
  BY <1>2, HubHas
<1> QED
  BY <1>1, <1>2, <1>5, <1>6, <1>7, <1>8, HubKept

LEMMA TeardownStep ==
  ASSUME HubConstants, HubInv, NEW h \in Hubs, teardown(h)
  PROVE  HubInv'
<1>1. LockInv' /\ Types
  BY TeardownLocks, HubHas
<1>2. UNCHANGED <<written, exited, client>>
  BY DEF teardown
<1>3. /\ hub'[h] = [NewHub EXCEPT !.at = "closed", !.done = TRUE]
      /\ \A k \in Hubs : k # h => hub'[k] = hub[k]
      /\ actor'[h].ask = actor[h].ask /\ \A b \in Actors : b # h => actor'[b] = actor[b]
  BY <1>1, TeardownTypes
<1>4. hub'[h].clients = {} /\ hub'[h].done = TRUE /\ hub'[h].start = 0 /\ hub'[h].end = 0
  BY <1>3 DEF NewHub
<1>5. ASSUME NEW k \in Hubs, NEW c \in hub'[k].clients PROVE OnHub(k, c)'
  <2>1. k # h /\ c \in hub[k].clients /\ hub'[k].end = hub[k].end
    BY <1>3, <1>4
  <2>2. c \in Clients /\ OnHub(k, c) /\ c # h /\ c \in Actors
    BY <2>1, HubHas, WhoIsWho
  <2> QED
    BY <1>2, <1>3, <2>1, <2>2, StaysOn
<1>6. ASSUME NEW k \in Hubs
      PROVE  /\ hub'[k].start <= hub'[k].end /\ hub'[k].end <= written
             /\ hub'[k].done \/ hub'[k].owner \in hub'[k].clients \cup {"none"}
  <2>1. written \in Nat
    BY <1>1 DEF Types
  <2>2. CASE k = h
    BY <1>4, <2>1, <2>2
  <2>3. CASE k # h
    BY <1>3, <2>3, HubHas
  <2> QED
    BY <2>2, <2>3
<1>7. \A a \in Actors : actor'[a].ask <= written
  BY <1>3, HubHas
<1> QED
  BY <1>1, <1>2, <1>5, <1>6, <1>7, HubHas, HubKept

-----------------------------------------------------------------------------
(* start and attach, when they have the slot. *)

\* A client on its way to a hub is on none.
LEMMA OnNone ==
  ASSUME HubInv, NEW c \in Clients, actor[c].at # "in", NEW k \in Hubs
  PROVE  c \notin hub[k].clients
BY HubHas DEF OnHub

LEMMA AddStep ==
  ASSUME HubConstants, HubInv, NEW c \in Joiners, actor[c].held,
         actor[c].at \in {"join", "open"}, NEW h \in Hubs, add(h, c, actor[c].ask),
         Lets(c, "in", hubOf), UNCHANGED <<load, written, exited, readers>>,
         writer' = writer \/ (actor[c].at = "open" /\ writer' = {})
  PROVE  HubInv'
<1>1. /\ c \in Clients /\ c \in Actors /\ Types /\ LockInv /\ hub[h].start <= hub[h].end
      /\ actor[c].at # "in"
  BY WhoIsWho, HubHas
<1>2. actor[c].ask \in Nat /\ Locks /\ hubOf \in [Gens -> Hubs \cup {"none"}] /\ "in" \in Places
  BY <1>1 DEF Types, ActorRecords, LockInv, Places
<1>3. /\ hub' \in [Hubs -> HubRecords] /\ client' \in [Clients -> ClientRecords]
      /\ \A k \in Hubs : /\ hub'[k].at = hub[k].at /\ hub'[k].conn = hub[k].conn
                         /\ hub'[k].start = hub[k].start /\ hub'[k].end = hub[k].end
                         /\ hub'[k].done = hub[k].done
                         /\ k # h => hub'[k] = hub[k]
      /\ hub'[h].clients = hub[h].clients \cup {c}
      /\ hub'[h].owner = hub[h].owner \/ hub'[h].owner = c
      /\ \A d \in Clients : d # c => client'[d] = client[d]
      /\ client'[c].hub = h /\ client'[c].told = "none"
      /\ client'[c].got + Len(client'[c].queue) = hub[h].end
      /\ \A i \in 1 .. Len(client'[c].queue) :
           client'[c].queue[i].kind = "out" /\ client'[c].queue[i].n = client'[c].got + i
  <2>1. hub[h].start <= hub[h].end /\ actor[c].ask \in Nat /\ c \in Clients /\ Types
    BY <1>1, <1>2
  <2> QED
    BY <2>1, AddTypes, SMTT(30)
<1>4. LockInv'
  BY <1>1, <1>3, JoinLocks
<1>5. /\ actor'[c].at = "in" /\ actor'[c].ask = actor[c].ask
      /\ \A b \in Actors : b # c => actor'[b] = actor[b]
  BY <1>1, <1>2, LetsGo, ZenonT(40)
<1>6. Fine(client'[c], written, exited)
  BY <1>3 DEF Fine
<1>7. ASSUME NEW k \in Hubs, NEW d \in hub'[k].clients PROVE OnHub(k, d)'
  <2>1. CASE d = c
    <3>1. k = h
      BY <1>1, <1>3, <2>1, OnNone
    <3> QED
      BY <1>3, <1>5, <2>1, <3>1 DEF OnHub
  <2>2. CASE d # c
    <3>1. d \in hub[k].clients
      BY <1>3, <2>2
    <3>2. d \in Clients /\ d \in Actors /\ OnHub(k, d)
      BY <3>1, HubHas, WhoIsWho
    <3> QED
      BY <1>3, <1>5, <2>2, <3>2, StaysOn
  <2> QED
    BY <2>1, <2>2
<1>8. ASSUME NEW k \in Hubs
      PROVE  /\ hub'[k].start <= hub'[k].end /\ hub'[k].end <= written
             /\ hub'[k].done \/ hub'[k].owner \in hub'[k].clients \cup {"none"}
  BY <1>3, HubHas
<1>9. \A a \in Actors : actor'[a].ask <= written
  BY <1>5, HubHas
<1>10. \A d \in Clients : Fine(client'[d], written, exited)
  BY <1>3, <1>6, HubHas
<1> QED
  BY <1>4, <1>7, <1>8, <1>9, <1>10, HubKept

\* attach tries the hub in the slot, and joins the one it finds there.
LEMMA JoinStep ==
  ASSUME HubConstants, HubInv, NEW c \in Joiners, join(c) \/ attachJoins(c)
  PROVE  HubInv'
<1>1. /\ actor[c].held /\ actor[c].at \in {"join", "open"}
      /\ UNCHANGED <<load, written, exited, readers>>
      /\ writer' = writer \/ (actor[c].at = "open" /\ writer' = {})
  BY DEF join, attachJoins
<1>2. /\ c \in Actors /\ Types /\ LockInv /\ actor[c].slot = map /\ map \in Gens
      /\ hubOf \in [Gens -> Hubs \cup {"none"}] /\ hubOf[map] \in Hubs \cup {"none"} /\ Locks
      /\ "alone" \in Places
  BY <1>1, WhoIsWho, HubHas DEF LockInv, Locks, Types, Places
<1>3. CASE Joinable(hubOf[actor[c].slot])
  <2>1. PICK h \in Hubs : h = hubOf[actor[c].slot]
    BY <1>2, <1>3 DEF Joinable
  <2>2. add(h, c, actor[c].ask) /\ Lets(c, "in", hubOf)
    BY <1>3, <2>1 DEF join, attachJoins
  <2> QED
    BY <1>1, <2>2, AddStep
<1>4. CASE ~Joinable(hubOf[actor[c].slot])
  <2>1. Lets(c, "alone", hubOf) /\ UNCHANGED <<hub, client>>
    BY <1>4 DEF join, attachJoins
  <2>2. /\ hub' \in [Hubs -> HubRecords] /\ client' \in [Clients -> ClientRecords]
        /\ \A k \in Hubs : hub'[k].at = hub[k].at /\ hub'[k].conn = hub[k].conn
    BY <1>2, <2>1 DEF Types
  <2>3. LockInv'
    BY <1>1, <1>2, <2>1, <2>2, JoinLocks
  <2>4. actor'[c].ask = actor[c].ask /\ \A b \in Actors : b # c => actor'[b] = actor[b]
    BY <1>1, <1>2, <2>1, LetsGo, ZenonT(40)
  <2>5. \A b \in Actors : /\ actor'[b].ask <= written
                          /\ actor'[b].at # actor[b].at => actor[b].at # "in"
    BY <1>1, <2>4, HubHas
  <2> QED
    BY <1>1, <2>1, <2>3, <2>5, ActorsMove
<1> QED
  BY <1>3, <1>4

\* A hub is opened, with its first client in it.
LEMMA OpenStep ==
  ASSUME HubConstants, HubInv, NEW c \in Clients, actor[c].held, NEW n \in Hubs,
         \/ c = Starter /\ actor[c].at = "install" /\ readers' = {} /\ writer' = writer
         \/ c \in Joiners /\ actor[c].at = "open" /\ readers' = readers /\ writer' = {},
         NEW offset \in Nat, offset <= written, open(n, c, offset),
         Lets(c, "in", [hubOf EXCEPT ![actor[c].slot] = n]),
         UNCHANGED <<load, written, exited>>,
         \A k \in Hubs : ~hub[k].conn
  PROVE  HubInv'
<1>1. /\ c \in Actors /\ Types /\ LockInv /\ actor[c].at # "in" /\ Locks
      /\ actor[c].slot = map /\ map \in Gens /\ "in" \in Places
  BY WhoIsWho, HubHas DEF LockInv, Locks, Types, Places
<1>2. /\ hub' \in [Hubs -> HubRecords] /\ client' \in [Clients -> ClientRecords]
      /\ hub[n].at = "none"
      /\ \A k \in Hubs : k # n => hub'[k] = hub[k]
      /\ hub'[n].at = "wait" /\ hub'[n].conn = TRUE
      /\ hub'[n].start = offset /\ hub'[n].end = offset
      /\ hub'[n].clients = {c} /\ hub'[n].owner = c
      /\ \A d \in Clients : d # c => client'[d] = client[d]
      /\ client'[c].hub = n /\ client'[c].told = "none" /\ client'[c].got = offset
      /\ client'[c].queue = <<>>
  BY <1>1, OpenTypes, ZenonT(40)
<1>3. LockInv'
  BY <1>1, <1>2, OpenLocks, ZenonT(40)
<1>4. PICK hs : hs = [hubOf EXCEPT ![map] = n]
  OBVIOUS
<1>5. /\ hs \in [Gens -> Hubs \cup {"none"}] /\ \A g \in Gens : g # map => hs[g] = hubOf[g]
  BY <1>1, <1>4 DEF Types
<1>6. Lets(c, "in", hs)
  BY <1>1, <1>4
<1>7. /\ actor'[c].at = "in" /\ actor'[c].ask = actor[c].ask
      /\ \A b \in Actors : b # c => actor'[b] = actor[b]
  BY <1>1, <1>5, <1>6, LetsGo, ZenonT(40)
<1>8. Len(client'[c].queue) = 0
  BY <1>2, EmptySeq
<1>9. Fine(client'[c], written, exited)
  BY <1>2, <1>8 DEF Fine
<1>10. ASSUME NEW k \in Hubs, NEW d \in hub'[k].clients PROVE OnHub(k, d)'
  <2>1. CASE d = c
    <3>1. k = n
      BY <1>1, <1>2, <2>1, OnNone
    <3> QED
      BY <1>2, <1>7, <1>8, <2>1, <3>1 DEF OnHub
  <2>2. CASE d # c
    <3>1. d \in hub[k].clients /\ k # n
      BY <1>2, <2>2
    <3>2. d \in Clients /\ d \in Actors /\ OnHub(k, d)
      BY <3>1, HubHas, WhoIsWho
    <3> QED
      BY <1>2, <1>7, <2>2, <3>1, <3>2, StaysOn
  <2> QED
    BY <2>1, <2>2
<1>11. ASSUME NEW k \in Hubs
       PROVE  /\ hub'[k].start <= hub'[k].end /\ hub'[k].end <= written
              /\ hub'[k].done \/ hub'[k].owner \in hub'[k].clients \cup {"none"}
  <2>1. CASE k = n
    BY <1>2, <2>1
  <2>2. CASE k # n
    BY <1>2, <2>2, HubHas
  <2> QED
    BY <2>1, <2>2
<1>12. \A a \in Actors : actor'[a].ask <= written
  BY <1>7, HubHas
<1>13. \A d \in Clients : Fine(client'[d], written, exited)
  BY <1>2, <1>9, HubHas
<1> QED
  BY <1>3, <1>10, <1>11, <1>12, <1>13, HubKept

\* start has its hub: there was none, since nobody could attach meanwhile.
LEMMA StartStep ==
  ASSUME HubConstants, HubInv, startInstalls
  PROVE  HubInv'
<1>1. /\ actor[Starter].at = "install" /\ actor[Starter].held /\ readers' = {}
      /\ UNCHANGED <<load, written, exited, writer>>
  BY DEF startInstalls
<1>2. PICK h \in Hubs : /\ open(h, Starter, 0)
                        /\ Lets(Starter, "in", [hubOf EXCEPT ![actor[Starter].slot] = h])
  BY DEF startInstalls
<1>3. Starter \in Clients /\ LockInv /\ 0 <= written
  BY WhoIsWho, HubHas DEF Types
<1>4. \A k \in Hubs : ~hub[k].conn
  BY <1>1, <1>3 DEF LockInv, Starts, Conns
<1> QED
  BY <1>1, <1>2, <1>3, <1>4, OpenStep

\* attach opens a hub where the slot has none, or one whose connection is gone.
LEMMA AttachOpenStep ==
  ASSUME HubConstants, HubInv, NEW c \in Joiners, attachOpens(c)
  PROVE  HubInv'
<1>1. /\ actor[c].at = "open" /\ actor[c].held /\ writer' = {}
      /\ Closed(hubOf[actor[c].slot])
      /\ UNCHANGED <<load, written, exited, readers>>
  BY DEF attachOpens
<1>2. /\ c \in Actors /\ c \in Clients /\ Types /\ LockInv /\ actor[c].slot = map /\ map \in Gens
      /\ hubOf \in [Gens -> Hubs \cup {"none"}] /\ Locks /\ "failed" \in Places
      /\ actor[c].ask \in Nat /\ actor[c].ask <= written
  BY <1>1, WhoIsWho, HubHas DEF LockInv, Locks, Types, Places, ActorRecords
<1>3. CASE \E n \in Hubs : /\ open(n, c, actor[c].ask)
                           /\ Lets(c, "in", [hubOf EXCEPT ![actor[c].slot] = n])
  <2>1. PICK n \in Hubs : /\ open(n, c, actor[c].ask)
                          /\ Lets(c, "in", [hubOf EXCEPT ![actor[c].slot] = n])
    BY <1>3
  <2>2. ASSUME NEW k \in Hubs, hub[k].conn PROVE FALSE
    <3>1. hubOf[map] = k /\ hub[k].at \in {"wait", "read", "teardown"}
      BY <1>2, <2>2 DEF LockInv, Conns
    <3>2. k # "none"
      BY WhoIsWho
    <3> QED
      BY <1>1, <1>2, <3>1, <3>2 DEF Closed
  <2> QED
    BY <1>1, <1>2, <2>1, <2>2, OpenStep
<1>4. CASE Lets(c, "failed", hubOf) /\ UNCHANGED <<hub, client>>
  <2>1. /\ hub' \in [Hubs -> HubRecords] /\ client' \in [Clients -> ClientRecords]
        /\ \A k \in Hubs : hub'[k].at = hub[k].at /\ hub'[k].conn = hub[k].conn
    BY <1>2, <1>4 DEF Types
  <2>2. LockInv'
    BY <1>1, <1>2, <1>4, <2>1, JoinLocks
  <2>3. actor'[c].ask = actor[c].ask /\ \A b \in Actors : b # c => actor'[b] = actor[b]
    BY <1>1, <1>2, <1>4, LetsGo, ZenonT(40)
  <2>4. \A b \in Actors : /\ actor'[b].ask <= written
                          /\ actor'[b].at # actor[b].at => actor[b].at # "in"
    BY <1>1, <2>3, HubHas
  <2> QED
    BY <1>1, <1>4, <2>2, <2>4, ActorsMove
<1> QED
  BY <1>3, <1>4 DEF attachOpens

-----------------------------------------------------------------------------
(* The clients and the session. *)

\* recv: the first event is taken, and what is left is numbered from it.
LEMMA RecvTypes ==
  ASSUME HubConstants, Types, NEW c \in Clients, recv(c)
  PROVE  /\ client' \in [Clients -> ClientRecords]
         /\ \A d \in Clients : d # c => client'[d] = client[d]
         /\ client[c].queue \in Seq(Events) /\ client[c].queue # <<>> /\ client[c].told = "none"
         /\ client'[c].queue = Tail(client[c].queue) /\ client'[c].hub = client[c].hub
         /\ \/ /\ Head(client[c].queue).kind = "out" /\ client'[c].told = "none"
               /\ client'[c].got = Head(client[c].queue).n
            \/ /\ Head(client[c].queue).kind # "out"
               /\ client'[c].told = Head(client[c].queue).kind /\ client'[c].got = client[c].got
<1>1. /\ client[c] \in ClientRecords /\ client[c].queue \in Seq(Events) /\ client[c].queue # <<>>
      /\ client[c].told = "none" /\ client[c].queued \in Int
  BY DEF recv, Types, ClientRecords
<1>2. PICK e \in Events, t \in Seq(Events) : e = Head(client[c].queue) /\ t = Tail(client[c].queue)
  BY <1>1, HeadTailProperties
<1>3. client[c].queued - e.counted \in Int
  BY <1>1 DEF Events
<1>4. PICK m \in Int : m = client[c].queued - e.counted
  BY <1>3
<1>5. PICK r : r = IF e.kind = "out"
                   THEN [client[c] EXCEPT !.queue = t, !.got = e.n, !.queued = m]
                   ELSE [client[c] EXCEPT !.queue = t, !.told = e.kind]
  OBVIOUS
<1>6. client' = [client EXCEPT ![c] = r]
  BY <1>1, <1>2, <1>4, <1>5 DEF recv, ClientRecords
<1>7. e.n \in Nat /\ e.kind \in Kinds
  BY DEF Events
<1>8. /\ r \in ClientRecords /\ r.queue = t /\ r.hub = client[c].hub
      /\ \/ e.kind = "out" /\ r.told = "none" /\ r.got = e.n
         \/ e.kind # "out" /\ r.told = e.kind /\ r.got = client[c].got
  BY <1>1, <1>5, <1>7 DEF ClientRecords, Kinds
<1>9. /\ client' \in [Clients -> ClientRecords] /\ client'[c] = r
      /\ \A d \in Clients : d # c => client'[d] = client[d]
  BY <1>6, <1>8 DEF Types
<1> QED
  BY <1>1, <1>2, <1>8, <1>9, ZenonT(40)

LEMMA RecvStep ==
  ASSUME HubConstants, HubInv, NEW c \in Clients, recv(c)
  PROVE  HubInv'
<1>1. /\ UNCHANGED <<load, written, exited, map, hubOf, readers, writer, actor, hub>>
      /\ Types /\ LockInv
  BY HubHas DEF recv
<1>2. /\ client' \in [Clients -> ClientRecords]
      /\ \A d \in Clients : d # c => client'[d] = client[d]
      /\ client[c].queue \in Seq(Events) /\ client[c].queue # <<>> /\ client[c].told = "none"
      /\ client'[c].queue = Tail(client[c].queue) /\ client'[c].hub = client[c].hub
      /\ \/ /\ Head(client[c].queue).kind = "out" /\ client'[c].told = "none"
            /\ client'[c].got = Head(client[c].queue).n
         \/ /\ Head(client[c].queue).kind # "out"
            /\ client'[c].told = Head(client[c].queue).kind /\ client'[c].got = client[c].got
  BY <1>1, RecvTypes
<1>3. Types'
  BY <1>1, <1>2 DEF Types
<1>4. LockInv'
  BY <1>1, <1>3, LocksKept DEF LockInv, Conns
<1>5. PICK q \in Seq(Events), t \in Seq(Events), g \in Nat, n \in Nat :
        /\ q = client[c].queue /\ t = Tail(client[c].queue) /\ g = client[c].got /\ n = Len(t)
  <2>1. client[c].got \in Nat
    BY <1>1 DEF Types, ClientRecords
  <2>2. Tail(client[c].queue) \in Seq(Events)
    BY <1>2, HeadTailProperties
  <2>3. Len(Tail(client[c].queue)) \in Nat
    BY <2>2, LenProperties
  <2> QED
    BY <1>2, <2>1, <2>2, <2>3, ZenonT(40)
<1>6. Len(q) = n + 1 /\ Head(q) = q[1] /\ \A i \in 1 .. n : t[i] = q[i + 1]
  <2>1. q # <<>> /\ t = Tail(q)
    BY <1>2, <1>5
  <2>2. Len(q) \in Nat /\ Len(t) = Len(q) - 1 /\ \A i \in 1 .. Len(t) : t[i] = q[i + 1]
    BY <2>1, HeadTailProperties, LenProperties
  <2>3. Head(q) = q[1]
    BY <2>1
  <2> QED
    BY <1>5, <2>2, <2>3
<1>7. /\ \A i \in 1 .. n + 1 :
           /\ q[i].kind = "out" => q[i].n = g + i
           /\ q[i].kind # "out" => i = n + 1
           /\ q[i].kind = "behind" => q[i].n = g + i - 1
           /\ q[i].kind = "exit" => exited /\ written = g + i - 1
  BY <1>5, <1>6, HubHas, ZenonT(40) DEF Fine
<1>8. \/ q[1].kind = "out" /\ client'[c].told = "none" /\ client'[c].got = g + 1
      \/ q[1].kind # "out" /\ client'[c].told = q[1].kind /\ client'[c].got = g
  <2>1. 1 \in 1 .. n + 1
    OBVIOUS
  <2>2. /\ q[1].kind = "out" => q[1].n = g + 1
    BY <1>7, <2>1, ZenonT(40)
  <2>3. Head(client[c].queue) = q[1]
    BY <1>5, <1>6
  <2> QED
    BY <1>2, <1>5, <2>2, <2>3
<1>9. Fine(client'[c], written, exited)
  <2>1. ASSUME NEW i \in 1 .. n
        PROVE  /\ t[i].kind = "out" => t[i].n = client'[c].got + i
               /\ t[i].kind # "out" => i = n
               /\ t[i].kind = "behind" => t[i].n = client'[c].got + i - 1
               /\ t[i].kind = "exit" => exited /\ written = client'[c].got + i - 1
    <3>1. i + 1 \in 1 .. n + 1 /\ i \in Nat
      OBVIOUS
    <3>2. client'[c].got = g + 1
      <4>1. 1 \in 1 .. n + 1 /\ 1 # n + 1
        OBVIOUS
      <4>2. q[1].kind = "out"
        BY <1>7, <4>1, ZenonT(40)
      <4> QED
        BY <1>8, <4>2
    <3>3. /\ t[i].kind = "out" => t[i].n = g + (i + 1)
          /\ t[i].kind # "out" => i + 1 = n + 1
          /\ t[i].kind = "behind" => t[i].n = g + (i + 1) - 1
          /\ t[i].kind = "exit" => exited /\ written = g + (i + 1) - 1
      BY <1>6, <1>7, <3>1, ZenonT(40)
    <3>4. /\ g + (i + 1) = client'[c].got + i /\ g + (i + 1) - 1 = client'[c].got + i - 1
          /\ i + 1 = n + 1 => i = n
      BY <3>1, <3>2
    <3> QED
      BY <3>3, <3>4, ZenonT(40)
  <2>2. client'[c].queue = t /\ Len(t) = n
    BY <1>2, <1>5
  <2>3. client'[c].told = "exit" => exited /\ client'[c].got = written
    <3>1. CASE q[1].kind = "exit"
      <4>1. 1 \in 1 .. n + 1
        OBVIOUS
      <4>2. exited /\ written = g + 1 - 1
        BY <1>7, <3>1, <4>1, ZenonT(40)
      <4> QED
        BY <1>8, <3>1, <4>2
    <3>2. CASE q[1].kind # "exit"
      BY <1>8, <3>2
    <3> QED
      BY <3>1, <3>2
  <2> QED
    BY <2>1, <2>2, <2>3, ZenonT(40) DEF Fine
<1>10. ASSUME NEW h \in Hubs, NEW d \in hub'[h].clients PROVE OnHub(h, d)'
  <2>1. d \in hub[h].clients /\ d \in Clients /\ OnHub(h, d) /\ hub' = hub /\ actor' = actor
    BY <1>1, HubHas
  <2>2. CASE d # c
    BY <1>2, <2>1, <2>2, StaysOn
  <2>3. CASE d = c
    <3>1. /\ actor[c].at = "in" /\ client[c].hub = h
          /\ \A i \in 1 .. n + 1 : q[i].kind = "out"
          /\ g + (n + 1) = hub[h].end
      BY <1>5, <1>6, <2>1, <2>3 DEF OnHub
    <3>2. 1 \in 1 .. n + 1 /\ \A i \in 1 .. n : i + 1 \in 1 .. n + 1
      OBVIOUS
    <3>3. q[1].kind = "out" /\ \A i \in 1 .. n : t[i].kind = "out"
      BY <1>6, <3>1, <3>2, ZenonT(40)
    <3>4. client'[c].told = "none" /\ client'[c].got = g + 1
      BY <1>8, <3>3
    <3>5. client'[c].got + n = hub[h].end
      BY <3>1, <3>4
    <3>6. client'[c].queue = t /\ Len(t) = n /\ client'[c].hub = h
      BY <1>2, <1>5, <3>1
    <3> QED
      BY <2>1, <2>3, <3>1, <3>3, <3>4, <3>5, <3>6, ZenonT(40) DEF OnHub
  <2> QED
    BY <2>2, <2>3
<1>11. \A d \in Clients : Fine(client'[d], written, exited)
  BY <1>2, <1>9, HubHas
<1>12. \A k \in Hubs : /\ hub'[k].start <= hub'[k].end /\ hub'[k].end <= written
                       /\ hub'[k].done \/ hub'[k].owner \in hub'[k].clients \cup {"none"}
  BY <1>1, HubHas
<1>13. \A a \in Actors : actor'[a].ask <= written
  BY <1>1, HubHas
<1> QED
  BY <1>1, <1>4, <1>10, <1>11, <1>12, <1>13, HubKept

\* A new client has nothing queued.
LEMMA FineNew ==
  ASSUME NEW w, NEW x
  PROVE  Fine(NewClient, w, x) /\ NewClient \in ClientRecords
<1>1. PICK q \in Seq(Events) : q = <<>> /\ Len(q) = 0
  BY EmptySeq
<1>2. NewClient = [hub |-> "none", queue |-> q, queued |-> 0, got |-> 0, told |-> "none"]
  BY <1>1 DEF NewClient
<1>3. NewClient.queue = q /\ NewClient.told = "none" /\ NewClient \in ClientRecords
  BY <1>2 DEF ClientRecords
<1> QED
  BY <1>1, <1>3 DEF Fine

LEMMA LeaveStep ==
  ASSUME HubConstants, HubInv, NEW c \in Clients, leave(c)
  PROVE  HubInv'
<1>1. /\ UNCHANGED <<load, written, exited, map, hubOf, readers, writer>>
      /\ Types /\ LockInv /\ c \in Actors /\ "left" \in Places /\ At(c, "left")
      /\ actor[c].at = "in" /\ client[c].hub # "none"
  BY HubHas, WhoIsWho DEF leave, Places
<1>2. PICK h \in Hubs : h = client[c].hub
  BY <1>1 DEF Types, ClientRecords
<1>3. /\ hub' = [hub EXCEPT ![h].clients = @ \ {c}, ![h].owner = IF @ = c THEN "none" ELSE @]
      /\ client' = [client EXCEPT ![c] = NewClient]
  BY <1>2 DEF leave
<1>4. /\ actor' \in [Actors -> ActorRecords] /\ actor'[c].at = "left"
      /\ actor'[c].slot = actor[c].slot /\ actor'[c].held = actor[c].held
      /\ actor'[c].ask = actor[c].ask
      /\ \A b \in Actors : b # c => actor'[b] = actor[b]
  BY <1>1, MovesOn, ZenonT(40)
<1>5. /\ client' \in [Clients -> ClientRecords] /\ client'[c] = NewClient
      /\ \A d \in Clients : d # c => client'[d] = client[d]
  BY <1>1, <1>3, FineNew DEF Types
<1>6. /\ hub' \in [Hubs -> HubRecords] /\ \A k \in Hubs : k # h => hub'[k] = hub[k]
      /\ hub'[h].clients = hub[h].clients \ {c}
      /\ hub'[h].owner \in {hub[h].owner, "none"} /\ hub'[h].owner # c
      /\ hub'[h].at = hub[h].at /\ hub'[h].conn = hub[h].conn /\ hub'[h].done = hub[h].done
      /\ hub'[h].start = hub[h].start /\ hub'[h].end = hub[h].end
  <2>1. PICK o : o = IF hub[h].owner = c THEN "none" ELSE hub[h].owner
    OBVIOUS
  <2>2. hub[h] \in HubRecords /\ hub \in [Hubs -> HubRecords] /\ hub[h].owner \in Clients \cup {"none"}
    BY <1>1 DEF Types, HubRecords
  <2>3. o \in Clients \cup {"none"} /\ o \in {hub[h].owner, "none"} /\ o # c
    BY <2>1, <2>2, WhoIsWho
  <2>4. PICK n : n = [hub[h] EXCEPT !.clients = hub[h].clients \ {c}, !.owner = o]
    OBVIOUS
  <2>5. /\ n \in HubRecords /\ n.clients = hub[h].clients \ {c} /\ n.owner = o
        /\ n.at = hub[h].at /\ n.conn = hub[h].conn /\ n.done = hub[h].done
        /\ n.start = hub[h].start /\ n.end = hub[h].end
    BY <2>2, <2>3, <2>4, ZenonT(60) DEF HubRecords
  <2>6. hub' = [hub EXCEPT ![h] = n]
    BY <1>3, <2>1, <2>2, <2>4, ZenonT(60)
  <2>7. hub' \in [Hubs -> HubRecords] /\ hub'[h] = n /\ \A k \in Hubs : k # h => hub'[k] = hub[k]
    BY <2>2, <2>5, <2>6
  <2> QED
    BY <2>3, <2>5, <2>7, ZenonT(40)
<1>7. hub'[h].end = hub[h].end
  BY <1>6
<1>8. Types'
  BY <1>1, <1>4, <1>5, <1>6 DEF Types
<1>9. \A k \in Hubs : /\ hub'[k].at = hub[k].at /\ hub'[k].conn = hub[k].conn
                      /\ hub'[k].done = hub[k].done
                      /\ hub'[k].start = hub[k].start /\ hub'[k].end = hub[k].end
  BY <1>6, <1>7, ZenonT(40)
<1>10. LockInv'
  <2>1. \A k \in Hubs : hub'[k].conn <=> hub'[k].at \in {"wait", "read", "teardown"}
    BY <1>1, <1>9 DEF LockInv, Conns
  <2>2. \A b \in Actors : /\ actor'[b].held = actor[b].held /\ actor'[b].slot = actor[b].slot
                          /\ actor'[b].at # actor[b].at => b = c
    BY <1>4
  <2> QED
    BY <1>1, <1>4, <1>8, <1>9, <2>1, <2>2, LocksKept
<1>11. ASSUME NEW k \in Hubs, NEW d \in hub'[k].clients PROVE OnHub(k, d)'
  <2>1. d \in hub[k].clients
    BY <1>6
  <2>2. d \in Clients /\ d \in Actors /\ OnHub(k, d) /\ client[d].hub = k
    BY <2>1, HubHas, OnHubHas, WhoIsWho
  <2>3. d # c
    BY <1>2, <1>6, <2>2
  <2> QED
    BY <1>4, <1>5, <1>9, <2>2, <2>3, StaysOn
<1>12. ASSUME NEW k \in Hubs
       PROVE  /\ hub'[k].start <= hub'[k].end /\ hub'[k].end <= written
              /\ hub'[k].done \/ hub'[k].owner \in hub'[k].clients \cup {"none"}
  <2>1. CASE k = h
    BY <1>6, <1>7, <2>1, HubHas
  <2>2. CASE k # h
    BY <1>6, <2>2, HubHas
  <2> QED
    BY <2>1, <2>2
<1>13. \A d \in Clients : Fine(client'[d], written, exited)
  BY <1>5, HubHas, FineNew
<1>14. \A a \in Actors : actor'[a].ask <= written
  BY <1>4, HubHas
<1> QED
  BY <1>1, <1>10, <1>11, <1>12, <1>13, <1>14, HubKept

LEMMA InputStep ==
  ASSUME HubConstants, HubInv, NEW c \in Clients, input(c)
  PROVE  HubInv'
<1>1. /\ UNCHANGED <<load, written, exited, map, hubOf, readers, writer, actor, client>>
      /\ Types /\ LockInv /\ client[c].hub # "none" /\ c \in hub[client[c].hub].clients
  BY HubHas DEF input
<1>2. PICK h \in Hubs : h = client[c].hub
  BY <1>1 DEF Types, ClientRecords
<1>3. hub' = [hub EXCEPT ![h].owner = c]
  BY <1>2 DEF input
<1>4. /\ hub' \in [Hubs -> HubRecords] /\ \A k \in Hubs : k # h => hub'[k] = hub[k]
      /\ hub'[h].owner = c /\ hub'[h].clients = hub[h].clients
  BY <1>1, <1>3 DEF Types, HubRecords
<1>5. /\ hub'[h].at = hub[h].at /\ hub'[h].conn = hub[h].conn /\ hub'[h].done = hub[h].done
      /\ hub'[h].start = hub[h].start /\ hub'[h].end = hub[h].end
  BY <1>1, <1>3 DEF Types, HubRecords
<1>6. Types'
  BY <1>1, <1>4 DEF Types
<1>7. \A k \in Hubs : /\ hub'[k].at = hub[k].at /\ hub'[k].conn = hub[k].conn
                      /\ hub'[k].clients = hub[k].clients
                      /\ hub'[k].start = hub[k].start /\ hub'[k].end = hub[k].end
  BY <1>4, <1>5, ZenonT(40)
<1>8. LockInv'
  BY <1>1, <1>6, <1>7, LocksKept DEF LockInv, Conns
<1>9. ASSUME NEW k \in Hubs, NEW d \in hub'[k].clients PROVE OnHub(k, d)'
  BY <1>1, <1>7, HubHas, StaysOn
<1>10. ASSUME NEW k \in Hubs
       PROVE  /\ hub'[k].start <= hub'[k].end /\ hub'[k].end <= written
              /\ hub'[k].done \/ hub'[k].owner \in hub'[k].clients \cup {"none"}
  <2>1. CASE k = h
    BY <1>1, <1>2, <1>4, <1>5, <2>1, HubHas
  <2>2. CASE k # h
    BY <1>4, <2>2, HubHas
  <2> QED
    BY <2>1, <2>2
<1>11. \A a \in Actors : actor'[a].ask <= written
  BY <1>1, HubHas
<1>12. \A d \in Clients : Fine(client'[d], written, exited)
  BY <1>1, HubHas
<1> QED
  BY <1>1, <1>8, <1>9, <1>10, <1>11, <1>12, HubKept

\* While the session runs nobody has been told of its exit, and once it has
\* exited it writes no more.
LEMMA SessionStep ==
  ASSUME HubConstants, HubInv, Writes \/ Exits
  PROVE  HubInv'
<1>1. /\ UNCHANGED <<load, map, hubOf, readers, writer, actor, hub, client>>
      /\ ~exited /\ Types /\ LockInv
  BY HubHas DEF Writes, Exits
<1>2. /\ written \in Nat /\ written' \in Nat /\ written <= written' /\ exited' \in BOOLEAN
  <2>1. written \in Nat
    BY <1>1 DEF Types
  <2>2. CASE Writes
    BY <1>1, <2>1, <2>2 DEF Types, Writes
  <2>3. CASE Exits
    BY <2>1, <2>3 DEF Exits
  <2> QED
    BY <2>1, <2>2, <2>3
<1>3. Types'
  BY <1>1, <1>2 DEF Types
<1>4. LockInv'
  BY <1>1, <1>3, LocksKept DEF LockInv, Conns
<1>5. ASSUME NEW c \in Clients PROVE Fine(client'[c], written', exited')
  <2>1. Fine(client[c], written, exited) /\ client'[c] = client[c]
    BY <1>1, HubHas
  <2> QED
    BY <1>1, <2>1, ZenonT(40) DEF Fine
<1>6. ASSUME NEW k \in Hubs, NEW d \in hub'[k].clients PROVE OnHub(k, d)'
  BY <1>1, HubHas, StaysOn
<1>7. ASSUME NEW k \in Hubs
      PROVE  /\ hub'[k].start <= hub'[k].end /\ hub'[k].end <= written'
             /\ hub'[k].done \/ hub'[k].owner \in hub'[k].clients \cup {"none"}
  <2>1. /\ hub[k].start <= hub[k].end /\ hub[k].end <= written
        /\ hub[k].done \/ hub[k].owner \in hub[k].clients \cup {"none"}
        /\ hub[k].end \in Nat
    BY <1>1, HubHas DEF Types, HubRecords
  <2> QED
    BY <1>1, <1>2, <2>1
<1>8. ASSUME NEW a \in Actors PROVE actor'[a].ask <= written'
  <2>1. actor[a].ask \in Nat /\ actor[a].ask <= written
    BY <1>1, HubHas DEF Types, ActorRecords
  <2> QED
    BY <1>1, <1>2, <2>1
<1> QED
  BY <1>4, <1>5, <1>6, <1>7, <1>8, HubKept

-----------------------------------------------------------------------------
(* The theorems. *)

LEMMA HubInit ==
  ASSUME HubConstants, Init
  PROVE  HubInv
<1>1. /\ load \in Loads /\ written = 0 /\ exited = FALSE /\ map = 0
      /\ hubOf = [g \in Gens |-> "none"] /\ readers = {} /\ writer = {}
      /\ actor = [a \in Actors |-> Idle] /\ hub = [h \in Hubs |-> NewHub]
      /\ client = [c \in Clients |-> NewClient]
  BY DEF Init
<1>2. Idle \in ActorRecords /\ NewHub \in HubRecords /\ NewClient \in ClientRecords
  BY FineNew DEF Idle, ActorRecords, Places, NewHub, HubRecords
<1>3. Types
  BY <1>1, <1>2 DEF Types
<1>4. \A a \in Actors : actor[a].at = "idle" /\ actor[a].held = FALSE /\ actor[a].ask = 0
  BY <1>1 DEF Idle
<1>5. \A h \in Hubs : /\ hub[h].at = "none" /\ hub[h].start = 0 /\ hub[h].end = 0
                      /\ hub[h].clients = {} /\ hub[h].owner = "none" /\ hub[h].conn = FALSE
  BY <1>1 DEF NewHub
<1>6. Locks
  BY <1>1, <1>4 DEF Locks
<1>7. Starts
  BY <1>1, <1>4, <1>5, WhoIsWho DEF Starts
<1>8. Conns
  BY <1>4, <1>5, WhoIsWho DEF Conns
<1>9. Reached
  BY <1>1, <1>4, <1>5 DEF Reached
<1>10. \A c \in Clients : client[c].queue = <<>> /\ client[c].told = "none"
  BY <1>1 DEF NewClient
<1>11. \A c \in Clients : Len(client[c].queue) = 0
  BY <1>10, EmptySeq
<1>12. ExitTold
  BY <1>10, <1>11 DEF ExitTold
<1>13. Gapless
  BY <1>10, <1>11 DEF Gapless
<1>14. OwnerIsThere
  BY <1>5 DEF OwnerIsThere
<1> QED
  BY <1>3, <1>6, <1>7, <1>8, <1>9, <1>12, <1>13, <1>14 DEF HubInv, LockInv, QueueInv

LEMMA HubNext ==
  ASSUME HubConstants, HubInv, [Next]_vars
  PROVE  HubInv'
<1>1. CASE Steps
  <2>1. CASE \E a \in Actors : pickSlot(a) \/ lock_slot(a)
    BY <2>1, SlotSteps
  <2>2. CASE \E h \in Hubs : Reads(h)
    <3>1. PICK h \in Hubs : Reads(h)
      BY <2>2
    <3>2. CASE wait_for_room(h) \/ emptied(h)
      BY <3>2, WaitSteps
    <3>3. CASE publish(h)
      BY <3>3, PublishStep
    <3>4. CASE finish(h, "exit")
      BY <3>4, FinishStep
    <3>5. CASE teardown(h)
      BY <3>5, TeardownStep
    <3>6. CASE remove(h)
      BY <3>6, RemoveStep
    <3> QED
      BY <3>1, <3>2, <3>3, <3>4, <3>5, <3>6 DEF Reads
  <2>3. CASE startAnswered
    BY <2>3, StartMoveSteps
  <2>4. CASE startInstalls
    BY <2>4, StartStep
  <2>5. CASE \E c \in Joiners : join(c) \/ noStarts(c) \/ attachJoins(c) \/ attachOpens(c)
    BY <2>5, JoinStep, AttachMoveSteps, AttachOpenStep
  <2>6. CASE \E c \in Clients : recv(c)
    BY <2>6, RecvStep
  <2> QED
    BY <1>1, <2>1, <2>2, <2>3, <2>4, <2>5, <2>6 DEF Steps
<1>2. CASE start
  BY <1>2, StartMoveSteps
<1>3. CASE Writes \/ Exits
  BY <1>3, SessionStep
<1>4. CASE \E h \in Hubs : finish(h, "gone")
  BY <1>4, FinishStep
<1>5. CASE \E c \in Joiners : \E offset \in 0 .. load.out : attach(c, offset)
  <2>1. PICK c \in Joiners, offset \in 0 .. load.out : attach(c, offset)
    BY <1>5
  <2>2. offset \in Nat
    BY HubHas DEF HubConstants, Types
  <2> QED
    BY <2>1, <2>2, AttachMoveSteps
<1>6. CASE \E c \in Clients : leave(c) \/ input(c)
  BY <1>6, LeaveStep, InputStep
<1>7. CASE UNCHANGED vars
  <2>1. UNCHANGED <<load, written, exited, map, hubOf, readers, writer, actor, hub, client>>
    BY <1>7 DEF vars
  <2>2. Types /\ LockInv
    BY HubHas
  <2>3. Types'
    BY <2>1, <2>2 DEF Types
  <2>4. LockInv'
    BY <2>1, <2>2, <2>3, LocksKept DEF LockInv, Conns
  <2> QED
    BY <2>1, <2>4, ActorsMove, HubHas
<1> QED
  BY <1>1, <1>2, <1>3, <1>4, <1>5, <1>6, <1>7 DEF Next

\* The invariant the three theorems rest on, for every number of clients,
\* hubs and slots: who holds the slot of the map is alone, a connection is
\* that of the hub in it, and a client on a hub has output up to its end.
THEOREM HubAlways ==
  ASSUME HubConstants
  PROVE  Spec => []HubInv
<1>1. Init => HubInv
  BY HubInit
<1>2. HubInv /\ [Next]_vars => HubInv'
  BY HubNext
<1> QED
  BY <1>1, <1>2, PTL DEF Spec

\* start, attach, leave and teardown, however they overlap, never leave the
\* guest with two hub connections of one session.
THEOREM OneHubConnection ==
  ASSUME HubConstants
  PROVE  Spec => []OneConnection
<1>1. HubInv => OneConnection
  <2>. SUFFICES ASSUME HubInv PROVE OneConnection
    OBVIOUS
  <2>1. LockInv
    BY HubHas
  <2>2. \A h, k \in Hubs : hub[h].conn /\ hub[k].conn => h = k
    BY <2>1 DEF LockInv, Conns
  <2>3. PICK S : S = {h \in Hubs : hub[h].conn}
    OBVIOUS
  <2>4. Cardinality(S) <= 1
    <3>1. CASE S = {}
      BY <3>1, FS_EmptySet
    <3>2. CASE S # {}
      <4>1. PICK h : h \in S
        BY <3>2
      <4>2. S = {h}
        BY <2>2, <2>3, <4>1
      <4> QED
        BY <4>2, FS_Singleton
    <3> QED
      BY <3>1, <3>2
  <2> QED
    BY <2>3, <2>4 DEF OneConnection
<1> QED
  BY <1>1, HubAlways, PTL

\* What a client of a hub gets has no gap and no unit twice, a dropped one is
\* told the offset it has, and the exit comes after all that was written,
\* wherever it joined and however far it lagged.
THEOREM HubGapless ==
  ASSUME HubConstants
  PROVE  Spec => []Gapless
<1>1. HubInv => Gapless
  BY DEF HubInv, QueueInv
<1> QED
  BY <1>1, HubAlways, PTL

\* The input of a hub that is open is owned by a client on it, or by nobody.
THEOREM HubOwner ==
  ASSUME HubConstants
  PROVE  Spec => []OwnerIsThere
<1>1. HubInv => OwnerIsThere
  BY DEF HubInv
<1> QED
  BY <1>1, HubAlways, PTL
=============================================================================
