----------------------------- MODULE SessionHub -----------------------------
(***************************************************************************)
(* The hubs of the node agent (crates/shuru-node/src/serve/hub.rs) and the *)
(* exec clients on them (exec.rs, ws.rs): one guest connection per session *)
(* that has clients, fanned out to them. One session is modelled, with the *)
(* locks start and attach take, the map of slots whose entry comes and     *)
(* goes, the hubs opened one after another, their readers and teardown.    *)
(*                                                                         *)
(* Output is a run of units, numbered from 1: unit n ends at offset n. A   *)
(* client's queue holds units, counted toward its lag or not, and then how *)
(* it ended.                                                               *)
(***************************************************************************)
EXTENDS Naturals, Sequences, FiniteSets

CONSTANTS Starter,         \* the client that starts the session
          Joiners,         \* clients that attach to it
          Hubs,            \* hubs there can be
          Gens,            \* slots there can be, as 1..n
          KEPT, MAX_BEHIND, READ_ON_BELOW,   \* in units
          Loads            \* who attaches, and the bound on the units written

VARIABLES
  load,                    \* the load of this behaviour
  written, exited,         \* the session in the guest
  map,                     \* the slot in sessions of Hubs, 0 for none
  hubOf,                   \* the hub in each slot, "none" for none
  readers, writer,         \* starting: who holds it shared, who alone
  actor,                   \* each client, and each hub's remove: where it is
  hub,                     \* each hub: its state and its reader
  client                   \* each client: its hub, queue, what it got

vars == <<load, written, exited, map, hubOf, readers, writer, actor, hub, client>>

Clients == {Starter} \cup Joiners
NewHub == [at |-> "none", start |-> 0, end |-> 0, clients |-> {}, owner |-> "none",
           done |-> FALSE, conn |-> FALSE]
NewClient == [hub |-> "none", queue |-> <<>>, queued |-> 0, got |-> 0, told |-> "none"]
Idle == [at |-> "idle", slot |-> 0, held |-> FALSE, ask |-> 0]
Actors == Clients \cup Hubs

Init ==
  /\ load \in Loads /\ written = 0 /\ exited = FALSE /\ map = 0 /\ hubOf = [g \in Gens |-> "none"]
  /\ readers = {} /\ writer = {}
  /\ actor = [a \in Actors |-> Idle] /\ hub = [h \in Hubs |-> NewHub]
  /\ client = [c \in Clients |-> NewClient]

At(a, at) == actor' = [actor EXCEPT ![a].at = at]

-----------------------------------------------------------------------------
(* The slot of the session *)

\* lock_slot picks the entry of the map, or makes one, and waits for it.
Used == {map} \cup {actor[a].slot : a \in Actors}
pickSlot(a) ==
  /\ actor[a].at \in {"join", "open", "install", "remove"} /\ actor[a].slot = 0
  /\ \E g \in Gens : /\ g = IF map # 0 THEN map ELSE CHOOSE n \in Gens : n \notin Used
                     /\ map' = g /\ actor' = [actor EXCEPT ![a].slot = g]
  /\ UNCHANGED <<load, written, exited, hubOf, readers, writer, hub, client>>
\* Once locked it must still be the one in the map, or the loop goes round.
StillCurrent(g) == map = g
lock_slot(a) ==
  LET g == actor[a].slot
  IN  /\ g # 0 /\ ~actor[a].held /\ \A b \in Actors : actor[b].held => actor[b].slot # g
      /\ actor' = IF StillCurrent(g) THEN [actor EXCEPT ![a].held = TRUE]
                                     ELSE [actor EXCEPT ![a].slot = 0]
      /\ UNCHANGED <<load, written, exited, map, hubOf, readers, writer, hub, client>>
\* Reserved goes: a slot without a hub leaves the map if it is still there.
Emptied(g, hs) == IF hs[g] = "none" /\ map = g THEN 0 ELSE map
Lets(a, at, hs) ==
  /\ actor' = [actor EXCEPT ![a] = [Idle EXCEPT !.at = at, !.ask = actor[a].ask]]
  /\ hubOf' = hs
  /\ map' = Emptied(actor[a].slot, hs)

-----------------------------------------------------------------------------
(* A hub *)

\* add: what is kept from the offset on is queued, and is not counted.
Unit(n, counted) == [kind |-> "out", n |-> n, counted |-> counted]
Last(kind, n) == [kind |-> kind, n |-> n, counted |-> 0]
Clamp(o, lo, hi) == IF o < lo THEN lo ELSE IF o > hi THEN hi ELSE o
Replay(from, end) == [i \in 1..(end - from) |-> Unit(from + i, 0)]
add(h, c, offset) ==
  LET from == Clamp(offset, hub[h].start, hub[h].end)
  IN  /\ hub' = [hub EXCEPT ![h].clients = @ \cup {c},
                            ![h].owner = IF @ = "none" THEN c ELSE @]
      /\ client' = [client EXCEPT ![c] = [NewClient EXCEPT
           !.hub = h, !.queue = Replay(from, hub[h].end), !.got = from]]
\* open: a hub over a connection, its first client in it before it reads.
\* The guest starts the connection at the offset it was asked for.
open(h, c, offset) ==
  /\ hub[h].at = "none"
  /\ hub' = [hub EXCEPT ![h] = [NewHub EXCEPT !.at = "wait", !.start = offset, !.end = offset,
                                              !.clients = {c}, !.owner = c, !.conn = TRUE]]
  /\ client' = [client EXCEPT ![c] = [NewClient EXCEPT !.hub = h, !.got = offset]]

\* room, in wait_for_room: no client left, or some client with room.
WithRoom(h) == {c \in hub[h].clients : client[c].queued < READ_ON_BELOW}
wait_for_room(h) ==
  /\ hub[h].at = "wait"
  /\ \/ hub[h].clients = {} /\ hub' = [hub EXCEPT ![h].at = "teardown", ![h].done = TRUE]
     \/ WithRoom(h) # {} /\ hub' = [hub EXCEPT ![h].at = "read"]
  /\ UNCHANGED <<load, written, exited, map, hubOf, readers, writer, actor, client>>
\* emptied, beside the read of a frame
emptied(h) ==
  /\ hub[h].at = "read" /\ hub[h].clients = {}
  /\ hub' = [hub EXCEPT ![h].at = "teardown", ![h].done = TRUE]
  /\ UNCHANGED <<load, written, exited, map, hubOf, readers, writer, actor, client>>

\* publish: the unit is kept, the oldest dropped past KEPT, and queued for
\* each client; one too far behind is dropped and told the offset before it.
Behind(h) == {c \in hub[h].clients : client[c].queued + 1 > MAX_BEHIND}
Reach(end) == end - 1
queue(h, c, end) ==
  IF c \in Behind(h)
  THEN [client[c] EXCEPT !.queue = Append(@, Last("behind", Reach(end)))]
  ELSE [client[c] EXCEPT !.queue = Append(@, Unit(end, 1)), !.queued = @ + 1]
publish(h) ==
  LET end == hub[h].end + 1
  IN  /\ hub[h].at = "read" /\ hub[h].end < written
      /\ client' = [c \in Clients |-> IF c \in hub[h].clients THEN queue(h, c, end) ELSE client[c]]
      /\ hub' = [hub EXCEPT ![h].at = "wait", ![h].end = end,
           ![h].start = IF end - @ > KEPT THEN end - KEPT ELSE @,
           ![h].clients = @ \ Behind(h), ![h].owner = IF @ \in Behind(h) THEN "none" ELSE @]
      /\ UNCHANGED <<load, written, exited, map, hubOf, readers, writer, actor>>
\* finish: EXIT, an error or the end of the connection is the last event.
finish(h, why) ==
  /\ hub[h].at = "read" /\ (why = "exit" => exited /\ hub[h].end = written)
  /\ client' = [c \in Clients |-> IF c \in hub[h].clients
                                  THEN [client[c] EXCEPT !.queue = Append(@, Last(why, 0))]
                                  ELSE client[c]]
  /\ hub' = [hub EXCEPT ![h].at = "teardown", ![h].done = TRUE, ![h].clients = {}]
  /\ UNCHANGED <<load, written, exited, map, hubOf, readers, writer, actor>>
\* The end of read: the writer is stopped and waited for, both halves of the
\* connection go, and its permit, and then the hub says so and is removed.
teardown(h) ==
  /\ hub[h].at = "teardown" /\ hub' = [hub EXCEPT ![h] = [NewHub EXCEPT !.at = "closed", !.done = TRUE]]
  /\ At(h, "remove")
  /\ UNCHANGED <<load, written, exited, map, hubOf, readers, writer, client>>
remove(h) ==
  /\ actor[h].at = "remove" /\ actor[h].held
  /\ Lets(h, "gone", IF hubOf[actor[h].slot] = h THEN [hubOf EXCEPT ![actor[h].slot] = "none"] ELSE hubOf)
  /\ UNCHANGED <<load, written, exited, readers, writer, hub, client>>

-----------------------------------------------------------------------------
(* start and attach *)

\* start holds starting shared from before the guest has the session until
\* its hub is in place.
start ==
  /\ actor[Starter].at = "idle" /\ writer = {} /\ readers' = {Starter} /\ At(Starter, "handshake")
  /\ UNCHANGED <<load, written, exited, map, hubOf, writer, hub, client>>
\* handshake: the guest answers in time, or the start fails or is given up.
startAnswered ==
  /\ actor[Starter].at = "handshake"
  /\ \/ At(Starter, "install") /\ UNCHANGED readers
     \/ At(Starter, "failed") /\ readers' = {}
  /\ UNCHANGED <<load, written, exited, map, hubOf, writer, hub, client>>
startInstalls ==
  /\ actor[Starter].at = "install" /\ actor[Starter].held /\ readers' = {}
  /\ \E h \in Hubs : open(h, Starter, 0) /\ Lets(Starter, "in", [hubOf EXCEPT ![actor[Starter].slot] = h])
  /\ UNCHANGED <<load, written, exited, writer>>

\* attach asks for an offset it has seen, and tries the open hub first. The
\* session is one the guest has: a start is past its handshake.
Started == actor[Starter].at \notin {"idle", "handshake"}
attach(c, offset) ==
  /\ actor[c].at = "idle" /\ c \in load.who /\ Started /\ offset <= written
  /\ actor' = [actor EXCEPT ![c] = [Idle EXCEPT !.at = "join", !.ask = offset]]
  /\ UNCHANGED <<load, written, exited, map, hubOf, readers, writer, hub, client>>
Joinable(h) == h # "none" /\ ~hub[h].done
join(c) ==
  LET h == hubOf[actor[c].slot]
  IN  /\ actor[c].at = "join" /\ actor[c].held
      /\ IF Joinable(h) THEN add(h, c, actor[c].ask) /\ Lets(c, "in", hubOf)
                        ELSE Lets(c, "alone", hubOf) /\ UNCHANGED <<hub, client>>
      /\ UNCHANGED <<load, written, exited, readers, writer>>
\* Then starting is taken alone, until the hub is in place.
\* Mutant: a start that has no hub yet is not waited for.
StartsAnyway == writer = {}
StartsAlone == readers = {} /\ writer = {}
noStarts(c) ==
  /\ actor[c].at = "alone" /\ StartsAlone /\ writer' = {c} /\ At(c, "open")
  /\ UNCHANGED <<load, written, exited, map, hubOf, readers, hub, client>>
\* A hub found now is joined; one that is done is waited for until closed.
attachJoins(c) ==
  LET h == hubOf[actor[c].slot]
  IN  /\ actor[c].at = "open" /\ actor[c].held /\ Joinable(h)
      /\ add(h, c, actor[c].ask) /\ Lets(c, "in", hubOf) /\ writer' = {}
      /\ UNCHANGED <<load, written, exited, readers>>
Closed(h) == IF h = "none" THEN TRUE ELSE hub[h].at = "closed"
attachOpens(c) ==
  LET h == hubOf[actor[c].slot]
  IN  /\ actor[c].at = "open" /\ actor[c].held /\ ~Joinable(h) /\ Closed(h) /\ writer' = {}
      /\ \/ \E n \in Hubs : /\ open(n, c, actor[c].ask)
                            /\ Lets(c, "in", [hubOf EXCEPT ![actor[c].slot] = n])
         \/ Lets(c, "failed", hubOf) /\ UNCHANGED <<hub, client>>
      /\ UNCHANGED <<load, written, exited, readers>>

-----------------------------------------------------------------------------
(* The clients: bridge and http of exec.rs *)

\* recv, and the message for the client; a last event ends the output.
recv(c) ==
  /\ client[c].hub # "none" /\ client[c].told = "none" /\ client[c].queue # <<>>
  /\ LET e == Head(client[c].queue)
         r == [client[c] EXCEPT !.queue = Tail(@)]
         told == IF e.kind = "out" THEN [r EXCEPT !.got = e.n, !.queued = @ - e.counted]
                                   ELSE [r EXCEPT !.told = e.kind]
     IN  client' = [client EXCEPT ![c] = told]
  /\ UNCHANGED <<load, written, exited, map, hubOf, readers, writer, actor, hub>>
\* The attachment is dropped: leave.
leave(c) ==
  /\ client[c].hub # "none" /\ actor[c].at = "in" /\ At(c, "left")
  /\ hub' = [hub EXCEPT ![client[c].hub].clients = @ \ {c},
                        ![client[c].hub].owner = IF @ = c THEN "none" ELSE @]
  /\ client' = [client EXCEPT ![c] = NewClient]
  /\ UNCHANGED <<load, written, exited, map, hubOf, readers, writer>>
\* input: the owner's, or the first to send where there is none.
input(c) ==
  /\ actor[c].at = "in" /\ client[c].hub # "none" /\ ~hub[client[c].hub].done
  /\ c \in hub[client[c].hub].clients /\ hub[client[c].hub].owner = "none"
  /\ hub' = [hub EXCEPT ![client[c].hub].owner = c]
  /\ UNCHANGED <<load, written, exited, map, hubOf, readers, writer, actor, client>>

\* The session in the guest.
Writes == /\ Started /\ ~exited /\ written < load.out /\ written' = written + 1
          /\ UNCHANGED <<load, exited, map, hubOf, readers, writer, actor, hub, client>>
Exits == /\ Started /\ ~exited /\ exited' = TRUE
         /\ UNCHANGED <<load, written, map, hubOf, readers, writer, actor, hub, client>>

-----------------------------------------------------------------------------
\* What the agent does by itself, and what is the world's to do.
Reads(h) == wait_for_room(h) \/ emptied(h) \/ publish(h) \/ finish(h, "exit")
            \/ teardown(h) \/ remove(h)
Steps == \/ \E a \in Actors : pickSlot(a) \/ lock_slot(a)
         \/ \E h \in Hubs : Reads(h)
         \/ startAnswered \/ startInstalls
         \/ \E c \in Joiners : join(c) \/ noStarts(c) \/ attachJoins(c) \/ attachOpens(c)
         \/ \E c \in Clients : recv(c)
Next == \/ Steps \/ start \/ Writes \/ Exits
        \/ \E h \in Hubs : finish(h, "gone")
        \/ \E c \in Joiners : \E offset \in 0..load.out : attach(c, offset)
        \/ \E c \in Clients : leave(c) \/ input(c)
Spec == Init /\ [][Next]_vars

-----------------------------------------------------------------------------
\* The guest never has two hub connections of one session, whatever starts,
\* attaches and teardowns overlap (starting, lock_slot, closed).
OneConnection == Cardinality({h \in Hubs : hub[h].conn}) <= 1

\* A client gets each unit after the offset it joined at, none left out and
\* none twice; one that was dropped is told exactly the offset it has when
\* its queue is read, and one that was told of the exit has all there was.
Gapless ==
  \A c \in Clients :
    /\ \A i \in 1..Len(client[c].queue) :
         LET e == client[c].queue[i]
         IN  IF e.kind = "out" THEN e.n = client[c].got + i
             ELSE /\ i = Len(client[c].queue)
                  /\ e.kind = "behind" => e.n = client[c].got + i - 1
                  /\ e.kind = "exit" => written = client[c].got + i - 1
    /\ client[c].told = "exit" => client[c].got = written

\* The input belongs to a client that is there, or is free for the next.
OwnerIsThere == \A h \in Hubs : hub[h].done \/ hub[h].owner \in hub[h].clients \cup {"none"}

\* When nothing moves by itself: nobody is left waiting for a lock, a hub
\* without clients is gone with its connection and its slot, and one with
\* clients has told them all the session wrote.
HubNotStuck ==
  ~ENABLED Steps =>
    /\ \A c \in Clients : actor[c].at \in {"idle", "in", "left", "failed"}
    /\ \A h \in Hubs : hub[h].conn => hub[h].clients # {} /\ hub[h].end = written /\ ~exited
    /\ map # 0 => \E h \in Hubs : hub[h].conn /\ hubOf[map] = h

HubSafe == OneConnection /\ Gapless /\ OwnerIsThere /\ HubNotStuck
=============================================================================
