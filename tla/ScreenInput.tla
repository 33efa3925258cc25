---------------------------- MODULE ScreenInput -----------------------------
(***************************************************************************)
(* Input to a screen (shuru-screen input.rs, and the gate of hub.rs and    *)
(* server.rs): viewers and the agent send keys and moves through a gate    *)
(* only one of them passes; one thread injects them into the X server,     *)
(* mapping a symbol the layout lacks onto a spare keycode.  The cursor     *)
(* thread tells every viewer how the cursor looks (cursor.rs).             *)
(*                                                                         *)
(* The requests that set the gate run on two worker threads and interleave *)
(* between their locks.  The process may die and be started again; the X   *)
(* server keeps its keymap, its property and what is held.  Buttons are    *)
(* keys of the layout here; Shift levels and wheel deltas are left out.    *)
(***************************************************************************)
EXTENDS Integers, Sequences, FiniteSets, SequencesExt

CONSTANTS Viewers,    \* the viewers with a stream
          Setters,    \* requests that set the gate at once
          Plain,      \* symbols of the layout: each its own keycode
          Lacking,    \* symbols the layout lacks
          Scratch,    \* spare keycodes, in the order they are used
          MaxEvents, MaxGates, MaxCrashes, MaxCursors   \* bounds

VARIABLES gate,     \* "shut", "agent" or a viewer
          setter,   \* request -> [at, to, msg]: where set_gate stands
          stream,   \* viewer -> [on, told, cursor]: what its stream was last sent
          chan,     \* events to the input thread
          inj,      \* the Injector
          x,        \* the X server: [map, prop, down, pointer]
          cursor,   \* [shown, kept, at]: on screen, in the hub, the thread
          lands,    \* the pointer was where it was meant to be at every press
          left

vars == <<gate, setter, stream, chan, inj, x, cursor, lands, left>>

Holders == Viewers \union {"agent"}
Symbols == Plain \union Lacking
NoKey == [t |-> "none", from |-> "none", key |-> "none", at |-> 0]
FreshInj == [on |-> TRUE, scratch |-> <<>>, pressed |-> {}, move |-> 0, mapping |-> NoKey]
Idle == [at |-> "idle", to |-> {}, viewer |-> "none", msg |-> FALSE]

Init ==
  /\ gate = "shut"
  /\ setter = [s \in Setters |-> Idle]
  /\ stream = [v \in Viewers |-> [on |-> FALSE, told |-> FALSE, cursor |-> 0]]
  /\ chan = <<>>
  /\ inj = FreshInj
  /\ x = [map |-> <<>>, prop |-> {}, down |-> {}, pointer |-> 0]
  /\ cursor = [shown |-> 0, kept |-> 0, at |-> "wait"]
  /\ lands = TRUE
  /\ left = [events |-> MaxEvents, gates |-> MaxGates, crashes |-> MaxCrashes, cursors |-> MaxCursors]

Moves == SelectSeq(chan, LAMBDA e : e.t = "move")
\* Where the pointer is meant to be once the events sent so far are in.
Meant == IF Moves # <<>> THEN Last(Moves).at
         ELSE IF inj.move # 0 THEN inj.move ELSE x.pointer

-----------------------------------------------------------------------------
(* The gate. *)

\* on_text and POST /input: the gate stays locked while the event goes in.
SendsInput(h) ==
  /\ inj.on /\ left.events > 0 /\ gate = h
  /\ h \in Viewers => stream[h].on
  /\ \/ \E k \in Symbols, t \in {"press", "release"} :
          chan' = Append(chan, [t |-> t, from |-> h, key |-> k, at |-> Meant])
     \/ chan' = Append(chan, [t |-> "move", from |-> h, key |-> "none", at |-> left.events])
  /\ left' = [left EXCEPT !.events = @ - 1]
  /\ UNCHANGED <<gate, setter, stream, inj, x, cursor, lands>>

ReleaseAll == [NoKey EXCEPT !.t = "all"]

\* set_gate: the gate, then the keys let go, then one message a stream.
SetGate(s) ==
  /\ inj.on /\ setter[s].at = "idle" /\ left.gates > 0
  /\ \E g \in (Holders \union {"shut"}) \ {gate} :
       /\ gate' = g
       /\ setter' = [setter EXCEPT ![s].at = "release"]
  /\ left' = [left EXCEPT !.gates = @ - 1]
  /\ UNCHANGED <<stream, chan, inj, x, cursor, lands>>

\* Mutant: only a shut gate lets keys go.
ReleaseShut(s) == IF gate = "shut" THEN Append(chan, ReleaseAll) ELSE chan

Release(s) == Append(chan, ReleaseAll)
SetGateReleases(s) ==
  /\ setter[s].at = "release"
  /\ chan' = Release(s)
  /\ setter' = [setter EXCEPT ![s] = [Idle EXCEPT !.at = "tell", !.to = {v \in Viewers : stream[v].on}]]
  /\ UNCHANGED <<gate, stream, inj, x, cursor, lands, left>>
may_input(v) == gate = v
SetGateAsks(s, v) ==
  /\ setter[s].at = "tell" /\ v \in setter[s].to
  /\ setter' = [setter EXCEPT ![s].at = "send", ![s].viewer = v, ![s].msg = may_input(v)]
  /\ UNCHANGED <<gate, stream, chan, inj, x, cursor, lands, left>>
SetGateSends(s) ==
  /\ setter[s].at = "send"
  /\ stream' = [stream EXCEPT ![setter[s].viewer].told = setter[s].msg]
  /\ setter' = [setter EXCEPT ![s].at = "tell", ![s].to = @ \ {setter[s].viewer}]
  /\ UNCHANGED <<gate, chan, inj, x, cursor, lands, left>>
SetGateEnds(s) ==
  /\ setter[s].at = "tell" /\ setter[s].to = {}
  /\ setter' = [setter EXCEPT ![s] = Idle]
  /\ UNCHANGED <<gate, stream, chan, inj, x, cursor, lands, left>>

\* add_client, under the lock of the clients: the gate and the cursor now.
Connects(v) ==
  /\ inj.on /\ ~stream[v].on
  /\ stream' = [stream EXCEPT ![v] = [on |-> TRUE, told |-> may_input(v), cursor |-> cursor.kept]]
  /\ UNCHANGED <<gate, setter, chan, inj, x, cursor, lands, left>>
\* A stream ends: keys held through it are let go, the gate stays.
Disconnects(v) ==
  /\ inj.on /\ stream[v].on /\ left.events > 0
  /\ \A s \in Setters : v \notin setter[s].to
  /\ chan' = IF may_input(v) THEN Append(chan, ReleaseAll) ELSE chan
  /\ stream' = [stream EXCEPT ![v].on = FALSE]
  /\ left' = [left EXCEPT !.events = @ - 1]
  /\ UNCHANGED <<gate, setter, inj, x, cursor, lands>>

-----------------------------------------------------------------------------
(* The input thread. *)

Mapped(k) == {i \in DOMAIN inj.scratch : inj.scratch[i].key = k}
\* The keycode of a symbol that has one: the layout's, or the spare one.
Code(k) == IF k \in Plain THEN k ELSE inj.scratch[CHOOSE i \in Mapped(k) : TRUE].kc
Held == {p.kc : p \in inj.pressed}
Used == {inj.scratch[i].kc : i \in DOMAIN inj.scratch}

\* Mutant: the least recently used spare keycode goes, held or not.
VictimHeld == IF Len(inj.scratch) < Len(Scratch) THEN {} ELSE {1}

\* The least recently used one goes, unless it is held.  inj.scratch is in
\* the order of last use.
Victim ==
  LET free == {i \in DOMAIN inj.scratch : inj.scratch[i].kc \notin Held}
  IN  IF Len(inj.scratch) < Len(Scratch) \/ free = {} THEN {}
      ELSE {CHOOSE i \in free : \A j \in free : i <= j}

\* What the thread takes from the channel.
Takes(e) == inj.on /\ inj.mapping = NoKey /\ chan # <<>> /\ Head(chan) = e

\* A move waits for the next event, so that several collapse into one.
TakesMove ==
  /\ \E e \in {chan[i] : i \in DOMAIN chan} :
       /\ Takes(e) /\ e.t = "move"
       /\ inj' = [inj EXCEPT !.move = e.at]
  /\ chan' = Tail(chan)
  /\ UNCHANGED <<gate, setter, stream, x, cursor, lands, left>>
\* The move that waited is injected before any other event, and when no event is left.
Flushed(s) == IF inj.move = 0 THEN s ELSE [s EXCEPT !.pointer = inj.move]
FlushesMove ==
  /\ inj.on /\ inj.move # 0 /\ chan = <<>> /\ inj.mapping = NoKey
  /\ x' = Flushed(x)
  /\ inj' = [inj EXCEPT !.move = 0]
  /\ UNCHANGED <<gate, setter, stream, chan, cursor, lands, left>>

\* resolve, for a symbol the layout lacks and no keycode is mapped for: the
\* keymap is changed, and after a pause the property says so.  With every
\* spare keycode held the key is ignored.
Remaps ==
  /\ \E e \in {chan[i] : i \in DOMAIN chan} :
       /\ Takes(e) /\ e.t = "press"
       /\ e.key \in Lacking /\ Mapped(e.key) = {} /\ ~\E p \in inj.pressed : p.key = e.key
       /\ LET kc == IF Len(inj.scratch) < Len(Scratch) THEN {Scratch[Len(inj.scratch) + 1]}
                    ELSE {inj.scratch[i].kc : i \in Victim}
              n == [inj EXCEPT !.move = 0]
          IN  IF kc = {} THEN inj' = n /\ x' = Flushed(x)
              ELSE \E c \in kc :
                     /\ x' = [Flushed(x) EXCEPT !.map = [d \in (DOMAIN @) \union {c} |->
                                                           IF d = c THEN e.key ELSE @[d]]]
                     /\ inj' = [n EXCEPT !.scratch = SelectSeq(@, LAMBDA r : r.kc # c),
                                         !.mapping = [e EXCEPT !.t = c]]
  /\ chan' = Tail(chan)
  /\ UNCHANGED <<gate, setter, stream, cursor, lands, left>>
Pressed(i, s, e, kc) ==
  /\ inj' = [i EXCEPT !.pressed = @ \union {[key |-> e.key, kc |-> kc, by |-> e.from]}]
  /\ x' = [s EXCEPT !.down = @ \union {[kc |-> kc, key |-> e.key]}]
  /\ lands' = (lands /\ s.pointer = e.at)
Records ==
  /\ inj.on /\ inj.mapping # NoKey
  /\ LET e == inj.mapping
         kc == e.t
         sc == Append(inj.scratch, [key |-> e.key, kc |-> kc])
     IN  Pressed([inj EXCEPT !.scratch = sc, !.mapping = NoKey],
                 [x EXCEPT !.prop = {sc[i].kc : i \in DOMAIN sc}], e, kc)
  /\ UNCHANGED <<gate, setter, stream, chan, cursor, left>>
\* A press of a symbol that has a keycode; again, while it is held, for autorepeat.
Presses ==
  /\ \E e \in {chan[i] : i \in DOMAIN chan} :
       /\ Takes(e) /\ e.t = "press"
       /\ e.key \in Plain \/ Mapped(e.key) # {} \/ \E p \in inj.pressed : p.key = e.key
       /\ IF \E p \in inj.pressed : p.key = e.key
          THEN /\ inj' = [inj EXCEPT !.move = 0]
               /\ x' = Flushed(x)
               /\ lands' = (lands /\ Flushed(x).pointer = e.at)
          ELSE LET used == SelectSeq(inj.scratch, LAMBDA r : r.key = e.key)
                   sc == SelectSeq(inj.scratch, LAMBDA r : r.key # e.key) \o used
               IN  Pressed([inj EXCEPT !.move = 0, !.scratch = sc], Flushed(x), e, Code(e.key))
  /\ chan' = Tail(chan)
  /\ UNCHANGED <<gate, setter, stream, cursor, left>>
Releases ==
  /\ \E e \in {chan[i] : i \in DOMAIN chan} :
       /\ Takes(e) /\ e.t \in {"release", "all"}
       /\ LET gone == {p \in inj.pressed : e.t = "all" \/ p.key = e.key}
          IN  /\ inj' = [inj EXCEPT !.move = 0, !.pressed = @ \ gone]
              /\ x' = [Flushed(x) EXCEPT !.down = {d \in @ : \A p \in gone : d.kc # p.kc}]
  /\ chan' = Tail(chan)
  /\ UNCHANGED <<gate, setter, stream, cursor, lands, left>>

\* SIGTERM: held keys are let go and the keymap restored.
Shutdown ==
  /\ inj.on /\ inj.mapping = NoKey /\ chan = <<>> /\ inj.move = 0 /\ left.crashes > 0
  /\ \A s \in Setters : setter[s] = Idle
  /\ x' = [x EXCEPT !.down = {d \in @ : d.kc \notin Held}, !.prop = {},
                    !.map = [d \in (DOMAIN @) \ Used |-> @[d]]]
  /\ inj' = [FreshInj EXCEPT !.on = FALSE]
  /\ left' = [left EXCEPT !.crashes = @ - 1]
  /\ gate' = "shut"
  /\ stream' = [v \in Viewers |-> [on |-> FALSE, told |-> FALSE, cursor |-> 0]]
  /\ cursor' = [cursor EXCEPT !.kept = 0, !.at = "wait"]
  /\ UNCHANGED <<setter, chan, lands>>
\* The process dies at any point.
Dies ==
  /\ inj.on /\ left.crashes > 0
  /\ inj' = [FreshInj EXCEPT !.on = FALSE]
  /\ chan' = <<>> /\ gate' = "shut"
  /\ setter' = [s \in Setters |-> Idle]
  /\ stream' = [v \in Viewers |-> [on |-> FALSE, told |-> FALSE, cursor |-> 0]]
  /\ cursor' = [cursor EXCEPT !.kept = 0, !.at = "wait"]
  /\ left' = [left EXCEPT !.crashes = @ - 1]
  /\ UNCHANGED <<x, lands>>
\* Injector::new: what the property names is undone first, and a keycode
\* that still has a symbol is no spare one.
Starts ==
  /\ ~inj.on
  /\ x' = [x EXCEPT !.map = [d \in (DOMAIN @) \ x.prop |-> @[d]]]
  /\ inj' = FreshInj
  /\ cursor' = [cursor EXCEPT !.at = "image"]
  /\ UNCHANGED <<gate, setter, stream, chan, lands, left>>

-----------------------------------------------------------------------------
(* The cursor thread. *)

Changes ==
  /\ left.cursors > 0
  /\ cursor' = [cursor EXCEPT !.shown = @ + 1, !.at = "image"]
  /\ left' = [left EXCEPT !.cursors = @ - 1]
  /\ UNCHANGED <<gate, setter, stream, chan, inj, x, lands>>
\* send_image: kept for new viewers, then sent to the ones there are.
KeepsImage ==
  /\ inj.on /\ cursor.at = "image"
  /\ cursor' = [cursor EXCEPT !.kept = cursor.shown, !.at = "send"]
  /\ UNCHANGED <<gate, setter, stream, chan, inj, x, lands, left>>
broadcast ==
  /\ inj.on /\ cursor.at = "send"
  /\ stream' = [v \in Viewers |-> IF stream[v].on THEN [stream[v] EXCEPT !.cursor = cursor.kept]
                                  ELSE stream[v]]
  /\ cursor' = [cursor EXCEPT !.at = "wait"]
  /\ UNCHANGED <<gate, setter, chan, inj, x, lands, left>>

Next ==
  \/ \E h \in Holders : SendsInput(h)
  \/ \E s \in Setters : \/ SetGate(s) \/ SetGateReleases(s) \/ SetGateSends(s) \/ SetGateEnds(s)
                        \/ \E v \in Viewers : SetGateAsks(s, v)
  \/ \E v \in Viewers : Connects(v) \/ Disconnects(v)
  \/ TakesMove \/ FlushesMove \/ Remaps \/ Records \/ Presses \/ Releases
  \/ Shutdown \/ Dies \/ Starts
  \/ Changes \/ KeepsImage \/ broadcast

Spec == Init /\ [][Next]_vars

-----------------------------------------------------------------------------
Quiet == /\ inj.on /\ chan = <<>> /\ inj.mapping = NoKey
         /\ \A s \in Setters : setter[s] = Idle

\* Keys held by whoever had the gate are let go: when all is quiet, every key
\* down was pressed by the one the gate is open to (set_gate).
HeldByHolder == Quiet => \A p \in inj.pressed : p.by = gate

\* A key's release finds the symbol it was pressed as: no spare keycode is
\* remapped while it is held (resolve), and everything down is known to the
\* thread unless a process before it died.
HeldKeepsSymbol ==
  inj.on => /\ \A p \in inj.pressed : p.key \in Lacking => x.map[p.kc] = p.key
            /\ (left.crashes = MaxCrashes) => \A d \in x.down : d.kc \in Held

\* A press lands where the pointer was sent before it, however moves collapse.
PressLands == lands

\* Every stream shows the cursor that is kept, once the thread has sent it
\* (send_image keeps it before it sends it; add_client reads it under the
\* lock a broadcast takes).
CursorTold == (inj.on /\ cursor.at = "wait") => \A v \in Viewers : stream[v].on => stream[v].cursor = cursor.kept

InputSafe == HeldByHolder /\ HeldKeepsSymbol /\ PressLands /\ CursorTold

\* "So a run that did not exit cleanly is undone by the next": once a process
\* has started no keycode has a symbol an earlier one mapped.  Violated: a
\* process may die between the mapping and the property that lists it.
UndoneByNext == inj.on => (DOMAIN x.map) \subseteq
                            (Used \union (IF inj.mapping = NoKey THEN {} ELSE {inj.mapping.t}))

\* The last thing a viewer was told of the gate is true when all is quiet.
\* Violated by two requests that set it: each tells after it has let go of the
\* lock, so the older may be the last to tell.
GateTold == Quiet => \A v \in Viewers : stream[v].on => stream[v].told = may_input(v)
=============================================================================
