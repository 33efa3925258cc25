------------------------------ MODULE Secrets ------------------------------
(***************************************************************************)
(* The value of one secret on its way to a connection of the guest: the    *)
(* resolver of the proxy (crates/shuru-proxy/src/secrets.rs) with its      *)
(* table and slots, netd's asks (bin/shuru-netd/main.rs) over the asks     *)
(* socket (control.rs), and the node that answers them from the provider   *)
(* (serve/provider.rs) by the config an update may have replaced.          *)
(*                                                                         *)
(* A value is known by the update its fetch was begun after and by when it *)
(* expires. Time is a clock in units that divide every limit.              *)
(***************************************************************************)
EXTENDS Integers, Sequences, FiniteSets

CONSTANTS Conns,           \* connections of the guest that need the secret
          Kinds,           \* what a config may say of it; "none" when it has none
          Resolves,        \* of each connection, one after another
          MaxUpdates, MaxClock,
          Lifetimes,       \* of provided and minted values
          REFRESH_WINDOW, RETRY_PAUSE, MAX_AGE, ASK_TIMEOUT, PROVIDER_TIMEOUT,
          IN_FLIGHT

VARIABLES
  clock, updates,          \* time, and the updates netd has taken
  conf, table, placeholder,\* the config at the node and at netd; known to the guest
  slots, slot,             \* the slot of the name, 0 for none, and every slot made
  conn,                    \* each connection
  waiting,                 \* NodeAsks: asks waiting, and whether the node answers
  wire,                    \* the asks socket: asks one way, answers the other
  tasks                    \* of answer_asks, each with a permit

vars == <<clock, updates, conf, table, placeholder, slots, slot, conn, waiting, wire, tasks>>

None == [kind |-> "none", since |-> 0, at |-> 0, exp |-> 0, window |-> 0]
NewSlot == [entry |-> None, failed |-> -1, holder |-> "none"]
NewConn == [at |-> "idle", left |-> 0, cfg |-> "none", begun |-> 0, slot |-> 0,
            now |-> 0, since |-> 0, got |-> None, refused |-> FALSE]

Init ==
  /\ clock = 0 /\ updates = 0
  /\ conf \in Kinds /\ table = conf /\ placeholder = (conf # "none")
  /\ slots = 0 /\ slot = <<>>
  /\ conn = [c \in Conns |-> [NewConn EXCEPT !.left = Resolves[c]]]
  /\ waiting = [open |-> TRUE, asks |-> {}] /\ wire = [asks |-> <<>>, answers |-> <<>>]
  /\ tasks = {}

-----------------------------------------------------------------------------
(* The resolver *)

Done(c, got) == [conn[c] EXCEPT !.at = "done", !.got = got]
Failed(c) == Done(c, None)

\* substitutions_for_domain: the table is copied, then each is resolved. A
\* valued secret and a variable need no slot.
substitutions_for_domain(c) ==
  /\ conn[c].at = "idle" /\ conn[c].left > 0
  /\ conn' = [conn EXCEPT ![c] = [NewConn EXCEPT
       !.left = conn[c].left - 1, !.cfg = table, !.begun = updates,
       !.at = IF table \in {"provided", "command"} THEN "resolve" ELSE "done"]]
  /\ UNCHANGED <<clock, updates, conf, table, placeholder, slots, slot, waiting, wire, tasks>>
\* slot: the one of the name, or a new one.
slotOf(c) ==
  /\ conn[c].at = "resolve"
  /\ slots' = IF slots = 0 THEN Len(slot) + 1 ELSE slots
  /\ slot' = IF slots = 0 THEN Append(slot, NewSlot) ELSE slot
  /\ conn' = [conn EXCEPT ![c].at = "lock", ![c].slot = slots']
  /\ UNCHANGED <<clock, updates, conf, table, placeholder, waiting, wire, tasks>>

is_fresh(entry, now) == entry.kind = "value" /\ now + entry.window < entry.exp
is_usable(entry, now) == entry.kind = "value" /\ now < entry.exp
Paused(s, now) == s.failed >= 0 /\ now < s.failed + RETRY_PAUSE
\* cached, once the slot is locked: a fresh value, within the pause a live
\* one or a failure, else a mint with the slot held.
cached(c) ==
  LET n == conn[c].slot  s == slot[n]
  IN  /\ conn[c].at = "lock" /\ s.holder = "none"
      /\ IF is_fresh(s.entry, clock) \/ (Paused(s, clock) /\ is_usable(s.entry, clock))
         THEN conn' = [conn EXCEPT ![c] = Done(c, s.entry)] /\ slot' = slot
         ELSE IF Paused(s, clock)
         THEN conn' = [conn EXCEPT ![c] = Failed(c)] /\ slot' = slot
         ELSE /\ conn' = [conn EXCEPT ![c].at = "mint", ![c].now = clock, ![c].since = updates]
              /\ slot' = [slot EXCEPT ![n].holder = c]
      /\ UNCHANGED <<clock, updates, conf, table, placeholder, slots, waiting, wire, tasks>>

\* CacheEntry::new: at most half of the lifetime as the window.
Half(life) == IF REFRESH_WINDOW < life \div 2 THEN REFRESH_WINDOW ELSE life \div 2
Minted(c, life) == [kind |-> "value", since |-> conn[c].since, at |-> conn[c].now,
                    exp |-> conn[c].now + life, window |-> Half(life)]
\* The mint of c ended with a value that lives for `life`...
Mints(c, life) ==
  LET entry == Minted(c, life)
  IN  /\ conn' = [conn EXCEPT ![c] = Done(c, entry)]
      /\ slot' = [slot EXCEPT ![conn[c].slot] = [NewSlot EXCEPT !.entry = entry]]
\* Mutant: a refusal is taken for a failure that may pass.
KeepsRefused(s, refused) == s.entry
\* ...or without one: a refusal drops the entry, a live one is served.
Kept(s, refused) == IF refused THEN None ELSE s.entry
MintFails(c, refused) ==
  LET s == slot[conn[c].slot]  entry == Kept(s, refused)
  IN  /\ slot' = [slot EXCEPT ![conn[c].slot] =
                    [entry |-> entry, failed |-> conn[c].now, holder |-> "none"]]
      /\ conn' = [conn EXCEPT ![c] = [Done(c, IF is_usable(entry, conn[c].now) THEN entry ELSE None)
                                      EXCEPT !.refused = refused]]

\* run_provider and parse_provider_output: the command in time, or not.
run_provider(c) ==
  /\ conn[c].at = "mint" /\ conn[c].cfg = "command"
  /\ \/ \E life \in Lifetimes : Mints(c, life)
     \/ MintFails(c, FALSE)
  /\ UNCHANGED <<clock, updates, conf, table, placeholder, slots, waiting, wire, tasks>>

\* update: a secret without a placeholder waits; slots of provided secrets
\* and of ones that changed go with the table.
update(new) ==
  LET t == IF placeholder THEN new ELSE "none"
  IN  /\ slots' = IF t # "provided" /\ t = table /\ t # "none" THEN slots ELSE 0
      /\ table' = t

-----------------------------------------------------------------------------
(* Netd asks *)

\* NodeAsks numbers its asks; here one is known by who asks, and which time.
Id(c) == <<c, conn[c].left>>
Forget(c) == waiting' = [waiting EXCEPT !.asks = @ \ {Id(c)}]
\* ask: registered before it is sent; fails when the node is gone.
ask(c) ==
  /\ conn[c].at = "mint" /\ conn[c].cfg = "provided"
  /\ IF waiting.open
     THEN /\ waiting' = [waiting EXCEPT !.asks = @ \cup {Id(c)}]
          /\ wire' = [wire EXCEPT !.asks = Append(@, Id(c))]
          /\ conn' = [conn EXCEPT ![c].at = "asked"]
          /\ slot' = slot
     ELSE MintFails(c, FALSE) /\ UNCHANGED <<waiting, wire>>
  /\ UNCHANGED <<clock, updates, conf, table, placeholder, slots, tasks>>
\* The send fails, or no answer comes in ASK_TIMEOUT: forgotten.
askFails(c) ==
  /\ conn[c].at = "asked" /\ Id(c) \in waiting.asks
  /\ clock >= conn[c].now + ASK_TIMEOUT
  /\ Forget(c) /\ MintFails(c, FALSE)
  /\ UNCHANGED <<clock, updates, conf, table, placeholder, slots, wire, tasks>>
\* The thread of NodeAsks::start hands an answer to its asker, if it waits.
Provide(c, a) == IF a.kind = "value" THEN Mints(c, a.life) ELSE MintFails(c, a.kind = "refused")
handAnswer ==
  LET a == Head(wire.answers)  c == a.ask[1]
  IN  /\ wire.answers # <<>>
      /\ wire' = [wire EXCEPT !.answers = Tail(@)]
      /\ IF a.ask \in waiting.asks
         THEN Provide(c, a) /\ waiting' = [waiting EXCEPT !.asks = @ \ {a.ask}]
         ELSE UNCHANGED <<conn, slot, waiting>>
      /\ UNCHANGED <<clock, updates, conf, table, placeholder, slots, tasks>>
\* The node is gone, and what it sent is read: every asker is dropped and
\* fails when it runs.
nodeGone ==
  /\ waiting.open /\ wire.answers = <<>>
  /\ waiting' = [open |-> FALSE, asks |-> {}]
  /\ wire' = [asks |-> <<>>, answers |-> <<>>] /\ tasks' = {}
  /\ UNCHANGED <<clock, updates, conf, table, placeholder, slots, slot, conn>>
dropped(c) ==
  /\ conn[c].at = "asked" /\ ~waiting.open
  /\ MintFails(c, FALSE)
  /\ UNCHANGED <<clock, updates, conf, table, placeholder, slots, waiting, wire, tasks>>

-----------------------------------------------------------------------------
(* The node answers *)

\* answer_asks takes an ask and a permit for it; ask_for looks at the
\* config of the sandbox as it is then.
Answer(id, kind, life) == [ask |-> id, kind |-> kind, life |-> life]
answer_asks ==
  LET id == Head(wire.asks)
  IN  /\ waiting.open /\ wire.asks # <<>> /\ Cardinality(tasks) < IN_FLIGHT
      /\ IF conf = "provided"
         THEN /\ tasks' = tasks \cup {[ask |-> id, since |-> clock]}
              /\ wire' = [wire EXCEPT !.asks = Tail(@)]
         ELSE /\ wire' = [asks |-> Tail(wire.asks),
                          answers |-> Append(wire.answers, Answer(id, "refused", 0))]
              /\ tasks' = tasks
      /\ UNCHANGED <<clock, updates, conf, table, placeholder, slots, slot, conn, waiting>>
\* provide: a value kept for MAX_AGE at most, a refusal or a failure; when
\* the provider is late it is a failure.
Ages == {IF life < MAX_AGE THEN life ELSE MAX_AGE : life \in Lifetimes}
provide(t) ==
  /\ waiting.open
  /\ \E a \in {Answer(t.ask, "value", life) : life \in Ages}
              \cup {Answer(t.ask, "refused", 0), Answer(t.ask, "failed", 0)} :
       /\ clock >= t.since + PROVIDER_TIMEOUT => a.kind = "failed"
       /\ wire' = [wire EXCEPT !.answers = Append(@, a)]
  /\ tasks' = tasks \ {t}
  /\ UNCHANGED <<clock, updates, conf, table, placeholder, slots, slot, conn, waiting>>

\* Sandboxes::update: the config is in place, and then netd takes it.
Configure(new) ==
  /\ updates < MaxUpdates /\ conf = table
  /\ conf' = new
  /\ UNCHANGED <<clock, updates, table, placeholder, slots, slot, conn, waiting, wire, tasks>>
UpdateSecrets ==
  /\ updates < MaxUpdates /\ table # "command" /\ conf # "command"
  /\ update(conf) /\ updates' = updates + 1
  /\ UNCHANGED <<clock, conf, placeholder, slot, conn, waiting, wire, tasks>>

\* A connection has its answer and may come again.
Again(c) ==
  /\ conn[c].at = "done" /\ conn[c].left > 0
  /\ conn' = [conn EXCEPT ![c] = [NewConn EXCEPT !.left = conn[c].left]]
  /\ UNCHANGED <<clock, updates, conf, table, placeholder, slots, slot, waiting, wire, tasks>>
\* A timer that is due runs before time goes on.
Due == \/ \E c \in Conns : conn[c].at = "asked" /\ waiting.open /\ clock >= conn[c].now + ASK_TIMEOUT
       \/ \E t \in tasks : clock >= t.since + PROVIDER_TIMEOUT
Tick ==
  /\ clock < MaxClock /\ ~Due
  /\ clock' = clock + 1
  /\ UNCHANGED <<updates, conf, table, placeholder, slots, slot, conn, waiting, wire, tasks>>

Steps == \/ \E c \in Conns : \/ substitutions_for_domain(c) \/ slotOf(c) \/ cached(c)
                             \/ run_provider(c) \/ ask(c) \/ askFails(c) \/ dropped(c)
         \/ handAnswer \/ answer_asks
         \/ \E t \in tasks : provide(t)
Next == \/ Steps \/ nodeGone \/ Tick \/ UpdateSecrets
        \/ \E new \in Kinds \ {"command"} : Configure(new)
        \/ \E c \in Conns : Again(c)
Spec == Init /\ [][Next]_vars

-----------------------------------------------------------------------------

\* A connection that began after netd took an update never gets a provided
\* value fetched before it, though connections with the old table share the
\* slot and old answers are still on their way.
UpdateTakes ==
  \A c \in Conns : conn[c].got.kind = "value" /\ conn[c].cfg = "provided"
                     => conn[c].got.since >= conn[c].begun
\* A refusal ends the use of the value it was kept for: the slot has no
\* entry until another fetch brought one.
RefusalDrops ==
  \A c \in Conns : conn[c].refused =>
    /\ conn[c].got = None
    /\ LET e == slot[conn[c].slot].entry
       IN  e.kind = "value" => e.at > conn[c].now
\* No asker is kept that no longer waits, and none waits that is not kept.
AskersKept ==
  waiting.open => waiting.asks = {Id(c) : c \in {d \in Conns : conn[d].at = "asked"}}
\* When only time is left to pass no connection waits without a timer that
\* ends its wait: a slot is never left locked, an ask never lost.
NoneStuck ==
  ~ENABLED Steps => \A c \in Conns :
    \/ conn[c].at \in {"idle", "done"}
    \/ conn[c].at = "asked" /\ clock < conn[c].now + ASK_TIMEOUT
    \/ conn[c].at = "lock" /\ \E d \in Conns : conn[d].at = "asked" /\ slot[conn[c].slot].holder = d
SecretsSafe == UpdateTakes /\ RefusalDrops /\ AskersKept /\ NoneStuck

\* After a failed fetch another of the same slot begins no sooner than
\* RETRY_PAUSE later.  Violated: failed_at is when the fetch began, so after
\* one that took RETRY_PAUSE the next begins at once.
PausesAfterFailure ==
  [][\A c \in Conns : conn[c].at = "asked" /\ conn'[c].at = "done" /\ conn'[c].got.at # conn[c].now
       => Paused(slot'[conn[c].slot], clock)]_vars
============================================================================
