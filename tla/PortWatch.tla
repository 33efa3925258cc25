----------------------------- MODULE PortWatch -----------------------------
(***************************************************************************)
(* The watch of listening ports: the scanner of the guest agent and its    *)
(* interest table (crates/shuru-guest/src/ports.rs), a watch thread for    *)
(* each control connection, and the agent of the host that carries the     *)
(* events to a WebSocket (crates/shuru-node/src/serve/ports.rs). An event  *)
(* is the port and what happened to it; a list is the set of ports.        *)
(***************************************************************************)
EXTENDS Naturals, Sequences, FiniteSets, SequencesExt

CONSTANTS Ports, Watches,
          MaxWatches,      \* MAX_WATCHES
          Backlog,         \* WATCH_BACKLOG
          MaxChanges       \* bound on listeners that come and go

VARIABLES
  open,                    \* ports that listen in the guest
  changes,
  interest,                \* Interest: watches, listed of each, attached, pending
  scanner,                 \* "asleep", "ready", or "found" with the ports it read
  known,                   \* the last scan if there is one: {} or {ports}
  rx,                      \* each watch: its channel
  thread,                  \* each watch: its thread in the guest
  wire,                    \* frames between guest and host
  client                   \* each watch: the WebSocket and what it was told

vars == <<open, changes, interest, scanner, known, rx, thread, wire, client>>

List(ps) == [type |-> "list", ports |-> ps]
Opened(p) == [type |-> "opened", ports |-> {p}]
Closed(p) == [type |-> "closed", ports |-> {p}]
Error == [type |-> "error", ports |-> {}]

Seen(view, e) == CASE e.type = "list" -> e.ports
                   [] e.type = "opened" -> view \cup e.ports
                   [] e.type = "closed" -> view \ e.ports
                   [] OTHER -> view

any == interest.watches # {} \/ interest.attached
Woken == IF scanner.at = "asleep" THEN [scanner EXCEPT !.at = "ready"] ELSE scanner

-----------------------------------------------------------------------------
(* The watch thread of a connection (watch, register, Registration::drop)  *)

register(w) ==
  /\ thread[w] = "none" /\ Cardinality(interest.watches) < MaxWatches
  /\ interest' = [interest EXCEPT !.watches = @ \cup {w}, !.pending = TRUE]
  /\ thread' = [thread EXCEPT ![w] = "run"] /\ scanner' = Woken
  /\ UNCHANGED <<open, changes, known, rx, wire, client>>

\* past the limit the answer is an error
registerFull(w) ==
  /\ thread[w] = "none" /\ Cardinality(interest.watches) >= MaxWatches
  /\ thread' = [thread EXCEPT ![w] = "done"]
  /\ wire' = [wire EXCEPT ![w] = Append(@, Error)]
  /\ UNCHANGED <<open, changes, interest, scanner, known, rx, client>>

\* The thread returns: the registration is dropped with it.
Leaves(w) ==
  /\ thread' = [thread EXCEPT ![w] = "done"]
  /\ interest' = [interest EXCEPT !.watches = @ \ {w}, !.listed = @ \ {w}]
  /\ scanner' = Woken

\* A frame goes out unless the host went away or stalls past WATCH_STALL.
watchSends(w) ==
  /\ thread[w] = "run" /\ rx[w].q # <<>>
  /\ rx' = [rx EXCEPT ![w].q = Tail(@)]
  /\ \/ /\ client[w].up /\ wire[w] = <<>> /\ wire' = [wire EXCEPT ![w] = Append(@, Head(rx[w].q))]
        /\ UNCHANGED <<thread, interest, scanner>>
     \/ (~client[w].up \/ wire[w] # <<>>) /\ Leaves(w) /\ UNCHANGED wire
  /\ UNCHANGED <<open, changes, known, client>>

\* the scanner dropped the sender, and what it had sent is out
watchDropped(w) ==
  /\ thread[w] = "run" /\ rx[w].q = <<>> /\ rx[w].gone /\ Leaves(w)
  /\ wire' = IF client[w].up THEN [wire EXCEPT ![w] = Append(@, Error)] ELSE wire
  /\ UNCHANGED <<open, changes, known, rx, client>>

hung_up(w) ==
  /\ thread[w] = "run" /\ ~client[w].up /\ Leaves(w)
  /\ UNCHANGED <<open, changes, known, rx, wire, client>>

\* The session loop counts its attachments.
set_attached ==
  /\ interest' = [interest EXCEPT !.attached = ~@] /\ scanner' = Woken
  /\ UNCHANGED <<open, changes, known, rx, thread, wire, client>>

-----------------------------------------------------------------------------
(* scan_loop                                                               *)

scanSleeps ==
  /\ scanner.at = "ready" /\ ~any
  /\ known' = {} /\ scanner' = [scanner EXCEPT !.at = "asleep"]
  /\ UNCHANGED <<open, changes, interest, rx, thread, wire, client>>

\* A tick has passed, a watch waits for its list, or nothing is known yet: the
\* lock is let go and /proc is read.
scan ==
  /\ scanner.at = "ready" /\ any
  /\ interest' = [interest EXCEPT !.pending = FALSE]
  /\ scanner' = [at |-> "found", current |-> open]
  /\ UNCHANGED <<open, changes, known, rx, thread, wire, client>>

\* Events of a scan for one that has its list. A channel takes what it has
\* room for; the first that does not fit ends the watch.
News == SetToSeq({Opened(p) : p \in scanner.current \ UNION known})
        \o SetToSeq({Closed(p) : p \in UNION known \ scanner.current})
\* Mutant: every watch that is there is told the changes, listed or not.
WantsNoList(w) == FALSE
WantsList(w) == w \notin interest.listed
Due(w) == IF WantsList(w) THEN <<List(scanner.current)>> ELSE News
deliver(q, due) == SubSeq(q \o due, 1, IF Len(q \o due) > Backlog THEN Backlog ELSE Len(q \o due))
Fits(w) == Len(rx[w].q \o Due(w)) <= Backlog
scanDelivers ==
  /\ scanner.at = "found"
  /\ rx' = [w \in Watches |-> IF w \in interest.watches
                              THEN [q |-> deliver(rx[w].q, Due(w)), gone |-> ~Fits(w)]
                              ELSE rx[w]]
  /\ LET kept == {w \in interest.watches : Fits(w)} IN
       interest' = [interest EXCEPT !.watches = kept, !.listed = kept]
  /\ known' = {scanner.current} /\ scanner' = [scanner EXCEPT !.at = "ready"]
  /\ UNCHANGED <<open, changes, thread, wire, client>>

-----------------------------------------------------------------------------
(* watch and follow of the agent                                           *)

\* The list, or the reason there is none, comes first; each frame after it is
\* sent to the client in turn. An error is the last message.
follow(w) ==
  /\ client[w].up /\ wire[w] # <<>> /\ wire' = [wire EXCEPT ![w] = Tail(@)]
  /\ LET e == Head(wire[w]) IN
       client' = [client EXCEPT ![w] =
         [up |-> e.type # "error", error |-> e.type = "error",
          first |-> IF @.first = "none" THEN e.type ELSE @.first,
          view |-> Seen(@.view, e)]]
  /\ UNCHANGED <<open, changes, interest, scanner, known, rx, thread>>

\* the guest closed the connection: the client is told the watch ended
followEnds(w) ==
  /\ client[w].up /\ wire[w] = <<>> /\ thread[w] = "done"
  /\ client' = [client EXCEPT ![w].up = FALSE, ![w].error = TRUE]
  /\ UNCHANGED <<open, changes, interest, scanner, known, rx, thread, wire>>

\* the client closes, or takes nothing for WATCH_STALL
ClientLeaves(w) ==
  /\ client[w].up /\ client' = [client EXCEPT ![w].up = FALSE]
  /\ UNCHANGED <<open, changes, interest, scanner, known, rx, thread, wire>>

\* a program in the guest (external)
Listens(p) ==
  /\ changes < MaxChanges /\ changes' = changes + 1
  /\ open' = IF p \in open THEN open \ {p} ELSE open \cup {p}
  /\ UNCHANGED <<interest, scanner, known, rx, thread, wire, client>>

-----------------------------------------------------------------------------
Init ==
  /\ open \in SUBSET Ports /\ changes = 0
  /\ interest = [watches |-> {}, listed |-> {}, attached |-> FALSE, pending |-> FALSE]
  /\ scanner = [at |-> "ready", current |-> {}] /\ known = {}
  /\ rx = [w \in Watches |-> [q |-> <<>>, gone |-> FALSE]]
  /\ thread = [w \in Watches |-> "none"] /\ wire = [w \in Watches |-> <<>>]
  /\ client = [w \in Watches |-> [up |-> TRUE, error |-> FALSE, first |-> "none", view |-> {}]]

Next ==
  \/ set_attached \/ scanSleeps \/ scan \/ scanDelivers
  \/ \E w \in Watches : register(w) \/ registerFull(w) \/ watchSends(w) \/ watchDropped(w)
                        \/ hung_up(w) \/ follow(w) \/ followEnds(w) \/ ClientLeaves(w)
  \/ \E p \in Ports : Listens(p)

Spec == Init /\ [][Next]_vars

-----------------------------------------------------------------------------
\* What a client knows once it has taken the events s.
After(view, s) == FoldLeft(Seen, view, s)

\* A watch that is still kept knows, once the events on the way have reached
\* it, exactly the ports of the last scan: a listener that came or went while
\* the watch was being registered or listed is neither missed nor told twice
\* (scan_loop: "After a quiet spell every port is news").
WatchCatchesUp ==
  \A w \in interest.listed : client[w].up =>
    known = {After(client[w].view, wire[w] \o rx[w].q)}

\* No client takes changes for the whole: what it hears first is the list or
\* an error, and after an event that did not fit nothing more is put before
\* the error (deliver, watch, follow).
LossIsTold ==
  \A w \in Watches :
    /\ client[w].first \in {"none", "list", "error"}
    /\ rx[w].gone => w \notin interest.watches
    /\ \A i \in 1 .. Len(wire[w]) : wire[w][i].type = "error" => i = Len(wire[w]) /\ thread[w] = "done"

\* The scanner never sleeps while a watch or an attachment wants it, and none
\* that waits for its list is left to the tick (WAKE, Interest::pending).
ScannerAwake ==
  /\ scanner.at = "asleep" => ~any
  /\ interest.watches \ interest.listed # {} => interest.pending \/ scanner.at = "found"

PortWatchSafe == WatchCatchesUp /\ LossIsTold /\ ScannerAwake
=============================================================================
