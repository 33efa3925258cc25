----------------------------- MODULE WatchFeed -----------------------------
(***************************************************************************)
(* A watch of files: the watch thread of the guest agent behind a bounded  *)
(* channel (watch of crates/shuru-guest/src/files.rs), the task of the     *)
(* agent that reads its frames, and the feed of the WebSocket they share   *)
(* (follow, subscribe and forward of crates/shuru-node/src/serve/files.rs).*)
(* An event is its number within its watch.                                *)
(***************************************************************************)
EXTENDS Naturals, Sequences, FiniteSets

CONSTANTS Watches,         \* paths a client may subscribe to
          MaxWatches,      \* MAX_WATCHES of a socket
          GuestBacklog, NodeBacklog, \* WATCH_BACKLOG of the guest and of the agent
          MaxEvents        \* bound on changes below each path

VARIABLES
  events,                  \* each watch: changes since it began
  queue, dropped,          \* each watch: the channel of the guest, its lost flag
  wire,                    \* frames between guest and agent
  watch,                   \* each watch: "none", "run", or "done" in the guest
  task,                    \* each watch: its task in the agent
  feed,                    \* Feed: tx, dropped, and a permit of lost
  client,                  \* up, refused, what it was told
  missed                   \* each watch: events lost that nobody has told yet

vars == <<events, queue, dropped, wire, watch, task, feed, client, missed>>

Event(w, n) == [watch |-> w, n |-> n]
Loss(w) == [watch |-> w, n |-> 0]    \* the error that events were dropped
Ended(w) == [watch |-> w, n |-> MaxEvents + 1] \* the error that the watch ended

-----------------------------------------------------------------------------
(* The guest                                                               *)

\* The callback of the watcher: what does not fit is lost, and marked.
Changes(w) ==
  /\ watch[w] = "run" /\ events[w] < MaxEvents /\ events' = [events EXCEPT ![w] = @ + 1]
  /\ IF Len(queue[w]) < GuestBacklog
     THEN queue' = [queue EXCEPT ![w] = Append(@, events[w] + 1)] /\ UNCHANGED <<dropped, missed>>
     ELSE /\ dropped' = [dropped EXCEPT ![w] = TRUE]
          /\ missed' = [missed EXCEPT ![w] = @ \cup {events[w] + 1}] /\ UNCHANGED queue
  /\ UNCHANGED <<wire, watch, task, feed, client>>

\* A round of the loop: an event or a timeout, then the lost flag.
\* Mutant: the flag is looked at only when there was no event.
SendsLossIdle(w) == dropped[w] /\ queue[w] = <<>>
SendsLoss(w) == dropped[w]
watchRound(w) ==
  /\ watch[w] = "run" /\ task[w] = "run" /\ wire[w] = <<>> /\ (queue[w] # <<>> \/ dropped[w])
  /\ wire' = [wire EXCEPT ![w] = (IF queue[w] # <<>> THEN <<Event(w, Head(queue[w]))>> ELSE <<>>)
                                  \o IF SendsLoss(w) THEN <<Loss(w)>> ELSE <<>>]
  /\ queue' = [queue EXCEPT ![w] = IF @ = <<>> THEN @ ELSE Tail(@)]
  /\ dropped' = [dropped EXCEPT ![w] = FALSE]
  /\ UNCHANGED <<events, watch, task, feed, client, missed>>
\* hung_up, or the watched path's file system went away
watchEnds(w) ==
  /\ watch[w] = "run" /\ watch' = [watch EXCEPT ![w] = "done"]
  /\ UNCHANGED <<events, queue, dropped, wire, task, feed, client, missed>>

-----------------------------------------------------------------------------
(* The agent                                                               *)

\* subscribe and open_watch: a place among the watches of the socket, taken
\* back from those that ended.
Running == {w \in Watches : task[w] = "run"}
subscribe(w) ==
  /\ client.up /\ task[w] = "none"
  /\ \/ /\ Cardinality(Running) < MaxWatches
        /\ task' = [task EXCEPT ![w] = "run"] /\ watch' = [watch EXCEPT ![w] = "run"]
        /\ UNCHANGED client
     \/ \* no such path, no permit, or too many paths
        /\ task' = [task EXCEPT ![w] = "done"]
        /\ client' = [client EXCEPT !.refused = @ \cup {w}] /\ UNCHANGED watch
  /\ UNCHANGED <<events, queue, dropped, wire, feed, missed>>

\* forward: a frame goes into the feed, or is counted and follow woken.
forward(w) ==
  /\ task[w] = "run" /\ wire[w] # <<>> /\ wire' = [wire EXCEPT ![w] = Tail(@)]
  /\ IF Len(feed.tx) < NodeBacklog
     THEN feed' = [feed EXCEPT !.tx = Append(@, Head(wire[w]))] /\ UNCHANGED missed
     ELSE /\ feed' = [feed EXCEPT !.dropped = @ + 1, !.lost = TRUE]
          /\ missed' = [missed EXCEPT ![w] = @ \cup {Head(wire[w]).n}]
  /\ UNCHANGED <<events, queue, dropped, watch, task, client>>
\* the end of the watch waits for room
forwardEnds(w) ==
  /\ task[w] = "run" /\ wire[w] = <<>> /\ watch[w] = "done" /\ Len(feed.tx) < NodeBacklog
  /\ feed' = [feed EXCEPT !.tx = Append(@, Ended(w))] /\ task' = [task EXCEPT ![w] = "done"]
  /\ UNCHANGED <<events, queue, dropped, wire, watch, client, missed>>

\* follow: an event or the count of those dropped is sent to the client.
followSends ==
  /\ client.up /\ feed.tx # <<>> /\ feed' = [feed EXCEPT !.tx = Tail(@)]
  /\ LET e == Head(feed.tx) IN
       /\ client' = [client EXCEPT !.got = @ \cup {e}]
       /\ missed' = IF e.n \in {0, MaxEvents + 1} THEN [missed EXCEPT ![e.watch] = {}] ELSE missed
  /\ UNCHANGED <<events, queue, dropped, wire, watch, task>>
followLost ==
  /\ client.up /\ feed.lost /\ feed' = [feed EXCEPT !.lost = FALSE, !.dropped = 0]
  /\ missed' = IF feed.dropped > 0 THEN [w \in Watches |-> {}] ELSE missed
  /\ UNCHANGED <<events, queue, dropped, wire, watch, task, client>>

\* The client closes: the tasks are dropped with the socket, and the guest
\* sees its connections hang up.
ClientLeaves ==
  /\ client.up /\ client' = [client EXCEPT !.up = FALSE]
  /\ task' = [w \in Watches |-> "done"] /\ wire' = [w \in Watches |-> <<>>]
  /\ UNCHANGED <<events, queue, dropped, watch, feed, missed>>

-----------------------------------------------------------------------------
Init ==
  /\ events = [w \in Watches |-> 0] /\ queue = [w \in Watches |-> <<>>]
  /\ dropped = [w \in Watches |-> FALSE] /\ wire = queue
  /\ watch = [w \in Watches |-> "none"] /\ task = watch
  /\ feed = [tx |-> <<>>, dropped |-> 0, lost |-> FALSE]
  /\ client = [up |-> TRUE, refused |-> {}, got |-> {}] /\ missed = [w \in Watches |-> {}]

Steps == followSends \/ followLost
         \/ \E w \in Watches : watchRound(w) \/ forward(w) \/ forwardEnds(w)
Next == Steps \/ ClientLeaves
        \/ \E w \in Watches : subscribe(w) \/ Changes(w) \/ watchEnds(w)

Spec == Init /\ [][Next]_vars

-----------------------------------------------------------------------------
\* Nothing is lost in silence: once all is quiet, every change below a path a
\* client follows has reached it, or it was told, after the loss, that events
\* were dropped or that the watch ended. The error that says so can itself be
\* dropped on the way; then the count of the agent tells (watch, forward,
\* follow).
LossReachesClient ==
  client.up /\ ~ENABLED Steps =>
    \A w \in Watches \ client.refused :
      /\ missed[w] = {}
      /\ watch[w] = "run" => dropped[w] = FALSE /\ queue[w] = <<>>

\* A client that is behind never makes the guest wait: the feed takes or
\* counts every frame (Feed: "Dropping keeps the guest from ever waiting on a
\* slow client").
GuestNeverWaits ==
  \A w \in Watches : task[w] = "run" /\ wire[w] # <<>> => ENABLED forward(w)

FeedSafe == LossReachesClient /\ GuestNeverWaits
=============================================================================
