------------------------------ MODULE NetStack ------------------------------
(***************************************************************************)
(* The network stack of the proxy (crates/shuru-proxy/src/stack.rs over    *)
(* device.rs, with the gate of egress.rs and flows.rs) and the engine that *)
(* carries its connections (proxy.rs, stream.rs). The stack is one thread: *)
(* a turn of its loop is one step. It and the engine's tasks share two     *)
(* queues, events and commands, and a budget of bytes per connection.      *)
(*                                                                         *)
(* smoltcp and the TCP of the guest are external, reduced to the states    *)
(* the code looks at. Bytes are units, tagged with the flow they are of.   *)
(***************************************************************************)
EXTENDS Naturals, Sequences, SequencesExt, FiniteSets

CONSTANTS Flows,           \* connections the guest opens, all to one address
          Denied,          \* those of them to a denied port
          Tls,             \* whether the first bytes decide where they go
          MAX_TCP_SOCKETS,
          TO_GUEST_BUDGET, TO_HOST_BUDGET,
          MaxUp, MaxDown   \* units each way on a connection

VARIABLES
  flow,                    \* each connection as the guest sees it
  wire,                    \* frames of the guest that are not read yet
  stack,                   \* the NetworkStack
  events, cmds,            \* between it and the engine
  budget,                  \* the semaphore of each connection, by serial
  task                     \* the engine's task of each connection, by serial

vars == <<flow, wire, stack, events, cmds, budget, task>>

Handles == 1..MAX_TCP_SOCKETS
Serials == 1..Cardinality(Flows)
NoSocket == [st |-> "free", flow |-> "none", rx |-> 0, tx |-> <<>>]
NewTask == [at |-> "none", flow |-> "none", h |-> 0, rx |-> 0, open |-> TRUE, down |-> 0]

Init ==
  /\ flow = [f \in Flows |-> [at |-> "new", up |-> 0, got |-> <<>>]]
  /\ wire = <<>>
  /\ stack = [sock |-> [h \in Handles |-> NoSocket], listening |-> {}, connections |-> {},
              pending |-> [h \in Handles |-> <<>>], closing |-> {}, draining |-> {},
              serial |-> [h \in Handles |-> 0], next |-> 0,
              to_host |-> [h \in Handles |-> 0], out |-> <<>>, reset |-> {}]
  /\ events = <<>> /\ cmds = <<>>
  /\ budget = [s \in Serials |-> [n |-> TO_GUEST_BUDGET, open |-> TRUE]]
  /\ task = [s \in Serials |-> NewTask]

-----------------------------------------------------------------------------
(* A turn of the loop *)

Dead == {"closed", "timewait"}
SocketOf(s, f) == {h \in Handles : s.sock[h].flow = f}
\* forget: nothing of the connection is tracked any longer.
forget(s, h) == [s EXCEPT !.connections = @ \ {h}, !.pending[h] = <<>>, !.closing = @ \ {h},
                          !.to_host[h] = 0, !.serial[h] = 0]
\* close_socket: the FIN, and the socket is left to smoltcp.
Closes == [st \in {"established", "closewait"} |-> IF st = "closewait" THEN "lastack" ELSE "finwait"]
close_socket(s, h) ==
  LET t == forget(s, h)
  IN  [t EXCEPT !.draining = @ \cup {h}, !.sock[h].st = IF @ \in DOMAIN Closes THEN Closes[@] ELSE @]

\* reap_sockets: what smoltcp is done with, and listeners whose SYN or ACK
\* did not come in LISTEN_TIMEOUT, here for a guest that went silent.
Gone(f) == f # "none" /\ flow[f].at = "gone"
Reaped(s) == {h \in s.draining : s.sock[h].st \in Dead}
Stale(s) == {h \in s.listening : s.sock[h].st = "listen" \/ (s.sock[h].st = "synrcvd" /\ Gone(s.sock[h].flow))}
reap_sockets(s, late) ==
  LET out == Reaped(s) \cup (IF late THEN Stale(s) ELSE {})
  IN  [s EXCEPT !.draining = @ \ out, !.listening = @ \ out,
                !.sock = [h \in Handles |-> IF h \in out THEN NoSocket ELSE @[h]]]

\* inspect_pending_frames: a listener for each SYN that has none, as far as
\* the sockets and the gate let; the SYNs past that are dropped. A denied
\* port gets no listener.
IsSyn(e) == e.k = "syn" /\ e.f \notin Denied
Syns(fs) == Len(SelectSeq(fs, IsSyn))
Existing(s) == Cardinality(s.listening)
Needed(s, fs) == IF Syns(fs) > Existing(s) THEN Syns(fs) - Existing(s) ELSE 0
Free(s) == {h \in Handles : s.sock[h].st = "free"}
Lowest(set, n) == {h \in set : Cardinality({g \in set : g < h}) < n}
addListeners(s, fs, admit) ==
  LET new == Lowest(Free(s), IF admit < Needed(s, fs) THEN admit ELSE Needed(s, fs))
  IN  [s EXCEPT !.listening = @ \cup new,
                !.sock = [h \in Handles |-> IF h \in new THEN [NoSocket EXCEPT !.st = "listen"] ELSE @[h]]]
\* t is the stack with its listeners: a SYN past `keep` is held back.
Nth(fs, i) == Len(SelectSeq(SubSeq(fs, 1, i), IsSyn))
retain_pending(s, t, fs) ==
  LET keep == IF Existing(t) < Existing(s) + Needed(s, fs) THEN Existing(t) ELSE Len(fs)
      pass == {i \in DOMAIN fs : IsSyn(fs[i]) => Nth(fs, i) <= keep}
  IN  [i \in 1..Cardinality(pass) |-> fs[CHOOSE j \in pass : Cardinality({k \in pass : k <= j}) = i]]

\* iface.poll: each frame to the socket of its flow. A SYN takes a listener
\* and without one is reset; so is anything for a socket that is gone.
Segment(s, e) ==
  LET hs == {h \in Handles : s.sock[h].flow = e.f}
      ls == {h \in Handles : s.sock[h].st = "listen"}
      h == CHOOSE g \in hs : TRUE
      l == CHOOSE g \in ls : TRUE
  IN  IF e.k = "syn"
      THEN IF e.f \notin Denied /\ ls # {} THEN [s EXCEPT !.sock[l].st = "synrcvd", !.sock[l].flow = e.f]
                           ELSE [s EXCEPT !.reset = @ \cup {e.f}]
      ELSE IF hs = {} THEN [s EXCEPT !.reset = @ \cup {e.f}]
      ELSE [s EXCEPT !.sock[h] =
        CASE e.k = "ack"  -> [@ EXCEPT !.st = CASE @ = "synrcvd" -> "established"
                                                [] @ = "lastack" -> "closed" [] OTHER -> @]
          [] e.k = "data" -> [@ EXCEPT !.rx = @ + 1]
          [] e.k = "read" -> [@ EXCEPT !.tx = IF @ = <<>> THEN @ ELSE Tail(@)]
          [] e.k = "fin"  -> [@ EXCEPT !.st = CASE @ = "finwait" -> "timewait"
                                                [] @ \in Dead -> @ [] OTHER -> "closewait"]
          [] e.k = "rst"  -> [@ EXCEPT !.st = "closed", !.rx = 0, !.tx = <<>>]]
poll(s, fs) == FoldLeft(Segment, s, fs)

\* poll_tcp_sockets, for one socket: hand it to the engine, read as much as
\* the budget lets, find it closed.
Say(s, e) == [s EXCEPT !.out = Append(@, e)]
handOver(s, h) ==
  IF s.sock[h].st \in {"established", "closewait"} /\ h \in s.listening
  THEN Say([s EXCEPT !.listening = @ \ {h}, !.connections = @ \cup {h}, !.next = @ + 1,
                     !.serial[h] = s.next + 1],
           [k |-> "new", s |-> s.next + 1, h |-> h, f |-> s.sock[h].flow])
  ELSE s
readSocket(s, h) ==
  IF h \in s.connections /\ s.to_host[h] < TO_HOST_BUDGET /\ s.sock[h].rx > 0
  THEN Say([s EXCEPT !.sock[h].rx = @ - 1, !.to_host[h] = @ + 1],
           [k |-> "data", s |-> s.serial[h], h |-> h, f |-> s.sock[h].flow])
  ELSE s
findClosed(s, h) ==
  IF h \in s.connections /\ s.sock[h].st \in Dead /\ s.sock[h].rx = 0
  THEN [Say(forget(s, h), [k |-> "closed", s |-> s.serial[h], h |-> h, f |-> s.sock[h].flow])
        EXCEPT !.sock[h] = NoSocket]
  ELSE s
pollSocket(s, h) == findClosed(readSocket(handOver(s, h), h), h)
poll_tcp_sockets(s) == FoldLeft(pollSocket, s, [h \in Handles |-> h])

\* drain_pending_sends: what was queued goes to smoltcp, its permits are
\* given back, and a close that waited for it is made.
CanSend(s, h) == s.sock[h].st \in {"established", "closewait"}
drainSend(s, h) ==
  LET t == IF h \in s.connections /\ CanSend(s, h)
           THEN [s EXCEPT !.sock[h].tx = @ \o s.pending[h], !.pending[h] = <<>>] ELSE s
  IN  IF h \in s.closing /\ t.pending[h] = <<>> THEN close_socket(t, h) ELSE t
drain_pending_sends(s) == FoldLeft(drainSend, s, [h \in Handles |-> h])
\* Permits given back, and budgets closed, between two states of the stack.
Returned(s, t) ==
  [n \in Serials |->
     LET hs == {h \in Handles : s.serial[h] = n}
     IN  [n |-> budget[n].n + Cardinality({h \in hs : t.serial[h] = n /\ s.pending[h] # <<>> /\ t.pending[h] = <<>>}),
          open |-> budget[n].open /\ \A h \in hs : t.serial[h] = n]]

\* run_async: one turn, over the frames that wait.
Turn(late, admit) ==
  LET s == reap_sockets(stack, late)
      t == addListeners(s, wire, admit)
      u == poll_tcp_sockets(poll(t, retain_pending(s, t, wire)))
      w == drain_pending_sends(u)
  IN  /\ stack' = [w EXCEPT !.out = <<>>, !.reset = {}]
      /\ events' = events \o w.out
      /\ budget' = Returned(u, w)
      /\ wire' = <<>>
      /\ flow' = [f \in Flows |-> IF f \in w.reset /\ flow[f].at # "gone"
                                  THEN [flow[f] EXCEPT !.at = "reset"] ELSE flow[f]]
      /\ UNCHANGED <<cmds, task>>
run_async == \E late \in {FALSE, Stale(stack) # {}}, admit \in 0..Syns(wire) : Turn(late, admit)

\* Mutant: a command is matched by the handle alone.
HandleOnly(c) == stack.serial[c.h] # 0
\* handle_command: one for another connection of the handle is dropped.
Serves(c) == stack.serial[c.h] = c.s
handle_command ==
  LET c == Head(cmds)  h == c.h
  IN  /\ cmds # <<>> /\ cmds' = Tail(cmds)
      /\ stack' = CASE ~Serves(c) -> stack
                    [] c.k = "send" -> [stack EXCEPT !.pending[h] = Append(@, c.f)]
                    [] c.k = "consumed" -> [stack EXCEPT !.to_host[h] = IF @ > 0 THEN @ - 1 ELSE 0]
                    [] c.k = "close" /\ stack.pending[h] = <<>> -> close_socket(stack, h)
                    [] OTHER -> [stack EXCEPT !.closing = @ \cup {h}]
      /\ budget' = Returned(stack, stack')
      /\ UNCHANGED <<flow, wire, events, task>>

-----------------------------------------------------------------------------
(* The engine *)

Cmd(k, s) == [k |-> k, s |-> s, h |-> task[s].h, f |-> task[s].flow]
\* run: events to tasks. A closed connection loses its sender.
run ==
  LET e == Head(events)
  IN  /\ events # <<>> /\ events' = Tail(events)
      /\ task' = CASE e.k = "new" -> [task EXCEPT ![e.s] =
                        [NewTask EXCEPT !.at = "begin", !.flow = e.f, !.h = e.h]]
                   [] e.k = "data" -> [task EXCEPT ![e.s].rx = IF task[e.s].at = "ended" THEN @ ELSE @ + 1]
                   [] OTHER -> [task EXCEPT ![e.s].open = FALSE]
      /\ UNCHANGED <<flow, wire, stack, cmds, budget>>
\* GuestRx::recv: taking a payload tells the stack.
recv(s, at) == /\ task[s].rx > 0
               /\ task' = [task EXCEPT ![s].rx = @ - 1, ![s].at = at]
               /\ cmds' = Append(cmds, Cmd("consumed", s))
\* handle_connection: with TLS the first bytes are read first; then it is
\* blocked, and closed, or connected to. When connecting fails it ends as
\* it is.
handle_connection(s) ==
  /\ \/ task[s].at = "begin" /\ Tls /\ recv(s, "decide")
     \/ /\ task[s].at = IF Tls THEN "decide" ELSE "begin"
        /\ \/ task' = [task EXCEPT ![s].at = "ended"] /\ cmds' = Append(cmds, Cmd("close", s))
           \/ task' = [task EXCEPT ![s].at = "failed"] /\ UNCHANGED cmds
           \/ task' = [task EXCEPT ![s].at = "relay"] /\ UNCHANGED cmds
  /\ UNCHANGED <<flow, wire, stack, events, budget>>
\* blind_relay: up while there is something, down while there is budget.
relayUp(s) ==
  /\ task[s].at = "relay" /\ recv(s, "relay")
  /\ UNCHANGED <<flow, wire, stack, events, budget>>
\* GuestTx::send: a permit each, then the command.
relayDown(s) ==
  /\ task[s].at = "relay" /\ task[s].down < MaxDown /\ budget[s].open /\ budget[s].n > 0
  /\ budget' = [budget EXCEPT ![s].n = @ - 1]
  /\ cmds' = Append(cmds, Cmd("send", s)) /\ task' = [task EXCEPT ![s].down = @ + 1]
  /\ UNCHANGED <<flow, wire, stack, events>>
\* Either way ends: the remote closed, the sender is gone and read out, or
\* the budget closed under a send.
relayEnds(s) ==
  /\ task[s].at = "relay"
  /\ task' = [task EXCEPT ![s].at = "ended"] /\ cmds' = Append(cmds, Cmd("close", s))
  /\ UNCHANGED <<flow, wire, stack, events, budget>>

-----------------------------------------------------------------------------
(* The guest *)

Puts(f, k) == wire' = Append(wire, [k |-> k, f |-> f])
Sees(f, sts) == \E h \in SocketOf(stack, f) : stack.sock[h].st \in sts
Pending(f) == \E i \in DOMAIN wire : wire[i].f = f
\* A SYN, again when it was held back; the ACK of a handshake and of a FIN.
GuestSyn(f) ==
  /\ flow[f].at \in {"new", "syn"} /\ ~Pending(f) /\ SocketOf(stack, f) = {}
  /\ flow' = [flow EXCEPT ![f].at = "syn"] /\ Puts(f, "syn")
GuestAcks(f) ==
  /\ ~Pending(f)
  /\ \/ flow[f].at = "syn" /\ Sees(f, {"synrcvd"}) /\ flow' = [flow EXCEPT ![f].at = "open"]
     \/ flow[f].at = "fin" /\ Sees(f, {"lastack"}) /\ flow' = [flow EXCEPT ![f].at = "over"]
        /\ \A h \in SocketOf(stack, f) : stack.sock[h].tx = <<>>
  /\ Puts(f, "ack")
GuestSends(f) ==
  /\ flow[f].at = "open" /\ flow[f].up < MaxUp /\ Sees(f, {"established", "finwait"})
  /\ flow' = [flow EXCEPT ![f].up = @ + 1] /\ Puts(f, "data")
GuestReads(f) ==
  /\ flow[f].at \in {"open", "fin"} /\ ~Pending(f)
  /\ \E h \in SocketOf(stack, f) :
       /\ stack.sock[h].tx # <<>>
       /\ flow' = [flow EXCEPT ![f].got = Append(@, Head(stack.sock[h].tx))] /\ Puts(f, "read")
GuestFins(f) ==
  /\ flow[f].at = "open" /\ Sees(f, {"established", "finwait"})
  /\ \A h \in SocketOf(stack, f) : stack.sock[h].st = "finwait" => stack.sock[h].tx = <<>>
  /\ flow' = [flow EXCEPT ![f].at = IF Sees(f, {"finwait"}) THEN "over" ELSE "fin"] /\ Puts(f, "fin")
GuestResets(f) ==
  /\ flow[f].at \in {"open", "fin"} /\ flow' = [flow EXCEPT ![f].at = "gone"] /\ Puts(f, "rst")
\* It falls silent; smoltcp drops what the host closed after CLOSE_TIMEOUT.
GuestGone(f) ==
  /\ flow[f].at \in {"syn", "open", "fin"} /\ flow' = [flow EXCEPT ![f].at = "gone"] /\ UNCHANGED wire
CloseTimeout(h) ==
  /\ Gone(stack.sock[h].flow) /\ h \in stack.draining \cup stack.closing /\ stack.sock[h].st \notin Dead
  /\ stack' = [stack EXCEPT !.sock[h].st = "closed", !.sock[h].tx = <<>>, !.sock[h].rx = 0]
  /\ UNCHANGED <<flow, wire, events, cmds, budget, task>>
Guest(f) ==
  /\ \/ GuestSyn(f) \/ GuestAcks(f) \/ GuestSends(f) \/ GuestReads(f) \/ GuestFins(f)
     \/ GuestResets(f) \/ GuestGone(f)
  /\ UNCHANGED <<stack, events, cmds, budget, task>>

Next == \/ run_async \/ handle_command \/ run
        \/ \E s \in Serials : handle_connection(s) \/ relayUp(s) \/ relayDown(s) \/ relayEnds(s)
        \/ \E f \in Flows : Guest(f)
        \/ \E h \in Handles : CloseTimeout(h)
Spec == Init /\ [][Next]_vars

-----------------------------------------------------------------------------

\* What a connection of the guest receives was sent on that connection,
\* though its handle served another before and commands for that one are
\* still queued.
OwnBytes ==
  /\ \A f \in Flows : \A i \in DOMAIN flow[f].got : flow[f].got[i] = f
  /\ \A h \in Handles : \A i \in DOMAIN stack.sock[h].tx : stack.sock[h].tx[i] = stack.sock[h].flow
\* No permit is lost or made: a unit toward the guest is in the budget, in
\* a command, or waits for smoltcp.
SendsOf(s) == Len(SelectSeq(cmds, LAMBDA c : c.k = "send" /\ c.s = s))
BudgetConserved ==
  \A h \in stack.connections :
    LET s == stack.serial[h]
    IN  budget[s].open /\ budget[s].n + SendsOf(s) + Len(stack.pending[h]) = TO_GUEST_BUDGET
\* A connection the host closed got everything that was sent on it first,
\* for a guest that is still there.
SentBeforeClosed ==
  \A h \in stack.draining : LET f == stack.sock[h].flow
    IN  flow[f].at # "gone" /\ stack.sock[h].st \in {"finwait", "lastack"}
          => \E s \in Serials : /\ task[s].flow = f
               /\ Len(flow[f].got) + Len(stack.sock[h].tx)
                    - Len(SelectSeq(wire, LAMBDA e : e.k = "read" /\ e.f = f)) = task[s].down
\* A connection whose task ended with a close is closed once the command
\* has been handled, whatever the socket was doing.
EndedAreClosed ==
  cmds = <<>> => \A h \in stack.connections :
    task[stack.serial[h]].at = "ended" => h \in stack.closing
NetStackSafe == OwnBytes /\ BudgetConserved /\ SentBeforeClosed /\ EndedAreClosed

\* A SYN that was let in is never answered with a reset.  Violated: at
\* MAX_TCP_SOCKETS no socket listens for it.
SynNotReset ==
  [][\A f \in Flows \ Denied : flow[f].at = "syn" => flow'[f].at # "reset"]_vars
=============================================================================
