------------------------------ MODULE VsockMux ------------------------------
(***************************************************************************)
(* The connections of the vsock device as a whole: Mux of                  *)
(* crates/shuru-linux/src/kvm/vsock/connection.rs and VsockControl of      *)
(* vsock.rs, with the host threads that connect, the clients of the        *)
(* listener, and a guest that may come from a snapshot with sockets of its *)
(* own.  What one connection does with its bytes is VsockConnection's.     *)
(*                                                                         *)
(* The worker keeps the state locked through a whole pass; here other      *)
(* threads may step in between two packets of a pass.                      *)
(***************************************************************************)
EXTENDS Integers, Sequences, FiniteSets

CONSTANTS
  Callers,      \* host threads in VsockControl::connect
  Clients,      \* clients of the listener
  MaxConns,     \* max_connections
  MaxPending,   \* MAX_PENDING_RESETS
  MaxHandshakes,\* MAX_HANDSHAKES
  MaxPort,      \* the last port, u32::MAX in the code
  EventWrap,    \* the modulus of the event ring's avail index, 2^16
  RxBuffers,    \* rx buffers of the guest
  None

ASSUME MuxAssumption ==
  /\ MaxConns \in Nat /\ MaxPending \in Nat /\ MaxHandshakes \in Nat
  /\ MaxPort \in Nat /\ EventWrap \in Nat \ {0, 1} /\ RxBuffers \in Nat
  /\ Callers \cap {"Listener", "taken"} = {} /\ None \notin Nat

\* Ports are counted from 1024.
Ports == 1 .. MaxPort
NoPort == 0

VARIABLES
  \* Mux.
  conns,      \* per open port: who waits for its answer (a caller, or
              \* "Listener", or "taken" once it came), and whether its
              \* REQUEST is still to be sent
  resets,     \* ports of pending RSTs
  next_port, last_port,
  ready,      \* ports whose client has sent bytes
  \* State.
  transport,  \* "none" or "up"
  resetting,  \* Transport::resetting, or None
  failed,
  \* Host threads.
  caller,     \* "idle", "waiting" or "giving_up", its port and its answer
  handshake,  \* clients in read_connect, as the listener counts them
  \* The guest (external).
  rx,         \* packets it has not taken
  guest,      \* ports it has a socket for
  posted,     \* avail index of its event ring
  unhandled,  \* a transport reset event it has not handled
  \* History.
  passed      \* the turns each port got since each other one wanted its own

mux == <<conns, resets, next_port, last_port, ready, passed>>
state == <<transport, resetting, failed>>
hosts == <<caller, handshake>>
guests == <<rx, guest, posted, unhandled>>
vars == <<mux, state, hosts, guests>>

Open == DOMAIN conns
NoCall == [pc |-> "idle", port |-> 0, reply |-> "none"]
NoTurns == [p \in Ports |-> [q \in Ports |-> 0]]

\* A guest booted, or one restored with its sockets, which is sent a
\* transport reset event before the device serves it.
Init ==
  /\ conns = <<>> /\ resets = <<>> /\ next_port = 0 /\ last_port = 0
  /\ ready = {} /\ passed = NoTurns
  /\ transport = "up" /\ failed = FALSE
  /\ \/ guest = {} /\ posted = 0 /\ unhandled = FALSE /\ resetting = None
     \/ /\ guest = {1} /\ posted \in 0 .. EventWrap - 1 /\ unhandled = TRUE
        /\ resetting = (posted + 1) % EventWrap
  /\ caller = [c \in Callers |-> NoCall]
  /\ handshake = {} /\ rx = <<>>

----------------------------------------------------------------------------
(* Mux                                                                     *)

max_resets == MaxConns + MaxPending

\* What is pending and what may still be pending.
can_receive == Len(resets) + Cardinality(Open) < max_resets

\* The ports of S in the order in which the map holds them.
Ascending(S) ==
  [i \in 1 .. Cardinality(S) |->
     CHOOSE p \in S : Cardinality({q \in S : q <= p}) = i]

\* Connection::drop answers a caller that still waits.
Answered(gone) ==
  [c \in Callers |->
     IF \E p \in gone : conns[p].opener = c
       THEN [caller[c] EXCEPT !.reply = "err"] ELSE caller[c]]

\* reset, with the connections of `gone` removed: no more than fit.
Pushed(rsts, gone) ==
  LET room == max_resets - Cardinality(Open \ gone) - Len(resets)
  IN resets \o SubSeq(rsts, 1, IF Len(rsts) < room THEN Len(rsts) ELSE room)

\* The connections of `gone` end, each with an RST to the guest or not.
Drop(gone, rst) ==
  /\ conns' = [p \in Open \ gone |-> conns[p]]
  /\ resets' = IF rst THEN Pushed(Ascending(gone), gone) ELSE resets
  /\ caller' = Answered(gone)
  /\ ready' = ready \ gone
  /\ passed' = [p \in Ports |-> IF p \in gone THEN NoTurns[p] ELSE passed[p]]
  /\ UNCHANGED <<next_port, last_port>>

\* Mutant: ports start over.
PortsStartOver == 0

\* A cleared mux goes on from the last port.
PortAfterClear == next_port

clear ==
  /\ conns' = <<>> /\ resets' = <<>> /\ last_port' = 0
  /\ caller' = Answered(Open)
  /\ ready' = {} /\ passed' = NoTurns
  /\ next_port' = PortAfterClear

\* pump cancels what failed, closed or ran out of time.
PumpCancels(gone) ==
  /\ transport = "up" /\ gone # {} /\ gone \subseteq Open
  /\ Drop(gone, TRUE)
  /\ UNCHANGED <<state, handshake, guests>>

\* receive: a packet of the guest.  Its RST, when it is for no connection,
\* is for the sockets its header names: port p's, or none the device knows
\* when the guest's port is not the connection's ("SPOOFED").
ReceiveUnknown(op, p) ==
  /\ p \notin Open \/ op = "SPOOFED"
  /\ resets' = CASE op = "RST" -> resets
                 [] op = "SPOOFED" -> Pushed(<<NoPort>>, {})
                 [] OTHER -> Pushed(<<p>>, {})
  /\ UNCHANGED <<conns, next_port, last_port, ready, passed, caller>>

ReceiveRst(op, p) ==
  /\ p \in Open /\ op = "RST"
  /\ Drop({p}, FALSE)

ReceiveResponse(op, p) ==
  /\ p \in Open /\ op = "RESPONSE" /\ conns[p].opener # "taken"
  /\ conns' = [conns EXCEPT ![p].opener = "taken"]
  /\ caller' = [c \in Callers |->
       IF conns[p].opener = c THEN [caller[c] EXCEPT !.reply = "ok"]
       ELSE caller[c]]
  /\ UNCHANGED <<resets, next_port, last_port, ready, passed>>

ReceiveData(op, p) ==
  /\ p \in Open /\ op = "DATA" /\ conns[p].opener = "taken"
  /\ UNCHANGED <<mux, caller>>

\* Malformed, out of place, or the listener's client takes no greeting.
ReceiveReset(op, p) ==
  /\ p \in Open
  /\ \/ op = "MALFORMED"
     \/ op = "RESPONSE" /\ conns[p].opener \in {"taken", "Listener"}
     \/ op = "DATA" /\ conns[p].opener # "taken"
  /\ Drop({p}, TRUE)

Receive(op, p) ==
  /\ transport = "up" /\ can_receive
  /\ \/ ReceiveUnknown(op, p) \/ ReceiveRst(op, p) \/ ReceiveResponse(op, p)
     \/ ReceiveData(op, p) \/ ReceiveReset(op, p)
  /\ guest' = IF op = "RST" THEN guest \ {p} ELSE guest
  /\ UNCHANGED <<state, handshake, rx, posted, unhandled>>

----------------------------------------------------------------------------
(* fill                                                                    *)

Packet(op, p) == [op |-> op, port |-> p]

FillReset ==
  /\ transport = "up" /\ resets # <<>> /\ Len(rx) < RxBuffers
  /\ rx' = Append(rx, Packet("RST", Head(resets)))
  /\ resets' = Tail(resets)
  /\ UNCHANGED <<conns, next_port, last_port, ready, passed, state, hosts,
                 guest, posted, unhandled>>

\* The connections whose fill has something to send.  An early RESPONSE
\* leaves the REQUEST unsent.
Wants == {p \in Open : IF conns[p].opener = "taken" THEN p \in ready
                       ELSE conns[p].send_request}

\* Mutant: the search always starts at the lowest port.
TurnOfFirst(p) == \A q \in Wants : p <= q

\* The first after last_port that has something to send, from the lowest on
\* when there is none.
TurnOf(p) ==
  IF \E q \in Wants : q > last_port
    THEN p > last_port /\ \A q \in Wants : q > last_port => p <= q
    ELSE \A q \in Wants : p <= q

FillTurn(p, more) ==
  /\ transport = "up" /\ resets = <<>> /\ Len(rx) < RxBuffers
  /\ p \in Wants /\ TurnOf(p)
  /\ last_port' = p
  /\ IF conns[p].opener = "taken"
       THEN /\ rx' = Append(rx, Packet("DATA", p))
            /\ ready' = IF more THEN ready ELSE ready \ {p}
            /\ UNCHANGED conns
       ELSE /\ rx' = Append(rx, Packet("REQUEST", p))
            /\ conns' = [conns EXCEPT ![p].send_request = FALSE]
            /\ UNCHANGED ready
  /\ passed' = [q \in Ports |->
       IF q = p \/ q \notin Wants THEN NoTurns[q]
       ELSE [passed[q] EXCEPT ![p] = IF @ < 2 THEN @ + 1 ELSE @]]
  /\ UNCHANGED <<resets, next_port, state, hosts, guest, posted, unhandled>>

\* The client's socket failed.
FillError(p) ==
  /\ transport = "up" /\ resets = <<>> /\ Len(rx) < RxBuffers
  /\ p \in Open /\ conns[p].opener = "taken"
  /\ Drop({p}, TRUE)
  /\ UNCHANGED <<state, handshake, guests>>

\* A client writes, and epoll wakes its connection.
Wake(p) ==
  /\ p \in Open \ ready
  /\ ready' = ready \cup {p}
  /\ UNCHANGED <<conns, resets, next_port, last_port, passed, state, hosts,
                 guests>>

----------------------------------------------------------------------------
(* VsockControl                                                            *)

\* Mutant: the reset event counts as handled when it is sent.
HandledEarly(i) == TRUE

\* The guest posted as far as `i`, wrapping.
Handled(i) == (posted - i) % EventWrap < EventWrap \div 2

accepts_connects == IF resetting = None THEN TRUE ELSE Handled(resetting)

\* Mutant: pending resets take no room.
HasRoomForConn == Cardinality(Open) < MaxConns

\* add leaves room for the reset of every connection.
HasRoom ==
  /\ Cardinality(Open) < MaxConns
  /\ Cardinality(Open) + Len(resets) < max_resets

\* attach adds a connection.
Attaches(opener) ==
  /\ transport = "up" /\ accepts_connects /\ ~failed
  /\ HasRoom /\ next_port < MaxPort
  /\ next_port' = next_port + 1
  /\ resetting' = None
  /\ conns' = [p \in Open \cup {next_port + 1} |->
       IF p \in Open THEN conns[p]
       ELSE [opener |-> opener, send_request |-> TRUE]]
  /\ UNCHANGED <<resets, last_port, ready, passed, transport, failed>>

\* It finds no room or no port, or epoll does not take the socket and the
\* connection is cancelled again; the guest has handled its reset all the
\* same.  Otherwise the device is not ready and nothing changes.
AttachFails ==
  /\ transport = "up" /\ accepts_connects /\ ~failed
  /\ resetting' = None
  /\ IF HasRoom /\ next_port < MaxPort
       THEN /\ next_port' = next_port + 1
            /\ resets' = Pushed(<<next_port + 1>>, {})
       ELSE UNCHANGED <<next_port, resets>>
  /\ UNCHANGED <<conns, last_port, ready, passed, transport, failed, hosts,
                 guests>>

Connect(c) ==
  /\ caller[c].pc = "idle"
  /\ Attaches(c)
  /\ caller' = [caller EXCEPT ![c] =
       [pc |-> "waiting", port |-> next_port + 1, reply |-> "none"]]
  /\ UNCHANGED <<handshake, guests>>

Connected(c) ==
  /\ caller[c].pc = "waiting" /\ caller[c].reply = "ok"
  /\ caller' = [caller EXCEPT ![c] = NoCall]
  /\ UNCHANGED <<mux, state, handshake, guests>>

\* Refused, or CONNECT_TIMEOUT passed.
GivesUp(c) ==
  /\ caller[c].pc = "waiting"
  /\ caller' = [caller EXCEPT ![c].pc = "giving_up"]
  /\ UNCHANGED <<mux, state, handshake, guests>>

\* The connection is cancelled, if it is still there.
Cancels(c) ==
  LET gone == {caller[c].port} \cap Open IN
  /\ caller[c].pc = "giving_up"
  /\ conns' = [p \in Open \ gone |-> conns[p]]
  /\ resets' = Pushed(Ascending(gone), gone)
  /\ caller' = [Answered(gone) EXCEPT ![c] = NoCall]
  /\ ready' = ready \ gone
  /\ passed' = [p \in Ports |-> IF p \in gone THEN NoTurns[p] ELSE passed[p]]
  /\ UNCHANGED <<next_port, last_port, state, handshake, guests>>

\* accept: a client too many is closed at once.
Accept(l) ==
  /\ l \notin handshake /\ Cardinality(handshake) < MaxHandshakes
  /\ handshake' = handshake \cup {l}
  /\ UNCHANGED <<mux, state, caller, guests>>

\* read_connect, then attach; either may fail, and so may the thread.
HandshakeEnds(l, attached) ==
  /\ l \in handshake /\ handshake' = handshake \ {l}
  /\ IF attached THEN Attaches("Listener") ELSE UNCHANGED <<mux, state>>
  /\ UNCHANGED <<caller, guests>>

\* A malformed ring stops the device until the guest resets it.
ProcessFails ==
  /\ transport = "up"
  /\ transport' = "none" /\ resetting' = None /\ failed' = TRUE
  /\ clear
  /\ UNCHANGED <<handshake, guests>>

\* The driver resets the device, and has no sockets any more.
Deactivate ==
  /\ transport' = "none" /\ resetting' = None /\ failed' = FALSE
  /\ clear
  /\ guest' = {} /\ rx' = <<>> /\ unhandled' = FALSE
  /\ UNCHANGED <<handshake, posted>>

Activate ==
  /\ transport = "none" /\ ~failed
  /\ transport' = "up" /\ posted' = 0
  /\ UNCHANGED <<mux, resetting, failed, hosts, rx, guest, unhandled>>

----------------------------------------------------------------------------
(* The guest (external)                                                    *)

\* It may refuse a REQUEST, which it then says with an RST.
GuestTakes(accepts) ==
  /\ rx # <<>> /\ rx' = Tail(rx)
  /\ guest' = CASE Head(rx).op = "RST" -> guest \ {Head(rx).port}
                [] Head(rx).op = "REQUEST" /\ accepts
                     -> guest \cup {Head(rx).port}
                [] OTHER -> guest
  /\ UNCHANGED <<mux, state, hosts, posted, unhandled>>

\* The reset event ends every socket, then its buffer is posted again.
GuestHandles ==
  /\ unhandled /\ unhandled' = FALSE
  /\ guest' = {} /\ posted' = (posted + 1) % EventWrap
  /\ UNCHANGED <<mux, state, hosts, rx>>

\* It may send anything on any port, but does not refuse a REQUEST it has
\* not read.
GuestSends ==
  \E op \in {"RESPONSE", "DATA", "RST", "MALFORMED", "SPOOFED"}, p \in Ports :
    /\ op = "RST" => \A i \in 1 .. Len(rx) : rx[i] # Packet("REQUEST", p)
    /\ Receive(op, p)

Next ==
  \/ \E gone \in SUBSET Open : PumpCancels(gone)
  \/ FillReset
  \/ \E p \in Ports :
       (\E more \in BOOLEAN : FillTurn(p, more)) \/ FillError(p) \/ Wake(p)
  \/ \E c \in Callers : Connect(c) \/ Connected(c) \/ GivesUp(c) \/ Cancels(c)
  \/ \E l \in Clients :
       Accept(l) \/ \E attached \in BOOLEAN : HandshakeEnds(l, attached)
  \/ AttachFails \/ ProcessFails \/ Deactivate \/ Activate
  \/ \E accepts \in BOOLEAN : GuestTakes(accepts)
  \/ GuestHandles \/ GuestSends

Spec == Init /\ [][Next]_vars

----------------------------------------------------------------------------
(* Properties                                                              *)

\* The types of the mux; the resets and the connections that may still need
\* one fit the queue together (max_resets).
TypeOK ==
  /\ Open \subseteq Ports
  /\ \A p \in Open : conns[p] \in
       [opener : Callers \cup {"Listener", "taken"}, send_request : BOOLEAN]
  /\ resets \in Seq(Ports \cup {NoPort}) /\ Len(resets) + Cardinality(Open) <= max_resets
  /\ next_port \in 0 .. MaxPort /\ last_port \in 0 .. MaxPort
  /\ ready \subseteq Open
  /\ transport \in {"none", "up"} /\ failed \in BOOLEAN
  /\ resetting \in 0 .. EventWrap - 1 \cup {None}
  /\ caller \in [Callers -> [pc : {"idle", "waiting", "giving_up"},
                             port : 0 .. MaxPort,
                             reply : {"none", "ok", "err"}]]
  /\ handshake \subseteq Clients
  /\ rx \in Seq([op : {"RST", "REQUEST", "DATA"}, port : Ports \cup {NoPort}])
  /\ guest \subseteq Ports /\ posted \in 0 .. EventWrap - 1
  /\ unhandled \in BOOLEAN

\* The guest is told of every connection the device forgot: a socket it has
\* and the device has not is on its way to be reset, however full the resets
\* were (reset, cancel, can_receive, add).
GuestHearsOfClose ==
  transport = "up" /\ ~unhandled =>
    \A p \in guest \ Open :
      \/ \E i \in 1 .. Len(resets) : resets[i] = p
      \/ \E i \in 1 .. Len(rx) : rx[i] = Packet("RST", p)

\* A caller that gives up cancels its own connection only, though the device
\* was reset while it waited and others connected since (add never reuses a
\* port).
CancelHitsOwn ==
  \A p \in Open, c \in Callers :
    /\ conns[p].opener = c => caller[c].pc # "idle" /\ caller[c].port = p
    /\ caller[c].pc # "idle" /\ caller[c].port = p =>
         conns[p].opener \in {c, "taken"} /\ (conns[p].opener = "taken" =>
                                                caller[c].reply = "ok")

\* A host connect reaches a restored guest only once the guest has dropped
\* the sockets of its past, which would share its ports and take it down
\* with them (accepts_connects).
ConnectsAfterReset == unhandled => Open = {}

\* No connection gets two turns while another has something to send (fill:
\* "Connections take turns so a bulk transfer cannot starve the others").
TakesTurns == \A p, q \in Ports : passed[p][q] <= 1
=============================================================================
