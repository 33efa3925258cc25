-------------------------- MODULE VsockConnection --------------------------
(***************************************************************************)
(* One connection of the vsock device of the KVM backend: struct           *)
(* Connection of crates/shuru-linux/src/kvm/vsock/connection.rs with its   *)
(* Credit, between the unix socket of a host client and a guest that may   *)
(* send anything.  The counters are u32 and wrap at W.                     *)
(*                                                                         *)
(* A byte is named by its position, modulo W, in the stream it belongs to, *)
(* so a lost, repeated or reordered byte shows in the sequences.           *)
(***************************************************************************)
EXTENDS Integers, Sequences

CONSTANTS
  W,           \* the modulus of the u32 counters, 2^32 in the code
  BufferSize,  \* BUFFER_SIZE: what the host keeps for the guest
  MaxPacket,   \* MAX_PACKET
  MaxTurn,     \* MAX_TURN: what one turn reads from the client
  RxBuffers,   \* rx buffers the guest keeps posted
  RxRoom,      \* payload bytes an rx buffer takes
  SocketSize,  \* bytes the client's socket holds for the client to read
  SendSize,    \* bytes it holds from the client, 0 when it never writes
  Allocs,      \* buf_alloc values the guest may announce
  MaxLen       \* longest payload the guest may send

ASSUME SizesAssumption ==
  /\ W \in Nat /\ BufferSize \in Nat /\ MaxPacket \in Nat /\ MaxTurn \in Nat
  /\ RxBuffers \in Nat \ {0} /\ RxRoom \in Nat \ {0}
  /\ SocketSize \in Nat \ {0} /\ SendSize \in Nat /\ MaxLen \in Nat
  /\ 0 < MaxPacket /\ MaxPacket <= BufferSize /\ BufferSize < W
  /\ 0 < MaxTurn /\ MaxLen < W /\ SendSize < W
  /\ BufferSize + SocketSize < W
  /\ Allocs \subseteq 0 .. W - 1

\* What the rx buffers hold and the socket behind them fits the names of the
\* bytes, which are modulo W.
ASSUME InFlightAssumption ==
  RxBuffers * RxRoom <= W /\ RxBuffers * RxRoom + SendSize <= W + 1

Both == {"RECEIVE", "SEND"}
Greeting == W  \* the line "OK <host port>" in the client's socket

VARIABLES
  \* The life of the connection.
  status,           \* "pending", "established" or "gone" from the mux
  opener,           \* who waits for the guest's answer: "Caller",
                    \* "Listener" or "taken"
  reply,            \* what the caller's channel holds: "none", "ok", "err"
  caller,           \* the thread in connect(): "waiting", "giving_up",
                    \* "connected" or "failed"
  deadline,         \* "none", "armed" or "passed"
  send_request, peer_shutdown, local_shutdown, send_shutdown,
  rst,              \* an RST for this connection waits in Mux::resets
  \* Guest to host.
  received, forwarded, advertised, incoming, send_credit_update,
  \* Host to guest.
  sent, peer_forwarded, peer_alloc, credit_requested,
  rx,               \* payloads in used rx buffers the guest has not taken,
                    \* <<>> for a control packet
  \* The unix socket.
  readable, writable,
  edge,             \* an epoll event the worker has not taken
  toHost, fromHost, \* bytes in the socket, each way
  clientGot,        \* the next guest byte the client reads
  client            \* "open", "shut" (write side) or "closed"

life == <<status, opener, reply, caller, deadline, send_request,
          peer_shutdown, local_shutdown, send_shutdown, rst>>
intake == <<received, forwarded, advertised, incoming, send_credit_update>>
credit == <<sent, peer_forwarded, peer_alloc, credit_requested>>
ends == <<readable, writable, edge, toHost, fromHost, clientGot, client>>
vars == <<status, opener, reply, caller, deadline, send_request,
          peer_shutdown, local_shutdown, send_shutdown, rst,
          received, forwarded, advertised, incoming, send_credit_update,
          sent, peer_forwarded, peer_alloc, credit_requested, rx,
          readable, writable, edge, toHost, fromHost, clientGot, client>>

----------------------------------------------------------------------------
(* u32 arithmetic, for operands already below W. *)

\* Mutant: the sum is not reduced.
unwrapped_add(a, b) == a + b

wrapping_add(a, b) == IF a + b < W THEN a + b ELSE a + b - W
wrapping_sub(a, b) == IF a >= b THEN a - b ELSE a - b + W
saturating_sub(a, b) == IF a >= b THEN a - b ELSE 0
Least(a, b) == IF a <= b THEN a ELSE b

\* The n bytes of a stream from position a on.
Bytes(a, n) == [i \in 1 .. n |-> wrapping_add(a, i - 1)]
\* Mutant: the last byte taken is left in place.
DropButOne(s, n) == SubSeq(s, IF n = 0 THEN 1 ELSE n, Len(s))

Drop(s, n) == SubSeq(s, n + 1, Len(s))
Take(s, n) == SubSeq(s, 1, n)

----------------------------------------------------------------------------
(* Credit *)

\* Mutant: the bytes in flight are a signed difference.
AvailableSigned(alloc, sentCount, fwd) == saturating_sub(alloc, sentCount - fwd)

\* What the guest may still be sent.
Available(alloc, sentCount, fwd) ==
  saturating_sub(alloc, wrapping_sub(sentCount, fwd))

\* An acknowledgement cannot advance past the data already sent.
Acknowledges(h) ==
  wrapping_sub(h.fwd_cnt, peer_forwarded) <= wrapping_sub(sent, peer_forwarded)

\* Mutant: a signed difference again.
PeerViewSigned == saturating_sub(BufferSize, received - advertised)

\* What the guest believes the host can still take.
PeerView == saturating_sub(BufferSize, wrapping_sub(received, advertised))

UpdateCredit(h) ==
  /\ peer_forwarded' = h.fwd_cnt
  /\ peer_alloc' = h.buf_alloc
  /\ credit_requested' = (credit_requested
                            /\ Available(h.buf_alloc, sent, h.fwd_cnt) = 0)
  /\ sent' = sent

----------------------------------------------------------------------------
Init ==
  /\ status = "pending" /\ opener \in {"Caller", "Listener"}
  /\ reply = "none"
  /\ caller = IF opener = "Caller" THEN "waiting" ELSE "connected"
  /\ deadline = "armed" /\ send_request = TRUE
  /\ peer_shutdown = {} /\ local_shutdown = {} /\ send_shutdown = {}
  /\ rst = FALSE
  /\ received = 0 /\ forwarded = 0 /\ advertised = 0 /\ incoming = <<>>
  /\ send_credit_update = FALSE
  /\ sent = 0 /\ peer_forwarded = 0 /\ peer_alloc = 0
  /\ credit_requested = FALSE
  /\ rx = <<>>
  /\ readable = TRUE /\ writable = TRUE /\ edge = TRUE
  /\ toHost = <<>> /\ fromHost = <<>> /\ clientGot = 0
  /\ client = "open"

\* Connection::drop: a caller still waiting is refused and the socket is
\* shut both ways.  The fields are gone with the connection, here reset.
Freed ==
  /\ opener' = "taken" /\ deadline' = "none" /\ send_request' = FALSE
  /\ peer_shutdown' = {} /\ local_shutdown' = {} /\ send_shutdown' = {}
  /\ received' = 0 /\ forwarded' = 0 /\ advertised' = 0
  /\ incoming' = <<>> /\ send_credit_update' = FALSE
  /\ sent' = 0 /\ peer_forwarded' = 0 /\ peer_alloc' = 0
  /\ credit_requested' = FALSE
  /\ readable' = FALSE /\ writable' = FALSE /\ edge' = FALSE
  /\ toHost' = <<>> /\ fromHost' = <<>> /\ clientGot' = 0

Dropped(withRst) ==
  /\ status' = "gone"
  /\ rst' = (rst \/ withRst)
  /\ reply' = IF opener = "Caller" THEN "err" ELSE reply
  /\ Freed
  /\ UNCHANGED <<caller, rx, client>>

----------------------------------------------------------------------------
(* Mux::receive and Connection::receive: one packet of the guest.          *)

SendsData == /\ status = "established"
             /\ "SEND" \notin local_shutdown
             /\ "RECEIVE" \notin peer_shutdown

\* A packet that resets the connection: malformed, acknowledging unsent
\* data, out of place for the state, or outside the window.
Rejects(h) ==
  \/ h.op = "MALFORMED"
  \/ ~Acknowledges(h)
  \/ status = "pending" /\ h.op # "RESPONSE"
  \/ /\ status = "established"
     /\ \/ h.op \in {"REQUEST", "RESPONSE"}
        \/ h.op = "SHUTDOWN" /\ h.flags = {}
        \/ /\ h.op = "RW"
           /\ \/ "SEND" \in peer_shutdown
              \/ "RECEIVE" \in local_shutdown
              \/ h.len > PeerView

\* Mutant: new bytes overtake the queued ones.
StraightPastQueue(h) ==
  IF writable THEN Least(h.len, SocketSize - Len(toHost)) ELSE 0

\* Bytes sent straight from guest memory, while nothing is queued ahead.
Straight(h) ==
  IF writable /\ incoming = <<>>
    THEN Least(h.len, SocketSize - Len(toHost)) ELSE 0

\* The client is gone, so a send fails with EPIPE.
SendFails(n) == n > 0 /\ writable /\ client = "closed"

ReceiveRst(h) ==
  /\ h.op = "RST" /\ status # "gone"
  /\ Dropped(FALSE)

ReceiveReset(h) ==
  /\ h.op # "RST" /\ status # "gone"
  /\ \/ Rejects(h)
     \/ /\ status = "pending" /\ opener = "Listener" /\ client = "closed"
     \/ /\ status = "established" /\ h.op = "RW" /\ incoming = <<>>
        /\ SendFails(h.len)
  /\ Dropped(TRUE)

\* The guest accepts: its caller hears of it, or the listener client reads
\* the greeting, one byte here, before any guest data.
ReceiveResponse(h) ==
  /\ h.op = "RESPONSE" /\ status = "pending" /\ ~Rejects(h)
  /\ ~(opener = "Listener" /\ client = "closed")
  /\ UpdateCredit(h)
  /\ status' = "established" /\ deadline' = "none" /\ opener' = "taken"
  /\ reply' = IF opener = "Caller" THEN "ok" ELSE reply
  /\ toHost' = IF opener = "Listener" THEN Append(toHost, Greeting) ELSE toHost
  /\ UNCHANGED <<caller, send_request, peer_shutdown, local_shutdown,
                 send_shutdown, rst, intake, rx, readable, writable, edge,
                 fromHost, clientGot, client>>

ReceiveData(h) ==
  /\ h.op = "RW" /\ status = "established" /\ ~Rejects(h)
  /\ ~(incoming = <<>> /\ SendFails(h.len))
  /\ UpdateCredit(h)
  /\ LET data == Bytes(received, h.len)
         n == Straight(h)
     IN /\ received' = wrapping_add(received, h.len)
        /\ forwarded' = wrapping_add(forwarded, n)
        /\ toHost' = toHost \o Take(data, n)
        /\ incoming' = incoming \o Drop(data, n)
        /\ writable' = (writable /\ ~(incoming = <<>> /\ n < h.len))
  /\ UNCHANGED <<life, advertised, send_credit_update, rx, readable, edge,
                 fromHost, clientGot, client>>

ReceiveCredit(h) ==
  /\ h.op \in {"CREDIT_UPDATE", "CREDIT_REQUEST"} /\ status = "established"
  /\ ~Rejects(h)
  /\ UpdateCredit(h)
  /\ send_credit_update' = (send_credit_update \/ h.op = "CREDIT_REQUEST")
  /\ UNCHANGED <<life, received, forwarded, advertised, incoming, rx, ends>>

ReceiveShutdown(h) ==
  /\ h.op = "SHUTDOWN" /\ status = "established" /\ ~Rejects(h)
  /\ UpdateCredit(h)
  /\ peer_shutdown' = peer_shutdown \cup h.flags
  /\ edge' = (edge \/ "RECEIVE" \in h.flags)
  /\ UNCHANGED <<status, opener, reply, caller, deadline, send_request,
                 local_shutdown, send_shutdown, rst, intake, rx, readable,
                 writable, toHost, fromHost, clientGot, client>>

Receive(h) ==
  \/ ReceiveRst(h) \/ ReceiveReset(h) \/ ReceiveResponse(h)
  \/ ReceiveData(h) \/ ReceiveCredit(h) \/ ReceiveShutdown(h)

----------------------------------------------------------------------------
(* Connection::pump                                                        *)

Drained == IF writable THEN Least(Len(incoming), SocketSize - Len(toHost))
           ELSE 0

\* Mutant: the write side is shut with bytes still queued.
ClosesWriteEarly ==
  "SEND" \in peer_shutdown /\ "RECEIVE" \notin local_shutdown

\* The write side of the client's socket is shut once the guest will send
\* no more and all it sent is through.
ClosesWrite ==
  /\ Drained = Len(incoming)
  /\ "SEND" \in peer_shutdown /\ "RECEIVE" \notin local_shutdown

\* Mutant: the deadline only ends a connect, not a close.
PumpClosesPending ==
  \/ deadline = "passed" /\ status = "pending"
  \/ /\ status = "established"
     /\ \/ SendFails(Len(incoming))
        \/ peer_shutdown = Both /\ Drained = Len(incoming)

PumpCloses ==
  \/ deadline = "passed"
  \/ /\ status = "established"
     /\ \/ SendFails(Len(incoming))
        \/ peer_shutdown = Both /\ Drained = Len(incoming)

PumpCancel ==
  /\ status # "gone" /\ PumpCloses
  /\ Dropped(TRUE)

Pump ==
  /\ status = "established" /\ ~PumpCloses
  /\ LET local == IF ClosesWrite THEN local_shutdown \cup {"RECEIVE"}
                  ELSE local_shutdown
         closing == local = Both /\ deadline = "none"
     IN /\ forwarded' = wrapping_add(forwarded, Drained)
        /\ toHost' = toHost \o Take(incoming, Drained)
        /\ incoming' = Drop(incoming, Drained)
        /\ writable' = (writable /\ Drained = Len(incoming))
        /\ local_shutdown' = local
        /\ edge' = (edge \/ ClosesWrite)
        /\ send_credit_update' =
             \/ send_credit_update
             \/ forwarded' # advertised /\ PeerView < MaxPacket
        /\ send_shutdown' = IF closing THEN Both ELSE send_shutdown
        /\ deadline' = IF closing THEN "armed" ELSE deadline
  /\ UNCHANGED <<status, opener, reply, caller, send_request, peer_shutdown,
                 rst, received, advertised, credit, rx, readable, fromHost,
                 clientGot, client>>

----------------------------------------------------------------------------
(* Connection::fill: packets into the guest's rx buffers.                  *)

\* Mutant: the stamp forgets what it advertised.
StampFlagOnly == advertised' = advertised /\ send_credit_update' = FALSE

\* Every header says how much was forwarded, so it doubles as a credit
\* update.
Stamp == advertised' = forwarded /\ send_credit_update' = FALSE

Control ==
  /\ Len(rx) < RxBuffers
  /\ rx' = Append(rx, <<>>)
  /\ Stamp

FillRequest ==
  /\ status = "pending" /\ send_request
  /\ send_request' = FALSE
  /\ Control
  /\ UNCHANGED <<status, opener, reply, caller, deadline, peer_shutdown,
                 local_shutdown, send_shutdown, rst, received, forwarded,
                 incoming, credit, ends>>

FillShutdown ==
  /\ status = "established" /\ send_shutdown # {}
  /\ send_shutdown' = {}
  /\ Control
  /\ UNCHANGED <<status, opener, reply, caller, deadline, send_request,
                 peer_shutdown, local_shutdown, rst, received, forwarded,
                 incoming, credit, ends>>

\* Whether fill_data reads the client's socket.
Polls == /\ status = "established" /\ send_shutdown = {}
         /\ readable /\ SendsData
Credited == Available(peer_alloc, sent, peer_forwarded)

\* One read of n bytes, spread over as many rx buffers as it takes.
FillData ==
  /\ Polls /\ Credited > 0 /\ Len(rx) < RxBuffers
  /\ \E n \in 1 .. Len(fromHost), used \in 1 .. RxBuffers - Len(rx) :
       /\ n <= Credited /\ n <= MaxTurn
       /\ (used - 1) * RxRoom < n /\ n <= used * RxRoom
       /\ sent' = wrapping_add(sent, n)
       /\ fromHost' = Drop(fromHost, n)
       /\ rx' = rx \o
            [i \in 1 .. used |->
               SubSeq(fromHost, (i - 1) * RxRoom + 1, Least(i * RxRoom, n))]
  /\ Stamp
  /\ UNCHANGED <<life, received, forwarded, incoming, peer_forwarded,
                 peer_alloc, credit_requested, readable, writable, edge,
                 toHost, clientGot, client>>

\* The client shut its write side and everything before is read.
FillEof ==
  /\ Polls /\ Credited > 0 /\ fromHost = <<>>
  /\ client = "shut" \/ (client = "closed" /\ toHost = <<>>)
  /\ readable' = FALSE
  /\ local_shutdown' = local_shutdown \cup {"SEND"}
  /\ Control
  /\ UNCHANGED <<status, opener, reply, caller, deadline, send_request,
                 peer_shutdown, send_shutdown, rst, received, forwarded,
                 incoming, credit, writable, edge, toHost,
                 fromHost, clientGot, client>>

\* A client that closed with bytes unread resets the socket, which fails
\* the read and cancels the connection.
FillError ==
  /\ Polls /\ Credited > 0 /\ fromHost = <<>> /\ Len(rx) < RxBuffers
  /\ client = "closed" /\ toHost # <<>>
  /\ Dropped(TRUE)

\* Nothing to read now: ask for credit once, or tell the guest of its own.
FillControl ==
  /\ status = "established" /\ send_shutdown = {} /\ Len(rx) < RxBuffers
  /\ LET starved == Polls /\ Credited = 0
         blocked == Polls /\ Credited > 0 /\ fromHost = <<>>
                      /\ client = "open"
         asks == starved /\ ~credit_requested
     IN /\ ~Polls \/ starved \/ blocked
        /\ blocked \/ asks \/ send_credit_update
        /\ readable' = (readable /\ ~blocked)
        /\ credit_requested' = (credit_requested \/ starved)
        /\ IF asks \/ send_credit_update
             THEN Control
             ELSE UNCHANGED <<rx, advertised, send_credit_update>>
  /\ UNCHANGED <<life, received, forwarded, incoming, sent, peer_forwarded,
                 peer_alloc, writable, edge, toHost, fromHost,
                 clientGot, client>>

\* Mux::fill hands out pending resets first.
FillReset ==
  /\ rst /\ Len(rx) < RxBuffers
  /\ rst' = FALSE
  /\ rx' = Append(rx, <<>>)
  /\ UNCHANGED <<status, opener, reply, caller, deadline, send_request,
                 peer_shutdown, local_shutdown, send_shutdown, intake,
                 credit, ends>>

Fill == \/ FillRequest \/ FillShutdown \/ FillData \/ FillEof \/ FillError
        \/ FillControl \/ FillReset

----------------------------------------------------------------------------
\* Mutant: a hangup does not count as writable.
WakeNoHangup ==
  /\ status # "gone" /\ edge
  /\ readable' = (readable \/ fromHost # <<>> \/ client # "open")
  /\ writable' = (writable \/ Len(toHost) < SocketSize)
  /\ edge' = FALSE
  /\ UNCHANGED <<life, intake, credit, rx, toHost, fromHost, clientGot,
                 client>>

\* Mux::wake: epoll is edge triggered, an event reports all that is ready.
Wake ==
  /\ status # "gone" /\ edge
  /\ readable' = (readable \/ fromHost # <<>> \/ client # "open")
  /\ writable' = (writable \/ Len(toHost) < SocketSize \/ client = "closed")
  /\ edge' = FALSE
  /\ UNCHANGED <<life, intake, credit, rx, toHost, fromHost, clientGot, client>>

\* HANDSHAKE_TIMEOUT passes.
DeadlinePasses ==
  /\ deadline = "armed"
  /\ deadline' = "passed"
  /\ UNCHANGED <<status, opener, reply, caller, send_request, peer_shutdown,
                 local_shutdown, send_shutdown, rst, intake, credit, rx,
                 ends>>

----------------------------------------------------------------------------
(* VsockControl::connect: the caller waits for the answer, or gives up     *)
(* after CONNECT_TIMEOUT and cancels the connection under the lock.        *)

CallerAnswered ==
  /\ caller = "waiting" /\ reply # "none"
  /\ caller' = IF reply = "ok" THEN "connected" ELSE "giving_up"
  /\ reply' = "none"
  /\ UNCHANGED <<status, opener, deadline, send_request, peer_shutdown,
                 local_shutdown, send_shutdown, rst, intake, credit, rx,
                 ends>>

CallerTimesOut ==
  /\ caller = "waiting"
  /\ caller' = "giving_up"
  /\ UNCHANGED <<status, opener, reply, deadline, send_request,
                 peer_shutdown, local_shutdown, send_shutdown, rst, intake,
                 credit, rx, ends>>

\* Mutant: a caller whose answer came meanwhile does not cancel.
CallerCancelsPending ==
  /\ caller = "giving_up"
  /\ caller' = "failed" /\ client' = "closed"
  /\ IF opener = "Caller"
       THEN status' = "gone" /\ rst' = TRUE /\ reply' = "err" /\ Freed
       ELSE UNCHANGED <<status, opener, reply, deadline, send_request,
                        peer_shutdown, local_shutdown, send_shutdown, rst,
                        intake, credit, readable, writable, edge, toHost,
                        fromHost, clientGot>>
  /\ UNCHANGED rx

\* Mux::cancel, and the client end is closed on the way out.
CallerCancels ==
  /\ caller = "giving_up"
  /\ caller' = "failed" /\ client' = "closed"
  /\ status' = "gone" /\ rst' = (rst \/ status # "gone")
  /\ reply' = IF opener = "Caller" THEN "err" ELSE reply
  /\ Freed
  /\ UNCHANGED rx

----------------------------------------------------------------------------
(* The host program at the other end of the socket (external).  What it    *)
(* does after the device dropped its end is not followed.                  *)

Connected == status # "gone" /\ caller = "connected"

ClientWrite ==
  /\ Connected /\ client = "open" /\ Len(fromHost) < SendSize
  /\ "RECEIVE" \notin peer_shutdown
  /\ fromHost' = Append(fromHost,
                        wrapping_add(sent, Len(fromHost)))
  /\ edge' = TRUE
  /\ UNCHANGED <<life, intake, credit, rx, readable, writable, toHost, clientGot, client>>

ClientRead ==
  /\ Connected /\ client # "closed" /\ toHost # <<>>
  /\ toHost' = Tail(toHost)
  /\ clientGot' = IF Head(toHost) = Greeting THEN clientGot
                  ELSE wrapping_add(clientGot, 1)
  /\ edge' = TRUE
  /\ UNCHANGED <<life, intake, credit, rx, readable, writable, fromHost, client>>

ClientCloses(how) ==
  /\ Connected /\ client # "closed" /\ client # how
  /\ client' = how
  /\ edge' = TRUE
  /\ UNCHANGED <<life, intake, credit, rx, readable, writable, toHost,
                 fromHost, clientGot>>

ClientStep == \/ ClientWrite \/ ClientRead
              \/ \E how \in {"shut", "closed"} : ClientCloses(how)

DeviceStep == Pump \/ PumpCancel \/ Fill \/ Wake

----------------------------------------------------------------------------
(* The guest (external): nothing is assumed of what it sends.              *)

\* MALFORMED stands for every packet Mux::receive finds not valid and for
\* unknown operations.
Header(op, flags, len, fwd_cnt, buf_alloc) ==
  [op |-> op, flags |-> flags, len |-> len, fwd_cnt |-> fwd_cnt,
   buf_alloc |-> buf_alloc]

\* The connection is dropped for the first four whatever their credit
\* fields say.
GuestSends ==
  \/ \E op \in {"MALFORMED", "REQUEST", "RST", "SHUTDOWN"} :
       Receive(Header(op, {}, 0, 0, 0))
  \/ \E fwd_cnt \in 0 .. W - 1, buf_alloc \in Allocs :
       \/ \E op \in {"RESPONSE", "CREDIT_UPDATE", "CREDIT_REQUEST"} :
            Receive(Header(op, {}, 0, fwd_cnt, buf_alloc))
       \/ \E len \in 0 .. MaxLen :
            Receive(Header("RW", {}, len, fwd_cnt, buf_alloc))
       \/ \E flags \in SUBSET Both \ {{}} :
            Receive(Header("SHUTDOWN", flags, 0, fwd_cnt, buf_alloc))

GuestTakes ==
  /\ rx # <<>>
  /\ rx' = Tail(rx)
  /\ UNCHANGED <<life, intake, credit, ends>>

Next ==
  \/ GuestSends
  \/ DeviceStep
  \/ DeadlinePasses
  \/ CallerAnswered \/ CallerTimesOut \/ CallerCancels
  \/ ClientStep
  \/ GuestTakes

Spec == Init /\ [][Next]_vars

\* The worker runs a pass whenever an event or a deadline is due; the host
\* program reads what it is sent and the guest takes its rx buffers, without
\* which no stream moves.
Fairness ==
  /\ WF_vars(Pump) /\ WF_vars(PumpCancel) /\ WF_vars(Wake)
  /\ WF_vars(DeadlinePasses) /\ WF_vars(ClientRead)
  /\ WF_vars(Fill) /\ WF_vars(GuestTakes)
  /\ WF_vars(CallerAnswered) /\ WF_vars(CallerCancels)

FairSpec == Spec /\ Fairness

----------------------------------------------------------------------------
(* Properties                                                              *)

Counter == 0 .. W - 1

\* The types of the fields; every counter stays below the modulus.
TypeOK ==
  /\ status \in {"pending", "established", "gone"}
  /\ opener \in {"Caller", "Listener", "taken"}
  /\ reply \in {"none", "ok", "err"}
  /\ caller \in {"waiting", "giving_up", "connected", "failed"}
  /\ deadline \in {"none", "armed", "passed"}
  /\ send_request \in BOOLEAN /\ rst \in BOOLEAN
  /\ peer_shutdown \in SUBSET Both /\ local_shutdown \in SUBSET Both
  /\ send_shutdown \in SUBSET Both
  /\ received \in Counter /\ forwarded \in Counter /\ advertised \in Counter
  /\ incoming \in Seq(Counter) /\ send_credit_update \in BOOLEAN
  /\ sent \in Counter /\ peer_forwarded \in Counter /\ peer_alloc \in Counter
  /\ credit_requested \in BOOLEAN
  /\ readable \in BOOLEAN /\ writable \in BOOLEAN
  /\ edge \in BOOLEAN
  /\ toHost \in Seq(0 .. W) /\ fromHost \in Seq(Counter)
  /\ clientGot \in Counter
  /\ client \in {"open", "shut", "closed"}
  /\ rx \in Seq(Seq(Counter))

\* A guest cannot make the host keep more than the buffer it was promised,
\* whatever it sends and whenever credit is announced (receive, RW).
BufferBounded == Len(incoming) <= BufferSize

\* The bytes of the guest in a socket that may start with the greeting.
GuestData(s) == IF s # <<>> /\ Head(s) = Greeting THEN Tail(s) ELSE s

\* Guest bytes reach the client in order, none lost or doubled, whether they
\* go straight from guest memory or through the queue (receive and pump),
\* and the greeting is ahead of all of them.
ForwardedInOrder ==
  /\ GuestData(toHost) \o incoming
       = Bytes(clientGot, wrapping_sub(received, clientGot))
  /\ \A i \in 1 .. Len(toHost) : toHost[i] = Greeting => i = 1

\* The close timer pump arms never discards guest bytes still queued.
DeadlineDropsNothing ==
  status = "established" /\ deadline # "none" => incoming = <<>>

\* The payloads in s, one after the other.
Joined(s) ==
  LET first[i \in 0 .. Len(s)] == IF i = 0 THEN <<>> ELSE first[i - 1] \o s[i]
  IN  first[Len(s)]

\* What is on its way to the guest is what the client wrote, in order, and
\* `sent` counts exactly what left the socket (fill_data).
SentInOrder ==
  LET inFlight == Joined(rx)
  IN status # "gone" => inFlight \o fromHost =
       Bytes(wrapping_sub(sent, Len(inFlight)), Len(inFlight \o fromHost))

\* fill_data never puts more in flight than the guest's last announcement
\* allows, also across a wrap of the counters and a shrunk allocation.
WithinCredit ==
  [][sent' # sent /\ status' # "gone"
       => wrapping_sub(sent', peer_forwarded) <= peer_alloc]_vars

\* A guest that shut both directions frees the connection once its bytes are
\* through, although the client may be slow or gone (pump, wake).
ShutdownCompletes == peer_shutdown = Both ~> status = "gone"

\* Once the host has closed both directions the guest cannot keep the
\* connection by staying silent (pump arms a deadline).
CloseCompletes == local_shutdown = Both ~> status = "gone"

\* A guest whose view of the host's free space fell below one packet hears
\* of the space again while the client reads (pump, stamp).
CreditReturns ==
  (status = "established" /\ PeerView < MaxPacket)
    ~> (status = "gone" \/ PeerView >= MaxPacket)

\* A connect that failed leaves no connection behind, also when the guest's
\* answer arrives while the caller gives up (connect, cancel).
FailedLeavesNone == caller = "failed" => status = "gone"

----------------------------------------------------------------------------
(* The inductive invariant behind BufferBounded and DeadlineDropsNothing.  *)

SocketInv ==
  /\ Len(toHost) <= SocketSize
  /\ status = "pending" => toHost = <<>>

\* advertised, forwarded and received are in this order on the circle of
\* the counters, at most BufferSize apart, and the bytes between the last
\* two are the ones queued.
WindowInv ==
  /\ wrapping_sub(received, advertised) <= BufferSize
  /\ wrapping_sub(forwarded, advertised) <= wrapping_sub(received, advertised)
  /\ Len(incoming) = wrapping_sub(received, forwarded)

\* The write side closes only behind the last byte, and the close timer
\* runs only once both sides are closed.
CloseInv ==
  /\ "RECEIVE" \in local_shutdown => incoming = <<>>
  /\ status = "established" /\ deadline # "none" => local_shutdown = Both

\* Types, socket, window and close together: what every step keeps.
IndInv == TypeOK /\ SocketInv /\ WindowInv /\ CloseInv
=============================================================================
