----------------------- MODULE VsockConnectionProofs -----------------------
(***************************************************************************)
(* Proofs about VsockConnection, for every size of counter, buffer, packet *)
(* and socket the assumption admits and every packet a guest may send.     *)
(***************************************************************************)
EXTENDS VsockConnection, SequenceTheorems, WellFoundedInduction,
        NaturalsInduction, TLAPS

\* The u32 operations of the credit accounting stay in range.
LEMMA WrapType ==
  ASSUME NEW a \in Counter, NEW b \in Counter
  PROVE  wrapping_add(a, b) \in Counter /\ wrapping_sub(a, b) \in Counter
BY SizesAssumption DEF Counter, wrapping_add, wrapping_sub

\* Advancing both `received` and `forwarded` (receive, RW) or only
\* `forwarded` (pump) moves the distances between the counters by as much.
LEMMA WindowMoves ==
  ASSUME NEW r \in Counter, NEW f \in Counter, NEW a \in Counter,
         NEW m \in Nat, NEW n \in Nat,
         wrapping_sub(f, a) <= wrapping_sub(r, a),
         wrapping_sub(r, a) + m <= BufferSize,
         n <= wrapping_sub(r, f) + m
  PROVE  /\ wrapping_add(r, m) \in Counter /\ wrapping_add(f, n) \in Counter
         /\ wrapping_sub(wrapping_add(r, m), a) = wrapping_sub(r, a) + m
         /\ wrapping_sub(wrapping_add(f, n), a) = wrapping_sub(f, a) + n
         /\ wrapping_sub(wrapping_add(r, m), wrapping_add(f, n))
              = wrapping_sub(r, f) + m - n
         /\ wrapping_sub(f, a) + n <= wrapping_sub(r, a) + m
BY SizesAssumption DEF Counter, wrapping_add, wrapping_sub

\* Stamping a header (advertised := forwarded) leaves exactly the queued
\* bytes unadvertised.
LEMMA WindowStamps ==
  ASSUME NEW r \in Counter, NEW f \in Counter, NEW a \in Counter,
         wrapping_sub(f, a) <= wrapping_sub(r, a),
         wrapping_sub(r, a) <= BufferSize
  PROVE  /\ wrapping_sub(r, f) <= BufferSize
         /\ wrapping_sub(f, f) <= wrapping_sub(r, f)
BY SizesAssumption DEF Counter, wrapping_sub

\* Bytes names n bytes of a stream.
LEMMA BytesType ==
  ASSUME NEW a \in Counter, NEW n \in 0 .. W - 1
  PROVE  Bytes(a, n) \in Seq(Counter) /\ Len(Bytes(a, n)) = n
<1>1. \A i \in 1 .. n : wrapping_add(a, i - 1) \in Counter
  BY SizesAssumption DEF Counter, wrapping_add
<1>2. Bytes(a, n) \in [1 .. n -> Counter]
  BY <1>1 DEF Bytes
<1> QED
  BY <1>2

\* Take and Drop cut a sequence in two.
LEMMA TakeDrop ==
  ASSUME NEW S, NEW s \in Seq(S), NEW n \in 0 .. Len(s)
  PROVE  /\ Take(s, n) \in Seq(S) /\ Len(Take(s, n)) = n
         /\ Drop(s, n) \in Seq(S) /\ Len(Drop(s, n)) = Len(s) - n
<1>1. Len(s) \in Nat /\ \A i \in 1 .. Len(s) : s[i] \in S
  BY LenProperties, ElementOfSeq
<1>2. /\ SubSeq(s, 1, n) \in Seq(S)
      /\ Len(SubSeq(s, 1, n)) = IF 1 <= n THEN n - 1 + 1 ELSE 0
  <2>1. \A i \in 1 .. n : s[i] \in S
    BY <1>1
  <2> QED
    BY <2>1, SubSeqProperties, n \in Int
<1>3. /\ SubSeq(s, n + 1, Len(s)) \in Seq(S)
      /\ Len(SubSeq(s, n + 1, Len(s)))
           = IF n + 1 <= Len(s) THEN Len(s) - (n + 1) + 1 ELSE 0
  <2>1. \A i \in n + 1 .. Len(s) : s[i] \in S
    BY <1>1
  <2> QED
    BY <1>1, <2>1, SubSeqProperties, n + 1 \in Int, Len(s) \in Int
<1> QED
  BY <1>1, <1>2, <1>3 DEF Take, Drop

----------------------------------------------------------------------------
\* The initial state of a connection satisfies the inductive invariant.
LEMMA InitIndInv == Init => IndInv
<1> SUFFICES ASSUME Init PROVE IndInv
  OBVIOUS
<1>1. TypeOK
  <2>1. 0 \in Counter
    BY SizesAssumption DEF Counter
  <2>2. {} \in SUBSET Both
    OBVIOUS
  <2>3. \A S : <<>> \in Seq(S)
    BY EmptySeq
  <2> QED
    BY <2>1, <2>2, <2>3, Zenon DEF Init, TypeOK
<1>2. SocketInv /\ WindowInv /\ CloseInv
  BY SizesAssumption
     DEF Init, SocketInv, WindowInv, CloseInv, wrapping_sub, Both
<1> QED
  BY <1>1, <1>2 DEF IndInv

\* Connection::drop leaves a state that satisfies the invariant: nothing of
\* the connection is left to constrain.
LEMMA FreedIndInv ==
  ASSUME IndInv, Freed, status' = "gone", rx' = rx,
         rst' \in BOOLEAN, reply' \in {"none", "ok", "err"},
         caller' \in {"waiting", "giving_up", "connected", "failed"},
         client' \in {"open", "shut", "closed"}
  PROVE  IndInv'
<1>1. TypeOK'
  <2>1. 0 \in Counter
    BY SizesAssumption DEF Counter
  <2>2. {} \in SUBSET Both
    OBVIOUS
  <2>3. \A S : <<>> \in Seq(S)
    BY EmptySeq
  <2> QED
    BY <2>1, <2>2, <2>3, Zenon DEF Freed, IndInv, TypeOK
<1>2. SocketInv' /\ WindowInv' /\ CloseInv'
  BY SizesAssumption
     DEF Freed, SocketInv, WindowInv, CloseInv, wrapping_sub
<1> QED
  BY <1>1, <1>2 DEF IndInv

\* Every step that drops the connection keeps the invariant.
LEMMA DroppedIndInv ==
  ASSUME IndInv, NEW withRst \in BOOLEAN, Dropped(withRst)
  PROVE  IndInv'
<1>1. /\ rst' \in BOOLEAN /\ reply' \in {"none", "ok", "err"}
      /\ caller' \in {"waiting", "giving_up", "connected", "failed"}
      /\ client' \in {"open", "shut", "closed"}
  BY DEF IndInv, TypeOK, Dropped
<1> QED
  BY <1>1, FreedIndInv DEF Dropped

\* Mux::cancel called by connect keeps the invariant.
LEMMA CallerCancelsIndInv ==
  ASSUME IndInv, CallerCancels
  PROVE  IndInv'
<1>1. /\ rst' \in BOOLEAN /\ reply' \in {"none", "ok", "err"}
      /\ caller' \in {"waiting", "giving_up", "connected", "failed"}
      /\ client' \in {"open", "shut", "closed"}
  BY DEF IndInv, TypeOK, CallerCancels
<1> QED
  BY <1>1, FreedIndInv DEF CallerCancels

----------------------------------------------------------------------------
(* The guest's packets. *)

HeaderOK(h) ==
  /\ h.flags \in SUBSET Both /\ h.len \in 0 .. MaxLen
  /\ h.fwd_cnt \in Counter /\ h.buf_alloc \in Counter

\* Credit::update keeps the credit fields in range.
LEMMA UpdateCreditType ==
  ASSUME TypeOK, NEW h, HeaderOK(h), UpdateCredit(h)
  PROVE  /\ sent' \in Counter /\ peer_forwarded' \in Counter
         /\ peer_alloc' \in Counter /\ credit_requested' \in BOOLEAN
BY Zenon DEF TypeOK, HeaderOK, UpdateCredit

\* receive, when the guest answers a connect.
LEMMA ReceiveResponseIndInv ==
  ASSUME IndInv, NEW h, HeaderOK(h), ReceiveResponse(h)
  PROVE  IndInv'
<1>1. toHost' \in Seq(0 .. W) /\ Len(toHost') <= SocketSize
  <2>1. toHost = <<>> /\ (toHost' = Append(toHost, W) \/ toHost' = toHost)
    BY DEF IndInv, SocketInv, ReceiveResponse, Greeting
  <2>2. W \in 0 .. W /\ SocketSize \in Nat /\ 1 <= SocketSize
    BY SizesAssumption
  <2>3. <<>> \in Seq(0 .. W)
    BY EmptySeq
  <2>4. Append(toHost, W) \in Seq(0 .. W) /\ Len(Append(toHost, W)) = 1
    BY <2>1, <2>2, <2>3
  <2>5. Len(toHost) = 0
    BY <2>1
  <2>6. CASE toHost' = toHost
    BY <2>1, <2>2, <2>3, <2>5, <2>6
  <2>7. CASE toHost' = Append(toHost, W)
    BY <2>2, <2>4, <2>7
  <2> QED
    BY <2>1, <2>6, <2>7
<1>2. TypeOK'
  <2>1. reply' \in {"none", "ok", "err"}
    BY DEF IndInv, TypeOK, ReceiveResponse
  <2>2. /\ sent' \in Counter /\ peer_forwarded' \in Counter
        /\ peer_alloc' \in Counter /\ credit_requested' \in BOOLEAN
    BY UpdateCreditType DEF IndInv, ReceiveResponse
  <2> QED
    BY <1>1, <2>1, <2>2, ZenonT(30) DEF IndInv, TypeOK, ReceiveResponse, intake
<1>3. SocketInv' /\ WindowInv' /\ CloseInv'
  BY <1>1 DEF IndInv, SocketInv, WindowInv, CloseInv, ReceiveResponse, intake
<1> QED
  BY <1>2, <1>3 DEF IndInv

\* receive, for data within the window: what does not go straight to the
\* client is queued, and the window shrinks by the whole packet.
LEMMA ReceiveDataIndInv ==
  ASSUME IndInv, NEW h, HeaderOK(h), ReceiveData(h)
  PROVE  IndInv'
<1> DEFINE n == Straight(h)
           data == Bytes(received, h.len)
<1>1. /\ received \in Counter /\ forwarded \in Counter
      /\ advertised \in Counter /\ h.len \in 0 .. W - 1
      /\ incoming \in Seq(Counter) /\ toHost \in Seq(0 .. W)
      /\ Len(incoming) \in Nat /\ Len(toHost) \in Nat
  BY SizesAssumption, LenProperties DEF IndInv, TypeOK, HeaderOK
<1>2. n \in 0 .. h.len /\ (n <= SocketSize - Len(toHost) \/ n = 0)
  BY <1>1, SizesAssumption DEF IndInv, SocketInv, Straight, Least
<1>3. n \in 0 .. h.len /\ Len(toHost) + n <= SocketSize
  BY <1>1, <1>2, SizesAssumption DEF IndInv, SocketInv
<1>4. wrapping_sub(received, advertised) + h.len <= BufferSize
  BY <1>1, SizesAssumption
     DEF IndInv, WindowInv, ReceiveData, Rejects, PeerView, saturating_sub,
         wrapping_sub, Counter
<1>5. /\ received' \in Counter /\ forwarded' \in Counter
      /\ wrapping_sub(received', advertised) <= BufferSize
      /\ wrapping_sub(forwarded', advertised)
           <= wrapping_sub(received', advertised)
      /\ wrapping_sub(received', forwarded')
           = wrapping_sub(received, forwarded) + h.len - n
  <2>1. n <= wrapping_sub(received, forwarded) + h.len
    <3>1. wrapping_sub(received, forwarded) \in Nat
      BY <1>1, SizesAssumption DEF wrapping_sub, Counter
    <3> HIDE DEF n
    <3> QED
      BY <1>1, <1>3, <3>1
  <2> QED
    BY <1>1, <1>3, <1>4, <2>1, WindowMoves
       DEF IndInv, WindowInv, ReceiveData
<1>6. /\ data \in Seq(Counter) /\ Len(data) = h.len
      /\ Take(data, n) \in Seq(Counter) /\ Len(Take(data, n)) = n
      /\ Drop(data, n) \in Seq(Counter) /\ Len(Drop(data, n)) = h.len - n
  <2>1. data \in Seq(Counter) /\ Len(data) = h.len
    BY <1>1, BytesType
  <2> HIDE DEF n, data
  <2>2. n \in 0 .. Len(data)
    BY <1>3, <2>1
  <2> QED
    BY <2>1, <2>2, TakeDrop
<1>7. /\ incoming' \in Seq(Counter)
      /\ Len(incoming') = Len(incoming) + h.len - n
  <2>1. incoming' = incoming \o Drop(data, n)
    BY DEF ReceiveData
  <2> HIDE DEF n, data
  <2>2. /\ incoming' \in Seq(Counter)
        /\ Len(incoming') = Len(incoming) + Len(Drop(data, n))
    BY <1>1, <1>6, <2>1, ConcatProperties
  <2> QED
    BY <1>1, <1>3, <1>6, <2>2
<1>8. toHost' \in Seq(0 .. W) /\ Len(toHost') = Len(toHost) + n
  <2>1. toHost' = toHost \o Take(data, n)
    BY DEF ReceiveData
  <2> HIDE DEF n, data
  <2>2. Counter \subseteq 0 .. W
    BY SizesAssumption DEF Counter
  <2>3. Take(data, n) \in Seq(0 .. W)
    BY <1>6, <2>2, SeqMonotonic
  <2>4. /\ toHost' \in Seq(0 .. W)
        /\ Len(toHost') = Len(toHost) + Len(Take(data, n))
    BY <1>1, <2>1, <2>3, ConcatProperties
  <2> QED
    BY <1>6, <2>4
<1>9. TypeOK'
  <2>1. writable' \in BOOLEAN
    BY Zenon DEF ReceiveData
  <2>2. /\ sent' \in Counter /\ peer_forwarded' \in Counter
        /\ peer_alloc' \in Counter /\ credit_requested' \in BOOLEAN
    BY UpdateCreditType DEF IndInv, ReceiveData
  <2>3. UNCHANGED <<status, opener, reply, caller, deadline, send_request,
                    peer_shutdown, local_shutdown, send_shutdown, rst,
                    advertised, send_credit_update, rx, readable, edge,
                    fromHost, clientGot, client>>
    BY DEF ReceiveData, life
  <2> QED
    BY <1>5, <1>7, <1>8, <2>1, <2>2, <2>3 DEF IndInv, TypeOK
<1>10. SocketInv' /\ WindowInv'
  BY <1>1, <1>3, <1>5, <1>7, <1>8
     DEF IndInv, SocketInv, WindowInv, ReceiveData, life
<1>11. CloseInv'
  BY DEF IndInv, CloseInv, ReceiveData, Rejects, life
<1> QED
  BY <1>9, <1>10, <1>11 DEF IndInv

\* receive, for credit updates, credit requests and shutdowns.
LEMMA ReceiveControlIndInv ==
  ASSUME IndInv, NEW h, HeaderOK(h), ReceiveCredit(h) \/ ReceiveShutdown(h)
  PROVE  IndInv'
<1>1. /\ send_credit_update' \in BOOLEAN /\ edge' \in BOOLEAN
      /\ peer_shutdown' \in SUBSET Both /\ UpdateCredit(h)
  <2>1. CASE ReceiveCredit(h)
    BY <2>1, Zenon DEF IndInv, TypeOK, ReceiveCredit, ends, life
  <2>2. CASE ReceiveShutdown(h)
    <3>1. peer_shutdown' \in SUBSET Both
      BY <2>2 DEF IndInv, TypeOK, HeaderOK, ReceiveShutdown
    <3> QED
      BY <2>2, <3>1, Zenon DEF IndInv, TypeOK, ReceiveShutdown, intake
  <2> QED
    BY <2>1, <2>2
<1>2. UNCHANGED <<status, opener, reply, caller, deadline, send_request,
                  local_shutdown, send_shutdown, rst, received, forwarded,
                  advertised, incoming, rx, readable, writable, toHost,
                  fromHost, clientGot, client>>
  BY DEF ReceiveCredit, ReceiveShutdown, life, intake, ends
<1>3. TypeOK'
  <2>1. /\ sent' \in Counter /\ peer_forwarded' \in Counter
        /\ peer_alloc' \in Counter /\ credit_requested' \in BOOLEAN
    BY <1>1, UpdateCreditType DEF IndInv
  <2> QED
    BY <1>1, <1>2, <2>1 DEF IndInv, TypeOK
<1>4. SocketInv' /\ WindowInv' /\ CloseInv'
  BY <1>2, Zenon DEF IndInv, SocketInv, WindowInv, CloseInv
<1> QED
  BY <1>3, <1>4 DEF IndInv

\* Any packet of any guest keeps the invariant.
LEMMA ReceiveIndInv ==
  ASSUME IndInv, NEW h, HeaderOK(h), Receive(h)
  PROVE  IndInv'
<1>1. CASE ReceiveRst(h) \/ ReceiveReset(h)
  BY <1>1, DroppedIndInv DEF ReceiveRst, ReceiveReset
<1>2. CASE ReceiveResponse(h)
  BY <1>2, ReceiveResponseIndInv
<1>3. CASE ReceiveData(h)
  BY <1>3, ReceiveDataIndInv
<1>4. CASE ReceiveCredit(h) \/ ReceiveShutdown(h)
  BY <1>4, ReceiveControlIndInv
<1> QED
  BY <1>1, <1>2, <1>3, <1>4 DEF Receive

\* Whatever the guest sends keeps the invariant.
LEMMA GuestSendsIndInv ==
  ASSUME IndInv, GuestSends
  PROVE  IndInv'
<1>1. 0 \in Counter /\ 0 \in 0 .. MaxLen /\ {} \in SUBSET Both
      /\ Allocs \subseteq Counter
  BY SizesAssumption DEF Counter
<1>2. ASSUME NEW op, NEW flags \in SUBSET Both, NEW len \in 0 .. MaxLen,
             NEW fwd_cnt \in Counter, NEW buf_alloc \in Counter,
             Receive(Header(op, flags, len, fwd_cnt, buf_alloc))
      PROVE  IndInv'
  <2>1. HeaderOK(Header(op, flags, len, fwd_cnt, buf_alloc))
    BY DEF HeaderOK, Header
  <2> QED
    BY <1>2, <2>1, ReceiveIndInv
<1>3. CASE \E op \in {"MALFORMED", "REQUEST", "RST", "SHUTDOWN"} :
             Receive(Header(op, {}, 0, 0, 0))
  BY <1>1, <1>2, <1>3
<1>4. CASE \E fwd_cnt \in 0 .. W - 1, buf_alloc \in Allocs :
             \/ \E op \in {"RESPONSE", "CREDIT_UPDATE", "CREDIT_REQUEST"} :
                  Receive(Header(op, {}, 0, fwd_cnt, buf_alloc))
             \/ \E len \in 0 .. MaxLen :
                  Receive(Header("RW", {}, len, fwd_cnt, buf_alloc))
             \/ \E flags \in SUBSET Both \ {{}} :
                  Receive(Header("SHUTDOWN", flags, 0, fwd_cnt, buf_alloc))
  <2>1. PICK fwd_cnt \in Counter, buf_alloc \in Counter :
             \/ \E op \in {"RESPONSE", "CREDIT_UPDATE", "CREDIT_REQUEST"} :
                  Receive(Header(op, {}, 0, fwd_cnt, buf_alloc))
             \/ \E len \in 0 .. MaxLen :
                  Receive(Header("RW", {}, len, fwd_cnt, buf_alloc))
             \/ \E flags \in SUBSET Both \ {{}} :
                  Receive(Header("SHUTDOWN", flags, 0, fwd_cnt, buf_alloc))
    BY <1>1, <1>4, Zenon DEF Counter
  <2> QED
    BY <1>1, <1>2, <2>1
<1> QED
  BY <1>3, <1>4 DEF GuestSends

----------------------------------------------------------------------------
(* The worker's pass. *)

\* pump keeps the invariant: it moves bytes from the queue to the client,
\* closes the write side behind the last one, and arms the close timer only
\* with both sides closed.
LEMMA PumpIndInv ==
  ASSUME IndInv, Pump
  PROVE  IndInv'
<1> DEFINE n == Drained
<1>1. /\ received \in Counter /\ forwarded \in Counter
      /\ advertised \in Counter /\ incoming \in Seq(Counter)
      /\ toHost \in Seq(0 .. W) /\ Len(incoming) \in Nat /\ Len(toHost) \in Nat
  BY LenProperties DEF IndInv, TypeOK
<1>2. n \in 0 .. Len(incoming) /\ Len(toHost) + n <= SocketSize
  BY <1>1, SizesAssumption DEF IndInv, SocketInv, Drained, Least
<1>3. /\ received' = received /\ advertised' = advertised
      /\ forwarded' \in Counter
      /\ wrapping_sub(forwarded', advertised)
           <= wrapping_sub(received, advertised)
      /\ wrapping_sub(received, forwarded')
           = wrapping_sub(received, forwarded) - n
  <2>1. /\ forwarded' = wrapping_add(forwarded, n) /\ received' = received
        /\ advertised' = advertised
    BY DEF Pump
  <2> HIDE DEF n
  <2>2. /\ wrapping_sub(forwarded, advertised)
             <= wrapping_sub(received, advertised)
        /\ wrapping_sub(received, advertised) + 0 <= BufferSize
        /\ n <= wrapping_sub(received, forwarded) + 0
        /\ n \in Nat
    BY <1>1, <1>2, SizesAssumption DEF IndInv, WindowInv, wrapping_sub, Counter
  <2>3. wrapping_add(received, 0) = received
    BY <1>1, SizesAssumption DEF wrapping_add, Counter
  <2>4. wrapping_sub(received, forwarded) \in Int
        /\ wrapping_sub(forwarded, advertised) \in Int
        /\ wrapping_sub(received, advertised) \in Int
    BY <1>1, SizesAssumption DEF wrapping_sub, Counter
  <2>5. /\ wrapping_add(forwarded, n) \in Counter
        /\ wrapping_sub(wrapping_add(forwarded, n), advertised)
             = wrapping_sub(forwarded, advertised) + n
        /\ wrapping_sub(wrapping_add(received, 0), wrapping_add(forwarded, n))
             = wrapping_sub(received, forwarded) + 0 - n
        /\ wrapping_sub(forwarded, advertised) + n
             <= wrapping_sub(received, advertised) + 0
    BY <1>1, <2>2, WindowMoves
  <2> QED
    BY <2>1, <2>2, <2>3, <2>4, <2>5
<1>4. /\ incoming' \in Seq(Counter) /\ Len(incoming') = Len(incoming) - n
      /\ toHost' \in Seq(0 .. W) /\ Len(toHost') = Len(toHost) + n
  <2>1. incoming' = Drop(incoming, n) /\ toHost' = toHost \o Take(incoming, n)
    BY DEF Pump
  <2> HIDE DEF n
  <2>2. /\ Drop(incoming, n) \in Seq(Counter)
        /\ Len(Drop(incoming, n)) = Len(incoming) - n
        /\ Take(incoming, n) \in Seq(Counter) /\ Len(Take(incoming, n)) = n
    BY <1>1, <1>2, TakeDrop
  <2>3. Counter \subseteq 0 .. W
    BY SizesAssumption DEF Counter
  <2>4. Take(incoming, n) \in Seq(0 .. W)
    BY <2>2, <2>3, SeqMonotonic
  <2>5. /\ toHost \o Take(incoming, n) \in Seq(0 .. W)
        /\ Len(toHost \o Take(incoming, n))
             = Len(toHost) + Len(Take(incoming, n))
    BY <1>1, <2>4, ConcatProperties
  <2> QED
    BY <2>1, <2>2, <2>5
<1>5. TypeOK'
  <2>1. /\ writable' \in BOOLEAN /\ send_credit_update' \in BOOLEAN
        /\ edge' \in BOOLEAN
    BY Zenon DEF Pump
  <2>2. /\ local_shutdown' \in SUBSET Both /\ send_shutdown' \in SUBSET Both
        /\ deadline' \in {"none", "armed", "passed"}
    BY DEF IndInv, TypeOK, Pump, Both
  <2>3. UNCHANGED <<status, opener, reply, caller, send_request,
                    peer_shutdown, rst, received, advertised, sent,
                    peer_forwarded, peer_alloc, credit_requested, rx,
                    readable, fromHost, clientGot, client>>
    BY DEF Pump, credit
  <2> QED
    BY <1>3, <1>4, <2>1, <2>2, <2>3 DEF IndInv, TypeOK
<1>6. SocketInv' /\ WindowInv'
  <2>1. Len(incoming) = wrapping_sub(received, forwarded)
        /\ wrapping_sub(received, advertised) <= BufferSize
    BY DEF IndInv, WindowInv
  <2>2. status' = "established"
    BY DEF Pump
  <2> HIDE DEF n
  <2> QED
    BY <1>1, <1>2, <1>3, <1>4, <2>1, <2>2 DEF SocketInv, WindowInv
<1>7. CloseInv'
  <2>1. Len(incoming') = 0 => incoming' = <<>>
    BY <1>4, EmptySeq
  <2>2. ASSUME "RECEIVE" \in local_shutdown' PROVE incoming' = <<>>
    <3>1. CASE ClosesWrite
      BY <1>1, <1>4, <2>1, <3>1 DEF ClosesWrite
    <3>2. CASE ~ClosesWrite
      <4>1. "RECEIVE" \in local_shutdown
        BY <2>2, <3>2 DEF Pump
      <4>2. incoming = <<>>
        BY <4>1 DEF IndInv, CloseInv
      <4>3. Len(incoming) = 0
        BY <4>2
      <4> HIDE DEF n
      <4>4. n = 0
        BY <1>2, <4>3
      <4>5. Len(incoming') = 0
        BY <1>4, <4>3, <4>4
      <4> QED
        BY <2>1, <4>5
    <3> QED
      BY <3>1, <3>2
  <2>3. status' = "established" /\ deadline' # "none" => local_shutdown' = Both
    BY DEF IndInv, TypeOK, CloseInv, Pump, Both
  <2> QED
    BY <2>2, <2>3 DEF CloseInv
<1> QED
  BY <1>5, <1>6, <1>7 DEF IndInv

\* Stamping a packet's header keeps the accounting.
LEMMA StampWindow ==
  ASSUME IndInv, advertised' = forwarded,
         UNCHANGED <<received, forwarded, incoming>>
  PROVE  WindowInv'
<1>1. /\ received \in Counter /\ forwarded \in Counter
      /\ advertised \in Counter
  BY DEF IndInv, TypeOK
<1> QED
  BY <1>1, WindowStamps DEF IndInv, WindowInv

\* fill, for the packets that carry no payload, and for an EOF.
LEMMA FillControlsIndInv ==
  ASSUME IndInv,
         FillRequest \/ FillShutdown \/ FillEof \/ FillControl \/ FillReset
  PROVE  IndInv'
<1>1. rx' \in Seq(Seq(Counter))
  <2>1. rx' = Append(rx, <<>>) \/ rx' = rx
    BY Zenon DEF FillRequest, FillShutdown, FillEof, FillControl, FillReset,
                 Control
  <2>2. <<>> \in Seq(Counter) /\ rx \in Seq(Seq(Counter))
    BY EmptySeq DEF IndInv, TypeOK
  <2>3. Append(rx, <<>>) \in Seq(Seq(Counter))
    BY <2>2, AppendProperties
  <2> QED
    BY <2>1, <2>2, <2>3
<1>2. UNCHANGED <<status, opener, reply, caller, deadline, peer_shutdown,
                  received, forwarded, incoming, sent, peer_forwarded,
                  peer_alloc, writable, edge, toHost, fromHost, clientGot,
                  client>>
  <2>1. CASE FillRequest
    BY <2>1 DEF FillRequest, credit, ends
  <2>2. CASE FillShutdown
    BY <2>2 DEF FillShutdown, credit, ends
  <2>3. CASE FillEof
    BY <2>3 DEF FillEof, credit
  <2>4. CASE FillControl
    BY <2>4 DEF FillControl, life
  <2>5. CASE FillReset
    BY <2>5 DEF FillReset, intake, credit, ends
  <2> QED
    BY <2>1, <2>2, <2>3, <2>4, <2>5
<1>3. /\ send_request' \in BOOLEAN /\ rst' \in BOOLEAN
      /\ send_credit_update' \in BOOLEAN /\ credit_requested' \in BOOLEAN
      /\ readable' \in BOOLEAN
      /\ local_shutdown' \in SUBSET Both /\ send_shutdown' \in SUBSET Both
      /\ "RECEIVE" \in local_shutdown' => "RECEIVE" \in local_shutdown
      /\ local_shutdown \subseteq local_shutdown'
      /\ advertised' = forwarded \/ advertised' = advertised
  <2>1. CASE FillRequest
    BY <2>1 DEF FillRequest, credit, ends, Control, Stamp, IndInv, TypeOK
  <2>2. CASE FillShutdown
    BY <2>2 DEF FillShutdown, credit, ends, Control, Stamp, IndInv, TypeOK
  <2>3. CASE FillEof
    BY <2>3 DEF FillEof, credit, Control, Stamp, IndInv, TypeOK, Both
  <2>4. CASE FillControl
    <3>1. readable' \in BOOLEAN /\ credit_requested' \in BOOLEAN
      BY <2>4, Zenon DEF FillControl
    <3>2. /\ send_credit_update' = FALSE /\ advertised' = forwarded
          \/ UNCHANGED <<send_credit_update, advertised>>
      BY <2>4, Zenon DEF FillControl, Control, Stamp
    <3>3. UNCHANGED <<send_request, rst, local_shutdown, send_shutdown>>
      BY <2>4 DEF FillControl, life
    <3> QED
      BY <3>1, <3>2, <3>3 DEF IndInv, TypeOK
  <2>5. CASE FillReset
    BY <2>5 DEF FillReset, intake, credit, ends, IndInv, TypeOK
  <2> QED
    BY <2>1, <2>2, <2>3, <2>4, <2>5
<1>4. TypeOK'
  <2>1. advertised' \in Counter
    BY <1>3 DEF IndInv, TypeOK
  <2> QED
    BY <1>1, <1>2, <1>3, <2>1 DEF IndInv, TypeOK
<1>5. SocketInv' /\ WindowInv'
  <2>1. SocketInv'
    BY <1>2 DEF IndInv, SocketInv
  <2>2. CASE advertised' = forwarded
    BY <1>2, <2>1, <2>2, StampWindow
  <2>3. CASE advertised' = advertised
    BY <1>2, <2>1, <2>3 DEF IndInv, WindowInv
  <2> QED
    BY <1>3, <2>2, <2>3
<1>6. CloseInv'
  <2>1. local_shutdown = Both => local_shutdown' = Both
    BY <1>3
  <2> QED
    BY <1>2, <1>3, <2>1 DEF IndInv, CloseInv
<1> QED
  BY <1>4, <1>5, <1>6 DEF IndInv

\* fill_data keeps the invariant: every payload is a piece of what the
\* client wrote.
LEMMA FillDataIndInv ==
  ASSUME IndInv, FillData
  PROVE  IndInv'
<1>1. PICK n \in 1 .. Len(fromHost), used \in 1 .. RxBuffers - Len(rx) :
        /\ n <= Credited
        /\ sent' = wrapping_add(sent, n)
        /\ fromHost' = Drop(fromHost, n)
        /\ rx' = rx \o
             [i \in 1 .. used |->
                SubSeq(fromHost, (i - 1) * RxRoom + 1, Least(i * RxRoom, n))]
  BY DEF FillData
<1>2. /\ fromHost \in Seq(Counter) /\ Len(fromHost) \in Nat
      /\ rx \in Seq(Seq(Counter)) /\ Len(rx) \in Nat
      /\ sent \in Counter /\ peer_forwarded \in Counter
      /\ peer_alloc \in Counter
      /\ \A i \in 1 .. Len(fromHost) : fromHost[i] \in Counter
  BY LenProperties, ElementOfSeq DEF IndInv, TypeOK
<1>3. sent' \in Counter
  <2>1. n \in Counter
    BY <1>1, <1>2, SizesAssumption
       DEF Credited, Available, saturating_sub, wrapping_sub, Counter
  <2> QED
    BY <1>1, <1>2, <2>1, WrapType
<1>4. fromHost' \in Seq(Counter)
  BY <1>1, <1>2, TakeDrop
<1>5. rx' \in Seq(Seq(Counter))
  <2> DEFINE piece(i) ==
        SubSeq(fromHost, (i - 1) * RxRoom + 1, Least(i * RxRoom, n))
  <2>1. ASSUME NEW i \in 1 .. used PROVE piece(i) \in Seq(Counter)
    <3>1. (i - 1) * RxRoom \in Nat /\ i * RxRoom \in Nat
      BY SizesAssumption
    <3>2. /\ (i - 1) * RxRoom + 1 \in Int /\ Least(i * RxRoom, n) \in Int
          /\ \A j \in (i - 1) * RxRoom + 1 .. Least(i * RxRoom, n) :
               fromHost[j] \in Counter
      BY <1>2, <3>1 DEF Least
    <3> QED
      BY <3>2, SubSeqProperties
  <2>2. [i \in 1 .. used |-> piece(i)] \in [1 .. used -> Seq(Counter)]
    BY <2>1
  <2>3. used \in Nat
    BY <1>2, SizesAssumption
  <2>4. [i \in 1 .. used |-> piece(i)] \in Seq(Seq(Counter))
    BY <2>2, <2>3
  <2>5. rx' = rx \o [i \in 1 .. used |-> piece(i)]
    BY <1>1
  <2> QED
    BY <1>2, <2>4, <2>5, ConcatProperties
<1>6. /\ advertised' = forwarded /\ send_credit_update' = FALSE
      /\ UNCHANGED <<status, opener, reply, caller, deadline, send_request,
                     peer_shutdown, local_shutdown, send_shutdown, rst,
                     received, forwarded, incoming, peer_forwarded,
                     peer_alloc, credit_requested, readable, writable, edge,
                     toHost, clientGot, client>>
  BY DEF FillData, Stamp, life
<1>7. TypeOK'
  <2>1. send_credit_update' \in BOOLEAN
    BY <1>6, Zenon
  <2> QED
    BY <1>3, <1>4, <1>5, <1>6, <2>1 DEF IndInv, TypeOK
<1>8. SocketInv' /\ CloseInv'
  BY <1>6 DEF IndInv, SocketInv, CloseInv
<1>9. WindowInv'
  BY <1>6, StampWindow
<1> QED
  BY <1>7, <1>8, <1>9 DEF IndInv

----------------------------------------------------------------------------
(* Everything else, and the theorems. *)

\* The client's reads, the epoll events, the deadline and the guest taking
\* its buffers keep the invariant.
LEMMA EnvironmentIndInv ==
  ASSUME IndInv,
         \/ Wake \/ DeadlinePasses \/ CallerAnswered \/ CallerTimesOut
         \/ ClientStep \/ GuestTakes
  PROVE  IndInv'
<1>1. CASE Wake
  <2>1. readable' \in BOOLEAN /\ writable' \in BOOLEAN /\ edge' \in BOOLEAN
    BY <1>1, Zenon DEF Wake
  <2> QED
    BY <1>1, <2>1 DEF Wake, life, intake, credit, IndInv, TypeOK, SocketInv,
                      WindowInv, CloseInv
<1>2. CASE DeadlinePasses
  BY <1>2 DEF DeadlinePasses, intake, credit, ends, IndInv, TypeOK,
              SocketInv, WindowInv, CloseInv
<1>3. CASE CallerAnswered \/ CallerTimesOut
  BY <1>3 DEF CallerAnswered, CallerTimesOut, intake, credit, ends, IndInv,
              TypeOK, SocketInv, WindowInv, CloseInv
<1>4. CASE ClientWrite
  <2>1. fromHost \in Seq(Counter) /\ Len(fromHost) \in Nat /\ sent \in Counter
    BY LenProperties DEF IndInv, TypeOK
  <2>2. wrapping_add(sent, Len(fromHost)) \in Counter
    BY <1>4, <2>1, SizesAssumption DEF ClientWrite, wrapping_add, Counter
  <2>3. fromHost' \in Seq(Counter)
    BY <1>4, <2>1, <2>2, AppendProperties DEF ClientWrite
  <2>4. edge' \in BOOLEAN
    BY <1>4, Zenon DEF ClientWrite
  <2> QED
    BY <1>4, <2>3, <2>4
       DEF ClientWrite, life, intake, credit, IndInv, TypeOK, SocketInv,
           WindowInv, CloseInv
<1>5. CASE ClientRead
  <2>1. toHost \in Seq(0 .. W) /\ Len(toHost) \in Nat /\ toHost # <<>>
        /\ clientGot \in Counter /\ Len(toHost) <= SocketSize
    BY <1>5, LenProperties DEF ClientRead, IndInv, TypeOK, SocketInv
  <2>2. Tail(toHost) \in Seq(0 .. W) /\ Len(Tail(toHost)) = Len(toHost) - 1
    BY <2>1, HeadTailProperties
  <2>3. wrapping_add(clientGot, 1) \in Counter
    BY <2>1, SizesAssumption DEF wrapping_add, Counter
  <2>4. clientGot' \in Counter
    BY <1>5, <2>1, <2>3 DEF ClientRead
  <2>5. edge' \in BOOLEAN
    BY <1>5, Zenon DEF ClientRead
  <2>6. toHost' = Tail(toHost) /\ Len(toHost') <= SocketSize
    BY <1>5, <2>1, <2>2, SizesAssumption DEF ClientRead
  <2>7. TypeOK'
    BY <1>5, <2>2, <2>4, <2>5, <2>6
       DEF ClientRead, life, intake, credit, IndInv, TypeOK
  <2>8. SocketInv' /\ WindowInv' /\ CloseInv'
    BY <1>5, <2>1, <2>6
       DEF ClientRead, life, intake, IndInv, SocketInv, WindowInv, CloseInv
  <2> QED
    BY <2>7, <2>8 DEF IndInv
<1>6. ASSUME NEW how \in {"shut", "closed"}, ClientCloses(how) PROVE IndInv'
  <2>1. edge' \in BOOLEAN
    BY <1>6, Zenon DEF ClientCloses
  <2> QED
    BY <1>6, <2>1 DEF ClientCloses, life, intake, credit, IndInv, TypeOK,
                      SocketInv, WindowInv, CloseInv
<1>7. CASE GuestTakes
  <2>1. rx' \in Seq(Seq(Counter))
    BY <1>7, HeadTailProperties DEF GuestTakes, IndInv, TypeOK
  <2> QED
    BY <1>7, <2>1 DEF GuestTakes, life, intake, credit, ends, IndInv, TypeOK,
                      SocketInv, WindowInv, CloseInv
<1> QED
  BY <1>1, <1>2, <1>3, <1>4, <1>5, <1>6, <1>7 DEF ClientStep

\* Every step keeps the inductive invariant.
LEMMA NextIndInv == IndInv /\ [Next]_vars => IndInv'
<1> SUFFICES ASSUME IndInv, [Next]_vars PROVE IndInv'
  OBVIOUS
<1>1. CASE GuestSends
  BY <1>1, GuestSendsIndInv
<1>2. CASE Pump
  BY <1>2, PumpIndInv
<1>3. CASE PumpCancel \/ FillError
  BY <1>3, DroppedIndInv DEF PumpCancel, FillError
<1>4. CASE FillRequest \/ FillShutdown \/ FillEof \/ FillControl \/ FillReset
  BY <1>4, FillControlsIndInv
<1>5. CASE FillData
  BY <1>5, FillDataIndInv
<1>6. CASE CallerCancels
  BY <1>6, CallerCancelsIndInv
<1>7. CASE \/ Wake \/ DeadlinePasses \/ CallerAnswered \/ CallerTimesOut
           \/ ClientStep \/ GuestTakes
  BY <1>7, EnvironmentIndInv
<1>8. CASE UNCHANGED vars
  BY <1>8 DEF vars, IndInv, TypeOK, SocketInv, WindowInv, CloseInv
<1> QED
  BY <1>1, <1>2, <1>3, <1>4, <1>5, <1>6, <1>7, <1>8
     DEF Next, DeviceStep, Fill

\* In every behaviour of a connection, whatever the guest sends, the fields
\* keep their types, the counters their order on the circle, and the close
\* its order.
THEOREM ConnectionInvariant == Spec => []IndInv
BY InitIndInv, NextIndInv, PTL DEF Spec

\* Every field of a connection keeps its type.
THEOREM ConnectionTypes == Spec => []TypeOK
<1>1. IndInv => TypeOK
  BY DEF IndInv
<1> QED
  BY <1>1, ConnectionInvariant, PTL

\* No guest makes the host keep more than BUFFER_SIZE bytes for it, for
\* every size of the buffer below the modulus of the counters.
THEOREM BufferIsBounded == Spec => []BufferBounded
<1>1. IndInv => BufferBounded
  <2> SUFFICES ASSUME IndInv PROVE BufferBounded
    OBVIOUS
  <2>1. /\ received \in Counter /\ forwarded \in Counter
        /\ advertised \in Counter
    BY DEF IndInv, TypeOK
  <2> QED
    BY <2>1, WindowStamps DEF IndInv, WindowInv, BufferBounded
<1> QED
  BY <1>1, ConnectionInvariant, PTL

\* The close timer never runs while bytes of the guest wait for the client.
THEOREM DeadlineLosesNothing == Spec => []DeadlineDropsNothing
<1>1. IndInv => DeadlineDropsNothing
  BY DEF IndInv, CloseInv, DeadlineDropsNothing, Both
<1> QED
  BY <1>1, ConnectionInvariant, PTL

\* No step of the device puts more in flight than the guest allows.
THEOREM SendsWithinCredit == Spec => WithinCredit
<1> DEFINE Step == sent' # sent /\ status' # "gone"
                     => wrapping_sub(sent', peer_forwarded) <= peer_alloc
<1>1. IndInv /\ [Next]_vars => [Step]_vars
  <2> SUFFICES ASSUME IndInv, Next, sent' # sent, status' # "gone"
               PROVE  wrapping_sub(sent', peer_forwarded) <= peer_alloc
    OBVIOUS
  <2>1. CASE FillData
    <3>1. PICK n \in 1 .. Len(fromHost) :
            n <= Credited /\ sent' = wrapping_add(sent, n)
      BY <2>1 DEF FillData
    <3>2. /\ sent \in Counter /\ peer_forwarded \in Counter
          /\ peer_alloc \in Counter /\ Len(fromHost) \in Nat
      BY LenProperties DEF IndInv, TypeOK
    <3> QED
      BY <3>1, <3>2, SizesAssumption
         DEF Credited, Available, saturating_sub, wrapping_add, wrapping_sub,
             Counter
  <2>2. CASE GuestSends
    <3>1. ASSUME NEW h, Receive(h) PROVE sent' = sent \/ status' = "gone"
      BY <3>1 DEF Receive, ReceiveRst, ReceiveReset, ReceiveResponse,
                  ReceiveData, ReceiveCredit, ReceiveShutdown, Dropped,
                  UpdateCredit
    <3> QED
      BY <2>2, <3>1, Zenon DEF GuestSends
  <2>3. CASE Pump \/ PumpCancel \/ Wake \/ DeadlinePasses \/ GuestTakes
    BY <2>3 DEF Pump, PumpCancel, Dropped, Wake, DeadlinePasses, GuestTakes,
                credit
  <2>4. CASE \/ FillRequest \/ FillShutdown \/ FillEof \/ FillError
             \/ FillControl \/ FillReset
    BY <2>4 DEF FillRequest, FillShutdown, FillEof, FillError, FillControl,
                FillReset, Dropped, credit
  <2>5. CASE CallerAnswered \/ CallerTimesOut \/ CallerCancels \/ ClientStep
    BY <2>5 DEF CallerAnswered, CallerTimesOut, CallerCancels, ClientStep,
                ClientWrite, ClientRead, ClientCloses, credit
  <2> QED
    BY <2>1, <2>2, <2>3, <2>4, <2>5 DEF Next, DeviceStep, Fill
<1> QED
  BY <1>1, ConnectionInvariant, PTL DEF Spec, WithinCredit

----------------------------------------------------------------------------
(* The order of the guest's bytes.                                         *)

\* The greeting is still in the socket.
Greets == IF toHost # <<>> /\ toHost[1] = Greeting THEN 1 ELSE 0

\* The socket holds the bytes from clientGot up to forwarded, behind the
\* greeting, and the queue those from forwarded on.
StreamInv ==
  /\ wrapping_sub(forwarded, clientGot) = Len(toHost) - Greets
  /\ \A i \in 1 .. Len(toHost) :
       toHost[i] = IF i = 1 /\ Greets = 1 THEN Greeting
                   ELSE wrapping_add(clientGot, i - 1 - Greets)
  /\ \A i \in 1 .. Len(incoming) :
       incoming[i] = wrapping_add(forwarded, i - 1)

\* What Take and Drop keep is where it was.
LEMMA TakeDropElements ==
  ASSUME NEW S, NEW s \in Seq(S), NEW n \in 0 .. Len(s)
  PROVE  /\ \A i \in 1 .. n : Take(s, n)[i] = s[i]
         /\ \A i \in 1 .. Len(s) - n : Drop(s, n)[i] = s[n + i]
<1>1. Len(s) \in Nat /\ \A i \in 1 .. Len(s) : s[i] \in S
  BY LenProperties, ElementOfSeq
<1>2. \A i \in 1 .. n - 1 + 1 : SubSeq(s, 1, n)[i] = s[1 + i - 1]
  <2>1. \A i \in 1 .. n : s[i] \in S
    BY <1>1
  <2> QED
    BY <2>1, SubSeqProperties, n \in Int
<1>3. \A i \in 1 .. Len(s) - (n + 1) + 1 :
        SubSeq(s, n + 1, Len(s))[i] = s[n + 1 + i - 1]
  <2>1. \A i \in n + 1 .. Len(s) : s[i] \in S
    BY <1>1
  <2> QED
    BY <1>1, <2>1, SubSeqProperties, n + 1 \in Int, Len(s) \in Int
<1>4. ASSUME NEW i \in 1 .. n PROVE Take(s, n)[i] = s[i]
  BY <1>2 DEF Take
<1>5. ASSUME NEW i \in 1 .. Len(s) - n PROVE Drop(s, n)[i] = s[n + i]
  <2>1. i \in 1 .. Len(s) - (n + 1) + 1 /\ n + 1 + i - 1 = n + i
    BY <1>1
  <2>2. SubSeq(s, n + 1, Len(s))[i] = s[n + 1 + i - 1]
    BY <1>3, <2>1
  <2> QED
    BY <2>1, <2>2 DEF Drop
<1> QED
  BY <1>4, <1>5

\* A step that touches neither the socket's guest bytes nor the queue.
LEMMA StreamKept ==
  ASSUME StreamInv, UNCHANGED <<toHost, incoming, forwarded, clientGot>>
  PROVE  StreamInv'
BY DEF StreamInv, Greets

\* A connection that is gone, or just opened, holds nothing.
LEMMA StreamEmpty ==
  ASSUME toHost = <<>>, incoming = <<>>, forwarded = 0, clientGot = 0
  PROVE  StreamInv
BY SizesAssumption DEF StreamInv, Greets, wrapping_sub

\* A connection that is freed has no stream.
LEMMA StreamFreed ==
  ASSUME Freed
  PROVE  StreamInv'
BY SizesAssumption DEF Freed, StreamInv, Greets, wrapping_sub

\* With f d bytes ahead of c, k bytes on from f is d + k on from c.
LEMMA Ahead ==
  ASSUME NEW f \in Counter, NEW c \in Counter, NEW d \in Nat, NEW k \in Nat,
         wrapping_sub(f, c) = d, d + k < W
  PROVE  wrapping_add(f, k) = wrapping_add(c, d + k)
BY SizesAssumption DEF wrapping_sub, wrapping_add, Counter

\* Moving f on by n moves it n further from c.
LEMMA Further ==
  ASSUME NEW f \in Counter, NEW c \in Counter, NEW n \in Nat,
         wrapping_sub(f, c) + n < W
  PROVE  wrapping_sub(wrapping_add(f, n), c) = wrapping_sub(f, c) + n
BY SizesAssumption DEF wrapping_sub, wrapping_add, Counter

\* The next bytes of the stream go to the socket, straight or from the
\* queue.
LEMMA Forwards ==
  ASSUME IndInv, StreamInv, NEW n \in Nat, NEW data \in Seq(Counter),
         Len(data) = n, Len(toHost) + n <= SocketSize,
         \A i \in 1 .. n : data[i] = wrapping_add(forwarded, i - 1),
         toHost' = toHost \o data,
         forwarded' = wrapping_add(forwarded, n), clientGot' = clientGot,
         \A i \in 1 .. Len(incoming') :
           incoming'[i] = wrapping_add(forwarded', i - 1)
  PROVE  StreamInv'
<1>1. /\ toHost \in Seq(0 .. W) /\ Len(toHost) \in Nat
      /\ forwarded \in Counter /\ clientGot \in Counter
  BY LenProperties DEF IndInv, TypeOK
<1>2. data \in Seq(0 .. W)
  <2>1. Counter \subseteq 0 .. W
    BY SizesAssumption DEF Counter
  <2> QED
    BY <2>1, SeqMonotonic
<1>3. /\ toHost' \in Seq(0 .. W) /\ Len(toHost') = Len(toHost) + n
      /\ \A i \in 1 .. Len(toHost) + n :
           toHost'[i] = IF i <= Len(toHost) THEN toHost[i]
                        ELSE data[i - Len(toHost)]
  BY <1>1, <1>2, ConcatProperties
<1>4. \A i \in 1 .. n : data[i] \in Counter
  BY ElementOfSeq
<1>5. Greets \in {0, 1} /\ Greets <= Len(toHost)
  BY <1>1, EmptySeq DEF Greets
<1>6. Greets' = Greets
  <2>1. CASE toHost = <<>>
    <3>1. Len(toHost) = 0 /\ Greets = 0
      BY <2>1 DEF Greets
    <3>2. CASE n = 0
      <4>1. toHost' = <<>>
        BY <1>3, <3>1, <3>2, EmptySeq
      <4> QED
        BY <3>1, <4>1 DEF Greets
    <3>3. CASE n # 0
      <4>1. toHost'[1] = data[1] /\ data[1] \in Counter
        BY <1>3, <1>4, <3>1, <3>3
      <4>2. toHost'[1] # W
        BY <4>1, SizesAssumption DEF Counter
      <4> QED
        BY <3>1, <4>2 DEF Greets, Greeting
    <3> QED
      BY <3>2, <3>3
  <2>2. CASE toHost # <<>>
    <3>1. Len(toHost) >= 1
      BY <1>1, <2>2, EmptySeq
    <3>2. toHost'[1] = toHost[1] /\ toHost' # <<>>
      BY <1>1, <1>3, <3>1
    <3> QED
      BY <2>2, <3>2 DEF Greets
  <2> QED
    BY <2>1, <2>2
<1>7. wrapping_sub(forwarded, clientGot) = Len(toHost) - Greets
  BY DEF StreamInv
<1> HIDE DEF Greets
<1>8. wrapping_sub(forwarded', clientGot') = Len(toHost') - Greets'
  <2>1. wrapping_sub(forwarded, clientGot) + n < W
    BY <1>1, <1>5, <1>7, SizesAssumption
  <2>2. wrapping_sub(wrapping_add(forwarded, n), clientGot)
          = wrapping_sub(forwarded, clientGot) + n
    BY <1>1, <2>1, Further
  <2> QED
    BY <1>1, <1>3, <1>5, <1>6, <1>7, <2>2
<1>9. ASSUME NEW i \in 1 .. Len(toHost')
      PROVE  toHost'[i] = IF i = 1 /\ Greets' = 1 THEN Greeting
                          ELSE wrapping_add(clientGot', i - 1 - Greets')
  <2>1. CASE i <= Len(toHost)
    <3>1. toHost'[i] = toHost[i] /\ i \in 1 .. Len(toHost)
      BY <1>1, <1>3, <2>1
    <3> QED
      BY <1>6, <3>1 DEF StreamInv
  <2>2. CASE i > Len(toHost)
    <3>1. /\ i - Len(toHost) \in 1 .. n /\ toHost'[i] = data[i - Len(toHost)]
          /\ ~(i = 1 /\ Greets' = 1)
      BY <1>1, <1>3, <1>5, <1>6, <2>2
    <3>2. toHost'[i] = wrapping_add(forwarded, i - Len(toHost) - 1)
      BY <3>1
    <3>3. wrapping_add(forwarded, i - Len(toHost) - 1)
            = wrapping_add(clientGot, i - 1 - Greets)
      <4>1. /\ Len(toHost) - Greets \in Nat /\ i - Len(toHost) - 1 \in Nat
            /\ Len(toHost) - Greets + (i - Len(toHost) - 1) = i - 1 - Greets
            /\ i - 1 - Greets < W
        BY <1>1, <1>3, <1>5, <2>2, SizesAssumption
      <4> QED
        BY <1>1, <1>7, <4>1, Ahead
    <3> QED
      BY <1>6, <3>1, <3>2, <3>3
  <2> QED
    BY <1>1, <1>3, <2>1, <2>2
<1> QED
  BY <1>8, <1>9 DEF StreamInv

\* receive, when the guest answers: the greeting is alone in the socket.
LEMMA ReceiveResponseStream ==
  ASSUME IndInv, StreamInv, NEW h, ReceiveResponse(h)
  PROVE  StreamInv'
<1>1. /\ toHost = <<>>
      /\ toHost' = Append(toHost, Greeting) \/ toHost' = toHost
      /\ UNCHANGED <<incoming, forwarded, clientGot>>
  BY DEF IndInv, SocketInv, ReceiveResponse, intake
<1>2. CASE toHost' = toHost
  BY <1>1, <1>2, StreamKept
<1>3. CASE toHost' = Append(toHost, Greeting)
  <2>1. toHost' = <<Greeting>>
    BY <1>1, <1>3
  <2>2. Len(toHost') = 1 /\ Greets' = 1 /\ Len(toHost) = 0 /\ Greets = 0
        /\ toHost'[1] = Greeting
    BY <1>1, <2>1 DEF Greets
  <2> HIDE DEF Greets
  <2> QED
    BY <1>1, <2>2 DEF StreamInv
<1> QED
  BY <1>1, <1>2, <1>3

\* receive, for data: bytes go straight only while none is queued.
LEMMA ReceiveDataStream ==
  ASSUME IndInv, StreamInv, NEW h, HeaderOK(h), ReceiveData(h)
  PROVE  StreamInv'
<1> DEFINE n == Straight(h)
           data == Bytes(received, h.len)
<1>1. /\ received \in Counter /\ forwarded \in Counter
      /\ h.len \in 0 .. W - 1
      /\ incoming \in Seq(Counter) /\ toHost \in Seq(0 .. W)
      /\ Len(incoming) \in Nat /\ Len(toHost) \in Nat
  BY SizesAssumption, LenProperties DEF IndInv, TypeOK, HeaderOK
<1>2. n \in 0 .. h.len /\ (n <= SocketSize - Len(toHost) \/ n = 0)
  BY <1>1, SizesAssumption DEF IndInv, SocketInv, Straight, Least
<1>3. n \in 0 .. h.len /\ Len(toHost) + n <= SocketSize
  BY <1>1, <1>2, SizesAssumption DEF IndInv, SocketInv
<1>4. /\ wrapping_sub(received, forwarded) = Len(incoming)
      /\ Len(incoming) + h.len < W
  <2>1. /\ wrapping_sub(received, forwarded) = Len(incoming)
        /\ wrapping_sub(received, advertised) <= BufferSize
        /\ wrapping_sub(forwarded, advertised)
             <= wrapping_sub(received, advertised)
        /\ advertised \in Counter
    BY DEF IndInv, WindowInv, TypeOK
  <2>2. wrapping_sub(received, advertised) + h.len <= BufferSize
    BY <1>1, <2>1, SizesAssumption
       DEF ReceiveData, Rejects, PeerView, saturating_sub, wrapping_sub,
           Counter
  <2>3. wrapping_sub(received, forwarded) <= wrapping_sub(received, advertised)
    BY <1>1, <2>1, SizesAssumption DEF wrapping_sub, Counter
  <2> QED
    BY <1>1, <2>1, <2>2, <2>3, SizesAssumption DEF wrapping_sub, Counter
<1>5. n = 0 \/ Len(incoming) = 0
  BY DEF Straight
<1>6. /\ data \in Seq(Counter) /\ Len(data) = h.len
      /\ \A i \in 1 .. h.len : data[i] = wrapping_add(received, i - 1)
  BY <1>1, BytesType DEF Bytes
<1>7. /\ toHost' = toHost \o Take(data, n)
      /\ incoming' = incoming \o Drop(data, n)
      /\ forwarded' = wrapping_add(forwarded, n) /\ clientGot' = clientGot
  BY DEF ReceiveData
<1> HIDE DEF n, data
<1>8. /\ Take(data, n) \in Seq(Counter) /\ Len(Take(data, n)) = n
      /\ Drop(data, n) \in Seq(Counter) /\ Len(Drop(data, n)) = h.len - n
      /\ \A i \in 1 .. n : Take(data, n)[i] = data[i]
      /\ \A i \in 1 .. h.len - n : Drop(data, n)[i] = data[n + i]
  <2>1. n \in 0 .. Len(data)
    BY <1>3, <1>6
  <2> QED
    BY <1>6, <2>1, TakeDrop, TakeDropElements, ZenonT(30)
<1>9. ASSUME NEW i \in 1 .. n
      PROVE  Take(data, n)[i] = wrapping_add(forwarded, i - 1)
  <2>1. Len(incoming) = 0 /\ i \in 1 .. h.len
    BY <1>1, <1>3, <1>5
  <2>2. received = forwarded
    BY <1>1, <1>4, <2>1, SizesAssumption DEF wrapping_sub, Counter
  <2> QED
    BY <1>6, <1>8, <2>1, <2>2
<1>10. ASSUME NEW i \in 1 .. Len(incoming')
       PROVE  incoming'[i] = wrapping_add(forwarded', i - 1)
  <2> DEFINE L == Len(incoming)
  <2>1. /\ i \in 1 .. L + (h.len - n) /\ L \in Nat
        /\ incoming'[i] = IF i <= L THEN incoming[i] ELSE Drop(data, n)[i - L]
    BY <1>1, <1>7, <1>8, ConcatProperties
  <2> HIDE DEF L
  <2>2. CASE i <= L
    <3>1. n = 0 /\ i \in 1 .. L /\ incoming'[i] = incoming[i]
      BY <1>5, <2>1, <2>2 DEF L
    <3>2. forwarded' = forwarded
      BY <1>1, <1>7, <3>1, SizesAssumption DEF wrapping_add, Counter
    <3> QED
      BY <3>1, <3>2 DEF StreamInv, L
  <2>3. CASE i > L
    <3>1. /\ i - L \in 1 .. h.len - n /\ n + (i - L) \in 1 .. h.len
          /\ n + (i - L) - 1 \in Nat /\ L + (n + (i - L) - 1) < W
          /\ i - 1 \in Nat /\ n + (i - 1) < W
          /\ L + (n + (i - L) - 1) = n + (i - 1)
      <4>1. L + h.len < W /\ (n = 0 \/ L = 0)
        BY <1>4, <1>5 DEF L
      <4>2. PICK m \in 0 .. W - 1 : m = h.len
        BY <1>1
      <4>3. /\ n \in 0 .. m /\ i \in 1 .. L + (m - n) /\ L + m < W
            /\ L \in Nat /\ W \in Nat
        BY <1>3, <2>1, <4>1, <4>2, SizesAssumption
      <4>4. /\ i - L \in 1 .. m - n /\ n + (i - L) \in 1 .. m
            /\ n + (i - L) - 1 \in Nat /\ L + (n + (i - L) - 1) < W
            /\ i - 1 \in Nat /\ n + (i - 1) < W
            /\ L + (n + (i - L) - 1) = n + (i - 1)
        BY <2>3, <4>3
      <4> QED
        BY <4>2, <4>4
    <3>2. incoming'[i] = wrapping_add(received, n + (i - L) - 1)
      <4>1. ~(i <= L)
        BY <2>1, <2>3
      <4>2. incoming'[i] = Drop(data, n)[i - L]
        BY <2>1, <4>1
      <4>3. PICK k \in 1 .. h.len : k = n + (i - L)
        BY <3>1
      <4>4. Drop(data, n)[i - L] = data[n + (i - L)]
        BY <1>8, <3>1
      <4>5. data[k] = wrapping_add(received, k - 1)
        BY <1>6
      <4>6. data[n + (i - L)] = data[k] /\ k - 1 = n + (i - L) - 1
        BY <1>1, <1>3, <2>1, <4>3
      <4> QED
        BY <4>2, <4>4, <4>5, <4>6
    <3>3. wrapping_add(received, n + (i - L) - 1)
            = wrapping_add(forwarded, n + (i - 1))
      <4>1. wrapping_sub(received, forwarded) = L
        BY <1>4 DEF L
      <4> QED
        BY <1>1, <2>1, <3>1, <4>1, Ahead
    <3>4. wrapping_add(wrapping_add(forwarded, n), i - 1)
            = wrapping_add(forwarded, n + (i - 1))
      BY <1>1, <1>3, <3>1, SizesAssumption, SMTT(30) DEF wrapping_add, Counter
    <3> QED
      BY <1>7, <3>2, <3>3, <3>4
  <2> QED
    BY <1>1, <2>1, <2>2, <2>3
<1>11. n \in Nat
  BY <1>1, <1>3
<1> QED
  BY <1>3, <1>7, <1>8, <1>9, <1>10, <1>11, Forwards

\* pump drains the queue from its front.
LEMMA PumpStream ==
  ASSUME IndInv, StreamInv, Pump
  PROVE  StreamInv'
<1> DEFINE n == Drained
<1>1. /\ received \in Counter /\ forwarded \in Counter
      /\ incoming \in Seq(Counter) /\ toHost \in Seq(0 .. W)
      /\ Len(incoming) \in Nat /\ Len(toHost) \in Nat
  BY LenProperties DEF IndInv, TypeOK
<1>2. n \in 0 .. Len(incoming) /\ Len(toHost) + n <= SocketSize
  BY <1>1, SizesAssumption DEF IndInv, SocketInv, Drained, Least
<1>3. /\ toHost' = toHost \o Take(incoming, n)
      /\ incoming' = Drop(incoming, n)
      /\ forwarded' = wrapping_add(forwarded, n) /\ clientGot' = clientGot
  BY DEF Pump
<1>4. Len(incoming) < W
  BY <1>1, SizesAssumption DEF IndInv, WindowInv, wrapping_sub, Counter
<1> HIDE DEF n
<1>5. /\ Take(incoming, n) \in Seq(Counter) /\ Len(Take(incoming, n)) = n
      /\ Len(Drop(incoming, n)) = Len(incoming) - n
      /\ \A i \in 1 .. n : Take(incoming, n)[i] = incoming[i]
      /\ \A i \in 1 .. Len(incoming) - n : Drop(incoming, n)[i] = incoming[n + i]
  BY <1>1, <1>2, TakeDrop, TakeDropElements
<1>6. ASSUME NEW i \in 1 .. n
      PROVE  Take(incoming, n)[i] = wrapping_add(forwarded, i - 1)
  <2>1. i \in 1 .. Len(incoming)
    BY <1>1, <1>2
  <2> QED
    BY <1>5, <2>1 DEF StreamInv
<1>7. ASSUME NEW i \in 1 .. Len(incoming')
      PROVE  incoming'[i] = wrapping_add(forwarded', i - 1)
  <2>1. i \in 1 .. Len(incoming) - n /\ n + i \in 1 .. Len(incoming)
    BY <1>1, <1>2, <1>3, <1>5
  <2>2. incoming'[i] = wrapping_add(forwarded, n + i - 1)
    BY <1>3, <1>5, <2>1 DEF StreamInv
  <2>3. wrapping_add(wrapping_add(forwarded, n), i - 1)
          = wrapping_add(forwarded, n + i - 1)
    BY <1>1, <1>2, <1>4, <2>1, SizesAssumption DEF wrapping_add, Counter
  <2> QED
    BY <1>3, <2>2, <2>3
<1>8. n \in Nat
  BY <1>1, <1>2
<1> QED
  BY <1>2, <1>3, <1>5, <1>6, <1>7, <1>8, Forwards

\* The client reads the greeting, or the byte its position says.
LEMMA ClientReadStream ==
  ASSUME IndInv, StreamInv, ClientRead
  PROVE  StreamInv'
<1>1. /\ toHost \in Seq(0 .. W) /\ Len(toHost) \in Nat /\ toHost # <<>>
      /\ clientGot \in Counter /\ forwarded \in Counter
      /\ Len(toHost) <= SocketSize
      /\ UNCHANGED <<incoming, forwarded>> /\ toHost' = Tail(toHost)
  BY LenProperties DEF ClientRead, intake, IndInv, TypeOK, SocketInv
<1>2. Len(toHost) >= 1 /\ Head(toHost) = toHost[1]
  BY <1>1, EmptySeq
<1>3. /\ Len(toHost') = Len(toHost) - 1
      /\ \A i \in 1 .. Len(toHost') : toHost'[i] = toHost[i + 1]
  BY <1>1, HeadTailProperties
<1>4. Greets = IF toHost[1] = Greeting THEN 1 ELSE 0
  BY <1>1 DEF Greets
<1>5. \A i \in 1 .. Len(toHost) :
        toHost[i] = IF i = 1 /\ Greets = 1 THEN Greeting
                    ELSE wrapping_add(clientGot, i - 1 - Greets)
  BY DEF StreamInv
<1>6. wrapping_sub(forwarded, clientGot) = Len(toHost) - Greets
  BY DEF StreamInv
<1>7. Greets' = 0
  <2>1. CASE toHost' = <<>>
    BY <2>1 DEF Greets
  <2>2. CASE toHost' # <<>>
    <3>1. Len(toHost') >= 1
      BY <1>1, <1>2, <1>3, <2>2, EmptySeq, HeadTailProperties
    <3>2. toHost'[1] = toHost[2] /\ 2 \in 1 .. Len(toHost)
      BY <1>1, <1>3, <3>1
    <3>3. toHost[2] = wrapping_add(clientGot, 1 - Greets)
      BY <1>5, <3>2, <1>4
    <3>4. toHost'[1] # W
      BY <1>1, <1>4, <3>2, <3>3, SizesAssumption DEF wrapping_add, Counter
    <3> QED
      BY <3>4 DEF Greets, Greeting
  <2> QED
    BY <2>1, <2>2
<1>8. clientGot' = IF Greets = 1 THEN clientGot ELSE wrapping_add(clientGot, 1)
  BY <1>2, <1>4 DEF ClientRead
<1> HIDE DEF Greets
<1>9. wrapping_sub(forwarded', clientGot') = Len(toHost') - Greets'
  <2>1. CASE Greets = 1
    BY <1>1, <1>3, <1>6, <1>7, <1>8, <2>1
  <2>2. CASE Greets = 0
    <3>1. wrapping_sub(forwarded, wrapping_add(clientGot, 1))
            = wrapping_sub(forwarded, clientGot) - 1
      <4>1. wrapping_sub(forwarded, clientGot) >= 1
        BY <1>1, <1>2, <1>6, <2>2
      <4> QED
        BY <1>1, <4>1, SizesAssumption DEF wrapping_sub, wrapping_add, Counter
    <3> QED
      BY <1>1, <1>3, <1>6, <1>7, <1>8, <2>2, <3>1
  <2> QED
    BY <1>4, <2>1, <2>2
<1>10. ASSUME NEW i \in 1 .. Len(toHost')
       PROVE  toHost'[i] = wrapping_add(clientGot', i - 1)
  <2>1. i + 1 \in 1 .. Len(toHost) /\ i + 1 # 1 /\ i + 1 <= SocketSize
    BY <1>1, <1>3, SizesAssumption
  <2>2. toHost'[i] = wrapping_add(clientGot, i + 1 - 1 - Greets)
    <3>1. toHost'[i] = toHost[i + 1]
      BY <1>3
    <3>2. PICK k \in 1 .. Len(toHost) : k = i + 1 /\ k # 1
      BY <2>1
    <3>3. toHost[k] = wrapping_add(clientGot, k - 1 - Greets)
      BY <1>5, <3>2
    <3>4. toHost[i + 1] = toHost[k] /\ k - 1 - Greets = i + 1 - 1 - Greets
      BY <1>1, <1>3, <1>4, <3>2
    <3> QED
      BY <3>1, <3>3, <3>4
  <2>3. wrapping_add(clientGot, i + 1 - 1 - Greets)
          = wrapping_add(clientGot', i - 1)
    BY <1>1, <1>4, <1>8, <2>1, SizesAssumption DEF wrapping_add, Counter
  <2> QED
    BY <2>2, <2>3
<1>11. /\ \A i \in 1 .. Len(incoming') :
            incoming'[i] = wrapping_add(forwarded', i - 1)
  BY <1>1 DEF StreamInv
<1>12. \A i \in 1 .. Len(toHost') : wrapping_add(clientGot', i - 1 - Greets')
                                     = wrapping_add(clientGot', i - 1)
  BY <1>1, <1>3, <1>7
<1> QED
  BY <1>7, <1>9, <1>10, <1>11, <1>12 DEF StreamInv

----------------------------------------------------------------------------
\* No packet of the guest breaks the order.
LEMMA ReceiveStream ==
  ASSUME IndInv, StreamInv, NEW h, HeaderOK(h), Receive(h)
  PROVE  StreamInv'
<1>1. CASE ReceiveRst(h) \/ ReceiveReset(h)
  BY <1>1, StreamFreed DEF ReceiveRst, ReceiveReset, Dropped
<1>2. CASE ReceiveResponse(h)
  BY <1>2, ReceiveResponseStream
<1>3. CASE ReceiveData(h)
  BY <1>3, ReceiveDataStream
<1>4. CASE ReceiveCredit(h) \/ ReceiveShutdown(h)
  <2>1. UNCHANGED <<toHost, incoming, forwarded, clientGot>>
    BY <1>4 DEF ReceiveCredit, ReceiveShutdown, intake, ends
  <2> QED
    BY <2>1, StreamKept
<1> QED
  BY <1>1, <1>2, <1>3, <1>4 DEF Receive

\* Every packet of the guest is a header with fields in range.
LEMMA GuestSendsHeader ==
  ASSUME GuestSends
  PROVE  \E h : HeaderOK(h) /\ Receive(h)
<1>1. 0 \in Counter /\ 0 \in 0 .. MaxLen /\ {} \in SUBSET Both
      /\ Allocs \subseteq Counter
  BY SizesAssumption DEF Counter
<1>2. ASSUME NEW op, NEW flags \in SUBSET Both, NEW len \in 0 .. MaxLen,
             NEW fwd_cnt \in Counter, NEW buf_alloc \in Counter,
             Receive(Header(op, flags, len, fwd_cnt, buf_alloc))
      PROVE  \E h : HeaderOK(h) /\ Receive(h)
  <2>1. HeaderOK(Header(op, flags, len, fwd_cnt, buf_alloc))
    BY DEF HeaderOK, Header
  <2> QED
    BY <1>2, <2>1
<1>3. CASE \E op \in {"MALFORMED", "REQUEST", "RST", "SHUTDOWN"} :
             Receive(Header(op, {}, 0, 0, 0))
  BY <1>1, <1>2, <1>3
<1>4. CASE \E fwd_cnt \in 0 .. W - 1, buf_alloc \in Allocs :
             \/ \E op \in {"RESPONSE", "CREDIT_UPDATE", "CREDIT_REQUEST"} :
                  Receive(Header(op, {}, 0, fwd_cnt, buf_alloc))
             \/ \E len \in 0 .. MaxLen :
                  Receive(Header("RW", {}, len, fwd_cnt, buf_alloc))
             \/ \E flags \in SUBSET Both \ {{}} :
                  Receive(Header("SHUTDOWN", flags, 0, fwd_cnt, buf_alloc))
  <2>1. PICK fwd_cnt \in Counter, buf_alloc \in Counter :
             \/ \E op \in {"RESPONSE", "CREDIT_UPDATE", "CREDIT_REQUEST"} :
                  Receive(Header(op, {}, 0, fwd_cnt, buf_alloc))
             \/ \E len \in 0 .. MaxLen :
                  Receive(Header("RW", {}, len, fwd_cnt, buf_alloc))
             \/ \E flags \in SUBSET Both \ {{}} :
                  Receive(Header("SHUTDOWN", flags, 0, fwd_cnt, buf_alloc))
    BY <1>1, <1>4, Zenon DEF Counter
  <2> QED
    BY <1>1, <1>2, <2>1
<1> QED
  BY <1>3, <1>4 DEF GuestSends

\* Every step keeps the guest's bytes in order.
LEMMA NextStream ==
  ASSUME IndInv, StreamInv, [Next]_vars
  PROVE  StreamInv'
<1>1. CASE GuestSends
  BY <1>1, GuestSendsHeader, ReceiveStream
<1>2. CASE Pump
  BY <1>2, PumpStream
<1>3. CASE PumpCancel \/ FillError \/ CallerCancels
  BY <1>3, StreamFreed DEF PumpCancel, FillError, Dropped, CallerCancels
<1>4. CASE ClientRead
  BY <1>4, ClientReadStream
<1>5. CASE \/ FillRequest \/ FillShutdown \/ FillEof \/ FillControl
           \/ FillReset \/ FillData \/ Wake
  <2>1. UNCHANGED <<toHost, incoming, forwarded, clientGot>>
    BY <1>5 DEF FillRequest, FillShutdown, FillEof, FillControl, FillReset,
                FillData, Wake, intake, ends
  <2> QED
    BY <2>1, StreamKept
<1>6. CASE \/ DeadlinePasses \/ CallerAnswered \/ CallerTimesOut
           \/ ClientWrite \/ GuestTakes \/ UNCHANGED vars
           \/ \E how \in {"shut", "closed"} : ClientCloses(how)
  <2>1. UNCHANGED <<toHost, incoming, forwarded, clientGot>>
    BY <1>6 DEF DeadlinePasses, CallerAnswered, CallerTimesOut, ClientWrite,
                GuestTakes, ClientCloses, intake, ends, vars
  <2> QED
    BY <2>1, StreamKept
<1> QED
  BY <1>1, <1>2, <1>3, <1>4, <1>5, <1>6
     DEF Next, DeviceStep, Fill, ClientStep

\* The greeting is ahead of every byte of the guest, and behind it the
\* client finds the guest's bytes in order, none lost or doubled, for every
\* size of buffer and socket that together fit the counters: straight from
\* guest memory or through the queue, across every wrap (receive, pump).
THEOREM GuestBytesInOrder == Spec => []ForwardedInOrder
<1>1. Init => StreamInv
  BY StreamEmpty DEF Init
<1>2. IndInv /\ StreamInv /\ [Next]_vars => StreamInv'
  BY NextStream
<1>3. IndInv /\ StreamInv => ForwardedInOrder
  <2> SUFFICES ASSUME IndInv, StreamInv PROVE ForwardedInOrder
    OBVIOUS
  <2> DEFINE s == GuestData(toHost)
             d == wrapping_sub(forwarded, clientGot)
             k == wrapping_sub(received, clientGot)
  <2>1. /\ toHost \in Seq(0 .. W) /\ Len(toHost) \in Nat
        /\ incoming \in Seq(Counter) /\ Len(incoming) \in Nat
        /\ forwarded \in Counter /\ clientGot \in Counter
        /\ received \in Counter /\ Len(toHost) <= SocketSize
    BY LenProperties DEF IndInv, TypeOK, SocketInv
  <2>2. /\ d = Len(toHost) - Greets
        /\ Len(incoming) = wrapping_sub(received, forwarded)
        /\ Len(incoming) <= BufferSize
    <3>1. /\ advertised \in Counter
          /\ wrapping_sub(received, advertised) <= BufferSize
          /\ wrapping_sub(forwarded, advertised)
               <= wrapping_sub(received, advertised)
          /\ Len(incoming) = wrapping_sub(received, forwarded)
          /\ d = Len(toHost) - Greets
      BY DEF IndInv, TypeOK, WindowInv, StreamInv
    <3> QED
      BY <2>1, <3>1, WindowStamps
  <2>3. /\ Greets \in {0, 1} /\ Greets <= Len(toHost)
    BY <2>1, EmptySeq DEF Greets
  <2>4. /\ s \in Seq(0 .. W) /\ Len(s) = Len(toHost) - Greets
        /\ \A i \in 1 .. Len(s) : s[i] = toHost[i + Greets]
    <3>1. toHost # <<>> => Head(toHost) = toHost[1]
      OBVIOUS
    <3>2. CASE toHost # <<>> /\ toHost[1] = Greeting
      <4>1. s = Tail(toHost) /\ Greets = 1
        BY <3>1, <3>2 DEF GuestData, Greets
      <4> HIDE DEF s
      <4> QED
        BY <2>1, <3>2, <4>1, HeadTailProperties
    <3>3. CASE ~(toHost # <<>> /\ toHost[1] = Greeting)
      <4>1. s = toHost /\ Greets = 0
        BY <3>1, <3>3 DEF GuestData, Greets
      <4> HIDE DEF s
      <4>2. \A i \in 1 .. Len(toHost) : i + 0 = i
        BY <2>1
      <4> QED
        BY <2>1, <4>1, <4>2
    <3> QED
      BY <3>2, <3>3
  <2>5. Len(s) = d /\ d \in Nat /\ d + Len(incoming) < W
    BY <2>1, <2>2, <2>3, <2>4, SizesAssumption
  <2>6. k = d + Len(incoming)
    <3>1. wrapping_add(forwarded, wrapping_sub(received, forwarded)) = received
      BY <2>1, SizesAssumption DEF wrapping_add, wrapping_sub, Counter
    <3>2. wrapping_sub(wrapping_add(forwarded, Len(incoming)), clientGot)
            = wrapping_sub(forwarded, clientGot) + Len(incoming)
      BY <2>1, <2>5, Further
    <3> QED
      BY <2>2, <3>1, <3>2
  <2>7. ASSUME NEW i \in 1 .. Len(s) PROVE s[i] = wrapping_add(clientGot, i - 1)
    <3> HIDE DEF s
    <3>1. PICK j \in 1 .. Len(toHost) : j = i + Greets
      BY <2>1, <2>3, <2>4
    <3>2. toHost[j] = IF j = 1 /\ Greets = 1 THEN Greeting
                      ELSE wrapping_add(clientGot, j - 1 - Greets)
      BY DEF StreamInv
    <3>3. ~(j = 1 /\ Greets = 1) /\ j - 1 - Greets = i - 1
      BY <2>1, <2>3, <2>4, <3>1
    <3> QED
      BY <2>4, <3>1, <3>2, <3>3
  <2>8. incoming \in Seq(0 .. W)
    <3>1. Counter \subseteq 0 .. W
      BY SizesAssumption DEF Counter
    <3> QED
      BY <2>1, <3>1, SeqMonotonic
  <2>9. s \o incoming = Bytes(clientGot, k)
    <3> HIDE DEF s, d, k
    <3>1. k \in 0 .. W - 1
      BY <2>1, <2>5, <2>6, SizesAssumption
    <3>2. /\ Bytes(clientGot, k) \in Seq(Counter)
          /\ Len(Bytes(clientGot, k)) = k
          /\ \A i \in 1 .. k : Bytes(clientGot, k)[i]
                              = wrapping_add(clientGot, i - 1)
      BY <2>1, <3>1, BytesType DEF Bytes
    <3>3. Bytes(clientGot, k) \in Seq(0 .. W)
      <4>1. Counter \subseteq 0 .. W
        BY SizesAssumption DEF Counter
      <4> QED
        BY <3>2, <4>1, SeqMonotonic
    <3>4. /\ s \o incoming \in Seq(0 .. W) /\ Len(s \o incoming) = k
          /\ \A i \in 1 .. k : (s \o incoming)[i] =
               IF i <= d THEN s[i] ELSE incoming[i - d]
      BY <2>4, <2>5, <2>6, <2>8, ConcatProperties
    <3>5. ASSUME NEW i \in 1 .. k
          PROVE  (s \o incoming)[i] = wrapping_add(clientGot, i - 1)
      <4>1. CASE i <= d
        BY <2>5, <2>7, <3>4, <4>1
      <4>2. CASE i > d
        <5>1. PICK j \in 1 .. Len(incoming) : j = i - d
          BY <2>1, <2>5, <2>6, <4>2
        <5>2. incoming[j] = wrapping_add(forwarded, j - 1)
          BY DEF StreamInv
        <5>3. j - 1 \in Nat /\ d + (j - 1) < W /\ d + (j - 1) = i - 1
          BY <2>1, <2>5, <5>1, SizesAssumption
        <5>4. wrapping_add(forwarded, j - 1) = wrapping_add(clientGot, i - 1)
          <6>1. wrapping_sub(forwarded, clientGot) = d
            BY DEF d
          <6> QED
            BY <2>1, <2>5, <5>3, <6>1, Ahead
        <5>5. ~(i <= d)
          BY <2>5, <4>2
        <5>6. (s \o incoming)[i] = incoming[i - d]
          BY <3>4, <5>5
        <5>7. incoming[i - d] = incoming[j]
          BY <5>1
        <5> QED
          BY <5>2, <5>4, <5>6, <5>7
      <4>3. i <= d \/ i > d
        BY <2>5, <3>1, SizesAssumption
      <4> QED
        BY <4>1, <4>2, <4>3
    <3> QED
      BY <3>2, <3>3, <3>4, <3>5, SeqEqual
  <2>10. ASSUME NEW i \in 1 .. Len(toHost), toHost[i] = Greeting
         PROVE  i = 1
    <3> SUFFICES ASSUME i # 1 PROVE FALSE
      OBVIOUS
    <3>1. toHost[i] = wrapping_add(clientGot, i - 1 - Greets)
      BY DEF StreamInv
    <3>2. i - 1 - Greets \in 0 .. W - 1
      BY <2>1, <2>3, SizesAssumption
    <3> HIDE DEF Greets
    <3>3. wrapping_add(clientGot, i - 1 - Greets) # W
      BY <2>1, <3>2, SizesAssumption DEF wrapping_add, Counter
    <3> QED
      BY <2>10, <3>1, <3>3 DEF Greeting
  <2> QED
    BY <2>9, <2>10 DEF ForwardedInOrder
<1> QED
  BY <1>1, <1>2, <1>3, ConnectionInvariant, PTL DEF Spec

\* A connect that failed leaves no connection behind: a status that is gone
\* stays gone, and only the cancel makes a caller fail (connect, cancel).
THEOREM FailedConnectIsGone == Spec => []FailedLeavesNone
<1>1. Init => FailedLeavesNone
  BY DEF Init, FailedLeavesNone
<1>2. FailedLeavesNone /\ [Next]_vars => FailedLeavesNone'
  <2> SUFFICES ASSUME FailedLeavesNone, [Next]_vars
               PROVE  FailedLeavesNone'
    OBVIOUS
  <2>1. CASE GuestSends
    <3>1. PICK h : Receive(h)
      BY <2>1, GuestSendsHeader
    <3>2. caller' = caller /\ status # "gone"
      BY <3>1 DEF Receive, ReceiveRst, ReceiveReset, ReceiveResponse,
                  ReceiveData, ReceiveCredit, ReceiveShutdown, Dropped, life
    <3> QED
      BY <3>2 DEF FailedLeavesNone
  <2>2. CASE Pump \/ PumpCancel \/ Wake \/ DeadlinePasses \/ GuestTakes
    BY <2>2 DEF Pump, PumpCancel, Dropped, Wake, DeadlinePasses, GuestTakes,
                life, FailedLeavesNone
  <2>3. CASE \/ FillRequest \/ FillShutdown \/ FillEof \/ FillError
             \/ FillControl \/ FillReset \/ FillData
    BY <2>3 DEF FillRequest, FillShutdown, FillEof, FillError, FillControl,
                FillReset, FillData, Dropped, life, FailedLeavesNone
  <2>4. CASE CallerAnswered \/ CallerTimesOut \/ CallerCancels \/ ClientStep
    BY <2>4 DEF CallerAnswered, CallerTimesOut, CallerCancels, ClientStep,
                ClientWrite, ClientRead, ClientCloses, life, FailedLeavesNone
  <2>5. CASE UNCHANGED vars
    BY <2>5 DEF vars, FailedLeavesNone
  <2> QED
    BY <2>1, <2>2, <2>3, <2>4, <2>5 DEF Next, DeviceStep, Fill
<1> QED
  BY <1>1, <1>2, PTL DEF Spec

----------------------------------------------------------------------------
(* What is on its way to the guest. *)

\* Induction up to n, over a set.
LEMMA UpTo ==
  ASSUME NEW n \in Nat, NEW T, 0 \in T, \A i \in 0 .. n - 1 : i \in T => i + 1 \in T
  PROVE  \A i \in 0 .. n : i \in T
<1> DEFINE Bad == {i \in Nat : i <= n /\ i \notin T}
<1> SUFFICES ASSUME Bad # {} PROVE FALSE
  OBVIOUS
<1>1. Bad \subseteq Nat
  OBVIOUS
<1>2. PICK i \in Bad : \A j \in Bad : ~(<<j, i>> \in OpToRel(<, Nat))
  BY <1>1, WFMin, NatLessThanWellFounded, Zenon
<1>3. i \in Nat /\ \A j \in Bad : ~(j < i)
  BY <1>1, <1>2 DEF OpToRel
<1>4. i # 0 /\ i <= n /\ i \notin T
  OBVIOUS
<1>5. i - 1 \in 0 .. n - 1 /\ i - 1 \notin Bad
  BY <1>3, <1>4
<1>6. i - 1 \in T
  BY <1>5
<1>7. (i - 1) + 1 \in T
  BY <1>5, <1>6
<1> QED
  BY <1>3, <1>4, <1>7

\* f joins the first elements of s, one more at a time.
Joins(f, s, n) ==
  /\ DOMAIN f = 0 .. n /\ f[0] = <<>>
  /\ \A i \in 1 .. n : f[i] = f[i - 1] \o s[i]

LEMMA JoinsType ==
  ASSUME NEW S, NEW s \in Seq(Seq(S)), NEW f, Joins(f, s, Len(s))
  PROVE  \A i \in 0 .. Len(s) : f[i] \in Seq(S)
<1> DEFINE T == {i \in Nat : f[i] \in Seq(S)}
<1>1. Len(s) \in Nat /\ \A i \in 1 .. Len(s) : s[i] \in Seq(S)
  BY LenProperties, ElementOfSeq
<1>2. 0 \in T
  BY DEF Joins
<1>3. ASSUME NEW i \in 0 .. Len(s) - 1, i \in T PROVE i + 1 \in T
  <2>1. i + 1 \in 1 .. Len(s) /\ (i + 1) - 1 = i
    BY <1>1
  <2>2. f[i + 1] = f[i] \o s[i + 1]
    BY <2>1 DEF Joins
  <2>3. f[i] \in Seq(S) /\ s[i + 1] \in Seq(S)
    BY <1>1, <1>3, <2>1
  <2>4. f[i] \o s[i + 1] \in Seq(S)
    BY <2>3, ConcatProperties
  <2>5. i + 1 \in Nat
    BY <2>1
  <2> QED
    BY <2>2, <2>4, <2>5
<1> HIDE DEF T
<1>4. \A i \in 0 .. Len(s) : i \in T
  BY <1>1, <1>2, <1>3, UpTo
<1> QED
  BY <1>4 DEF T

LEMMA JoinsExists ==
  ASSUME NEW S, NEW s \in Seq(Seq(S))
  PROVE  \E f : Joins(f, s, Len(s)) /\ f = [i \in 0 .. Len(s) |->
                  IF i = 0 THEN <<>> ELSE f[i - 1] \o s[i]]
<1> DEFINE T == {n \in Nat : \E f : Joins(f, s, n)}
<1>1. Len(s) \in Nat
  BY LenProperties
<1>2. 0 \in T
  <2>1. Joins([i \in 0 .. 0 |-> <<>>], s, 0)
    BY DEF Joins
  <2> QED
    BY <2>1
<1>3. ASSUME NEW n \in 0 .. Len(s) - 1, n \in T PROVE n + 1 \in T
  <2>1. PICK f : Joins(f, s, n)
    BY <1>3
  <2> DEFINE g == [i \in 0 .. n + 1 |-> IF i = n + 1 THEN f[n] \o s[n + 1] ELSE f[i]]
  <2>2. DOMAIN g = 0 .. n + 1 /\ g[0] = <<>>
    BY <2>1 DEF Joins
  <2>3. ASSUME NEW i \in 1 .. n + 1 PROVE g[i] = g[i - 1] \o s[i]
    <3>1. CASE i = n + 1
      <4>1. i \in 0 .. n + 1 /\ i - 1 = n /\ n \in 0 .. n + 1 /\ n # n + 1
        BY <3>1
      <4>2. g[i] = f[n] \o s[n + 1] /\ g[n] = f[n]
        BY <3>1, <4>1
      <4> HIDE DEF g
      <4> QED
        BY <3>1, <4>1, <4>2
    <3>2. CASE i # n + 1
      <4>1. i \in 1 .. n /\ i - 1 # n + 1 /\ i - 1 \in 0 .. n + 1
        BY <3>2
      <4>2. f[i] = f[i - 1] \o s[i]
        BY <2>1, <4>1 DEF Joins
      <4>3. i \in 0 .. n + 1 /\ g[i] = f[i]
        BY <3>2
      <4>4. g[i - 1] = f[i - 1]
        BY <4>1
      <4> QED
        BY <4>2, <4>3, <4>4
    <3> QED
      BY <3>1, <3>2
  <2>4. Joins(g, s, n + 1)
    BY <2>2, <2>3 DEF Joins
  <2> QED
    BY <2>4
<1> HIDE DEF T
<1>4. Len(s) \in T
  <2>1. \A i \in 0 .. Len(s) : i \in T
    BY <1>1, <1>2, <1>3, UpTo
  <2> QED
    BY <1>1, <2>1
<1>5. PICK f0 : Joins(f0, s, Len(s))
  BY <1>4 DEF T
<1> DEFINE f == [i \in 0 .. Len(s) |-> f0[i]]
<1>6. f = [i \in 0 .. Len(s) |-> IF i = 0 THEN <<>> ELSE f[i - 1] \o s[i]]
  <2> SUFFICES ASSUME NEW i \in 0 .. Len(s)
               PROVE  f[i] = IF i = 0 THEN <<>> ELSE f[i - 1] \o s[i]
    OBVIOUS
  <2>1. CASE i = 0
    BY <1>5, <2>1 DEF Joins
  <2>2. CASE i # 0
    <3>1. i \in 1 .. Len(s) /\ i - 1 \in 0 .. Len(s)
      BY <1>1, <2>2
    <3> QED
      BY <1>5, <2>2, <3>1 DEF Joins
  <2> QED
    BY <2>1, <2>2
<1>7. Joins(f, s, Len(s))
  <2>1. ASSUME NEW i \in 1 .. Len(s) PROVE i - 1 \in 0 .. Len(s)
    BY <1>1
  <2> QED
    BY <1>1, <1>5, <2>1 DEF Joins
<1> QED
  BY <1>6, <1>7

\* What Joined computes: its recursion has a solution, so it is one.
LEMMA JoinedIs ==
  ASSUME NEW S, NEW s \in Seq(Seq(S))
  PROVE  \E f : Joins(f, s, Len(s)) /\ Joined(s) = f[Len(s)]
<1> DEFINE F == CHOOSE f : f = [i \in 0 .. Len(s) |->
                              IF i = 0 THEN <<>> ELSE f[i - 1] \o s[i]]
<1>1. F = [i \in 0 .. Len(s) |-> IF i = 0 THEN <<>> ELSE F[i - 1] \o s[i]]
  BY JoinsExists, Zenon
<1>2. Joined(s) = F[Len(s)]
  BY DEF Joined
<1> HIDE DEF F
<1>3. Len(s) \in Nat
  BY LenProperties
<1>4. Joins(F, s, Len(s))
  <2>1. DOMAIN F = 0 .. Len(s)
    BY <1>1
  <2>2. \A i \in 0 .. Len(s) : F[i] = IF i = 0 THEN <<>> ELSE F[i - 1] \o s[i]
    BY <1>1
  <2>3. F[0] = <<>>
    BY <1>3, <2>2
  <2>4. ASSUME NEW i \in 1 .. Len(s) PROVE F[i] = F[i - 1] \o s[i]
    <3>1. i \in 0 .. Len(s) /\ i # 0
      BY <1>3
    <3> QED
      BY <2>2, <3>1
  <2> QED
    BY <2>1, <2>3, <2>4 DEF Joins
<1> QED
  BY <1>2, <1>4

\* One payload more.
LEMMA OneMore ==
  ASSUME NEW i \in Nat, NEW k \in Nat, NEW a \in Nat, NEW b \in Nat,
         a <= i * k, b <= k
  PROVE  a + b <= (i + 1) * k
<1>1. PICK p \in Nat : p = i * k
  OBVIOUS
<1>2. (i + 1) * k = p + k
  BY <1>1
<1>3. a + b <= p + k
  <2>1. a <= p
    BY <1>1
  <2> QED
    BY <2>1
<1> QED
  BY <1>2, <1>3, Zenon

\* The payloads are bytes, and no payloads hold none.
LEMMA JoinedType ==
  ASSUME NEW S, NEW s \in Seq(Seq(S))
  PROVE  Joined(s) \in Seq(S) /\ (Len(s) = 0 => Joined(s) = <<>>)
<1>1. PICK f : Joins(f, s, Len(s)) /\ Joined(s) = f[Len(s)]
  BY JoinedIs
<1>2. Len(s) \in Nat
  BY LenProperties
<1>3. f[Len(s)] \in Seq(S)
  BY <1>1, <1>2, JoinsType
<1> QED
  BY <1>1, <1>3 DEF Joins

\* Payloads put behind others are joined behind them.
LEMMA JoinedConcat ==
  ASSUME NEW S, NEW s \in Seq(Seq(S)), NEW t \in Seq(Seq(S))
  PROVE  Joined(s \o t) = Joined(s) \o Joined(t)
<1> DEFINE m == Len(s)
           n == Len(t)
<1>1. /\ m \in Nat /\ n \in Nat /\ s \o t \in Seq(Seq(S)) /\ Len(s \o t) = m + n
      /\ \A i \in 1 .. m + n : (s \o t)[i] = IF i <= m THEN s[i] ELSE t[i - m]
  BY LenProperties, ConcatProperties
<1>2. PICK f : Joins(f, s, m) /\ Joined(s) = f[m]
  BY JoinedIs
<1>3. PICK g : Joins(g, t, n) /\ Joined(t) = g[n]
  BY JoinedIs
<1>4. PICK h : Joins(h, s \o t, m + n) /\ Joined(s \o t) = h[m + n]
  <2>1. \E h : Joins(h, s \o t, Len(s \o t)) /\ Joined(s \o t) = h[Len(s \o t)]
    BY <1>1, JoinedIs
  <2> QED
    BY <1>1, <2>1
<1>5. /\ \A i \in 0 .. m : f[i] \in Seq(S)
      /\ \A i \in 0 .. n : g[i] \in Seq(S)
  BY <1>2, <1>3, JoinsType
<1>6. \A i \in 1 .. n : t[i] \in Seq(S)
  BY ElementOfSeq
<1> HIDE DEF m, n
<1>7. h[m] = f[m]
  <2> DEFINE T == {i \in Nat : h[i] = f[i]}
  <2>1. 0 \in T
    BY <1>2, <1>4 DEF Joins
  <2>2. ASSUME NEW i \in 0 .. m - 1, i \in T PROVE i + 1 \in T
    <3>1. i + 1 \in 1 .. m /\ i + 1 \in 1 .. m + n /\ (i + 1) - 1 = i /\ i + 1 \in Nat
      BY <1>1
    <3>2. f[i + 1] = f[i] \o s[i + 1]
      BY <1>2, <3>1 DEF Joins
    <3>3. h[i + 1] = h[i] \o (s \o t)[i + 1]
      BY <1>4, <3>1 DEF Joins
    <3>4. (s \o t)[i + 1] = s[i + 1]
      BY <1>1, <3>1
    <3> QED
      BY <2>2, <3>1, <3>2, <3>3, <3>4
  <2> HIDE DEF T
  <2>3. \A i \in 0 .. m : i \in T
    BY <1>1, <2>1, <2>2, UpTo
  <2>4. m \in T
    BY <1>1, <2>3
  <2> QED
    BY <2>4 DEF T
<1>8. h[m + n] = f[m] \o g[n]
  <2> DEFINE T == {i \in Nat : h[m + i] = f[m] \o g[i]}
  <2>1. 0 \in T
    <3>1. f[m] \in Seq(S) /\ m + 0 = m
      BY <1>1, <1>5
    <3>2. g[0] = <<>>
      BY <1>3 DEF Joins
    <3>3. f[m] \o <<>> = f[m]
      BY <3>1, ConcatEmptySeq
    <3> QED
      BY <1>7, <3>1, <3>2, <3>3
  <2>2. ASSUME NEW i \in 0 .. n - 1, i \in T PROVE i + 1 \in T
    <3>1. /\ i + 1 \in 1 .. n /\ m + i + 1 \in 1 .. m + n /\ (i + 1) - 1 = i
          /\ (m + i + 1) - 1 = m + i /\ i + 1 \in Nat /\ m + (i + 1) = m + i + 1
          /\ (m + i + 1) - m = i + 1 /\ ~(m + i + 1 <= m) /\ i \in 0 .. n /\ m \in 0 .. m
      BY <1>1
    <3>2. g[i + 1] = g[i] \o t[i + 1]
      BY <1>3, <3>1 DEF Joins
    <3>3. h[m + i + 1] = h[m + i] \o (s \o t)[m + i + 1]
      BY <1>4, <3>1 DEF Joins
    <3>4. (s \o t)[m + i + 1] = t[i + 1]
      BY <1>1, <3>1
    <3>5. f[m] \in Seq(S) /\ g[i] \in Seq(S) /\ t[i + 1] \in Seq(S)
      BY <1>5, <1>6, <3>1
    <3>6. (f[m] \o g[i]) \o t[i + 1] = f[m] \o (g[i] \o t[i + 1])
      <4>1. \A a, b, c \in Seq(S) : (a \o b) \o c = a \o (b \o c)
        BY ConcatAssociative, SMTT(30)
      <4> QED
        BY <3>5, <4>1, Zenon
    <3>7. h[m + i] = f[m] \o g[i]
      BY <2>2
    <3>8. h[m + i + 1] = f[m] \o g[i + 1]
      BY <3>2, <3>3, <3>4, <3>6, <3>7
    <3> QED
      BY <3>1, <3>8
  <2> HIDE DEF T
  <2>3. \A i \in 0 .. n : i \in T
    BY <1>1, <2>1, <2>2, UpTo
  <2>4. n \in T
    BY <1>1, <2>3
  <2> QED
    BY <2>4 DEF T
<1> QED
  BY <1>2, <1>3, <1>4, <1>8

\* One payload is itself.
LEMMA JoinedOne ==
  ASSUME NEW S, NEW x \in Seq(S)
  PROVE  Joined(<<x>>) = x
<1>1. <<x>> \in Seq(Seq(S)) /\ Len(<<x>>) = 1 /\ <<x>>[1] = x
  OBVIOUS
<1>2. PICK f : Joins(f, <<x>>, 1) /\ Joined(<<x>>) = f[1]
  <2>1. \E f : Joins(f, <<x>>, Len(<<x>>)) /\ Joined(<<x>>) = f[Len(<<x>>)]
    BY <1>1, JoinedIs
  <2> QED
    BY <1>1, <2>1
<1>3. f[0] = <<>> /\ f[1] = f[0] \o <<x>>[1]
  BY <1>2 DEF Joins
<1>4. <<>> \o x = x
  BY ConcatEmptySeq
<1> QED
  BY <1>1, <1>2, <1>3, <1>4

\* Payloads of at most k bytes each hold at most k times as many.
LEMMA JoinedLen ==
  ASSUME NEW S, NEW s \in Seq(Seq(S)), NEW k \in Nat,
         \A i \in 1 .. Len(s) : Len(s[i]) <= k
  PROVE  Len(Joined(s)) <= Len(s) * k
<1>1. PICK f : Joins(f, s, Len(s)) /\ Joined(s) = f[Len(s)]
  BY JoinedIs
<1>2. Len(s) \in Nat /\ \A i \in 1 .. Len(s) : s[i] \in Seq(S)
  BY LenProperties, ElementOfSeq
<1>3. \A i \in 0 .. Len(s) : f[i] \in Seq(S)
  BY <1>1, JoinsType
<1> DEFINE T == {i \in Nat : Len(f[i]) <= i * k}
<1>4. 0 \in T
  <2>1. f[0] = <<>> /\ Len(<<>>) = 0 /\ 0 * k = 0
    BY <1>1 DEF Joins
  <2> QED
    BY <2>1
<1>5. ASSUME NEW i \in 0 .. Len(s) - 1, i \in T PROVE i + 1 \in T
  <2>1. i + 1 \in 1 .. Len(s) /\ (i + 1) - 1 = i /\ i \in 0 .. Len(s) /\ i + 1 \in Nat
    BY <1>2
  <2>2. f[i + 1] = f[i] \o s[i + 1]
    BY <1>1, <2>1 DEF Joins
  <2>3. f[i] \in Seq(S) /\ s[i + 1] \in Seq(S)
    BY <1>2, <1>3, <2>1
  <2>4. Len(f[i + 1]) = Len(f[i]) + Len(s[i + 1])
    BY <2>2, <2>3, ConcatProperties
  <2>5. Len(f[i]) <= i * k /\ Len(s[i + 1]) <= k
    BY <1>5, <2>1
  <2>6. Len(f[i]) \in Nat /\ Len(s[i + 1]) \in Nat
    BY <2>3, LenProperties
  <2>7. i \in Nat
    BY <1>2
  <2>8. Len(f[i]) + Len(s[i + 1]) <= (i + 1) * k
    BY <2>5, <2>6, <2>7, OneMore, Zenon
  <2> QED
    BY <2>1, <2>4, <2>8
<1> HIDE DEF T
<1>6. \A i \in 0 .. Len(s) : i \in T
  BY <1>2, <1>4, <1>5, UpTo
<1>7. Len(s) \in T
  BY <1>2, <1>6
<1> QED
  BY <1>1, <1>7 DEF T

\* Two neighbouring stretches of a sequence make one.
LEMMA StretchesJoin ==
  ASSUME NEW S, NEW s \in Seq(S), NEW a \in Nat, NEW b \in Nat, a <= b, b <= Len(s)
  PROVE  /\ SubSeq(s, a + 1, b) \in Seq(S) /\ Len(SubSeq(s, a + 1, b)) = b - a
         /\ SubSeq(s, 1, b) \in Seq(S) /\ Len(SubSeq(s, 1, b)) = b
         /\ SubSeq(s, 1, a) \o SubSeq(s, a + 1, b) = SubSeq(s, 1, b)
<1>1. Len(s) \in Nat /\ \A i \in 1 .. Len(s) : s[i] \in S
  BY LenProperties, ElementOfSeq
<1>2. ASSUME NEW c \in Nat, NEW d \in Nat, c <= d, d <= Len(s)
      PROVE  /\ SubSeq(s, c + 1, d) \in Seq(S) /\ Len(SubSeq(s, c + 1, d)) = d - c
             /\ \A i \in 1 .. d - c : SubSeq(s, c + 1, d)[i] = s[c + i]
  <2>1. \A i \in c + 1 .. d : s[i] \in S
    BY <1>1, <1>2
  <2>2. /\ SubSeq(s, c + 1, d) \in Seq(S)
        /\ Len(SubSeq(s, c + 1, d)) = IF c + 1 <= d THEN d - (c + 1) + 1 ELSE 0
        /\ \A i \in 1 .. d - (c + 1) + 1 : SubSeq(s, c + 1, d)[i] = s[c + 1 + i - 1]
    BY <2>1, SubSeqProperties, c + 1 \in Int, d \in Int
  <2>3. Len(SubSeq(s, c + 1, d)) = d - c
    BY <1>2, <2>2
  <2>4. ASSUME NEW i \in 1 .. d - c PROVE SubSeq(s, c + 1, d)[i] = s[c + i]
    <3>1. i \in 1 .. d - (c + 1) + 1 /\ c + 1 + i - 1 = c + i
      OBVIOUS
    <3> QED
      BY <2>2, <3>1
  <2> QED
    BY <2>2, <2>3, <2>4
<1> DEFINE x == SubSeq(s, 1, a)
           y == SubSeq(s, a + 1, b)
           z == SubSeq(s, 1, b)
<1>3. y \in Seq(S) /\ Len(y) = b - a /\ \A i \in 1 .. b - a : y[i] = s[a + i]
  BY <1>2
<1>4. z \in Seq(S) /\ Len(z) = b /\ \A i \in 1 .. b : z[i] = s[i]
  <2>1. 0 \in Nat /\ 0 <= b /\ b - 0 = b /\ 0 + 1 = 1 /\ \A i \in 1 .. b : 0 + i = i
    OBVIOUS
  <2>2. /\ SubSeq(s, 0 + 1, b) \in Seq(S) /\ Len(SubSeq(s, 0 + 1, b)) = b - 0
        /\ \A i \in 1 .. b - 0 : SubSeq(s, 0 + 1, b)[i] = s[0 + i]
    BY <1>2, <2>1, Zenon
  <2> QED
    BY <2>1, <2>2
<1>5. x \in Seq(S) /\ Len(x) = a /\ \A i \in 1 .. a : x[i] = s[i]
  <2>1. 0 \in Nat /\ 0 <= a /\ a <= Len(s) /\ a - 0 = a /\ 0 + 1 = 1 /\ \A i \in 1 .. a : 0 + i = i
    BY <1>1
  <2>2. /\ SubSeq(s, 0 + 1, a) \in Seq(S) /\ Len(SubSeq(s, 0 + 1, a)) = a - 0
        /\ \A i \in 1 .. a - 0 : SubSeq(s, 0 + 1, a)[i] = s[0 + i]
    BY <1>2, <2>1, Zenon
  <2> QED
    BY <2>1, <2>2
<1> HIDE DEF x, y, z
<1>6. /\ x \o y \in Seq(S) /\ Len(x \o y) = b
      /\ \A i \in 1 .. b : (x \o y)[i] = IF i <= a THEN x[i] ELSE y[i - a]
  <2>1. Len(x) + Len(y) = b
    BY <1>3, <1>5
  <2>2. /\ x \o y \in Seq(S) /\ Len(x \o y) = Len(x) + Len(y)
        /\ \A i \in 1 .. Len(x) + Len(y) :
             (x \o y)[i] = IF i <= Len(x) THEN x[i] ELSE y[i - Len(x)]
    <3>1. x \in Seq(S) /\ y \in Seq(S)
      BY <1>3, <1>5
    <3> QED
      BY <3>1, ConcatProperties, SMTT(30)
  <2> QED
    BY <1>5, <2>1, <2>2, Zenon
<1>7. ASSUME NEW i \in 1 .. b PROVE (x \o y)[i] = z[i]
  <2>1. CASE i <= a
    BY <1>4, <1>5, <1>6, <2>1
  <2>2. CASE ~(i <= a)
    <3>1. i - a \in 1 .. b - a /\ a + (i - a) = i
      BY <2>2
    <3> QED
      BY <1>3, <1>4, <1>6, <2>2, <3>1
  <2> QED
    BY <2>1, <2>2
<1>8. x \o y = z
  BY <1>4, <1>6, <1>7, SeqEqual
<1> QED
  BY <1>3, <1>4, <1>8 DEF x, y, z

\* One read of the socket, cut into pieces of the room of an rx buffer.
Pieces(s, used, n) ==
  [i \in 1 .. used |-> SubSeq(s, (i - 1) * RxRoom + 1, Least(i * RxRoom, n))]

\* Where a piece that is not the first of a read begins.
LEMMA PieceBegins ==
  ASSUME NEW used \in Nat, NEW n \in Nat, NEW i \in Nat, i < used,
         (used - 1) * RxRoom < n
  PROVE  i * RxRoom \in Nat /\ i * RxRoom <= n /\ (i + 1) * RxRoom = i * RxRoom + RxRoom
<1>1. RxRoom \in Nat
  BY SizesAssumption
<1>2. i * RxRoom \in Nat /\ (i + 1) * RxRoom = i * RxRoom + RxRoom
  BY <1>1
<1>3. PICK d \in Nat : used - 1 = i + d
  <2>1. used - 1 - i \in Nat /\ used - 1 = i + (used - 1 - i)
    OBVIOUS
  <2> QED
    BY <2>1
<1>4. (i + d) * RxRoom = i * RxRoom + d * RxRoom /\ d * RxRoom \in Nat
  BY <1>1
<1>5. i * RxRoom + d * RxRoom < n
  BY <1>3, <1>4, Zenon
<1>6. PICK p \in Nat, q \in Nat : p = i * RxRoom /\ q = d * RxRoom
  BY <1>2, <1>4, Zenon
<1>7. p + q < n
  BY <1>5, <1>6, Zenon
<1>8. p <= n
  BY <1>7
<1> QED
  BY <1>2, <1>6, <1>8, Zenon

\* The pieces of a read are what was read, none longer than its buffer.
LEMMA PiecesJoin ==
  ASSUME NEW S, NEW s \in Seq(S), NEW n \in 1 .. Len(s), NEW used \in Nat \ {0},
         (used - 1) * RxRoom < n, n <= used * RxRoom
  PROVE  /\ Pieces(s, used, n) \in Seq(Seq(S)) /\ Len(Pieces(s, used, n)) = used
         /\ \A i \in 1 .. used : Len(Pieces(s, used, n)[i]) <= RxRoom
         /\ Joined(Pieces(s, used, n)) = SubSeq(s, 1, n)
<1> DEFINE P == Pieces(s, used, n)
           Upto(i) == Least(i * RxRoom, n)
<1>0. RxRoom \in Nat /\ RxRoom # 0 /\ n \in Nat /\ n # 0 /\ Len(s) \in Nat /\ n <= Len(s)
  BY SizesAssumption, LenProperties
<1>1. ASSUME NEW i \in Nat, i < used
      PROVE  /\ Upto(i) = i * RxRoom /\ i * RxRoom \in Nat
             /\ Upto(i + 1) \in Nat /\ i * RxRoom <= Upto(i + 1)
             /\ Upto(i + 1) <= n /\ Upto(i + 1) - i * RxRoom <= RxRoom
  <2>1. i * RxRoom \in Nat /\ i * RxRoom <= n /\ (i + 1) * RxRoom = i * RxRoom + RxRoom
    BY <1>0, <1>1, PieceBegins
  <2>2. PICK p \in Nat : p = i * RxRoom
    BY <2>1
  <2>3. PICK q \in Nat : q = (i + 1) * RxRoom /\ q = p + RxRoom /\ p <= n
    <3>1. p + RxRoom \in Nat
      BY <1>0
    <3> QED
      BY <2>1, <2>2, <3>1, Zenon
  <2>4. /\ Least(p, n) = p /\ Least(q, n) \in Nat /\ p <= Least(q, n)
        /\ Least(q, n) <= n /\ Least(q, n) - p <= RxRoom
    BY <1>0, <2>3 DEF Least
  <2> QED
    BY <2>2, <2>3, <2>4, Zenon
<1>2. ASSUME NEW i \in Nat, i < used
      PROVE  /\ P[i + 1] = SubSeq(s, Upto(i) + 1, Upto(i + 1))
             /\ P[i + 1] \in Seq(S) /\ Len(P[i + 1]) <= RxRoom
             /\ SubSeq(s, 1, Upto(i)) \o P[i + 1] = SubSeq(s, 1, Upto(i + 1))
  <2>1. i + 1 \in 1 .. used /\ (i + 1) - 1 = i
    BY <1>2
  <2>2. P[i + 1] = SubSeq(s, i * RxRoom + 1, Upto(i + 1))
    BY <2>1 DEF Pieces
  <2>3. PICK a \in Nat, b \in Nat : /\ a = i * RxRoom /\ b = Upto(i + 1) /\ a = Upto(i)
                                    /\ a <= b /\ b <= n /\ b - a <= RxRoom
    BY <1>1, <1>2
  <2>4. a <= b /\ b <= Len(s)
    BY <1>0, <2>3
  <2>5. /\ SubSeq(s, a + 1, b) \in Seq(S) /\ Len(SubSeq(s, a + 1, b)) = b - a
        /\ SubSeq(s, 1, a) \o SubSeq(s, a + 1, b) = SubSeq(s, 1, b)
    BY <2>4, StretchesJoin
  <2>6. P[i + 1] = SubSeq(s, a + 1, b)
    BY <2>2, <2>3, Zenon
  <2> HIDE DEF P, Upto
  <2> QED
    BY <2>3, <2>5, <2>6
<1>3. ASSUME NEW i \in 1 .. used PROVE P[i] \in Seq(S) /\ Len(P[i]) <= RxRoom
  <2>1. PICK j \in Nat : j < used /\ i = j + 1
    <3>1. i - 1 \in Nat /\ i - 1 < used /\ i = (i - 1) + 1
      OBVIOUS
    <3> QED
      BY <3>1
  <2> HIDE DEF P, Upto
  <2> QED
    BY <1>2, <2>1
<1>4. P \in Seq(Seq(S)) /\ Len(P) = used
  <2>1. DOMAIN P = 1 .. used
    BY DEF Pieces
  <2>2. P \in [1 .. used -> Seq(S)]
    BY <1>3, <2>1 DEF Pieces
  <2> HIDE DEF P
  <2> QED
    BY <2>2
<1> HIDE DEF P, Upto
<1>5. PICK f : Joins(f, P, used) /\ Joined(P) = f[used]
  <2>1. \E f : Joins(f, P, Len(P)) /\ Joined(P) = f[Len(P)]
    BY <1>4, JoinedIs
  <2> QED
    BY <1>4, <2>1
<1>6. f[used] = SubSeq(s, 1, Upto(used))
  <2> DEFINE T == {i \in Nat : f[i] = SubSeq(s, 1, Upto(i))}
  <2>1. 0 \in T
    <3>1. Upto(0) = 0
      <4>1. 0 * RxRoom = 0
        BY <1>0
      <4> QED
        BY <1>0, <4>1 DEF Upto, Least
    <3>2. SubSeq(s, 1, 0) = <<>>
      OBVIOUS
    <3> QED
      BY <1>5, <3>1, <3>2 DEF Joins
  <2>2. ASSUME NEW i \in 0 .. used - 1, i \in T PROVE i + 1 \in T
    <3>1. i \in Nat /\ i < used /\ i + 1 \in 1 .. used /\ (i + 1) - 1 = i /\ i + 1 \in Nat
      OBVIOUS
    <3>2. f[i + 1] = f[i] \o P[i + 1]
      BY <1>5, <3>1 DEF Joins
    <3>3. SubSeq(s, 1, Upto(i)) \o P[i + 1] = SubSeq(s, 1, Upto(i + 1))
      BY <1>2, <3>1
    <3>4. f[i] = SubSeq(s, 1, Upto(i))
      BY <2>2
    <3> QED
      BY <3>1, <3>2, <3>3, <3>4
  <2> HIDE DEF T
  <2>3. \A i \in 0 .. used : i \in T
    BY <2>1, <2>2, UpTo
  <2>4. used \in T
    BY <2>3
  <2> QED
    BY <2>4 DEF T
<1>7. Upto(used) = n
  <2>1. PICK p : p = used * RxRoom
    OBVIOUS
  <2>2. n <= p /\ p \in Nat
    BY <1>0, <2>1
  <2> QED
    BY <1>0, <2>1, <2>2 DEF Upto, Least
<1> QED
  BY <1>3, <1>4, <1>5, <1>6, <1>7 DEF P

----------------------------------------------------------------------------
\* Bytes j in flight and s behind them, of a stream of which k have left: each
\* is named by its place.
Counted(j, s, k) ==
  /\ \A i \in 1 .. Len(j) : j[i] = wrapping_add(wrapping_sub(k, Len(j)), i - 1)
  /\ \A i \in 1 .. Len(s) : s[i] = wrapping_add(k, i - 1)

\* The place of a byte behind those in flight.
LEMMA PlaceBehind ==
  ASSUME NEW k \in Counter, NEW l \in 0 .. W, NEW i \in Nat, l <= i, i <= W
  PROVE  wrapping_add(k, i - l) = wrapping_add(wrapping_sub(k, l), i)
BY SizesAssumption DEF Counter, wrapping_add, wrapping_sub

\* The place of a byte in flight is its own, however many are ahead of it.
LEMMA PlaceKept ==
  ASSUME NEW k \in Counter, NEW a \in Nat, NEW l \in Nat, a + l <= W, NEW i \in 1 .. l
  PROVE  wrapping_add(wrapping_sub(k, a + l), (a + i) - 1)
           = wrapping_add(wrapping_sub(k, l), i - 1)
BY SizesAssumption DEF Counter, wrapping_add, wrapping_sub

\* The client writes the next byte of the stream.
LEMMA CountedWrite ==
  ASSUME NEW j \in Seq(Counter), NEW s \in Seq(Counter), NEW k \in Counter,
         Counted(j, s, k), NEW x \in Counter, x = wrapping_add(k, Len(s))
  PROVE  Counted(j, Append(s, x), k)
<1>1. /\ Len(s) \in Nat /\ Len(Append(s, x)) = Len(s) + 1
      /\ \A i \in 1 .. Len(s) : Append(s, x)[i] = s[i]
      /\ Append(s, x)[Len(s) + 1] = x
  BY LenProperties, AppendProperties
<1>2. ASSUME NEW i \in 1 .. Len(s) + 1
      PROVE  Append(s, x)[i] = wrapping_add(k, i - 1)
  <2>1. CASE i \in 1 .. Len(s)
    BY <1>1, <2>1 DEF Counted
  <2>2. CASE i = Len(s) + 1
    <3>1. i - 1 = Len(s)
      BY <1>1, <2>2
    <3> QED
      BY <1>1, <2>2, <3>1
  <2> QED
    BY <1>1, <2>1, <2>2
<1> QED
  BY <1>1, <1>2 DEF Counted

\* The device reads n bytes of the socket into rx buffers.
LEMMA CountedRead ==
  ASSUME NEW j \in Seq(Counter), NEW s \in Seq(Counter), NEW k \in Counter,
         Counted(j, s, k), NEW n \in 0 .. Len(s), n < W, Len(j) + n <= W
  PROVE  Counted(j \o Take(s, n), Drop(s, n), wrapping_add(k, n))
<1> DEFINE t == Take(s, n)
           d == Drop(s, n)
           m == wrapping_add(k, n)
<1>1. Len(j) \in Nat /\ Len(s) \in Nat /\ n \in Nat
  BY LenProperties
<1>2. /\ t \in Seq(Counter) /\ Len(t) = n /\ \A i \in 1 .. n : t[i] = s[i]
      /\ d \in Seq(Counter) /\ Len(d) = Len(s) - n
      /\ \A i \in 1 .. Len(s) - n : d[i] = s[n + i]
  BY TakeDrop, TakeDropElements
<1> HIDE DEF t, d
<1>3. /\ j \o t \in Seq(Counter) /\ Len(j \o t) = Len(j) + n
      /\ \A i \in 1 .. Len(j) + n :
           (j \o t)[i] = IF i <= Len(j) THEN j[i] ELSE t[i - Len(j)]
  BY <1>2, ConcatProperties
<1>4. wrapping_sub(m, Len(j) + n) = wrapping_sub(k, Len(j))
  BY <1>1, SizesAssumption DEF Counter, wrapping_add, wrapping_sub
<1>5. ASSUME NEW i \in 1 .. Len(j) + n
      PROVE  (j \o t)[i] = wrapping_add(wrapping_sub(k, Len(j)), i - 1)
  <2>1. CASE i <= Len(j)
    <3>1. i \in 1 .. Len(j)
      BY <1>1, <2>1
    <3> QED
      BY <1>3, <2>1, <3>1 DEF Counted
  <2>2. CASE ~(i <= Len(j))
    <3>1. PICK q \in 1 .. n : q = i - Len(j)
      BY <1>1, <2>2
    <3>2. q \in 1 .. Len(s) /\ q - 1 = (i - 1) - Len(j)
      BY <1>1, <3>1
    <3>3. (j \o t)[i] = s[q]
      BY <1>2, <1>3, <2>2, <3>1
    <3>4. s[q] = wrapping_add(k, q - 1)
      BY <3>2 DEF Counted
    <3>5. /\ Len(j) \in 0 .. W /\ i - 1 \in Nat /\ Len(j) <= i - 1 /\ i - 1 <= W
      BY <1>1, <2>2, SizesAssumption
    <3>6. wrapping_add(k, (i - 1) - Len(j))
            = wrapping_add(wrapping_sub(k, Len(j)), i - 1)
      BY <3>5, PlaceBehind
    <3> QED
      BY <3>2, <3>3, <3>4, <3>6
  <2> QED
    BY <2>1, <2>2
<1>6. ASSUME NEW i \in 1 .. Len(d) PROVE d[i] = wrapping_add(m, i - 1)
  <2>1. i \in 1 .. Len(s) - n /\ n + i \in 1 .. Len(s) /\ n + i - 1 \in Nat
    BY <1>1, <1>2
  <2>2. d[i] = s[n + i] /\ s[n + i] = wrapping_add(k, n + i - 1)
    BY <1>2, <2>1 DEF Counted
  <2>3. s[n + i] \in Counter
    BY <2>1, ElementOfSeq
  <2>4. wrapping_add(k, n + i - 1) = wrapping_add(m, i - 1)
    BY <1>1, <2>1, <2>2, <2>3, SizesAssumption DEF Counter, wrapping_add
  <2> QED
    BY <2>2, <2>4
<1> HIDE DEF m
<1>7. Counted(j \o t, d, m)
  BY <1>3, <1>4, <1>5, <1>6 DEF Counted
<1> QED
  BY <1>7 DEF t, d, m

\* The guest takes a payload.
LEMMA CountedTaken ==
  ASSUME NEW h \in Seq(Counter), NEW j \in Seq(Counter), NEW s, NEW k \in Counter,
         Counted(h \o j, s, k), Len(h) + Len(j) <= W
  PROVE  Counted(j, s, k)
<1>1. /\ Len(h) \in Nat /\ Len(j) \in Nat /\ Len(h \o j) = Len(h) + Len(j)
      /\ \A i \in 1 .. Len(h) + Len(j) :
           (h \o j)[i] = IF i <= Len(h) THEN h[i] ELSE j[i - Len(h)]
  BY LenProperties, ConcatProperties
<1>2. ASSUME NEW i \in 1 .. Len(j)
      PROVE  j[i] = wrapping_add(wrapping_sub(k, Len(j)), i - 1)
  <2>1. PICK q \in 1 .. Len(h) + Len(j) : q = Len(h) + i /\ ~(q <= Len(h))
    BY <1>1
  <2>2. q - Len(h) = i
    BY <1>1, <2>1
  <2>3. j[i] = (h \o j)[q]
    <3>1. (h \o j)[q] = IF q <= Len(h) THEN h[q] ELSE j[q - Len(h)]
      BY <1>1
    <3> QED
      BY <2>1, <2>2, <3>1
  <2>4. (h \o j)[q] = wrapping_add(wrapping_sub(k, Len(h) + Len(j)), q - 1)
    BY <1>1 DEF Counted
  <2>5. wrapping_add(wrapping_sub(k, Len(h) + Len(j)), q - 1)
          = wrapping_add(wrapping_sub(k, Len(j)), i - 1)
    <3>1. wrapping_add(wrapping_sub(k, Len(h) + Len(j)), (Len(h) + i) - 1)
            = wrapping_add(wrapping_sub(k, Len(j)), i - 1)
      BY <1>1, PlaceKept, Zenon
    <3> QED
      BY <2>1, <3>1, Zenon
  <2> QED
    BY <2>3, <2>4, <2>5
<1> QED
  BY <1>2 DEF Counted

\* Named by their places, the bytes are those of the stream.
LEMMA CountedBytes ==
  ASSUME NEW j \in Seq(Counter), NEW s \in Seq(Counter), NEW k \in Counter,
         Counted(j, s, k), Len(j) <= W, Len(j) + Len(s) <= W + 1
  PROVE  j \o s = Bytes(wrapping_sub(k, Len(j)), Len(j \o s))
<1>1. /\ Len(j) \in Nat /\ Len(s) \in Nat /\ j \o s \in Seq(Counter)
      /\ Len(j \o s) = Len(j) + Len(s)
      /\ \A i \in 1 .. Len(j) + Len(s) :
           (j \o s)[i] = IF i <= Len(j) THEN j[i] ELSE s[i - Len(j)]
  BY LenProperties, ConcatProperties
<1>2. ASSUME NEW i \in 1 .. Len(j) + Len(s)
      PROVE  (j \o s)[i] = wrapping_add(wrapping_sub(k, Len(j)), i - 1)
  <2>1. CASE i <= Len(j)
    <3>1. i \in 1 .. Len(j)
      BY <1>1, <2>1
    <3> QED
      BY <1>1, <2>1, <3>1 DEF Counted
  <2>2. CASE ~(i <= Len(j))
    <3>1. PICK q \in 1 .. Len(s) : q = i - Len(j)
      BY <1>1, <2>2
    <3>2. q - 1 = (i - 1) - Len(j)
      BY <1>1, <3>1
    <3>3. (j \o s)[i] = s[q] /\ s[q] = wrapping_add(k, q - 1)
      BY <1>1, <2>2, <3>1 DEF Counted
    <3>4. Len(j) \in 0 .. W /\ i - 1 \in Nat /\ Len(j) <= i - 1 /\ i - 1 <= W
      BY <1>1, <2>2, SizesAssumption
    <3>5. wrapping_add(k, (i - 1) - Len(j))
            = wrapping_add(wrapping_sub(k, Len(j)), i - 1)
      BY <3>4, PlaceBehind
    <3> QED
      BY <3>2, <3>3, <3>5
  <2> QED
    BY <2>1, <2>2
<1> DEFINE c == j \o s
           b == Bytes(wrapping_sub(k, Len(j)), Len(c))
<1>3. DOMAIN b = 1 .. Len(c)
  BY DEF Bytes
<1>4. \A i \in 1 .. Len(c) : b[i] = wrapping_add(wrapping_sub(k, Len(j)), i - 1)
  BY DEF Bytes
<1>5. DOMAIN c = 1 .. Len(c) /\ c = [i \in DOMAIN c |-> c[i]]
  BY <1>1, LenProperties
<1>6. b = [i \in DOMAIN b |-> b[i]]
  BY DEF Bytes
<1>7. \A i \in 1 .. Len(c) : c[i] = wrapping_add(wrapping_sub(k, Len(j)), i - 1)
  BY <1>1, <1>2
<1> HIDE DEF b, c
<1>8. c = b
  BY <1>3, <1>4, <1>5, <1>6, <1>7
<1> QED
  BY <1>8 DEF b, c

\* No more payloads than buffers, none longer than its buffer, and each byte
\* on its way named by its place.
SentInv ==
  /\ Len(rx) <= RxBuffers /\ \A i \in 1 .. Len(rx) : Len(rx[i]) <= RxRoom
  /\ Len(fromHost) <= SendSize
  /\ status # "gone" => Counted(Joined(rx), fromHost, sent)

\* What so many buffers can hold fits the names of the bytes.
LEMMA InFlightFits ==
  ASSUME NEW s \in Seq(Seq(Counter)), Len(s) <= RxBuffers,
         \A i \in 1 .. Len(s) : Len(s[i]) <= RxRoom
  PROVE  /\ Joined(s) \in Seq(Counter) /\ Len(Joined(s)) \in Nat
         /\ Len(Joined(s)) <= W /\ Len(Joined(s)) + SendSize <= W + 1
<1>1. RxRoom \in Nat /\ RxBuffers \in Nat /\ W \in Nat /\ SendSize \in Nat
  BY SizesAssumption
<1>2. Len(Joined(s)) <= Len(s) * RxRoom
  BY <1>1, JoinedLen
<1>3. Joined(s) \in Seq(Counter)
  BY JoinedType
<1>4. Len(Joined(s)) \in Nat /\ Len(s) \in Nat
  BY <1>3, LenProperties
<1>5. PICK d \in Nat : RxBuffers = Len(s) + d
  <2>1. RxBuffers - Len(s) \in Nat /\ RxBuffers = Len(s) + (RxBuffers - Len(s))
    BY <1>1, <1>4
  <2> QED
    BY <2>1
<1>6. PICK p \in Nat, q \in Nat : /\ p = Len(s) * RxRoom /\ q = d * RxRoom
                                  /\ RxBuffers * RxRoom = p + q
  BY <1>1, <1>4, <1>5
<1>7. p + q <= W /\ p + q + SendSize <= W + 1
  BY <1>6, InFlightAssumption, Zenon
<1>8. Len(Joined(s)) <= p
  BY <1>2, <1>6, Zenon
<1> QED
  BY <1>1, <1>3, <1>4, <1>7, <1>8

\* A step that touches neither the buffers nor the client's bytes.
LEMMA SentKept ==
  ASSUME SentInv, UNCHANGED <<rx, fromHost, sent>>,
         status' # "gone" => status # "gone"
  PROVE  SentInv'
BY DEF SentInv

\* A connection that goes takes the client's bytes with it.
LEMMA SentGone ==
  ASSUME SentInv, status' = "gone", UNCHANGED rx, fromHost' = <<>>
  PROVE  SentInv'
<1>1. Len(fromHost') = 0 /\ SendSize \in Nat
  BY SizesAssumption
<1> QED
  BY <1>1 DEF SentInv

\* A packet without payload.
LEMMA SentControl ==
  ASSUME IndInv, SentInv, Len(rx) < RxBuffers, rx' = Append(rx, <<>>),
         UNCHANGED <<fromHost, sent>>, status' # "gone" => status # "gone"
  PROVE  SentInv'
<1>1. rx \in Seq(Seq(Counter)) /\ <<>> \in Seq(Counter) /\ Len(rx) \in Nat
  BY LenProperties DEF IndInv, TypeOK
<1>2. rx' = rx \o << <<>> >> /\ << <<>> >> \in Seq(Seq(Counter))
  BY <1>1
<1>3. Joined(rx') = Joined(rx) \o Joined(<< <<>> >>)
  BY <1>1, <1>2, JoinedConcat
<1>4. Joined(<< <<>> >>) = <<>>
  BY <1>1, JoinedOne
<1>5. Joined(rx) \in Seq(Counter)
  BY <1>1, JoinedType
<1>6. Joined(rx') = Joined(rx)
  BY <1>3, <1>4, <1>5, ConcatEmptySeq
<1>7. /\ Len(rx') = Len(rx) + 1 /\ rx'[Len(rx) + 1] = <<>>
      /\ \A i \in 1 .. Len(rx) : rx'[i] = rx[i]
  BY <1>1, AppendProperties
<1>8. ASSUME NEW i \in 1 .. Len(rx') PROVE Len(rx'[i]) <= RxRoom
  <2>1. CASE i \in 1 .. Len(rx)
    BY <1>7, <2>1 DEF SentInv
  <2>2. CASE i = Len(rx) + 1
    <3>1. rx'[i] = <<>> /\ Len(<<>>) = 0
      BY <1>7, <2>2
    <3> QED
      BY <3>1, SizesAssumption
  <2> QED
    BY <1>1, <1>7, <2>1, <2>2
<1>9. Len(rx') <= RxBuffers
  BY <1>1, <1>7, SizesAssumption
<1> QED
  BY <1>6, <1>8, <1>9 DEF SentInv

\* fill_data, one read of the client's socket.
LEMMA FillDataSent ==
  ASSUME IndInv, SentInv, FillData
  PROVE  SentInv'
<1>1. PICK n \in 1 .. Len(fromHost), used \in 1 .. RxBuffers - Len(rx) :
        /\ n <= Credited
        /\ (used - 1) * RxRoom < n /\ n <= used * RxRoom
        /\ sent' = wrapping_add(sent, n)
        /\ fromHost' = Drop(fromHost, n)
        /\ rx' = rx \o Pieces(fromHost, used, n)
  BY DEF FillData, Pieces
<1>2. /\ fromHost \in Seq(Counter) /\ Len(fromHost) \in Nat
      /\ rx \in Seq(Seq(Counter)) /\ Len(rx) \in Nat /\ sent \in Counter
      /\ peer_forwarded \in Counter /\ peer_alloc \in Counter
  BY LenProperties DEF IndInv, TypeOK
<1>3. /\ n \in Nat /\ n < W /\ used \in Nat \ {0} /\ Len(rx) + used <= RxBuffers
      /\ n \in 0 .. Len(fromHost) /\ n <= Len(fromHost)
  <2>1. n < W
    <3>1. n <= Credited /\ n \in Nat
      BY <1>1
    <3> QED
      BY <1>2, <3>1, SizesAssumption
         DEF Credited, Available, saturating_sub, wrapping_sub, Counter
  <2> QED
    BY <1>2, <2>1, SizesAssumption
<1> DEFINE P == Pieces(fromHost, used, n)
<1>4. /\ P \in Seq(Seq(Counter)) /\ Len(P) = used
      /\ \A i \in 1 .. used : Len(P[i]) <= RxRoom
      /\ Joined(P) = Take(fromHost, n)
  <2>1. (used - 1) * RxRoom < n /\ n <= used * RxRoom
    BY <1>1
  <2> QED
    BY <1>2, <1>3, <2>1, PiecesJoin DEF Take
<1> HIDE DEF P
<1>5. rx' = rx \o P
  BY <1>1 DEF P
<1>6. /\ rx' \in Seq(Seq(Counter)) /\ Len(rx') = Len(rx) + used
      /\ \A i \in 1 .. Len(rx) + used :
           rx'[i] = IF i <= Len(rx) THEN rx[i] ELSE P[i - Len(rx)]
  BY <1>2, <1>4, <1>5, ConcatProperties
<1>7. ASSUME NEW i \in 1 .. Len(rx') PROVE Len(rx'[i]) <= RxRoom
  <2>1. CASE i <= Len(rx)
    <3>1. i \in 1 .. Len(rx) /\ i \in 1 .. Len(rx) + used
      BY <1>2, <1>6, <2>1
    <3>2. rx'[i] = rx[i]
      BY <1>6, <2>1, <3>1
    <3> QED
      BY <3>1, <3>2 DEF SentInv
  <2>2. CASE ~(i <= Len(rx))
    <3>1. i - Len(rx) \in 1 .. used /\ i \in 1 .. Len(rx) + used
      BY <1>2, <1>6, <2>2
    <3>2. rx'[i] = P[i - Len(rx)]
      BY <1>6, <2>2, <3>1
    <3> QED
      BY <1>4, <3>1, <3>2
  <2> QED
    BY <2>1, <2>2
<1>8. Len(rx') <= RxBuffers
  BY <1>3, <1>6
<1>9. Joined(rx') = Joined(rx) \o Take(fromHost, n)
  BY <1>2, <1>4, <1>5, JoinedConcat
<1>10. Joined(rx) \in Seq(Counter) /\ Len(Joined(rx)) \in Nat
  BY <1>2, JoinedType, LenProperties
<1>11. Len(Joined(rx)) + n <= W
  <2>1. Len(Joined(rx')) <= W
    BY <1>6, <1>7, <1>8, InFlightFits
  <2>2. Take(fromHost, n) \in Seq(Counter) /\ Len(Take(fromHost, n)) = n
    BY <1>2, <1>3, TakeDrop
  <2>3. Len(Joined(rx) \o Take(fromHost, n)) = Len(Joined(rx)) + n
    BY <1>10, <2>2, ConcatProperties
  <2> QED
    BY <1>9, <2>1, <2>3
<1>12. Counted(Joined(rx), fromHost, sent)
  BY DEF SentInv, FillData, Polls
<1>13. Counted(Joined(rx) \o Take(fromHost, n), Drop(fromHost, n),
               wrapping_add(sent, n))
  BY <1>2, <1>3, <1>10, <1>11, <1>12, CountedRead
<1>14. Len(fromHost') <= SendSize
  <2>1. Len(fromHost') = Len(fromHost) - n
    BY <1>1, <1>2, <1>3, TakeDrop
  <2>2. Len(fromHost) <= SendSize
    BY DEF SentInv
  <2> QED
    BY <1>2, <1>3, <2>1, <2>2, SizesAssumption
<1> QED
  BY <1>1, <1>7, <1>8, <1>9, <1>13, <1>14 DEF SentInv

\* The guest takes an rx buffer.
LEMMA GuestTakesSent ==
  ASSUME IndInv, SentInv, GuestTakes
  PROVE  SentInv'
<1>1. /\ rx \in Seq(Seq(Counter)) /\ Len(rx) \in Nat /\ sent \in Counter
      /\ rx # <<>> /\ rx' = Tail(rx) /\ UNCHANGED <<fromHost, sent, status>>
  BY LenProperties DEF IndInv, TypeOK, GuestTakes, ends, credit, life
<1>2. /\ Head(rx) \in Seq(Counter) /\ Tail(rx) \in Seq(Seq(Counter))
      /\ Len(Tail(rx)) = Len(rx) - 1
      /\ \A i \in 1 .. Len(Tail(rx)) : Tail(rx)[i] = rx[i + 1]
  BY <1>1, HeadTailProperties
<1>3. << Head(rx) >> \o Tail(rx) = rx /\ << Head(rx) >> \in Seq(Seq(Counter))
  <2>1. << Head(rx) >> \in Seq(Seq(Counter)) /\ Len(<< Head(rx) >>) = 1
        /\ << Head(rx) >>[1] = Head(rx)
    BY <1>2
  <2>2. Head(rx) = rx[1]
    BY <1>1
  <2> DEFINE c == << Head(rx) >> \o Tail(rx)
  <2>3. /\ c \in Seq(Seq(Counter)) /\ Len(c) = 1 + (Len(rx) - 1)
        /\ \A i \in 1 .. 1 + (Len(rx) - 1) :
             c[i] = IF i <= 1 THEN << Head(rx) >>[i] ELSE Tail(rx)[i - 1]
    BY <1>2, <2>1, ConcatProperties
  <2> HIDE DEF c
  <2>4. Len(c) = Len(rx)
    BY <1>1, <2>3
  <2>5. ASSUME NEW i \in 1 .. Len(rx) PROVE c[i] = rx[i]
    <3>1. i \in 1 .. 1 + (Len(rx) - 1)
      BY <1>1
    <3>2. CASE i <= 1
      <4>1. i = 1
        BY <3>2
      <4> QED
        BY <2>1, <2>2, <2>3, <3>1, <4>1
    <3>3. CASE ~(i <= 1)
      <4>1. i - 1 \in 1 .. Len(Tail(rx)) /\ (i - 1) + 1 = i
        BY <1>1, <1>2, <3>3
      <4>2. Tail(rx)[i - 1] = rx[i]
        BY <1>2, <4>1
      <4> QED
        BY <2>3, <3>1, <3>3, <4>2
    <3> QED
      BY <3>2, <3>3
  <2>6. c = rx
    BY <1>1, <2>3, <2>4, <2>5, SeqEqual
  <2> QED
    BY <2>1, <2>6 DEF c
<1>4. Joined(rx) = Head(rx) \o Joined(Tail(rx))
  <2>1. Joined(rx) = Joined(<< Head(rx) >>) \o Joined(Tail(rx))
    BY <1>2, <1>3, JoinedConcat
  <2>2. Joined(<< Head(rx) >>) = Head(rx)
    BY <1>2, JoinedOne
  <2> QED
    BY <2>1, <2>2
<1>5. Joined(Tail(rx)) \in Seq(Counter)
  BY <1>2, JoinedType
<1>6. Len(Head(rx)) + Len(Joined(Tail(rx))) <= W
  <2>1. Len(Joined(rx)) <= W
    BY <1>1, InFlightFits DEF SentInv
  <2>2. Len(Head(rx) \o Joined(Tail(rx)))
          = Len(Head(rx)) + Len(Joined(Tail(rx)))
    BY <1>2, <1>5, ConcatProperties
  <2> QED
    BY <1>4, <2>1, <2>2
<1>7. status # "gone" => Counted(Joined(Tail(rx)), fromHost, sent)
  BY <1>1, <1>2, <1>4, <1>5, <1>6, CountedTaken DEF SentInv
<1>8. ASSUME NEW i \in 1 .. Len(Tail(rx)) PROVE Len(Tail(rx)[i]) <= RxRoom
  <2>1. i + 1 \in 1 .. Len(rx)
    BY <1>1, <1>2
  <2> QED
    BY <1>2, <2>1 DEF SentInv
<1>9. Len(Tail(rx)) <= RxBuffers
  <2>1. Len(rx) <= RxBuffers
    BY DEF SentInv
  <2> QED
    BY <1>1, <1>2, <2>1, SizesAssumption
<1> QED
  BY <1>1, <1>7, <1>8, <1>9 DEF SentInv

\* The client writes.
LEMMA ClientWriteSent ==
  ASSUME IndInv, SentInv, ClientWrite
  PROVE  SentInv'
<1>1. /\ rx \in Seq(Seq(Counter)) /\ sent \in Counter
      /\ fromHost \in Seq(Counter) /\ Len(fromHost) \in Nat
      /\ Len(fromHost) < SendSize /\ status # "gone"
  BY LenProperties DEF IndInv, TypeOK, ClientWrite, Connected
<1>2. PICK x : x = wrapping_add(sent, Len(fromHost))
  OBVIOUS
<1>3. x \in Counter
  BY <1>1, <1>2, SizesAssumption DEF wrapping_add, Counter
<1>4. fromHost' = Append(fromHost, x) /\ UNCHANGED <<rx, sent, status>>
  BY <1>2 DEF ClientWrite, life, credit
<1>5. Joined(rx) \in Seq(Counter)
  BY <1>1, JoinedType
<1>6. Counted(Joined(rx), fromHost, sent)
  BY <1>1 DEF SentInv
<1>7. Counted(Joined(rx), Append(fromHost, x), sent)
  BY <1>1, <1>2, <1>3, <1>5, <1>6, CountedWrite
<1>8. Len(fromHost') <= SendSize
  BY <1>1, <1>3, <1>4, AppendProperties, SizesAssumption
<1> QED
  BY <1>4, <1>7, <1>8 DEF SentInv

\* Every step keeps the client's bytes in order.
LEMMA NextSent ==
  ASSUME IndInv, SentInv, [Next]_vars
  PROVE  SentInv'
<1>1. CASE GuestSends
  <2>1. PICK h : Receive(h)
    BY <1>1, GuestSendsHeader
  <2>2. CASE ReceiveRst(h) \/ ReceiveReset(h)
    BY <2>2, SentGone DEF ReceiveRst, ReceiveReset, Dropped, Freed
  <2>3. CASE \/ ReceiveResponse(h) \/ ReceiveData(h) \/ ReceiveCredit(h)
             \/ ReceiveShutdown(h)
    <3>1. UNCHANGED <<rx, fromHost, sent>> /\ status # "gone"
      BY <2>3 DEF ReceiveResponse, ReceiveData, ReceiveCredit,
                  ReceiveShutdown, UpdateCredit, ends
    <3> QED
      BY <3>1, SentKept
  <2> QED
    BY <2>1, <2>2, <2>3 DEF Receive
<1>2. CASE PumpCancel \/ FillError \/ CallerCancels
  BY <1>2, SentGone DEF PumpCancel, FillError, Dropped, CallerCancels, Freed
<1>3. CASE FillRequest \/ FillShutdown \/ FillEof \/ FillReset
  <2>1. /\ Len(rx) < RxBuffers /\ rx' = Append(rx, <<>>)
        /\ UNCHANGED <<fromHost, sent, status>>
    BY <1>3 DEF FillRequest, FillShutdown, FillEof, FillReset, Control,
                credit, ends
  <2> QED
    BY <2>1, SentControl
<1>4. CASE FillControl
  <2>1. /\ Len(rx) < RxBuffers /\ UNCHANGED <<fromHost, sent, status>>
        /\ rx' = Append(rx, <<>>) \/ rx' = rx
    BY <1>4 DEF FillControl, Control, life
  <2> QED
    BY <2>1, SentControl, SentKept
<1>5. CASE FillData
  BY <1>5, FillDataSent
<1>6. CASE Pump \/ Wake \/ DeadlinePasses
  <2>1. UNCHANGED <<rx, fromHost, sent, status>>
    BY <1>6 DEF Pump, Wake, DeadlinePasses, credit, ends, life
  <2> QED
    BY <2>1, SentKept
<1>7. CASE \/ CallerAnswered \/ CallerTimesOut \/ ClientRead \/ UNCHANGED vars
           \/ \E how \in {"shut", "closed"} : ClientCloses(how)
  <2>1. UNCHANGED <<rx, fromHost, sent, status>>
    BY <1>7 DEF CallerAnswered, CallerTimesOut, ClientRead, ClientCloses,
                credit, ends, life, vars
  <2> QED
    BY <2>1, SentKept
<1>8. CASE ClientWrite
  BY <1>8, ClientWriteSent
<1>9. CASE GuestTakes
  BY <1>9, GuestTakesSent
<1> QED
  BY <1>1, <1>2, <1>3, <1>4, <1>5, <1>6, <1>7, <1>8, <1>9
     DEF Next, DeviceStep, Fill, ClientStep

\* What is on its way to the guest is what the client wrote, in order, none
\* lost or doubled by a read that is spread over several rx buffers, and
\* `sent` counts exactly what left the socket, for every size of buffer and
\* across every wrap (fill_data).
THEOREM ClientBytesInOrder == Spec => []SentInOrder
<1>1. Init => SentInv
  <2> SUFFICES ASSUME Init PROVE SentInv
    OBVIOUS
  <2>1. /\ rx = <<>> /\ fromHost = <<>> /\ Len(<<>>) = 0
        /\ <<>> \in Seq(Seq(Counter)) /\ RxBuffers \in Nat /\ SendSize \in Nat
    BY SizesAssumption DEF Init
  <2>2. Joined(rx) = <<>>
    BY <2>1, JoinedType
  <2>3. Counted(<<>>, <<>>, sent)
    BY DEF Counted
  <2> QED
    BY <2>1, <2>2, <2>3 DEF SentInv
<1>2. IndInv /\ SentInv /\ [Next]_vars => SentInv'
  BY NextSent
<1>3. IndInv /\ SentInv => SentInOrder
  <2> SUFFICES ASSUME IndInv, SentInv, status # "gone" PROVE SentInOrder
    BY DEF SentInOrder
  <2>1. /\ rx \in Seq(Seq(Counter)) /\ fromHost \in Seq(Counter)
        /\ sent \in Counter /\ Len(fromHost) \in Nat
        /\ Len(fromHost) <= SendSize /\ SendSize \in Nat
    BY LenProperties, SizesAssumption DEF IndInv, TypeOK, SentInv
  <2>2. /\ Joined(rx) \in Seq(Counter) /\ Len(Joined(rx)) \in Nat
        /\ Len(Joined(rx)) <= W /\ Len(Joined(rx)) + SendSize <= W + 1
    BY <2>1, InFlightFits DEF SentInv
  <2>3. Len(Joined(rx)) + Len(fromHost) <= W + 1
    BY <2>1, <2>2, SizesAssumption
  <2>4. Joined(rx) \o fromHost
          = Bytes(wrapping_sub(sent, Len(Joined(rx))), Len(Joined(rx) \o fromHost))
    BY <2>1, <2>2, <2>3, CountedBytes DEF SentInv
  <2> QED
    BY <2>4 DEF SentInOrder
<1> QED
  BY <1>1, <1>2, <1>3, ConnectionInvariant, PTL DEF Spec
=============================================================================
