--------------------------- MODULE VsockMuxProofs ---------------------------
(***************************************************************************)
(* Proofs about VsockMux, for every number of callers, clients, ports,     *)
(* connections and rx buffers.                                             *)
(***************************************************************************)
EXTENDS VsockMux, FiniteSetTheorems, SequenceTheorems, TLAPS

----------------------------------------------------------------------------
(* The inductive invariant.                                                *)

Connections == [opener : Callers \cup {"Listener", "taken"},
                send_request : BOOLEAN]
Calls == [pc : {"idle", "waiting", "giving_up"}, port : Nat,
          reply : {"none", "ok", "err"}]
Packets == [op : {"RST", "REQUEST", "DATA"}, port : Nat]

\* A port was handed out before anything has it.
Types ==
  /\ next_port \in 0 .. MaxPort
  /\ Open \subseteq 1 .. next_port
  /\ conns \in [Open -> Connections]
  /\ resets \in Seq(Nat) /\ rx \in Seq(Packets)
  /\ transport \in {"none", "up"} /\ failed \in BOOLEAN
  /\ caller \in [Callers -> Calls]
  /\ \A c \in Callers : caller[c].port <= next_port
  /\ posted \in 0 .. EventWrap - 1 /\ unhandled \in BOOLEAN

\* The queue of resets has room for one of every connection.
Room == Len(resets) + Cardinality(Open) <= max_resets

\* The connection of a caller is the one it waits for.
Calling ==
  \A p \in Open, c \in Callers :
    /\ conns[p].opener = c =>
         caller[c].pc # "idle" /\ caller[c].port = p /\ caller[c].reply = "none"
    /\ caller[c].pc # "idle" /\ caller[c].port = p =>
         \/ conns[p].opener = c
         \/ conns[p].opener = "taken" /\ caller[c].reply = "ok"

\* Until the guest has handled its reset event the device either knows that
\* it has not, or has failed.
Awaiting ==
  /\ failed => transport = "none"
  /\ unhandled => /\ Open = {}
                  /\ \/ failed
                     \/ /\ transport = "up"
                        /\ resetting = (posted + 1) % EventWrap

Member(s, p) == \E k \in 1 .. Len(s) : s[k] = p

\* An RST to the guest's port p is pending, or is in rx past place i.
Told(p, i) ==
  \/ Member(resets, p)
  \/ \E k \in 1 .. Len(rx) : k > i /\ rx[k] = Packet("RST", p)

\* What the guest has, or is about to take, and the device has not, is reset
\* after it.
Hearing ==
  /\ transport = "none" /\ ~failed => guest = {} /\ rx = <<>>
  /\ transport = "up" /\ ~unhandled => \A p \in guest \ Open : Told(p, 0)
  /\ transport = "up" =>
       \A i \in 1 .. Len(rx) :
         rx[i].op = "REQUEST" /\ rx[i].port \notin Open => Told(rx[i].port, i)

\* From last_port on, p has its turn before q.
Before(p, q) == IF p > last_port THEN q > p \/ q <= last_port
                ELSE p < q /\ q <= last_port

\* Who was passed over is next before the one that passed.
Turns ==
  /\ last_port \in Nat /\ passed \in [Ports -> [Ports -> {0, 1}]]
  /\ \A p, q \in Ports : passed[p][q] = 1 => Before(p, q)

IndInv == Types /\ Room /\ Calling /\ Awaiting /\ Hearing /\ Turns

----------------------------------------------------------------------------
(* The operators of the mux.                                               *)

\* The rank of a port among those of S is one-to-one onto 1 .. Cardinality(S),
\* so Ascending lists every port of S once.
LEMMA AscendingLists ==
  ASSUME NEW S, S \subseteq Nat, IsFiniteSet(S)
  PROVE  /\ Ascending(S) \in Seq(S) /\ Len(Ascending(S)) = Cardinality(S)
         /\ \A p \in S : Member(Ascending(S), p)
<1> DEFINE n == Cardinality(S)
           T(p) == {q \in S : q <= p}
           r == [p \in S |-> Cardinality(T(p))]
<1>1. n \in Nat
  BY FS_CardinalityType
<1>2. ASSUME NEW p \in S
      PROVE  IsFiniteSet(T(p)) /\ Cardinality(T(p)) \in 1 .. n
  <2>1. IsFiniteSet(T(p)) /\ Cardinality(T(p)) <= n
    BY FS_Subset
  <2>2. T(p) # {}
    BY <1>2
  <2>3. Cardinality(T(p)) \in Nat /\ Cardinality(T(p)) # 0
    BY <2>1, <2>2, FS_EmptySet, FS_CardinalityType
  <2> QED
    BY <1>1, <2>1, <2>3
<1>3. ASSUME NEW p \in S, NEW q \in S, p < q PROVE r[p] # r[q]
  <2>1. T(p) \in SUBSET T(q) /\ T(p) # T(q)
    <3>1. \A x \in S : x \in Nat /\ (x <= p => x <= q)
      BY <1>3
    <3>2. q \in T(q) /\ q \notin T(p)
      BY <1>3, <3>1
    <3> QED
      BY <3>1, <3>2
  <2>2. Cardinality(T(p)) # Cardinality(T(q))
    <3>1. IsFiniteSet(T(q))
      BY <1>2
    <3> HIDE DEF T
    <3> QED
      BY <2>1, <3>1, FS_Subset
  <2> QED
    BY <2>2
<1>4. r \in Injection(S, 1 .. n)
  <2>1. r \in [S -> 1 .. n]
    BY <1>2
  <2>2. ASSUME NEW p \in S, NEW q \in S, r[p] = r[q] PROVE p = q
    <3>1. p < q \/ q < p \/ p = q
      OBVIOUS
    <3> HIDE DEF r
    <3> QED
      BY <1>3, <2>2, <3>1
  <2> QED
    BY <2>1, <2>2 DEF Injection, IsInjective
<1>5. IsFiniteSet(1 .. n) /\ Cardinality(1 .. n) = n
  BY <1>1, FS_Interval
<1>6. r \in Surjection(S, 1 .. n)
  BY <1>4, <1>5, FS_Injection
<1>7. ASSUME NEW k \in 1 .. n
      PROVE  Ascending(S)[k] \in S /\ r[Ascending(S)[k]] = k
  <2>1. \E p \in S : Cardinality({q \in S : q <= p}) = k
    BY <1>6 DEF Surjection
  <2> QED
    BY <2>1 DEF Ascending
<1>8. Ascending(S) \in Seq(S) /\ Len(Ascending(S)) = n
  <2>1. Ascending(S) \in [1 .. n -> S]
    BY <1>7 DEF Ascending
  <2> HIDE DEF n
  <2> QED
    BY <1>1, <2>1, SeqDef
<1>9. ASSUME NEW p \in S PROVE Member(Ascending(S), p)
  <2>1. r[p] \in 1 .. n
    BY <1>2
  <2>2. Ascending(S)[r[p]] \in S /\ r[Ascending(S)[r[p]]] = r[p]
    BY <1>7, <2>1
  <2> HIDE DEF r, n
  <2>3. Ascending(S)[r[p]] = p
    BY <1>4, <2>2 DEF Injection, IsInjective
  <2> QED
    BY <1>8, <2>1, <2>3 DEF Member
<1> QED
  BY <1>8, <1>9

\* A set of open ports is finite.
LEMMA OpenFinite ==
  ASSUME Types
  PROVE  /\ IsFiniteSet(Open) /\ Open \subseteq Nat
         /\ Cardinality(Open) \in Nat
         /\ \A gone \in SUBSET Open :
              /\ IsFiniteSet(gone) /\ Cardinality(gone) \in Nat
              /\ Cardinality(Open \ gone) \in Nat
              /\ Cardinality(Open \ gone) = Cardinality(Open) - Cardinality(gone)
<1>1. IsFiniteSet(Open)
  <2>1. IsFiniteSet(1 .. next_port)
    BY FS_Interval DEF Types
  <2> QED
    BY <2>1, FS_Subset DEF Types
<1>2. ASSUME NEW gone \in SUBSET Open
      PROVE  /\ IsFiniteSet(gone) /\ Cardinality(gone) \in Nat
             /\ Cardinality(Open \ gone) \in Nat
             /\ Cardinality(Open \ gone) = Cardinality(Open) - Cardinality(gone)
  <2>1. IsFiniteSet(gone) /\ IsFiniteSet(Open \ gone)
    BY <1>1, FS_Subset
  <2>2. Open \cap gone = gone
    OBVIOUS
  <2> QED
    BY <1>1, <2>1, <2>2, FS_Difference, FS_CardinalityType
<1>3. Open \subseteq Nat /\ Cardinality(Open) \in Nat
  BY <1>1, FS_CardinalityType DEF Types
<1> QED
  BY <1>1, <1>2, <1>3, Zenon

\* What reset pushes: no more than fits, and all of it when the connections
\* it is about have made the room.
LEMMA PushedDoes ==
  ASSUME Types, Room, NEW gone \in SUBSET Open, NEW rsts \in Seq(Nat)
  PROVE  /\ Pushed(rsts, gone) \in Seq(Nat)
         /\ Len(Pushed(rsts, gone)) + Cardinality(Open \ gone) <= max_resets
         /\ \A p : Member(resets, p) => Member(Pushed(rsts, gone), p)
         /\ Len(rsts) <= Cardinality(gone) =>
              \A p : Member(rsts, p) => Member(Pushed(rsts, gone), p)
<1> DEFINE left == Cardinality(Open \ gone)
           room == max_resets - left - Len(resets)
           m == IF Len(rsts) < room THEN Len(rsts) ELSE room
           some == SubSeq(rsts, 1, m)
<1>1. /\ left \in Nat /\ Cardinality(gone) \in Nat
      /\ left = Cardinality(Open) - Cardinality(gone)
      /\ Cardinality(Open) \in Nat
  BY OpenFinite
<1>2. max_resets \in Nat
  BY MuxAssumption DEF max_resets
<1>3. resets \in Seq(Nat) /\ Len(resets) \in Nat /\ Len(rsts) \in Nat
  BY LenProperties DEF Types
<1> HIDE DEF left
<1>4. room \in Nat /\ room >= Cardinality(gone)
  BY <1>1, <1>2, <1>3 DEF Room
<1> HIDE DEF room
<1>5. m \in Nat /\ m <= Len(rsts) /\ m <= room
  BY <1>3, <1>4
<1>6. Len(rsts) <= Cardinality(gone) => m = Len(rsts)
  BY <1>1, <1>3, <1>4
<1> HIDE DEF m
<1>7. /\ some \in Seq(Nat) /\ Len(some) = m
      /\ \A i \in 1 .. m : some[i] = rsts[i]
  <2>1. \A i \in 1 .. m : rsts[i] \in Nat
    BY <1>3, <1>5, ElementOfSeq
  <2>2. /\ some \in Seq(Nat) /\ Len(some) = IF 1 <= m THEN m - 1 + 1 ELSE 0
        /\ \A i \in 1 .. m - 1 + 1 : some[i] = rsts[1 + i - 1]
    BY <1>5, <2>1, SubSeqProperties
  <2>3. m - 1 + 1 = m /\ \A i \in 1 .. m : 1 + i - 1 = i
    BY <1>5
  <2> HIDE DEF some
  <2> QED
    BY <1>5, <2>2, <2>3
<1> HIDE DEF some
<1>8. Pushed(rsts, gone) = resets \o some
  BY DEF Pushed, some, m, room, left
<1> DEFINE r == resets \o some
<1>9. /\ r \in Seq(Nat) /\ Len(r) = Len(resets) + m
      /\ \A i \in 1 .. Len(resets) + m :
           r[i] = IF i <= Len(resets) THEN resets[i] ELSE some[i - Len(resets)]
  BY <1>3, <1>7, ConcatProperties
<1> HIDE DEF r
<1>10. Len(r) + left <= max_resets
  BY <1>1, <1>2, <1>3, <1>5, <1>9 DEF room
<1>11. \A p : Member(resets, p) => Member(r, p)
  <2> SUFFICES ASSUME NEW p, NEW k \in 1 .. Len(resets), resets[k] = p
               PROVE  Member(r, p)
    BY DEF Member
  <2>1. k \in 1 .. Len(r) /\ r[k] = p
    BY <1>3, <1>5, <1>9
  <2> QED
    BY <2>1 DEF Member
<1>12. ASSUME Len(rsts) <= Cardinality(gone), NEW p, Member(rsts, p)
       PROVE  Member(r, p)
  <2>1. PICK k \in 1 .. Len(rsts) : rsts[k] = p
    BY <1>12 DEF Member
  <2>2. m = Len(rsts)
    BY <1>6, <1>12
  <2>3. Len(resets) + k \in 1 .. Len(r) /\ r[Len(resets) + k] = some[k]
    <3>1. /\ Len(resets) + k \in 1 .. Len(resets) + m
          /\ ~(Len(resets) + k <= Len(resets))
          /\ Len(resets) + k - Len(resets) = k
      BY <1>3, <1>5, <2>2
    <3> QED
      BY <1>9, <3>1
  <2>4. some[k] = p
    BY <1>7, <2>1, <2>2
  <2> QED
    BY <2>3, <2>4 DEF Member
<1> QED
  BY <1>8, <1>9, <1>10, <1>11, <1>12 DEF r, left

\* cancel of every connection in gone tells the guest of each.
LEMMA PushAll ==
  ASSUME Types, Room, NEW gone \in SUBSET Open
  PROVE  LET r == Pushed(Ascending(gone), gone) IN
         /\ r \in Seq(Nat)
         /\ Len(r) + Cardinality(Open \ gone) <= max_resets
         /\ \A p : Member(resets, p) \/ p \in gone => Member(r, p)
<1>1. /\ Ascending(gone) \in Seq(gone)
      /\ Len(Ascending(gone)) = Cardinality(gone)
      /\ \A p \in gone : Member(Ascending(gone), p)
  BY OpenFinite, AscendingLists
<1>2. Ascending(gone) \in Seq(Nat)
  BY <1>1, OpenFinite, SeqMonotonic
<1>3. Len(Ascending(gone)) <= Cardinality(gone)
  BY <1>1, OpenFinite
<1> QED
  BY <1>1, <1>2, <1>3, PushedDoes

\* The reset of an unknown port goes in when there is room.
LEMMA PushOne ==
  ASSUME Types, Room, NEW q \in Nat
  PROVE  LET r == Pushed(<<q>>, {}) IN
         /\ r \in Seq(Nat) /\ Len(r) + Cardinality(Open) <= max_resets
         /\ \A p : Member(resets, p) => Member(r, p)
<1>1. <<q>> \in Seq(Nat) /\ {} \in SUBSET Open /\ Open \ {} = Open
  OBVIOUS
<1> QED
  BY <1>1, PushedDoes

\* Only who opened a connection that ends is answered.
LEMMA AnsweredDoes ==
  ASSUME Types, NEW gone
  PROVE  /\ Answered(gone) \in [Callers -> Calls]
         /\ \A c \in Callers :
              /\ Answered(gone)[c].pc = caller[c].pc
              /\ Answered(gone)[c].port = caller[c].port
              /\ (\A p \in gone : conns[p].opener # c) =>
                   Answered(gone)[c] = caller[c]
<1>1. \A c \in Callers : [caller[c] EXCEPT !.reply = "err"] \in Calls
  BY DEF Types, Calls
<1>2. \A c \in Callers :
        /\ [caller[c] EXCEPT !.reply = "err"].pc = caller[c].pc
        /\ [caller[c] EXCEPT !.reply = "err"].port = caller[c].port
  BY DEF Types, Calls
<1> QED
  BY <1>1, <1>2 DEF Answered, Types

----------------------------------------------------------------------------
(* The types, and the room in the queue of resets.                         *)

\* Connections end, with their resets or without.
LEMMA EndsDoes ==
  ASSUME Types, Room, NEW gone \in SUBSET Open,
         conns' = [p \in Open \ gone |-> conns[p]],
         resets' = Pushed(Ascending(gone), gone) \/ resets' = resets,
         next_port' = next_port
  PROVE  /\ Open' = Open \ gone /\ Open' \subseteq 1 .. next_port'
         /\ conns' \in [Open' -> Connections]
         /\ resets' \in Seq(Nat) /\ Room'
<1>1. Open' = Open \ gone
  BY DEF Open
<1>2. Open' \subseteq 1 .. next_port' /\ conns' \in [Open' -> Connections]
  BY <1>1 DEF Types
<1>3. CASE resets' = Pushed(Ascending(gone), gone)
  BY <1>1, <1>2, <1>3, PushAll DEF Room
<1>4. CASE resets' = resets
  <2>1. /\ Cardinality(Open) \in Nat /\ Cardinality(gone) \in Nat
        /\ Cardinality(Open \ gone) = Cardinality(Open) - Cardinality(gone)
    BY OpenFinite
  <2>2. resets \in Seq(Nat) /\ Len(resets) \in Nat /\ max_resets \in Nat
    BY MuxAssumption DEF Types, max_resets
  <2>3. Room'
    BY <1>1, <1>4, <2>1, <2>2 DEF Room, max_resets
  <2> QED
    BY <1>1, <1>2, <1>4, <2>2, <2>3
<1> QED
  BY <1>3, <1>4

\* A connection is added.
LEMMA AttachesDoes ==
  ASSUME Types, Room, NEW opener \in Callers \cup {"Listener"},
         Attaches(opener)
  PROVE  /\ next_port + 1 \notin Open /\ next_port' = next_port + 1
         /\ next_port' \in 0 .. MaxPort
         /\ Open' = Open \cup {next_port + 1} /\ Open' \subseteq 1 .. next_port'
         /\ conns' \in [Open' -> Connections]
         /\ \A p \in Open : conns'[p] = conns[p]
         /\ conns'[next_port + 1] = [opener |-> opener, send_request |-> TRUE]
         /\ Room' /\ UNCHANGED <<resets, last_port, passed, transport, failed>>
<1>1. /\ next_port' = next_port + 1 /\ next_port < MaxPort /\ HasRoom
      /\ conns' = [p \in Open \cup {next_port + 1} |->
           IF p \in Open THEN conns[p]
           ELSE [opener |-> opener, send_request |-> TRUE]]
      /\ UNCHANGED <<resets, last_port, passed, transport, failed>>
  BY DEF Attaches
<1>2. next_port + 1 \notin Open /\ next_port' \in 0 .. MaxPort
  BY <1>1, MuxAssumption DEF Types
<1>3. Open' = Open \cup {next_port + 1} /\ Open' \subseteq 1 .. next_port'
  BY <1>1 DEF Open, Types
<1>4. [opener |-> opener, send_request |-> TRUE] \in Connections
  BY DEF Connections
<1>5. conns' \in [Open' -> Connections]
  BY <1>1, <1>3, <1>4 DEF Types
<1>6. Room'
  <2>1. Cardinality(Open \cup {next_port + 1}) = Cardinality(Open) + 1
    BY <1>2, OpenFinite, FS_AddElement
  <2>2. Cardinality(Open) \in Nat /\ Len(resets) \in Nat /\ max_resets \in Nat
    BY OpenFinite, MuxAssumption DEF Types, max_resets
  <2> QED
    BY <1>1, <1>3, <2>1, <2>2 DEF Room, HasRoom, max_resets
<1> QED
  BY <1>1, <1>2, <1>3, <1>5, <1>6

\* The mux is cleared.
LEMMA ClearDoes ==
  ASSUME Types, Room, clear
  PROVE  /\ Open' = {} /\ conns' \in [Open' -> Connections]
         /\ resets' = <<>> /\ resets' \in Seq(Nat) /\ next_port' = next_port
         /\ Room' /\ caller' = Answered(Open)
<1>1. conns' = <<>> /\ resets' = <<>> /\ next_port' = next_port
      /\ caller' = Answered(Open)
  BY DEF clear, PortAfterClear
<1>2. DOMAIN << >> = {} /\ << >> \in Seq(Nat) /\ Len(<< >>) = 0
  OBVIOUS
<1>3. << >> \in [{} -> Connections]
  OBVIOUS
<1>4. Open' = {}
  BY <1>1, <1>2 DEF Open
<1>5. Cardinality({}) = 0 /\ max_resets \in Nat
  BY FS_EmptySet, MuxAssumption DEF max_resets
<1> QED
  BY <1>1, <1>2, <1>3, <1>4, <1>5 DEF Room, max_resets

\* A packet is one of Packets, for its port.
LEMMA Packing ==
  ASSUME NEW op \in {"RST", "REQUEST", "DATA"}, NEW p \in Nat
  PROVE  /\ Packet(op, p) \in Packets
         /\ Packet(op, p).op = op /\ Packet(op, p).port = p
BY DEF Packet, Packets

\* What is pending and what may still be pending fits the queue, whatever
\* the guest sends.
LEMMA TypesKept ==
  ASSUME Types, Room, [Next]_vars PROVE Types' /\ Room'
<1>1. ASSUME NEW gone \in SUBSET Open, Drop(gone, TRUE) \/ Drop(gone, FALSE),
             UNCHANGED <<state, rx, posted, unhandled>>
      PROVE  Types' /\ Room'
  <2>1. /\ conns' = [p \in Open \ gone |-> conns[p]]
        /\ resets' = Pushed(Ascending(gone), gone) \/ resets' = resets
        /\ next_port' = next_port /\ caller' = Answered(gone)
    BY <1>1, Zenon DEF Drop
  <2>2. /\ Open' \subseteq 1 .. next_port' /\ conns' \in [Open' -> Connections]
        /\ resets' \in Seq(Nat) /\ Room'
    BY <2>1, EndsDoes
  <2>3. caller' \in [Callers -> Calls]
        /\ \A c \in Callers : caller'[c].port <= next_port'
    BY <2>1, AnsweredDoes DEF Types
  <2> QED
    BY <1>1, <2>1, <2>2, <2>3 DEF Types, state
<1>2. ASSUME NEW opener \in Callers \cup {"Listener"}, Attaches(opener),
             caller' \in [Callers -> Calls],
             \A c \in Callers : caller'[c].port <= next_port',
             UNCHANGED guests
      PROVE  Types' /\ Room'
  <2>1. /\ next_port' \in 0 .. MaxPort /\ Open' \subseteq 1 .. next_port'
        /\ conns' \in [Open' -> Connections]
        /\ Room' /\ UNCHANGED <<resets, transport, failed>>
    BY <1>2, AttachesDoes
  <2> QED
    BY <1>2, <2>1 DEF Types, guests
<1>3. ASSUME clear, transport' \in {"none", "up"}, failed' \in BOOLEAN,
             rx' \in Seq(Packets), unhandled' \in BOOLEAN, posted' = posted
      PROVE  Types' /\ Room'
  <2>1. /\ Open' = {} /\ conns' \in [Open' -> Connections]
        /\ resets' \in Seq(Nat) /\ next_port' = next_port
        /\ Room' /\ caller' = Answered(Open)
    BY <1>3, ClearDoes
  <2>2. caller' \in [Callers -> Calls]
        /\ \A c \in Callers : caller'[c].port <= next_port'
    BY <2>1, AnsweredDoes DEF Types
  <2> QED
    BY <1>3, <2>1, <2>2 DEF Types
<1>4. ASSUME UNCHANGED <<conns, next_port, rx, state, posted, unhandled>>,
             resets' \in Seq(Nat), Len(resets') + Cardinality(Open) <= max_resets,
             caller' \in [Callers -> Calls],
             \A c \in Callers : caller'[c].port <= next_port
      PROVE  Types' /\ Room'
  BY <1>4 DEF Types, Room, state, Open, max_resets
<1>5. resets \in Seq(Nat) /\ Len(resets) + Cardinality(Open) <= max_resets
  BY DEF Types, Room
<1>6. CASE \E gone \in SUBSET Open : PumpCancels(gone)
  <2>1. PICK gone \in SUBSET Open : PumpCancels(gone)
    BY <1>6
  <2> QED
    BY <1>1, <2>1 DEF PumpCancels, guests
<1>7. CASE FillReset
  <2>1. /\ resets # <<>> /\ rx' = Append(rx, Packet("RST", Head(resets)))
        /\ resets' = Tail(resets)
        /\ UNCHANGED <<conns, next_port, state, caller, posted, unhandled>>
    BY <1>7 DEF FillReset, hosts
  <2>2. /\ Head(resets) \in Nat /\ Tail(resets) \in Seq(Nat)
        /\ Len(Tail(resets)) = Len(resets) - 1 /\ Len(resets) \in Nat
    BY <1>5, <2>1, HeadTailProperties
  <2>3. rx' \in Seq(Packets)
    BY <2>1, <2>2, Packing, AppendProperties DEF Types
  <2>4. Cardinality(Open) \in Nat /\ max_resets \in Nat /\ Open' = Open
    BY <2>1, OpenFinite, MuxAssumption DEF Open, max_resets
  <2>5. Room'
    BY <1>5, <2>1, <2>2, <2>4 DEF Room, max_resets
  <2> QED
    BY <2>1, <2>2, <2>3, <2>4, <2>5 DEF Types, state
<1>8. ASSUME NEW p \in Ports, NEW more \in BOOLEAN, FillTurn(p, more)
      PROVE  Types' /\ Room'
  <2>1. /\ p \in Open
        /\ rx' = Append(rx, Packet("DATA", p)) \/
           rx' = Append(rx, Packet("REQUEST", p))
        /\ conns' = conns \/ conns' = [conns EXCEPT ![p].send_request = FALSE]
        /\ UNCHANGED <<resets, next_port, state, caller, posted, unhandled>>
    BY <1>8 DEF FillTurn, Wants, hosts
  <2>2. rx' \in Seq(Packets)
    <3>1. p \in Nat /\ rx \in Seq(Packets)
      BY DEF Types, Ports
    <3>2. Packet("DATA", p) \in Packets /\ Packet("REQUEST", p) \in Packets
      BY <3>1, Packing
    <3> QED
      BY <2>1, <3>1, <3>2, AppendProperties
  <2>3. Open' = Open /\ conns' \in [Open' -> Connections]
    <3>1. conns \in [Open -> Connections]
      BY DEF Types
    <3>2. [conns EXCEPT ![p].send_request = FALSE] \in [Open -> Connections]
      BY <2>1, <3>1 DEF Connections
    <3>3. conns' \in [Open -> Connections]
      BY <2>1, <3>1, <3>2
    <3> QED
      BY <3>3 DEF Open
  <2> QED
    BY <2>1, <2>2, <2>3 DEF Types, Room, state, max_resets
<1>9. ASSUME NEW p \in Ports, FillError(p) PROVE Types' /\ Room'
  <2>1. {p} \in SUBSET Open /\ Drop({p}, TRUE)
        /\ UNCHANGED <<state, rx, posted, unhandled>>
    BY <1>9 DEF FillError, guests
  <2> QED
    BY <1>1, <2>1
<1>10. ASSUME NEW p \in Ports, Wake(p) PROVE Types' /\ Room'
  BY <1>10, <1>4, <1>5 DEF Wake, hosts, guests, Types
<1>11. ASSUME NEW c \in Callers, Connect(c) PROVE Types' /\ Room'
  <2>1. /\ Attaches(c) /\ UNCHANGED guests
        /\ caller' = [caller EXCEPT ![c] =
             [pc |-> "waiting", port |-> next_port + 1, reply |-> "none"]]
    BY <1>11 DEF Connect
  <2>2. next_port' = next_port + 1 /\ next_port \in Nat
    BY <2>1 DEF Attaches, Types
  <2>3. [pc |-> "waiting", port |-> next_port + 1, reply |-> "none"] \in Calls
    BY <2>2 DEF Calls
  <2>4. caller' \in [Callers -> Calls]
    BY <2>1, <2>3 DEF Types
  <2>5. \A d \in Callers : caller'[d].port <= next_port'
    <3>1. \A d \in Callers : caller[d].port \in Nat /\ caller[d].port <= next_port
      BY DEF Types, Calls
    <3> QED
      BY <2>1, <2>2, <3>1 DEF Types
  <2> QED
    BY <1>2, <2>1, <2>4, <2>5
<1>12. ASSUME NEW c \in Callers, Connected(c) \/ GivesUp(c)
       PROVE  Types' /\ Room'
  <2>1. /\ \/ caller' = [caller EXCEPT ![c] = NoCall]
           \/ caller' = [caller EXCEPT ![c].pc = "giving_up"]
        /\ UNCHANGED <<conns, next_port, resets, rx, state, posted, unhandled>>
    BY <1>12 DEF Connected, GivesUp, mux, guests
  <2>2. NoCall \in Calls /\ NoCall.port = 0 /\ next_port \in Nat
    BY DEF NoCall, Calls, Types
  <2>3. caller[c] \in Calls /\ caller \in [Callers -> Calls]
    BY DEF Types
  <2>4. /\ [caller[c] EXCEPT !.pc = "giving_up"] \in Calls
        /\ [caller[c] EXCEPT !.pc = "giving_up"].port = caller[c].port
    BY <2>3 DEF Calls
  <2>5. caller' \in [Callers -> Calls]
    BY <2>1, <2>2, <2>3, <2>4
  <2>6. \A d \in Callers : caller'[d].port <= next_port
    <3>1. 0 <= next_port /\ \A d \in Callers : caller[d].port <= next_port
      BY DEF Types
    <3>2. \A d \in Callers :
            caller'[d].port = 0 \/ caller'[d].port = caller[d].port
      BY <2>1, <2>2, <2>3, <2>4
    <3> QED
      BY <3>1, <3>2
  <2> QED
    BY <1>4, <1>5, <2>1, <2>5, <2>6
<1>13. ASSUME NEW c \in Callers, Cancels(c) PROVE Types' /\ Room'
  <2> DEFINE gone == {caller[c].port} \cap Open
  <2>1. /\ conns' = [p \in Open \ gone |-> conns[p]]
        /\ resets' = Pushed(Ascending(gone), gone) /\ next_port' = next_port
        /\ caller' = [Answered(gone) EXCEPT ![c] = NoCall]
        /\ UNCHANGED <<state, rx, posted, unhandled>>
    BY <1>13, Zenon DEF Cancels, guests
  <2>2. gone \in SUBSET Open
    OBVIOUS
  <2> HIDE DEF gone
  <2>3. /\ Open' \subseteq 1 .. next_port' /\ conns' \in [Open' -> Connections]
        /\ resets' \in Seq(Nat) /\ Room'
    BY <2>1, <2>2, EndsDoes
  <2>4. NoCall \in Calls /\ NoCall.port = 0 /\ next_port \in Nat
    BY DEF NoCall, Calls, Types
  <2>5. Answered(gone) \in [Callers -> Calls]
        /\ \A d \in Callers : Answered(gone)[d].port = caller[d].port
    BY AnsweredDoes
  <2>6. caller' \in [Callers -> Calls]
    BY <2>1, <2>4, <2>5
  <2>7. \A d \in Callers : caller'[d].port <= next_port
    <3>1. 0 <= next_port /\ \A d \in Callers : caller[d].port <= next_port
      BY DEF Types
    <3>2. \A d \in Callers :
            caller'[d].port = 0 \/ caller'[d].port = caller[d].port
      BY <2>1, <2>4, <2>5
    <3> QED
      BY <3>1, <3>2
  <2> QED
    BY <2>1, <2>3, <2>6, <2>7 DEF Types, state
<1>14. ASSUME NEW l \in Clients, Accept(l) PROVE Types' /\ Room'
  BY <1>14, <1>4, <1>5 DEF Accept, mux, guests, Types
<1>15. ASSUME NEW l \in Clients, NEW attached \in BOOLEAN,
              HandshakeEnds(l, attached)
       PROVE  Types' /\ Room'
  <2>1. UNCHANGED <<caller, guests>>
        /\ (Attaches("Listener") \/ UNCHANGED <<mux, state>>)
    BY <1>15 DEF HandshakeEnds
  <2>2. CASE Attaches("Listener")
    <3>1. next_port' = next_port + 1 /\ next_port \in Nat
      BY <2>2 DEF Attaches, Types
    <3>2. \A d \in Callers : caller[d].port \in Nat /\ caller[d].port <= next_port
      BY DEF Types, Calls
    <3>3. \A d \in Callers : caller'[d].port <= next_port'
      BY <2>1, <3>1, <3>2
    <3> QED
      BY <1>2, <2>1, <2>2, <3>3 DEF Types
  <2>3. CASE UNCHANGED <<mux, state>>
    BY <1>4, <1>5, <2>1, <2>3 DEF mux, guests, Types
  <2> QED
    BY <2>1, <2>2, <2>3
<1>16. CASE AttachFails
  <2>1. UNCHANGED <<conns, transport, failed, hosts, guests>>
    BY <1>16 DEF AttachFails
  <2>2. CASE HasRoom /\ next_port < MaxPort
    <3>1. next_port' = next_port + 1 /\ resets' = Pushed(<<next_port + 1>>, {})
      BY <1>16, <2>2 DEF AttachFails
    <3>2. next_port + 1 \in Nat /\ next_port' \in 0 .. MaxPort
      BY <2>2, <3>1, MuxAssumption DEF Types
    <3>3. resets' \in Seq(Nat) /\ Len(resets') + Cardinality(Open) <= max_resets
      BY <3>1, <3>2, PushOne
    <3>4. Open' = Open /\ Open \subseteq 1 .. next_port'
      BY <2>1, <3>1 DEF Open, Types
    <3>5. Room'
      BY <3>3, <3>4 DEF Room, max_resets
    <3>6. \A d \in Callers : caller[d].port \in Nat /\ caller[d].port <= next_port
      BY DEF Types, Calls
    <3>7. \A d \in Callers : caller'[d].port <= next_port'
      BY <2>1, <3>1, <3>6 DEF hosts, Types
    <3> QED
      BY <2>1, <3>2, <3>3, <3>4, <3>5, <3>7 DEF Types, hosts, guests
  <2>3. CASE ~(HasRoom /\ next_port < MaxPort)
    <3>1. UNCHANGED <<next_port, resets>>
      BY <1>16, <2>3 DEF AttachFails
    <3> QED
      BY <2>1, <3>1 DEF Types, Room, Open, hosts, guests, max_resets
  <2> QED
    BY <2>2, <2>3
<1>17. CASE ProcessFails \/ Deactivate
  <2>1. /\ clear /\ transport' = "none" /\ failed' \in BOOLEAN /\ posted' = posted
        /\ rx' = rx \/ rx' = <<>>
        /\ unhandled' = unhandled \/ unhandled' = FALSE
    BY <1>17 DEF ProcessFails, Deactivate, guests
  <2>2. rx' \in Seq(Packets)
    <3>1. rx \in Seq(Packets) /\ <<>> \in Seq(Packets)
      BY EmptySeq DEF Types
    <3> QED
      BY <2>1, <3>1, Zenon
  <2>3. unhandled' \in BOOLEAN
    BY <2>1, Zenon DEF Types
  <2> QED
    BY <1>3, <2>1, <2>2, <2>3, Zenon
<1>18. CASE Activate
  BY <1>18, MuxAssumption
    DEF Activate, Types, Room, Open, mux, hosts, max_resets
<1>19. ASSUME NEW accepts \in BOOLEAN, GuestTakes(accepts)
       PROVE  Types' /\ Room'
  <2>1. rx # <<>> /\ rx' = Tail(rx)
        /\ UNCHANGED <<mux, state, hosts, posted, unhandled>>
    BY <1>19 DEF GuestTakes
  <2>2. rx' \in Seq(Packets)
    BY <2>1, HeadTailProperties DEF Types
  <2> QED
    BY <2>1, <2>2 DEF Types, Room, Open, mux, state, hosts, max_resets
<1>20. CASE GuestHandles
  <2>1. (posted + 1) % EventWrap \in 0 .. EventWrap - 1
    BY MuxAssumption DEF Types
  <2> QED
    BY <1>20, <2>1
      DEF GuestHandles, Types, Room, Open, mux, state, hosts, max_resets
<1>21. ASSUME NEW op, NEW p \in Ports, Receive(op, p) PROVE Types' /\ Room'
  <2>1. UNCHANGED <<state, rx, posted, unhandled>>
    BY <1>21 DEF Receive
  <2>2. CASE ReceiveUnknown(op, p)
    <3>1. UNCHANGED <<conns, next_port, caller>>
          /\ \/ resets' = resets \/ resets' = Pushed(<<NoPort>>, {})
             \/ resets' = Pushed(<<p>>, {})
      BY <2>2 DEF ReceiveUnknown
    <3>2. p \in Nat /\ NoPort \in Nat
      BY DEF Ports, NoPort
    <3>3. resets' \in Seq(Nat) /\ Len(resets') + Cardinality(Open) <= max_resets
      BY <1>5, <3>1, <3>2, PushOne
    <3> QED
      BY <1>4, <2>1, <3>1, <3>3 DEF Types
  <2>3. CASE ReceiveRst(op, p) \/ ReceiveReset(op, p)
    <3>1. {p} \in SUBSET Open /\ (Drop({p}, TRUE) \/ Drop({p}, FALSE))
      BY <2>3 DEF ReceiveRst, ReceiveReset
    <3> QED
      BY <1>1, <2>1, <3>1
  <2>4. CASE ReceiveResponse(op, p)
    <3>1. /\ p \in Open /\ conns' = [conns EXCEPT ![p].opener = "taken"]
          /\ caller' = [c \in Callers |->
               IF conns[p].opener = c THEN [caller[c] EXCEPT !.reply = "ok"]
               ELSE caller[c]]
          /\ UNCHANGED <<resets, next_port>>
      BY <2>4 DEF ReceiveResponse
    <3>2. conns \in [Open -> Connections]
      BY DEF Types
    <3>3. conns' \in [Open -> Connections]
      BY <3>1, <3>2 DEF Connections
    <3>4. Open' = Open
      BY <3>3 DEF Open
    <3>5. \A c \in Callers :
            /\ [caller[c] EXCEPT !.reply = "ok"] \in Calls
            /\ [caller[c] EXCEPT !.reply = "ok"].port = caller[c].port
      BY DEF Types, Calls
    <3>6. caller' \in [Callers -> Calls]
          /\ \A c \in Callers : caller'[c].port <= next_port
      BY <3>1, <3>5 DEF Types
    <3> QED
      BY <2>1, <3>1, <3>3, <3>4, <3>6 DEF Types, Room, state, max_resets
  <2>5. CASE ReceiveData(op, p)
    BY <1>4, <1>5, <2>1, <2>5 DEF ReceiveData, mux, Types
  <2> QED
    BY <1>21, <2>2, <2>3, <2>4, <2>5 DEF Receive
<1>22. CASE UNCHANGED vars
  BY <1>4, <1>5, <1>22 DEF vars, mux, state, hosts, guests, Types
<1> QED
  BY <1>6, <1>7, <1>8, <1>9, <1>10, <1>11, <1>12, <1>13, <1>14, <1>15, <1>16,
     <1>17, <1>18, <1>19, <1>20, <1>21, <1>22, Zenon DEF Next, GuestSends

----------------------------------------------------------------------------
(* Turns.                                                                  *)

\* The one whose turn it is comes before whoever else has something to send,
\* and stays behind them all from then on.
LEMMA TurnIsFirst ==
  ASSUME Types, last_port \in Nat, NEW r \in Wants, TurnOf(r),
         NEW p \in Wants, p # r
  PROVE  /\ ~Before(p, r)
         /\ \A q \in Ports : q # r /\ Before(p, q) =>
              IF p > r THEN q > p \/ q <= r ELSE p < q /\ q <= r
<1>1. r \in Nat /\ p \in Nat /\ \A q \in Ports : q \in Nat
  BY DEF Wants, Types, Ports
<1>2. IF \E q \in Wants : q > last_port
        THEN r > last_port /\ (p > last_port => r <= p)
        ELSE r <= p /\ ~(p > last_port) /\ ~(r > last_port)
  BY DEF TurnOf
<1> QED
  BY <1>1, <1>2 DEF Before

\* Every step keeps Turns: nobody is passed twice.
LEMMA TurnsKept == ASSUME Types, Turns, [Next]_vars PROVE Turns'
<1>1. ASSUME UNCHANGED <<last_port, passed>> PROVE Turns'
  BY <1>1 DEF Turns, Before
<1>2. \A p \in Ports : /\ NoTurns[p] \in [Ports -> {0, 1}]
                       /\ \A q \in Ports : NoTurns[p][q] = 0
  BY DEF NoTurns
<1>3. ASSUME NEW gone, last_port' = last_port,
             passed' = [p \in Ports |->
               IF p \in gone THEN NoTurns[p] ELSE passed[p]]
      PROVE  Turns'
  <2>1. passed' \in [Ports -> [Ports -> {0, 1}]]
    BY <1>2, <1>3 DEF Turns
  <2>2. ASSUME NEW p \in Ports, NEW q \in Ports, passed'[p][q] = 1
        PROVE  Before(p, q)'
    <3>1. passed[p][q] = 1
      BY <1>2, <1>3, <2>2
    <3> QED
      BY <1>3, <3>1 DEF Turns, Before
  <2> QED
    BY <1>3, <2>1, <2>2 DEF Turns
<1>4. ASSUME clear PROVE Turns'
  <2>1. last_port' = 0 /\ passed' = NoTurns
    BY <1>4 DEF clear
  <2>2. passed' \in [Ports -> [Ports -> {0, 1}]]
    BY <2>1 DEF NoTurns
  <2> QED
    BY <1>2, <2>1, <2>2 DEF Turns
<1>5. ASSUME NEW r \in Ports, NEW more \in BOOLEAN, FillTurn(r, more)
      PROVE  Turns'
  <2>1. /\ r \in Wants /\ TurnOf(r) /\ last_port' = r /\ r \in Nat
        /\ passed' = [q \in Ports |->
             IF q = r \/ q \notin Wants THEN NoTurns[q]
             ELSE [passed[q] EXCEPT ![r] = IF @ < 2 THEN @ + 1 ELSE @]]
    BY <1>5 DEF FillTurn, Ports
  <2>2. last_port \in Nat /\ passed \in [Ports -> [Ports -> {0, 1}]]
    BY DEF Turns
  <2>3. ASSUME NEW p \in Ports
        PROVE  /\ passed'[p] \in [Ports -> {0, 1}]
               /\ \A q \in Ports : passed'[p][q] = 1 => Before(p, q)'
    <3>1. CASE p = r \/ p \notin Wants
      <4>1. passed'[p] = NoTurns[p]
        BY <2>1, <3>1
      <4>2. \A q \in Ports : NoTurns[p][q] # 1
        BY <1>2
      <4> QED
        BY <1>2, <4>1, <4>2
    <3>2. CASE p # r /\ p \in Wants
      <4>1. passed'[p] = [passed[p] EXCEPT ![r] = IF @ < 2 THEN @ + 1 ELSE @]
        BY <2>1, <3>2
      <4>2. /\ ~Before(p, r)
            /\ \A q \in Ports : q # r /\ Before(p, q) =>
                 IF p > r THEN q > p \/ q <= r ELSE p < q /\ q <= r
        BY <2>1, <2>2, <3>2, TurnIsFirst
      <4>3. passed[p] \in [Ports -> {0, 1}] /\ passed[p][r] = 0
        BY <2>2, <4>2 DEF Turns
      <4>4. /\ passed'[p] \in [Ports -> {0, 1}]
            /\ \A q \in Ports : q # r => passed'[p][q] = passed[p][q]
        BY <4>1, <4>3
      <4>5. p \in Nat
        BY DEF Ports
      <4>6. ASSUME NEW q \in Ports, passed'[p][q] = 1 PROVE Before(p, q)'
        <5>1. CASE q = r
          BY <2>1, <3>2, <4>5, <5>1 DEF Before
        <5>2. CASE q # r
          <6>1. Before(p, q)
            BY <4>4, <4>6, <5>2 DEF Turns
          <6> QED
            BY <2>1, <4>2, <5>2, <6>1 DEF Before
        <5> QED
          BY <5>1, <5>2
      <4> QED
        BY <4>4, <4>6
    <3> QED
      BY <3>1, <3>2
  <2>4. passed' \in [Ports -> [Ports -> {0, 1}]]
    BY <2>1, <2>3
  <2> QED
    BY <2>1, <2>3, <2>4 DEF Turns
<1>6. ASSUME NEW gone, NEW rst, Drop(gone, rst) PROVE Turns'
  BY <1>3, <1>6 DEF Drop
<1>7. ASSUME NEW op, NEW p, Receive(op, p) PROVE Turns'
  <2>1. CASE ReceiveRst(op, p) \/ ReceiveReset(op, p)
    BY <1>6, <2>1 DEF ReceiveRst, ReceiveReset
  <2>2. CASE ReceiveUnknown(op, p) \/ ReceiveResponse(op, p) \/ ReceiveData(op, p)
    BY <1>1, <2>2 DEF ReceiveUnknown, ReceiveResponse, ReceiveData, mux
  <2> QED
    BY <1>7, <2>1, <2>2 DEF Receive
<1>8. CASE \E gone \in SUBSET Open : PumpCancels(gone)
  BY <1>6, <1>8 DEF PumpCancels
<1>9. ASSUME NEW p \in Ports, FillError(p) PROVE Turns'
  BY <1>6, <1>9 DEF FillError
<1>10. ASSUME NEW c \in Callers, Cancels(c) PROVE Turns'
  BY <1>3, <1>10 DEF Cancels
<1>11. CASE ProcessFails \/ Deactivate
  BY <1>4, <1>11 DEF ProcessFails, Deactivate
<1>12. ASSUME \/ FillReset \/ \E p \in Ports : Wake(p)
              \/ \E c \in Callers : Connect(c) \/ Connected(c) \/ GivesUp(c)
       PROVE  Turns'
  BY <1>1, <1>12
    DEF FillReset, Wake, Connect, Attaches, Connected, GivesUp, mux
<1>13. ASSUME NEW l \in Clients,
              Accept(l) \/ \E attached \in BOOLEAN : HandshakeEnds(l, attached)
       PROVE  Turns'
  BY <1>1, <1>13 DEF Accept, HandshakeEnds, Attaches, mux
<1>14. CASE \/ AttachFails \/ Activate \/ GuestHandles \/ UNCHANGED vars
            \/ \E accepts \in BOOLEAN : GuestTakes(accepts)
  BY <1>1, <1>14
    DEF AttachFails, Activate, GuestHandles, GuestTakes, mux, vars
<1> QED
  BY <1>5, <1>7, <1>8, <1>9, <1>10, <1>11, <1>12, <1>13, <1>14, Zenon
    DEF Next, GuestSends

----------------------------------------------------------------------------
(* The reset event of a restored guest.                                    *)

\* An event that is one ahead of the ring is not handled, also where the
\* index wraps.
LEMMA OneAhead ==
  ASSUME Types PROVE ~Handled((posted + 1) % EventWrap)
<1>1. EventWrap \in Nat /\ EventWrap > 1 /\ posted \in 0 .. EventWrap - 1
  BY MuxAssumption DEF Types
<1>2. CASE posted + 1 < EventWrap
  <2>1. (posted + 1) % EventWrap = posted + 1
    BY <1>1, <1>2
  <2>2. (posted - (posted + 1)) % EventWrap = EventWrap - 1
    BY <1>1
  <2>3. ~(EventWrap - 1 < EventWrap \div 2)
    BY <1>1
  <2> QED
    BY <2>1, <2>2, <2>3 DEF Handled
<1>3. CASE posted + 1 = EventWrap
  <2>1. (posted + 1) % EventWrap = 0
    BY <1>1, <1>3
  <2>2. (posted - 0) % EventWrap = EventWrap - 1
    BY <1>1, <1>3
  <2>3. ~(EventWrap - 1 < EventWrap \div 2)
    BY <1>1
  <2> QED
    BY <2>1, <2>2, <2>3 DEF Handled
<1> QED
  BY <1>1, <1>2, <1>3

\* Every step keeps Awaiting: connects wait for the guest.
LEMMA AwaitingKept ==
  ASSUME Types, Room, Awaiting, [Next]_vars PROVE Awaiting'
<1>1. unhandled /\ ~failed => ~accepts_connects
  <2>1. (posted + 1) % EventWrap \in Nat
    BY MuxAssumption DEF Types
  <2>2. unhandled /\ ~failed => resetting # None /\ ~Handled(resetting)
    BY <2>1, OneAhead, MuxAssumption DEF Awaiting
  <2> QED
    BY <2>2 DEF accepts_connects
<1>2. ASSUME Open' \subseteq Open, UNCHANGED <<state, posted, unhandled>>
      PROVE  Awaiting'
  BY <1>2 DEF Awaiting, state
<1>3. ASSUME NEW opener \in Callers \cup {"Listener"}, Attaches(opener),
             unhandled' = unhandled
      PROVE  Awaiting'
  <2>1. ~unhandled' /\ ~failed'
    BY <1>1, <1>3 DEF Attaches
  <2> QED
    BY <2>1 DEF Awaiting
<1>4. ASSUME NEW gone, NEW rst, Drop(gone, rst) PROVE Open' \subseteq Open
  BY <1>4 DEF Drop, Open
<1>5. ASSUME NEW op, NEW p, Receive(op, p) PROVE Awaiting'
  <2>1. UNCHANGED <<state, posted, unhandled>>
    BY <1>5 DEF Receive
  <2>2. CASE ReceiveRst(op, p) \/ ReceiveReset(op, p)
    BY <1>2, <1>4, <2>1, <2>2 DEF ReceiveRst, ReceiveReset
  <2>3. CASE ReceiveUnknown(op, p) \/ ReceiveData(op, p)
    BY <1>2, <2>1, <2>3 DEF ReceiveUnknown, ReceiveData, mux, Open
  <2>4. CASE ReceiveResponse(op, p)
    BY <1>2, <2>1, <2>4 DEF ReceiveResponse, Open
  <2> QED
    BY <1>5, <2>2, <2>3, <2>4 DEF Receive
<1>6. CASE \E gone \in SUBSET Open : PumpCancels(gone)
  BY <1>2, <1>4, <1>6 DEF PumpCancels, guests
<1>7. ASSUME NEW p \in Ports, NEW more \in BOOLEAN, FillTurn(p, more)
      PROVE  Awaiting'
  BY <1>2, <1>7 DEF FillTurn, Open
<1>8. ASSUME NEW p \in Ports, FillError(p) \/ Wake(p) PROVE Awaiting'
  BY <1>2, <1>4, <1>8 DEF FillError, Wake, guests, Open
<1>9. CASE FillReset
  BY <1>2, <1>9 DEF FillReset, Open
<1>10. ASSUME NEW c \in Callers, Connect(c) PROVE Awaiting'
  BY <1>3, <1>10 DEF Connect, guests
<1>11. ASSUME NEW c \in Callers, Connected(c) \/ GivesUp(c) \/ Cancels(c)
       PROVE  Awaiting'
  BY <1>2, <1>11 DEF Connected, GivesUp, Cancels, mux, guests, Open
<1>12. ASSUME NEW l \in Clients,
              Accept(l) \/ \E attached \in BOOLEAN : HandshakeEnds(l, attached)
       PROVE  Awaiting'
  <2>1. UNCHANGED guests /\ (Attaches("Listener") \/ UNCHANGED <<mux, state>>)
    BY <1>12 DEF Accept, HandshakeEnds
  <2> QED
    BY <1>2, <1>3, <2>1 DEF mux, guests, Open
<1>13. CASE AttachFails
  <2>1. ~unhandled' /\ ~failed'
    BY <1>1, <1>13 DEF AttachFails, guests
  <2> QED
    BY <2>1 DEF Awaiting
<1>14. CASE ProcessFails \/ Deactivate
  <2>1. clear /\ transport' = "none"
    BY <1>14 DEF ProcessFails, Deactivate
  <2>2. Open' = {}
    BY <2>1, ClearDoes
  <2>3. unhandled' => failed'
    BY <1>14 DEF ProcessFails, Deactivate
  <2> QED
    BY <2>1, <2>2, <2>3 DEF Awaiting
<1>15. CASE Activate
  <2>1. ~failed' /\ ~unhandled'
    BY <1>15 DEF Activate, Awaiting
  <2> QED
    BY <2>1 DEF Awaiting
<1>16. CASE GuestHandles
  <2>1. ~unhandled' /\ UNCHANGED <<failed, transport>>
    BY <1>16 DEF GuestHandles, state
  <2> QED
    BY <2>1 DEF Awaiting
<1>17. CASE UNCHANGED vars \/ \E accepts \in BOOLEAN : GuestTakes(accepts)
  BY <1>2, <1>17 DEF GuestTakes, vars, mux, guests, Open
<1> QED
  BY <1>5, <1>6, <1>7, <1>8, <1>9, <1>10, <1>11, <1>12, <1>13, <1>14, <1>15,
     <1>16, <1>17, Zenon DEF Next, GuestSends

----------------------------------------------------------------------------
(* Callers and their connections.                                          *)

\* Every step keeps Calling: a caller knows its own connection.
LEMMA CallingKept ==
  ASSUME Types, Room, Calling, [Next]_vars PROVE Calling'
<1>1. ASSUME UNCHANGED <<conns, caller>> PROVE Calling'
  BY <1>1 DEF Calling, Open
<1>2. ASSUME NEW gone \in SUBSET Open,
             conns' = [p \in Open \ gone |-> conns[p]],
             NEW c \in Callers,
             \/ caller'[c] = Answered(gone)[c]
             \/ caller'[c].pc = "idle" /\ caller[c].pc # "idle"
                /\ gone = {caller[c].port} \cap Open,
             NEW p \in Open'
      PROVE  /\ conns'[p].opener = c =>
                  /\ caller'[c].pc # "idle" /\ caller'[c].port = p
                  /\ caller'[c].reply = "none"
             /\ caller'[c].pc # "idle" /\ caller'[c].port = p =>
                  \/ conns'[p].opener = c
                  \/ conns'[p].opener = "taken" /\ caller'[c].reply = "ok"
  <2>1. p \in Open /\ p \notin gone /\ conns'[p] = conns[p]
    BY <1>2 DEF Open
  <2>2. /\ conns[p].opener = c =>
             caller[c].pc # "idle" /\ caller[c].port = p /\ caller[c].reply = "none"
        /\ caller[c].pc # "idle" /\ caller[c].port = p =>
             \/ conns[p].opener = c
             \/ conns[p].opener = "taken" /\ caller[c].reply = "ok"
    BY <2>1 DEF Calling
  <2>3. CASE /\ caller'[c] = Answered(gone)[c]
             /\ \A q \in gone : conns[q].opener # c
    <3>1. caller'[c] = caller[c]
      BY <2>3, AnsweredDoes
    <3> QED
      BY <2>1, <2>2, <3>1
  <2>4. CASE /\ caller'[c] = Answered(gone)[c]
             /\ \E q \in gone : conns[q].opener = c
    <3>1. PICK q \in gone : conns[q].opener = c
      BY <2>4
    <3>2. caller[c].port = q /\ q # p
      BY <2>1, <3>1 DEF Calling
    <3>3. caller'[c].port = q
      BY <2>4, <3>2, AnsweredDoes
    <3> QED
      BY <2>1, <2>2, <3>2, <3>3
  <2>5. CASE /\ caller'[c].pc = "idle" /\ caller[c].pc # "idle"
             /\ gone = {caller[c].port} \cap Open
    BY <2>1, <2>2, <2>5
  <2> QED
    BY <1>2, <2>3, <2>4, <2>5
<1>3. ASSUME NEW gone \in SUBSET Open, NEW rst, Drop(gone, rst) PROVE Calling'
  <2>1. conns' = [p \in Open \ gone |-> conns[p]] /\ caller' = Answered(gone)
    BY <1>3 DEF Drop
  <2> QED
    BY <1>2, <2>1, ZenonT(30) DEF Calling
<1>4. \A c \in Callers : /\ c # "taken" /\ c # "Listener"
                         /\ caller[c].port # next_port + 1
  <2>1. \A c \in Callers : /\ caller[c].port \in Nat /\ next_port \in Nat
                           /\ caller[c].port <= next_port
    BY DEF Types, Calls
  <2> QED
    BY <2>1, MuxAssumption
<1>5. ASSUME NEW c \in Callers, Connect(c) PROVE Calling'
  <2>1. /\ Attaches(c) /\ caller[c].pc = "idle"
        /\ caller' = [caller EXCEPT ![c] =
             [pc |-> "waiting", port |-> next_port + 1, reply |-> "none"]]
    BY <1>5 DEF Connect
  <2>2. /\ next_port + 1 \notin Open /\ Open' = Open \cup {next_port + 1}
        /\ \A p \in Open : conns'[p] = conns[p]
        /\ conns'[next_port + 1].opener = c
    <3>1. c \in Callers \cup {"Listener"}
      OBVIOUS
    <3>2. /\ next_port + 1 \notin Open /\ Open' = Open \cup {next_port + 1}
          /\ \A p \in Open : conns'[p] = conns[p]
          /\ conns'[next_port + 1] = [opener |-> c, send_request |-> TRUE]
      BY <2>1, <3>1, AttachesDoes, Zenon
    <3> QED
      BY <3>2
  <2>3. /\ caller'[c].pc = "waiting" /\ caller'[c].port = next_port + 1
        /\ caller'[c].reply = "none"
        /\ \A d \in Callers : d # c => caller'[d] = caller[d]
    BY <2>1 DEF Types
  <2>4. \A p \in Open : conns[p].opener # c
    BY <2>1 DEF Calling
  <2> QED
    BY <1>4, <2>2, <2>3, <2>4 DEF Calling
<1>6. ASSUME Attaches("Listener"), caller' = caller PROVE Calling'
  <2>1. /\ next_port + 1 \notin Open /\ Open' = Open \cup {next_port + 1}
        /\ \A p \in Open : conns'[p] = conns[p]
        /\ conns'[next_port + 1].opener = "Listener"
    <3>1. "Listener" \in Callers \cup {"Listener"}
      OBVIOUS
    <3>2. /\ next_port + 1 \notin Open /\ Open' = Open \cup {next_port + 1}
          /\ \A p \in Open : conns'[p] = conns[p]
          /\ conns'[next_port + 1] = [opener |-> "Listener", send_request |-> TRUE]
      BY <1>6, <3>1, AttachesDoes, Zenon
    <3> QED
      BY <3>2
  <2> QED
    BY <1>4, <1>6, <2>1 DEF Calling
<1>7. ASSUME NEW c \in Callers, Connected(c) PROVE Calling'
  <2>1. /\ caller[c].reply = "ok" /\ UNCHANGED conns
        /\ caller' = [caller EXCEPT ![c] = NoCall]
    BY <1>7 DEF Connected, mux
  <2>2. /\ caller'[c].pc = "idle"
        /\ \A d \in Callers : d # c => caller'[d] = caller[d]
    BY <2>1 DEF Types, NoCall
  <2>3. \A p \in Open : conns[p].opener # c
    BY <2>1 DEF Calling
  <2> QED
    BY <2>1, <2>2, <2>3 DEF Calling, Open
<1>8. ASSUME NEW c \in Callers, GivesUp(c) PROVE Calling'
  <2>1. /\ caller[c].pc = "waiting" /\ UNCHANGED conns
        /\ caller' = [caller EXCEPT ![c].pc = "giving_up"]
    BY <1>8 DEF GivesUp, mux
  <2>2. caller[c] \in Calls
    BY DEF Types
  <2>3. /\ caller'[c].pc = "giving_up" /\ caller'[c].port = caller[c].port
        /\ caller'[c].reply = caller[c].reply
        /\ \A d \in Callers : d # c => caller'[d] = caller[d]
    BY <2>1, <2>2 DEF Types, Calls
  <2> QED
    BY <2>1, <2>3 DEF Calling, Open
<1>9. ASSUME NEW c \in Callers, Cancels(c) PROVE Calling'
  <2> DEFINE gone == {caller[c].port} \cap Open
  <2>1. /\ caller[c].pc # "idle"
        /\ conns' = [p \in Open \ gone |-> conns[p]]
        /\ caller' = [Answered(gone) EXCEPT ![c] = NoCall]
    BY <1>9 DEF Cancels
  <2>2. gone \in SUBSET Open
    OBVIOUS
  <2>3. Answered(gone) \in [Callers -> Calls]
    BY AnsweredDoes
  <2>4. \A d \in Callers : \/ caller'[d] = Answered(gone)[d]
                           \/ d = c /\ caller'[d].pc = "idle"
    BY <2>1, <2>3 DEF NoCall
  <2>5. ASSUME NEW d \in Callers
        PROVE  \/ caller'[d] = Answered(gone)[d]
               \/ caller'[d].pc = "idle" /\ caller[d].pc # "idle"
                  /\ gone = {caller[d].port} \cap Open
    BY <2>1, <2>4
  <2> HIDE DEF gone
  <2>6. ASSUME NEW p \in Open', NEW d \in Callers
        PROVE  /\ conns'[p].opener = d =>
                    /\ caller'[d].pc # "idle" /\ caller'[d].port = p
                    /\ caller'[d].reply = "none"
               /\ caller'[d].pc # "idle" /\ caller'[d].port = p =>
                    \/ conns'[p].opener = d
                    \/ conns'[p].opener = "taken" /\ caller'[d].reply = "ok"
    BY <1>2, <2>1, <2>2, <2>5, SMTT(30)
  <2> QED
    BY <2>6, Zenon DEF Calling
<1>10. ASSUME NEW op, NEW p \in Ports, Receive(op, p) PROVE Calling'
  <2>1. CASE ReceiveRst(op, p) \/ ReceiveReset(op, p)
    <3>1. {p} \in SUBSET Open /\ \E rst \in BOOLEAN : Drop({p}, rst)
      BY <2>1 DEF ReceiveRst, ReceiveReset
    <3> QED
      BY <1>3, <3>1
  <2>2. CASE ReceiveUnknown(op, p) \/ ReceiveData(op, p)
    BY <1>1, <2>2 DEF ReceiveUnknown, ReceiveData, mux
  <2>3. CASE ReceiveResponse(op, p)
    <3>1. /\ p \in Open /\ conns[p].opener # "taken"
          /\ conns' = [conns EXCEPT ![p].opener = "taken"]
          /\ caller' = [c \in Callers |->
               IF conns[p].opener = c THEN [caller[c] EXCEPT !.reply = "ok"]
               ELSE caller[c]]
      BY <2>3 DEF ReceiveResponse
    <3>2. conns[p] \in Connections /\ conns \in [Open -> Connections]
      BY <3>1 DEF Types
    <3>3. /\ Open' = Open /\ conns'[p].opener = "taken"
          /\ \A q \in Open : q # p => conns'[q] = conns[q]
      BY <3>1, <3>2 DEF Open, Connections
    <3>4. \A c \in Callers :
            IF conns[p].opener = c
              THEN /\ caller'[c].pc = caller[c].pc /\ caller'[c].reply = "ok"
                   /\ caller'[c].port = caller[c].port
              ELSE caller'[c] = caller[c]
      <4>1. \A c \in Callers :
              /\ [caller[c] EXCEPT !.reply = "ok"].pc = caller[c].pc
              /\ [caller[c] EXCEPT !.reply = "ok"].port = caller[c].port
              /\ [caller[c] EXCEPT !.reply = "ok"].reply = "ok"
        BY DEF Types, Calls
      <4> QED
        BY <3>1, <4>1
    <3> QED
      BY <1>4, <3>1, <3>3, <3>4 DEF Calling
  <2> QED
    BY <1>10, <2>1, <2>2, <2>3 DEF Receive
<1>11. CASE \E gone \in SUBSET Open : PumpCancels(gone)
  BY <1>3, <1>11 DEF PumpCancels
<1>12. ASSUME NEW p \in Ports, NEW more \in BOOLEAN, FillTurn(p, more)
       PROVE  Calling'
  <2>1. /\ p \in Open /\ caller' = caller
        /\ conns' = conns \/ conns' = [conns EXCEPT ![p].send_request = FALSE]
    BY <1>12 DEF FillTurn, Wants, hosts
  <2>2. conns[p] \in Connections /\ conns \in [Open -> Connections]
    BY <2>1 DEF Types
  <2>3. Open' = Open /\ \A q \in Open : conns'[q].opener = conns[q].opener
    BY <2>1, <2>2 DEF Open, Connections
  <2> QED
    BY <2>1, <2>3 DEF Calling
<1>13. ASSUME NEW p \in Ports, FillError(p) PROVE Calling'
  <2>1. {p} \in SUBSET Open /\ Drop({p}, TRUE)
    BY <1>13 DEF FillError
  <2> QED
    BY <1>3, <2>1
<1>14. CASE ProcessFails \/ Deactivate
  <2>1. Open' = {}
    BY <1>14, ClearDoes DEF ProcessFails, Deactivate
  <2> QED
    BY <2>1 DEF Calling
<1>15. ASSUME NEW l \in Clients,
              Accept(l) \/ \E attached \in BOOLEAN : HandshakeEnds(l, attached)
       PROVE  Calling'
  BY <1>1, <1>6, <1>15 DEF Accept, HandshakeEnds, mux
<1>16. CASE \/ FillReset \/ \E p \in Ports : Wake(p)
  BY <1>1, <1>16 DEF FillReset, Wake, hosts
<1>17. CASE \/ AttachFails \/ Activate \/ GuestHandles \/ UNCHANGED vars
            \/ \E accepts \in BOOLEAN : GuestTakes(accepts)
  BY <1>1, <1>17
    DEF AttachFails, Activate, GuestHandles, GuestTakes, mux, hosts, vars
<1> QED
  BY <1>5, <1>7, <1>8, <1>9, <1>10, <1>11, <1>12, <1>13, <1>14, <1>15, <1>16,
     <1>17, Zenon DEF Next, GuestSends

----------------------------------------------------------------------------
(* What the guest hears.                                                   *)

\* Connections end or begin and the guest may lose sockets; whatever ends is
\* told, or is nothing to the guest.
LEMMA HearingStays ==
  ASSUME Types, Hearing, UNCHANGED <<transport, failed, unhandled, rx>>,
         guest' \subseteq guest, NEW gone, Open \ gone \subseteq Open',
         \A p : Member(resets, p) => Member(resets', p),
         \A p \in gone :
           \/ Member(resets', p)
           \/ /\ p \notin guest'
              /\ \A i \in 1 .. Len(rx) :
                   ~(rx[i].op = "REQUEST" /\ rx[i].port = p)
  PROVE  Hearing'
<1>1. \A p, i : Told(p, i) => Told(p, i)'
  BY DEF Told
<1>2. transport' = "none" /\ ~failed' => guest' = {} /\ rx' = <<>>
  BY DEF Hearing
<1>3. ASSUME transport = "up", ~unhandled, NEW p \in guest' \ Open'
      PROVE  Told(p, 0)'
  <2>1. CASE p \in gone
    BY <1>3, <2>1 DEF Told
  <2>2. CASE p \notin gone
    BY <1>1, <1>3, <2>2 DEF Hearing
  <2> QED
    BY <2>1, <2>2
<1>4. ASSUME transport = "up", NEW i \in 1 .. Len(rx), rx[i].op = "REQUEST",
             rx[i].port \notin Open'
      PROVE  Told(rx[i].port, i)'
  <2> DEFINE p == rx[i].port
  <2>1. CASE p \in gone
    BY <1>4, <2>1 DEF Told
  <2>2. CASE p \notin gone
    <3>1. Told(p, i)
      BY <1>4, <2>2 DEF Hearing
    <3> QED
      BY <1>1, <3>1
  <2> QED
    BY <2>1, <2>2
<1> QED
  BY <1>2, <1>3, <1>4 DEF Hearing

\* A packet goes into rx; an RST that was pending is now there.
LEMMA HearingAppends ==
  ASSUME Types, Hearing, UNCHANGED <<transport, failed, unhandled, guest>>,
         transport = "up", Open' = Open, NEW m \in Packets,
         rx' = Append(rx, m),
         m.op = "REQUEST" => m.port \in Open,
         \A p : Member(resets, p) => Member(resets', p) \/ m = Packet("RST", p)
  PROVE  Hearing'
<1>1. /\ Len(rx) \in Nat /\ Len(rx') = Len(rx) + 1 /\ rx'[Len(rx) + 1] = m
      /\ \A i \in 1 .. Len(rx) : rx'[i] = rx[i]
  BY AppendProperties, LenProperties DEF Types
<1>2. ASSUME NEW p, NEW i \in 0 .. Len(rx), Told(p, i) PROVE Told(p, i)'
  <2>1. CASE Member(resets', p)
    BY <2>1 DEF Told
  <2>2. CASE m = Packet("RST", p)
    <3>1. Len(rx) + 1 \in 1 .. Len(rx') /\ Len(rx) + 1 > i
      BY <1>1
    <3> QED
      BY <1>1, <2>2, <3>1 DEF Told
  <2>3. CASE \E k \in 1 .. Len(rx) : k > i /\ rx[k] = Packet("RST", p)
    <3>1. PICK k \in 1 .. Len(rx) : k > i /\ rx[k] = Packet("RST", p)
      BY <2>3
    <3>2. k \in 1 .. Len(rx') /\ rx'[k] = Packet("RST", p)
      BY <1>1, <3>1
    <3> QED
      BY <3>1, <3>2 DEF Told
  <2> QED
    BY <1>2, <2>1, <2>2, <2>3 DEF Told
<1>3. ASSUME ~unhandled, NEW p \in guest \ Open PROVE Told(p, 0)'
  <2>1. Told(p, 0) /\ 0 \in 0 .. Len(rx)
    BY <1>1, <1>3 DEF Hearing
  <2> QED
    BY <1>2, <2>1
<1>4. ASSUME NEW i \in 1 .. Len(rx'), rx'[i].op = "REQUEST",
             NEW p, p = rx'[i].port, p \notin Open
      PROVE  Told(p, i)'
  <2>1. i \in 1 .. Len(rx) /\ rx'[i] = rx[i]
    BY <1>1, <1>4
  <2>2. Told(p, i) /\ i \in 0 .. Len(rx)
    BY <1>1, <1>4, <2>1 DEF Hearing
  <2> QED
    BY <1>2, <2>2
<1> QED
  BY <1>3, <1>4 DEF Hearing, Told

\* Every step keeps Hearing: a socket the guest has is open or told.
LEMMA HearingKept ==
  ASSUME Types, Room, Hearing, [Next]_vars PROVE Hearing'
<1>1. ASSUME UNCHANGED <<transport, failed, unhandled, rx, guest>>,
             Open \subseteq Open',
             \A p : Member(resets, p) => Member(resets', p)
      PROVE  Hearing'
  BY <1>1, HearingStays
<1>2. ASSUME NEW gone \in SUBSET Open,
             conns' = [p \in Open \ gone |-> conns[p]],
             resets' = Pushed(Ascending(gone), gone),
             UNCHANGED <<transport, failed, unhandled, rx, guest>>
      PROVE  Hearing'
  <2>1. Open \ gone \subseteq Open'
    BY <1>2 DEF Open
  <2>2. \A p : Member(resets, p) \/ p \in gone => Member(resets', p)
    BY <1>2, PushAll
  <2> QED
    BY <1>2, <2>1, <2>2, HearingStays
<1>3. ASSUME NEW gone \in SUBSET Open, Drop(gone, TRUE),
             UNCHANGED <<transport, failed, unhandled, rx, guest>>
      PROVE  Hearing'
  BY <1>2, <1>3 DEF Drop
<1>4. CASE \E gone \in SUBSET Open : PumpCancels(gone)
  BY <1>3, <1>4 DEF PumpCancels, state, guests
<1>5. CASE FillReset
  <2> DEFINE m == Packet("RST", Head(resets))
  <2>1. /\ transport = "up" /\ resets # <<>> /\ rx' = Append(rx, m)
        /\ resets' = Tail(resets)
        /\ UNCHANGED <<conns, transport, failed, guest, unhandled>>
    BY <1>5 DEF FillReset, state
  <2>2. resets \in Seq(Nat) /\ Len(resets) \in Nat
    BY DEF Types
  <2>3. /\ Head(resets) \in Nat /\ Len(Tail(resets)) = Len(resets) - 1
        /\ \A i \in 1 .. Len(Tail(resets)) : Tail(resets)[i] = resets[i + 1]
        /\ Head(resets) = resets[1]
    BY <2>1, <2>2, HeadTailProperties
  <2>4. m \in Packets /\ m.op # "REQUEST"
    BY <2>3, Packing
  <2>5. ASSUME NEW p, Member(resets, p)
        PROVE  Member(resets', p) \/ m = Packet("RST", p)
    <3>1. PICK k \in 1 .. Len(resets) : resets[k] = p
      BY <2>5 DEF Member
    <3>2. CASE k = 1
      BY <2>3, <3>1, <3>2
    <3>3. CASE k # 1
      <4>1. k - 1 \in 1 .. Len(Tail(resets)) /\ (k - 1) + 1 = k
        BY <2>2, <2>3, <3>1, <3>3
      <4>2. Tail(resets)[k - 1] = p
        BY <2>3, <3>1, <4>1
      <4> QED
        BY <2>1, <4>1, <4>2 DEF Member
    <3> QED
      BY <3>2, <3>3
  <2> HIDE DEF m
  <2> QED
    BY <2>1, <2>4, <2>5, HearingAppends DEF Open
<1>6. ASSUME NEW p \in Ports, NEW more \in BOOLEAN, FillTurn(p, more)
      PROVE  Hearing'
  <2>1. PICK op \in {"DATA", "REQUEST"} : rx' = Append(rx, Packet(op, p))
    BY <1>6 DEF FillTurn
  <2>2. /\ transport = "up" /\ p \in Open /\ Open' = Open
        /\ UNCHANGED <<resets, transport, failed, guest, unhandled>>
    BY <1>6 DEF FillTurn, Wants, state, Open
  <2>3. Packet(op, p) \in Packets /\ Packet(op, p).port = p
    BY Packing DEF Ports
  <2> QED
    BY <2>1, <2>2, <2>3, HearingAppends
<1>7. ASSUME NEW p \in Ports, FillError(p) PROVE Hearing'
  <2>1. {p} \in SUBSET Open /\ Drop({p}, TRUE) /\ UNCHANGED <<state, guests>>
    BY <1>7 DEF FillError
  <2> QED
    BY <1>3, <2>1 DEF state, guests
<1>8. ASSUME NEW c \in Callers, Cancels(c) PROVE Hearing'
  <2> DEFINE gone == {caller[c].port} \cap Open
  <2>1. /\ conns' = [p \in Open \ gone |-> conns[p]]
        /\ resets' = Pushed(Ascending(gone), gone)
        /\ UNCHANGED <<state, guests>>
    BY <1>8 DEF Cancels
  <2>2. gone \in SUBSET Open
    OBVIOUS
  <2> HIDE DEF gone
  <2> QED
    BY <1>2, <2>1, <2>2 DEF state, guests
<1>9. ASSUME NEW opener \in Callers \cup {"Listener"}, Attaches(opener),
             UNCHANGED guests
      PROVE  Hearing'
  <2>1. Open \subseteq Open' /\ UNCHANGED <<resets, transport, failed>>
    BY <1>9, AttachesDoes
  <2> QED
    BY <1>1, <1>9, <2>1 DEF guests
<1>10. ASSUME NEW c \in Callers, Connect(c) PROVE Hearing'
  BY <1>9, <1>10 DEF Connect
<1>11. ASSUME NEW l \in Clients,
              Accept(l) \/ \E attached \in BOOLEAN : HandshakeEnds(l, attached)
       PROVE  Hearing'
  <2>1. UNCHANGED guests /\ (Attaches("Listener") \/ UNCHANGED <<mux, state>>)
    BY <1>11 DEF Accept, HandshakeEnds
  <2> QED
    BY <1>1, <1>9, <2>1 DEF mux, state, guests, Open
<1>12. CASE AttachFails
  <2>1. UNCHANGED <<conns, transport, failed, guests>>
    BY <1>12 DEF AttachFails
  <2>2. resets' = resets \/ resets' = Pushed(<<next_port + 1>>, {})
    BY <1>12 DEF AttachFails
  <2>3. next_port + 1 \in Nat
    BY DEF Types
  <2>4. \A p : Member(resets, p) => Member(resets', p)
    BY <2>2, <2>3, PushOne
  <2> QED
    BY <1>1, <2>1, <2>4 DEF guests, Open
<1>13. CASE ProcessFails \/ Deactivate
  BY <1>13 DEF ProcessFails, Deactivate, Hearing
<1>14. CASE Activate
  <2>1. guest' = {} /\ rx' = <<>>
    BY <1>14 DEF Activate, Hearing
  <2>2. Len(<<>>) = 0
    OBVIOUS
  <2>3. \A i \in 1 .. Len(rx') : FALSE
    BY <2>1, <2>2
  <2> QED
    BY <2>1, <2>3 DEF Hearing
<1>15. CASE GuestHandles
  <2>1. guest' = {} /\ UNCHANGED <<conns, resets, transport, failed, rx>>
    BY <1>15 DEF GuestHandles, mux, state
  <2> QED
    BY <2>1 DEF Hearing, Told, Open
<1>16. ASSUME NEW accepts \in BOOLEAN, GuestTakes(accepts) PROVE Hearing'
  <2>1. /\ rx # <<>> /\ rx' = Tail(rx)
        /\ guest' = CASE Head(rx).op = "RST" -> guest \ {Head(rx).port}
                      [] Head(rx).op = "REQUEST" /\ accepts
                           -> guest \cup {Head(rx).port}
                      [] OTHER -> guest
        /\ UNCHANGED <<conns, resets, transport, failed, unhandled>>
    BY <1>16 DEF GuestTakes, mux, state
  <2>2. /\ Len(rx) \in Nat \ {0} /\ Head(rx) = rx[1]
        /\ Len(rx') = Len(rx) - 1
        /\ \A i \in 1 .. Len(rx') : rx'[i] = rx[i + 1]
    BY <2>1, HeadTailProperties, EmptySeq DEF Types
  <2>3. ASSUME NEW p, NEW i \in 1 .. Len(rx), Told(p, i) PROVE Told(p, i - 1)'
    <3>1. CASE Member(resets, p)
      BY <2>1, <3>1 DEF Told
    <3>2. CASE \E k \in 1 .. Len(rx) : k > i /\ rx[k] = Packet("RST", p)
      <4>1. PICK k \in 1 .. Len(rx) : k > i /\ rx[k] = Packet("RST", p)
        BY <3>2
      <4>2. k - 1 \in 1 .. Len(rx') /\ k - 1 > i - 1 /\ (k - 1) + 1 = k
        BY <2>2, <4>1
      <4>3. rx'[k - 1] = Packet("RST", p)
        BY <2>2, <4>1, <4>2
      <4> QED
        BY <4>2, <4>3 DEF Told
    <3> QED
      BY <2>3, <3>1, <3>2 DEF Told
  <2>4. 1 \in 1 .. Len(rx) /\ 1 - 1 = 0
    BY <2>2
  <2>5. ASSUME transport = "up", ~unhandled, NEW p \in guest', p \notin Open
        PROVE  Told(p, 0)'
    <3>1. CASE p \in guest
      <4>1. Told(p, 0)
        BY <2>5, <3>1 DEF Hearing
      <4>2. rx[1] # Packet("RST", p)
        <5>1. Packet("RST", p).op = "RST" /\ Packet("RST", p).port = p
          BY DEF Packet
        <5> QED
          BY <2>1, <2>2, <2>5, <5>1
      <4>3. Told(p, 1)
        BY <4>1, <4>2, <2>2 DEF Told
      <4> QED
        BY <2>3, <2>4, <4>3
    <3>2. CASE p \notin guest
      <4>1. rx[1].op = "REQUEST" /\ p = rx[1].port
        BY <2>1, <2>2, <2>5, <3>2
      <4>2. Told(p, 1)
        BY <2>4, <2>5, <4>1 DEF Hearing
      <4> QED
        BY <2>3, <2>4, <4>2
    <3> QED
      BY <3>1, <3>2
  <2>6. ASSUME transport = "up", NEW i \in 1 .. Len(rx'),
               rx'[i].op = "REQUEST", NEW p, p = rx'[i].port, p \notin Open
        PROVE  Told(p, i)'
    <3>1. i + 1 \in 1 .. Len(rx) /\ rx'[i] = rx[i + 1] /\ (i + 1) - 1 = i
      BY <2>2
    <3>2. Told(p, i + 1)
      BY <2>6, <3>1 DEF Hearing
    <3> QED
      BY <2>3, <3>1, <3>2
  <2>7. ~(transport = "none" /\ ~failed) /\ Open' = Open
    BY <2>1 DEF Hearing, Open
  <2> QED
    BY <2>1, <2>5, <2>6, <2>7 DEF Hearing, Told
<1>17. ASSUME NEW op, NEW p \in Ports,
              op = "RST" => \A i \in 1 .. Len(rx) : rx[i] # Packet("REQUEST", p),
              Receive(op, p)
       PROVE  Hearing'
  <2>1. /\ UNCHANGED <<transport, failed, rx, unhandled>>
        /\ guest' = IF op = "RST" THEN guest \ {p} ELSE guest
    BY <1>17 DEF Receive, state
  <2>2. CASE ReceiveUnknown(op, p)
    <3>1. UNCHANGED conns
          /\ \/ resets' = resets \/ resets' = Pushed(<<NoPort>>, {})
             \/ resets' = Pushed(<<p>>, {})
      BY <2>2 DEF ReceiveUnknown
    <3>2. p \in Nat /\ NoPort \in Nat
      BY DEF Ports, NoPort
    <3>3. \A q : Member(resets, q) => Member(resets', q)
      BY <3>1, <3>2, PushOne
    <3>4. guest' \subseteq guest /\ Open \ {} \subseteq Open'
      BY <2>1, <3>1 DEF Open
    <3> QED
      BY <2>1, <3>3, <3>4, HearingStays
  <2>3. CASE ReceiveRst(op, p)
    <3>1. op = "RST" /\ Drop({p}, FALSE)
      BY <2>3 DEF ReceiveRst
    <3>2. Open \ {p} \subseteq Open' /\ resets' = resets
      BY <3>1 DEF Drop, Open
    <3>3. guest' \subseteq guest /\ p \notin guest'
      BY <2>1, <3>1
    <3>4. \A i \in 1 .. Len(rx) : ~(rx[i].op = "REQUEST" /\ rx[i].port = p)
      <4>1. \A i \in 1 .. Len(rx) : rx[i] \in Packets
        BY ElementOfSeq DEF Types
      <4> QED
        BY <1>17, <3>1, <4>1 DEF Packets, Packet
    <3>5. \A q \in {p} :
            \/ Member(resets', q)
            \/ /\ q \notin guest'
               /\ \A i \in 1 .. Len(rx) :
                    ~(rx[i].op = "REQUEST" /\ rx[i].port = q)
      BY <3>3, <3>4
    <3>6. \A q : Member(resets, q) => Member(resets', q)
      BY <3>2
    <3>7. UNCHANGED <<transport, failed, unhandled, rx>>
      BY <2>1
    <3>8. guest' \subseteq guest
      BY <3>3
    <3> DEFINE gone == {p}
    <3>9. /\ Open \ gone \subseteq Open'
          /\ \A q \in gone :
               \/ Member(resets', q)
               \/ /\ q \notin guest'
                  /\ \A i \in 1 .. Len(rx) :
                       ~(rx[i].op = "REQUEST" /\ rx[i].port = q)
      BY <3>2, <3>5
    <3> HIDE DEF gone
    <3> QED
      BY <3>6, <3>7, <3>8, <3>9, HearingStays
  <2>4. CASE ReceiveReset(op, p)
    <3>1. {p} \in SUBSET Open /\ Drop({p}, TRUE) /\ op # "RST"
      BY <2>4 DEF ReceiveReset
    <3> QED
      BY <1>3, <2>1, <3>1
  <2>5. CASE ReceiveResponse(op, p) \/ ReceiveData(op, p)
    <3>1. op # "RST" /\ Open' = Open /\ resets' = resets
      BY <2>5 DEF ReceiveResponse, ReceiveData, mux, Open
    <3> QED
      BY <1>1, <2>1, <3>1
  <2> QED
    BY <1>17, <2>2, <2>3, <2>4, <2>5 DEF Receive
<1>18. CASE \/ UNCHANGED vars \/ \E p \in Ports : Wake(p)
            \/ \E c \in Callers : Connected(c) \/ GivesUp(c)
  BY <1>1, <1>18 DEF Wake, Connected, GivesUp, vars, mux, state, guests, Open
<1> QED
  BY <1>4, <1>5, <1>6, <1>7, <1>8, <1>10, <1>11, <1>12, <1>13, <1>14, <1>15,
     <1>16, <1>17, <1>18, Zenon DEF Next, GuestSends

----------------------------------------------------------------------------
(* The theorems.                                                           *)

\* The initial states satisfy the inductive invariant.
LEMMA InitIndInv == Init => IndInv
<1> SUFFICES ASSUME Init PROVE IndInv
  OBVIOUS
<1>1. DOMAIN << >> = {} /\ Len(<< >>) = 0 /\ Cardinality({}) = 0
  BY FS_EmptySet
<1>2. Open = {} /\ conns \in [Open -> Connections]
  BY <1>1 DEF Init, Open
<1>3. NoCall \in Calls /\ NoCall.port = 0
  BY DEF NoCall, Calls
<1>4. caller \in [Callers -> Calls] /\ \A c \in Callers : caller[c].port = 0
  BY <1>3 DEF Init
<1>5. posted \in 0 .. EventWrap - 1
  <2>1. EventWrap \in Nat /\ EventWrap > 1
    BY MuxAssumption
  <2>2. posted = 0 \/ posted \in 0 .. EventWrap - 1
    BY DEF Init
  <2> QED
    BY <2>1, <2>2
<1>6. resets \in Seq(Nat) /\ rx \in Seq(Packets)
  BY EmptySeq DEF Init
<1>7. Types
  <2>1. next_port = 0 /\ next_port \in 0 .. MaxPort
    BY MuxAssumption DEF Init
  <2>2. unhandled \in BOOLEAN /\ failed \in BOOLEAN /\ transport = "up"
    BY Zenon DEF Init
  <2>3. Open \subseteq 1 .. next_port
        /\ \A c \in Callers : caller[c].port <= next_port
    BY <1>2, <1>4, <2>1
  <2> QED
    BY <1>2, <1>4, <1>5, <1>6, <2>1, <2>2, <2>3, Zenon DEF Types
<1>8. Room /\ Calling
  BY <1>1, <1>2, MuxAssumption DEF Init, Room, Calling, max_resets
<1>9. Awaiting
  BY <1>2 DEF Init, Awaiting
<1>10. Hearing
  <2>1. \A i \in 1 .. Len(rx) : FALSE
    BY <1>1 DEF Init
  <2>2. transport = "up" /\ (unhandled \/ guest = {})
    BY DEF Init
  <2> QED
    BY <2>1, <2>2 DEF Hearing
<1>11. Turns
  BY DEF Init, Turns, NoTurns
<1> QED
  BY <1>7, <1>8, <1>9, <1>10, <1>11 DEF IndInv

\* Every step keeps it.
LEMMA NextIndInv == IndInv /\ [Next]_vars => IndInv'
BY TypesKept, TurnsKept, AwaitingKept, CallingKept, HearingKept DEF IndInv

\* The inductive invariant holds in every state of the specification.
LEMMA Inductive == Spec => []IndInv
BY InitIndInv, NextIndInv, PTL DEF Spec

\* GuestHearsOfClose for every size of the device: no order of cancels,
\* packets of the guest and full queues makes the device forget a connection
\* that its guest keeps (Mux::reset, cancel, receive, fill, add).
THEOREM NoSocketForgotten == Spec => []GuestHearsOfClose
<1>1. IndInv => GuestHearsOfClose
  <2> SUFFICES ASSUME IndInv, transport = "up", ~unhandled,
                      NEW p \in guest \ Open
               PROVE  Told(p, 0)
    BY Zenon DEF GuestHearsOfClose, Told, Member
  <2> QED
    BY DEF IndInv, Hearing
<1> QED
  BY <1>1, Inductive, PTL

\* CancelHitsOwn for any number of callers and connects: a port is never
\* handed out twice, so a late cancel never hits another's connection
\* (VsockControl::connect, Mux::add).
THEOREM CancelsOwnOnly == Spec => []CancelHitsOwn
<1>1. IndInv => CancelHitsOwn
  BY MuxAssumption DEF IndInv, Calling, CancelHitsOwn
<1> QED
  BY <1>1, Inductive, PTL

\* ConnectsAfterReset for every modulus of the event ring from 2 on, the
\* wrap of its index included (State::accepts_connects).
THEOREM WaitsForGuest == Spec => []ConnectsAfterReset
<1>1. IndInv => ConnectsAfterReset
  BY DEF IndInv, Awaiting, ConnectsAfterReset
<1> QED
  BY <1>1, Inductive, PTL

\* TakesTurns for any number of connections: from last_port on, whoever was
\* passed over comes before the one that passed it (Mux::fill).
THEOREM NoneStarves == Spec => []TakesTurns
<1>1. IndInv => TakesTurns
  BY DEF IndInv, Turns, TakesTurns
<1> QED
  BY <1>1, Inductive, PTL

\* The queue of resets never holds more than max_resets with what may still
\* be pending, so a connection always has room for its own reset.
THEOREM ResetsFit == Spec => []Room
<1>1. IndInv => Room
  BY DEF IndInv
<1> QED
  BY <1>1, Inductive, PTL
=============================================================================
