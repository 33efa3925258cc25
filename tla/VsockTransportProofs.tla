------------------------ MODULE VsockTransportProofs ------------------------
(***************************************************************************)
(* Proofs about VsockTransport, for rings, batches and reset queues of any *)
(* size.                                                                   *)
(***************************************************************************)
EXTENDS VsockTransport, FiniteSetTheorems, SequenceTheorems, FunctionTheorems,
        TLAPS

\* The stores the worker makes.
Store == [what : {"flag"}, queue : Queues, value : BOOLEAN]
           \cup [what : {"used"}, queue : Queues, value : {TRUE}]

\* How many stores of a sequence are e.
Count(s, e) == Cardinality({i \in 1 .. Len(s) : s[i] = e})

\* A count is a number, and those of two sequences add up.
LEMMA CountConcat ==
  ASSUME NEW S, NEW s \in Seq(S), NEW t \in Seq(S), NEW e
  PROVE  /\ Count(s, e) \in Nat /\ Count(t, e) \in Nat
         /\ Count(s \o t, e) = Count(s, e) + Count(t, e)
<1> DEFINE A == {i \in 1 .. Len(s) : s[i] = e}
           B == {i \in 1 .. Len(t) : t[i] = e}
           C == {i \in 1 .. Len(s \o t) : (s \o t)[i] = e}
           D == {i \in Len(s) + 1 .. Len(s) + Len(t) : t[i - Len(s)] = e}
           f == [i \in B |-> i + Len(s)]
<1>1. Len(s) \in Nat /\ Len(t) \in Nat
  BY LenProperties
<1>2. IsFiniteSet(A) /\ IsFiniteSet(B) /\ IsFiniteSet(D)
  <2>1. IsFiniteSet(1 .. Len(s)) /\ IsFiniteSet(1 .. Len(t))
        /\ IsFiniteSet(Len(s) + 1 .. Len(s) + Len(t))
    BY <1>1, FS_Interval
  <2> QED
    BY <2>1, FS_Subset
<1>7. /\ Cardinality(A) \in Nat /\ Cardinality(B) \in Nat
      /\ Cardinality(D) \in Nat
  BY <1>2, FS_CardinalityType
<1>3. C = A \cup D
  BY <1>1, ConcatProperties
<1>4. A \cap D = {}
  BY <1>1
<1>5. Cardinality(B) = Cardinality(D)
  <2>1. f \in [B -> D]
    BY <1>1
  <2>2. f \in Injection(B, D)
    BY <2>1, <1>1 DEF Injection, IsInjective
  <2>3. f \in Surjection(B, D)
    <3>1. ASSUME NEW d \in D PROVE \E b \in B : f[b] = d
      <4>1. d - Len(s) \in B /\ f[d - Len(s)] = d
        BY <1>1
      <4> QED
        BY <4>1
    <3> QED
      BY <2>1, <3>1 DEF Surjection
  <2>4. ExistsBijection(B, D)
    BY <2>2, <2>3 DEF ExistsBijection, Bijection
  <2> QED
    BY <2>4, <1>2, FS_Bijection
<1>6. Cardinality(C) = Cardinality(A) + Cardinality(D)
  <2>1. Cardinality(A \cup D)
          = Cardinality(A) + Cardinality(D) - Cardinality(A \cap D)
    BY <1>2, FS_Union
  <2>2. Cardinality(A \cap D) = 0
    BY <1>4, FS_EmptySet
  <2> HIDE DEF A, C, D
  <2> QED
    BY <2>1, <2>2, <1>3, <1>7
<1> QED
  BY <1>5, <1>6, <1>7 DEF Count

\* A run of n equal stores counts n of that one and none of another.
LEMMA CountRun ==
  ASSUME NEW S, NEW s \in Seq(S), NEW d, NEW e,
         \A i \in 1 .. Len(s) : s[i] = d
  PROVE  /\ d = e => Count(s, e) = Len(s)
         /\ d # e => Count(s, e) = 0
<1>1. Len(s) \in Nat
  BY LenProperties
<1>2. CASE d = e
  <2>1. {i \in 1 .. Len(s) : s[i] = e} = 1 .. Len(s)
    BY <1>2
  <2>2. Cardinality(1 .. Len(s)) = Len(s)
    BY <1>1, FS_Interval
  <2> QED
    BY <2>1, <2>2, <1>2 DEF Count
<1>3. CASE d # e
  <2>1. {i \in 1 .. Len(s) : s[i] = e} = {}
    BY <1>3
  <2> QED
    BY <2>1, <1>3, FS_EmptySet DEF Count
<1> QED
  BY <1>2, <1>3

\* What a sequence of one counts.
LEMMA CountOne ==
  ASSUME NEW d, NEW e
  PROVE  Count(<<d>>, e) = IF d = e THEN 1 ELSE 0
<1>1. Len(<<d>>) = 1 /\ <<d>>[1] = d
  OBVIOUS
<1>2. {i \in 1 .. Len(<<d>>) : <<d>>[i] = e} = IF d = e THEN {1} ELSE {}
  BY <1>1
<1> QED
  BY <1>2, FS_Singleton, FS_EmptySet DEF Count

----------------------------------------------------------------------------
(* The inductive invariant.                                                *)

\* Between two passes the worker has no store outstanding.
Quiet == {"wait", "off", "interrupt", "recheck"}

Types ==
  /\ pc \in {"wait", "off", "off_fence", "tx", "fill", "complete", "on",
             "on_fence", "interrupt", "recheck"}
  /\ tx_used \in BOOLEAN /\ rx_drained \in BOOLEAN /\ busy \in BOOLEAN
  /\ taken \in 0 .. Batch /\ filled \in 0 .. Batch
  /\ buffered \in Seq(Store)
  /\ wake \in BOOLEAN /\ kick \in SUBSET Queues /\ frozen \in BOOLEAN
  /\ resets \in 0 .. MaxResets /\ data \in 0 .. MaxData
  /\ suppressed \in [Queues -> BOOLEAN]
  /\ backlog \in [Queues -> Nat] /\ used \in [Queues -> Nat]
  /\ owned \in [Queues -> Nat]
  /\ posting \in [Queues -> {"idle", "check"}]
  /\ napi \in [Queues -> {"asleep", "polling", "enabling"}]
  /\ no_int \in [Queues -> BOOLEAN] /\ irq \in BOOLEAN

\* rx buffers filled in this pass and not handed back yet.
Staged(q) == IF q = "rx" /\ pc \in {"fill", "complete"} THEN filled ELSE 0

\* No buffer is lost or handed out twice: each is the driver's, posted,
\* being filled, in a store on its way, or used.
Conserved ==
  /\ \A q \in Queues :
       owned[q] + backlog[q] + used[q] + Count(buffered, Used(q)) + Staged(q)
         = Size
  /\ pc \in {"off", "off_fence", "tx"} => filled = 0

\* What the worker's stores are at each point of a pass.
Outstanding ==
  /\ pc \in Quiet => buffered = <<>>
  /\ \A i \in 1 .. Len(buffered) :
       /\ pc = "off_fence" => buffered[i].what = "flag"
       /\ pc \in {"tx", "fill", "complete"} => buffered[i] = Used("tx")
       /\ pc = "on" => buffered[i].what = "used"
       /\ pc = "on_fence" /\ buffered[i].what = "flag" => ~buffered[i].value

\* The kicks are on outside the fences of a pass, or a store that turns them
\* on is on its way.
KicksOn ==
  /\ pc \in Quiet => \A q \in Queues : ~suppressed[q]
  /\ pc = "on_fence" => \A q \in Queues :
       \/ ~suppressed[q]
       \/ \E i \in 1 .. Len(buffered) : buffered[i] = Flag(q, FALSE)

\* The pass still has to ask whether the driver wants an interrupt for q.
Owed(q) ==
  IF q = "tx"
    THEN /\ tx_used
         /\ pc \in {"tx", "fill", "complete", "on", "on_fence", "interrupt"}
    ELSE filled > 0 /\ pc \in {"on", "on_fence", "interrupt"}

\* A used buffer, in the ring or on its way, is paid for by an interrupt, by
\* the end of the pass, or by a driver that still looks.
Paid ==
  \A q \in Queues :
    /\ no_int[q] <=> napi[q] = "polling"
    /\ \A i \in 1 .. Len(buffered) : buffered[i] = Used(q) => Owed(q)
    /\ napi[q] = "asleep" /\ used[q] > 0 => irq \/ Owed(q)

\* What the guest sent wakes the worker, or will when it is resumed.
Woken ==
  pc = "wait" /\ posting["tx"] = "idle" /\ can_receive /\ backlog["tx"] > 0
    => busy \/ wake \/ "tx" \in kick \/ frozen

IndInv == Types /\ Conserved /\ Outstanding /\ KicksOn /\ Paid /\ Woken


\* The initial state satisfies the inductive invariant.
LEMMA InitIndInv == Init => IndInv
<1> SUFFICES ASSUME Init PROVE IndInv
  OBVIOUS
<1>1. Types
  <2>1. <<>> \in Seq(Store)
    BY EmptySeq
  <2>2. 0 \in 0 .. Batch /\ 0 \in 0 .. MaxResets /\ 0 \in 0 .. MaxData
    BY TransportAssumption
  <2>3. {} \in SUBSET Queues /\ FALSE \in BOOLEAN /\ Size \in Nat /\ 0 \in Nat
    BY TransportAssumption
  <2> QED
    BY <2>1, <2>2, <2>3, Zenon DEF Init, Types
<1>2. \A e : Count(<<>>, e) = 0
  <2>1. ASSUME NEW e PROVE {i \in 1 .. Len(<<>>) : <<>>[i] = e} = {}
    OBVIOUS
  <2> QED
    BY <2>1, FS_EmptySet DEF Count
<1>3. Conserved
  BY <1>2, TransportAssumption DEF Init, Conserved, Staged, Queues
<1>4. Outstanding /\ KicksOn /\ Paid /\ Woken
  BY DEF Init, Outstanding, KicksOn, Paid, Woken, Queues, Quiet
<1> QED
  BY <1>1, <1>3, <1>4 DEF IndInv

\* A store reaches memory.
LEMMA FlushKeeps == ASSUME IndInv, Flush PROVE IndInv'
<1> DEFINE e == Head(buffered)
           n == Len(buffered)
<1>1. /\ buffered \in Seq(Store) /\ buffered # <<>> /\ buffered' = Tail(buffered)
      /\ UNCHANGED <<pc, tx_used, taken, filled, rx_drained, busy, wake, kick,
                     frozen, resets, data, backlog, owned, posting, napi,
                     no_int, irq>>
  BY DEF IndInv, Flush, Types, pass, wakes, mux, driver
<1>2. /\ n \in Nat /\ n > 0 /\ e \in Store /\ e = buffered[1]
      /\ buffered' \in Seq(Store) /\ Len(buffered') = n - 1
      /\ \A i \in 1 .. n - 1 : buffered'[i] = buffered[i + 1]
  BY <1>1, HeadTailProperties, EmptySeq, LenProperties
<1>3. \A d : /\ Count(buffered, d) \in Nat /\ Count(buffered', d) \in Nat
             /\ Count(buffered, d) = (IF e = d THEN 1 ELSE 0)
                                       + Count(buffered', d)
  <2> TAKE d
  <2>1. buffered = <<e>> \o buffered'
    BY <1>1, <1>2
  <2>2. <<e>> \in Seq(Store)
    BY <1>2
  <2> HIDE DEF e
  <2>3. /\ Count(<<e>> \o buffered', d) = Count(<<e>>, d) + Count(buffered', d)
        /\ Count(<<e>>, d) \in Nat /\ Count(buffered', d) \in Nat
    BY <2>2, <1>2, CountConcat, ZenonT(30)
  <2>4. Count(buffered, d) = Count(<<e>>, d) + Count(buffered', d)
    BY <2>1, <2>3, Zenon
  <2>5. Count(<<e>>, d) = IF e = d THEN 1 ELSE 0
    BY CountOne
  <2> QED
    BY <2>3, <2>4, <2>5
<1>4. \/ \E q \in Queues, off \in BOOLEAN :
           /\ e = Flag(q, off) /\ used' = used
           /\ suppressed' = [suppressed EXCEPT ![q] = off]
      \/ \E q \in Queues :
           /\ e = Used(q) /\ suppressed' = suppressed
           /\ used' = [used EXCEPT ![q] = @ + 1]
  BY <1>2 DEF Flush, Store, Used, Flag
<1>5. \A i \in 1 .. Len(buffered') : /\ buffered'[i] = buffered[i + 1]
                                     /\ i + 1 \in 1 .. Len(buffered)
  BY <1>2
<1> HIDE DEF e, n
<1>12. suppressed \in [Queues -> BOOLEAN] /\ used \in [Queues -> Nat]
  BY DEF IndInv, Types
<1>13. /\ suppressed' \in [Queues -> BOOLEAN] /\ used' \in [Queues -> Nat]
       /\ \A r \in Queues :
            /\ e = Used(r) => used'[r] = used[r] + 1
            /\ e # Used(r) => used'[r] = used[r]
            /\ suppressed'[r] => suppressed[r] \/ e = Flag(r, TRUE)
            /\ suppressed'[r] => e # Flag(r, FALSE)
  <2>1. CASE \E q \in Queues, off \in BOOLEAN :
               /\ e = Flag(q, off) /\ used' = used
               /\ suppressed' = [suppressed EXCEPT ![q] = off]
    <3>1. PICK q \in Queues, off \in BOOLEAN :
               /\ e = Flag(q, off) /\ used' = used
               /\ suppressed' = [suppressed EXCEPT ![q] = off]
      BY <2>1
    <3>2. \A r : e # Used(r)
      BY <3>1 DEF Used, Flag
    <3>3. \A r \in Queues, v \in BOOLEAN : e = Flag(r, v) <=> q = r /\ off = v
      BY <3>1 DEF Flag
    <3>4. suppressed' \in [Queues -> BOOLEAN] /\ used' \in [Queues -> Nat]
      BY <3>1, <1>12
    <3>5. ASSUME NEW r \in Queues
          PROVE  /\ suppressed'[r] => suppressed[r] \/ e = Flag(r, TRUE)
                 /\ suppressed'[r] => e # Flag(r, FALSE)
      <4>1. CASE r = q
        <5>1. suppressed'[r] = off
          BY <4>1, <3>1, <1>12
        <5>2. (e = Flag(r, TRUE) <=> off = TRUE) /\ (e = Flag(r, FALSE) <=> off = FALSE)
          BY <4>1, <3>3, Zenon
        <5> QED
          BY <5>1, <5>2, <3>1, Zenon
      <4>2. CASE r # q
        BY <4>2, <3>1, <3>3, <1>12, Zenon
      <4> QED
        BY <4>1, <4>2
    <3> QED
      BY <3>1, <3>2, <3>4, <3>5, Zenon
  <2>2. CASE \E q \in Queues :
               /\ e = Used(q) /\ suppressed' = suppressed
               /\ used' = [used EXCEPT ![q] = @ + 1]
    <3>1. PICK q \in Queues :
               /\ e = Used(q) /\ suppressed' = suppressed
               /\ used' = [used EXCEPT ![q] = @ + 1]
      BY <2>2
    <3>2. \A r, v : e # Flag(r, v)
      BY <3>1 DEF Used, Flag
    <3>3. \A r \in Queues : e = Used(r) <=> q = r
      BY <3>1 DEF Used
    <3>4. /\ used' \in [Queues -> Nat] /\ used'[q] = used[q] + 1
          /\ \A r \in Queues : r # q => used'[r] = used[r]
      BY <3>1, <1>12
    <3> QED
      BY <3>1, <3>2, <3>3, <3>4, <1>12, Zenon
  <2> QED
    BY <2>1, <2>2, <1>4
<1>6. Types'
  BY <1>1, <1>2, <1>13, Zenon DEF IndInv, Types
<1>7. Conserved'
  <2>1. ASSUME NEW q \in Queues
        PROVE  owned'[q] + backlog'[q] + used'[q] + Count(buffered', Used(q))
                 + Staged(q)' = Size
    <3> DEFINE c == Count(buffered, Used(q))
               d == Count(buffered', Used(q))
    <3>1. c \in Nat /\ d \in Nat /\ c = (IF e = Used(q) THEN 1 ELSE 0) + d
      BY <1>3, Zenon
    <3>2. /\ used[q] \in Nat /\ owned[q] \in Nat /\ backlog[q] \in Nat
          /\ owned' = owned /\ backlog' = backlog
          /\ Staged(q) \in Nat /\ Staged(q)' = Staged(q)
      BY <1>1, TransportAssumption DEF IndInv, Types, Staged
    <3>3. owned[q] + backlog[q] + used[q] + c + Staged(q) = Size
      BY DEF IndInv, Conserved
    <3>4. IF e = Used(q) THEN used'[q] = used[q] + 1 ELSE used'[q] = used[q]
      BY <1>13, Zenon
    <3> HIDE DEF c, d
    <3>5. owned[q] + backlog[q] + used'[q] + d + Staged(q) = Size
      BY <3>1, <3>2, <3>3, <3>4
    <3> QED
      BY <3>2, <3>5 DEF d
  <2> QED
    BY <1>1, <2>1 DEF IndInv, Conserved
<1>8. Outstanding'
  BY <1>1, <1>5 DEF IndInv, Outstanding
<1>9. KicksOn'
  <2>1. CASE pc = "on_fence"
    <3>1. e.what = "flag" => ~e.value
      BY <2>1, <1>2 DEF IndInv, Outstanding, n
    <3>2. \A q : e # Flag(q, TRUE)
      BY <3>1 DEF Flag
    <3>3. ASSUME NEW q \in Queues, suppressed'[q]
          PROVE  \E i \in 1 .. Len(buffered') : buffered'[i] = Flag(q, FALSE)
      <4>1. PICK i \in 1 .. Len(buffered) : buffered[i] = Flag(q, FALSE)
        BY <2>1, <3>2, <3>3, <1>13 DEF IndInv, KicksOn
      <4>2. i # 1
        BY <4>1, <3>3, <1>2, <1>13
      <4>3. i - 1 \in 1 .. Len(buffered') /\ buffered'[i - 1] = buffered[i]
        BY <4>2, <1>2 DEF n
      <4> QED
        BY <4>1, <4>3
    <3> QED
      BY <2>1, <3>3, <1>1 DEF KicksOn, Quiet
  <2>2. CASE pc # "on_fence"
    BY <2>2, <1>1 DEF IndInv, KicksOn, Outstanding
  <2> QED
    BY <2>1, <2>2
<1>10. Paid'
  <2>1. ASSUME NEW q \in Queues
        PROVE  /\ no_int'[q] <=> napi'[q] = "polling"
               /\ \A i \in 1 .. Len(buffered') :
                    buffered'[i] = Used(q) => Owed(q)'
               /\ napi'[q] = "asleep" /\ used'[q] > 0 => irq' \/ Owed(q)'
    <3>1. Owed(q)' <=> Owed(q)
      BY <1>1 DEF Owed
    <3>2. e = Used(q) => Owed(q)
      <4>1. 1 \in 1 .. Len(buffered) /\ e = buffered[1]
        BY <1>2 DEF n
      <4> QED
        BY <4>1, Zenon DEF IndInv, Paid
    <3>3. used[q] \in Nat /\ (e # Used(q) => used'[q] = used[q])
      BY <1>12, <1>13, Zenon
    <3>4. \A i \in 1 .. Len(buffered') : buffered'[i] = Used(q) => Owed(q)
      BY <1>5 DEF IndInv, Paid
    <3>5. napi[q] = "asleep" /\ used'[q] > 0 => irq \/ Owed(q)
      BY <3>2, <3>3 DEF IndInv, Paid
    <3> QED
      BY <1>1, <3>1, <3>4, <3>5, Zenon DEF IndInv, Paid
  <2> QED
    BY <2>1 DEF Paid
<1>11. Woken'
  BY <1>1 DEF IndInv, Woken, can_receive
<1> QED
  BY <1>6, <1>7, <1>8, <1>9, <1>10, <1>11 DEF IndInv


\* run wakes up: nothing is outstanding, and nothing is claimed of the rings
\* until the pass ends.
LEMMA WakesKeeps == ASSUME IndInv, Wakes PROVE IndInv'
<1>1. /\ pc = "wait" /\ wake' = FALSE /\ kick' = {} /\ busy' = FALSE
      /\ UNCHANGED <<buffered, frozen, resets, data, suppressed, backlog, used,
                     owned, posting, napi, no_int, irq>>
  BY DEF Wakes, mux, driver
<1>2. \/ /\ frozen /\ pc' = pc /\ tx_used' = tx_used /\ taken' = taken
         /\ filled' = filled /\ rx_drained' = rx_drained
      \/ /\ pc' = "off" /\ tx_used' = FALSE /\ taken' = 0 /\ filled' = 0
         /\ rx_drained' = FALSE
  BY DEF Wakes, pass
<1>3. Types'
  <2>1. 0 \in 0 .. Batch /\ {} \in SUBSET Queues
    BY TransportAssumption
  <2> QED
    BY <1>1, <1>2, <2>1, Zenon DEF IndInv, Types
<1>4. Conserved'
  <2>1. \A q : Staged(q)' = Staged(q)
    BY <1>1, <1>2 DEF Staged
  <2> QED
    BY <1>1, <1>2, <2>1 DEF IndInv, Conserved
<1>5. Outstanding' /\ KicksOn'
  BY <1>1, <1>2 DEF IndInv, Outstanding, KicksOn, Quiet
<1>6. Paid'
  <2>1. \A q : ~Owed(q)
    BY <1>1 DEF Owed
  <2>2. buffered = <<>>
    BY <1>1 DEF IndInv, Outstanding, Quiet
  <2> QED
    BY <1>1, <2>1, <2>2 DEF IndInv, Paid
<1>7. Woken'
  BY <1>1, <1>2 DEF Woken
<1> QED
  BY <1>3, <1>4, <1>5, <1>6, <1>7 DEF IndInv

\* A step of the worker that leaves its stores, the rings and the driver
\* alone keeps the count of the buffers.
LEMMA SameRings ==
  ASSUME Conserved,
         UNCHANGED <<buffered, backlog, used, owned>>,
         \A q \in Queues : Staged(q)' = Staged(q),
         pc' \in {"off", "off_fence", "tx"} => filled' = 0
  PROVE  Conserved'
BY DEF Conserved


\* set_notify stores the flags behind what is outstanding.
LEMMA SetNotifyKeeps == ASSUME IndInv, SetNotify PROVE IndInv'
<1> DEFINE off == (pc = "off")
           two == <<Flag("tx", off), Flag("rx", off)>>
           n == Len(buffered)
<1>1. /\ pc \in {"off", "on"} /\ buffered' = buffered \o two
      /\ pc' = IF pc = "off" THEN "off_fence" ELSE "on_fence"
      /\ UNCHANGED <<tx_used, taken, filled, rx_drained, busy, wake, kick,
                     frozen, resets, data, suppressed, backlog, used, owned,
                     posting, napi, no_int, irq>>
  BY DEF SetNotify, pass, wakes, mux, driver
<1>2. /\ two \in Seq(Store) /\ Len(two) = 2
      /\ two[1] = Flag("tx", off) /\ two[2] = Flag("rx", off)
  <2>1. "tx" \in Queues /\ "rx" \in Queues /\ off \in BOOLEAN
    BY DEF Queues
  <2> HIDE DEF off
  <2>2. Flag("tx", off) \in Store /\ Flag("rx", off) \in Store
    BY <2>1 DEF Store, Flag
  <2> QED
    BY <2>2
<1>3. buffered \in Seq(Store) /\ n \in Nat
  BY LenProperties DEF IndInv, Types
<1>4. /\ buffered' \in Seq(Store) /\ Len(buffered') = n + 2
      /\ \A i \in 1 .. n : buffered'[i] = buffered[i]
      /\ buffered'[n + 1] = Flag("tx", off) /\ buffered'[n + 2] = Flag("rx", off)
  <2> HIDE DEF two
  <2>0. /\ buffered \o two \in Seq(Store)
        /\ Len(buffered \o two) = n + Len(two)
        /\ \A i \in 1 .. n + Len(two) : (buffered \o two)[i] =
                     IF i <= n THEN buffered[i] ELSE two[i - n]
    BY <1>2, <1>3, ConcatProperties
  <2> HIDE DEF n
  <2>1. /\ buffered' \in Seq(Store) /\ Len(buffered') = n + 2
        /\ \A i \in 1 .. n + 2 : buffered'[i] =
                     IF i <= n THEN buffered[i] ELSE two[i - n]
    BY <1>1, <1>2, <2>0
  <2>2. buffered'[n + 1] = two[1] /\ buffered'[n + 2] = two[2]
    BY <1>3, <2>1
  <2> QED
    BY <2>1, <2>2, <1>2, <1>3
<1>5. \A i \in 1 .. Len(buffered') :
        \/ i \in 1 .. n /\ buffered'[i] = buffered[i]
        \/ buffered'[i] = Flag("tx", off)
        \/ buffered'[i] = Flag("rx", off)
  BY <1>3, <1>4
<1>6. \A q : Count(buffered', Used(q)) = Count(buffered, Used(q))
  <2> TAKE q
  <2>1. Count(two, Used(q)) = 0
    <3>1. {i \in 1 .. Len(two) : two[i] = Used(q)} = {}
      BY <1>2 DEF Used, Flag
    <3> QED
      BY <3>1, FS_EmptySet DEF Count
  <2> HIDE DEF two
  <2>2. /\ Count(buffered \o two, Used(q))
             = Count(buffered, Used(q)) + Count(two, Used(q))
        /\ Count(buffered, Used(q)) \in Nat
    BY <1>2, <1>3, CountConcat
  <2> QED
    BY <1>1, <2>1, <2>2
<1> HIDE DEF off, two, n
<1>7. Types'
  <2>1. pc' \in {"off_fence", "on_fence"}
    BY <1>1
  <2> QED
    BY <1>1, <1>4, <2>1, Zenon DEF IndInv, Types
<1>8. Conserved'
  <2>1. \A q : Staged(q)' = Staged(q)
    BY <1>1 DEF Staged
  <2> QED
    BY <1>1, <1>6, <2>1 DEF IndInv, Conserved
<1>9. Outstanding'
  <2>1. CASE pc = "off"
    <3>1. n = 0
      BY <2>1, <1>3 DEF IndInv, Outstanding, Quiet, n
    <3>2. pc' = "off_fence"
      BY <1>1, <2>1
    <3> QED
      BY <1>5, <3>1, <3>2 DEF Outstanding, Quiet, Flag
  <2>2. CASE pc = "on"
    <3>1. pc' = "on_fence" /\ ~off
      BY <1>1, <2>2 DEF off
    <3>2. \A i \in 1 .. n : buffered[i].what = "used"
      BY <2>2 DEF IndInv, Outstanding, n
    <3> QED
      BY <1>5, <3>1, <3>2 DEF Outstanding, Quiet, Flag
  <2> QED
    BY <1>1, <2>1, <2>2
<1>10. KicksOn'
  <2>1. CASE pc = "off"
    BY <1>1, <2>1 DEF KicksOn, Quiet
  <2>2. CASE pc = "on"
    <3>1. /\ n + 1 \in 1 .. Len(buffered') /\ n + 2 \in 1 .. Len(buffered')
          /\ off = FALSE /\ pc' = "on_fence"
      BY <1>1, <1>3, <1>4, <2>2 DEF off
    <3>2. \A q \in Queues :
            \E i \in 1 .. Len(buffered') : buffered'[i] = Flag(q, FALSE)
      BY <1>4, <3>1 DEF Queues
    <3> QED
      BY <3>1, <3>2 DEF KicksOn, Quiet
  <2> QED
    BY <1>1, <2>1, <2>2
<1>11. Paid'
  <2>1. ASSUME NEW q \in Queues
        PROVE  /\ no_int'[q] <=> napi'[q] = "polling"
               /\ \A i \in 1 .. Len(buffered') :
                    buffered'[i] = Used(q) => Owed(q)'
               /\ napi'[q] = "asleep" /\ used'[q] > 0 => irq' \/ Owed(q)'
    <3>1. Owed(q)' <=> Owed(q)
      BY <1>1 DEF Owed
    <3>2. \A i \in 1 .. Len(buffered') : buffered'[i] = Used(q)
            => i \in 1 .. Len(buffered) /\ buffered[i] = Used(q)
      BY <1>5 DEF Used, Flag, n
    <3> QED
      BY <1>1, <3>1, <3>2, Zenon DEF IndInv, Paid
  <2> QED
    BY <2>1 DEF Paid
<1>12. Woken'
  BY <1>1 DEF Woken
<1> QED
  BY <1>7, <1>8, <1>9, <1>10, <1>11, <1>12 DEF IndInv

\* The steps of a pass that only move on.
LEMMA FenceKeeps == ASSUME IndInv, Fence PROVE IndInv'
<1>1. /\ pc \in {"off_fence", "on_fence"} /\ buffered = <<>>
      /\ pc' = IF pc = "off_fence" THEN "tx" ELSE "interrupt"
      /\ UNCHANGED <<tx_used, taken, filled, rx_drained, busy, buffered, wake,
                     kick, frozen, resets, data, suppressed, backlog, used,
                     owned, posting, napi, no_int, irq>>
  BY DEF Fence, pass, wakes, mux, driver
<1>2. Types'
  <2>1. pc' \in {"tx", "interrupt"}
    BY <1>1
  <2> QED
    BY <1>1, <2>1, Zenon DEF IndInv, Types
<1>3. Conserved'
  <2>1. \A q \in Queues : Staged(q)' = Staged(q)
    BY <1>1 DEF Staged
  <2>2. pc' \in {"off", "off_fence", "tx"} => filled' = 0
    BY <1>1 DEF IndInv, Conserved
  <2> QED
    BY <1>1, <2>1, <2>2, SameRings DEF IndInv
<1>4. Outstanding' /\ KicksOn'
  BY <1>1 DEF IndInv, Outstanding, KicksOn, Quiet
<1>5. Paid'
  <2>1. \A q \in Queues : Owed(q) => Owed(q)'
    BY <1>1 DEF Owed
  <2> QED
    BY <1>1, <2>1 DEF IndInv, Paid
<1>6. Woken'
  BY <1>1 DEF Woken
<1> QED
  BY <1>2, <1>3, <1>4, <1>5, <1>6 DEF IndInv

\* The pass goes on from tx to fill, and to its end.
LEMMA MovesOnKeeps == ASSUME IndInv, TxDone \/ FillDone PROVE IndInv'
<1>1. /\ \/ pc = "tx" /\ pc' = "fill"
         \/ pc = "fill" /\ pc' = "complete"
      /\ UNCHANGED <<tx_used, taken, filled, rx_drained, busy, buffered, wake,
                     kick, frozen, resets, data, suppressed, backlog, used,
                     owned, posting, napi, no_int, irq>>
  BY DEF TxDone, FillDone, pass, wakes, mux, driver
<1>2. Types'
  <2>1. pc' \in {"fill", "complete"}
    BY <1>1
  <2> QED
    BY <1>1, <2>1, Zenon DEF IndInv, Types
<1>3. Conserved'
  <2>1. \A q \in Queues : Staged(q)' = Staged(q)
    BY <1>1 DEF IndInv, Conserved, Staged
  <2> QED
    BY <1>1, <2>1, SameRings DEF IndInv
<1>4. Outstanding' /\ KicksOn'
  BY <1>1 DEF IndInv, Outstanding, KicksOn, Quiet
<1>5. Paid'
  <2>1. \A q \in Queues : Owed(q) => Owed(q)'
    BY <1>1 DEF Owed
  <2> QED
    BY <1>1, <2>1 DEF IndInv, Paid
<1>6. Woken'
  BY <1>1 DEF Woken
<1> QED
  BY <1>2, <1>3, <1>4, <1>5, <1>6 DEF IndInv


\* A packet of the guest is taken: its buffer is in a store on its way, which
\* tx_used pays for.
LEMMA TakeTxKeeps == ASSUME IndInv, TakeTx PROVE IndInv'
<1> DEFINE n == Len(buffered)
<1>1. /\ pc = "tx" /\ taken < Batch /\ backlog["tx"] > 0 /\ resets < MaxResets
      /\ backlog' = [backlog EXCEPT !["tx"] = @ - 1]
      /\ buffered' = buffered \o <<Used("tx")>>
      /\ tx_used' = TRUE /\ taken' = taken + 1
      /\ UNCHANGED <<pc, filled, rx_drained, busy, wake, kick, frozen,
                     suppressed, used, owned, posting, napi, no_int, irq>>
  <2>1. buffered \in Seq(Store)
    BY DEF IndInv, Types
  <2>2. Append(buffered, Used("tx")) = buffered \o <<Used("tx")>>
    BY <2>1
  <2> QED
    BY <2>2 DEF TakeTx, can_receive, wakes, driver
<1>2. /\ backlog \in [Queues -> Nat] /\ buffered \in Seq(Store) /\ n \in Nat
      /\ "tx" \in Queues /\ "rx" \in Queues
  BY LenProperties DEF IndInv, Types, Queues
<1>3. <<Used("tx")>> \in Seq(Store)
  <2>1. Used("tx") \in Store
    BY <1>2 DEF Used, Store
  <2> QED
    BY <2>1
<1>4. /\ buffered' \in Seq(Store) /\ Len(buffered') = n + 1
      /\ \A i \in 1 .. n + 1 : buffered'[i] =
           IF i <= n THEN buffered[i] ELSE Used("tx")
  <2>1. /\ buffered \o <<Used("tx")>> \in Seq(Store)
        /\ Len(buffered \o <<Used("tx")>>) = n + 1
        /\ \A i \in 1 .. n + 1 : (buffered \o <<Used("tx")>>)[i] =
             IF i <= n THEN buffered[i] ELSE <<Used("tx")>>[i - n]
    BY <1>2, <1>3, ConcatProperties
  <2> QED
    BY <1>1, <1>2, <2>1
<1>5. \A i \in 1 .. Len(buffered') : buffered'[i] = Used("tx")
  BY <1>1, <1>2, <1>4 DEF IndInv, Outstanding
<1>6. /\ resets' \in 0 .. MaxResets /\ data' \in 0 .. MaxData
  BY <1>1, TransportAssumption DEF TakeTx, mux, IndInv, Types
<1>7. Types'
  <2>1. backlog' \in [Queues -> Nat]
    BY <1>1, <1>2
  <2>2. taken' \in 0 .. Batch
    BY <1>1, TransportAssumption DEF IndInv, Types
  <2> QED
    BY <1>1, <1>4, <1>6, <2>1, <2>2, Zenon DEF IndInv, Types
<1>8. Conserved'
  <2>1. ASSUME NEW q \in Queues
        PROVE  owned'[q] + backlog'[q] + used'[q] + Count(buffered', Used(q))
                 + Staged(q)' = Size
    <3> DEFINE c == Count(buffered, Used(q))
               d == Count(buffered', Used(q))
    <3>1. c \in Nat /\ d = c + (IF Used("tx") = Used(q) THEN 1 ELSE 0)
      <4>1. /\ Count(buffered \o <<Used("tx")>>, Used(q))
                 = c + Count(<<Used("tx")>>, Used(q))
            /\ c \in Nat
        BY <1>2, <1>3, CountConcat
      <4>2. Count(<<Used("tx")>>, Used(q))
              = IF Used("tx") = Used(q) THEN 1 ELSE 0
        BY CountOne
      <4> QED
        BY <1>1, <4>1, <4>2, Zenon
    <3>2. /\ used[q] \in Nat /\ owned[q] \in Nat /\ backlog[q] \in Nat
          /\ owned' = owned /\ used' = used
          /\ Staged(q) \in Nat /\ Staged(q)' = Staged(q)
      BY <1>1, TransportAssumption DEF IndInv, Types, Staged
    <3>3. owned[q] + backlog[q] + used[q] + c + Staged(q) = Size
      BY DEF IndInv, Conserved
    <3>4. \/ Used("tx") = Used(q) /\ backlog'[q] = backlog[q] - 1
          \/ Used("tx") # Used(q) /\ backlog'[q] = backlog[q]
      BY <1>1, <1>2 DEF Used
    <3> HIDE DEF c, d
    <3>6. \/ d = c + 1 /\ backlog'[q] = backlog[q] - 1
          \/ d = c + 0 /\ backlog'[q] = backlog[q]
      BY <3>1, <3>4, Zenon
    <3>5. owned[q] + backlog'[q] + used[q] + d + Staged(q) = Size
      BY <3>1, <3>2, <3>3, <3>6
    <3> QED
      BY <3>2, <3>5 DEF d
  <2> QED
    BY <1>1, <2>1 DEF IndInv, Conserved
<1>9. Outstanding' /\ KicksOn'
  BY <1>1, <1>5 DEF Outstanding, KicksOn, Quiet
<1>10. Paid'
  <2>1. \A q \in Queues : Owed(q) => Owed(q)'
    BY <1>1 DEF Owed
  <2>2. Owed("tx")'
    BY <1>1 DEF Owed
  <2>3. \A q \in Queues, i \in 1 .. Len(buffered') :
          buffered'[i] = Used(q) => Owed(q)'
    BY <1>5, <2>2 DEF Used
  <2> QED
    BY <1>1, <2>1, <2>3 DEF IndInv, Paid
<1>11. Woken'
  BY <1>1 DEF Woken
<1> QED
  BY <1>7, <1>8, <1>9, <1>10, <1>11 DEF IndInv

\* An rx buffer is filled, or a malformed one taken: it is staged.
LEMMA FillKeeps == ASSUME IndInv, Fill \/ FillInvalid PROVE IndInv'
<1>1. /\ pc = "fill" /\ backlog["rx"] > 0 /\ filled < Batch
      /\ backlog' = [backlog EXCEPT !["rx"] = @ - 1]
      /\ filled' = filled + 1 /\ pc' \in {"fill", "complete"}
      /\ UNCHANGED <<tx_used, taken, rx_drained, busy, buffered, wake, kick,
                     frozen, suppressed, used, owned, posting, napi, no_int,
                     irq>>
  BY TransportAssumption DEF Fill, FillInvalid, wakes, driver
<1>2. resets' \in 0 .. MaxResets /\ data' \in 0 .. MaxData
  BY TransportAssumption DEF Fill, FillInvalid, mux, IndInv, Types
<1>3. backlog \in [Queues -> Nat] /\ "rx" \in Queues /\ filled \in 0 .. Batch
  BY DEF IndInv, Types, Queues
<1>4. Types'
  <2>1. backlog' \in [Queues -> Nat] /\ filled' \in 0 .. Batch
    BY <1>1, <1>3, TransportAssumption
  <2>2. pc' \in {"wait", "off", "off_fence", "tx", "fill", "complete", "on",
             "on_fence", "interrupt", "recheck"}
    BY <1>1
  <2> QED
    BY <1>1, <1>2, <2>1, <2>2, Zenon DEF IndInv, Types
<1>5. Conserved'
  <2>1. ASSUME NEW q \in Queues
        PROVE  owned'[q] + backlog'[q] + used'[q] + Count(buffered', Used(q))
                 + Staged(q)' = Size
    <3> DEFINE c == Count(buffered, Used(q))
    <3>1. c \in Nat
      <4>1. buffered \in Seq(Store)
        BY DEF IndInv, Types
      <4> QED
        BY <4>1, CountConcat
    <3>2. /\ used[q] \in Nat /\ owned[q] \in Nat /\ backlog[q] \in Nat
          /\ owned' = owned /\ used' = used
          /\ IF q = "rx" THEN /\ Staged(q) = filled /\ Staged(q)' = filled + 1
                              /\ backlog'[q] = backlog[q] - 1
             ELSE Staged(q) = 0 /\ Staged(q)' = 0 /\ backlog'[q] = backlog[q]
      BY <1>1, <1>3 DEF IndInv, Types, Staged
    <3>3. owned[q] + backlog[q] + used[q] + c + Staged(q) = Size
      BY DEF IndInv, Conserved
    <3> HIDE DEF c
    <3>4. owned[q] + backlog'[q] + used[q] + c + Staged(q)' = Size
      BY <3>1, <3>2, <3>3, <1>3
    <3> QED
      BY <1>1, <3>2, <3>4 DEF c
  <2> QED
    BY <1>1, <2>1 DEF Conserved
<1>6. Outstanding' /\ KicksOn'
  BY <1>1 DEF IndInv, Outstanding, KicksOn, Quiet
<1>7. Paid'
  <2>1. \A q \in Queues : Owed(q) => Owed(q)'
    BY <1>1 DEF Owed
  <2> QED
    BY <1>1, <2>1 DEF IndInv, Paid
<1>8. Woken'
  BY <1>1 DEF Woken
<1> QED
  BY <1>4, <1>5, <1>6, <1>7, <1>8 DEF IndInv

\* The buffers staged go into stores, which the filled count pays for.
LEMMA CompleteKeeps == ASSUME IndInv, Complete PROVE IndInv'
<1> DEFINE run == [i \in 1 .. filled |-> Used("rx")]
           n == Len(buffered)
<1>1. /\ pc = "complete" /\ pc' = "on" /\ buffered' = buffered \o run
      /\ rx_drained' \in BOOLEAN
      /\ UNCHANGED <<tx_used, taken, filled, busy, wake, kick, frozen, resets,
                     data, suppressed, backlog, used, owned, posting, napi,
                     no_int, irq>>
  BY DEF Complete, wakes, mux, driver
<1>2. /\ buffered \in Seq(Store) /\ n \in Nat /\ filled \in Nat
      /\ "tx" \in Queues /\ "rx" \in Queues
  BY LenProperties, TransportAssumption DEF IndInv, Types, Queues
<1>3. /\ run \in Seq(Store) /\ Len(run) = filled
      /\ \A i \in 1 .. filled : run[i] = Used("rx")
  <2>1. Used("rx") \in Store
    BY <1>2 DEF Used, Store
  <2> HIDE DEF Store
  <2> QED
    BY <2>1, <1>2
<1> HIDE DEF run
<1>4. /\ buffered' \in Seq(Store) /\ Len(buffered') = n + filled
      /\ \A i \in 1 .. Len(buffered') :
           IF i <= n THEN i \in 1 .. n /\ buffered'[i] = buffered[i]
                     ELSE i - n \in 1 .. filled /\ buffered'[i] = run[i - n]
  <2>1. /\ buffered \o run \in Seq(Store)
        /\ Len(buffered \o run) = n + Len(run)
        /\ \A i \in 1 .. n + Len(run) : (buffered \o run)[i] =
                     IF i <= n THEN buffered[i] ELSE run[i - n]
    BY <1>2, <1>3, ConcatProperties
  <2> HIDE DEF n
  <2> QED
    BY <1>1, <1>2, <1>3, <2>1
<1>5. \A i \in 1 .. Len(buffered') :
        \/ i \in 1 .. n /\ buffered'[i] = Used("tx")
        \/ buffered'[i] = Used("rx") /\ filled > 0
  BY <1>1, <1>2, <1>3, <1>4 DEF IndInv, Outstanding
<1>6. Types'
  BY <1>1, <1>4, Zenon DEF IndInv, Types
<1>7. Conserved'
  <2>1. ASSUME NEW q \in Queues
        PROVE  owned'[q] + backlog'[q] + used'[q] + Count(buffered', Used(q))
                 + Staged(q)' = Size
    <3> DEFINE c == Count(buffered, Used(q))
               d == Count(buffered', Used(q))
    <3>1. c \in Nat /\ d = c + Count(run, Used(q))
      BY <1>1, <1>2, <1>3, CountConcat, Zenon
    <3>2. Count(run, Used(q)) = IF q = "rx" THEN filled ELSE 0
      <4>1. \A i \in 1 .. Len(run) : run[i] = Used("rx")
        BY <1>3
      <4>2. /\ Used("rx") = Used(q) => Count(run, Used(q)) = Len(run)
            /\ Used("rx") # Used(q) => Count(run, Used(q)) = 0
        BY <1>3, <4>1, CountRun, Zenon
      <4>3. (Used("rx") = Used(q)) <=> q = "rx"
        BY DEF Used
      <4> QED
        BY <1>3, <4>2, <4>3
    <3>3. /\ used[q] \in Nat /\ owned[q] \in Nat /\ backlog[q] \in Nat
          /\ owned' = owned /\ used' = used /\ backlog' = backlog
          /\ Staged(q) = (IF q = "rx" THEN filled ELSE 0) /\ Staged(q)' = 0
      BY <1>1 DEF IndInv, Types, Staged
    <3>4. owned[q] + backlog[q] + used[q] + c + Staged(q) = Size
      BY DEF IndInv, Conserved
    <3> HIDE DEF c, d
    <3>5. owned[q] + backlog[q] + used[q] + d + 0 = Size
      BY <3>1, <3>2, <3>3, <3>4, <1>2
    <3> QED
      BY <3>3, <3>5 DEF d
  <2> QED
    BY <1>1, <2>1 DEF Conserved
<1>8. Outstanding' /\ KicksOn'
  BY <1>1, <1>5 DEF Outstanding, KicksOn, Quiet, Used
<1>9. Paid'
  <2>1. \A q \in Queues : Owed(q) => Owed(q)'
    BY <1>1 DEF Owed
  <2>2. \A q \in Queues, i \in 1 .. Len(buffered') :
          buffered'[i] = Used(q) => Owed(q)'
    <3> SUFFICES ASSUME NEW q \in Queues, NEW i \in 1 .. Len(buffered'),
                        buffered'[i] = Used(q)
                 PROVE  Owed(q)'
      OBVIOUS
    <3>1. CASE i \in 1 .. n /\ buffered'[i] = Used("tx")
      <4>1. buffered[i] = Used("tx") /\ q = "tx"
        BY <3>1, <1>1 DEF IndInv, Outstanding, Used, n
      <4> QED
        BY <4>1, <3>1, <2>1 DEF IndInv, Paid, n
    <3>2. CASE buffered'[i] = Used("rx") /\ filled > 0
      BY <3>2, <1>1 DEF Owed, Used
    <3> QED
      BY <3>1, <3>2, <1>5
  <2> QED
    BY <1>1, <2>1, <2>2 DEF IndInv, Paid
<1>10. Woken'
  BY <1>1 DEF Woken
<1> QED
  BY <1>6, <1>7, <1>8, <1>9, <1>10 DEF IndInv

\* The interrupt is raised for every queue that asked for one.
LEMMA InterruptKeeps == ASSUME IndInv, Interrupt PROVE IndInv'
<1>1. /\ pc = "interrupt" /\ pc' = "recheck" /\ buffered = <<>>
      /\ UNCHANGED <<tx_used, taken, filled, rx_drained, busy, buffered, wake,
                     kick, frozen, resets, data, suppressed, backlog, used,
                     owned, posting, napi, no_int>>
  BY DEF Interrupt, pass, wakes, mux, driver, IndInv, Outstanding, Quiet
<1>2. irq' = (irq \/ (tx_used /\ ~no_int["tx"]) \/ (filled > 0 /\ ~no_int["rx"]))
  BY DEF Interrupt
<1>3. Types'
  <2>1. irq' \in BOOLEAN
    BY <1>2
  <2> QED
    BY <1>1, <2>1, Zenon DEF IndInv, Types
<1>4. Conserved'
  <2>1. \A q \in Queues : Staged(q)' = Staged(q)
    BY <1>1 DEF Staged
  <2> QED
    BY <1>1, <2>1, SameRings DEF IndInv
<1>5. Outstanding' /\ KicksOn'
  BY <1>1 DEF IndInv, Outstanding, KicksOn, Quiet
<1>6. Paid'
  <2>1. ASSUME NEW q \in Queues, napi[q] = "asleep", used[q] > 0 PROVE irq'
    <3>1. ~no_int[q] /\ (irq \/ Owed(q))
      BY <2>1 DEF IndInv, Paid
    <3> QED
      BY <1>2, <3>1 DEF Owed, Queues
  <2> QED
    BY <1>1, <2>1 DEF IndInv, Paid
<1>7. Woken'
  BY <1>1 DEF Woken
<1> QED
  BY <1>3, <1>4, <1>5, <1>6, <1>7 DEF IndInv

\* The pass ends: a packet that came without a kick makes the worker busy.
LEMMA RecheckKeeps == ASSUME IndInv, Recheck PROVE IndInv'
<1>1. /\ pc = "recheck" /\ pc' = "wait"
      /\ UNCHANGED <<tx_used, taken, filled, rx_drained, buffered, wake,
                     kick, frozen, resets, data, suppressed, backlog, used,
                     owned, posting, napi, no_int, irq>>
  BY DEF Recheck, pass, wakes, mux, driver
<1>2. busy' \in BOOLEAN /\ (can_receive /\ backlog["tx"] > 0 => busy')
  BY DEF Recheck
<1>3. Types'
  BY <1>1, <1>2, Zenon DEF IndInv, Types
<1>4. Conserved'
  <2>1. \A q \in Queues : Staged(q)' = Staged(q)
    BY <1>1 DEF Staged
  <2> QED
    BY <1>1, <2>1, SameRings DEF IndInv
<1>5. Outstanding' /\ KicksOn'
  BY <1>1 DEF IndInv, Outstanding, KicksOn, Quiet
<1>6. Paid'
  <2>1. \A q \in Queues : Owed(q)' = Owed(q)
    BY <1>1 DEF Owed
  <2> QED
    BY <1>1, <2>1 DEF IndInv, Paid
<1>7. Woken'
  BY <1>1, <1>2 DEF Woken, can_receive
<1> QED
  BY <1>3, <1>4, <1>5, <1>6, <1>7 DEF IndInv

\* A snapshot freezes the device; resume wakes it; so does a host event.
LEMMA HostKeeps == ASSUME IndInv, Save \/ Resume \/ HostEvent PROVE IndInv'
<1>1. /\ UNCHANGED <<pc, tx_used, taken, filled, rx_drained, busy, buffered,
                     kick, resets, suppressed, backlog, used, owned, posting,
                     napi, no_int, irq>>
      /\ frozen' \in BOOLEAN /\ wake' \in BOOLEAN /\ data' \in 0 .. MaxData
      /\ wake' \/ (frozen' /\ wake' = wake)
  <2>1. CASE Save
    BY <2>1 DEF Save, worker, pass, mux, driver, IndInv, Types
  <2>2. CASE Resume
    BY <2>2 DEF Resume, worker, pass, mux, driver, IndInv, Types
  <2>3. CASE HostEvent
    BY <2>3, TransportAssumption
      DEF HostEvent, worker, pass, mux, driver, IndInv, Types
  <2> QED
    BY <2>1, <2>2, <2>3
<1>2. Types'
  BY <1>1, Zenon DEF IndInv, Types
<1>3. Conserved'
  <2>1. \A q \in Queues : Staged(q)' = Staged(q)
    BY <1>1 DEF Staged
  <2> QED
    BY <1>1, <2>1, SameRings DEF IndInv, Conserved
<1>4. Outstanding' /\ KicksOn'
  BY <1>1 DEF IndInv, Outstanding, KicksOn, Quiet
<1>5. Paid'
  <2>1. \A q \in Queues : Owed(q)' = Owed(q)
    BY <1>1 DEF Owed
  <2> QED
    BY <1>1, <2>1 DEF IndInv, Paid
<1>6. Woken'
  BY <1>1 DEF Woken
<1> QED
  BY <1>2, <1>3, <1>4, <1>5, <1>6 DEF IndInv

\* A buffer goes back and forth between the driver and the rings.
LEMMA DriverMovesKeeps ==
  ASSUME IndInv, ~frozen, NEW q \in Queues, Posts(q) \/ Takes(q)
  PROVE  IndInv'
<1>1. /\ UNCHANGED <<pc, tx_used, taken, filled, rx_drained, busy, buffered,
                     wake, kick, frozen, resets, data, suppressed, napi,
                     no_int, irq>>
      /\ \/ /\ owned[q] > 0 /\ owned' = [owned EXCEPT ![q] = @ - 1]
            /\ backlog' = [backlog EXCEPT ![q] = @ + 1]
            /\ posting' = [posting EXCEPT ![q] = "check"] /\ used' = used
         \/ /\ used[q] > 0 /\ used' = [used EXCEPT ![q] = @ - 1]
            /\ owned' = [owned EXCEPT ![q] = @ + 1] /\ napi[q] = "polling"
            /\ backlog' = backlog /\ posting' = posting
  BY DEF Posts, Takes, worker, pass, wakes, mux
<1>2. /\ owned \in [Queues -> Nat] /\ backlog \in [Queues -> Nat]
      /\ used \in [Queues -> Nat] /\ posting \in [Queues -> {"idle", "check"}]
      /\ buffered \in Seq(Store)
  BY DEF IndInv, Types
<1>3. /\ owned' \in [Queues -> Nat] /\ backlog' \in [Queues -> Nat]
      /\ used' \in [Queues -> Nat] /\ posting' \in [Queues -> {"idle", "check"}]
      /\ \A r \in Queues :
           /\ owned'[r] + backlog'[r] + used'[r]
                = owned[r] + backlog[r] + used[r]
           /\ used'[r] > 0 => used[r] > 0
           /\ posting'[r] = "idle" =>
                posting[r] = "idle" /\ backlog'[r] = backlog[r]
  <2>1. CASE owned' = [owned EXCEPT ![q] = @ - 1]
    <3>1. /\ owned[q] > 0 /\ owned' = [owned EXCEPT ![q] = @ - 1]
          /\ backlog' = [backlog EXCEPT ![q] = @ + 1]
          /\ posting' = [posting EXCEPT ![q] = "check"] /\ used' = used
      BY <1>1, <1>2, <2>1
    <3>2. ASSUME NEW r \in Queues
          PROVE  IF r = q THEN /\ owned'[r] = owned[r] - 1
                               /\ backlog'[r] = backlog[r] + 1
                               /\ posting'[r] = "check"
                 ELSE /\ owned'[r] = owned[r] /\ backlog'[r] = backlog[r]
                      /\ posting'[r] = posting[r]
      BY <3>1, <1>2
    <3>3. /\ owned' \in [Queues -> Nat] /\ backlog' \in [Queues -> Nat]
          /\ posting' \in [Queues -> {"idle", "check"}]
      BY <3>1, <1>2
    <3>4. ASSUME NEW r \in Queues
          PROVE  /\ owned'[r] + backlog'[r] + used'[r]
                      = owned[r] + backlog[r] + used[r]
                 /\ used'[r] > 0 => used[r] > 0
                 /\ posting'[r] = "idle" =>
                      posting[r] = "idle" /\ backlog'[r] = backlog[r]
      <4>1. owned[r] \in Nat /\ backlog[r] \in Nat /\ used[r] \in Nat
        BY <1>2
      <4> QED
        BY <3>1, <3>2, <4>1
    <3> QED
      BY <3>1, <3>3, <3>4, <1>2, Zenon
  <2>2. CASE owned' = [owned EXCEPT ![q] = @ + 1]
    <3>1. /\ used[q] > 0 /\ used' = [used EXCEPT ![q] = @ - 1]
          /\ owned' = [owned EXCEPT ![q] = @ + 1]
          /\ backlog' = backlog /\ posting' = posting
      BY <1>1, <1>2, <2>2
    <3>2. ASSUME NEW r \in Queues
          PROVE  IF r = q THEN owned'[r] = owned[r] + 1 /\ used'[r] = used[r] - 1
                 ELSE owned'[r] = owned[r] /\ used'[r] = used[r]
      BY <3>1, <1>2
    <3>3. owned' \in [Queues -> Nat] /\ used' \in [Queues -> Nat]
      BY <3>1, <1>2
    <3>4. ASSUME NEW r \in Queues
          PROVE  /\ owned'[r] + backlog'[r] + used'[r]
                      = owned[r] + backlog[r] + used[r]
                 /\ used'[r] > 0 => used[r] > 0
                 /\ posting'[r] = "idle" =>
                      posting[r] = "idle" /\ backlog'[r] = backlog[r]
      <4>1. owned[r] \in Nat /\ backlog[r] \in Nat /\ used[r] \in Nat
        BY <1>2
      <4> QED
        BY <3>1, <3>2, <4>1
    <3> QED
      BY <3>1, <3>3, <3>4, <1>2, Zenon
  <2> QED
    BY <1>1, <2>1, <2>2
<1>4. Types'
  BY <1>1, <1>3, Zenon DEF IndInv, Types
<1>5. Conserved'
  <2>1. ASSUME NEW r \in Queues
        PROVE  owned'[r] + backlog'[r] + used'[r] + Count(buffered', Used(r))
                 + Staged(r)' = Size
    <3> DEFINE c == Count(buffered, Used(r))
    <3>1. c \in Nat /\ Staged(r)' = Staged(r) /\ Staged(r) \in Nat
      BY <1>1, <1>2, CountConcat, TransportAssumption DEF Staged, IndInv, Types
    <3>2. owned[r] + backlog[r] + used[r] + c + Staged(r) = Size
      BY DEF IndInv, Conserved
    <3> HIDE DEF c
    <3>3. owned'[r] + backlog'[r] + used'[r] + c + Staged(r) = Size
      BY <1>2, <1>3, <3>1, <3>2
    <3> QED
      BY <1>1, <3>1, <3>3 DEF c
  <2> QED
    BY <1>1, <2>1 DEF IndInv, Conserved
<1>6. Outstanding' /\ KicksOn'
  BY <1>1 DEF IndInv, Outstanding, KicksOn, Quiet
<1>7. Paid'
  <2>1. \A r \in Queues : Owed(r)' = Owed(r)
    BY <1>1 DEF Owed
  <2> QED
    BY <1>1, <1>3, <2>1, Zenon DEF IndInv, Paid
<1>8. Woken'
  BY <1>1, <1>3 DEF IndInv, Woken, can_receive, Queues
<1> QED
  BY <1>4, <1>5, <1>6, <1>7, <1>8 DEF IndInv

\* The driver looks at the kick flag: while the worker sleeps kicks are on,
\* so a post becomes a kick.
LEMMA ChecksKeeps ==
  ASSUME IndInv, NEW q \in Queues, Checks(q) PROVE IndInv'
<1>1. /\ UNCHANGED <<pc, tx_used, taken, filled, rx_drained, busy, buffered,
                     wake, frozen, resets, data, suppressed, backlog, used,
                     owned, napi, no_int, irq>>
      /\ posting' = [posting EXCEPT ![q] = "idle"]
      /\ kick' = IF suppressed[q] THEN kick ELSE kick \cup {q}
  BY DEF Checks, worker, pass, mux
<1>2. Types'
  <2>1. kick' \in SUBSET Queues /\ posting' \in [Queues -> {"idle", "check"}]
    BY <1>1 DEF IndInv, Types
  <2> QED
    BY <1>1, <2>1, Zenon DEF IndInv, Types
<1>3. Conserved'
  <2>1. \A r \in Queues : Staged(r)' = Staged(r)
    BY <1>1 DEF Staged
  <2> QED
    BY <1>1, <2>1, SameRings DEF IndInv, Conserved
<1>4. Outstanding' /\ KicksOn'
  BY <1>1 DEF IndInv, Outstanding, KicksOn, Quiet
<1>5. Paid'
  <2>1. \A r \in Queues : Owed(r)' = Owed(r)
    BY <1>1 DEF Owed
  <2> QED
    BY <1>1, <2>1 DEF IndInv, Paid
<1>6. Woken'
  <2>1. pc = "wait" => ~suppressed[q]
    BY DEF IndInv, KicksOn, Quiet
  <2>2. posting \in [Queues -> {"idle", "check"}] /\ "tx" \in Queues
    BY DEF IndInv, Types, Queues
  <2>3. q # "tx" => posting'["tx"] = posting["tx"]
    BY <1>1, <2>2
  <2> QED
    BY <1>1, <2>1, <2>3 DEF IndInv, Woken, can_receive
<1> QED
  BY <1>2, <1>3, <1>4, <1>5, <1>6 DEF IndInv

\* The driver takes an interrupt, or goes on with its polling.
LEMMA NapiKeeps ==
  ASSUME IndInv,
         Interrupted \/ \E q \in Queues : Enables(q) \/ Rechecks(q)
  PROVE  IndInv'
<1>1. UNCHANGED <<pc, tx_used, taken, filled, rx_drained, busy, buffered,
                  wake, kick, frozen, resets, data, suppressed, backlog,
                  used, owned, posting>>
  BY DEF Interrupted, Enables, Rechecks, worker, pass, wakes, mux
<1>2. /\ napi \in [Queues -> {"asleep", "polling", "enabling"}]
      /\ no_int \in [Queues -> BOOLEAN] /\ irq \in BOOLEAN
      /\ used \in [Queues -> Nat]
  BY DEF IndInv, Types
<1>3. /\ napi' \in [Queues -> {"asleep", "polling", "enabling"}]
      /\ no_int' \in [Queues -> BOOLEAN] /\ irq' \in BOOLEAN
      /\ \A r \in Queues :
           /\ no_int'[r] <=> napi'[r] = "polling"
           /\ napi'[r] = "asleep" /\ used[r] > 0 =>
                napi[r] = "asleep" /\ (irq => irq')
  <2>1. CASE Interrupted
    <3>1. /\ napi' = [q \in Queues |-> "polling"] /\ irq' = FALSE
          /\ no_int' = [q \in Queues |-> TRUE]
      BY <2>1 DEF Interrupted
    <3> QED
      BY <3>1
  <2>2. CASE \E q \in Queues : Enables(q) \/ Rechecks(q)
    <3>1. PICK q \in Queues : Enables(q) \/ Rechecks(q)
      BY <2>2
    <3>2. \E on \in BOOLEAN, st \in {"asleep", "polling", "enabling"} :
            /\ napi' = [napi EXCEPT ![q] = st]
            /\ no_int' = [no_int EXCEPT ![q] = on]
            /\ on <=> st = "polling"
            /\ st = "asleep" => ~(used[q] > 0)
            /\ irq' = irq
      <4>1. CASE Enables(q)
        BY <4>1 DEF Enables
      <4>2. CASE Rechecks(q)
        <5> DEFINE on == used[q] > 0
                   st == IF on THEN "polling" ELSE "asleep"
        <5>1. /\ napi' = [napi EXCEPT ![q] = st] /\ irq' = irq
              /\ no_int' = [no_int EXCEPT ![q] = on]
          BY <4>2, Zenon DEF Rechecks
        <5>2. /\ on \in BOOLEAN /\ st \in {"asleep", "polling", "enabling"}
              /\ on <=> st = "polling"
          OBVIOUS
        <5>3. st = "asleep" => ~(used[q] > 0)
          OBVIOUS
        <5> HIDE DEF on, st
        <5> QED
          BY <5>1, <5>2, <5>3, Zenon
      <4> QED
        BY <3>1, <4>1, <4>2
    <3>3. PICK on \in BOOLEAN, st \in {"asleep", "polling", "enabling"} :
            /\ napi' = [napi EXCEPT ![q] = st]
            /\ no_int' = [no_int EXCEPT ![q] = on]
            /\ on <=> st = "polling"
            /\ st = "asleep" => ~(used[q] > 0)
            /\ irq' = irq
      BY <3>2
    <3>4. /\ napi' \in [Queues -> {"asleep", "polling", "enabling"}]
          /\ no_int' \in [Queues -> BOOLEAN]
      BY <3>3, <1>2
    <3>5. ASSUME NEW r \in Queues
          PROVE  /\ no_int'[r] <=> napi'[r] = "polling"
                 /\ napi'[r] = "asleep" /\ used[r] > 0 => napi[r] = "asleep"
      <4>1. CASE r = q
        <5>1. napi'[r] = st /\ no_int'[r] = on
          BY <3>3, <1>2, <4>1, Zenon
        <5> QED
          BY <5>1, <4>1, <3>3, Zenon
      <4>2. CASE r # q
        <5>1. napi'[r] = napi[r] /\ no_int'[r] = no_int[r]
          BY <3>3, <1>2, <4>2, Zenon
        <5> QED
          BY <5>1, Zenon DEF IndInv, Paid
      <4> QED
        BY <4>1, <4>2
    <3> QED
      BY <3>3, <3>4, <3>5, <1>2, Zenon
  <2> QED
    BY <2>1, <2>2
<1>4. Types'
  BY <1>1, <1>3, Zenon DEF IndInv, Types
<1>5. Conserved'
  <2>1. \A r \in Queues : Staged(r)' = Staged(r)
    BY <1>1 DEF Staged
  <2> QED
    BY <1>1, <2>1, SameRings DEF IndInv, Conserved
<1>6. Outstanding' /\ KicksOn'
  BY <1>1 DEF IndInv, Outstanding, KicksOn, Quiet
<1>7. Paid'
  <2>1. \A r \in Queues : Owed(r)' = Owed(r)
    BY <1>1 DEF Owed
  <2> QED
    BY <1>1, <1>3, <2>1, Zenon DEF IndInv, Paid
<1>8. Woken'
  BY <1>1 DEF IndInv, Woken, can_receive
<1> QED
  BY <1>4, <1>5, <1>6, <1>7, <1>8 DEF IndInv

\* Every step keeps the inductive invariant.
LEMMA NextIndInv == IndInv /\ [Next]_vars => IndInv'
<1> SUFFICES ASSUME IndInv, [Next]_vars PROVE IndInv'
  OBVIOUS
<1>1. CASE Process
  BY <1>1, SetNotifyKeeps, FenceKeeps, MovesOnKeeps, TakeTxKeeps, FillKeeps,
     CompleteKeeps, InterruptKeeps, RecheckKeeps DEF Process
<1>2. CASE Driver
  <2>1. CASE Interrupted
    BY <2>1, NapiKeeps
  <2>2. ASSUME NEW q \in Queues,
               Posts(q) \/ Checks(q) \/ Takes(q) \/ Enables(q) \/ Rechecks(q)
        PROVE  IndInv'
    BY <1>2, <2>2, DriverMovesKeeps, ChecksKeeps, NapiKeeps DEF Driver
  <2> QED
    BY <1>2, <2>1, <2>2 DEF Driver
<1>3. CASE UNCHANGED vars
  <2>1. UNCHANGED <<pc, tx_used, taken, filled, rx_drained, busy, buffered,
                    wake, kick, frozen, resets, data, suppressed, backlog,
                    used, owned, posting, napi, no_int, irq>>
    BY <1>3 DEF vars, worker, pass, wakes, mux, driver
  <2>2. Types'
    BY <2>1, Zenon DEF IndInv, Types
  <2>3. Conserved'
    BY <2>1 DEF IndInv, Conserved, Staged
  <2>4. Outstanding' /\ KicksOn'
    BY <2>1 DEF IndInv, Outstanding, KicksOn
  <2>5. Paid' /\ Woken'
    BY <2>1 DEF IndInv, Paid, Woken, Owed, can_receive
  <2> QED
    BY <2>2, <2>3, <2>4, <2>5 DEF IndInv
<1> QED
  BY <1>1, <1>2, <1>3, FlushKeeps, WakesKeeps, HostKeeps DEF Next

\* The inductive invariant holds of every reachable state.
LEMMA Inductive == Spec => []IndInv
BY InitIndInv, NextIndInv, PTL DEF Spec

\* The worker never sleeps on packets of the guest it could take: whatever
\* the sizes of the rings and of a pass, a post it did not see came with a
\* kick (set_notify and its fence, the look at the end of process, resume).
THEOREM NoTxForgotten == Spec => []TxNotForgotten
<1>1. IndInv => TxNotForgotten
  BY DEF IndInv, Woken, TxNotForgotten, Asleep
<1> QED
  BY <1>1, Inductive, PTL

\* A driver that waits for an interrupt is not left with used buffers: the
\* question whether it wants one is asked after the stores are seen
\* (wants_interrupt behind the fence of set_notify).
THEOREM NoInterruptLost == Spec => []InterruptNotLost
<1>1. IndInv => InterruptNotLost
  <2> SUFFICES ASSUME IndInv, pc = "wait", ~irq, NEW q \in Queues,
                      napi[q] = "asleep"
               PROVE  used[q] = 0
    BY DEF InterruptNotLost
  <2>1. ~Owed(q) /\ used[q] \in Nat
    BY DEF Owed, IndInv, Types
  <2> QED
    BY <2>1 DEF IndInv, Paid
<1> QED
  BY <1>1, Inductive, PTL

\* No buffer of a ring is lost or handed out twice, whatever a pass takes:
\* between two passes each is with the driver, posted, or used.
BuffersConserved ==
  pc = "wait" => \A q \in Queues : owned[q] + backlog[q] + used[q] = Size

\* Each buffer of a ring is in one place (pop, take_rx and push_used of
\* queue.rs hand each chain on once).
THEOREM ConservesBuffers == Spec => []BuffersConserved
<1>1. IndInv => BuffersConserved
  <2> SUFFICES ASSUME IndInv, pc = "wait", NEW q \in Queues
               PROVE  owned[q] + backlog[q] + used[q] = Size
    BY DEF BuffersConserved
  <2>1. buffered = <<>> /\ Staged(q) = 0
    BY DEF IndInv, Outstanding, Quiet, Staged
  <2>2. Count(<<>>, Used(q)) = 0
    <3>1. {i \in 1 .. Len(<<>>) : <<>>[i] = Used(q)} = {}
      OBVIOUS
    <3> QED
      BY <3>1, FS_EmptySet DEF Count
  <2>3. owned[q] + backlog[q] + used[q] + 0 + 0 = Size
    BY <2>1, <2>2 DEF IndInv, Conserved
  <2>4. owned[q] \in Nat /\ backlog[q] \in Nat /\ used[q] \in Nat
    BY DEF IndInv, Types
  <2> QED
    BY <2>3, <2>4
<1> QED
  BY <1>1, Inductive, PTL

\* Every variable keeps its type; no ring holds more than its size and the
\* resets never outgrow the queue of the mux (can_receive).
THEOREM TypeCorrect == Spec => []TypeOK
<1>1. IndInv => TypeOK
  <2> SUFFICES ASSUME IndInv PROVE TypeOK
    OBVIOUS
  <2> DEFINE Rec == [what : {"flag", "used"}, queue : Queues, value : BOOLEAN]
  <2>1. buffered \in Seq(Rec)
    <3>1. Store \subseteq Rec
      BY DEF Store
    <3> QED
      BY <3>1, SeqMonotonic DEF IndInv, Types
  <2>2. ASSUME NEW q \in Queues
        PROVE  /\ backlog[q] \in 0 .. Size /\ used[q] \in 0 .. Size
               /\ owned[q] \in 0 .. Size
    <3> DEFINE c == Count(buffered, Used(q))
    <3>1. c \in Nat /\ Staged(q) \in Nat
      BY CountConcat, TransportAssumption DEF Staged, IndInv, Types
    <3>2. owned[q] + backlog[q] + used[q] + c + Staged(q) = Size
      BY DEF IndInv, Conserved
    <3>3. owned[q] \in Nat /\ backlog[q] \in Nat /\ used[q] \in Nat
      BY DEF IndInv, Types
    <3> HIDE DEF c
    <3> QED
      BY <3>1, <3>2, <3>3, TransportAssumption
  <2>3. /\ backlog \in [Queues -> 0 .. Size] /\ used \in [Queues -> 0 .. Size]
        /\ owned \in [Queues -> 0 .. Size]
    BY <2>2 DEF IndInv, Types
  <2> QED
    BY <2>1, <2>3, Zenon DEF TypeOK, IndInv, Types
<1> QED
  BY <1>1, Inductive, PTL
=============================================================================
