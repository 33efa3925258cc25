------------------------ MODULE SessionOutputProofs ------------------------
(***************************************************************************)
(* Proofs about SessionOutput, for any number of clients, every size of    *)
(* the ring, of its runs and of the queues, and every load.                *)
(***************************************************************************)
EXTENDS SessionOutput, Integers, SequenceTheorems, FiniteSetTheorems, WellFoundedInduction,
        TLAPS

\* What the names and limits must be: the ring holds a run and stdin a frame,
\* and no client is called as a stream is.
SessionConstants ==
  /\ Buffer \in Nat /\ MaxRuns \in Nat \ {0} /\ SendLow \in Nat /\ StdinQueue \in Nat \ {0}
  /\ Streams \cap Clients = {} /\ "stdin" \notin Clients

-----------------------------------------------------------------------------
(* The inductive invariant. *)

Records == [on : BOOLEAN, cursor : Nat, out : Seq(Nat), got : Nat, closing : BOOLEAN,
            blocked : BOOLEAN, n : Int, eof : BOOLEAN, shut : BOOLEAN]
Types ==
  /\ load \in Loads /\ pipe \in [Streams -> Int] /\ log \in Seq(Streams)
  /\ start \in Nat /\ start <= End /\ outputs \subseteq Streams
  /\ finished \in BOOLEAN /\ stdin \in BOOLEAN /\ queue \in Int /\ dirty \in BOOLEAN
  /\ att \in [Clients -> Records]

\* The ring has no more runs than it may, and nothing a client still needs
\* was dropped.
Rings ==
  /\ Runs(log, start) <= MaxRuns
  /\ \A c \in Attached : start <= att[c].cursor /\ att[c].cursor <= End

\* What is queued for a client goes on from what it was sent, up to its
\* cursor, and ends with EXIT when it closes.
Fed(a, f, e) ==
  IF a.closing
  THEN /\ f /\ Len(a.out) >= 1 /\ a.cursor = e /\ a.got + Len(a.out) - 1 = e
       /\ a.out[Len(a.out)] = EXIT
       /\ \A i \in 1 .. Len(a.out) - 1 : a.out[i] = a.got + i
  ELSE /\ a.got + Len(a.out) = a.cursor
       /\ \A i \in 1 .. Len(a.out) : a.out[i] = a.got + i
Feeds ==
  /\ \A c \in Attached : Fed(att[c], finished, End)
  /\ finished => outputs = {}

\* A settle has seen every client that is not left.
Settles ==
  /\ phase = "settle" =>
       /\ left \subseteq Attached /\ life = "live" /\ (exit = "known" /\ outputs = {} => finished)
       /\ dirty \/ \A c \in Attached \ left : att[c].blocked => queue >= StdinQueue
  /\ stdin \/ queue = 0
  /\ life = "none" => Attached = {} /\ hangup = "none"

SessionInv == Types /\ Rings /\ Feeds /\ Settles /\ LoopNotStuck /\ AloneIsHungUp

-----------------------------------------------------------------------------
(* Least and greatest numbers. *)

LEMMA MinIs ==
  ASSUME NEW S \in SUBSET Nat, S # {}
  PROVE  Min(S) \in S /\ \A y \in S : Min(S) <= y
<1>1. PICK n \in S : \A m \in S : ~(<<m, n>> \in OpToRel(<, Nat))
  BY WFMin, NatLessThanWellFounded, Zenon
<1>2. n \in Nat /\ \A m \in S : m \in Nat /\ ~(m < n)
  BY <1>1 DEF OpToRel
<1>3. \E x \in S : \A y \in S : x =< y
  BY <1>2
<1> QED
  BY <1>3, Zenon DEF Min

LEMMA MinOfTwo ==
  ASSUME NEW x \in Int, NEW y \in Int
  PROVE  /\ Min({x, y}) = IF x <= y THEN x ELSE y
         /\ Max({x, y}) = IF x <= y THEN y ELSE x
BY DEF Min, Max

-----------------------------------------------------------------------------
(* The runs of the ring. *)

LEMMA RunsFinite ==
  ASSUME NEW l \in Seq(Streams), NEW s \in Nat
  PROVE  /\ IsFiniteSet(RunStarts(l, s)) /\ Runs(l, s) \in Nat /\ Len(l) \in Nat
         /\ RunStarts(l, s) \subseteq s + 1 .. Len(l)
         /\ s < Len(l) => s + 1 \in RunStarts(l, s)
         /\ Runs(l, s) = Cardinality(RunStarts(l, s))
<1>1. Len(l) \in Nat
  BY LenProperties
<1>2. RunStarts(l, s) \in SUBSET (s + 1 .. Len(l)) /\ IsFiniteSet(s + 1 .. Len(l))
  BY <1>1, FS_Interval DEF RunStarts
<1>3. IsFiniteSet(RunStarts(l, s))
  BY <1>2, FS_Subset
<1>4. Runs(l, s) \in Nat
  BY <1>3, FS_CardinalityType DEF Runs
<1>5. s < Len(l) => s + 1 \in RunStarts(l, s)
  BY <1>1 DEF RunStarts
<1> QED
  BY <1>1, <1>2, <1>3, <1>4, <1>5 DEF Runs

\* What starts later has no more runs, and fewer past another's first byte.
LEMMA RunsFewer ==
  ASSUME NEW l \in Seq(Streams), NEW s \in Nat, NEW t \in Nat, s <= t
  PROVE  /\ Runs(l, t) <= Runs(l, s)
         /\ \A b \in RunStarts(l, s) : s + 1 < b /\ b <= t + 1 => Runs(l, t) <= Runs(l, s) - 1
<1>1. PICK S, T : S = RunStarts(l, s) /\ T = RunStarts(l, t)
  OBVIOUS
<1>2. /\ IsFiniteSet(S) /\ IsFiniteSet(T) /\ Runs(l, s) = Cardinality(S)
      /\ Runs(l, t) = Cardinality(T) /\ Len(l) \in Nat /\ T \subseteq t + 1 .. Len(l)
      /\ S \subseteq s + 1 .. Len(l)
      /\ Cardinality(S) \in Nat /\ Cardinality(T) \in Nat
  BY <1>1, RunsFinite
<1>3. CASE t >= Len(l)
  <2>. T = {}
    BY <1>2, <1>3
  <2>1. Cardinality(T) = 0
    BY FS_EmptySet
  <2>2. ASSUME NEW b \in S PROVE Cardinality(S) >= 1
    BY <1>2, <2>2, FS_EmptySet
  <2> QED
    BY <1>1, <1>2, <2>1, <2>2
<1>4. CASE t < Len(l)
  <2>1. t + 1 \in T /\ s + 1 \in S
    BY <1>1, <1>2, <1>4, RunsFinite, SMTT(40)
  <2>2. PICK U : U = (T \ {t + 1}) \cup {s + 1}
    OBVIOUS
  <2>3. U \subseteq S
    BY <1>1, <1>2, <2>1, <2>2 DEF RunStarts
  <2>4. IsFiniteSet(T \ {t + 1}) /\ Cardinality(T \ {t + 1}) = Cardinality(T) - 1
    BY <1>2, <2>1, FS_RemoveElement
  <2>5. PICK W : W = T \ {t + 1}
    OBVIOUS
  <2>6. IsFiniteSet(U) /\ Cardinality(U) = Cardinality(T)
    <3>1. s + 1 \notin W /\ IsFiniteSet(W) /\ U = W \cup {s + 1}
      BY <1>2, <2>2, <2>4, <2>5
    <3>2. IsFiniteSet(U) /\ Cardinality(U) = Cardinality(W) + 1
      BY <3>1, FS_AddElement, Zenon
    <3>3. Cardinality(W) = Cardinality(T) - 1
      BY <2>4, <2>5
    <3> QED
      BY <1>2, <3>2, <3>3
  <2>7. Cardinality(U) <= Cardinality(S)
    BY <1>2, <2>3, FS_Subset
  <2>8. ASSUME NEW b \in S, s + 1 < b, b <= t + 1 PROVE Cardinality(T) <= Cardinality(S) - 1
    <3>1. b \notin U
      BY <1>2, <2>2, <2>8
    <3>2. U \in SUBSET (S \ {b})
      BY <2>3, <3>1
    <3>3. IsFiniteSet(S \ {b}) /\ Cardinality(S \ {b}) = Cardinality(S) - 1
      BY <1>2, <2>8, FS_RemoveElement
    <3>4. Cardinality(U) <= Cardinality(S \ {b})
      BY <3>2, <3>3, FS_Subset
    <3> QED
      BY <2>6, <3>3, <3>4
  <2> QED
    BY <1>1, <1>2, <2>6, <2>7, <2>8
<1> QED
  BY <1>2, <1>3, <1>4

\* The first byte after the first run.
LEMMA NextRun ==
  ASSUME NEW l \in Seq(Streams), NEW s \in Nat, s <= Len(l)
  PROVE  \E b \in Nat :
           /\ s + FirstRun(l, s) = b - 1 /\ s + 1 <= b /\ b <= Len(l) + 1
           /\ b = Len(l) + 1 \/ (b \in RunStarts(l, s) /\ s + 1 < b)
           /\ \A c \in RunStarts(l, s) : s + 1 < c => b <= c
<1>1. PICK S : S = {i \in RunStarts(l, s) : i > s + 1} \cup {Len(l) + 1}
  OBVIOUS
<1>2. Len(l) \in Nat /\ RunStarts(l, s) \subseteq s + 1 .. Len(l)
  BY RunsFinite
<1>3. S \in SUBSET Nat /\ S # {}
  BY <1>1, <1>2
<1>4. PICK b : b = Min(S)
  OBVIOUS
<1>5. b \in S /\ \A y \in S : b <= y
  BY <1>3, <1>4, MinIs
<1>6. FirstRun(l, s) = b - s - 1
  BY <1>1, <1>4 DEF FirstRun
<1>7. b \in Nat /\ s + 1 <= b /\ b <= Len(l) + 1 /\ (b = Len(l) + 1 \/ (b \in RunStarts(l, s) /\ s + 1 < b))
  BY <1>1, <1>2, <1>3, <1>5
<1>8. s + FirstRun(l, s) = b - 1
  BY <1>6, <1>7
<1>9. \A c \in RunStarts(l, s) : s + 1 < c => b <= c
  BY <1>1, <1>2, <1>5
<1> QED
  BY <1>7, <1>8, <1>9

\* Bytes of one stream appended to a log.
Longer(l, k, st, n) == l = k \o [i \in 1 .. n |-> st]

LEMMA Appended ==
  ASSUME NEW k \in Seq(Streams), NEW st \in Streams, NEW n \in Nat, n >= 1,
         NEW l, Longer(l, k, st, n)
  PROVE  /\ l \in Seq(Streams) /\ Len(l) = Len(k) + n /\ Len(k) \in Nat
         /\ \A i \in 1 .. Len(k) : l[i] = k[i]
         /\ \A i \in Len(k) + 1 .. Len(l) : l[i] = st
<1>1. PICK m : m = [i \in 1 .. n |-> st] /\ l = k \o m
  BY DEF Longer
<1>2. m \in Seq(Streams) /\ Len(m) = n
  <2>1. m \in [1 .. n -> Streams] /\ DOMAIN m = 1 .. n
    BY <1>1
  <2>2. m \in Seq(Streams)
    BY <2>1, SeqDef
  <2> QED
    BY <2>1, <2>2, LenProperties
<1>3. /\ l \in Seq(Streams) /\ Len(l) = Len(k) + Len(m) /\ Len(k) \in Nat
      /\ \A i \in 1 .. Len(k) + Len(m) : l[i] = IF i <= Len(k) THEN k[i] ELSE m[i - Len(k)]
  BY <1>1, <1>2, ConcatProperties, LenProperties
<1>4. ASSUME NEW i \in Len(k) + 1 .. Len(l) PROVE l[i] = st
  <2>1. i \in 1 .. Len(k) + Len(m) /\ ~(i <= Len(k)) /\ i - Len(k) \in 1 .. n
    BY <1>2, <1>3
  <2>2. l[i] = m[i - Len(k)]
    BY <1>3, <2>1
  <2> QED
    BY <1>1, <2>1, <2>2
<1> QED
  BY <1>2, <1>3, <1>4

\* They make at most one run more, which begins with the first of them, and
\* none if the log ended with their stream.
LEMMA AppendedRuns ==
  ASSUME NEW k \in Seq(Streams), NEW st \in Streams, NEW n \in Nat, n >= 1,
         NEW l, Longer(l, k, st, n), NEW s \in Nat, s <= Len(k)
  PROVE  /\ Runs(l, s) <= Runs(k, s) + 1
         /\ Len(k) > s /\ k[Len(k)] = st => Runs(l, s) <= Runs(k, s)
         /\ ~(Len(k) > s /\ k[Len(k)] = st) => Len(k) + 1 \in RunStarts(l, s)
         /\ RunStarts(k, s) \subseteq RunStarts(l, s)
<1>1. /\ l \in Seq(Streams) /\ Len(l) = Len(k) + n /\ Len(k) \in Nat
      /\ \A i \in 1 .. Len(k) : l[i] = k[i]
      /\ \A i \in Len(k) + 1 .. Len(l) : l[i] = st
  BY Appended
<1>2. RunStarts(k, s) \subseteq RunStarts(l, s)
  <2>1. ASSUME NEW i \in RunStarts(k, s) PROVE i \in RunStarts(l, s)
    <3>1. i \in s + 1 .. Len(k) /\ (i = s + 1 \/ k[i] # k[i - 1])
      BY <2>1 DEF RunStarts
    <3>2. i \in s + 1 .. Len(l) /\ l[i] = k[i]
      BY <1>1, <3>1
    <3>3. i # s + 1 => l[i - 1] = k[i - 1]
      BY <1>1, <3>1
    <3> QED
      BY <3>1, <3>2, <3>3 DEF RunStarts
  <2> QED
    BY <2>1
<1>3. ASSUME NEW i \in RunStarts(l, s), i \notin RunStarts(k, s)
      PROVE  i = Len(k) + 1 /\ ~(Len(k) > s /\ k[Len(k)] = st)
  <2>1. i \in s + 1 .. Len(l) /\ (i = s + 1 \/ l[i] # l[i - 1])
    BY <1>3 DEF RunStarts
  <2>2. CASE i \in s + 1 .. Len(k)
    <3>1. l[i] = k[i] /\ (i # s + 1 => l[i - 1] = k[i - 1])
      BY <1>1, <2>2, SMTT(40)
    <3> QED
      BY <1>3, <2>1, <2>2, <3>1 DEF RunStarts
  <2>3. CASE i = Len(k) + 1
    <3>1. ASSUME Len(k) > s, k[Len(k)] = st PROVE FALSE
      <4>1. i - 1 = Len(k) /\ i # s + 1 /\ Len(k) \in 1 .. Len(k) /\ i \in Len(k) + 1 .. Len(l)
        BY <1>1, <2>3, <3>1
      <4>2. l[i] = st /\ l[i - 1] = st
        BY <1>1, <3>1, <4>1
      <4> QED
        BY <2>1, <4>1, <4>2
    <3> QED
      BY <2>3, <3>1
  <2>4. CASE i > Len(k) + 1
    <3>1. i \in Len(k) + 1 .. Len(l) /\ i - 1 \in Len(k) + 1 .. Len(l) /\ i # s + 1
      BY <1>1, <2>1, <2>4
    <3>2. l[i] = st /\ l[i - 1] = st
      BY <1>1, <3>1
    <3> QED
      BY <2>1, <3>1, <3>2
  <2>5. i \in s + 1 .. Len(k) \/ i = Len(k) + 1 \/ i > Len(k) + 1
    BY <1>1, <2>1, SMTT(40)
  <2> QED
    BY <2>2, <2>3, <2>4, <2>5, Zenon
<1>4. /\ IsFiniteSet(RunStarts(l, s)) /\ Runs(l, s) = Cardinality(RunStarts(l, s))
      /\ IsFiniteSet(RunStarts(k, s)) /\ Runs(k, s) = Cardinality(RunStarts(k, s))
      /\ Runs(k, s) \in Nat /\ Runs(l, s) \in Nat
  BY <1>1, RunsFinite
<1>5. Runs(l, s) <= Runs(k, s) + 1
  <2>1. RunStarts(l, s) \in SUBSET (RunStarts(k, s) \cup {Len(k) + 1})
    BY <1>3
  <2>2. /\ IsFiniteSet(RunStarts(k, s) \cup {Len(k) + 1})
        /\ Cardinality(RunStarts(k, s) \cup {Len(k) + 1}) <= Runs(k, s) + 1
    <3>1. PICK R, z : R = RunStarts(k, s) /\ z = Len(k) + 1
      OBVIOUS
    <3>2. IsFiniteSet(R) /\ Cardinality(R) = Runs(k, s) /\ Cardinality(R) \in Nat
      BY <1>4, <3>1
    <3>3. /\ IsFiniteSet(R \cup {z})
          /\ Cardinality(R \cup {z}) = IF z \in R THEN Cardinality(R) ELSE Cardinality(R) + 1
      BY <3>2, FS_AddElement, Zenon
    <3>4. Cardinality(R \cup {z}) <= Runs(k, s) + 1
      BY <3>2, <3>3
    <3> QED
      BY <3>1, <3>3, <3>4, Zenon
  <2>3. Cardinality(RunStarts(l, s)) <= Cardinality(RunStarts(k, s) \cup {Len(k) + 1})
    BY <2>1, <2>2, FS_Subset
  <2>4. Cardinality(RunStarts(k, s) \cup {Len(k) + 1}) \in Nat
    BY <2>2, FS_CardinalityType
  <2> QED
    BY <1>4, <2>2, <2>3, <2>4
<1>6. ASSUME Len(k) > s, k[Len(k)] = st PROVE Runs(l, s) <= Runs(k, s)
  <2>1. RunStarts(l, s) = RunStarts(k, s)
    BY <1>2, <1>3, <1>6
  <2> QED
    BY <1>4, <2>1
<1>7. ASSUME ~(Len(k) > s /\ k[Len(k)] = st) PROVE Len(k) + 1 \in RunStarts(l, s)
  <2>1. Len(k) + 1 \in s + 1 .. Len(l) /\ Len(k) + 1 \in Len(k) + 1 .. Len(l) /\ Len(k) + 1 - 1 = Len(k)
    BY <1>1
  <2>2. CASE Len(k) = s
    BY <2>1, <2>2 DEF RunStarts
  <2>3. CASE Len(k) > s
    <3>1. k[Len(k)] # st /\ Len(k) \in 1 .. Len(k)
      BY <1>1, <1>7, <2>3
    <3>2. l[Len(k) + 1] = st /\ l[Len(k)] # st
      BY <1>1, <2>1, <3>1
    <3> QED
      BY <2>1, <3>2 DEF RunStarts
  <2> QED
    BY <1>1, <2>2, <2>3
<1> QED
  BY <1>2, <1>5, <1>6, <1>7

\* What room lets in drops no byte that an attached client still needs, and
\* leaves no more runs than there may be.
LEMMA DropKeeps ==
  ASSUME SessionConstants, Types, Rings, NEW st \in Streams, NEW n \in Nat, n >= 1,
         n <= Room(st), NEW l, Longer(l, log, st, n)
  PROVE  /\ DropFront(l) \in Nat /\ DropFront(l) <= Len(l) /\ Runs(l, DropFront(l)) <= MaxRuns
         /\ \A c \in Attached : DropFront(l) <= att[c].cursor
<1>1. /\ l \in Seq(Streams) /\ Len(l) = End + n /\ End \in Nat /\ End = Len(log)
      /\ log \in Seq(Streams) /\ start \in Nat /\ start <= End
      /\ Buffer \in Nat /\ MaxRuns \in Nat /\ MaxRuns >= 1
  <2>1. log \in Seq(Streams) /\ start \in Nat /\ start <= End /\ End = Len(log)
    BY DEF Types, End
  <2>2. l \in Seq(Streams) /\ Len(l) = Len(log) + n /\ Len(log) \in Nat
    BY <2>1, Appended
  <2>3. Buffer \in Nat /\ MaxRuns \in Nat /\ MaxRuns >= 1
    BY DEF SessionConstants
  <2> QED
    BY <2>1, <2>2, <2>3
<1>0. /\ Runs(l, start) <= Runs(log, start) + 1
      /\ Len(log) > start /\ log[Len(log)] = st => Runs(l, start) <= Runs(log, start)
      /\ ~(Len(log) > start /\ log[Len(log)] = st) => Len(log) + 1 \in RunStarts(l, start)
      /\ RunStarts(log, start) \subseteq RunStarts(l, start)
  <2>1. log \in Seq(Streams) /\ start \in Nat /\ start <= Len(log)
    BY <1>1
  <2> QED
    BY <2>1, AppendedRuns, Zenon
<1>2. PICK s : s = Max({start, IF Len(l) > Buffer THEN Len(l) - Buffer ELSE 0})
  OBVIOUS
<1>3. /\ s \in Nat /\ start <= s /\ s <= Len(l)
      /\ s = start \/ (Len(l) > Buffer /\ s = Len(l) - Buffer)
  <2>. (IF Len(l) > Buffer THEN Len(l) - Buffer ELSE 0) \in Int
    BY <1>1
  <2>1. PICK z \in Int : z = IF Len(l) > Buffer THEN Len(l) - Buffer ELSE 0
    BY Zenon
  <2>2. s = Max({start, z}) /\ start \in Int
    BY <1>1, <1>2, <2>1
  <2>3. s = IF start <= z THEN z ELSE start
    BY <2>2, MinOfTwo, Zenon
  <2> QED
    BY <1>1, <2>1, <2>3
<1>4. PICK b \in Nat :
        /\ s + FirstRun(l, s) = b - 1 /\ s + 1 <= b /\ b <= Len(l) + 1
        /\ b = Len(l) + 1 \/ (b \in RunStarts(l, s) /\ s + 1 < b)
        /\ \A c \in RunStarts(l, s) : s + 1 < c => b <= c
  BY <1>1, <1>3, NextRun
<1>5. PICK d : d = DropFront(l)
  OBVIOUS
<1>6. d = IF Runs(l, s) > MaxRuns THEN b - 1 ELSE s
  BY <1>2, <1>4, <1>5 DEF DropFront
<1>7. d \in Nat /\ s <= d /\ d <= Len(l) /\ b - 1 \in Nat
  BY <1>1, <1>3, <1>4, <1>6
<1>8. /\ Runs(l, s) \in Nat /\ Runs(l, start) \in Nat /\ Runs(log, start) \in Nat
      /\ Runs(l, d) \in Nat /\ Runs(l, b - 1) \in Nat
  BY <1>1, <1>3, <1>7, RunsFinite
<1>9. /\ Runs(l, s) <= Runs(l, start) /\ Runs(l, start) <= Runs(log, start) + 1
      /\ Runs(log, start) <= MaxRuns
  <2>1. Runs(l, s) <= Runs(l, start)
    BY <1>1, <1>3, RunsFewer, Zenon
  <2>2. Runs(l, start) <= Runs(log, start) + 1
    BY <1>0
  <2> QED
    BY <2>1, <2>2, Zenon DEF Rings
<1>10. Runs(l, d) <= MaxRuns
  <2>1. CASE Runs(l, s) <= MaxRuns
    BY <1>1, <1>6, <1>8, <2>1
  <2>2. CASE Runs(l, s) > MaxRuns
    <3>1. d = b - 1
      BY <1>6, <2>2
    <3>2. CASE b = Len(l) + 1
      <4>1. RunStarts(l, d) \subseteq d + 1 .. Len(l) /\ Runs(l, d) = Cardinality(RunStarts(l, d))
        BY <1>1, <1>7, RunsFinite
      <4>2. RunStarts(l, d) = {}
        BY <1>1, <3>1, <3>2, <4>1
      <4>3. Runs(l, d) = 0
        BY <4>1, <4>2, FS_EmptySet
      <4> QED
        BY <1>1, <4>3
    <3>3. CASE b \in RunStarts(l, s) /\ s + 1 < b
      <4>1. s <= d /\ b <= d + 1
        BY <1>7, <3>1
      <4>2. Runs(l, d) <= Runs(l, s) - 1
        BY <1>1, <1>3, <1>7, <3>3, <4>1, RunsFewer, Zenon
      <4> QED
        BY <1>1, <1>8, <1>9, <4>2
    <3> QED
      BY <1>4, <3>2, <3>3
  <2> QED
    BY <1>1, <1>8, <2>1, <2>2
<1>11. ASSUME NEW c \in Attached PROVE d <= att[c].cursor
  <2>1. PICK S : S = {att[e].cursor : e \in Attached}
    OBVIOUS
  <2>2. \A e \in Attached : att[e].cursor \in Nat /\ start <= att[e].cursor
    BY DEF Types, Records, Attached, Rings
  <2>3. S \in SUBSET Nat /\ S # {} /\ att[c].cursor \in S
    BY <2>1, <2>2, <1>11
  <2>4. PICK keep : keep = Min(S)
    OBVIOUS
  <2>5. keep \in S /\ keep <= att[c].cursor
    BY <2>3, <2>4, MinIs
  <2>6. keep \in Nat /\ start <= keep
    BY <2>1, <2>2, <2>5
  <2>7. n <= RingRoom(st, keep)
    BY <1>11, <2>1, <2>4 DEF Room
  <2>8. /\ ~(/\ End > start => log[End] # st
             /\ Runs(log, start) >= MaxRuns
             /\ start + FirstRun(log, start) > keep)
        /\ keep + Buffer > End /\ n <= keep + Buffer - End
    <3>1. PICK P \in BOOLEAN : P = (/\ End > start => log[End] # st
                                    /\ Runs(log, start) >= MaxRuns
                                    /\ start + FirstRun(log, start) > keep)
      OBVIOUS
    <3>2. RingRoom(st, keep) = IF P THEN 0 ELSE IF keep + Buffer > End THEN keep + Buffer - End ELSE 0
      BY <3>1 DEF RingRoom
    <3>3. ~P /\ keep + Buffer > End /\ n <= keep + Buffer - End
      BY <1>1, <2>6, <2>7, <3>2
    <3> QED
      BY <3>1, <3>3
  <2>9. s <= keep
    BY <1>1, <1>3, <2>6, <2>8
  <2>10. d <= keep
    <3>1. CASE Runs(l, s) <= MaxRuns
      BY <1>1, <1>6, <1>8, <2>9, <3>1
    <3>2. CASE Runs(l, s) > MaxRuns
      <4>1. Runs(l, start) > MaxRuns /\ Runs(log, start) >= MaxRuns
        BY <1>1, <1>8, <1>9, <3>2
      <4>2. ~(End > start /\ log[End] = st)
        <5>1. ASSUME End > start, log[End] = st PROVE FALSE
          <6>1. Runs(l, start) <= Runs(log, start)
            BY <1>0, <1>1, <5>1
          <6> QED
            BY <1>1, <1>8, <1>9, <4>1, <6>1
        <5> QED
          BY <5>1
      <4>3. ~(start + FirstRun(log, start) > keep)
        BY <2>8, <4>1, <4>2
      <4>4. PICK a \in Nat :
              /\ start + FirstRun(log, start) = a - 1 /\ start + 1 <= a /\ a <= Len(log) + 1
              /\ a = Len(log) + 1 \/ (a \in RunStarts(log, start) /\ start + 1 < a)
        BY <1>1, NextRun
      <4>5. a - 1 <= keep
        BY <2>6, <4>3, <4>4
      <4>6. start < End
        <5>1. /\ RunStarts(log, start) \subseteq start + 1 .. Len(log)
              /\ Runs(log, start) = Cardinality(RunStarts(log, start))
          BY <1>1, RunsFinite
        <5>2. ASSUME RunStarts(log, start) = {} PROVE FALSE
          <6>1. Runs(log, start) = 0
            BY <5>1, <5>2, FS_EmptySet
          <6> QED
            BY <1>1, <4>1, <6>1
        <5> QED
          BY <1>1, <5>1, <5>2
      <4>7. a \in RunStarts(l, start) /\ start + 1 < a
        <5>1. CASE a = Len(log) + 1
          <6>1. Len(log) + 1 \in RunStarts(l, start)
            BY <1>0, <1>1, <4>2
          <6> QED
            BY <1>1, <4>6, <5>1, <6>1
        <5>2. CASE a \in RunStarts(log, start) /\ start + 1 < a
          <6>1. RunStarts(log, start) \subseteq RunStarts(l, start)
            BY <1>0
          <6> QED
            BY <5>2, <6>1
        <5> QED
          BY <4>4, <5>1, <5>2
      <4>8. s + 1 < a
        <5>1. ASSUME a <= s + 1 PROVE FALSE
          <6>1. Runs(l, s) <= Runs(l, start) - 1
            BY <1>1, <1>3, <4>7, <5>1, RunsFewer, Zenon
          <6> QED
            BY <1>1, <1>8, <1>9, <3>2, <6>1
        <5> QED
          BY <1>3, <5>1
      <4>9. a \in RunStarts(l, s)
        BY <1>1, <1>3, <4>7, <4>8 DEF RunStarts
      <4>10. b <= a
        BY <1>4, <4>8, <4>9
      <4>11. d = b - 1
        BY <1>6, <3>2
      <4> QED
        BY <2>6, <4>5, <4>10, <4>11
    <3> QED
      BY <1>1, <1>8, <3>1, <3>2
  <2> QED
    BY <1>7, <2>2, <2>5, <2>6, <2>10, <1>11
<1> QED
  BY <1>5, <1>7, <1>10, <1>11, Zenon

-----------------------------------------------------------------------------
(* What a client is sent. *)

LEMMA DetachedIs ==
  Detached \in Records /\ ~Detached.on
<1>1. PICK q \in Seq(Nat) : q = <<>>
  BY EmptySeq
<1>2. Detached = [on |-> FALSE, cursor |-> 0, out |-> q, got |-> 0, closing |-> FALSE,
                  blocked |-> FALSE, n |-> 0, eof |-> FALSE, shut |-> FALSE]
  BY <1>1 DEF Detached
<1> QED
  BY <1>2 DEF Records

\* flush sends the first n of what is queued.
LEMMA FlushedIs ==
  ASSUME NEW a \in Records, NEW n \in 0 .. Len(a.out), NEW r, r = Flushed(a, n)
  PROVE  /\ r \in Records /\ r.on = a.on /\ r.cursor = a.cursor /\ r.closing = a.closing
         /\ r.blocked = a.blocked
         /\ \A f, e : Fed(a, f, e) /\ (a.closing => r.out # <<>>) => Fed(r, f, e)
<1>1. a.out \in Seq(Nat) /\ a.got \in Nat /\ Len(a.out) \in Nat /\ a.closing \in BOOLEAN
  BY LenProperties DEF Records
<1>2. PICK q : q = SubSeq(a.out, n + 1, Len(a.out))
  OBVIOUS
<1>3. PICK g : g = IF n = 0 THEN a.got ELSE a.out[n]
  OBVIOUS
<1>4. q \in Seq(Nat) /\ Len(q) = Len(a.out) - n /\ \A i \in 1 .. Len(q) : q[i] = a.out[n + i]
  <2>1. q \in Seq(Nat)
    BY <1>1, <1>2
  <2>2. Len(q) = Len(a.out) - n
    BY <1>1, <1>2
  <2> QED
    BY <1>1, <1>2, <2>1, <2>2, SMTT(40)
<1>5. g \in Nat
  BY <1>1, <1>3
<1>6. r = [a EXCEPT !.out = q, !.got = g]
  BY <1>2, <1>3 DEF Flushed
<1>7. /\ r \in Records /\ r.on = a.on /\ r.cursor = a.cursor /\ r.closing = a.closing
      /\ r.blocked = a.blocked /\ r.out = q /\ r.got = g
  BY <1>4, <1>5, <1>6 DEF Records
<1>8. ASSUME NEW f, NEW e, Fed(a, f, e), a.closing => q # <<>> PROVE Fed(r, f, e)
  <2>1. PICK o \in Seq(Nat), m \in Nat, h \in Nat : o = a.out /\ m = Len(a.out) /\ h = a.got
    BY <1>1
  <2>2. Len(q) \in Nat /\ Len(q) = m - n /\ \A i \in 1 .. m - n : q[i] = o[n + i]
    BY <1>1, <1>4, <2>1
  <2>3. CASE a.closing = TRUE
    <3>1. /\ f /\ m >= 1 /\ a.cursor = e /\ h + m - 1 = e /\ o[m] = EXIT
          /\ \A i \in 1 .. m - 1 : o[i] = h + i
      BY <1>8, <2>1, <2>3 DEF Fed
    <3>2. n < m
      <4>1. Len(q) # 0
        BY <1>4, <1>8, <2>3, EmptySeq
      <4> QED
        BY <2>1, <2>2, <4>1
    <3>3. g = h + n
      <4>1. CASE n = 0
        BY <1>3, <2>1, <4>1
      <4>2. CASE n # 0
        <5>1. n \in 1 .. m - 1
          BY <3>2, <4>2
        <5> QED
          BY <1>3, <2>1, <3>1, <4>2, <5>1
      <4> QED
        BY <4>1, <4>2
    <3>4. q[Len(q)] = EXIT /\ Len(q) >= 1
      BY <2>2, <3>1, <3>2
    <3>5. g + Len(q) - 1 = e
      BY <2>2, <3>1, <3>2, <3>3
    <3>6. ASSUME NEW i \in 1 .. Len(q) - 1 PROVE q[i] = g + i
      <4>1. n + i \in 1 .. m - 1 /\ i \in 1 .. m - n
        BY <2>2, <3>2
      <4>2. q[i] = o[n + i] /\ o[n + i] = h + (n + i)
        BY <2>2, <3>1, <4>1
      <4> QED
        BY <3>3, <4>1, <4>2
    <3> QED
      BY <1>7, <2>3, <3>1, <3>4, <3>5, <3>6 DEF Fed
  <2>4. CASE a.closing = FALSE
    <3>1. h + m = a.cursor /\ \A i \in 1 .. m : o[i] = h + i
      BY <1>8, <2>1, <2>4 DEF Fed
    <3>2. g = h + n
      <4>1. CASE n = 0
        BY <1>3, <2>1, <4>1
      <4>2. CASE n # 0
        <5>1. n \in 1 .. m
          BY <2>1, <4>2
        <5> QED
          BY <1>3, <2>1, <3>1, <4>2, <5>1
      <4> QED
        BY <4>1, <4>2
    <3>3. g + Len(q) = a.cursor
      BY <2>2, <3>1, <3>2
    <3>4. ASSUME NEW i \in 1 .. Len(q) PROVE q[i] = g + i
      <4>1. n + i \in 1 .. m /\ i \in 1 .. m - n
        BY <2>2
      <4>2. q[i] = o[n + i] /\ o[n + i] = h + (n + i)
        BY <2>2, <3>1, <4>1
      <4> QED
        BY <3>2, <4>1, <4>2
    <3> QED
      BY <1>7, <2>4, <3>3, <3>4 DEF Fed
  <2> QED
    BY <1>1, <2>3, <2>4
<1> QED
  BY <1>7, <1>8

\* fill, when it takes more, up to cursor k with q queued.
FilledTo(a, more, k, q) ==
  LET b == IF more THEN [a EXCEPT !.cursor = k, !.out = q] ELSE a
  IN IF finished /\ ~b.closing /\ b.cursor = End
     THEN [b EXCEPT !.closing = TRUE, !.out = Append(b.out, EXIT)] ELSE b

LEMMA FilledIs ==
  ASSUME SessionConstants, Types, NEW a \in Records, start <= a.cursor, a.cursor <= End,
         Fed(a, finished, End), NEW r, r = Filled(a)
  PROVE  /\ r \in Records /\ r.on = a.on /\ r.blocked = a.blocked
         /\ start <= r.cursor /\ r.cursor <= End /\ Fed(r, finished, End)
<1>1. /\ a.out \in Seq(Nat) /\ a.got \in Nat /\ a.cursor \in Nat /\ Len(a.out) \in Nat
      /\ a.closing \in BOOLEAN /\ End \in Nat /\ start \in Nat /\ SendLow \in Nat
  BY LenProperties DEF Records, Types, SessionConstants, End
<1>2. Max({a.cursor, start}) = a.cursor
  <2>1. Max({a.cursor, start}) = IF a.cursor <= start THEN start ELSE a.cursor
    <3>1. a.cursor \in Int /\ start \in Int
      BY <1>1
    <3> QED
      BY <3>1, MinOfTwo, Zenon
  <2> QED
    BY <1>1, <2>1
<1>3. PICK take \in Nat : /\ take = Min({SendLow, End - a.cursor})
                          /\ a.cursor + take <= End
  <2>1. End - a.cursor \in Int /\ End - a.cursor >= 0 /\ SendLow \in Int
    BY <1>1
  <2>2. Min({SendLow, End - a.cursor}) =
          IF SendLow <= End - a.cursor THEN SendLow ELSE End - a.cursor
    BY <2>1, MinOfTwo, Zenon
  <2>3. /\ (IF SendLow <= End - a.cursor THEN SendLow ELSE End - a.cursor) \in Nat
        /\ a.cursor + (IF SendLow <= End - a.cursor THEN SendLow ELSE End - a.cursor) <= End
    BY <1>1, <2>1
  <2> QED
    BY <2>2, <2>3, Zenon
<1>4. PICK m : m = [i \in 1 .. take |-> a.cursor + i]
  OBVIOUS
<1>5. m \in Seq(Nat) /\ Len(m) = take /\ \A i \in 1 .. take : m[i] = a.cursor + i
  <2>1. m \in [1 .. take -> Nat] /\ DOMAIN m = 1 .. take
    BY <1>1, <1>4
  <2>2. m \in Seq(Nat)
    BY <2>1, SeqDef
  <2> QED
    BY <1>4, <2>1, <2>2, LenProperties
<1>6. PICK more \in BOOLEAN : more = (Len(a.out) < SendLow /\ a.cursor < End)
  OBVIOUS
<1>7. PICK b : b = IF more THEN [a EXCEPT !.cursor = a.cursor + take, !.out = a.out \o m] ELSE a
  OBVIOUS
<1>8. r = IF finished /\ ~b.closing /\ b.cursor = End
          THEN [b EXCEPT !.closing = TRUE, !.out = Append(b.out, EXIT)] ELSE b
  <2>1. PICK at, tk, q, w : /\ at = Max({a.cursor, start}) /\ tk = Min({SendLow, End - at})
                            /\ q = [i \in 1 .. tk |-> at + i]
                            /\ w = (Len(a.out) < SendLow /\ a.cursor < End)
    OBVIOUS
  <2>2. r = FilledTo(a, w, at + tk, a.out \o q)
    <3>1. r = FilledTo(a, Len(a.out) < SendLow /\ a.cursor < End,
                       Max({a.cursor, start}) + Min({SendLow, End - Max({a.cursor, start})}),
                       a.out \o [i \in 1 .. Min({SendLow, End - Max({a.cursor, start})})
                                   |-> Max({a.cursor, start}) + i])
      BY DEF Filled, FilledTo
    <3> QED
      BY <2>1, <3>1, Zenon
  <2>3. at = a.cursor
    BY <1>2, <2>1, Zenon
  <2>4. tk = take
    BY <1>3, <2>1, <2>3, Zenon
  <2>5. q = m
    BY <1>4, <2>1, <2>3, <2>4, Zenon
  <2>6. r = FilledTo(a, more, a.cursor + take, a.out \o m)
    BY <1>6, <2>1, <2>2, <2>3, <2>4, <2>5, Zenon
  <2> QED
    BY <1>7, <2>6, Zenon DEF FilledTo
<1>9. /\ b \in Records /\ b.on = a.on /\ b.blocked = a.blocked /\ b.closing = a.closing
      /\ start <= b.cursor /\ b.cursor <= End /\ Fed(b, finished, End)
  <2>1. CASE more = FALSE
    BY <1>7, <2>1
  <2>2. CASE more = TRUE
    <3>1. a.closing = FALSE
      <4>0. a.cursor < End
        BY <1>6, <2>2, Zenon
      <4>1. a.cursor # End
        BY <1>1, <4>0
      <4>2. a.closing = TRUE => a.cursor = End
        BY Zenon DEF Fed
      <4> QED
        BY <1>1, <4>1, <4>2, Zenon
    <3>2. PICK q \in Seq(Nat), k \in Nat : q = a.out \o m /\ k = a.cursor + take
      <4>1. a.out \o m \in Seq(Nat)
        BY <1>1, <1>5, ConcatProperties, Zenon
      <4>2. a.cursor + take \in Nat
        BY <1>1
      <4> QED
        BY <4>1, <4>2, Zenon
    <3>3. b = [a EXCEPT !.cursor = k, !.out = q]
      BY <1>7, <2>2, <3>2
    <3>4. /\ b \in Records /\ b.on = a.on /\ b.blocked = a.blocked /\ b.closing = a.closing
          /\ b.cursor = k /\ b.out = q /\ b.got = a.got
      BY <3>3 DEF Records
    <3>5. a.got + Len(a.out) = a.cursor /\ \A i \in 1 .. Len(a.out) : a.out[i] = a.got + i
      BY <3>1 DEF Fed
    <3>6. /\ Len(q) = Len(a.out) + take
          /\ \A i \in 1 .. Len(a.out) + take :
               q[i] = IF i <= Len(a.out) THEN a.out[i] ELSE m[i - Len(a.out)]
      BY <1>1, <1>5, <3>2, ConcatProperties, SMTT(40)
    <3>7. ASSUME NEW i \in 1 .. Len(q) PROVE q[i] = a.got + i
      <4>1. CASE i <= Len(a.out)
        <5>1. i \in 1 .. Len(a.out) /\ i \in 1 .. Len(a.out) + take
          BY <1>1, <3>6, <4>1
        <5>2. q[i] = a.out[i] /\ a.out[i] = a.got + i
          BY <3>5, <3>6, <4>1, <5>1
        <5> QED
          BY <5>2
      <4>2. CASE ~(i <= Len(a.out))
        <5>1. i - Len(a.out) \in 1 .. take /\ i \in 1 .. Len(a.out) + take
          BY <1>1, <3>6, <4>2
        <5>2. q[i] = m[i - Len(a.out)]
          BY <3>6, <4>2, <5>1
        <5>3. m[i - Len(a.out)] = a.cursor + (i - Len(a.out))
          BY <1>5, <5>1
        <5>4. a.cursor + (i - Len(a.out)) = a.got + i
          BY <1>1, <3>5, <5>1
        <5> QED
          BY <5>2, <5>3, <5>4
      <4> QED
        BY <4>1, <4>2
    <3>8. a.got + Len(q) = k
      BY <1>1, <3>2, <3>5, <3>6, SMTT(40)
    <3>9. Fed(b, finished, End)
      BY <3>1, <3>4, <3>7, <3>8 DEF Fed
    <3>10. start <= k /\ k <= End
      BY <1>1, <1>3, <3>2
    <3> QED
      BY <3>4, <3>9, <3>10
  <2> QED
    BY <2>1, <2>2
<1>10. CASE ~(finished /\ ~b.closing /\ b.cursor = End)
  BY <1>8, <1>9, <1>10
<1>11. CASE finished /\ ~b.closing /\ b.cursor = End
  <2>1. b.out \in Seq(Nat) /\ b.got \in Nat /\ Len(b.out) \in Nat /\ EXIT \in Nat
    BY <1>9, LenProperties DEF Records, EXIT
  <2>2. PICK q \in Seq(Nat) : q = Append(b.out, EXIT)
    BY <2>1, AppendProperties
  <2>3. r = [b EXCEPT !.closing = TRUE, !.out = q]
    BY <1>8, <1>11, <2>2
  <2>4. /\ r \in Records /\ r.on = b.on /\ r.blocked = b.blocked /\ r.closing = TRUE
        /\ r.cursor = b.cursor /\ r.out = q /\ r.got = b.got
    BY <1>9, <2>3 DEF Records
  <2>5. b.got + Len(b.out) = End /\ \A i \in 1 .. Len(b.out) : b.out[i] = b.got + i
    BY <1>9, <1>11 DEF Fed
  <2>6. /\ Len(q) = Len(b.out) + 1 /\ q[Len(b.out) + 1] = EXIT
        /\ \A i \in 1 .. Len(b.out) : q[i] = b.out[i]
    BY <2>1, <2>2, AppendProperties
  <2>7. Len(q) - 1 = Len(b.out) /\ Len(q) >= 1 /\ b.got + Len(q) - 1 = End
    BY <1>1, <2>1, <2>5, <2>6
  <2>8. q[Len(q)] = EXIT /\ \A i \in 1 .. Len(q) - 1 : q[i] = b.got + i
    BY <2>5, <2>6, <2>7
  <2>9. Fed(r, finished, End)
    BY <1>11, <2>4, <2>7, <2>8 DEF Fed
  <2> QED
    BY <1>9, <2>4, <2>9
<1> QED
  BY <1>10, <1>11

-----------------------------------------------------------------------------
(* What steps leave alone. *)

\* The attachment b has the output of a.
GoesOn(a, b) == /\ b.on = a.on /\ b.cursor = a.cursor /\ b.out = a.out /\ b.got = a.got
                /\ b.closing = a.closing

\* Input of a client is taken until k frames are left.
Put(f, c, r) == [f EXCEPT ![c] = r]
InputTaken(f, c, k) == [f EXCEPT ![c].n = k, ![c].eof = @ /\ k > 0, ![c].blocked = k > 0]

LEMMA InputIs ==
  ASSUME NEW f \in [Clients -> Records], NEW c \in Clients, NEW k \in Int,
         NEW g, g = InputTaken(f, c, k)
  PROVE  \E r \in Records : GoesOn(f[c], r) /\ g = Put(f, c, r)
<1>1. PICK a \in Records : a = f[c]
  OBVIOUS
<1>2. PICK e \in BOOLEAN : e = (a.eof /\ k > 0)
  OBVIOUS
<1>3. (k > 0) \in BOOLEAN
  OBVIOUS
<1>4. PICK w \in BOOLEAN : w = (k > 0)
  BY <1>3, Zenon
<1>5. PICK r : r = [a EXCEPT !.n = k, !.eof = e, !.blocked = w]
  OBVIOUS
<1>6. r \in Records /\ GoesOn(a, r)
  BY <1>1, <1>2, <1>4, <1>5 DEF Records, GoesOn
<1>7. g = Put(f, c, r)
  BY <1>1, <1>2, <1>4, <1>5 DEF InputTaken, Put
<1> QED
  BY <1>1, <1>6, <1>7, Zenon

\* An attachment that is updated.
LEMMA Updated ==
  ASSUME NEW f \in [Clients -> Records], NEW c \in Clients, NEW r \in Records,
         NEW g, g = [f EXCEPT ![c] = r]
  PROVE  g \in [Clients -> Records] /\ g[c] = r /\ \A d \in Clients \ {c} : g[d] = f[d]
OBVIOUS

\* Room depends on the log, its start and the cursors.
LEMMA RoomSame ==
  ASSUME UNCHANGED <<log, start>>,
         \A c \in Clients : att'[c].on = att[c].on /\ att'[c].cursor = att[c].cursor
  PROVE  Attached' = Attached /\ End' = End /\ \A st : Room(st)' = Room(st)
<1>1. Attached' = Attached
  BY DEF Attached
<1>2. End' = End
  BY DEF End
<1>3. {att'[c].cursor : c \in Attached'} = {att[c].cursor : c \in Attached}
  BY <1>1 DEF Attached
<1>4. ASSUME NEW st PROVE Room(st)' = Room(st)
  <2>1. PICK k : k = Min({att[c].cursor : c \in Attached})
    OBVIOUS
  <2>2. Room(st) = IF Attached = {} THEN Buffer ELSE RingRoom(st, k)
    BY <2>1, Zenon DEF Room
  <2>3. log' = log /\ start' = start
    OBVIOUS
  <2>4. Min({att'[c].cursor : c \in Attached'}) = k
    BY <1>3, <2>1, Zenon
  <2>5. Room(st)' =
          IF Attached' = {} THEN Buffer
          ELSE IF /\ End' > start' => log'[End'] # st
                  /\ Runs(log', start') >= MaxRuns
                  /\ start' + FirstRun(log', start') > Min({att'[c].cursor : c \in Attached'})
               THEN 0
               ELSE IF Min({att'[c].cursor : c \in Attached'}) + Buffer > End'
                    THEN Min({att'[c].cursor : c \in Attached'}) + Buffer - End' ELSE 0
    BY Zenon DEF Room, RingRoom
  <2> QED
    BY <1>1, <1>2, <2>2, <2>3, <2>4, <2>5 DEF RingRoom
<1> QED
  BY <1>1, <1>2, <1>4

\* The ring stays; a client leaves, goes on, or is fed as it should be.
LEMMA DataKept ==
  ASSUME Types, Rings, Feeds, UNCHANGED <<log, start, outputs>>,
         att' \in [Clients -> Records], finished => finished', finished' => outputs = {},
         \A c \in Clients : \/ ~att'[c].on
                            \/ GoesOn(att[c], att'[c])
                            \/ /\ start <= att'[c].cursor /\ att'[c].cursor <= End
                               /\ Fed(att'[c], finished', End)
  PROVE  Rings' /\ Feeds'
<1>1. End' = End
  BY DEF End
<1>2. ASSUME NEW c \in Attached'
      PROVE  start <= att'[c].cursor /\ att'[c].cursor <= End /\ Fed(att'[c], finished', End)
  <2>1. c \in Clients /\ att'[c].on
    BY <1>2 DEF Attached
  <2>2. CASE GoesOn(att[c], att'[c])
    <3>1. c \in Attached
      BY <2>1, <2>2 DEF Attached, GoesOn
    <3>2. start <= att[c].cursor /\ att[c].cursor <= End /\ Fed(att[c], finished, End)
      BY <3>1 DEF Rings, Feeds
    <3>3. Fed(att'[c], finished', End)
      BY <2>2, <3>2, Zenon DEF GoesOn, Fed
    <3> QED
      BY <2>2, <3>2, <3>3, Zenon DEF GoesOn
  <2> QED
    BY <2>1, <2>2
<1>3. Rings'
  <2>1. Runs(log', start') <= MaxRuns
    BY DEF Rings
  <2> QED
    BY <1>1, <1>2, <2>1 DEF Rings
<1>4. Feeds'
  BY <1>1, <1>2, Zenon DEF Feeds
<1> QED
  BY <1>3, <1>4

\* The hangup is as the clients are.
LEMMA AloneKept ==
  ASSUME AloneIsHungUp, load' = load, life' = life, finished => finished',
         hangup' = hangup, Attached' = Attached
  PROVE  AloneIsHungUp'
BY DEF AloneIsHungUp

\* After a handler of the loop comes a settle.
LEMMA HandlerDone ==
  ASSUME phase' = "wait", dirty' = TRUE, life' # "none", stdin' \/ queue' = 0
  PROVE  Settles' /\ LoopNotStuck'
BY DEF Settles, LoopNotStuck

\* What the process or a client does outside the loop disturbs nothing.
LEMMA OutsideKept ==
  ASSUME Types, Rings, Feeds, Settles, LoopNotStuck,
         UNCHANGED <<log, start, outputs, finished, phase, dirty, life, queue, reg, left,
                     stdin>>,
         exit' \in {exit, "exited"}, life = "none" => hangup' = "none",
         att' \in [Clients -> Records],
         \A c \in Clients : GoesOn(att[c], att'[c]) /\ att'[c].blocked = att[c].blocked
  PROVE  Rings' /\ Feeds' /\ Settles' /\ LoopNotStuck' /\ Attached' = Attached
<1>1. Rings' /\ Feeds'
  <2>1. finished' => outputs = {}
    BY DEF Feeds
  <2> QED
    BY <2>1, DataKept
<1>2. /\ Attached' = Attached /\ End' = End /\ \A st : Room(st)' = Room(st)
  BY RoomSame DEF GoesOn
<1>3. \A c \in Attached : c \in Clients /\ att'[c].blocked = att[c].blocked
                           /\ att'[c].cursor = att[c].cursor
  BY DEF Attached, GoesOn
<1>4. exit' = "known" => exit = "known"
  OBVIOUS
<1>5. Settles'
  BY <1>2, <1>3, <1>4, Zenon DEF Settles
<1>6. LoopNotStuck'
  <2>1. SUFFICES ASSUME phase = "wait", ~dirty, life = "live"
                 PROVE  LoopNotStuck'
    BY DEF LoopNotStuck
  <2>2. /\ \A c \in Attached : att[c].blocked => queue >= StdinQueue /\ "stdin" \in reg
        /\ \A st \in outputs : st \in reg <=> Room(st) > 0
        /\ \A c \in Attached : att[c].cursor < End => c \in reg
        /\ exit = "known" /\ outputs = {} => finished
    BY <2>1, Zenon DEF LoopNotStuck
  <2> QED
    BY <1>2, <1>3, <1>4, <2>2, Zenon DEF LoopNotStuck
<1> QED
  BY <1>1, <1>2, <1>5, <1>6

\* A client is detached, perhaps after its output changed.
LEMMA DetachDone ==
  ASSUME Types, Rings, Feeds, AloneIsHungUp, NEW c \in Attached, NEW a \in [Clients -> Records],
         \A d \in Clients \ {c} : a[d] = att[d], Detach(c, a),
         UNCHANGED <<load, log, start, outputs, finished>>
  PROVE  /\ att' \in [Clients -> Records] /\ Rings' /\ Feeds' /\ AloneIsHungUp'
         /\ Attached' = Attached \ {c}
<1>1. c \in Clients /\ att[c].on
  BY DEF Attached
<1>2. /\ att' \in [Clients -> Records] /\ att'[c] = Detached
      /\ \A d \in Clients \ {c} : att'[d] = a[d]
  <2>1. att' = [a EXCEPT ![c] = Detached]
    BY DEF Detach
  <2> QED
    BY <1>1, <2>1, DetachedIs, Updated, Zenon
<1>3. ~att'[c].on /\ \A d \in Clients \ {c} : att'[d] = att[d]
  BY <1>2, DetachedIs
<1>4. Attached' = Attached \ {c}
  BY <1>1, <1>3 DEF Attached
<1>5. Rings' /\ Feeds'
  <2>1. \A d \in Clients : ~att'[d].on \/ GoesOn(att[d], att'[d])
    BY <1>3 DEF GoesOn
  <2>2. finished' => outputs = {}
    BY DEF Feeds
  <2> QED
    BY <1>2, <2>1, <2>2, DataKept
<1>6. AloneIsHungUp'
  <2>1. hangup # "armed"
    BY DEF AloneIsHungUp
  <2>2. CASE \A d \in Clients \ {c} : ~a[d].on
    <3>1. Attached' = {}
      BY <1>4, <2>2 DEF Attached
    <3>2. hangup' = IF ~finished THEN IF load.limit THEN "armed" ELSE "none" ELSE hangup
      BY <2>2, Zenon DEF Detach
    <3> QED
      BY <2>1, <3>1, <3>2 DEF AloneIsHungUp
  <2>3. CASE ~(\A d \in Clients \ {c} : ~a[d].on)
    <3>1. Attached' # {}
      BY <1>4, <2>3 DEF Attached
    <3>2. hangup' = hangup
      BY <2>3, Zenon DEF Detach
    <3> QED
      BY <2>1, <3>1, <3>2 DEF AloneIsHungUp
  <2> QED
    BY <2>2, <2>3
<1> QED
  BY <1>2, <1>4, <1>5, <1>6

\* A client is attached: it is fed from where it asked, or where the ring
\* begins.
LEMMA AttachDone ==
  ASSUME Types, Rings, Feeds, NEW c \in Clients, NEW o \in 0 .. End, NEW t, Attach(c, o, t),
         UNCHANGED <<load, log, start, outputs, finished>>
  PROVE  att' \in [Clients -> Records] /\ Rings' /\ Feeds' /\ AloneIsHungUp'
<1>1. start \in Nat /\ End \in Nat /\ start <= End /\ o \in Int /\ start \in Int
  BY LenProperties DEF Types, End
<1>2. PICK k : k = Max({o, start})
  OBVIOUS
<1>3. k \in Nat /\ start <= k /\ k <= End
  <2>1. k = IF o <= start THEN start ELSE o
    BY <1>1, <1>2, MinOfTwo, Zenon
  <2> QED
    BY <1>1, <2>1
<1>4. PICK q \in Seq(Nat) : q = <<>> /\ Len(q) = 0
  BY EmptySeq
<1>5. PICK z \in Records : z = Detached /\ z.out = q /\ z.closing = FALSE
  <2>1. Detached.out = q /\ Detached.closing = FALSE
    BY <1>4 DEF Detached
  <2> QED
    BY <2>1, DetachedIs, Zenon
<1>0. PICK r : r = [z EXCEPT !.on = TRUE, !.got = k, !.cursor = k]
  OBVIOUS
<1>6. /\ r \in Records /\ r.on = TRUE /\ r.cursor = k /\ r.out = q /\ r.got = k
      /\ r.closing = FALSE
  <2>1. r \in Records /\ r.on = TRUE /\ r.cursor = k /\ r.out = z.out /\ r.got = k
        /\ r.closing = z.closing
    BY <1>0, <1>3, <1>5 DEF Records
  <2> QED
    BY <1>5, <2>1, Zenon
<1>7. att' = [att EXCEPT ![c] = r]
  <2>1. att' = [att EXCEPT ![c] = [Detached EXCEPT !.on = TRUE, !.got = Max({o, start}),
                                                   !.cursor = Max({o, start})]]
    BY DEF Attach
  <2> QED
    BY <1>0, <1>2, <1>5, <2>1, Zenon
<1>8. /\ att' \in [Clients -> Records] /\ att'[c] = r
      /\ \A d \in Clients \ {c} : att'[d] = att[d]
  <2>1. att \in [Clients -> Records]
    BY DEF Types
  <2> QED
    BY <1>6, <1>7, <2>1, Updated, Zenon
<1>9. Fed(r, finished', End)
  <2>1. r.got + Len(r.out) = r.cursor /\ 1 .. Len(r.out) = {}
    BY <1>3, <1>4, <1>6
  <2> QED
    BY <1>6, <2>1 DEF Fed
<1>10. Rings' /\ Feeds'
  <2>1. finished' => outputs = {}
    BY DEF Feeds
  <2>2. ASSUME NEW d \in Clients
        PROVE  \/ ~att'[d].on
               \/ GoesOn(att[d], att'[d])
               \/ /\ start <= att'[d].cursor /\ att'[d].cursor <= End
                  /\ Fed(att'[d], finished', End)
    <3>1. CASE d = c
      BY <1>3, <1>6, <1>8, <1>9, <3>1
    <3>2. CASE d # c
      BY <1>8, <3>2 DEF GoesOn
    <3> QED
      BY <3>1, <3>2
  <2> QED
    BY <1>8, <2>1, <2>2, DataKept
<1>11. AloneIsHungUp'
  <2>1. c \in Attached'
    BY <1>6, <1>8 DEF Attached
  <2>2. hangup' = "none"
    BY DEF Attach
  <2> QED
    BY <2>1, <2>2 DEF AloneIsHungUp
<1> QED
  BY <1>8, <1>10, <1>11

-----------------------------------------------------------------------------
(* The steps of the loop. *)

LEMMA StepStart ==
  ASSUME SessionInv, Start
  PROVE  SessionInv'
<1>1. Types /\ Rings /\ Feeds /\ Settles
  BY DEF SessionInv
<1>2. /\ phase' = "wait" /\ life = "none" /\ life' = "live" /\ dirty' = TRUE
      /\ UNCHANGED <<load, pipe, log, start, outputs, finished, stdin, queue>>
  BY DEF Start
<1>3. att' \in [Clients -> Records] /\ Rings' /\ Feeds' /\ AloneIsHungUp'
  <2>1. CASE \E c \in Clients : Attach(c, 0, FALSE)
    <3>1. PICK c \in Clients : Attach(c, 0, FALSE)
      BY <2>1
    <3>2. 0 \in 0 .. End
      BY <1>1, LenProperties DEF Types, End
    <3> QED
      BY <1>1, <1>2, <3>1, <3>2, AttachDone
  <2>2. CASE /\ hangup' = IF load.limit THEN "armed" ELSE "none"
             /\ UNCHANGED <<att, owner, attaches>>
    <3>1. att' = att /\ att' \in [Clients -> Records]
      BY <1>1, <2>2 DEF Types
    <3>2. Rings' /\ Feeds'
      <4>1. \A c \in Clients : GoesOn(att[c], att'[c])
        BY <3>1 DEF GoesOn
      <4>2. finished' => outputs = {}
        BY <1>1, <1>2 DEF Feeds
      <4> QED
        BY <1>1, <1>2, <3>1, <4>1, <4>2, DataKept
    <3>3. Attached' = {}
      BY <1>1, <1>2, <3>1 DEF Settles, Attached
    <3> QED
      BY <1>2, <2>2, <3>1, <3>2, <3>3 DEF AloneIsHungUp
  <2> QED
    BY <2>1, <2>2 DEF Start
<1>4. Types'
  BY <1>1, <1>2, <1>3 DEF Types, End
<1>5. Settles' /\ LoopNotStuck'
  BY <1>1, <1>2, HandlerDone DEF Settles
<1> QED
  BY <1>3, <1>4, <1>5 DEF SessionInv

LEMMA StepCmdAttach ==
  ASSUME SessionInv, CmdAttach
  PROVE  SessionInv'
<1>1. Types /\ Rings /\ Feeds /\ Settles
  BY DEF SessionInv
<1>2. /\ phase' = "wait" /\ life' = "live" /\ dirty' = TRUE
      /\ UNCHANGED <<load, pipe, log, start, outputs, finished, stdin, queue>>
  BY DEF CmdAttach, Handler
<1>3. PICK c \in Clients, o \in 0 .. End, t \in BOOLEAN : Attach(c, o, t)
  BY DEF CmdAttach
<1>4. att' \in [Clients -> Records] /\ Rings' /\ Feeds' /\ AloneIsHungUp'
  BY <1>1, <1>2, <1>3, AttachDone
<1>5. Types'
  BY <1>1, <1>2, <1>4 DEF Types, End
<1>6. Settles' /\ LoopNotStuck'
  BY <1>1, <1>2, HandlerDone DEF Settles
<1> QED
  BY <1>4, <1>5, <1>6 DEF SessionInv

\* The clients are left as they are.
LEMMA ClientsStay ==
  ASSUME Types, Rings, Feeds, AloneIsHungUp,
         UNCHANGED <<load, life, log, start, outputs, finished, hangup, att>>
  PROVE  Rings' /\ Feeds' /\ AloneIsHungUp' /\ att' \in [Clients -> Records]
<1>1. att' = att /\ att' \in [Clients -> Records]
  BY DEF Types
<1>2. Rings' /\ Feeds'
  <2>1. \A c \in Clients : GoesOn(att[c], att'[c])
    BY <1>1 DEF GoesOn
  <2>2. finished' => outputs = {}
    BY DEF Feeds
  <2> QED
    BY <1>1, <2>1, <2>2, DataKept
<1>3. Attached' = Attached
  BY <1>1 DEF Attached
<1> QED
  BY <1>1, <1>2, <1>3, AloneKept

LEMMA StepCmdExited ==
  ASSUME SessionInv, CmdExited
  PROVE  SessionInv'
<1>1. Types /\ Rings /\ Feeds /\ Settles /\ AloneIsHungUp
  BY DEF SessionInv
<1>2. /\ phase' = "wait" /\ life' = "live" /\ dirty' = TRUE
      /\ UNCHANGED <<load, pipe, life, log, start, outputs, finished, stdin, queue, hangup, att>>
  BY DEF CmdExited, Handler, session
<1>3. Rings' /\ Feeds' /\ AloneIsHungUp' /\ att' \in [Clients -> Records]
  BY <1>1, <1>2, ClientsStay
<1>4. Types'
  BY <1>1, <1>2, <1>3 DEF Types, End
<1>5. Settles' /\ LoopNotStuck'
  BY <1>1, <1>2, HandlerDone DEF Settles
<1> QED
  BY <1>3, <1>4, <1>5 DEF SessionInv

LEMMA StepWriteStdin ==
  ASSUME SessionInv, WriteStdin
  PROVE  SessionInv'
<1>1. Types /\ Rings /\ Feeds /\ Settles /\ AloneIsHungUp
  BY DEF SessionInv
<1>2. /\ phase' = "wait" /\ life' = "live" /\ dirty' = TRUE
      /\ UNCHANGED <<load, pipe, life, log, start, outputs, finished, hangup, att>>
  BY DEF WriteStdin, Handler
<1>3. Rings' /\ Feeds' /\ AloneIsHungUp' /\ att' \in [Clients -> Records]
  BY <1>1, <1>2, ClientsStay
<1>4. queue' \in Int /\ stdin' \in BOOLEAN /\ (stdin' \/ queue' = 0)
  <2>1. queue \in Int /\ stdin = TRUE
    BY <1>1 DEF Types, WriteStdin
  <2>2. CASE \E n \in 1 .. queue : queue' = queue - n /\ UNCHANGED stdin
    BY <2>1, <2>2
  <2>3. CASE queue' = 0 /\ stdin' = FALSE
    <3>1. 0 \in Int
      OBVIOUS
    <3> QED
      BY <2>3, <3>1, Zenon
  <2> QED
    BY <2>2, <2>3 DEF WriteStdin
<1>5. Types'
  BY <1>1, <1>2, <1>3, <1>4 DEF Types, End
<1>6. Settles' /\ LoopNotStuck'
  BY <1>2, <1>4, HandlerDone
<1> QED
  BY <1>3, <1>5, <1>6 DEF SessionInv

LEMMA StepHangUp ==
  ASSUME SessionInv, HangUp
  PROVE  SessionInv'
<1>1. Types /\ Rings /\ Feeds /\ Settles /\ LoopNotStuck /\ AloneIsHungUp
  BY DEF SessionInv
<1>2. /\ hangup' = "sent" /\ life = "live"
      /\ UNCHANGED <<load, pipe, exit, life, log, start, outputs, finished, stdin, queue, att,
                     dirty, phase, left, reg>>
  BY DEF HangUp, Handler
<1>3. att' \in [Clients -> Records]
      /\ \A c \in Clients : GoesOn(att[c], att'[c]) /\ att'[c].blocked = att[c].blocked
  BY <1>1, <1>2 DEF Types, GoesOn
<1>4. Rings' /\ Feeds' /\ Settles' /\ LoopNotStuck' /\ Attached' = Attached
  BY <1>1, <1>2, <1>3, OutsideKept
<1>5. Types'
  BY <1>1, <1>2, <1>3 DEF Types, End
<1>6. AloneIsHungUp'
  BY <1>2 DEF AloneIsHungUp
<1> QED
  BY <1>4, <1>5, <1>6 DEF SessionInv

LEMMA StepSweep ==
  ASSUME SessionInv, Sweep
  PROVE  SessionInv'
<1>1. Types /\ Rings /\ Feeds /\ Settles /\ AloneIsHungUp
  BY DEF SessionInv
<1>2. /\ phase' = "wait" /\ life' = "gone" /\ dirty' = FALSE
      /\ UNCHANGED <<load, pipe, log, start, outputs, finished, stdin, queue, hangup, att>>
  BY DEF Sweep, Handler
<1>3. att' = att /\ att' \in [Clients -> Records] /\ Attached' = Attached
  BY <1>1, <1>2 DEF Types, Attached
<1>4. Rings' /\ Feeds'
  <2>1. \A c \in Clients : GoesOn(att[c], att'[c])
    BY <1>3 DEF GoesOn
  <2>2. finished' => outputs = {}
    BY <1>1, <1>2 DEF Feeds
  <2> QED
    BY <1>1, <1>2, <1>3, <2>1, <2>2, DataKept
<1>5. Types'
  BY <1>1, <1>2, <1>3 DEF Types, End
<1>6. Settles' /\ LoopNotStuck' /\ AloneIsHungUp'
  BY <1>1, <1>2, <1>3 DEF Settles, LoopNotStuck, AloneIsHungUp
<1> QED
  BY <1>4, <1>5, <1>6 DEF SessionInv

LEMMA StepSettle ==
  ASSUME SessionInv, Settle
  PROVE  SessionInv'
<1>1. Types /\ Rings /\ Feeds /\ Settles /\ AloneIsHungUp
  BY DEF SessionInv
<1>2. /\ phase' = "settle" /\ life' = "live" /\ life = "live" /\ dirty' = FALSE
      /\ left' = Attached
      /\ UNCHANGED <<load, pipe, exit, log, start, outputs, att>>
  BY DEF Settle, process
<1>3. PICK fin \in BOOLEAN, done \in BOOLEAN :
        /\ fin = (~finished /\ exit = "known" /\ outputs = {})
        /\ finished \/ fin => done
        /\ finished' = (finished \/ fin) /\ hangup' = (IF fin THEN "none" ELSE hangup)
        /\ stdin' = (stdin /\ ~done) /\ queue' = (IF done THEN 0 ELSE queue)
  <2>1. PICK f \in BOOLEAN, e \in BOOLEAN :
          /\ f = (~finished /\ exit = "known" /\ outputs = {})
          /\ e = (finished \/ f \/ (stdin_eof /\ queue = 0 /\ ~load.tty))
    OBVIOUS
  <2>2. /\ finished' = (finished \/ f) /\ hangup' = (IF f THEN "none" ELSE hangup)
        /\ stdin' = (stdin /\ ~e) /\ queue' = (IF e THEN 0 ELSE queue)
    BY <2>1, Zenon DEF Settle
  <2>3. finished \/ f => e
    BY <2>1
  <2> QED
    BY <2>1, <2>2, <2>3, Zenon
<1>4. att' = att /\ att' \in [Clients -> Records] /\ Attached' = Attached
  BY <1>1, <1>2 DEF Types, Attached
<1>5. Rings' /\ Feeds'
  <2>1. \A c \in Clients : GoesOn(att[c], att'[c])
    BY <1>4 DEF GoesOn
  <2>2. (finished' => outputs = {}) /\ (finished => finished')
    BY <1>1, <1>3 DEF Feeds
  <2> QED
    BY <1>1, <1>2, <1>4, <2>1, <2>2, DataKept
<1>6. stdin' \in BOOLEAN /\ queue' \in Int /\ finished' \in BOOLEAN /\ (stdin' \/ queue' = 0)
  <2>1. queue \in Int /\ stdin \in BOOLEAN /\ (stdin \/ queue = 0)
    BY <1>1 DEF Types, Settles
  <2>2. CASE done = TRUE
    <3>1. queue' = 0 /\ 0 \in Int
      BY <1>3, <2>2
    <3> QED
      BY <1>3, <3>1, Zenon
  <2>3. CASE done = FALSE
    <3>1. queue' = queue /\ (stdin' <=> stdin)
      BY <1>3, <2>3
    <3> QED
      BY <1>3, <2>1, <3>1, Zenon
  <2> QED
    BY <2>2, <2>3
<1>7. Types'
  BY <1>1, <1>2, <1>4, <1>6 DEF Types, End
<1>8. Settles' /\ LoopNotStuck'
  <2>1. exit' = "known" /\ outputs' = {} => finished'
    BY <1>2, <1>3
  <2>2. Attached' \ left' = {} /\ left' \subseteq Attached'
    BY <1>2, <1>4
  <2> QED
    BY <1>2, <1>6, <2>1, <2>2 DEF Settles, LoopNotStuck
<1>9. AloneIsHungUp'
  <2>1. CASE fin = TRUE
    BY <1>3, <2>1 DEF AloneIsHungUp
  <2>2. CASE fin = FALSE
    <3>1. hangup' = hangup /\ (finished => finished') /\ load' = load /\ life' = life
      BY <1>2, <1>3, <2>2
    <3> QED
      BY <1>1, <1>4, <3>1, AloneKept
  <2> QED
    BY <2>1, <2>2
<1> QED
  BY <1>5, <1>7, <1>8, <1>9 DEF SessionInv

\* register wakes the loop for all that it can do.
LEMMA StepRegister ==
  ASSUME SessionConstants, SessionInv, Register
  PROVE  SessionInv'
<1>1. Types /\ Rings /\ Feeds /\ Settles /\ AloneIsHungUp
  BY DEF SessionInv
<1>2. /\ phase = "settle" /\ left = {} /\ phase' = "wait"
      /\ reg' = {st \in outputs : Room(st) > 0}
                \cup (IF stdin /\ queue > 0 THEN {"stdin"} ELSE {})
                \cup {c \in Attached : att[c].out # <<>> \/ att[c].cursor < End}
  BY DEF Register
<1>3. UNCHANGED <<load, pipe, exit, life, log, start, outputs, finished, stdin, queue, hangup,
                  att, dirty, left>>
  BY DEF Register, process, session
<1>4. Rings' /\ Feeds' /\ AloneIsHungUp' /\ att' \in [Clients -> Records]
  BY <1>1, <1>3, ClientsStay
<1>5. Types'
  BY <1>1, <1>3, <1>4 DEF Types, End
<1>6. Attached' = Attached /\ End' = End /\ \A st : Room(st)' = Room(st)
  BY <1>3, RoomSame
<1>7. Settles'
  BY <1>1, <1>2, <1>3, <1>6 DEF Settles
<1>8. LoopNotStuck'
  <2>1. SUFFICES ASSUME ~dirty PROVE LoopNotStuck'
    BY <1>3 DEF LoopNotStuck
  <2>2. ASSUME NEW c \in Attached, att[c].blocked
        PROVE  queue >= StdinQueue /\ "stdin" \in reg'
    <3>1. queue >= StdinQueue
      BY <1>1, <1>2, <2>1, <2>2 DEF Settles
    <3>2. queue > 0 /\ stdin
      BY <1>1, <3>1 DEF SessionConstants, Types, Settles
    <3> QED
      BY <1>2, <3>1, <3>2
  <2>3. ASSUME NEW st \in outputs PROVE st \in reg' <=> Room(st) > 0
    <3>1. st \in Streams /\ st # "stdin" /\ st \notin Clients
      BY <1>1 DEF Types, Streams, SessionConstants
    <3> QED
      BY <1>2, <3>1 DEF Attached
  <2>4. ASSUME NEW c \in Attached, att[c].cursor < End PROVE c \in reg'
    BY <1>2, <2>4
  <2>5. exit = "known" /\ outputs = {} => finished
    BY <1>1, <1>2 DEF Settles
  <2>6. att' = att /\ queue' = queue /\ outputs' = outputs /\ exit' = exit /\ finished' = finished
    BY <1>3
  <2> QED
    BY <1>6, <2>2, <2>3, <2>4, <2>5, <2>6, Zenon DEF LoopNotStuck
<1> QED
  BY <1>4, <1>5, <1>7, <1>8 DEF SessionInv

LEMMA RoomType ==
  ASSUME SessionConstants, Types, NEW st
  PROVE  Room(st) \in Nat
<1>1. Buffer \in Nat /\ End \in Nat
  BY LenProperties DEF SessionConstants, Types, End
<1>2. CASE Attached = {}
  BY <1>1, <1>2 DEF Room
<1>3. CASE Attached # {}
  <2>1. PICK S : S = {att[c].cursor : c \in Attached}
    OBVIOUS
  <2>2. S \in SUBSET Nat /\ S # {}
    <3>1. \A c \in Attached : att[c].cursor \in Nat
      BY DEF Types, Records, Attached
    <3> QED
      BY <1>3, <2>1, <3>1
  <2>3. PICK k \in Nat : k = Min(S)
    BY <2>2, MinIs
  <2>4. Room(st) = RingRoom(st, k)
    BY <1>3, <2>1, <2>3 DEF Room
  <2>5. RingRoom(st, k) \in Nat
    BY <1>1 DEF RingRoom
  <2> QED
    BY <2>4, <2>5
<1> QED
  BY <1>2, <1>3

\* read_output takes what there is room for.
LEMMA StepReadOutput ==
  ASSUME SessionConstants, SessionInv, NEW st \in Streams, ReadOutput(st)
  PROVE  SessionInv'
<1>1. Types /\ Rings /\ Feeds /\ Settles /\ AloneIsHungUp
  BY DEF SessionInv
<1>2. /\ phase' = "wait" /\ life' = "live" /\ dirty' = TRUE /\ st \in outputs
      /\ UNCHANGED <<load, life, finished, stdin, queue, hangup, att>>
  BY DEF ReadOutput, Handler
<1>3. att' = att /\ att' \in [Clients -> Records] /\ Attached' = Attached
  BY <1>1, <1>2 DEF Types, Attached
<1>4. finished = FALSE
  BY <1>1, <1>2 DEF Feeds, Types
<1>5. AloneIsHungUp'
  BY <1>1, <1>2, <1>3, AloneKept
<1>6. Settles' /\ LoopNotStuck'
  BY <1>1, <1>2, HandlerDone DEF Settles
<1>7. CASE /\ outputs' = outputs \ {st}
           /\ UNCHANGED <<log, start, pipe>>
  <2>1. Types'
    BY <1>1, <1>2, <1>3, <1>7 DEF Types, End
  <2>2. End' = End /\ log' = log /\ start' = start
    BY <1>7 DEF End
  <2>3. Rings'
    BY <1>1, <1>3, <2>2 DEF Rings
  <2>4. Feeds'
    BY <1>1, <1>2, <1>3, <1>4, <2>2 DEF Feeds
  <2> QED
    BY <1>5, <1>6, <2>1, <2>3, <2>4 DEF SessionInv
<1>8. CASE \E n \in 1 .. Min({pipe[st], Room(st)}) :
             LET l == log \o [i \in 1 .. n |-> st] IN
             /\ log' = l
             /\ start' = DropFront(l)
             /\ pipe' = [pipe EXCEPT ![st] = @ - n]
             /\ UNCHANGED outputs
  <2>1. PICK n \in 1 .. Min({pipe[st], Room(st)}) : \E l :
          /\ l = log \o [i \in 1 .. n |-> st]
          /\ log' = l /\ start' = DropFront(l) /\ outputs' = outputs
          /\ pipe' = [pipe EXCEPT ![st] = pipe[st] - n]
    BY <1>8
  <2>0. PICK l : /\ l = log \o [i \in 1 .. n |-> st]
                 /\ log' = l /\ start' = DropFront(l) /\ outputs' = outputs
                 /\ pipe' = [pipe EXCEPT ![st] = pipe[st] - n]
    BY <2>1
  <2>2. n \in Nat /\ n >= 1 /\ n <= Room(st)
    <3>1. pipe[st] \in Int /\ Room(st) \in Int
      BY <1>1, RoomType DEF Types
    <3>2. Min({pipe[st], Room(st)}) = IF pipe[st] <= Room(st) THEN pipe[st] ELSE Room(st)
      BY <3>1, MinOfTwo, Zenon
    <3> QED
      BY <2>1, <3>1, <3>2
  <2>3. Longer(l, log, st, n)
    BY <2>0 DEF Longer
  <2>4. /\ DropFront(l) \in Nat /\ DropFront(l) <= Len(l) /\ Runs(l, DropFront(l)) <= MaxRuns
        /\ \A c \in Attached : DropFront(l) <= att[c].cursor
    BY <1>1, <2>2, <2>3, DropKeeps
  <2>5. l \in Seq(Streams) /\ Len(l) = End + n /\ End \in Nat /\ End' = Len(l)
    <3>1. log \in Seq(Streams)
      BY <1>1 DEF Types
    <3>2. l \in Seq(Streams) /\ Len(l) = Len(log) + n /\ Len(log) \in Nat
      BY <2>2, <2>3, <3>1, Appended
    <3> QED
      BY <2>0, <3>2 DEF End
  <2>6. pipe' \in [Streams -> Int]
    <3>1. pipe \in [Streams -> Int] /\ pipe[st] - n \in Int
      BY <1>1, <2>2 DEF Types
    <3> QED
      BY <2>0, <3>1
  <2>7. Types'
    BY <1>1, <1>2, <1>3, <2>0, <2>4, <2>5, <2>6 DEF Types
  <2>8. Rings'
    <3>1. ASSUME NEW c \in Attached PROVE start' <= att[c].cursor /\ att[c].cursor <= End'
      <4>1. att[c].cursor \in Nat /\ att[c].cursor <= End
        BY <1>1 DEF Types, Records, Attached, Rings
      <4>2. DropFront(l) <= att[c].cursor
        BY <2>4
      <4>3. att[c].cursor <= End'
        BY <2>2, <2>5, <4>1
      <4> QED
        BY <2>0, <4>2, <4>3, Zenon
    <3> QED
      BY <1>3, <2>0, <2>4, <3>1 DEF Rings
  <2>9. Feeds'
    <3>1. ASSUME NEW c \in Attached PROVE Fed(att[c], finished', End')
      <4>1. Fed(att[c], finished, End) /\ att[c].closing \in BOOLEAN
        BY <1>1 DEF Feeds, Types, Records, Attached
      <4>2. att[c].closing = FALSE
        BY <1>4, <4>1 DEF Fed
      <4> QED
        BY <4>1, <4>2, Zenon DEF Fed
    <3> QED
      BY <1>2, <1>3, <1>4, <3>1 DEF Feeds
  <2> QED
    BY <1>5, <1>6, <2>7, <2>8, <2>9 DEF SessionInv
<1> QED
  BY <1>7, <1>8 DEF ReadOutput

LEMMA TakenType ==
  ASSUME SessionConstants, Types, NEW c \in Clients
  PROVE  att[c] \in Records /\ att[c].n \in Int /\ Taken(c) \in Int
<1>1. att[c] \in Records /\ att[c].n \in Int /\ queue \in Int /\ StdinQueue \in Int
  BY DEF Types, Records, SessionConstants
<1>2. PICK z \in Int : z = StdinQueue - queue
  BY <1>1
<1>3. Min({att[c].n, z}) = IF att[c].n <= z THEN att[c].n ELSE z
  BY <1>1, MinOfTwo, Zenon
<1>4. Min({att[c].n, StdinQueue - queue}) \in Int
  BY <1>1, <1>2, <1>3, Zenon
<1>5. Taken(c) \in Int
  BY <1>1, <1>4, Zenon DEF Taken
<1> QED
  BY <1>1, <1>5

\* The attachment of c has its output as it was, or as it should be.
LEMMA OneFed ==
  ASSUME Types, Rings, Feeds, AloneIsHungUp, NEW c \in Attached, NEW r \in Records,
         att' = [att EXCEPT ![c] = r], r.on = att[c].on,
         \/ GoesOn(att[c], r)
         \/ start <= r.cursor /\ r.cursor <= End /\ Fed(r, finished, End),
         UNCHANGED <<load, life, log, start, outputs, finished, hangup>>
  PROVE  /\ att' \in [Clients -> Records] /\ Rings' /\ Feeds' /\ AloneIsHungUp'
         /\ Attached' = Attached
<1>1. c \in Clients /\ att \in [Clients -> Records]
  BY DEF Attached, Types
<1>2. /\ att' \in [Clients -> Records] /\ att'[c] = r
      /\ \A d \in Clients \ {c} : att'[d] = att[d]
  BY <1>1, Updated, Zenon
<1>3. Attached' = Attached
  BY <1>1, <1>2 DEF Attached
<1>4. ASSUME NEW d \in Clients
      PROVE  \/ ~att'[d].on
             \/ GoesOn(att[d], att'[d])
             \/ /\ start <= att'[d].cursor /\ att'[d].cursor <= End
                /\ Fed(att'[d], finished', End)
  <2>1. CASE d = c
    BY <1>2, <2>1
  <2>2. CASE d # c
    BY <1>2, <2>2 DEF GoesOn
  <2> QED
    BY <2>1, <2>2
<1>5. Rings' /\ Feeds'
  <2>1. finished' => outputs = {}
    BY DEF Feeds
  <2> QED
    BY <1>2, <1>4, <2>1, DataKept
<1>6. AloneIsHungUp'
  BY <1>3, AloneKept
<1> QED
  BY <1>2, <1>3, <1>5, <1>6

LEMMA StepReadInput ==
  ASSUME SessionConstants, SessionInv, NEW c \in Clients, ReadInput(c)
  PROVE  SessionInv'
<1>1. Types /\ Rings /\ Feeds /\ Settles /\ AloneIsHungUp
  BY DEF SessionInv
<1>2. /\ phase' = "wait" /\ life' = "live" /\ dirty' = TRUE /\ c \in Attached
      /\ UNCHANGED <<load, pipe, life, log, start, outputs, finished, stdin, hangup>>
  BY DEF ReadInput, Handler
<1>3. att[c] \in Records /\ att[c].n \in Int /\ Taken(c) \in Int /\ att[c].eof \in BOOLEAN
  BY <1>1, TakenType DEF Records
<1>4. PICK k \in Int : k = att[c].n - Taken(c)
  BY <1>3
<1>5. att' = InputTaken(att, c, k)
  BY <1>4, Zenon DEF ReadInput, TakeInput, InputTaken
<1>6. PICK r \in Records : GoesOn(att[c], r) /\ att' = [att EXCEPT ![c] = r]
  <2>1. att \in [Clients -> Records]
    BY <1>1 DEF Types
  <2> QED
    <3>1. \E r \in Records : GoesOn(att[c], r) /\ att' = Put(att, c, r)
      BY <1>4, <1>5, <2>1, InputIs, SMTT(30)
    <3> QED
      BY <3>1, Zenon DEF Put
<1>7. r.on = att[c].on
  BY <1>6 DEF GoesOn
<1>8. /\ att' \in [Clients -> Records] /\ Rings' /\ Feeds' /\ AloneIsHungUp'
  BY <1>1, <1>2, <1>6, <1>7, OneFed
<1>9. queue' \in Int /\ (stdin' \/ queue' = 0)
  <2>1. queue' = IF Takes(c) /\ stdin THEN queue + Taken(c) ELSE queue
    BY DEF ReadInput, TakeInput
  <2>2. queue \in Int /\ queue + Taken(c) \in Int /\ (stdin \/ queue = 0)
    BY <1>1, <1>3 DEF Types, Settles
  <2> QED
    BY <1>2, <2>1, <2>2
<1>10. Types'
  BY <1>1, <1>2, <1>8, <1>9 DEF Types, End
<1>11. Settles' /\ LoopNotStuck'
  BY <1>2, <1>9, HandlerDone
<1> QED
  BY <1>8, <1>10, <1>11 DEF SessionInv

LEMMA StepClientGone ==
  ASSUME SessionConstants, SessionInv, NEW c \in Clients, ClientGone(c)
  PROVE  SessionInv'
<1>1. Types /\ Rings /\ Feeds /\ Settles /\ AloneIsHungUp
  BY DEF SessionInv
<1>2. /\ phase' = "wait" /\ life' = "live" /\ dirty' = TRUE /\ c \in Attached
      /\ Detach(c, att)
      /\ UNCHANGED <<load, pipe, life, log, start, outputs, finished, stdin>>
  BY DEF ClientGone, Handler
<1>3. /\ att' \in [Clients -> Records] /\ Rings' /\ Feeds' /\ AloneIsHungUp'
  <2>1. att \in [Clients -> Records]
    BY <1>1 DEF Types
  <2> QED
    BY <1>1, <1>2, <2>1, DetachDone
<1>4. queue' \in Int /\ (stdin' \/ queue' = 0)
  <2>1. queue' = IF ~att[c].blocked /\ Takes(c) /\ stdin THEN queue + Taken(c) ELSE queue
    BY DEF ClientGone
  <2>2. queue \in Int /\ queue + Taken(c) \in Int /\ (stdin \/ queue = 0)
    BY <1>1, TakenType DEF Types, Settles
  <2> QED
    BY <1>2, <2>1, <2>2
<1>5. Types'
  BY <1>1, <1>2, <1>3, <1>4 DEF Types, End
<1>6. Settles' /\ LoopNotStuck'
  BY <1>2, <1>4, HandlerDone
<1> QED
  BY <1>3, <1>5, <1>6 DEF SessionInv

LEMMA StepFlush ==
  ASSUME SessionInv, NEW c \in Clients, Flush(c)
  PROVE  SessionInv'
<1>1. Types /\ Rings /\ Feeds /\ Settles /\ AloneIsHungUp
  BY DEF SessionInv
<1>2. /\ phase' = "wait" /\ life' = "live" /\ dirty' = TRUE /\ c \in Attached
      /\ UNCHANGED <<load, pipe, life, log, start, outputs, finished, stdin, queue>>
  BY DEF Flush, Handler
<1>0. PICK n \in 0 .. Len(att[c].out) : \E r, a :
        /\ r = Flushed(att[c], n) /\ a = [att EXCEPT ![c] = r]
        /\ IF a[c].closing /\ a[c].out = <<>> THEN Detach(c, a)
           ELSE att' = a /\ UNCHANGED hangup
  BY DEF Flush
<1>3. PICK r, a :
        /\ r = Flushed(att[c], n) /\ a = [att EXCEPT ![c] = r]
        /\ IF a[c].closing /\ a[c].out = <<>> THEN Detach(c, a)
           ELSE att' = a /\ UNCHANGED hangup
  BY <1>0
<1>4. att[c] \in Records /\ att \in [Clients -> Records]
  BY <1>1 DEF Types
<1>5. /\ r \in Records /\ r.on = att[c].on /\ r.cursor = att[c].cursor
      /\ r.closing = att[c].closing
      /\ \A f, e : Fed(att[c], f, e) /\ (att[c].closing => r.out # <<>>) => Fed(r, f, e)
  BY <1>0, <1>3, <1>4, FlushedIs
<1>6. /\ a \in [Clients -> Records] /\ a[c] = r
      /\ \A d \in Clients \ {c} : a[d] = att[d]
  BY <1>3, <1>4, <1>5, Updated, Zenon
<1>7. /\ att' \in [Clients -> Records] /\ Rings' /\ Feeds' /\ AloneIsHungUp'
  <2>1. CASE a[c].closing /\ a[c].out = <<>>
    <3>1. Detach(c, a)
      BY <1>3, <2>1, Zenon
    <3> QED
      BY <1>1, <1>2, <1>6, <3>1, DetachDone
  <2>2. CASE ~(a[c].closing /\ a[c].out = <<>>)
    <3>1. att' = [att EXCEPT ![c] = r] /\ hangup' = hangup
      BY <1>3, <2>2, Zenon
    <3>2. start <= r.cursor /\ r.cursor <= End /\ Fed(r, finished, End)
      <4>1. start <= att[c].cursor /\ att[c].cursor <= End /\ Fed(att[c], finished, End)
        BY <1>1, <1>2 DEF Rings, Feeds
      <4>2. att[c].closing => r.out # <<>>
        BY <1>5, <1>6, <2>2, Zenon
      <4> QED
        BY <1>5, <4>1, <4>2, Zenon
    <3> QED
      BY <1>1, <1>2, <1>5, <3>1, <3>2, OneFed
  <2> QED
    BY <2>1, <2>2
<1>8. Types'
  BY <1>1, <1>2, <1>7 DEF Types, End
<1>9. Settles' /\ LoopNotStuck'
  BY <1>1, <1>2, HandlerDone DEF Settles
<1> QED
  BY <1>7, <1>8, <1>9 DEF SessionInv

\* fill and flush of a client, and its input.
LEMMA StepSettleClient ==
  ASSUME SessionConstants, SessionInv, NEW c \in Clients, SettleClient(c)
  PROVE  SessionInv'
<1>1. Types /\ Rings /\ Feeds /\ Settles /\ AloneIsHungUp
  BY DEF SessionInv
<1>2. /\ phase = "settle" /\ c \in left /\ left' = left \ {c} /\ phase' = "settle"
      /\ UNCHANGED <<load, pipe, exit, life, log, start, outputs, finished, stdin>>
  BY DEF SettleClient, process
<1>3. /\ left \subseteq Attached /\ life = "live" /\ (exit = "known" /\ outputs = {} => finished)
      /\ dirty \/ \A d \in Attached \ left : att[d].blocked => queue >= StdinQueue
      /\ stdin \/ queue = 0
  BY <1>1, <1>2 DEF Settles
<1>4. /\ c \in Attached /\ att \in [Clients -> Records] /\ att[c] \in Records
      /\ start <= att[c].cursor /\ att[c].cursor <= End /\ Fed(att[c], finished, End)
  BY <1>1, <1>2, <1>3 DEF Types, Rings, Feeds
<1>5. PICK p : p = Filled(att[c])
  OBVIOUS
<1>6. /\ p \in Records /\ p.on = att[c].on /\ p.blocked = att[c].blocked
      /\ start <= p.cursor /\ p.cursor <= End /\ Fed(p, finished, End)
  BY <1>1, <1>4, <1>5, FilledIs
<1>0. PICK n \in 0 .. Len(p.out) : \E r, a :
        /\ r = Flushed(p, n) /\ a = [att EXCEPT ![c] = r]
        /\ \/ /\ a[c].closing /\ a[c].out = <<>>
              /\ Detach(c, a) /\ dirty' = TRUE
              /\ UNCHANGED queue
           \/ /\ ~(a[c].closing /\ a[c].out = <<>>)
              /\ queue' = IF Takes(c) /\ stdin THEN queue + Taken(c) ELSE queue
              /\ att' = [a EXCEPT ![c].n = a[c].n - Taken(c),
                                  ![c].eof = @ /\ a[c].n - Taken(c) > 0,
                                  ![c].blocked = a[c].n - Taken(c) > 0]
              /\ dirty' = TRUE
              /\ UNCHANGED hangup
           \/ /\ ~(a[c].closing /\ a[c].out = <<>>)
              /\ ~(a[c].blocked /\ queue < StdinQueue)
              /\ att' = a
              /\ UNCHANGED <<queue, hangup, dirty>>
  BY <1>5 DEF SettleClient
<1>7. PICK r, a :
        /\ r = Flushed(p, n) /\ a = [att EXCEPT ![c] = r]
        /\ \/ /\ a[c].closing /\ a[c].out = <<>>
              /\ Detach(c, a) /\ dirty' = TRUE
              /\ UNCHANGED queue
           \/ /\ ~(a[c].closing /\ a[c].out = <<>>)
              /\ queue' = IF Takes(c) /\ stdin THEN queue + Taken(c) ELSE queue
              /\ att' = [a EXCEPT ![c].n = a[c].n - Taken(c),
                                  ![c].eof = @ /\ a[c].n - Taken(c) > 0,
                                  ![c].blocked = a[c].n - Taken(c) > 0]
              /\ dirty' = TRUE
              /\ UNCHANGED hangup
           \/ /\ ~(a[c].closing /\ a[c].out = <<>>)
              /\ ~(a[c].blocked /\ queue < StdinQueue)
              /\ att' = a
              /\ UNCHANGED <<queue, hangup, dirty>>
  BY <1>0, Zenon
<1>8. /\ r \in Records /\ r.on = p.on /\ r.cursor = p.cursor /\ r.closing = p.closing
      /\ r.blocked = p.blocked
      /\ \A f, e : Fed(p, f, e) /\ (p.closing => r.out # <<>>) => Fed(r, f, e)
  BY <1>0, <1>6, <1>7, FlushedIs
<1>9. /\ a \in [Clients -> Records] /\ a[c] = r
      /\ \A d \in Clients \ {c} : a[d] = att[d]
  BY <1>4, <1>7, <1>8, Updated, Zenon
<1>10. ASSUME ~(a[c].closing /\ a[c].out = <<>>)
       PROVE  start <= r.cursor /\ r.cursor <= End /\ Fed(r, finished, End)
  <2>1. p.closing => r.out # <<>>
    BY <1>8, <1>9, <1>10, Zenon
  <2>2. Fed(r, finished, End)
    BY <1>6, <1>8, <2>1, Zenon
  <2> QED
    BY <1>6, <1>8, <2>2, Zenon
<1>11. ASSUME att' \in [Clients -> Records], Rings', Feeds', AloneIsHungUp', queue' \in Int,
              stdin' \/ queue' = 0, dirty' \in BOOLEAN, left' \subseteq Attached',
              dirty' \/ \A d \in Attached' \ left' : att'[d].blocked => queue' >= StdinQueue
       PROVE  SessionInv'
  <2>1. Types'
    BY <1>1, <1>2, <1>11 DEF Types, End
  <2>2. Settles'
    <3>1. life' = "live" /\ (exit' = "known" /\ outputs' = {} => finished')
      BY <1>2, <1>3
    <3> QED
      BY <1>11, <3>1 DEF Settles
  <2>3. LoopNotStuck'
    BY <1>2 DEF LoopNotStuck
  <2> QED
    BY <1>11, <2>1, <2>2, <2>3 DEF SessionInv
<1>12. queue \in Int /\ dirty \in BOOLEAN /\ Taken(c) \in Int
  BY <1>1, TakenType DEF Types
<1>13. CASE /\ a[c].closing /\ a[c].out = <<>>
            /\ Detach(c, a) /\ dirty' = TRUE
            /\ UNCHANGED queue
  <2>1. /\ att' \in [Clients -> Records] /\ Rings' /\ Feeds' /\ AloneIsHungUp'
        /\ Attached' = Attached \ {c}
    BY <1>1, <1>2, <1>4, <1>9, <1>13, DetachDone
  <2>2. left' \subseteq Attached'
    BY <1>2, <1>3, <2>1
  <2>3. queue' \in Int /\ (stdin' \/ queue' = 0) /\ dirty' = TRUE
    BY <1>2, <1>3, <1>12, <1>13
  <2> QED
    BY <1>11, <2>1, <2>2, <2>3
<1>14. CASE /\ ~(a[c].closing /\ a[c].out = <<>>)
            /\ queue' = IF Takes(c) /\ stdin THEN queue + Taken(c) ELSE queue
            /\ att' = [a EXCEPT ![c].n = a[c].n - Taken(c),
                                ![c].eof = @ /\ a[c].n - Taken(c) > 0,
                                ![c].blocked = a[c].n - Taken(c) > 0]
            /\ dirty' = TRUE
            /\ UNCHANGED hangup
  <2>1. PICK k \in Int : k = a[c].n - Taken(c)
    BY <1>8, <1>9, <1>12 DEF Records
  <2>2. att' = InputTaken(a, c, k)
    BY <1>14, <2>1, Zenon DEF InputTaken
  <2>3. PICK s \in Records : GoesOn(a[c], s) /\ att' = [a EXCEPT ![c] = s]
    <3>1. \E s \in Records : GoesOn(a[c], s) /\ att' = Put(a, c, s)
      BY <1>9, <2>1, <2>2, InputIs, SMTT(30)
    <3> QED
      BY <3>1, Zenon DEF Put
  <2>4. att' = [att EXCEPT ![c] = s]
    BY <1>4, <1>7, <2>3
  <2>5. s.on = att[c].on
    BY <1>6, <1>8, <1>9, <2>3 DEF GoesOn
  <2>6. start <= s.cursor /\ s.cursor <= End /\ Fed(s, finished, End)
    <3>1. start <= r.cursor /\ r.cursor <= End /\ Fed(r, finished, End)
      BY <1>10, <1>14
    <3>2. GoesOn(r, s)
      BY <1>9, <2>3
    <3>3. Fed(s, finished, End)
      BY <3>1, <3>2, Zenon DEF GoesOn, Fed
    <3> QED
      BY <3>1, <3>2, <3>3, Zenon DEF GoesOn
  <2>7. /\ att' \in [Clients -> Records] /\ Rings' /\ Feeds' /\ AloneIsHungUp'
        /\ Attached' = Attached
    BY <1>1, <1>2, <1>4, <1>14, <2>4, <2>5, <2>6, OneFed
  <2>8. left' \subseteq Attached'
    BY <1>2, <1>3, <2>7
  <2>9. queue' \in Int /\ (stdin' \/ queue' = 0) /\ dirty' = TRUE
    <3>1. queue + Taken(c) \in Int
      BY <1>12
    <3> QED
      BY <1>2, <1>3, <1>12, <1>14, <3>1
  <2> QED
    BY <1>11, <2>7, <2>8, <2>9
<1>15. CASE /\ ~(a[c].closing /\ a[c].out = <<>>)
            /\ ~(a[c].blocked /\ queue < StdinQueue)
            /\ att' = a
            /\ UNCHANGED <<queue, hangup, dirty>>
  <2>1. start <= r.cursor /\ r.cursor <= End /\ Fed(r, finished, End)
    BY <1>10, <1>15
  <2>2. att' = [att EXCEPT ![c] = r] /\ r.on = att[c].on
    BY <1>6, <1>7, <1>8, <1>15
  <2>3. /\ att' \in [Clients -> Records] /\ Rings' /\ Feeds' /\ AloneIsHungUp'
        /\ Attached' = Attached
    BY <1>1, <1>2, <1>4, <1>8, <1>15, <2>1, <2>2, OneFed
  <2>4. left' \subseteq Attached'
    BY <1>2, <1>3, <2>3
  <2>5. queue' \in Int /\ (stdin' \/ queue' = 0) /\ dirty' \in BOOLEAN
    BY <1>2, <1>3, <1>12, <1>15
  <2>6. ASSUME ~dirty, NEW d \in Attached \ left', att'[d].blocked PROVE queue >= StdinQueue
    <3>1. CASE d = c
      BY <1>12, <1>15, <2>6, <3>1 DEF SessionConstants
    <3>2. CASE d # c
      <4>1. d \in Attached \ left /\ att[d].blocked
        BY <1>2, <1>9, <1>15, <2>6, <3>2 DEF Attached
      <4> QED
        BY <1>3, <2>6, <4>1
    <3> QED
      BY <3>1, <3>2
  <2>7. dirty' \/ \A d \in Attached' \ left' : att'[d].blocked => queue' >= StdinQueue
    BY <1>15, <2>3, <2>6
  <2> QED
    BY <1>11, <2>3, <2>4, <2>5, <2>7
<1> QED
  BY <1>7, <1>13, <1>14, <1>15, Zenon

-----------------------------------------------------------------------------
(* The process and the clients. *)

\* Steps that leave the loop and what clients are sent alone.
LEMMA StepOutside ==
  ASSUME SessionInv,
         UNCHANGED <<load, life, log, start, outputs, finished, stdin, queue, hangup, dirty,
                     left, phase, reg>>,
         pipe' \in [Streams -> Int], exit' \in {exit, "exited"}, att' \in [Clients -> Records],
         \A c \in Clients : GoesOn(att[c], att'[c]) /\ att'[c].blocked = att[c].blocked
  PROVE  SessionInv'
<1>1. Types /\ Rings /\ Feeds /\ Settles /\ LoopNotStuck /\ AloneIsHungUp
  BY DEF SessionInv
<1>2. life = "none" => hangup' = "none"
  BY <1>1 DEF Settles
<1>3. Rings' /\ Feeds' /\ Settles' /\ LoopNotStuck' /\ Attached' = Attached
  BY <1>1, <1>2, OutsideKept
<1>4. Types'
  BY <1>1 DEF Types, End
<1>5. AloneIsHungUp'
  BY <1>1, <1>3, AloneKept
<1> QED
  BY <1>3, <1>4, <1>5 DEF SessionInv

LEMMA SameClients ==
  ASSUME SessionInv, att' = att
  PROVE  /\ att' \in [Clients -> Records] /\ pipe \in [Streams -> Int]
         /\ \A c \in Clients : GoesOn(att[c], att'[c]) /\ att'[c].blocked = att[c].blocked
BY DEF SessionInv, Types, GoesOn

LEMMA StepProcess ==
  ASSUME SessionInv,
         \/ ProcessExits
         \/ \E st \in Streams : ProcessWrites(st) \/ ProcessCloses(st)
         \/ UNCHANGED vars
  PROVE  SessionInv'
<1>1. UNCHANGED <<load, life, log, start, outputs, finished, stdin, queue, hangup, dirty,
                  left, phase, reg, att>>
  BY DEF ProcessExits, ProcessWrites, ProcessCloses, vars, session
<1>2. exit' \in {exit, "exited"}
  BY DEF ProcessExits, ProcessWrites, ProcessCloses, vars
<1>3. /\ att' \in [Clients -> Records] /\ pipe \in [Streams -> Int]
      /\ \A c \in Clients : GoesOn(att[c], att'[c]) /\ att'[c].blocked = att[c].blocked
  BY <1>1, SameClients
<1>4. pipe' \in [Streams -> Int]
  <2>1. CASE \E st \in Streams : ProcessWrites(st)
    <3>1. PICK st \in Streams : pipe' = [pipe EXCEPT ![st] = pipe[st] + 1]
      BY <2>1 DEF ProcessWrites
    <3> QED
      BY <1>3, <3>1
  <2>2. CASE ProcessExits \/ (\E st \in Streams : ProcessCloses(st)) \/ UNCHANGED vars
    <3>1. pipe' = pipe
      BY <2>2 DEF ProcessExits, ProcessCloses, vars
    <3> QED
      BY <1>3, <3>1
  <2> QED
    BY <2>1, <2>2
<1> QED
  BY <1>1, <1>2, <1>3, <1>4, StepOutside

LEMMA StepClient ==
  ASSUME SessionInv, NEW c \in Clients, ClientSends(c) \/ ClientCloses(c)
  PROVE  SessionInv'
<1>1. UNCHANGED <<load, pipe, exit, life, log, start, outputs, finished, stdin, queue, hangup,
                  dirty, left, phase, reg>>
  BY DEF ClientSends, ClientCloses, process
<1>2. att \in [Clients -> Records] /\ att[c] \in Records /\ pipe \in [Streams -> Int]
  BY DEF SessionInv, Types
<1>3. PICK a \in Records : a = att[c]
  BY <1>2, Zenon
<1>4. PICK r \in Records :
        att' = [att EXCEPT ![c] = r] /\ GoesOn(a, r) /\ r.blocked = a.blocked
  <2>1. CASE att' = [att EXCEPT ![c].n = @ + 1]
    <3>0. PICK m \in Int : m = a.n + 1
      BY <1>3 DEF Records
    <3>1. PICK r : r = [a EXCEPT !.n = m]
      OBVIOUS
    <3>2. r \in Records /\ GoesOn(a, r) /\ r.blocked = a.blocked
      BY <1>3, <3>1 DEF Records, GoesOn
    <3>3. att' = [att EXCEPT ![c] = r]
      BY <1>3, <2>1, <3>0, <3>1, Zenon
    <3> QED
      BY <3>2, <3>3
  <2>2. CASE att' = [att EXCEPT ![c].eof = TRUE]
    <3>1. PICK r : r = [a EXCEPT !.eof = TRUE]
      OBVIOUS
    <3>2. r \in Records /\ GoesOn(a, r) /\ r.blocked = a.blocked
      BY <1>3, <3>1 DEF Records, GoesOn
    <3>3. att' = [att EXCEPT ![c] = r]
      BY <1>3, <2>2, <3>1
    <3> QED
      BY <3>2, <3>3
  <2>3. CASE att' = [att EXCEPT ![c].shut = TRUE]
    <3>1. PICK b \in BOOLEAN : b = TRUE
      OBVIOUS
    <3>0. PICK r : r = [a EXCEPT !.shut = b]
      OBVIOUS
    <3>2. r \in Records /\ GoesOn(a, r) /\ r.blocked = a.blocked
      BY <1>3, <3>0, SMTT(30) DEF Records, GoesOn
    <3>3. att' = [att EXCEPT ![c] = r]
      BY <1>3, <2>3, <3>0, <3>1, Zenon
    <3> QED
      BY <3>2, <3>3
  <2> QED
    BY <2>1, <2>2, <2>3 DEF ClientSends, ClientCloses
<1>5. /\ att' \in [Clients -> Records] /\ att'[c] = r
      /\ \A d \in Clients \ {c} : att'[d] = att[d]
  BY <1>2, <1>4, Updated, Zenon
<1>6. \A d \in Clients : GoesOn(att[d], att'[d]) /\ att'[d].blocked = att[d].blocked
  <2>1. ASSUME NEW d \in Clients
        PROVE  GoesOn(att[d], att'[d]) /\ att'[d].blocked = att[d].blocked
    <3>1. CASE d = c
      BY <1>3, <1>4, <1>5, <3>1, Zenon
    <3>2. CASE d # c
      BY <1>5, <3>2 DEF GoesOn
    <3> QED
      BY <3>1, <3>2
  <2> QED
    BY <2>1
<1>7. pipe' \in [Streams -> Int] /\ exit' \in {exit, "exited"}
  BY <1>1, <1>2
<1> QED
  BY <1>1, <1>5, <1>6, <1>7, StepOutside

-----------------------------------------------------------------------------
(* The theorems. *)

LEMMA SessionInit ==
  ASSUME SessionConstants, Init
  PROVE  SessionInv
<1>1. /\ load \in Loads /\ outputs = (IF load.tty THEN {"out"} ELSE Streams)
      /\ pipe = [st \in Streams |-> 0] /\ life = "none" /\ log = <<>> /\ start = 0
      /\ finished = FALSE /\ stdin = TRUE /\ queue = 0 /\ hangup = "none"
      /\ att = [c \in Clients |-> Detached] /\ dirty = FALSE /\ phase = "wait"
  BY DEF Init
<1>2. log \in Seq(Streams) /\ End = 0
  BY <1>1, EmptySeq DEF End
<1>3. att \in [Clients -> Records] /\ Attached = {}
  BY <1>1, DetachedIs DEF Attached
<1>4. outputs \subseteq Streams /\ pipe \in [Streams -> Int]
  BY <1>1 DEF Streams
<1>5. Types
  <2>1. start \in Nat /\ start <= End /\ queue \in Int
    BY <1>1, <1>2
  <2>2. finished \in BOOLEAN /\ stdin \in BOOLEAN /\ dirty \in BOOLEAN
    BY <1>1, Zenon
  <2> QED
    BY <1>1, <1>2, <1>3, <1>4, <2>1, <2>2, Zenon DEF Types
<1>6. Rings
  <2>1. /\ RunStarts(log, start) \subseteq start + 1 .. Len(log)
        /\ Runs(log, start) = Cardinality(RunStarts(log, start))
    BY <1>5, RunsFinite DEF Types
  <2>2. RunStarts(log, start) = {}
    BY <1>1, <1>2, <2>1 DEF End
  <2>3. Runs(log, start) = 0
    BY <2>1, <2>2, FS_EmptySet
  <2> QED
    BY <1>3, <2>3 DEF Rings, SessionConstants
<1>7. Feeds /\ Settles /\ LoopNotStuck /\ AloneIsHungUp
  BY <1>1, <1>3 DEF Feeds, Settles, LoopNotStuck, AloneIsHungUp
<1> QED
  BY <1>5, <1>6, <1>7 DEF SessionInv

LEMMA SessionStep ==
  ASSUME SessionConstants, SessionInv, [Next]_vars
  PROVE  SessionInv'
<1>1. CASE Start
  BY <1>1, StepStart
<1>2. CASE CmdAttach
  BY <1>2, StepCmdAttach
<1>3. CASE CmdExited
  BY <1>3, StepCmdExited
<1>4. CASE HangUp
  BY <1>4, StepHangUp
<1>5. CASE Sweep
  BY <1>5, StepSweep
<1>6. CASE WriteStdin
  BY <1>6, StepWriteStdin
<1>7. CASE Settle
  BY <1>7, StepSettle
<1>8. CASE Register
  BY <1>8, StepRegister
<1>9. CASE \/ ProcessExits
           \/ \E st \in Streams : ProcessWrites(st) \/ ProcessCloses(st)
           \/ UNCHANGED vars
  BY <1>9, StepProcess
<1>10. ASSUME NEW st \in Streams, ReadOutput(st) PROVE SessionInv'
  BY <1>10, StepReadOutput
<1>11. ASSUME NEW c \in Clients,
              ReadInput(c) \/ ClientGone(c) \/ Flush(c) \/ SettleClient(c)
              \/ ClientSends(c) \/ ClientCloses(c)
       PROVE  SessionInv'
  BY <1>11, StepReadInput, StepClientGone, StepFlush, StepSettleClient, StepClient, Zenon
<1> QED
  BY <1>1, <1>2, <1>3, <1>4, <1>5, <1>6, <1>7, <1>8, <1>9, <1>10, <1>11, Zenon DEF Next

\* EXIT comes only behind all the output, since what is queued for a client
\* goes on from what it was sent.
LEMMA FedIsGapless ==
  ASSUME NEW a \in Records, NEW f, NEW e, Fed(a, f, e), NEW i \in 1 .. Len(a.out)
  PROVE  /\ a.out[i] \in {EXIT, a.got + i}
         /\ a.out[i] = EXIT => f /\ i = Len(a.out) /\ a.got + i - 1 = e
<1>1. a.got \in Nat /\ Len(a.out) \in Nat /\ a.closing \in BOOLEAN /\ i \in Nat /\ i >= 1
  BY LenProperties DEF Records
<1>2. CASE a.closing = FALSE
  <2>1. a.out[i] = a.got + i
    BY <1>2 DEF Fed
  <2> QED
    BY <1>1, <2>1 DEF EXIT
<1>3. CASE a.closing = TRUE
  <2>1. /\ f /\ a.got + Len(a.out) - 1 = e /\ a.out[Len(a.out)] = EXIT
        /\ \A j \in 1 .. Len(a.out) - 1 : a.out[j] = a.got + j
    BY <1>3 DEF Fed
  <2>2. CASE i = Len(a.out)
    BY <2>1, <2>2
  <2>3. CASE i # Len(a.out)
    <3>1. i \in 1 .. Len(a.out) - 1
      BY <1>1, <2>3
    <3>2. a.out[i] = a.got + i
      BY <2>1, <3>1
    <3> QED
      BY <1>1, <3>2 DEF EXIT
  <2> QED
    BY <2>2, <2>3
<1> QED
  BY <1>1, <1>2, <1>3

LEMMA SessionImplies ==
  ASSUME SessionInv
  PROVE  OutputGapless /\ ExitIsLast /\ LoopNotStuck /\ AloneIsHungUp
<1>1. ASSUME NEW c \in Attached, NEW i \in 1 .. Len(att[c].out)
      PROVE  /\ att[c].out[i] \in {EXIT, att[c].got + i}
             /\ att[c].out[i] = EXIT => finished /\ i = Len(att[c].out) /\ att[c].got + i - 1 = End
  <2>1. att[c] \in Records /\ Fed(att[c], finished, End)
    BY DEF SessionInv, Types, Feeds, Attached
  <2> QED
    BY <2>1, FedIsGapless, ZenonT(60)
<1>2. OutputGapless
  BY <1>1, Zenon DEF OutputGapless
<1>3. finished => outputs = {}
  BY DEF SessionInv, Feeds
<1>4. ExitIsLast
  BY <1>1, <1>3, Zenon DEF ExitIsLast
<1> QED
  BY <1>2, <1>4 DEF SessionInv

\* The inductive invariant of a session of the guest agent: its ring, what is
\* queued for its clients, and what its event loop waits for.
THEOREM SessionAlways == ASSUME SessionConstants PROVE Spec => []SessionInv
<1>1. Init => SessionInv
  BY SessionInit
<1>2. SessionInv /\ [Next]_vars => SessionInv'
  BY SessionStep
<1> QED
  BY <1>1, <1>2, PTL DEF Spec

\* What an exec session promises its clients, for every size of the ring and
\* of its queues: each is sent every byte from its offset on, none missing
\* and none twice, whatever drop_front dropped (room, frames, fill); and
\* EXIT comes last, behind all the output there was.
THEOREM SessionOutputInOrder ==
  ASSUME SessionConstants PROVE Spec => [](OutputGapless /\ ExitIsLast)
<1>1. SessionInv => OutputGapless /\ ExitIsLast
  BY SessionImplies
<1> QED
  BY <1>1, SessionAlways, PTL

\* All that the runs check of a session: besides its output, the loop never
\* sleeps with work that nothing will wake it for (register), and a session
\* with a limit is hung up when nobody is attached, and only then (detach,
\* start, timers).
THEOREM SessionIsSafe == ASSUME SessionConstants PROVE Spec => []SessionSafe
<1>1. SessionInv => SessionSafe
  BY SessionImplies DEF SessionSafe
<1> QED
  BY <1>1, SessionAlways, PTL
=============================================================================
