--------------------------- MODULE IdleParkProofs ---------------------------
(***************************************************************************)
(* Proofs about IdlePark, for every number of requests and every choice of *)
(* --idle-park and of the timeouts: a park spares requests always, and it  *)
(* spares sessions if --idle-park is longer than a check can take.         *)
(***************************************************************************)
EXTENDS IdlePark, FiniteSetTheorems, TLAPS

----------------------------------------------------------------------------
(* The inductive invariant.                                                *)

Open == {r \in Requests : req[r] # "out"}

Checks == [pc : {"none", "guest", "sessions", "netd", "flows", "stop"},
           spent : Nat, running : {"unknown", "yes", "no"}, gone : BOOLEAN]

Types ==
  /\ busy = Cardinality(Open) /\ idle \in 0 .. After
  /\ working \in BOOLEAN /\ cpu \in {"none", "quiet", "busy"}
  /\ check \in Checks /\ lock \in BOOLEAN /\ up \in BOOLEAN
  /\ req \in [Requests -> {"out", "asking", "using", "cut"}]
  /\ session \in BOOLEAN /\ flow \in Nat /\ flow <= Max({After, WaitLimit})
  /\ deaf \in BOOLEAN

\* A step of the check takes no longer than its limit.
InTime == check.spent <= Limit(check.pc)

\* What uses or runs in the guest has a VM that is up.
Inside ==
  /\ \A r \in Requests : req[r] = "using" => up
  /\ session \/ flow > 0 => up

\* The guest has said that it has no session.
Listed ==
  \/ check.pc = "sessions" /\ check.running = "no"
  \/ check.pc \in {"netd", "flows", "stop"}

\* The longest since then.
Since ==
  check.spent + CASE check.pc = "netd"  -> Poll
                  [] check.pc = "flows" -> Poll + HoldLimit
                  [] check.pc = "stop"  -> Poll + HoldLimit + NetdLimit
                  [] OTHER              -> 0

\* A session that started after the guest answered was started by a request,
\* which is still open or restarted the clock when it ended.
StartedSince == session /\ Listed => busy > 0 \/ idle <= Since

IndInv == Types /\ InTime /\ Inside /\ StartedSince

----------------------------------------------------------------------------
(* Counting the open requests.                                             *)

\* busy is a number, and 0 only when no request is open.
LEMMA BusyCounts ==
  ASSUME Types
  PROVE  busy \in Nat /\ (busy = 0 <=> \A r \in Requests : req[r] = "out")
<1>1. Open \in SUBSET Requests /\ IsFiniteSet(Requests)
  BY IdleParkAssumption DEF Open
<1>2. IsFiniteSet(Open)
  BY <1>1, FS_Subset
<1>3. Cardinality(Open) \in Nat /\ (Cardinality(Open) = 0 <=> Open = {})
  BY <1>2, FS_CardinalityType, FS_EmptySet
<1> QED
  BY <1>3 DEF Types, Open

\* A request that comes or goes moves the count by one, any other change of a
\* request leaves it.
LEMMA CountMoves ==
  ASSUME Types, NEW r \in Requests, NEW to \in {"out", "asking", "using", "cut"},
         req' = [req EXCEPT ![r] = to]
  PROVE  /\ req' \in [Requests -> {"out", "asking", "using", "cut"}]
         /\ req[r] = "out" /\ to # "out" => Cardinality(Open') = Cardinality(Open) + 1
         /\ req[r] # "out" /\ to = "out" => Cardinality(Open') = Cardinality(Open) - 1
         /\ req[r] # "out" /\ to # "out" => Open' = Open
<1>1. IsFiniteSet(Open)
  BY IdleParkAssumption, FS_Subset DEF Open
<1>2. req' \in [Requests -> {"out", "asking", "using", "cut"}]
  BY DEF Types
<1>3. CASE req[r] = "out" /\ to # "out"
  <2>1. Open' = Open \cup {r} /\ r \notin Open
    BY <1>3 DEF Open, Types
  <2> QED
    BY <1>1, <1>2, <1>3, <2>1, FS_AddElement
<1>4. CASE req[r] # "out" /\ to = "out"
  <2>1. Open' = Open \ {r} /\ r \in Open
    BY <1>4 DEF Open, Types
  <2> QED
    BY <1>1, <1>2, <1>4, <2>1, FS_RemoveElement
<1>5. CASE req[r] # "out" /\ to # "out"
  BY <1>2, <1>5 DEF Open, Types
<1> QED
  BY <1>2, <1>3, <1>4, <1>5

\* A stop cuts requests off and closes none of them.
LEMMA StopsCutOff ==
  ASSUME Types, VmStops
  PROVE  /\ up' = FALSE /\ session' = FALSE /\ flow' = 0 /\ deaf' = FALSE
         /\ req' \in [Requests -> {"out", "asking", "using", "cut"}]
         /\ Open' = Open
BY DEF Types, VmStops, Open

\* The bound of flow, as a number.
LEMMA LongestFlow ==
  /\ Max({After, WaitLimit}) \in Nat
  /\ After <= Max({After, WaitLimit}) /\ WaitLimit <= Max({After, WaitLimit})
<1> DEFINE m == IF After >= WaitLimit THEN After ELSE WaitLimit
<1>1. m \in {After, WaitLimit} /\ \A y \in {After, WaitLimit} : m >= y
  BY IdleParkAssumption
<1>2. /\ Max({After, WaitLimit}) \in {After, WaitLimit}
      /\ \A y \in {After, WaitLimit} : Max({After, WaitLimit}) >= y
  BY <1>1, Zenon DEF Max
<1> QED
  BY <1>2, IdleParkAssumption

\* How long ago the answer was is a number.
LEMMA SinceType == Types => Since \in Nat
BY IdleParkAssumption DEF Types, Checks, Since

----------------------------------------------------------------------------
(* Every step keeps the invariant.                                         *)

\* The initial state satisfies the invariant.
LEMMA InitIndInv == Init => IndInv
<1> SUFFICES ASSUME Init PROVE IndInv
  OBVIOUS
<1>1. Open = {}
  BY DEF Init, Open
<1>2. Types
  <2>1. working \in BOOLEAN /\ lock \in BOOLEAN /\ up \in BOOLEAN /\ session \in BOOLEAN
        /\ deaf \in BOOLEAN
    BY DEF Init
  <2>2. check \in Checks
    BY DEF Init, NoCheck, Checks
  <2>3. req \in [Requests -> {"out", "asking", "using", "cut"}]
    BY DEF Init
  <2>4. /\ busy = Cardinality(Open) /\ idle \in 0 .. After
        /\ cpu \in {"none", "quiet", "busy"}
        /\ flow \in Nat /\ flow <= Max({After, WaitLimit})
    BY <1>1, FS_EmptySet, LongestFlow, IdleParkAssumption DEF Init
  <2> QED
    BY <2>1, <2>2, <2>3, <2>4 DEF Types
<1> QED
  BY <1>2, IdleParkAssumption
     DEF IndInv, Init, NoCheck, InTime, Limit, Inside, StartedSince, Listed

\* Requests come, get the guest and go, and start sessions with it.
LEMMA RequestSteps ==
  ASSUME IndInv, NEW r \in Requests,
         Busy(r) \/ Guest(r) \/ BusyDrop(r) \/ SessionStarts(r)
  PROVE  IndInv'
<1> USE IdleParkAssumption DEF IndInv
<1>0. busy \in Nat /\ (busy = 0 <=> \A q \in Requests : req[q] = "out")
  BY BusyCounts
<1>1. CASE Busy(r)
  <2>1. req' = [req EXCEPT ![r] = "asking"] /\ req[r] = "out" /\ busy' = busy + 1
    BY <1>1 DEF Busy
  <2>2. UNCHANGED <<idle, working, cpu, check, lock, up, session, flow, deaf>>
    BY <1>1 DEF Busy, guest
  <2>3. Cardinality(Open') = Cardinality(Open) + 1
        /\ req' \in [Requests -> {"out", "asking", "using", "cut"}]
    BY <2>1, CountMoves
  <2>4. Types'
    BY <2>1, <2>2, <2>3 DEF Types
  <2>5. StartedSince'
    BY <1>0, <2>1 DEF StartedSince
  <2>6. Inside'
    BY <2>1, <2>2 DEF Inside, Types
  <2> QED
    BY <2>2, <2>4, <2>5, <2>6 DEF InTime, Limit
<1>2. CASE Guest(r)
  <2>1. req' = [req EXCEPT ![r] = "using"] /\ req[r] = "asking" /\ up' = TRUE
    BY <1>2 DEF Guest
  <2>2. UNCHANGED <<busy, check, lock, session, flow, deaf>>
    BY <1>2 DEF Guest, guest
  <2>3. \/ UNCHANGED <<idle, working, cpu>>
        \/ idle' = 0 /\ working' = FALSE /\ cpu' = "none"
    BY <1>2 DEF Guest
  <2>4. Open' = Open /\ req' \in [Requests -> {"out", "asking", "using", "cut"}]
    BY <2>1, CountMoves
  <2>5. Types'
    <3>1. idle' \in 0 .. After /\ cpu' \in {"none", "quiet", "busy"}
      BY <2>3 DEF Types
    <3>2. working' \in BOOLEAN /\ up' \in BOOLEAN
      BY <2>1, <2>3 DEF Types
    <3> QED
      BY <2>2, <2>4, <3>1, <3>2 DEF Types
  <2>6. busy > 0
    BY <1>0, <2>1
  <2>7. StartedSince'
    BY <2>2, <2>6 DEF StartedSince
  <2> QED
    BY <2>1, <2>2, <2>5, <2>7 DEF InTime, Limit, Inside
<1>3. CASE BusyDrop(r)
  <2>1. /\ req' = [req EXCEPT ![r] = "out"] /\ req[r] # "out"
        /\ busy' = busy - 1 /\ idle' = IF busy = 1 THEN 0 ELSE idle
    BY <1>3 DEF BusyDrop
  <2>2. UNCHANGED <<working, cpu, check, lock, up, session, flow, deaf>>
    BY <1>3 DEF BusyDrop, guest
  <2>3. Cardinality(Open') = Cardinality(Open) - 1
        /\ req' \in [Requests -> {"out", "asking", "using", "cut"}]
    BY <2>1, CountMoves
  <2>4. Types'
    BY <2>1, <2>2, <2>3 DEF Types
  <2>5. StartedSince'
    <3>1. busy > 0
      BY <1>0, <2>1
    <3>2. CASE busy = 1
      <4>1. Since' \in Nat
        BY <2>2, SinceType DEF Since
      <4> QED
        BY <2>1, <3>2, <4>1 DEF StartedSince
    <3>3. CASE busy # 1
      BY <1>0, <2>1, <3>1, <3>3 DEF StartedSince
    <3> QED
      BY <3>2, <3>3
  <2>6. Inside'
    BY <2>1, <2>2 DEF Inside, Types
  <2> QED
    BY <2>2, <2>4, <2>5, <2>6 DEF InTime, Limit
<1>4. CASE SessionStarts(r)
  <2>1. req[r] = "using" /\ session' = TRUE
    BY <1>4 DEF SessionStarts
  <2>2. UNCHANGED <<busy, idle, working, cpu, check, lock, up, req, flow, deaf>>
    BY <1>4 DEF SessionStarts, activity, sandbox
  <2>3. Types'
    BY <2>1, <2>2 DEF Types, Open
  <2>4. busy > 0
    BY <1>0, <2>1
  <2>5. up
    BY <2>1 DEF Inside
  <2>6. StartedSince'
    BY <2>2, <2>4 DEF StartedSince
  <2> QED
    BY <2>2, <2>3, <2>5, <2>6 DEF InTime, Limit, Inside
<1> QED
  BY <1>1, <1>2, <1>3, <1>4

\* The guest and whoever holds the lock do as they like.
LEMMA GuestSteps ==
  ASSUME IndInv,
         \/ SessionEnds \/ Spends \/ Sends(WaitLimit) \/ Sends(After) \/ Deafens
         \/ Exits \/ Holds \/ LetsGo
  PROVE  IndInv'
<1> USE IdleParkAssumption DEF IndInv
<1>1. CASE SessionEnds
  <2>1. /\ session' = FALSE
        /\ UNCHANGED <<busy, idle, working, cpu, check, lock, up, req, flow, deaf>>
    BY <1>1 DEF SessionEnds, activity, sandbox
  <2> QED
    BY <2>1 DEF Types, Open, InTime, Limit, Inside, StartedSince
<1>2. CASE Spends
  <2>1. /\ cpu' = "busy"
        /\ UNCHANGED <<busy, idle, working, check, lock, up, req, session, flow, deaf>>
    BY <1>2 DEF Spends, sandbox, guest
  <2> QED
    BY <2>1 DEF Types, Open, InTime, Limit, Inside, StartedSince, Listed, Since
<1>3. ASSUME NEW span \in {WaitLimit, After}, Sends(span) PROVE IndInv'
  <2>1. /\ up /\ flow' = span
        /\ UNCHANGED <<busy, idle, working, cpu, check, lock, up, req, session, deaf>>
    BY <1>3 DEF Sends, activity, sandbox
  <2>2. Types'
    BY <1>3, <2>1, LongestFlow DEF Types, Open
  <2> QED
    BY <2>1, <2>2 DEF InTime, Limit, Inside, StartedSince, Listed, Since
<1>4. CASE Deafens
  <2>1. /\ deaf' = ~deaf
        /\ UNCHANGED <<busy, idle, working, cpu, check, lock, up, req, session, flow>>
    BY <1>4 DEF Deafens, activity, sandbox
  <2> QED
    BY <2>1 DEF Types, Open, InTime, Limit, Inside, StartedSince, Listed, Since
<1>5. CASE Exits
  <2>1. /\ up' = FALSE /\ session' = FALSE /\ flow' = 0 /\ deaf' = FALSE
        /\ req' \in [Requests -> {"out", "asking", "using", "cut"}]
        /\ Open' = Open /\ \A r \in Requests : req'[r] # "using"
    BY <1>5, StopsCutOff DEF Exits, VmStops
  <2>2. UNCHANGED <<busy, idle, working, cpu, lock>>
    BY <1>5 DEF Exits, activity
  <2>3. check' = [check EXCEPT !.gone = check.pc # "none"]
    BY <1>5 DEF Exits
  <2>4. check' \in Checks /\ check'.pc = check.pc /\ check'.spent = check.spent
    BY <2>3 DEF Types, Checks
  <2>5. Types'
    <3>1. up' \in BOOLEAN /\ session' \in BOOLEAN /\ deaf' \in BOOLEAN
      BY <2>1
    <3>2. flow' \in Nat /\ flow' <= Max({After, WaitLimit})
      BY <2>1, LongestFlow
    <3> QED
      BY <2>1, <2>2, <2>4, <3>1, <3>2 DEF Types
  <2> QED
    BY <2>1, <2>4, <2>5 DEF InTime, Limit, Inside, StartedSince
<1>6. CASE Holds \/ LetsGo
  <2>1. /\ lock' \in BOOLEAN
        /\ UNCHANGED <<busy, idle, working, cpu, check, up, req, session, flow, deaf>>
    BY <1>6 DEF Holds, LetsGo, activity, guest
  <2> QED
    BY <2>1 DEF Types, Open, InTime, Limit, Inside, StartedSince, Listed, Since
<1> QED
  BY <1>1, <1>2, <1>3, <1>4, <1>5, <1>6

\* watch looks at the clock and may begin a check.
LEMMA WatchStep == ASSUME IndInv, Watch PROVE IndInv'
<1> USE IdleParkAssumption DEF IndInv
<1>1. UNCHANGED <<busy, working, lock, up, req, session, flow, deaf>>
  BY DEF Watch, sandbox, guest
<1>2. idle' \in {0, idle} /\ cpu' \in {"quiet", cpu}
  BY DEF Watch
<1>3. check' = check \/ check' = [NoCheck EXCEPT !.pc = "guest"]
  BY DEF Watch
<1>4. check' \in Checks /\ InTime'
  <2>1. CASE check' = check
    BY <2>1 DEF Types, InTime, Limit
  <2>2. CASE check' = [NoCheck EXCEPT !.pc = "guest"]
    <3>1. check' = [pc |-> "guest", spent |-> 0, running |-> "unknown", gone |-> FALSE]
      BY <2>2 DEF NoCheck
    <3>2. check' \in Checks
      BY <3>1 DEF Checks
    <3> QED
      BY <3>1, <3>2 DEF InTime, Limit
  <2> QED
    BY <1>3, <2>1, <2>2
<1>5. Types'
  BY <1>1, <1>2, <1>4 DEF Types, Open
<1>6. StartedSince'
  <2>1. CASE check' = check
    <3>1. Since' = Since /\ Since \in Nat
      BY <2>1, SinceType DEF Since
    <3>2. Listed' = Listed
      BY <2>1 DEF Listed
    <3> QED
      BY <1>1, <1>2, <3>1, <3>2 DEF StartedSince, Types
  <2>2. CASE check' = [NoCheck EXCEPT !.pc = "guest"]
    BY <2>2 DEF StartedSince, Listed, NoCheck
  <2> QED
    BY <1>3, <2>1, <2>2
<1> QED
  BY <1>1, <1>4, <1>5, <1>6 DEF Inside

\* The guest answers: only a session that starts later is one not listed.
LEMMA ListStep == ASSUME IndInv, GuestLists PROVE IndInv'
<1> USE IdleParkAssumption DEF IndInv
<1>1. UNCHANGED <<busy, idle, working, cpu, lock, up, req, session, flow, deaf>>
  BY DEF GuestLists, activity, sandbox, guest
<1>2. /\ check.pc = "sessions"
      /\ check' = [check EXCEPT !.running = IF session THEN "yes" ELSE "no"]
  BY DEF GuestLists
<1>3. /\ check' \in Checks /\ check'.pc = "sessions" /\ check'.spent = check.spent
      /\ check'.running = IF session THEN "yes" ELSE "no"
  BY <1>2 DEF Types, Checks
<1>4. Types' /\ InTime' /\ Inside'
  BY <1>1, <1>2, <1>3 DEF Types, Open, InTime, Limit, Inside
<1>5. StartedSince'
  BY <1>1, <1>3 DEF StartedSince, Listed
<1> QED
  BY <1>4, <1>5

\* The check goes from step to step, and each begins when the one before has
\* taken at most its limit.
LEMMA CheckSteps == ASSUME IndInv, Check PROVE IndInv'
<1> USE IdleParkAssumption DEF IndInv
<1>0. busy \in Nat /\ Since \in Nat /\ check.spent \in Nat
  BY BusyCounts, SinceType DEF Types, Checks
<1> DEFINE Ok(pc) == /\ At(pc) \in Checks /\ At(pc).pc = pc /\ At(pc).spent = 0
                     /\ At(pc).running = "unknown"
<1>a. Ok("none") /\ Ok("sessions") /\ Ok("netd") /\ Ok("flows") /\ Ok("stop")
  BY DEF At, NoCheck, Checks
<1>b. At("none") = NoCheck
  BY DEF At, NoCheck
<1>c. ASSUME NEW found \in BOOLEAN, saw_work(found)
      PROVE  /\ UNCHANGED <<busy, cpu>> /\ working' \in BOOLEAN
             /\ idle' \in {0, idle}
  BY <1>c DEF saw_work
<1>1. CASE CheckStarts
  <2>1. UNCHANGED <<busy, idle, working, cpu, lock, up, req, session, flow, deaf>>
    BY <1>1 DEF CheckStarts, activity, sandbox, guest
  <2>2. check' = At("sessions") \/ check' = At("none")
    BY <1>1, <1>b DEF CheckStarts
  <2> QED
    BY <1>a, <2>1, <2>2 DEF Types, Open, InTime, Limit, Inside, StartedSince, Listed
<1>2. CASE CheckHearsSessions
  <2>1. UNCHANGED <<lock, up, req, session, flow, deaf>>
    BY <1>2 DEF CheckHearsSessions, sandbox, guest
  <2>2. /\ UNCHANGED <<busy, cpu>> /\ working' \in BOOLEAN /\ idle' \in {0, idle}
    BY <1>2, <1>c DEF CheckHearsSessions, activity, Types
  <2>3. check.pc = "sessions"
    BY <1>2 DEF CheckHearsSessions
  <2>4. \/ check' = At("none")
        \/ check.running = "no" /\ check' = At("netd") /\ UNCHANGED idle
    BY <1>2, <1>b DEF CheckHearsSessions, activity
  <2>5. Types' /\ InTime' /\ Inside'
    BY <1>a, <2>1, <2>2, <2>4 DEF Types, Open, InTime, Limit, Inside
  <2>6. StartedSince'
    <3>1. CASE check' = At("none")
      BY <1>a, <3>1 DEF StartedSince, Listed
    <3>2. CASE check.running = "no" /\ check' = At("netd") /\ UNCHANGED idle
      <4>1. Since' = Poll /\ Since = check.spent /\ Listed
        BY <1>a, <2>3, <3>2 DEF Since, Listed, Types, Checks
      <4>2. check.spent <= Poll
        BY <2>3 DEF InTime, Limit
      <4> QED
        BY <1>0, <2>1, <2>2, <3>2, <4>1, <4>2 DEF StartedSince, Types
    <3> QED
      BY <2>4, <3>1, <3>2
  <2> QED
    BY <2>5, <2>6
<1>3. CASE CheckAsksNetd
  <2>1. UNCHANGED <<lock, up, req, session, flow, deaf>>
    BY <1>3 DEF CheckAsksNetd, sandbox, guest
  <2>2. /\ UNCHANGED <<busy, cpu>> /\ working' \in BOOLEAN /\ idle' \in {0, idle}
    BY <1>3, <1>c DEF CheckAsksNetd, activity, Types
  <2>3. check.pc = "netd" /\ (check' = At("flows") \/ check' = At("stop"))
    BY <1>3 DEF CheckAsksNetd
  <2>4. Types' /\ InTime' /\ Inside'
    BY <1>a, <2>1, <2>2, <2>3 DEF Types, Open, InTime, Limit, Inside
  <2>5. Since <= Poll + HoldLimit /\ Listed
    BY <1>0, <2>3 DEF Since, Listed, InTime, Limit
  <2>6. Since' \in Nat /\ Since' >= Poll + HoldLimit
    BY <1>a, <2>3 DEF Since
  <2> QED
    BY <1>0, <2>1, <2>2, <2>4, <2>5, <2>6 DEF StartedSince, Types
<1>4. CASE CheckHearsFlows
  <2>1. UNCHANGED <<lock, up, req, session, flow, deaf>>
    BY <1>4 DEF CheckHearsFlows, sandbox, guest
  <2>2. /\ UNCHANGED <<busy, cpu>> /\ working' \in BOOLEAN /\ idle' \in {0, idle}
    BY <1>4, <1>c DEF CheckHearsFlows, activity, Types
  <2>3. check.pc = "flows" /\ (check' = At("none") \/ check' = At("stop"))
    BY <1>4, <1>b DEF CheckHearsFlows
  <2>4. Types' /\ InTime' /\ Inside'
    BY <1>a, <2>1, <2>2, <2>3 DEF Types, Open, InTime, Limit, Inside
  <2>5. StartedSince'
    <3>1. CASE check' = At("none")
      BY <1>a, <3>1 DEF StartedSince, Listed
    <3>2. CASE check' = At("stop")
      <4>1. Since <= Poll + HoldLimit + NetdLimit /\ Listed
        BY <1>0, <2>3 DEF Since, Listed, InTime, Limit
      <4>2. Since' = Poll + HoldLimit + NetdLimit
        BY <1>a, <3>2 DEF Since
      <4> QED
        BY <1>0, <2>1, <2>2, <4>1, <4>2 DEF StartedSince, Types
    <3> QED
      BY <2>3, <3>1, <3>2
  <2> QED
    BY <2>4, <2>5
<1>5. CASE StopIdle
  <2>1. UNCHANGED <<busy, idle, working, cpu, lock>> /\ check' = At("none")
    BY <1>5, <1>b DEF StopIdle, activity
  <2>2. /\ up' \in BOOLEAN /\ session' \in BOOLEAN /\ flow' \in {0, flow}
        /\ deaf' \in BOOLEAN
        /\ req' \in [Requests -> {"out", "asking", "using", "cut"}]
        /\ Open' = Open /\ Inside'
    <3>1. CASE up /\ Idle
      <4>1. VmStops
        BY <1>5, <3>1 DEF StopIdle
      <4>2. up' \in BOOLEAN /\ session' \in BOOLEAN /\ deaf' \in BOOLEAN
        BY <4>1 DEF VmStops
      <4>3. /\ flow' = 0 /\ session' = FALSE /\ Open' = Open
            /\ req' \in [Requests -> {"out", "asking", "using", "cut"}]
            /\ \A r \in Requests : req'[r] # "using"
        BY <4>1, StopsCutOff DEF VmStops
      <4> QED
        BY <4>2, <4>3 DEF Inside
    <3>2. CASE ~(up /\ Idle)
      BY <1>5, <3>2 DEF StopIdle, Inside, Types, Open, guest
    <3> QED
      BY <3>1, <3>2
  <2>3. Types' /\ InTime'
    BY <1>a, <2>1, <2>2, LongestFlow DEF Types, InTime, Limit
  <2> QED
    BY <1>a, <2>1, <2>2, <2>3 DEF StartedSince, Listed
<1> QED
  BY <1>1, <1>2, <1>3, <1>4, <1>5 DEF Check

\* Time passes for the clock and for the check alike.
LEMMA TickStep == ASSUME IndInv, Tick PROVE IndInv'
<1> USE IdleParkAssumption DEF IndInv
<1>1. /\ UNCHANGED <<busy, working, cpu, lock, up, req, session, deaf>>
      /\ idle' = IF idle < After THEN idle + 1 ELSE idle
      /\ flow' = IF flow > 0 THEN flow - 1 ELSE 0
      /\ check' = [check EXCEPT !.spent = IF check.pc = "none" THEN 0 ELSE @ + 1]
      /\ check.pc # "none" => check.spent < Limit(check.pc)
  BY DEF Tick, sandbox
<1>2. /\ check' \in Checks /\ check'.pc = check.pc /\ check'.running = check.running
      /\ check'.spent = IF check.pc = "none" THEN 0 ELSE check.spent + 1
      /\ check.spent \in Nat
  BY <1>1 DEF Types, Checks
<1>3. Types'
  BY <1>1, <1>2, LongestFlow DEF Types, Open
<1>4. InTime'
  BY <1>1, <1>2 DEF InTime, Limit
<1>5. Inside'
  BY <1>1 DEF Inside, Types
<1>6. StartedSince'
  <2> SUFFICES ASSUME session, Listed' PROVE busy > 0 \/ idle' <= Since'
    BY <1>1 DEF StartedSince
  <2>1. Listed /\ check.pc # "none"
    BY <1>2 DEF Listed
  <2>2. Since' = Since + 1
    BY <1>2, <2>1 DEF Since
  <2>3. Since \in Nat
    BY SinceType
  <2> QED
    BY <1>1, <2>1, <2>2, <2>3 DEF StartedSince, Types
<1> QED
  BY <1>3, <1>4, <1>5, <1>6

\* Every step keeps the invariant.
LEMMA NextIndInv == IndInv /\ [Next]_vars => IndInv'
<1> SUFFICES ASSUME IndInv, [Next]_vars PROVE IndInv'
  OBVIOUS
<1>1. CASE UNCHANGED vars
  BY <1>1 DEF vars, activity, sandbox, guest, IndInv, Types, Open, InTime, Limit, Inside,
              StartedSince, Listed, Since
<1> QED
  BY <1>1, RequestSteps, GuestSteps, WatchStep, ListStep, CheckSteps, TickStep DEF Next

----------------------------------------------------------------------------
(* The theorems.                                                           *)

\* A VM that goes down as the last step of a check went down by stop_idle,
\* which found it idle with the lock held.
LEMMA ParksByStopIdle ==
  ASSUME IndInv, Next, Parks
  PROVE  StopIdle /\ Idle
<1>1. check.pc = "stop" /\ check'.pc = "none" /\ up /\ ~up'
  BY DEF Parks
<1>2. ASSUME NEW r \in Requests PROVE ~(Busy(r) \/ Guest(r) \/ BusyDrop(r) \/ SessionStarts(r))
  BY <1>1 DEF Busy, Guest, BusyDrop, SessionStarts, sandbox
<1>3. ~(SessionEnds \/ Spends \/ Sends(WaitLimit) \/ Sends(After) \/ Deafens \/ Holds \/ LetsGo)
  BY <1>1 DEF SessionEnds, Spends, Sends, Deafens, Holds, LetsGo, sandbox
<1>4. ~Exits
  BY <1>1 DEF Exits, IndInv, Types, Checks
<1>5. ~(Watch \/ GuestLists \/ Tick)
  BY <1>1 DEF Watch, GuestLists, Tick, sandbox
<1>6. ~(CheckStarts \/ CheckHearsSessions \/ CheckAsksNetd \/ CheckHearsFlows)
  BY <1>1 DEF CheckStarts, CheckHearsSessions, CheckAsksNetd, CheckHearsFlows
<1>7. StopIdle
  BY <1>2, <1>3, <1>4, <1>5, <1>6 DEF Next, Check
<1> QED
  BY <1>1, <1>7 DEF StopIdle

\* Every variable keeps its type, busy counts the open requests, and no step
\* of a check takes longer than its limit.
THEOREM TypeCorrect == Spec => []TypeOK
<1>1. IndInv => TypeOK
  BY IdleParkAssumption, LongestFlow
     DEF IndInv, Types, Open, Checks, InTime, Inside, TypeOK
<1> QED
  BY <1>1, InitIndInv, NextIndInv, PTL DEF Spec

\* For any number of requests and any timeouts, a park never cuts off a
\* request: stop_idle looks at the open requests with the lock held, and a
\* request counts before it asks for the guest.
THEOREM RequestsAreSpared == Spec => ParkSparesRequests
<1>1. IndInv /\ [Next]_vars => [SparesRequests]_vars
  <2> SUFFICES ASSUME IndInv, Next, Parks, NEW r \in Requests PROVE req[r] = "out"
    BY DEF SparesRequests
  <2>1. StopIdle /\ Idle
    BY ParksByStopIdle
  <2> QED
    BY <2>1, BusyCounts DEF IndInv, Idle
<1> QED
  BY <1>1, InitIndInv, NextIndInv, PTL DEF Spec, ParkSparesRequests

\* A park never ends a session if --idle-park is longer than a check can take
\* from the guest's answer to the stop: the limits of the two answers and of
\* the two waits for the lock.
THEOREM SessionsAreSpared ==
  After > Poll + NetdLimit + 2 * HoldLimit => (Spec => ParkSparesSessions)
<1> SUFFICES ASSUME After > Poll + NetdLimit + 2 * HoldLimit
             PROVE  Spec => ParkSparesSessions
  OBVIOUS
<1>1. IndInv /\ [Next]_vars => [SparesSessions]_vars
  <2> SUFFICES ASSUME IndInv, Next, Parks, session PROVE FALSE
    BY DEF SparesSessions
  <2>1. StopIdle /\ Idle /\ check.pc = "stop"
    BY ParksByStopIdle DEF StopIdle
  <2>2. Listed /\ Since = check.spent + (Poll + HoldLimit + NetdLimit)
    BY <2>1 DEF Listed, Since
  <2>3. check.spent <= HoldLimit /\ check.spent \in Nat
    BY <2>1 DEF IndInv, InTime, Limit, Types, Checks
  <2>4. busy = 0 /\ idle >= After
    BY <2>1 DEF Idle
  <2>5. idle <= Since
    BY <2>2, <2>4 DEF IndInv, StartedSince
  <2> QED
    BY <2>2, <2>3, <2>4, <2>5, IdleParkAssumption DEF IndInv, Types
<1> QED
  BY <1>1, InitIndInv, NextIndInv, PTL DEF Spec, ParkSparesSessions
=============================================================================
