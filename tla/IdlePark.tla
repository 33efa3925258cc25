------------------------------ MODULE IdlePark ------------------------------
(***************************************************************************)
(* Idle park of one sandbox: Activity, watch and check of                  *)
(* crates/shuru-node/src/serve/idle.rs with Node::stop_idle of             *)
(* sandboxes.rs, next to the requests that use the guest, the requests     *)
(* that only hold the lock on its VM, and the guest.                       *)
(*                                                                         *)
(* Time is in ticks, and instants are kept as ages, which stop growing     *)
(* once nothing tells them apart.                                          *)
(***************************************************************************)
EXTENDS Integers, FiniteSets, FiniteSetsExt

CONSTANTS
  Requests,   \* requests and upgraded connections that use the guest
  After,      \* --idle-park
  Poll,       \* SESSION_POLL
  NetdLimit,  \* NETD_TIMEOUT
  WaitLimit,  \* WAIT_LIMIT
  HoldLimit   \* the longest the lock on the VM is waited for

ASSUME IdleParkAssumption ==
  /\ IsFiniteSet(Requests)
  /\ After \in Nat \ {0} /\ WaitLimit \in Nat
  /\ Poll \in Nat /\ NetdLimit \in Nat /\ HoldLimit \in Nat

VARIABLES
  \* State of Activity.
  busy,       \* requests open
  idle,       \* age of idle_since, up to After
  working,
  cpu,        \* "none" before the first reading, then whether the VM spent
              \* BUSY_CPU since: "quiet" or "busy"
  \* The check under way, whose `checking` holds off the next.
  check,      \* where it is, for how long, what the guest answered, and
              \* whether the VM it asks has gone
  \* The sandbox.
  lock,       \* Entry::vm is locked by a request that leaves the VM be
  up,         \* the VM runs
  req,        \* per request: "out", "asking" for the guest, "using" it, or
              \* "cut" off by a stop
  \* The guest (external).
  session,    \* an exec session is active
  flow,       \* how long its connections still count as in use
  deaf        \* the guest and netd do not answer

activity == <<busy, idle, working, cpu>>
sandbox == <<lock, up, req>>
guest == <<session, flow, deaf>>
vars == <<activity, check, sandbox, guest>>

NoCheck == [pc |-> "none", spent |-> 0, running |-> "unknown", gone |-> FALSE]

Init ==
  /\ busy = 0 /\ idle = 0 /\ working = FALSE /\ cpu = "none"
  /\ check = NoCheck
  /\ lock = FALSE /\ up = FALSE /\ req = [r \in Requests |-> "out"]
  /\ session = FALSE /\ flow = 0 /\ deaf = FALSE

----------------------------------------------------------------------------
(* Requests that use the guest                                             *)

\* Mutant: the request counts once it has the guest.
BusyLate(r) ==
  /\ req[r] = "out" /\ req' = [req EXCEPT ![r] = "asking"]
  /\ UNCHANGED <<activity, check, lock, up, guest>>

\* route: Activity::busy before anything else.
Busy(r) ==
  /\ req[r] = "out" /\ req' = [req EXCEPT ![r] = "asking"]
  /\ busy' = busy + 1
  /\ UNCHANGED <<idle, working, cpu, check, lock, up, guest>>

\* Node::guest: the guest that runs, or one booted for the request, which
\* restarts the clock.
Guest(r) ==
  /\ req[r] = "asking" /\ ~lock
  /\ req' = [req EXCEPT ![r] = "using"]
  /\ up' = TRUE
  /\ IF up THEN UNCHANGED <<idle, working, cpu>>
     ELSE idle' = 0 /\ working' = FALSE /\ cpu' = "none"
  /\ UNCHANGED <<busy, check, lock, guest>>

\* Mutant: the clock goes on from before the request.
BusyDropKeepsClock(r) ==
  /\ req[r] # "out" /\ req' = [req EXCEPT ![r] = "out"]
  /\ busy' = busy - 1
  /\ UNCHANGED <<idle, working, cpu, check, lock, up, guest>>

\* Its Busy is dropped, whatever became of it.
BusyDrop(r) ==
  /\ req[r] # "out" /\ req' = [req EXCEPT ![r] = "out"]
  /\ busy' = busy - 1
  /\ idle' = IF busy = 1 THEN 0 ELSE idle
  /\ UNCHANGED <<working, cpu, check, lock, up, guest>>

----------------------------------------------------------------------------
(* The sandbox and its guest (external but for the lock)                   *)

SessionStarts(r) ==
  /\ req[r] = "using" /\ ~session /\ session' = TRUE
  /\ UNCHANGED <<activity, check, sandbox, flow, deaf>>

SessionEnds ==
  /\ session /\ session' = FALSE
  /\ UNCHANGED <<activity, check, sandbox, flow, deaf>>

Spends ==
  /\ up /\ cpu = "quiet" /\ cpu' = "busy"
  /\ UNCHANGED <<busy, idle, working, check, sandbox, guest>>

\* The guest sends on a connection it opened, or the remote does (in_use).
Sends(span) ==
  /\ up /\ flow < span /\ flow' = span
  /\ UNCHANGED <<activity, check, sandbox, session, deaf>>

Deafens ==
  /\ deaf' = ~deaf
  /\ UNCHANGED <<activity, check, sandbox, session, flow>>

VmStops ==
  /\ up' = FALSE
  /\ session' = FALSE /\ flow' = 0 /\ deaf' = FALSE
  /\ req' = [r \in Requests |-> IF req[r] = "using" THEN "cut" ELSE req[r]]

\* The VM exits by itself, or a request that takes the lock stops it (stop,
\* park, restore, delete).
Exits ==
  /\ up /\ VmStops
  /\ check' = [check EXCEPT !.gone = check.pc # "none"]
  /\ UNCHANGED <<activity, lock>>

\* usage, config or checkpoint holds the lock on a running VM.
Holds ==
  /\ up /\ ~lock /\ lock' = TRUE
  /\ UNCHANGED <<activity, check, up, req, guest>>

LetsGo ==
  /\ lock /\ lock' = FALSE
  /\ UNCHANGED <<activity, check, up, req, guest>>

----------------------------------------------------------------------------
(* watch                                                                   *)

\* due: a look every Poll while there is work, else once idle for After.
Due(age) ==
  /\ check.pc = "none" /\ busy = 0
  /\ age >= IF working THEN Min({Poll, After}) ELSE After

\* One tick over a running sandbox: saw_cpu, unless the lock is taken, then
\* due.
Watch ==
  LET read == ~lock
      age == IF read /\ cpu = "busy" THEN 0 ELSE idle
  IN
  /\ up
  /\ idle' = age /\ cpu' = IF read THEN "quiet" ELSE cpu
  /\ check' = IF Due(age) THEN [NoCheck EXCEPT !.pc = "guest"] ELSE check
  /\ UNCHANGED <<busy, working, sandbox, guest>>

----------------------------------------------------------------------------
(* check                                                                   *)

At(pc) == [NoCheck EXCEPT !.pc = pc]

\* Mutant: work once seen is not forgotten.
SawWorkSticks(found) ==
  /\ working' = (working \/ found)
  /\ idle' = IF found THEN 0 ELSE idle
  /\ UNCHANGED <<busy, cpu>>

saw_work(found) ==
  /\ working' = found
  /\ idle' = IF found THEN 0 ELSE idle
  /\ UNCHANGED <<busy, cpu>>

\* guest_if_running.
CheckStarts ==
  /\ check.pc = "guest" /\ ~lock
  /\ check' = IF up THEN At("sessions") ELSE NoCheck
  /\ UNCHANGED <<activity, sandbox, guest>>

\* The guest lists its sessions; its answer may take a while yet (external).
GuestLists ==
  /\ check.pc = "sessions" /\ check.running = "unknown"
  /\ up /\ ~check.gone /\ ~deaf
  /\ check' = [check EXCEPT !.running = IF session THEN "yes" ELSE "no"]
  /\ UNCHANGED <<activity, sandbox, guest>>

\* No answer in time, or an error, counts as in use.
CheckHearsSessions ==
  /\ check.pc = "sessions"
  /\ check.running # "unknown" \/ deaf \/ check.gone
  /\ IF check.running = "no" THEN check' = At("netd") /\ UNCHANGED activity
     ELSE check' = NoCheck /\ saw_work(TRUE)
  /\ UNCHANGED <<sandbox, guest>>

\* netd_if_running: a VM that has gone has no connections.
CheckAsksNetd ==
  /\ check.pc = "netd" /\ ~lock
  /\ IF up THEN check' = At("flows") /\ UNCHANGED activity
     ELSE check' = At("stop") /\ saw_work(FALSE)
  /\ UNCHANGED <<sandbox, guest>>

CheckHearsFlows ==
  LET found == flow > 0 \/ deaf \/ check.gone IN
  /\ check.pc = "flows"
  /\ check' = IF found THEN NoCheck ELSE At("stop")
  /\ saw_work(found)
  /\ UNCHANGED <<sandbox, guest>>

\* Mutant: idle without the look at the open requests.
IdleByClock == ~working /\ idle >= After

\* Activity::idle.
Idle == busy = 0 /\ ~working /\ idle >= After

\* stop_idle looks again with the lock held.
StopIdle ==
  /\ check.pc = "stop" /\ ~lock
  /\ IF up /\ Idle THEN VmStops ELSE UNCHANGED <<up, req, guest>>
  /\ check' = NoCheck
  /\ UNCHANGED <<activity, lock>>

Check ==
  CheckStarts \/ CheckHearsSessions \/ CheckAsksNetd \/ CheckHearsFlows
    \/ StopIdle

----------------------------------------------------------------------------
\* How long the check may stay where it is: an answer or a timeout comes, or
\* the lock, which is fair.  A lock that is free is taken at once.
Limit(pc) == CASE pc = "sessions" -> Poll
               [] pc = "flows"    -> NetdLimit
               [] OTHER           -> HoldLimit

Tick ==
  /\ check.pc # "none" => check.spent < Limit(check.pc)
  /\ check.pc \in {"guest", "netd", "stop"} => lock
  /\ idle' = IF idle < After THEN idle + 1 ELSE idle
  /\ flow' = IF flow > 0 THEN flow - 1 ELSE 0
  /\ check' = [check EXCEPT !.spent = IF check.pc = "none" THEN 0 ELSE @ + 1]
  /\ UNCHANGED <<busy, working, cpu, sandbox, session, deaf>>

Next ==
  \/ \E r \in Requests :
       Busy(r) \/ Guest(r) \/ BusyDrop(r) \/ SessionStarts(r)
  \/ SessionEnds \/ Spends \/ Sends(WaitLimit) \/ Sends(After) \/ Deafens
  \/ Exits \/ Holds \/ LetsGo \/ Watch \/ GuestLists \/ Check \/ Tick

Spec == Init /\ [][Next]_vars

\* Time passes, watch ticks, a guest that can answers, a request that holds
\* the lock lets go of it, and the check gets the lock in its turn (tokio's
\* Mutex is fair).
Fairness ==
  /\ WF_vars(Tick) /\ WF_vars(Watch) /\ WF_vars(GuestLists)
  /\ WF_vars(LetsGo) /\ SF_vars(Check)

FairSpec == Spec /\ Fairness

----------------------------------------------------------------------------
(* Properties                                                              *)

\* The values each variable takes; busy counts the requests that are open.
TypeOK ==
  /\ busy = Cardinality({r \in Requests : req[r] # "out"})
  /\ idle \in 0..After /\ working \in BOOLEAN
  /\ cpu \in {"none", "quiet", "busy"}
  /\ check \in [pc : {"none", "guest", "sessions", "netd", "flows", "stop"},
                spent : Nat, running : {"unknown", "yes", "no"},
                gone : BOOLEAN]
  /\ check.spent <= Limit(check.pc)
  /\ lock \in BOOLEAN /\ up \in BOOLEAN
  /\ req \in [Requests -> {"out", "asking", "using", "cut"}]
  /\ session \in BOOLEAN /\ flow \in 0..Max({After, WaitLimit})
  /\ deaf \in BOOLEAN
  /\ session \/ flow > 0 => up

\* stop_idle stopped the VM.
Parks == check.pc = "stop" /\ check'.pc = "none" /\ up /\ ~up'

\* A park never cuts off a request that has the guest, though it came while
\* the check was under way ("a request that came in meanwhile keeps it
\* running", stop_idle).
SparesRequests == Parks => \A r \in Requests : req[r] = "out"
ParkSparesRequests == [][SparesRequests]_vars

\* A park never ends a session, though no client is attached to it and it
\* started after the guest was asked (check: "so a busy guest does not lose
\* its work").
SparesSessions == Parks => ~session
ParkSparesSessions == [][SparesSessions]_vars

Quiet ==
  /\ \A r \in Requests : req[r] = "out"
  /\ ~session /\ cpu # "busy" /\ flow = 0 /\ ~deaf

\* A sandbox nothing uses any more is stopped.
QuietIsParked == <>[]Quiet => <>[]~up
=============================================================================
