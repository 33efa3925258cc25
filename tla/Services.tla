------------------------------ MODULE Services ------------------------------
(***************************************************************************)
(* The guest services: how they are started, watched until ready,          *)
(* restarted, how commands wait for them, and how a shutdown stops them    *)
(* (crates/shuru-guest/src/services.rs). REGISTRY is a mutex, so what is   *)
(* done under it is one step; a watcher or a restart holds it only for     *)
(* the step that changes a state. A service is [s, run]: its run counts    *)
(* the processes it has had.                                               *)
(***************************************************************************)
EXTENDS Naturals, FiniteSets

CONSTANTS
  Plain, Restarted,        \* services with Restart::No and Restart::Always
  Probes,                  \* choices of the services with a ready check
  MaxRuns                  \* bound on the processes a service has

VARIABLES
  probed,                  \* the services with a ready check
  begun, shutting,         \* Registry
  svc,                     \* state, run, ever_ready and gate_until passed
  proc,                    \* of each service and run: see Procs
  watches,                 \* watch_until_ready threads: [s, run, at]
  timers,                  \* services with a restart_after thread
  command,                 \* one exec: "none", "waiting", "ran" or "refused"
  stop                     \* shutdown: the targets it has left, and where it is

vars == <<probed, begun, shutting, svc, proc, watches, timers, command, stop>>

Names == Plain \cup Restarted
\* "set" is an exit that is known to its watchers and yet to be recorded.
Procs == {"none", "alive", "zombie", "set", "gone"}
Running(s) == \E r \in 1 .. MaxRuns : proc[s][r] = "alive"

-----------------------------------------------------------------------------
\* Who spawns starts a process, or fails to.
Spawned(s, sv) == [sv EXCEPT ![s].state = "Starting", ![s].run = @ + 1]
Failed(s, sv) == [sv EXCEPT ![s].state = IF s \in Restarted THEN "Restarting" ELSE "Failed"]

\* start_all: by the host's env, or by start_after_wait once HOST_ENV_WAIT
\* has passed; only the first starts anything.
StartAll ==
  /\ ~begun /\ begun' = TRUE
  /\ \E ok \in SUBSET Names :
       LET up == IF shutting THEN {} ELSE ok IN
       /\ svc' = [s \in Names |->
            IF shutting THEN svc[s] ELSE IF s \in ok THEN Spawned(s, svc)[s] ELSE Failed(s, svc)[s]]
       /\ proc' = [s \in Names |-> IF s \in up THEN [proc[s] EXCEPT ![1] = "alive"] ELSE proc[s]]
       /\ watches' = {[s |-> s, run |-> 1, at |-> "check"] : s \in up}
       /\ timers' = IF shutting THEN {} ELSE Restarted \ ok
  /\ UNCHANGED <<probed, shutting, command, stop>>

-----------------------------------------------------------------------------
(* watch_until_ready                                                       *)

Move(w, at) == watches' = (watches \ {w}) \cup {[w EXCEPT !.at = at]}
Exited(w) == proc[w.s][w.run] \in {"set", "gone"}

\* set_state
SetState(s, state) ==
  svc' = IF svc[s].state = "Stopped" \/ (state = "Ready" /\ svc[s].state # "Starting") THEN svc
         ELSE [svc EXCEPT ![s].state = state, ![s].ever = @ \/ state = "Ready"]

\* The check of the exit, before and after the probe, or after READY_SETTLE
\* for a service without one.
Watch(w) ==
  /\ w.at = "check"
  /\ \/ Exited(w) /\ watches' = watches \ {w}
     \/ ~Exited(w) /\ w.s \in probed /\ Move(w, "probe")
     \/ ~Exited(w) /\ w.s \notin probed /\ Move(w, "ready")
  /\ UNCHANGED <<probed, begun, shutting, svc, proc, timers, command, stop>>

\* The probe passes, fails before the deadline, or fails at it.
Probe(w) ==
  /\ w.at = "probe"
  /\ \/ Exited(w) /\ watches' = watches \ {w}
     \/ ~Exited(w) /\ \E at \in {"ready", "check", "late"} : Move(w, at)
  /\ UNCHANGED <<probed, begun, shutting, svc, proc, timers, command, stop>>

\* The end of the watch. The exit was looked at in the step before.
Judge(w) ==
  /\ w.at \in {"ready", "late"} /\ watches' = watches \ {w}
  /\ SetState(w.s, IF w.at = "ready" \/ w.s \in Restarted THEN "Ready" ELSE "Failed")
  /\ UNCHANGED <<probed, begun, shutting, proc, timers, command, stop>>

-----------------------------------------------------------------------------
(* Exits                                                                   *)

\* A process exits by itself, or by the signals of a shutdown; the last run
\* the bound allows exits only in a shutdown.
Dies(s, r) ==
  /\ proc[s][r] = "alive" /\ (s \in Plain \/ r < MaxRuns \/ shutting)
  /\ proc' = [proc EXCEPT ![s][r] = "zombie"]
  /\ UNCHANGED <<probed, begun, shutting, svc, watches, timers, command, stop>>

\* The reaper: status.set of on_exit
Reap(s, r) ==
  /\ proc[s][r] = "zombie"
  /\ proc' = [proc EXCEPT ![s][r] = "set"]
  /\ UNCHANGED <<probed, begun, shutting, svc, watches, timers, command, stop>>

\* record_exit of on_exit
RecordExit(s, r) ==
  /\ proc[s][r] = "set"
  /\ proc' = [proc EXCEPT ![s][r] = "gone"]
  /\ IF shutting \/ svc[s].state \notin {"Starting", "Ready"} THEN UNCHANGED <<svc, timers>>
     ELSE /\ svc' = Failed(s, svc)
          /\ timers' = IF s \in Restarted THEN timers \cup {s} ELSE timers
  /\ UNCHANGED <<probed, begun, shutting, watches, command, stop>>

\* respawn, after the delay: nothing once a shutdown has begun.
\* Mutant: a restart does not look at shutting_down.
RespawnGateOpen(s) == svc[s].state = "Restarting"
RespawnGate(s) == ~shutting /\ svc[s].state = "Restarting"
Respawn(s) ==
  /\ s \in timers
  /\ \/ /\ RespawnGate(s) /\ svc[s].run < MaxRuns
        /\ svc' = Spawned(s, svc) /\ timers' = timers \ {s}
        /\ proc' = [proc EXCEPT ![s][svc[s].run + 1] = "alive"]
        /\ watches' = watches \cup {[s |-> s, run |-> svc[s].run + 1, at |-> "check"]}
     \/ /\ RespawnGate(s)          \* the spawn failed, and is retried
        /\ UNCHANGED <<svc, timers, proc, watches>>
     \/ /\ ~RespawnGate(s)
        /\ timers' = timers \ {s} /\ UNCHANGED <<svc, proc, watches>>
  /\ UNCHANGED <<probed, begun, shutting, command, stop>>

-----------------------------------------------------------------------------
(* Commands                                                                *)

GatePasses(s) ==           \* gate_until
  /\ s \in Restarted /\ begun /\ ~svc[s].late /\ svc' = [svc EXCEPT ![s].late = TRUE]
  /\ UNCHANGED <<probed, begun, shutting, proc, watches, timers, command, stop>>

Holds(s) ==
  IF s \in Plain THEN svc[s].state = "Starting"
  ELSE ~svc[s].ever /\ ~svc[s].late /\ svc[s].state \in {"Starting", "Restarting"}

\* wait_ready reaps, in a step of the reaper, and then decides.
Exec ==
  /\ command = "none" /\ command' = "waiting"
  /\ UNCHANGED <<probed, begun, shutting, svc, proc, watches, timers, stop>>
WaitReady ==
  /\ command = "waiting"
  /\ \/ shutting /\ command' = "refused"
     \/ /\ ~shutting /\ begun /\ \A s \in Names : ~Holds(s)
        /\ command' = IF \E s \in Plain : svc[s].state = "Failed" THEN "refused" ELSE "ran"
  /\ UNCHANGED <<probed, begun, shutting, svc, proc, watches, timers, stop>>

-----------------------------------------------------------------------------
(* shutdown                                                                *)

\* The services running at this moment, to be sent SIGTERM.
Targets == {s \in Names : svc[s].state \in {"Starting", "Ready"} /\ svc[s].run > 0}
Shutdown ==
  /\ stop.at = "none" /\ shutting' = TRUE
  /\ stop' = [at |-> "wait", left |-> Targets, of |-> Targets]
  /\ UNCHANGED <<probed, begun, svc, proc, watches, timers, command>>

\* A target has exited, or its stop_timeout has passed and it is killed; its
\* exit is waited for a second only.
Stopped(s) ==
  /\ stop.at = "wait" /\ s \in stop.left
  /\ stop' = [stop EXCEPT !.left = @ \ {s}]
  /\ \/ proc[s][svc[s].run] \in {"set", "gone"} /\ UNCHANGED proc
     \/ /\ proc[s][svc[s].run] \in {"alive", "zombie"}
        /\ proc' = [proc EXCEPT ![s][svc[s].run] = "zombie"]
  /\ UNCHANGED <<probed, begun, shutting, svc, watches, timers, command>>
ShutdownEnds ==
  /\ stop.at = "wait" /\ stop.left = {}
  /\ stop' = [stop EXCEPT !.at = "done"]
  /\ svc' = [s \in Names |-> IF s \in stop.of THEN [svc[s] EXCEPT !.state = "Stopped"] ELSE svc[s]]
  /\ UNCHANGED <<probed, begun, shutting, proc, watches, timers, command>>

-----------------------------------------------------------------------------
Init ==
  /\ probed \in Probes /\ begun = FALSE /\ shutting = FALSE
  /\ svc = [s \in Names |-> [state |-> "none", run |-> 0, ever |-> FALSE, late |-> FALSE]]
  /\ proc = [s \in Names |-> [r \in 1 .. MaxRuns |-> "none"]]
  /\ watches = {} /\ timers = {} /\ command = "none"
  /\ stop = [at |-> "none", left |-> {}, of |-> {}]

Next ==
  \/ StartAll \/ Exec \/ WaitReady \/ Shutdown \/ ShutdownEnds
  \/ \E w \in watches : Watch(w) \/ Probe(w) \/ Judge(w)
  \/ \E s \in Names : Respawn(s) \/ GatePasses(s) \/ Stopped(s)
  \/ \E s \in Names, r \in 1 .. MaxRuns : Dies(s, r) \/ Reap(s, r) \/ RecordExit(s, r)

Spec == Init /\ [][Next]_vars

-----------------------------------------------------------------------------
\* A service never has two processes: one is started only when the one
\* before it has been recorded (record_exit, respawn).
OneRun ==
  \A s \in Names : \A r \in 1 .. MaxRuns :
    proc[s][r] \in {"alive", "zombie", "set"} => r = svc[s].run

\* A service that died is not forgotten: while it is thought to run, its
\* process does or its exit is on the way, and one that waits to restart has
\* a restart coming (record_exit, restart_after).
DeathIsSeen ==
  ~shutting => \A s \in Names :
    /\ svc[s].state \in {"Starting", "Ready"} =>
         proc[s][svc[s].run] \in {"alive", "zombie", "set"}
    /\ svc[s].state = "Restarting" => s \in timers

\* A shutdown that has ended left no process of a service that was running or
\* ready, nor one that was to restart (shutdown, respawn).
StoppedStays ==
  stop.at = "done" => \A s \in Names : Running(s) => svc[s].state = "Failed"

\* Nothing commands wait for is without a thread that will end the wait: a
\* starting service that holds them is watched or its exit is on the way.
HoldsAreWatched ==
  ~shutting /\ begun => \A s \in Names :
    Holds(s) => \/ \E w \in watches : w.s = s /\ w.run = svc[s].run
                \/ s \in timers \/ proc[s][svc[s].run] = "set"

ServicesSafe == OneRun /\ DeathIsSeen /\ StoppedStays /\ HoldsAreWatched

\* A shutdown leaves no service running.  Violated: one that is Failed, for its
\* ready check timed out, is not among the targets and keeps its process.
ShutdownStopsEvery == stop.at = "done" => \A s \in Names : ~Running(s)

\* Nothing but the watch of a run, or the ready timeout, makes it ready.
\* Violated: the watch of the run before may still be there to do it.
JudgedByOwn ==
  \A w \in watches : w.at = "ready" /\ svc[w.s].state = "Starting" => w.run = svc[w.s].run
=============================================================================
