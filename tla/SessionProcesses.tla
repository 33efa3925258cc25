-------------------------- MODULE SessionProcesses --------------------------
(***************************************************************************)
(* The processes behind the exec sessions of the guest agent: how many may *)
(* run, how they are spawned, registered and reaped, how their exits reach *)
(* the session loop, how they are killed, and what becomes of the cgroups  *)
(* (crates/shuru-guest/src/sessions/mod.rs, process.rs, event_loop.rs,     *)
(* children.rs and cgroup.rs). A session is the number its start drew      *)
(* from NEXT_ID, which also stands for the serial of its child.            *)
(***************************************************************************)
EXTENDS Naturals, Sequences, FiniteSets, FiniteSetsExt, SequencesExt

CONSTANTS Sessions, Pids,
  Limits,                  \* values of MAX_RUNNING
  MaxKills, MaxAsks        \* MAX_KILLS, and a bound on the kills asked for

VARIABLES
  limit, running,          \* RUNNING
  starter,                 \* where the connection thread of each start is
  proc, pid,               \* "none", "alive", "zombie" or "reaped"; its pid
  orphan,                  \* sessions with a descendant of the process alive
  streams,                 \* sessions whose output somebody still holds open
  watched,                 \* WATCHED: pid -> the child registered for it, or 0
  exits,                   \* reaped, their on_exit still to be called
  cmds,                    \* Handle::queue
  table, exit,             \* "none", "live", "finished" or "gone"; exit known
  early,                   \* early_exits
  kills, asks,             \* KillWaits of each session; answers, one per ask
  reap_pending, pidfd,     \* sessions whose pidfd is still watched
  dirs, stale,             \* cgroups that exist; those dropped while populated
  hit                      \* a child signalled on behalf of another

vars == <<limit, running, starter, proc, pid, orphan, streams, watched, exits, cmds,
          table, exit, early, kills, asks, reap_pending, pidfd, dirs, stale, hit>>

\* WATCHED is held through a spawn.
LockFree == \A i \in Sessions : starter[i] # "spawning"
Populated(i) == proc[i] = "alive" \/ i \in orphan

-----------------------------------------------------------------------------
(* sessions::start, on a thread of its own.                                *)

Reserve(i) ==
  /\ starter[i] = "none" /\ \A j \in Sessions : j < i => starter[j] # "none"
  /\ IF running < limit
     THEN /\ running' = running + 1
          /\ \/ starter' = [starter EXCEPT ![i] = "cgroup"] /\ dirs' = dirs \cup {i}
             \/ starter' = [starter EXCEPT ![i] = "unreserve"] /\ UNCHANGED dirs
     ELSE starter' = [starter EXCEPT ![i] = "refused"] /\ UNCHANGED <<running, dirs>>
  /\ UNCHANGED <<limit, proc, pid, orphan, streams, watched, exits, cmds, table,
                 exit, early, kills, asks, reap_pending, pidfd, stale, hit>>

Release(i) ==
  /\ starter[i] = "unreserve" /\ starter' = [starter EXCEPT ![i] = "refused"]
  /\ running' = running - 1
  /\ UNCHANGED <<limit, proc, pid, orphan, streams, watched, exits, cmds, table,
                 exit, early, kills, asks, reap_pending, pidfd, dirs, stale, hit>>

TakeLock(i) ==
  /\ starter[i] = "cgroup" /\ LockFree
  /\ starter' = [starter EXCEPT ![i] = "spawning"]
  /\ UNCHANGED <<limit, running, proc, pid, orphan, streams, watched, exits, cmds, table,
                 exit, early, kills, asks, reap_pending, pidfd, dirs, stale, hit>>

\* children::spawn: the child is registered before the lock is let go.
Spawn(i) ==
  /\ starter[i] = "spawning"
  /\ \E p \in Pids \ {pid[j] : j \in {j \in Sessions : proc[j] \in {"alive", "zombie"}}} :
       /\ pid' = [pid EXCEPT ![i] = p]
       /\ proc' = [proc EXCEPT ![i] = "alive"]
       /\ watched' = [watched EXCEPT ![p] = i]
  /\ streams' = streams \cup {i}
  /\ starter' = [starter EXCEPT ![i] = "post"]
  /\ UNCHANGED <<limit, running, orphan, exits, cmds, table, exit, early, kills, asks,
                 reap_pending, pidfd, dirs, stale, hit>>

\* The spawn fails, or what follows it: the cgroup is killed and dropped,
\* which leaves it stale while a process is in it.
SpawnFails(i) ==
  /\ starter[i] \in {"spawning", "post"} /\ starter' = [starter EXCEPT ![i] = "unreserve"]
  /\ IF Populated(i) THEN stale' = stale \cup {i} /\ UNCHANGED dirs
     ELSE dirs' = dirs \ {i} /\ UNCHANGED stale
  /\ streams' = streams \ {i}
  /\ UNCHANGED <<limit, running, proc, pid, orphan, watched, exits, cmds, table, exit,
                 early, kills, asks, reap_pending, pidfd, hit>>

PostStart(i) ==
  /\ starter[i] = "post" /\ starter' = [starter EXCEPT ![i] = "done"]
  /\ cmds' = Append(cmds, <<"Start", i>>)
  /\ UNCHANGED <<limit, running, proc, pid, orphan, streams, watched, exits, table,
                 exit, early, kills, asks, reap_pending, pidfd, dirs, stale, hit>>

-----------------------------------------------------------------------------
(* children.rs                                                             *)

Reaped(zs) ==
  /\ proc' = [i \in Sessions |-> IF i \in zs THEN "reaped" ELSE proc[i]]
  /\ exits' = exits \cup {i \in zs : \E p \in Pids : watched[p] = i}
  /\ watched' = [p \in Pids |-> IF watched[p] \in zs THEN 0 ELSE watched[p]]

\* reap_all of the reaper, and retry_stale behind it
Reaper ==
  /\ LockFree
  /\ \/ \E i \in Sessions : proc[i] = "zombie"
     \/ \E i \in stale : ~Populated(i)
  /\ Reaped({i \in Sessions : proc[i] = "zombie"})
  /\ dirs' = dirs \ {i \in stale : ~Populated(i)}
  /\ stale' = {i \in stale : Populated(i)}
  /\ UNCHANGED <<limit, running, starter, pid, orphan, streams, cmds, table, exit, early,
                 kills, asks, reap_pending, pidfd, hit>>

\* reap_watched, of the session loop, which never waits for the lock: while
\* a spawn holds it, or for a moment the reaper or a signal, nothing is reaped
\* and the loop is to come back.
\* Mutant: the loop takes the reap for done.
ReapsForgetful ==
  \E locked \in {TRUE, ~LockFree} :
    /\ reap_pending' = FALSE
    /\ IF locked THEN UNCHANGED <<proc, exits, watched>>
       ELSE Reaped({i \in Sessions : proc[i] = "zombie" /\ \E p \in Pids : watched[p] = i})
Reaps ==
  \E locked \in {TRUE, ~LockFree} :
    /\ reap_pending' = locked
    /\ IF locked THEN UNCHANGED <<proc, exits, watched>>
       ELSE Reaped({i \in Sessions : proc[i] = "zombie" /\ \E p \in Pids : watched[p] = i})

\* A pidfd turned readable: it is taken off watch whether or not the reap
\* got at the process.
PidfdReadable(i) ==
  /\ i \in pidfd /\ proc[i] # "alive" /\ pidfd' = pidfd \ {i} /\ Reaps
  /\ UNCHANGED <<limit, running, starter, pid, orphan, streams, cmds, table, exit, early,
                 kills, asks, dirs, stale, hit>>

\* timers, while a reap or a kill is pending
LoopReaps ==
  /\ reap_pending \/ \E i \in Sessions : kills[i] # <<>>
  /\ Reaps
  /\ UNCHANGED <<limit, running, starter, pid, orphan, streams, cmds, table, exit, early,
                 kills, asks, pidfd, dirs, stale, hit>>

\* on_exit, called once the lock is let go
OnExit(i) ==
  /\ i \in exits /\ exits' = exits \ {i}
  /\ cmds' = Append(cmds, <<"Exited", i>>)
  /\ UNCHANGED <<limit, running, starter, proc, pid, orphan, streams, watched, table, exit,
                 early, kills, asks, reap_pending, pidfd, dirs, stale, hit>>

\* children::signal, for the holder of the Watch of i
Signal(i) ==
  /\ pid[i] # 0 /\ LockFree
  /\ hit' = (hit \/ /\ watched[pid[i]] = i
                    /\ \E j \in Sessions \ {i} : pid[j] = pid[i] /\ proc[j] \in {"alive", "zombie"})
  /\ UNCHANGED <<limit, running, starter, proc, pid, orphan, streams, watched, exits, cmds,
                 table, exit, early, kills, asks, reap_pending, pidfd, dirs, stale>>

-----------------------------------------------------------------------------
(* The session loop: commands                                              *)

NextIs(c, i) == cmds # <<>> /\ Head(cmds) = <<c, i>>

CmdStart(i) ==
  /\ NextIs("Start", i) /\ cmds' = Tail(cmds)
  /\ table' = [table EXCEPT ![i] = "live"]
  /\ exit' = [exit EXCEPT ![i] = i \in early]
  /\ pidfd' = IF i \in early THEN pidfd ELSE pidfd \cup {i}
  /\ early' = early \ {i}
  /\ UNCHANGED <<limit, running, starter, proc, pid, orphan, streams, watched, exits,
                 kills, asks, reap_pending, dirs, stale, hit>>

\* exited
CmdExited(i) ==
  /\ NextIs("Exited", i) /\ cmds' = Tail(cmds)
  /\ IF table[i] \in {"live", "finished"}
     THEN exit' = [exit EXCEPT ![i] = TRUE] /\ pidfd' = pidfd \ {i} /\ UNCHANGED early
     ELSE early' = early \cup {i} /\ UNCHANGED <<exit, pidfd>>
  /\ UNCHANGED <<limit, running, starter, proc, pid, orphan, streams, watched, exits, table,
                 kills, asks, reap_pending, dirs, stale, hit>>

AskKill(i) ==
  /\ Len(asks) < MaxAsks /\ starter[i] # "none"
  /\ asks' = Append(asks, [of |-> i, said |-> "nothing"])
  /\ cmds' = Append(cmds, <<"Kill", i>>)
  /\ UNCHANGED <<limit, running, starter, proc, pid, orphan, streams, watched, exits, table,
                 exit, early, kills, reap_pending, pidfd, dirs, stale, hit>>

\* The ask the command at the head of cmds belongs to: the oldest without
\* an answer or a wait.
Asked(i) == Min({k \in 1 .. Len(asks) : asks[k].of = i /\ asks[k].said = "nothing"})
Say(k, what) == asks' = [asks EXCEPT ![k].said = what]

\* All the processes of a session are gone, the reaped one included.
\* Mutant: a kill completes with the process, whoever is left in its cgroup.
KillDoneOnExit(i) == exit[i]
KillDone(i) == exit[i] /\ ~Populated(i)

\* Loop::kill
CmdKill(i) ==
  /\ NextIs("Kill", i) /\ cmds' = Tail(cmds)
  /\ \/ /\ \/ table[i] \notin {"live", "finished"}
           \/ ~KillDone(i) /\ Len(kills[i]) >= MaxKills
        /\ Say(Asked(i), "Error") /\ UNCHANGED kills
     \/ /\ table[i] \in {"live", "finished"} /\ KillDone(i)
        /\ Say(Asked(i), "Complete") /\ UNCHANGED kills
     \/ /\ table[i] \in {"live", "finished"} /\ ~KillDone(i)
        /\ Len(kills[i]) < MaxKills
        /\ kills' = [kills EXCEPT ![i] = Append(@, [ask |-> Asked(i), escalated |-> FALSE])]
        /\ Say(Asked(i), "Signal")
  /\ UNCHANGED <<limit, running, starter, proc, pid, orphan, streams, watched, exits, table,
                 exit, early, reap_pending, pidfd, dirs, stale, hit>>

\* timers, on the oldest wait of a session: the deadline has come, or all of
\* its processes are gone.
KillTimer(i) ==
  /\ kills[i] # <<>>
  /\ LET w == Head(kills[i])
         done == KillDone(i)
     IN
     \/ done /\ Say(w.ask, "Complete") /\ kills' = [kills EXCEPT ![i] = Tail(@)]
     \/ /\ ~done /\ ~w.escalated
        /\ Say(w.ask, "Timeout")
        /\ kills' = [kills EXCEPT ![i] = Append(Tail(@), [w EXCEPT !.escalated = TRUE])]
     \/ ~done /\ w.escalated /\ Say(w.ask, "Error") /\ kills' = [kills EXCEPT ![i] = Tail(@)]
  /\ UNCHANGED <<limit, running, starter, proc, pid, orphan, streams, watched, exits, cmds,
                 table, exit, early, reap_pending, pidfd, dirs, stale, hit>>

\* settle: the session is finished and its slot is free.
Finish(i) ==
  /\ table[i] = "live" /\ exit[i] /\ i \notin streams
  /\ table' = [table EXCEPT ![i] = "finished"]
  /\ running' = running - 1
  /\ UNCHANGED <<limit, starter, proc, pid, orphan, streams, watched, exits, cmds, exit,
                 early, kills, asks, reap_pending, pidfd, dirs, stale, hit>>

\* sweep: the session and with it its cgroup are dropped.
Sweep(i) ==
  /\ table[i] = "finished" /\ kills[i] = <<>>
  /\ table' = [table EXCEPT ![i] = "gone"]
  /\ IF Populated(i) THEN stale' = stale \cup {i} /\ UNCHANGED dirs
     ELSE dirs' = dirs \ {i} /\ UNCHANGED stale
  /\ UNCHANGED <<limit, running, starter, proc, pid, orphan, streams, watched, exits, cmds,
                 exit, early, kills, asks, reap_pending, pidfd, hit>>

-----------------------------------------------------------------------------
(* The processes (external): a fork, an exit, output closed.               *)

Fork(i) ==
  /\ proc[i] = "alive" /\ orphan' = orphan \cup {i} /\ i \notin orphan
  /\ UNCHANGED <<limit, running, starter, proc, pid, streams, watched, exits, cmds, table,
                 exit, early, kills, asks, reap_pending, pidfd, dirs, stale, hit>>
Dies(i) ==
  /\ \/ proc[i] = "alive" /\ proc' = [proc EXCEPT ![i] = "zombie"] /\ UNCHANGED orphan
     \/ i \in orphan /\ orphan' = orphan \ {i} /\ UNCHANGED proc
  /\ UNCHANGED <<limit, running, starter, pid, streams, watched, exits, cmds, table, exit,
                 early, kills, asks, reap_pending, pidfd, dirs, stale, hit>>
Closes(i) ==
  /\ i \in streams /\ streams' = streams \ {i}
  /\ UNCHANGED <<limit, running, starter, proc, pid, orphan, watched, exits, cmds, table,
                 exit, early, kills, asks, reap_pending, pidfd, dirs, stale, hit>>

-----------------------------------------------------------------------------
Init ==
  /\ limit \in Limits /\ running = 0
  /\ starter = [i \in Sessions |-> "none"] /\ proc = [i \in Sessions |-> "none"]
  /\ pid = [i \in Sessions |-> 0] /\ orphan = {} /\ streams = {}
  /\ watched = [p \in Pids |-> 0] /\ exits = {} /\ cmds = <<>>
  /\ table = [i \in Sessions |-> "none"] /\ exit = [i \in Sessions |-> FALSE]
  /\ early = {} /\ kills = [i \in Sessions |-> <<>>] /\ asks = <<>>
  /\ reap_pending = FALSE /\ pidfd = {} /\ dirs = {} /\ stale = {} /\ hit = FALSE

Next ==
  \/ Reaper \/ LoopReaps
  \/ \E i \in Sessions :
       \/ Reserve(i) \/ Release(i) \/ TakeLock(i) \/ Spawn(i) \/ SpawnFails(i) \/ PostStart(i)
       \/ PidfdReadable(i) \/ OnExit(i) \/ Signal(i) \/ CmdStart(i) \/ CmdExited(i) \/ CmdKill(i) \/ AskKill(i)
       \/ KillTimer(i) \/ Finish(i) \/ Sweep(i) \/ Fork(i) \/ Dies(i) \/ Closes(i)

Spec == Init /\ [][Next]_vars

-----------------------------------------------------------------------------
\* A slot is held by every start from its reserve until its session is done
\* or its start has failed, and by nobody else (reserve, release, settle).
SlotsHeld ==
  running = Cardinality({i \in Sessions :
    \/ starter[i] \in {"cgroup", "unreserve", "spawning", "post"}
    \/ starter[i] = "done" /\ table[i] \in {"none", "live"}})

\* The exit of a reaped process reaches its session, in whatever order the
\* exit and the start were posted (spawn, reap_all, exited, early_exits).
ExitsArrive ==
  \A i \in Sessions :
    proc[i] = "reaped" =>
      \/ i \in exits \cup early \/ exit[i] \/ table[i] = "gone"
      \/ \E k \in 1 .. Len(cmds) : cmds[k] = <<"Exited", i>>

\* A kill that completed left no process of the session (kill, timers).
KillLeavesNone ==
  \A k \in 1 .. Len(asks) : asks[k].said = "Complete" => ~Populated(asks[k].of)

\* A cgroup whose session is gone is either gone or on the list the reaper
\* goes through, and none is removed under a process (drop, retry_stale).
CgroupsKept ==
  \A i \in Sessions :
    /\ Populated(i) => i \in dirs
    /\ i \in dirs => i \in stale \/ (table[i] # "gone" /\ starter[i] # "refused")

\* A signal meant for a child never reaches another that took its pid
\* (signal, Watched).
SignalHitsOwn == ~hit

\* The loop never sleeps through the end of a process: while the exit of a
\* session is not known its pidfd is watched, or a reap is to be tried again,
\* or the exit is on its way. A pidfd is let go at its first event, when the
\* process may still be there to reap (event, reap, timeout).
ExitAwaited ==
  \A i \in Sessions :
    table[i] = "live" /\ ~exit[i] =>
      \/ i \in pidfd \/ i \in exits \/ reap_pending
      \/ \E k \in 1 .. Len(cmds) : cmds[k] = <<"Exited", i>>

ProcessesSafe ==
  /\ SlotsHeld /\ ExitsArrive /\ KillLeavesNone
  /\ CgroupsKept /\ SignalHitsOwn /\ ExitAwaited
=============================================================================
