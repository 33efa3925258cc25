------------------------------ MODULE VmLaunch ------------------------------
(***************************************************************************)
(* How a node starts and stops a jailed VM: the slot and its lock, the     *)
(* sandbox directory and cgroup, the jailed shuru-netd and shuru-vmm, the  *)
(* control connection to netd, the snapshot a `run` may take, and what a   *)
(* node that crashes leaves behind.  Each launch is one thread of a node   *)
(* process (`serve`, or a `run` or `restore` command), and each jailed     *)
(* process is the child it clones.                                         *)
(***************************************************************************)
EXTENDS Naturals, Sequences, FiniteSets

CONSTANTS
    Slots,          \* the slots of the host
    Owner,          \* the node process each launch belongs to
    Networked,      \* the launches with a netd
    Saving,         \* the launches that end with a snapshot
    Restored,       \* the launches of a `restore`, from a saved VM
    MaxCrashes,     \* node processes that may crash
    MaxFaults,      \* steps that may fail
    MaxAsks,        \* requests the idle poll makes of netd
    MaxBytes        \* bytes the guests may send

Launches == DOMAIN Owner
Nodes == {Owner[l] : l \in Launches}
Procs == Launches \X {"netd", "vmm"}
\* Who a descriptor of node process n itself belongs to.
Its(n) == <<n, "node">>
Files == {"memory", "state", "disk", "node.json"}

VARIABLES
    free,           \* the slots serve may hand out
    retired,        \* the slots it took out of use
    lock,           \* slot -> who has a descriptor of the open that locks it
    dir,            \* slot -> the launch whose directory is there, or "none"
    group,          \* slots whose cgroup exists
    proc,           \* process -> how far it came
    lag,            \* reaped processes their cgroup still counts
    alive,          \* process -> who can write to its alive pipe
    launching,      \* node -> the launch holding LAUNCH, or "none"
    launch,         \* launch -> [at, slot, told, egress]
    sent,           \* launch -> the bytes its guest sent out
    wire,           \* launch -> [req, ans]: its netd control connection
    poll,           \* launch -> what the idle poll waits for
    save,           \* launch -> [files, durable, named] of its snapshot
    up,             \* the node processes that run
    left            \* the bounds still to spend

vars == <<free, retired, lock, dir, group, proc, lag, alive, launching, launch,
          sent, wire, poll, save, up, left>>

Unborn == {"none", "failed", "dead", "reaped"}
\* Past the poll of the alive pipe: the parent death signal guards it.
Guarded == {"armed", "checked", "execd", "running"}
Alive(p) == proc[p] \notin Unborn
Joined == {"joined", "armed", "checked", "execd", "running", "killed"}

\* The processes counted in the cgroup of slot s.
Members(s) == {p \in Procs : launch[p[1]].slot = s /\ (proc[p] \in Joined \/ p \in lag)}

Init ==
    /\ free = Slots
    /\ retired = {}
    /\ lock = [s \in Slots |-> {}]
    /\ dir = [s \in Slots |-> "none"]
    /\ group = {}
    /\ proc = [p \in Procs |-> "none"]
    /\ lag = {}
    /\ alive = [p \in Procs |-> {}]
    /\ launching = [n \in Nodes |-> "none"]
    /\ launch = [l \in Launches |-> [at |-> "idle", slot |-> 0, told |-> "none", egress |-> 0]]
    /\ sent = [l \in Launches |-> 0]
    /\ wire = [l \in Launches |-> [req |-> <<>>, ans |-> <<>>]]
    /\ poll = [l \in Launches |-> "idle"]
    /\ save = [l \in Launches |-> [files |-> {}, durable |-> {}, named |-> FALSE]]
    /\ up = Nodes
    /\ left = [crashes |-> MaxCrashes, faults |-> MaxFaults, asks |-> MaxAsks]

At(l, stage) == launch[l].at = stage
Goto(l, stage) == launch' = [launch EXCEPT ![l].at = stage]
Fault == left.faults > 0 /\ left' = [left EXCEPT !.faults = @ - 1]

\* serve hands a boot a free slot; `run --slot` names any.
Begin(l) ==
    /\ At(l, "idle") /\ Owner[l] \in up
    /\ \E s \in IF Owner[l] = "serve" THEN free ELSE Slots :
          /\ launch' = [launch EXCEPT ![l].at = IF l \in Restored THEN "clone" ELSE "take",
                                        ![l].slot = s]
          /\ free' = IF Owner[l] = "serve" THEN free \ {s} ELSE free
    /\ UNCHANGED <<retired, lock, dir, group, proc, lag, alive, launching, sent,
                   wire, poll, save, up, left>>

\* lock_slot: an open file description lock on the byte of the slot.
lock_slot(l) ==
    LET s == launch[l].slot
        got == lock[s] = {}
    IN /\ At(l, "take")
       /\ lock' = IF got THEN [lock EXCEPT ![s] = {Its(Owner[l])}] ELSE lock
       /\ Goto(l, IF got THEN "clear" ELSE "release")
       /\ UNCHANGED <<free, retired, dir, group, proc, lag, alive, launching, sent,
                      wire, poll, save, up, left>>

\* clear_slot, then RunDir::create makes the directory.
clear_slot(l) ==
    LET s == launch[l].slot
        busy == s \in group /\ Members(s) # {}
    IN /\ At(l, "clear")
       /\ IF busy
             THEN Goto(l, "unlock") /\ UNCHANGED <<dir, group>>
             ELSE /\ Goto(l, "group")
                  /\ group' = group \ {s}
                  /\ dir' = [dir EXCEPT ![s] = l]
       /\ UNCHANGED <<free, retired, lock, proc, lag, alive, launching, sent, wire,
                      poll, save, up, left>>

\* Sandbox::create; a limit it cannot set drops the cgroup again.
make_group(l) ==
    /\ At(l, "group")
    /\ \/ /\ group' = group \union {launch[l].slot}
          /\ Goto(l, IF l \in Networked THEN "spawn_netd" ELSE "spawn_vmm")
          /\ UNCHANGED left
       \/ Fault /\ Goto(l, "drop_dir") /\ UNCHANGED group
    /\ UNCHANGED <<free, retired, lock, dir, proc, lag, alive, launching, sent, wire,
                   poll, save, up>>

Spawning(k) == "spawn_" \o k
Waiting(k) == "wait_" \o k
Configuring(k) == "conf_" \o k

\* jail::spawn holds LAUNCH, one launch of the node process at a time.
MayLaunch(n) == launching[n] = "none"

\* jail::spawn up to the clone.  The child has a copy of every descriptor of
\* the node: each slot lock it holds, and the alive pipes of other launches.
clone(l, k) ==
    LET n == Owner[l]
        p == <<l, k>>
    IN /\ At(l, Spawning(k)) /\ MayLaunch(n)
       /\ launching' = [launching EXCEPT ![n] = l]
       /\ proc' = [proc EXCEPT ![p] = "cloned"]
       /\ lock' = [s \in Slots |-> IF Its(n) \in lock[s] THEN lock[s] \union {p} ELSE lock[s]]
       /\ alive' = [q \in Procs |->
                      CASE q = p -> {Its(n)}
                        [] q # p /\ Its(n) \in alive[q] -> alive[q] \union {p}
                        [] OTHER -> alive[q]]
       /\ Goto(l, Waiting(k))
       /\ UNCHANGED <<free, retired, dir, group, lag, sent, wire, poll, save, up, left>>

\* The descriptors a process that is gone, or past exec, no longer has.
Closes(p) ==
    /\ lock' = [s \in Slots |-> lock[s] \ {p}]
    /\ alive' = [q \in Procs |-> alive[q] \ {p}]

ChildKeeps == UNCHANGED <<free, retired, dir, group, lag, launching, launch, sent, wire,
                          poll, save, up>>

\* Mutant: the child never looks whether the parent is already gone.
NeverPolls(p) ==
    \/ proc[p] = "cloned" /\ proc' = [proc EXCEPT ![p] = "joined"] /\ UNCHANGED <<lock, alive>>
    \/ proc[p] = "joined" /\ proc' = [proc EXCEPT ![p] = "armed"] /\ UNCHANGED <<lock, alive>>
    \/ proc[p] = "armed" /\ proc' = [proc EXCEPT ![p] = "checked"] /\ UNCHANGED <<lock, alive>>

\* child up to its limits: it joins the cgroup, builds its root and drops its
\* privileges, sets the parent death signal, and only then looks whether the
\* parent is already gone.
child_setup(p) ==
    \/ proc[p] = "cloned" /\ proc' = [proc EXCEPT ![p] = "joined"] /\ UNCHANGED <<lock, alive>>
    \/ proc[p] = "joined" /\ proc' = [proc EXCEPT ![p] = "armed"] /\ UNCHANGED <<lock, alive>>
    \/ /\ proc[p] = "armed" /\ alive[p] # {}
       /\ proc' = [proc EXCEPT ![p] = "checked"] /\ UNCHANGED <<lock, alive>>
    \/ /\ proc[p] = "armed" /\ alive[p] = {}
       /\ proc' = [proc EXCEPT ![p] = "dead"] /\ Closes(p)

\* child: a step fails and is reported, or the binary is executed.
child_step(p) ==
    /\ \/ child_setup(p) /\ UNCHANGED left
       \/ /\ proc[p] = "checked"
          /\ proc' = [proc EXCEPT ![p] = "execd"] /\ Closes(p) /\ UNCHANGED left
       \/ /\ proc[p] \in {"cloned", "joined", "armed", "checked"} /\ Fault
          /\ proc' = [proc EXCEPT ![p] = "failed"] /\ Closes(p)
    /\ ChildKeeps

\* The kernel ends a process that was sent SIGKILL, or a VMM whose guest
\* powered off, or one that failed by itself.  One the node did not live to
\* reap is reaped by init.
exits(p) ==
    LET orphan == launch[p[1]].at = "gone"
    IN /\ \/ proc[p] = "killed" /\ UNCHANGED left
          \/ proc[p] \in {"execd", "running"} /\ Fault
       /\ proc' = [proc EXCEPT ![p] = IF orphan THEN "reaped" ELSE "dead"]
       /\ Closes(p)
       /\ ChildKeeps

\* Where a launch that fails begins to drop what it has.
Unwinds(l, k) ==
    IF k = "vmm" /\ l \in Networked THEN "drop_netd" ELSE "drop_group"

\* jail::spawn reads the report: nothing once the binary runs, or is dead.
spawned(l, k) ==
    LET p == <<l, k>>
        n == Owner[l]
    IN /\ At(l, Waiting(k))
       /\ proc[p] \in {"execd", "failed", "dead"}
       /\ launching' = [launching EXCEPT ![n] = "none"]
       /\ alive' = [q \in Procs |-> IF q = p THEN {} ELSE alive[q]]
       /\ IF proc[p] = "failed"
             THEN Goto(l, Unwinds(l, k)) /\ proc' = [proc EXCEPT ![p] = "reaped"]
             ELSE Goto(l, Configuring(k)) /\ UNCHANGED proc
       /\ UNCHANGED <<free, retired, lock, dir, group, lag, sent, wire, poll, save,
                      up, left>>

\* The jailed process takes its configuration and the descriptors with it,
\* starts and answers; or it answers an error and exits.
Starts(l, k) ==
    LET p == <<l, k>>
    IN /\ At(l, Configuring(k)) /\ proc[p] = "execd"
       /\ \/ proc' = [proc EXCEPT ![p] = "running"] /\ UNCHANGED left
          \/ Fault /\ proc' = [proc EXCEPT ![p] = "dead"]
       /\ UNCHANGED <<free, retired, lock, dir, group, lag, alive, launching, launch, sent,
                      wire, poll, save, up>>

netd_run(l) == Starts(l, "netd")
vmm_run(l) == Starts(l, "vmm")

\* Jailed.configure: the answer, or the process exited while starting.
Configured(l, k, then) ==
    LET p == <<l, k>>
    IN /\ At(l, Configuring(k)) /\ proc[p] \in {"running", "dead"}
       /\ Goto(l, IF proc[p] = "running" THEN then ELSE "drop_" \o k)
       /\ UNCHANGED <<free, retired, lock, dir, group, proc, lag, alive, launching, sent,
                      wire, poll, save, up, left>>

start_network(l) == Configured(l, "netd", "spawn_vmm")

\* The VMM of Vm::boot, and the one restore starts from the saved memory.
boot(l) == l \notin Restored /\ Configured(l, "vmm", "prepare")
restore(l) == l \in Restored /\ Configured(l, "vmm", "rotate")

\* restore copies the saved disk before it takes the slot; the copy must not
\* exist yet, and stays when a later step fails.
clones_disk(l) ==
    /\ At(l, "clone")
    /\ \/ Goto(l, "take") /\ UNCHANGED left
       \/ Fault /\ Goto(l, "done")
    /\ UNCHANGED <<free, retired, lock, dir, group, proc, lag, alive, launching, sent,
                   wire, poll, save, up>>

\* connect_guest: the agent answers the hello, or it does not in time, or the
\* VMM is seen to have exited; then the launch ends.
Guest(l, stage, then) ==
    LET p == <<l, "vmm">>
    IN /\ At(l, stage)
       /\ \/ proc[p] = "running" /\ Goto(l, then) /\ UNCHANGED left
          \/ proc[p] = "running" /\ Fault /\ Goto(l, "drop_vmm")
          \/ proc[p] = "dead" /\ Goto(l, "drop_vmm") /\ UNCHANGED left
       /\ UNCHANGED <<free, retired, lock, dir, group, proc, lag, alive, launching, sent,
                      wire, poll, save, up>>

\* A booted guest gets the CA and its services before any command; a restored
\* one an identity no other restore has.
prepare(l) == Guest(l, "prepare", "exec")
rotate(l) == Guest(l, "rotate", "exec")
exec(l) == Guest(l, "exec", IF l \in Saving THEN "stage" ELSE "up")

SaveKeeps == UNCHANGED <<free, retired, lock, dir, group, proc, lag, alive, launching,
                         sent, wire, poll, up>>

MayName(l) == save[l].files = Files /\ save[l].durable = Files

\* save_snapshot: the staging directory, the memory and state the paused VM
\* writes, the disk, node.json, then the syncs, then the rename.  Any error
\* removes the staging directory.
save_snapshot(l) ==
    LET v == save[l]
        vm_up == proc[<<l, "vmm">>] = "running"
        order == <<"memory", "state", "disk", "node.json">>
        next == CHOOSE f \in Files \ v.files :
                   \A i, j \in 1..4 : (order[i] = f /\ j < i) => order[j] \in v.files
    IN \/ /\ At(l, "stage")
          /\ save' = [save EXCEPT ![l] = [files |-> {}, durable |-> {}, named |-> FALSE]]
          /\ Goto(l, "write") /\ UNCHANGED left
       \/ /\ At(l, "write") /\ v.files # Files /\ (next = "state" => vm_up)
          /\ save' = [save EXCEPT ![l].files = @ \union {next}]
          /\ UNCHANGED <<launch, left>>
       \/ /\ At(l, "write") /\ v.files = Files /\ v.durable # Files
          /\ \E f \in Files \ v.durable : save' = [save EXCEPT ![l].durable = @ \union {f}]
          /\ UNCHANGED <<launch, left>>
       \/ /\ At(l, "write") /\ MayName(l)
          /\ save' = [save EXCEPT ![l].named = TRUE]
          /\ Goto(l, "up") /\ UNCHANGED left
       \/ /\ At(l, "write") /\ (Fault \/ (~vm_up /\ "state" \notin v.files /\ UNCHANGED left))
          /\ save' = [save EXCEPT ![l].files = {}, ![l].durable = {}]
          /\ Goto(l, "drop_vmm")

SaveStep(l) == save_snapshot(l) /\ SaveKeeps

----------------------------------------------------------------------------
(* The control connection to netd while the VM runs. *)

Poller(l) == UNCHANGED <<free, retired, lock, dir, group, proc, lag, alive, launching,
                         save, up>>
NetdUp(l) == l \in Networked /\ proc[<<l, "netd">>] = "running"

sends_out(l) ==
    /\ NetdUp(l) /\ proc[<<l, "vmm">>] = "running" /\ sent[l] < MaxBytes
    /\ sent' = [sent EXCEPT ![l] = @ + 1]
    /\ Poller(l) /\ UNCHANGED <<launch, wire, poll, left>>

\* netd's serve answers the next request with what it counts now.
netd_serve(l) ==
    /\ NetdUp(l) /\ wire[l].req # <<>>
    /\ LET r == Head(wire[l].req)
           answer == [kind |-> r, bytes |-> IF r = "egress" THEN sent[l] ELSE 0]
       IN wire' = [wire EXCEPT ![l] = [req |-> Tail(@.req), ans |-> Append(@.ans, answer)]]
    /\ Poller(l) /\ UNCHANGED <<launch, sent, poll, left>>

\* flows and egress, asked by the idle poll and by GET /usage on a clone of
\* the connection under a mutex of their own.
ask_netd(l) ==
    \/ /\ poll[l] = "idle" /\ At(l, "up") /\ NetdUp(l) /\ left.asks > 0
       /\ \E r \in {"flows", "egress"} :
             /\ wire' = [wire EXCEPT ![l].req = Append(@, r)]
             /\ poll' = [poll EXCEPT ![l] = r]
       /\ left' = [left EXCEPT !.asks = @ - 1]
       /\ Poller(l) /\ UNCHANGED <<launch, sent>>
    \/ /\ poll[l] # "idle" /\ wire[l].ans # <<>>
       /\ wire' = [wire EXCEPT ![l].ans = Tail(@)]
       /\ poll' = [poll EXCEPT ![l] = "idle"]
       /\ Poller(l) /\ UNCHANGED <<launch, sent, left>>
    \* NETD_TIMEOUT, or the connection is gone.
    \/ /\ poll[l] # "idle"
       /\ poll' = [poll EXCEPT ![l] = "idle"]
       /\ Poller(l) /\ UNCHANGED <<launch, sent, wire, left>>

----------------------------------------------------------------------------
(* Stopping, and dropping what a launch that failed had. *)

StopKeeps == UNCHANGED <<sent, poll, save, up, left>>

\* Vm.stop: the VMM answers Stop and exits, or is killed after STOP_TIMEOUT.
stop(l) ==
    /\ At(l, "up")
    /\ proc' = [proc EXCEPT ![<<l, "vmm">>] = IF @ = "running" THEN "killed" ELSE @]
    /\ Goto(l, "drop_vmm_stop")
    /\ UNCHANGED <<free, retired, lock, dir, group, lag, alive, launching, wire>>
    /\ StopKeeps

\* Drop for Jailed: kill and wait.  The cgroup may count the process a moment
\* longer.
Reaps(l, k, then) ==
    LET p == <<l, k>>
    IN /\ IF Alive(p) /\ proc[p] # "killed"
             THEN /\ proc' = [proc EXCEPT ![p] = "killed"]
                  /\ UNCHANGED <<launch, lag>>
             ELSE /\ proc[p] # "killed"
                  /\ proc' = [proc EXCEPT ![p] = IF @ = "dead" THEN "reaped" ELSE @]
                  /\ lag' \in IF proc[p] = "dead" THEN {lag, lag \union {p}} ELSE {lag}
                  /\ Goto(l, then)
       /\ UNCHANGED <<free, retired, lock, dir, group, alive, launching, wire>>
       /\ StopKeeps

DropNext(l) == IF l \in Networked THEN "drop_netd" ELSE "drop_group"

drop_jailed(l) ==
    \/ At(l, "drop_vmm") /\ Reaps(l, "vmm", DropNext(l))
    \/ At(l, "drop_vmm_stop")
       /\ Reaps(l, "vmm", IF l \in Networked THEN "egress" ELSE "drop_group")
    \/ At(l, "drop_netd") /\ Reaps(l, "netd", "drop_group")

\* Vm.stop asks netd for the bytes once the guest can send no more, on its
\* own handle: nothing keeps the idle poll from reading the same connection.
stop_egress(l) ==
    /\ \/ /\ At(l, "egress")
          /\ wire' = [wire EXCEPT ![l].req = Append(@, "egress")]
          /\ Goto(l, "egress_wait")
       \/ /\ At(l, "egress_wait") /\ wire[l].ans # <<>>
          /\ LET a == Head(wire[l].ans)
             IN launch' = [launch EXCEPT ![l].at = "drop_netd",
                              ![l].told = a.kind, ![l].egress = a.bytes]
          /\ wire' = [wire EXCEPT ![l].ans = Tail(@)]
       \/ /\ At(l, "egress_wait")
          /\ launch' = [launch EXCEPT ![l].at = "drop_netd", ![l].told = "timeout"]
          /\ UNCHANGED wire
    /\ UNCHANGED <<free, retired, lock, dir, group, proc, lag, alive, launching>>
    /\ StopKeeps

lag_ends(p) ==
    /\ p \in lag /\ lag' = lag \ {p}
    /\ UNCHANGED <<free, retired, lock, dir, group, proc, alive, launching, launch, sent,
                   wire, poll, save, up, left>>

\* Drop for Sandbox: removing the cgroup is retried while it is busy, and
\* given up at last.
drop_group(l) ==
    LET s == launch[l].slot
    IN /\ At(l, "drop_group")
       /\ \/ Members(s) = {} /\ group' = group \ {s} /\ UNCHANGED left
          \/ Members(s) # {} /\ Fault /\ UNCHANGED group
       /\ Goto(l, "drop_dir")
       /\ UNCHANGED <<free, retired, lock, dir, proc, lag, alive, launching, sent, wire,
                      poll, save, up>>

drop_dir(l) ==
    /\ At(l, "drop_dir")
    /\ dir' = [dir EXCEPT ![launch[l].slot] = "none"]
    /\ Goto(l, "unlock")
    /\ UNCHANGED <<free, retired, lock, group, proc, lag, alive, launching, sent, wire,
                   poll, save, up, left>>

unlock(l) ==
    /\ At(l, "unlock")
    /\ lock' = [lock EXCEPT ![launch[l].slot] = @ \ {Its(Owner[l])}]
    /\ Goto(l, "release")
    /\ UNCHANGED <<free, retired, dir, group, proc, lag, alive, launching, sent, wire,
                   poll, save, up, left>>

\* reclaim_slot: what is left in a slot no one holds is cleared.
Reclaims(s) == lock[s] = {} /\ (s \in group => Members(s) = {})

\* Node.release of serve: a slot that cannot be reclaimed is taken out of use.
release(l) ==
    LET s == launch[l].slot
        ok == Reclaims(s)
        serve == Owner[l] = "serve"
    IN /\ At(l, "release")
       /\ free' = IF serve /\ ok THEN free \union {s} ELSE free
       /\ retired' = IF serve /\ ~ok THEN retired \union {s} ELSE retired
       /\ group' = IF serve /\ ok THEN group \ {s} ELSE group
       /\ dir' = IF serve /\ ok THEN [dir EXCEPT ![s] = "none"] ELSE dir
       /\ Goto(l, "done")
       /\ UNCHANGED <<lock, proc, lag, alive, launching, sent, wire, poll, save, up, left>>

----------------------------------------------------------------------------
(* A node process that crashes, and serve starting again. *)

crash(n) ==
    LET mine == {l \in Launches : Owner[l] = n /\ launch[l].at \notin {"idle", "done"}}
        kin == {p \in Procs : p[1] \in mine}
    IN /\ n \in up /\ left.crashes > 0
       /\ left' = [left EXCEPT !.crashes = @ - 1]
       /\ up' = up \ {n}
       /\ launch' = [l \in Launches |-> IF l \in mine THEN [launch[l] EXCEPT !.at = "gone"]
                                                      ELSE launch[l]]
       /\ lock' = [s \in Slots |-> lock[s] \ {Its(n)}]
       /\ alive' = [p \in Procs |-> alive[p] \ {Its(n)}]
       /\ launching' = [launching EXCEPT ![n] = "none"]
       /\ poll' = [l \in Launches |-> IF l \in mine THEN "idle" ELSE poll[l]]
       /\ proc' = [p \in Procs |->
                     CASE p \in kin /\ proc[p] \in Guarded -> "killed"
                       [] p \in kin /\ proc[p] \in {"failed", "dead"} -> "reaped"
                       [] OTHER -> proc[p]]
       /\ UNCHANGED <<free, retired, dir, group, lag, sent, wire, save>>

\* Node::load: serve starts again and tries to reclaim every slot.
restart ==
    LET ok == {s \in Slots : Reclaims(s)}
    IN /\ "serve" \in Nodes \ up
       /\ up' = up \union {"serve"}
       /\ free' = ok /\ retired' = Slots \ ok
       /\ group' = group \ ok
       /\ dir' = [s \in Slots |-> IF s \in ok THEN "none" ELSE dir[s]]
       /\ UNCHANGED <<lock, proc, lag, alive, launching, launch, sent, wire, poll, save, left>>

Next ==
    \/ restart
    \/ \E n \in Nodes : crash(n)
    \/ \E p \in Procs : child_step(p) \/ exits(p) \/ lag_ends(p)
    \/ \E l \in Launches :
          \/ Begin(l) \/ lock_slot(l) \/ clear_slot(l) \/ make_group(l) \/ clones_disk(l)
          \/ netd_run(l) \/ vmm_run(l) \/ start_network(l) \/ boot(l) \/ restore(l)
          \/ prepare(l) \/ rotate(l) \/ exec(l)
          \/ SaveStep(l) \/ sends_out(l) \/ netd_serve(l) \/ ask_netd(l) \/ stop(l)
          \/ drop_jailed(l) \/ stop_egress(l) \/ drop_group(l) \/ drop_dir(l)
          \/ unlock(l) \/ release(l)
          \/ \E k \in {"netd", "vmm"} : clone(l, k) \/ spawned(l, k)

Spec == Init /\ [][Next]_vars

----------------------------------------------------------------------------
(* Properties. *)

\* A slot is one uid, one cgroup and one directory, so the live processes in
\* it are of one launch, whichever node started them and whichever crashed.
OneVmPerSlot ==
    \A p, q \in Procs :
        (Alive(p) /\ Alive(q) /\ launch[p[1]].slot = launch[q[1]].slot) => p[1] = q[1]

\* A jailed process never outlives a node that crashed: one that got as far
\* as executing its binary is killed with its parent.
NoneOutlivesNode ==
    \A p \in Procs : (launch[p[1]].at = "gone") => proc[p] \notin {"checked", "execd", "running"}

\* A launch that has made its directory still finds it there, until it drops
\* it: no other launch and no restart of serve cleared the slot under it.
SlotKeptWhileUsed ==
    \A l \in Launches :
        launch[l].at \notin {"idle", "clone", "take", "clear", "unlock", "release", "done", "gone"} =>
            dir[launch[l].slot] = l

\* A snapshot under its name has all four files, as synced, whatever crashes.
NamedIsComplete == \A l \in Launches : save[l].named => save[l].durable = Files

LaunchSafe == OneVmPerSlot /\ NoneOutlivesNode /\ SlotKeptWhileUsed /\ NamedIsComplete

\* "Hands `slot` back once nothing of its last VM is left": serve takes a slot
\* out of use only while something of a VM is left in it.  Violated: a child
\* of another launch, between its clone and its exec, still has a copy of the
\* descriptor that locks the slot.
RetiredIsBusy ==
    [][\A s \in retired' \ retired :
          (\E p \in Procs : Alive(p) /\ launch[p[1]].slot = s) \/ Members(s) # {}
          \/ (\E n \in Nodes : Its(n) \in lock[s])]_vars

\* "What a VM used in all": an answer Vm.stop reads to its Egress request is
\* the count at the end.  Violated: it may read the answer to a request the
\* idle poll gave up on.
StopHearsEgress ==
    \A l \in Launches : launch[l].told \in {"egress", "flows"} =>
        launch[l].told = "egress" /\ launch[l].egress = sent[l]
=============================================================================
