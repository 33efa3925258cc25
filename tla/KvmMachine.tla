----------------------------- MODULE KvmMachine -----------------------------
(***************************************************************************)
(* A machine on KVM (shuru-linux kvm/mod.rs, vm.rs, kvm/snapshot.rs,       *)
(* kvm/balloon.rs): the threads that run its vCPUs, the signals that take  *)
(* them out of the guest, snapshots that save devices, then processors,    *)
(* then the pages that differ from the file the memory was mapped from,    *)
(* and the memory balloon.                                                 *)
(*                                                                         *)
(* Calls on a machine hold its mutex, so one runs at a time; the steps of  *)
(* a call interleave with the vCPU threads.  A signal that lands while a   *)
(* thread is not in KVM_RUN does nothing.  A page is the number of writes  *)
(* to it; registers, the interrupt controller and the layout of the state  *)
(* file are left out.                                                      *)
(***************************************************************************)
EXTENDS Integers, Sequences, FiniteSets

CONSTANTS Vcpus,       \* vCPUs, numbered from 1
          Devices,     \* devices in bus order, numbered from 1
          Unsaved,     \* devices that cannot be snapshotted
          Pages,       \* pages of the guest, one of them "ring" for its rings
          Targets,     \* memory targets the host may ask for
          MaxCalls, MaxWrites   \* bounds: calls on the machine, writes of the guest

VARIABLES running, paused,
          state,     \* what VirtualMachine.state answers
          monitor,   \* the monitor thread: "none", "polls"
          vcpu,      \* vCPU -> [at, imm]: its thread, and immediate_exit
          api,       \* the call that holds the mutex
          devs,      \* device -> whether it serves its queues
          pending,   \* a request in the rings that no device has served
          page,      \* page -> [anon, val]
          base,      \* the file the memory was mapped from
          saved,     \* the last snapshot: [mem, target, known]
          before,    \* the guest's memory when it was paused
          balloon,   \* [target, active, irq, known]: the balloon and the guest's driver
          left

vars == <<running, paused, state, monitor, vcpu, api, devs, pending, page, base, saved, before, balloon, left>>

N == Cardinality(Vcpus)
Last == Cardinality(Devices)
Idle == [op |-> "none", at |-> "none", i |-> 0, resume |-> FALSE]
NoSave == [mem |-> [p \in Pages |-> 0], target |-> 0, active |-> FALSE, known |-> 0, whole |-> FALSE]
Content == [p \in Pages |-> IF page[p].anon THEN page[p].val ELSE base[p]]

Init ==
  /\ running = FALSE /\ paused = FALSE /\ state = "stopped" /\ monitor = "none"
  /\ vcpu = [v \in Vcpus |-> [at |-> "held", imm |-> FALSE]]
  /\ api = Idle
  /\ devs = [d \in Devices |-> TRUE]
  /\ pending = FALSE
  /\ page = [p \in Pages |-> [anon |-> FALSE, val |-> 0]]
  /\ base = [p \in Pages |-> 0]
  /\ saved = NoSave
  /\ before = base
  /\ balloon = [target |-> 0, active |-> FALSE, irq |-> FALSE, known |-> 0]
  /\ left = [calls |-> MaxCalls, writes |-> MaxWrites]

Guestmem == <<pending, page, base, saved, before>>
Threads == <<vcpu, running>>

-----------------------------------------------------------------------------
(* vcpu_run_loop. *)

\* The head of the loop: running, then paused, are looked at.
Loops(v) ==
  /\ vcpu[v].at = "loop"
  /\ vcpu' = [vcpu EXCEPT ![v] = IF ~running THEN [@ EXCEPT !.at = "done"]
                                 ELSE [at |-> "enter", imm |-> @.imm \/ paused]]
  /\ UNCHANGED <<running, paused, state, monitor, api, devs, Guestmem, balloon, left>>

\* KVM_RUN: with immediate_exit it returns EINTR at once.
Enters(v) ==
  /\ vcpu[v].at = "enter"
  /\ vcpu' = [vcpu EXCEPT ![v].at = IF vcpu[v].imm THEN "eintr" ELSE "guest"]
  /\ UNCHANGED <<running, paused, state, monitor, api, devs, Guestmem, balloon, left>>

\* An exit the loop handles and goes on after.
Exits(v) ==
  /\ vcpu[v].at = "guest"
  /\ vcpu' = [vcpu EXCEPT ![v].at = "loop"]
  /\ UNCHANGED <<running, paused, state, monitor, api, devs, Guestmem, balloon, left>>

\* The guest shuts down, resets, or KVM fails.
ShutsDown(v) ==
  /\ vcpu[v].at = "guest"
  /\ vcpu' = [vcpu EXCEPT ![v].at = "done"]
  /\ running' = FALSE
  /\ UNCHANGED <<paused, state, monitor, api, devs, Guestmem, balloon, left>>

Interrupted(v) ==
  /\ vcpu[v].at = "eintr"
  /\ vcpu' = [vcpu EXCEPT ![v] = IF paused THEN [at |-> "done", imm |-> FALSE] ELSE [@ EXCEPT !.at = "loop"]]
  /\ UNCHANGED <<running, paused, state, monitor, api, devs, Guestmem, balloon, left>>

\* A thread that is over, or that there is none of, is joined at once.
Joined == {"done", "held", "gone"}
Signalled(vs) == [v \in Vcpus |-> IF v \in vs /\ vcpu[v].at = "guest"
                                  THEN [vcpu[v] EXCEPT !.at = "eintr"] ELSE vcpu[v]]

-----------------------------------------------------------------------------
(* start, and the monitor of the running flag. *)

\* KvmVm.start: every vCPU that is held gets a thread.
Spawned(vs) == [v \in Vcpus |-> IF vs[v].at = "held" THEN [vs[v] EXCEPT !.at = "loop"] ELSE vs[v]]

Start ==
  /\ api = Idle /\ state = "stopped" /\ monitor = "none" /\ left.calls > 0 /\ ~running /\ ~paused
  /\ \A v \in Vcpus : vcpu[v].at = "held"
  /\ running' = TRUE /\ state' = "running" /\ monitor' = "polls"
  /\ vcpu' = Spawned(vcpu)
  /\ UNCHANGED <<paused, api, devs, Guestmem, balloon, left>>

MonitorSees ==
  /\ monitor = "polls" /\ ~running
  /\ monitor' = "ended" /\ state' = "stopped"
  /\ UNCHANGED <<running, paused, vcpu, api, devs, Guestmem, balloon, left>>

-----------------------------------------------------------------------------
(* snapshot: pause, save, write, resume. *)

Snapshot ==
  /\ api = Idle /\ left.calls > 0 /\ monitor # "none" /\ ~paused
  /\ \E r \in BOOLEAN : api' = [op |-> "snapshot", at |-> "join", i |-> 1, resume |-> r]
  /\ paused' = TRUE
  /\ saved' = NoSave
  /\ left' = [left EXCEPT !.calls = @ - 1]
  /\ UNCHANGED <<running, state, monitor, vcpu, devs, pending, page, base, before, balloon>>

\* pause: each thread in turn is signalled until it has returned.
PauseSignals ==
  /\ api.op = "snapshot" /\ api.at = "join" /\ api.i <= N
  /\ vcpu[api.i].at = "guest"
  /\ vcpu' = Signalled({api.i})
  /\ UNCHANGED <<running, paused, state, monitor, api, devs, Guestmem, balloon, left>>
PauseJoins ==
  /\ api.op = "snapshot" /\ api.at = "join" /\ api.i <= N
  /\ vcpu[api.i].at \in Joined
  /\ vcpu' = [vcpu EXCEPT ![api.i].at = IF @ = "gone" THEN @ ELSE "held"]
  /\ api' = [api EXCEPT !.i = @ + 1]
  /\ UNCHANGED <<running, paused, state, monitor, devs, Guestmem, balloon, left>>

\* The guest stopped on its own: the call fails, and the machine stays paused.
PauseEnds ==
  /\ api.op = "snapshot" /\ api.at = "join" /\ api.i = N + 1
  /\ api' = IF running THEN [api EXCEPT !.at = "save", !.i = 1] ELSE Idle
  /\ before' = Content
  /\ UNCHANGED <<running, paused, state, monitor, vcpu, devs, pending, page, base, saved, balloon, left>>

\* Mutant: a device that is saved leaves its pending requests in the rings.
SavesUndrained(d) == [page |-> page, pending |-> pending]

\* A device is saved: the requests made before the pause are served first,
\* which writes the rings, and it stops.
Drained(d) ==
  IF d = 1 /\ pending THEN [page |-> [page EXCEPT !["ring"] = [anon |-> TRUE, val |-> 9]], pending |-> FALSE]
  ELSE [page |-> page, pending |-> pending]

SaveDevice ==
  /\ api.at = "save" /\ api.i <= Last
  /\ page' = Drained(api.i).page /\ pending' = Drained(api.i).pending
  /\ IF api.i \in Unsaved
     THEN api' = [api EXCEPT !.at = "resume", !.i = 0] /\ UNCHANGED devs
     ELSE api' = [api EXCEPT !.i = @ + 1] /\ devs' = [devs EXCEPT ![api.i] = FALSE]
  /\ UNCHANGED <<Threads, paused, state, monitor, base, saved, before, balloon, left>>

\* save_memory: the file of the mapping with the anonymous pages over it.
\* The host may fail to write.
SaveMemory ==
  /\ api.at = "save" /\ api.i = Last + 1
  /\ \E ok \in BOOLEAN :
       /\ saved' = IF ok THEN [mem |-> Content, target |-> balloon.target, active |-> balloon.active,
                               known |-> balloon.known, whole |-> TRUE] ELSE saved
       /\ api' = IF ok /\ ~api.resume THEN Idle ELSE [api EXCEPT !.at = "resume", !.i = 0]
  /\ UNCHANGED <<Threads, paused, state, monitor, devs, pending, page, base, before, balloon, left>>

\* resume: the devices, then the vCPUs.
Resume ==
  /\ api.at = "resume"
  /\ devs' = [d \in Devices |-> TRUE]
  /\ paused' = FALSE /\ running' = TRUE
  /\ vcpu' = Spawned(vcpu)
  /\ api' = Idle
  /\ UNCHANGED <<state, monitor, Guestmem, balloon, left>>

-----------------------------------------------------------------------------
(* stop: the flag, one signal to each thread, then the joins. *)

Stop ==
  /\ api = Idle /\ left.calls > 0 /\ monitor # "none"
  /\ running' = FALSE
  /\ api' = [op |-> "stop", at |-> "signal", i |-> 1, resume |-> FALSE]
  /\ left' = [left EXCEPT !.calls = @ - 1]
  /\ UNCHANGED <<paused, state, monitor, vcpu, devs, Guestmem, balloon>>
StopSignals ==
  /\ api.op = "stop" /\ api.at = "signal"
  /\ vcpu' = Signalled({api.i})
  /\ api' = IF api.i = N THEN [api EXCEPT !.at = "join", !.i = 1] ELSE [api EXCEPT !.i = @ + 1]
  /\ UNCHANGED <<running, paused, state, monitor, devs, Guestmem, balloon, left>>
StopJoins ==
  /\ api.op = "stop" /\ api.at = "join"
  /\ vcpu[api.i].at \in Joined
  /\ vcpu' = [vcpu EXCEPT ![api.i].at = "gone"]
  /\ api' = IF api.i = N THEN Idle ELSE [api EXCEPT !.i = @ + 1]
  /\ state' = IF api.i = N THEN "stopped" ELSE state
  /\ UNCHANGED <<running, paused, monitor, devs, Guestmem, balloon, left>>

\* Boot::Snapshot: another process makes the machine from the saved files.
\* The memory is mapped private over the saved file.
Restore ==
  /\ api = Idle /\ saved.whole /\ paused /\ left.calls > 0
  /\ left' = [left EXCEPT !.calls = @ - 1]
  /\ running' = FALSE /\ paused' = FALSE /\ state' = "stopped" /\ monitor' = "none"
  /\ vcpu' = [v \in Vcpus |-> [at |-> "held", imm |-> FALSE]]
  /\ devs' = [d \in Devices |-> TRUE] /\ pending' = FALSE
  /\ base' = saved.mem
  /\ page' = [p \in Pages |-> [anon |-> FALSE, val |-> 0]]
  /\ balloon' = [target |-> saved.target, active |-> saved.active, irq |-> balloon.irq, known |-> saved.known]
  /\ saved' = [saved EXCEPT !.whole = FALSE]
  /\ UNCHANGED <<api, before>>

-----------------------------------------------------------------------------
(* The guest and the balloon. *)

InGuest == \E v \in Vcpus : vcpu[v].at = "guest"
Outer == <<Threads, paused, state, monitor, api, devs>>

Writes ==
  /\ InGuest /\ left.writes > 0
  /\ \E p \in Pages : page' = [page EXCEPT ![p] = [anon |-> TRUE, val |-> MaxWrites - left.writes + 1]]
  /\ left' = [left EXCEPT !.writes = @ - 1]
  /\ UNCHANGED <<Outer, pending, base, saved, before, balloon>>
Asks == /\ InGuest /\ ~pending /\ pending' = TRUE
        /\ UNCHANGED <<Outer, page, base, saved, before, balloon, left>>
Serves == /\ pending /\ devs[1] /\ pending' = FALSE
          /\ page' = [page EXCEPT !["ring"] = [anon |-> TRUE, val |-> 9]]
          /\ UNCHANGED <<Outer, base, saved, before, balloon, left>>

\* The driver hands over a page it does not use: the host discards it, and it
\* reads as the file of the mapping has it.
discard ==
  /\ InGuest /\ balloon.active /\ ~pending
  /\ \E p \in Pages \ {"ring"} : /\ page[p].anon
                                 /\ page' = [page EXCEPT ![p] = [anon |-> FALSE, val |-> 0]]
  /\ UNCHANGED <<Outer, pending, base, saved, before, balloon, left>>

set_memory_target ==
  /\ api = Idle
  /\ \E t \in Targets \ {balloon.target} :
       balloon' = [balloon EXCEPT !.target = t, !.irq = @ \/ balloon.active]
  /\ UNCHANGED <<Outer, Guestmem, left>>

\* The driver sets DRIVER_OK, then reads the target; later it reads the target
\* when it is told of a change.
BalloonActivates ==
  /\ InGuest /\ ~balloon.active
  /\ balloon' = [balloon EXCEPT !.active = TRUE, !.irq = TRUE]
  /\ UNCHANGED <<Outer, Guestmem, left>>
ReadsTarget ==
  /\ InGuest /\ balloon.irq
  /\ balloon' = [balloon EXCEPT !.irq = FALSE, !.known = balloon.target]
  /\ UNCHANGED <<Outer, Guestmem, left>>

Next ==
  \/ \E v \in Vcpus : Loops(v) \/ Enters(v) \/ Exits(v) \/ ShutsDown(v) \/ Interrupted(v)
  \/ Start \/ MonitorSees
  \/ Snapshot \/ PauseSignals \/ PauseJoins \/ PauseEnds \/ SaveDevice \/ SaveMemory \/ Resume
  \/ Stop \/ StopSignals \/ StopJoins \/ Restore
  \/ Writes \/ Asks \/ Serves \/ discard
  \/ set_memory_target \/ BalloonActivates \/ ReadsTarget

\* Threads and calls that can go on do; the guest owes no exit.
Fairness ==
  /\ \A v \in Vcpus : WF_vars(Loops(v)) /\ WF_vars(Enters(v)) /\ WF_vars(Interrupted(v))
  /\ WF_vars(PauseSignals \/ PauseJoins \/ PauseEnds \/ SaveDevice \/ SaveMemory \/ Resume)
  /\ WF_vars(StopSignals \/ StopJoins)

Spec == Init /\ [][Next]_vars
FairSpec == Spec /\ Fairness

-----------------------------------------------------------------------------
\* A snapshot is the memory at one moment: no vCPU is in the guest while it is
\* made, and the file has what the guest had when it was paused, with the
\* requests of before the pause served (save drains each queue, then
\* save_memory copies).
SnapshotIsWhole ==
  /\ api.at = "save" => \A v \in Vcpus : vcpu[v].at = "held"
  /\ (saved.whole /\ paused /\ monitor # "none") =>
       \A p \in Pages : saved.mem[p] = before[p] \/ (p = "ring" /\ saved.mem[p] = 9 /\ ~pending)
  /\ (saved.whole /\ paused) => ~pending

\* A machine that runs has every device serving, after a failed snapshot too.
DevicesFollow ==
  (\E v \in Vcpus : vcpu[v].at \in {"loop", "enter", "guest", "eintr"} /\ api.op # "snapshot")
    => \A d \in Devices : devs[d]

\* A thread never starts with the immediate_exit of an earlier pause.
NoStaleExit == (~paused /\ api = Idle) => \A v \in Vcpus : vcpu[v].at # "gone" => ~vcpu[v].imm

\* The guest knows the target it was asked for, or has the interrupt of it.
TargetReaches == balloon.active => (balloon.known = balloon.target \/ balloon.irq)

MachineSafe == SnapshotIsWhole /\ DevicesFollow /\ NoStaleExit /\ TargetReaches

\* A stop ends: one signal unblocks every vCPU (KvmVm.stop).  Violated: the
\* signal may land before the thread is in KVM_RUN.
StopEnds == (api.op = "stop") ~> (api = Idle)
\* A snapshot ends, with or without one written (KvmVm.pause).
SnapshotEnds == (api.op = "snapshot") ~> (api = Idle)
=============================================================================
