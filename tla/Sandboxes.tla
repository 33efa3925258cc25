----------------------------- MODULE Sandboxes -----------------------------
(***************************************************************************)
(* The sandboxes of one host: Node, Entry and Running of                   *)
(* crates/shuru-node/src/serve/sandboxes.rs.                               *)
(*                                                                         *)
(* Requests run as tasks.  Each takes a permit that shutdown waits for,    *)
(* then the lock on the VM of its sandbox, and stops, boots, copies or     *)
(* removes under it.  A VM is held by a thread of its own in a slot of the *)
(* host.  The directories under the state directory outlive a crash of the *)
(* agent; everything else, the VMs included, does not.                     *)
(*                                                                         *)
(* The contents of a disk are a number, new with every write.  The clock   *)
(* never moves on, the hard case of boot_after: a boot is one past the     *)
(* last the node knows of.                                                 *)
(***************************************************************************)
EXTENDS Integers, FiniteSets, FiniteSetsExt

CONSTANTS
  Tasks,      \* requests in flight
  Ids,        \* sandbox ids getrandom may give
  Names,
  Slots,      \* --first-slot and --max-running
  Fallible,   \* steps that may fail: "make", "save", "thread", "boot",
              \* "bury", "reclaim", "memory", "usage"
  MaxBoot,    \* bound on boot numbers: no request starts past it
  MaxContent, \* bound on disk contents
  MaxCrashes, \* bound on crashes of the agent
  None

ASSUME SandboxesAssumption ==
  /\ MaxBoot \in Nat /\ MaxContent \in Nat /\ MaxCrashes \in Nat
  /\ IsFiniteSet(Ids)
  /\ None \notin Tasks \cup Ids \cup Names \cup Slots \cup Nat
  /\ None \notin [slot : Slots, boot : Nat]

VARIABLES
  \* On disk.
  dirs,       \* the directory: "absent", "partial", "placed" or "deleted"
  name_of,    \* name of Record, None for an id not handed out yet
  stored,     \* last_boot of sandbox.json
  disk,       \* contents of the disk file, or None
  import,     \* contents of the file in import/, or None
  \* Node.
  named,      \* Node::sandboxes
  slots,      \* Node::slots
  node_boot,  \* Node::last_boot
  shut,       \* "open", "closing", "stopping" or "done"
  \* Entry.
  lock,       \* the task that holds Entry::vm
  vm,         \* the Running in it: a slot and a boot, or None
  alive,      \* Entry::running
  deleted, last_boot,
  ended,      \* the boot in Entry::ended, or None
  \* Threads and tasks.
  thread,     \* what runs in each slot
  ready,      \* what the thread told the task that boots it
  task,
  \* History.
  content,    \* the last contents written
  seen,       \* what park answered: sandbox, boot and contents
  crashes

files == <<dirs, name_of, stored, disk, import>>
node == <<named, slots, node_boot, shut>>
flags == <<alive, deleted, last_boot, ended>>
entries == <<lock, vm, flags>>
history == <<content, seen, crashes>>
vars == <<files, node, entries, thread, ready, task, history>>

Off == [phase |-> "off", id |-> None, boot |-> 0, told |-> FALSE]
Idle == [op |-> "none", pc |-> "idle", id |-> None, run |-> None,
         flag |-> FALSE, imports |-> FALSE]
Run(slot, boot) == [slot |-> slot, boot |-> boot]

\* "idle" is stop_idle.
Ops == {"create", "delete", "stop", "idle", "park", "restore", "guest"}

\* The thread of a Running has not ended.
Holds(run) == /\ thread[run.slot].phase # "off"
              /\ thread[run.slot].boot = run.boot

\* The sandbox is where load looks for it, with its disk in it.
Whole(id) == dirs[id] = "placed" /\ disk[id] # None

Init ==
  /\ dirs = [i \in Ids |-> "absent"]
  /\ name_of = [i \in Ids |-> None] /\ stored = [i \in Ids |-> 0]
  /\ disk = [i \in Ids |-> None] /\ import = None
  /\ named = [n \in Names |-> None] /\ slots = Slots /\ node_boot = 0
  /\ shut = "open"
  /\ lock = [i \in Ids |-> None] /\ vm = [i \in Ids |-> None]
  /\ alive = [i \in Ids |-> FALSE] /\ deleted = [i \in Ids |-> FALSE]
  /\ last_boot = [i \in Ids |-> 0] /\ ended = [i \in Ids |-> None]
  /\ thread = [s \in Slots |-> Off] /\ ready = [i \in Ids |-> "none"]
  /\ task = [t \in Tasks |-> Idle]
  /\ content = 0 /\ seen = {} /\ crashes = 0

Goto(t, pc) == task' = [task EXCEPT ![t].pc = pc]

\* The task ends: its permit and the lock on the VM go.
Finish(t) ==
  /\ task' = [task EXCEPT ![t] = Idle]
  /\ lock' = [i \in Ids |-> IF lock[i] = t THEN None ELSE lock[i]]

\* op(): no request starts once shutdown has.  A permit is taken before
\* `closing` is read, so one taken in time is waited for and one taken late
\* is given up: taking it is one step.  A request uses one boot at most.
Admits(t) ==
  /\ task[t].pc = "idle" /\ shut = "open"
  /\ node_boot + Cardinality({u \in Tasks : task[u].pc # "idle"}) < MaxBoot

\* A caller puts a disk into import/ (external).
PutImport ==
  /\ import = None /\ content < MaxContent
  /\ \A t \in Tasks : ~task[t].imports
  /\ import' = content + 1 /\ content' = content + 1
  /\ UNCHANGED <<name_of, dirs, stored, disk, node, entries, thread, ready,
                 task, seen, crashes>>

----------------------------------------------------------------------------
(* create                                                                  *)

\* Mutant: the lock on the new VM is not held.
CreateUnlocked(t, id, name, start, imports) ==
  /\ Admits(t) /\ name_of[id] = None
  /\ imports => import # None
  /\ named[name] = None
  /\ named' = [named EXCEPT ![name] = id]
  /\ name_of' = [name_of EXCEPT ![id] = name]
  /\ task' = [task EXCEPT ![t] = [op |-> "create", pc |-> "make", id |-> id,
                run |-> None, flag |-> start, imports |-> imports]]
  /\ UNCHANGED <<dirs, stored, disk, import, slots, node_boot, shut, entries,
                 thread, ready, content, seen, crashes>>

\* The name is taken with the lock on the new VM held, so nothing reaches a
\* sandbox half made.  A name in use answers 409.
Create(t, id, name, start, imports) ==
  /\ Admits(t) /\ name_of[id] = None
  /\ imports => import # None
  /\ named[name] = None
  /\ named' = [named EXCEPT ![name] = id]
  /\ name_of' = [name_of EXCEPT ![id] = name]
  /\ lock' = [lock EXCEPT ![id] = t]
  /\ task' = [task EXCEPT ![t] = [op |-> "create", pc |-> "make", id |-> id,
                run |-> None, flag |-> start, imports |-> imports]]
  /\ UNCHANGED <<dirs, stored, disk, import, slots, node_boot, shut, vm,
                 flags, thread, ready, content, seen, crashes>>

\* make: the directory is written under another name.
MakeStages(t) ==
  LET id == task[t].id IN
  /\ task[t].pc = "make" /\ (task[t].imports => import # None)
  /\ dirs' = [dirs EXCEPT ![id] = "partial"]
  /\ disk' = [disk EXCEPT ![id] = IF task[t].imports THEN import ELSE 0]
  /\ import' = IF task[t].imports THEN None ELSE import
  /\ Goto(t, "place")
  /\ UNCHANGED <<name_of, stored, node, entries, thread, ready, history>>

\* make: and renamed into place.
MakePlaces(t) ==
  /\ task[t].pc = "place"
  /\ dirs' = [dirs EXCEPT ![task[t].id] = "placed"]
  /\ IF task[t].flag THEN Goto(t, "start") /\ UNCHANGED lock ELSE Finish(t)
  /\ UNCHANGED <<name_of, stored, disk, import, node, vm, flags, thread,
                 ready, history>>

\* make fails: an imported disk goes back where it was.
MakeFails(t) ==
  LET id == task[t].id IN
  /\ \/ task[t].pc \in {"make", "place"} /\ "make" \in Fallible
     \/ task[t].pc = "make" /\ task[t].imports /\ import = None
  /\ import' = IF task[t].imports /\ dirs[id] = "partial" THEN disk[id]
               ELSE import
  /\ dirs' = [dirs EXCEPT ![id] = "absent"]
  /\ disk' = [disk EXCEPT ![id] = None]
  /\ Goto(t, "undo")
  /\ UNCHANGED <<name_of, stored, node, entries, thread, ready, history>>

\* make fails in its last sync, with the directory in place.
MakeFailsPlaced(t) ==
  /\ task[t].pc = "place" /\ "make" \in Fallible
  /\ dirs' = [dirs EXCEPT ![task[t].id] = "placed"]
  /\ Goto(t, "undo")
  /\ UNCHANGED <<name_of, stored, disk, import, node, entries, thread, ready,
                 history>>

\* create_now, after a failure: an imported disk goes back first.
Undo(t) ==
  LET id == task[t].id
      back == task[t].imports /\ dirs[id] = "placed"
  IN
  /\ task[t].pc = "undo"
  /\ import' = IF back THEN disk[id] ELSE import
  /\ disk' = [disk EXCEPT ![id] = IF back THEN None ELSE @]
  /\ Goto(t, "bury")
  /\ UNCHANGED <<name_of, dirs, stored, node, entries, thread, ready,
                 history>>

----------------------------------------------------------------------------
(* bury: the directory is renamed aside, the name forgotten, and what is   *)
(* left removed.                                                           *)

Aside(id) == [dirs EXCEPT ![id] = IF @ = "placed" THEN "deleted" ELSE @]

\* Mutant: the name is forgotten before the directory is set aside.
BuryForgetsFirst(t) ==
  /\ task[t].pc = "bury"
  /\ IF \E n \in Names : named[n] = task[t].id
       THEN /\ named' = [n \in Names |->
                 IF named[n] = task[t].id THEN None ELSE named[n]]
            /\ UNCHANGED <<dirs, task>>
       ELSE dirs' = Aside(task[t].id) /\ Goto(t, "forget") /\ UNCHANGED named
  /\ UNCHANGED <<name_of, stored, disk, import, slots, node_boot, shut,
                 entries, thread, ready, history>>

BuryRenames(t) ==
  /\ task[t].pc = "bury"
  /\ dirs' = Aside(task[t].id)
  /\ Goto(t, "forget")
  /\ UNCHANGED <<name_of, stored, disk, import, node, entries, thread, ready,
                 history>>

\* The rename fails, or the sync after it.
BuryFails(t) ==
  /\ task[t].pc = "bury" /\ "bury" \in Fallible
  /\ dirs[task[t].id] = "placed"
  /\ dirs' \in {dirs, Aside(task[t].id)}
  /\ Finish(t)
  /\ UNCHANGED <<name_of, stored, disk, import, node, vm, flags, thread,
                 ready, history>>

\* A new create may hold the name already, so only this entry is removed.
BuryForgets(t) ==
  LET id == task[t].id IN
  /\ task[t].pc = "forget"
  /\ deleted' = [deleted EXCEPT ![id] = TRUE]
  /\ named' = [n \in Names |-> IF named[n] = id THEN None ELSE named[n]]
  /\ Goto(t, "remove")
  /\ UNCHANGED <<files, slots, node_boot, shut, lock, vm, alive, last_boot,
                 ended, thread, ready, history>>

BuryRemoves(t) ==
  LET id == task[t].id IN
  /\ task[t].pc = "remove"
  /\ dirs' = [dirs EXCEPT ![id] = "absent"]
  /\ disk' = [disk EXCEPT ![id] = None]
  /\ Finish(t)
  /\ UNCHANGED <<name_of, stored, import, node, vm, flags, thread, ready,
                 history>>

----------------------------------------------------------------------------
(* delete, stop, park, restore and guest: op(), get(), then the lock.      *)

Request(t, op, name, flag) ==
  /\ Admits(t) /\ named[name] # None
  /\ op \in Ops \ {"create"}
  /\ op = "restore" => import # None
  /\ flag => op \in {"delete", "park"}
  /\ task' = [task EXCEPT ![t] = [op |-> op, pc |-> "lock",
                id |-> named[name], run |-> None, flag |-> flag,
                imports |-> op = "restore"]]
  /\ UNCHANGED <<files, node, entries, thread, ready, history>>

\* Where a task goes on once no VM runs under its lock.
Stopped(op) == CASE op = "delete"  -> "bury"
                 [] op = "park"    -> "copy"
                 [] op = "restore" -> "renumber"
                 [] op = "guest"   -> "start"
                 [] OTHER          -> "end"

Up(id) == vm[id] # None /\ alive[id]

Locked(t) == task[t].pc = "lock" /\ lock[task[t].id] = None

\* present() fails, still_stopped() fails, or the guest runs already.
Refused(t) == \/ deleted[task[t].id]
              \/ Up(task[t].id) /\ (task[t].flag \/ task[t].op = "guest")

\* stop_idle may find the sandbox in use as well.
LockLeaves(t) ==
  /\ Locked(t) /\ (Refused(t) \/ task[t].op = "idle")
  /\ Finish(t)
  /\ UNCHANGED <<files, node, vm, flags, thread, ready, history>>

\* Mutant: a VM that is no longer alive is not waited for.
LockStopsAlive(t) ==
  LET id == task[t].id IN
  /\ Locked(t) /\ ~Refused(t)
  /\ lock' = [lock EXCEPT ![id] = t]
  /\ IF ~Up(id)
       THEN Goto(t, Stopped(task[t].op)) /\ UNCHANGED <<vm, thread>>
       ELSE /\ task' = [task EXCEPT ![t].pc = "join", ![t].run = vm[id]]
            /\ thread' = IF Holds(vm[id])
                           THEN [thread EXCEPT ![vm[id].slot].told = TRUE]
                           ELSE thread
            /\ vm' = [vm EXCEPT ![id] = None]
  /\ UNCHANGED <<files, node, flags, ready, history>>

\* vm.take(), then Running::stop tells the thread to stop and joins it.
LockStops(t) ==
  LET id == task[t].id IN
  /\ Locked(t) /\ ~Refused(t)
  /\ lock' = [lock EXCEPT ![id] = t]
  /\ IF vm[id] = None
       THEN Goto(t, Stopped(task[t].op)) /\ UNCHANGED <<vm, thread>>
       ELSE /\ task' = [task EXCEPT ![t].pc = "join", ![t].run = vm[id]]
            /\ thread' = IF Holds(vm[id])
                           THEN [thread EXCEPT ![vm[id].slot].told = TRUE]
                           ELSE thread
            /\ vm' = [vm EXCEPT ![id] = None]
  /\ UNCHANGED <<files, node, flags, ready, history>>

\* Mutant: the thread is told to stop and not joined.
JoinNot(t) ==
  /\ task[t].pc = "join"
  /\ Goto(t, Stopped(task[t].op))
  /\ UNCHANGED <<files, node, entries, thread, ready, history>>

Join(t) ==
  /\ task[t].pc = "join" /\ ~Holds(task[t].run)
  /\ Goto(t, Stopped(task[t].op))
  /\ UNCHANGED <<files, node, entries, thread, ready, history>>

End(t) ==
  /\ task[t].pc = "end"
  /\ Finish(t)
  /\ UNCHANGED <<files, node, vm, flags, thread, ready, history>>

\* park_copy, answered with the boot of the last run.
Copy(t) ==
  LET id == task[t].id IN
  /\ task[t].pc = "copy"
  /\ seen' = IF Whole(id)
       THEN seen \cup
              {[id |-> id, boot |-> last_boot[id], content |-> disk[id]]}
       ELSE seen
  /\ Finish(t)
  /\ UNCHANGED <<files, node, vm, flags, thread, ready, content, crashes>>

\* Mutant: the clock alone, which has not moved on.
boot_after_clock(last) == 0

\* One past the last boot when the clock has not moved on.
boot_after(last) == last + 1

\* restore: a new boot in memory,
Renumber(t) ==
  LET boot == boot_after(node_boot) IN
  /\ task[t].pc = "renumber"
  /\ node_boot' = boot
  /\ last_boot' = [last_boot EXCEPT ![task[t].id] = boot]
  /\ Goto(t, "record")
  /\ UNCHANGED <<files, named, slots, shut, lock, vm, alive, deleted, ended,
                 thread, ready, history>>

\* Mutant: the new boot stays in memory.
RecordSkipped(t) ==
  /\ task[t].pc = "record" /\ dirs[task[t].id] = "placed"
  /\ Goto(t, "swap")
  /\ UNCHANGED <<files, node, entries, thread, ready, history>>

\* then in the record,
Record(t) ==
  LET id == task[t].id IN
  /\ task[t].pc = "record" /\ dirs[id] = "placed"
  /\ stored' = [stored EXCEPT ![id] = last_boot[id]]
  /\ Goto(t, "swap")
  /\ UNCHANGED <<name_of, dirs, disk, import, node, entries, thread, ready,
                 history>>

\* then the disk is renamed over the old one.
Swap(t) ==
  LET id == task[t].id IN
  /\ task[t].pc = "swap" /\ import # None
  /\ disk' = [disk EXCEPT ![id] = import] /\ import' = None
  /\ Finish(t)
  /\ UNCHANGED <<name_of, dirs, stored, node, vm, flags, thread, ready,
                 history>>

\* A failed save may have replaced the record already.
Saved(id, boot) ==
  {[stored EXCEPT ![id] = b] : b \in
     IF dirs[id] = "placed" THEN {stored[id], boot} ELSE {stored[id]}}
SaveMayFail(id) == "save" \in Fallible \/ dirs[id] # "placed"

RestoreFails(t) ==
  LET id == task[t].id IN
  /\ \/ /\ task[t].pc = "record" /\ SaveMayFail(id)
        /\ stored' \in Saved(id, last_boot[id])
     \/ /\ task[t].pc = "swap" /\ ("save" \in Fallible \/ import = None)
        /\ UNCHANGED stored
  /\ Finish(t)
  /\ UNCHANGED <<name_of, dirs, disk, import, node, vm, flags, thread, ready,
                 history>>

----------------------------------------------------------------------------
(* start                                                                   *)

StartFails(t) ==
  IF task[t].op = "create" THEN Goto(t, "undo") /\ UNCHANGED lock
  ELSE Finish(t)

\* Not enough memory, or as many sandboxes run as may.
StartRefused(t) ==
  /\ task[t].pc = "start" /\ (slots = {} \/ "memory" \in Fallible)
  /\ StartFails(t)
  /\ UNCHANGED <<files, node, vm, flags, thread, ready, history>>

\* The lowest slot in the code; any one here.
StartTakesSlot(t) ==
  LET boot == boot_after(node_boot) IN
  /\ task[t].pc = "start"
  /\ \E s \in slots :
       /\ slots' = slots \ {s}
       /\ task' = [task EXCEPT ![t].pc = "save", ![t].run = Run(s, boot)]
  /\ node_boot' = boot
  /\ UNCHANGED <<files, named, shut, entries, thread, ready, history>>

\* Mutant: the boot is not saved before the VM runs.
StartUnsaved(t) ==
  LET id == task[t].id
      run == task[t].run
  IN
  /\ task[t].pc = "save" /\ dirs[id] = "placed"
  /\ last_boot' = [last_boot EXCEPT ![id] = run.boot]
  /\ thread' = [thread EXCEPT ![run.slot] =
       [phase |-> "booting", id |-> id, boot |-> run.boot, told |-> FALSE]]
  /\ ready' = [ready EXCEPT ![id] = "none"]
  /\ Goto(t, "wait")
  /\ UNCHANGED <<files, node, lock, vm, alive, deleted, ended, history>>

\* save_boot before the VM runs, then the thread.
StartSaves(t) ==
  LET id == task[t].id
      run == task[t].run
  IN
  /\ task[t].pc = "save" /\ dirs[id] = "placed"
  /\ stored' = [stored EXCEPT ![id] = run.boot]
  /\ last_boot' = [last_boot EXCEPT ![id] = run.boot]
  /\ thread' = [thread EXCEPT ![run.slot] =
       [phase |-> "booting", id |-> id, boot |-> run.boot, told |-> FALSE]]
  /\ ready' = [ready EXCEPT ![id] = "none"]
  /\ Goto(t, "wait")
  /\ UNCHANGED <<name_of, dirs, disk, import, node, lock, vm, alive, deleted,
                 ended, history>>

\* Mutant: the slot is not handed back.
StartSaveFailsLeaks(t) ==
  /\ task[t].pc = "save" /\ SaveMayFail(task[t].id)
  /\ stored' \in Saved(task[t].id, task[t].run.boot)
  /\ StartFails(t)
  /\ UNCHANGED <<name_of, dirs, disk, import, node, vm, flags, thread, ready,
                 history>>

StartSaveFails(t) ==
  LET id == task[t].id
      run == task[t].run
  IN
  /\ task[t].pc = "save" /\ SaveMayFail(id)
  /\ slots' = slots \cup {run.slot}
  /\ stored' \in Saved(id, run.boot)
  /\ StartFails(t)
  /\ UNCHANGED <<name_of, dirs, disk, import, named, node_boot, shut, vm,
                 flags, thread, ready, history>>

\* No thread for the VM.
StartSpawnFails(t) ==
  LET id == task[t].id
      run == task[t].run
  IN
  /\ task[t].pc = "save" /\ dirs[id] = "placed" /\ "thread" \in Fallible
  /\ slots' = slots \cup {run.slot}
  /\ stored' = [stored EXCEPT ![id] = run.boot]
  /\ last_boot' = [last_boot EXCEPT ![id] = run.boot]
  /\ StartFails(t)
  /\ UNCHANGED <<name_of, dirs, disk, import, named, node_boot, shut, vm,
                 alive, deleted, ended, thread, ready, history>>

StartEnds(t) ==
  LET id == task[t].id IN
  /\ task[t].pc = "wait" /\ ready[id] # "none"
  /\ IF ready[id] = "ok"
       THEN vm' = [vm EXCEPT ![id] = task[t].run] /\ Finish(t)
       ELSE StartFails(t) /\ UNCHANGED vm
  /\ UNCHANGED <<files, node, flags, thread, ready, history>>

----------------------------------------------------------------------------
(* hold: the thread of a VM.                                               *)

\* release: the slot is used again once nothing of its VM is left.
Release(s) ==
  /\ thread' = [thread EXCEPT ![s] = Off]
  /\ \/ slots' = slots \cup {s}
     \/ "reclaim" \in Fallible /\ UNCHANGED slots

Boots(s) ==
  LET id == thread[s].id IN
  /\ thread[s].phase = "booting" /\ disk[id] # None
  /\ thread' = [thread EXCEPT ![s].phase = "up"]
  /\ alive' = [alive EXCEPT ![id] = TRUE]
  /\ ready' = [ready EXCEPT ![id] = "ok"]
  /\ UNCHANGED <<files, node, lock, vm, deleted, last_boot, ended, task,
                 history>>

\* Mutant: a failed boot keeps its sender, and says nothing.
BootFailsSilently(s) ==
  /\ thread[s].phase = "booting"
  /\ "boot" \in Fallible \/ disk[thread[s].id] = None
  /\ Release(s)
  /\ UNCHANGED <<files, named, node_boot, shut, entries, ready, task,
                 history>>

BootFails(s) ==
  /\ thread[s].phase = "booting"
  /\ "boot" \in Fallible \/ disk[thread[s].id] = None
  /\ ready' = [ready EXCEPT ![thread[s].id] = "err"]
  /\ Release(s)
  /\ UNCHANGED <<files, named, node_boot, shut, entries, task, history>>

\* The VM exits on its own (external).
VmExits(s) ==
  /\ thread[s].phase = "up"
  /\ thread' = [thread EXCEPT ![s].phase = "exited"]
  /\ UNCHANGED <<files, node, entries, ready, task, history>>

\* The guest writes its disk (external).
GuestWrites(s) ==
  /\ thread[s].phase \in {"booting", "up", "stopping"}
  /\ disk[thread[s].id] # None /\ content < MaxContent
  /\ content' = content + 1
  /\ disk' = [disk EXCEPT ![thread[s].id] = content + 1]
  /\ UNCHANGED <<name_of, dirs, stored, import, node, entries, thread, ready,
                 task, seen, crashes>>

\* Mutant: the thread waits for the VM to exit only.
HoldStopsOnExit(s) ==
  /\ thread[s].phase = "exited"
  /\ alive' = [alive EXCEPT ![thread[s].id] = FALSE]
  /\ thread' = [thread EXCEPT ![s].phase = "dead"]
  /\ UNCHANGED <<files, node, lock, vm, deleted, last_boot, ended, ready,
                 task, history>>

\* Told to stop, or the VM was seen to have exited.
HoldStops(s) ==
  /\ thread[s].phase = "exited" \/ (thread[s].phase = "up" /\ thread[s].told)
  /\ alive' = [alive EXCEPT ![thread[s].id] = FALSE]
  /\ thread' = [thread EXCEPT ![s].phase =
                  IF @ = "up" THEN "stopping" ELSE "dead"]
  /\ UNCHANGED <<files, node, lock, vm, deleted, last_boot, ended, ready,
                 task, history>>

\* The guest is shut down and the VM stopped; what it used is kept, if its
\* cgroup still tells.
HoldEnds(s) ==
  /\ thread[s].phase \in {"stopping", "dead"}
  /\ \/ ended' = [ended EXCEPT ![thread[s].id] = thread[s].boot]
     \/ "usage" \in Fallible /\ UNCHANGED ended
  /\ Release(s)
  /\ UNCHANGED <<files, named, node_boot, shut, lock, vm, alive, deleted,
                 last_boot, ready, task, history>>

----------------------------------------------------------------------------
(* Node::shut_down, and a restart of the agent: its end, often by a crash, *)
(* then load.                                                              *)

ShutDown ==
  /\ shut = "open" /\ shut' = "closing"
  /\ UNCHANGED <<files, named, slots, node_boot, entries, thread, ready,
                 task, history>>

\* Mutant: the requests in flight are not waited for.
ShutDownStopsAtOnce ==
  /\ shut = "closing" /\ shut' = "stopping"
  /\ thread' = [s \in Slots |->
       IF \E i \in Ids : vm[i] # None /\ vm[i].slot = s /\ Holds(vm[i])
         THEN [thread[s] EXCEPT !.told = TRUE] ELSE thread[s]]
  /\ vm' = [i \in Ids |-> None]
  /\ UNCHANGED <<files, named, slots, node_boot, lock, flags, ready, task,
                 history>>

\* All permits are back: every VM of a sandbox is told to stop.
ShutDownStops ==
  LET listed == {i \in Ids : \E n \in Names : named[n] = i}
      runs == {vm[i] : i \in {j \in listed : vm[j] # None}}
  IN
  /\ shut = "closing" /\ \A t \in Tasks : task[t].pc = "idle"
  /\ shut' = "stopping"
  /\ thread' = [s \in Slots |->
       IF \E run \in runs : run.slot = s /\ Holds(run)
         THEN [thread[s] EXCEPT !.told = TRUE] ELSE thread[s]]
  /\ vm' = [i \in Ids |-> IF i \in listed THEN None ELSE vm[i]]
  /\ UNCHANGED <<files, named, slots, node_boot, lock, flags, ready, task,
                 history>>

\* The threads told to stop are joined.
ShutDownEnds ==
  /\ shut = "stopping" /\ \A s \in Slots : ~thread[s].told
  /\ shut' = "done"
  /\ UNCHANGED <<files, named, slots, node_boot, entries, thread, ready,
                 task, history>>

\* load keeps the directories in place; those staged or set aside go.
Kept == {i \in Ids : dirs[i] = "placed"}

\* A VM never outlives the agent, and the slots are freed.
CrashAndLoad ==
  /\ crashes < MaxCrashes /\ crashes' = crashes + 1
  /\ dirs' = [i \in Ids |-> IF i \in Kept THEN "placed" ELSE "absent"]
  /\ disk' = [i \in Ids |-> IF i \in Kept THEN disk[i] ELSE None]
  /\ named' = [n \in Names |->
       IF \E i \in Kept : name_of[i] = n
         THEN CHOOSE i \in Kept : name_of[i] = n ELSE None]
  /\ slots' = Slots /\ shut' = "open"
  /\ node_boot' = Max({0} \cup {stored[i] : i \in Kept})
  /\ lock' = [i \in Ids |-> None] /\ vm' = [i \in Ids |-> None]
  /\ alive' = [i \in Ids |-> FALSE] /\ deleted' = [i \in Ids |-> FALSE]
  /\ last_boot' = [i \in Ids |-> IF i \in Kept THEN stored[i] ELSE 0]
  /\ ended' = [i \in Ids |-> None]
  /\ thread' = [s \in Slots |-> Off] /\ ready' = [i \in Ids |-> "none"]
  /\ task' = [t \in Tasks |-> Idle]
  /\ UNCHANGED <<stored, name_of, import, content, seen>>

----------------------------------------------------------------------------
Begin(t) ==
  \/ \E id \in Ids, name \in Names, start, imports \in BOOLEAN :
       Create(t, id, name, start, imports)
  \/ \E op \in Ops, name \in Names, flag \in BOOLEAN :
       Request(t, op, name, flag)

Lock(t) == LockLeaves(t) \/ LockStops(t)

Step(t) ==
  \/ MakeStages(t) \/ MakePlaces(t) \/ MakeFails(t) \/ MakeFailsPlaced(t)
  \/ Undo(t) \/ BuryRenames(t) \/ BuryFails(t) \/ BuryForgets(t)
  \/ BuryRemoves(t) \/ Join(t) \/ End(t) \/ Copy(t)
  \/ Renumber(t) \/ Record(t) \/ Swap(t) \/ RestoreFails(t)
  \/ StartRefused(t) \/ StartTakesSlot(t) \/ StartSaves(t)
  \/ StartSaveFails(t) \/ StartSpawnFails(t) \/ StartEnds(t)

Hold(s) == Boots(s) \/ BootFails(s) \/ HoldStops(s) \/ HoldEnds(s)

Next ==
  \/ \E t \in Tasks : Begin(t) \/ Lock(t) \/ Step(t)
  \/ \E s \in Slots : Hold(s) \/ VmExits(s) \/ GuestWrites(s)
  \/ PutImport \/ ShutDown \/ ShutDownStops \/ ShutDownEnds \/ CrashAndLoad

Spec == Init /\ [][Next]_vars

\* A task gets on, the lock on a VM is handed out in turn (tokio's Mutex is
\* fair), every boot and every stop ends by its own timeout, and shut_down
\* runs to its end.
Fairness ==
  /\ \A t \in Tasks : WF_vars(Step(t)) /\ SF_vars(Lock(t))
  /\ \A s \in Slots : WF_vars(Hold(s))
  /\ WF_vars(ShutDownStops) /\ WF_vars(ShutDownEnds)

FairSpec == Spec /\ Fairness

----------------------------------------------------------------------------
(* Properties                                                              *)

Live(s) == thread[s].phase # "off"
Runs == [slot : Slots, boot : 1..MaxBoot]

\* The values each variable takes.  A boot a VM runs under is never 0, which
\* says that a sandbox has not run (Entry::last_boot).
TypeOK ==
  /\ dirs \in [Ids -> {"absent", "partial", "placed", "deleted"}]
  /\ name_of \in [Ids -> Names \cup {None}]
  /\ stored \in [Ids -> 0..MaxBoot] /\ last_boot \in [Ids -> 0..MaxBoot]
  /\ disk \in [Ids -> 0..MaxContent \cup {None}]
  /\ import \in 0..MaxContent \cup {None}
  /\ named \in [Names -> Ids \cup {None}]
  /\ slots \in SUBSET Slots /\ node_boot \in 0..MaxBoot
  /\ shut \in {"open", "closing", "stopping", "done"}
  /\ lock \in [Ids -> Tasks \cup {None}] /\ vm \in [Ids -> Runs \cup {None}]
  /\ alive \in [Ids -> BOOLEAN] /\ deleted \in [Ids -> BOOLEAN]
  /\ ended \in [Ids -> 1..MaxBoot \cup {None}]
  /\ ready \in [Ids -> {"none", "ok", "err"}]
  /\ \A s \in Slots : thread[s] = Off \/ thread[s] \in
       [phase : {"booting", "up", "exited", "stopping", "dead"}, id : Ids,
        boot : 1..MaxBoot, told : BOOLEAN]
  /\ \A t \in Tasks : task[t] = Idle \/ task[t] \in
       [op : Ops, pc : {"make", "place", "undo", "bury", "forget", "remove",
                        "lock", "join", "end", "copy", "renumber", "record",
                        "swap", "start", "save", "wait"},
        id : Ids, run : Runs \cup {None}, flag : BOOLEAN, imports : BOOLEAN]

\* No two VMs run on the disk of one sandbox, whichever requests stop, boot
\* and restore it (the lock of Entry::vm, and the join in Running::stop).
OneVmPerSandbox ==
  \A s, u \in Slots :
    Live(s) /\ Live(u) /\ thread[s].id = thread[u].id => s = u

\* While a request copies, replaces or removes the disk of a sandbox, no VM
\* of that sandbox is left, not even one that exited by itself and is still
\* being taken down.
QuietWhileReplaced ==
  \A t \in Tasks :
    task[t].pc \in {"copy", "renumber", "record", "swap", "start", "save",
                    "undo", "bury", "forget", "remove"} =>
      \A s \in Slots : Live(s) => thread[s].id # task[t].id

\* Every slot is free, or on its way to a VM, or under one, and only one of
\* these, unless reclaim_slot failed on it: no failed start or boot leaks
\* one, and none is handed out twice.
SlotsConserved ==
  \A s \in Slots :
    LET claims == (IF s \in slots THEN 1 ELSE 0) + (IF Live(s) THEN 1 ELSE 0)
                  + Cardinality({t \in Tasks : task[t].pc = "save"
                                               /\ task[t].run.slot = s})
    IN claims = 1 \/ (claims = 0 /\ "reclaim" \in Fallible)

\* A guest runs on the disk of a sandbox in place, under the boot its record
\* and its entry hold (Stored: "written before the VM runs").
RunsAsRecorded ==
  \A s \in Slots : thread[s].phase \in {"up", "exited", "stopping"} =>
    /\ Whole(thread[s].id)
    /\ stored[thread[s].id] = thread[s].boot
    /\ last_boot[thread[s].id] = thread[s].boot

\* park answers the same boot for two copies of the disk of a sandbox only
\* when the copies are the same, across restarts of the agent and restores
\* of the disk, though the clock stands still (RFC 0012, park).
BootTellsDisk ==
  \A x, y \in seen : x.id = y.id /\ x.boot = y.boot => x.content = y.content

\* No two directories in place have one name, so load never has to skip
\* one.
OneDirPerName ==
  \A i, j \in Kept : name_of[i] = name_of[j] => i = j

\* A sandbox that can be named and is not being worked on has its directory
\* in place, unless a delete of it failed once the directory was set aside
\* (create_now holds the lock until make is done; bury).
NamedInPlace ==
  \A n \in Names : named[n] # None /\ lock[named[n]] = None =>
    \/ dirs[named[n]] = "placed"
    \/ dirs[named[n]] = "deleted" /\ "bury" \in Fallible

\* And its disk is in it.  Violated: a crash after a failed start has moved an
\* imported disk back leaves a directory that load takes up without one.
NamedIsWhole ==
  \A n \in Names : named[n] # None /\ lock[named[n]] = None => Whole(named[n])

\* Once shut_down returns no VM runs.
ShutdownStopsAll == shut = "done" => \A s \in Slots : ~Live(s)

\* usage answers for the last run once its VM has stopped (RFC 0012, usage):
\* with the lock free and the VM not alive, what is kept is of the run that
\* was there.  Violated: hold clears alive before it keeps what the run used.
UsageTellsLastRun ==
  \A i \in Ids : lock[i] = None /\ vm[i] # None /\ ~alive[i] =>
    ended[i] = vm[i].boot

\* Every request ends: no order of stops, boots and deletes leaves one
\* waiting for a lock, a thread or an answer that never comes.
RequestsEnd == \A t \in Tasks : task[t].pc # "idle" ~> task[t].pc = "idle"

\* A shutdown ends.
ShutdownEnds == shut = "closing" ~> shut = "done"
=============================================================================
