--------------------------- MODULE SandboxesProofs ---------------------------
(***************************************************************************)
(* Proofs about Sandboxes, for every number of requests, sandboxes, names, *)
(* slots and crashes, and for every choice of the steps that fail, but for *)
(* BootNamesDisk, which needs the saves of the record to succeed.          *)
(***************************************************************************)
EXTENDS Sandboxes, FiniteSetTheorems, WellFoundedInduction, TLAPS

----------------------------------------------------------------------------
(* The inductive invariant.                                                *)

\* A task holds the lock on the VM of its sandbox.
Holding == {"make", "place", "undo", "bury", "forget", "remove", "join",
            "end", "copy", "renumber", "record", "swap", "start", "save",
            "wait"}

\* It works on a sandbox that was made and is not being removed.
Settled == {"join", "end", "copy", "renumber", "record", "swap", "start",
            "save", "wait"}

\* It holds the lock and no VM of the sandbox may be left.
Alone == Holding \ {"join", "wait"}

Running == [slot : Slots, boot : Nat]
Phases == {"off", "booting", "up", "exited", "stopping", "dead"}
Threads == [phase : Phases, id : Ids \cup {None}, boot : Nat, told : BOOLEAN]
TaskRecords ==
  [op : Ops \cup {"none"}, pc : Holding \cup {"idle", "lock"},
   id : Ids \cup {None}, run : Running \cup {None}, flag : BOOLEAN,
   imports : BOOLEAN]

Types ==
  /\ dirs \in [Ids -> {"absent", "partial", "placed", "deleted"}]
  /\ name_of \in [Ids -> Names \cup {None}]
  /\ stored \in [Ids -> Nat] /\ last_boot \in [Ids -> Nat]
  /\ disk \in [Ids -> Nat \cup {None}] /\ import \in Nat \cup {None}
  /\ named \in [Names -> Ids \cup {None}]
  /\ slots \in SUBSET Slots /\ node_boot \in Nat
  /\ shut \in {"open", "closing", "stopping", "done"}
  /\ lock \in [Ids -> Tasks \cup {None}] /\ vm \in [Ids -> Running \cup {None}]
  /\ alive \in [Ids -> BOOLEAN] /\ deleted \in [Ids -> BOOLEAN]
  /\ ready \in [Ids -> {"none", "ok", "err"}]
  /\ thread \in [Slots -> Threads] /\ task \in [Tasks -> TaskRecords]
  /\ content \in Nat

\* A thread that runs is of a sandbox, and so is a task.
Shapes ==
  /\ \A s \in Slots : IF Live(s) THEN thread[s].id \in Ids ELSE ~thread[s].told
  /\ \A t \in Tasks : /\ task[t].pc # "idle" => task[t].id \in Ids
                      /\ task[t].pc \in {"save", "wait", "join"} =>
                           task[t].run \in Running

\* The lock is held by the task that works under it, and by no other.
Locks ==
  /\ \A t \in Tasks : task[t].pc \in Holding => lock[task[t].id] = t
  /\ \A i \in Ids : lock[i] # None =>
       task[lock[i]].id = i /\ task[lock[i]].pc \in Holding

Listed(i) == name_of[i] # None /\ named[name_of[i]] = i

InPlace(i) == \/ dirs[i] = "placed"
              \/ dirs[i] = "deleted" /\ "bury" \in Fallible

\* A name leads to the sandbox that has it, and a directory in place is
\* reached by its name.
NamesLead ==
  /\ \A n \in Names : named[n] # None => name_of[named[n]] = n
  /\ \A i \in Ids : dirs[i] = "placed" => Listed(i)

\* What a task at pc knows of the name and the directory of its sandbox.
Knows(i, pc) ==
  /\ pc # "idle" => name_of[i] # None
  /\ pc = "lock" => Listed(i) \/ deleted[i]
  /\ pc \in Holding \ {"remove"} => Listed(i)
  /\ pc = "remove" => ~Listed(i)
  /\ pc \in {"forget", "remove"} => dirs[i] # "placed"
  /\ pc \in Settled => InPlace(i)

TasksKnow == \A t \in Tasks : Knows(task[t].id, task[t].pc)

\* A sandbox nobody works on has its directory in place.
UnlockedInPlace ==
  \A i \in Ids : Listed(i) /\ lock[i] = None => InPlace(i)

Quiet(i) == \A s \in Slots : Live(s) => thread[s].id # i

Stopping == {"stopping", "done"}

\* The VM that runs in a slot is the one its entry holds, or the one the
\* task that holds the lock boots or joins, until shut_down has them all.
Owned(s) ==
  LET i == thread[s].id IN
  \/ vm[i] = Run(s, thread[s].boot)
  \/ /\ lock[i] # None /\ task[lock[i]].pc \in {"join", "wait"}
     /\ task[lock[i]].run = Run(s, thread[s].boot)
  \/ shut \in Stopping

\* The VMs of the host.
Vms ==
  /\ \A s \in Slots : Live(s) => Owned(s)
  /\ \A s, u \in Slots :
       Live(s) /\ Live(u) /\ thread[s].id = thread[u].id => s = u
  /\ \A i \in Ids : name_of[i] = None => vm[i] = None
  /\ \A t \in Tasks :
       /\ task[t].pc \in Holding => vm[task[t].id] = None
       /\ task[t].pc \in Alone => Quiet(task[t].id)
       /\ task[t].pc = "wait" /\ ready[task[t].id] = "err" =>
            Quiet(task[t].id)

\* A VM runs on the directory in place, under the boot that was saved.
Recorded ==
  \A s \in Slots : Live(s) =>
    LET i == thread[s].id IN
    /\ dirs[i] = "placed"
    /\ stored[i] = thread[s].boot /\ last_boot[i] = thread[s].boot
    /\ thread[s].phase \in {"up", "exited", "stopping"} => disk[i] # None

Saves(t, s) == task[t].pc = "save" /\ task[t].run.slot = s

\* A slot is free, on its way to a VM, or under one.
SlotsKept ==
  \A s \in Slots :
    /\ ~(s \in slots /\ Live(s))
    /\ \A t \in Tasks : Saves(t, s) => s \notin slots /\ ~Live(s)
    /\ \A t, u \in Tasks : Saves(t, s) /\ Saves(u, s) => t = u
    /\ \/ s \in slots \/ Live(s) \/ \E t \in Tasks : Saves(t, s)
       \/ "reclaim" \in Fallible

\* shut_down waits for the tasks, then for the threads it told to stop.
Shutting ==
  /\ shut \in Stopping => \A t \in Tasks : task[t].pc = "idle"
  /\ shut = "stopping" => \A s \in Slots : Live(s) => thread[s].told
  /\ shut = "done" => \A s \in Slots : ~Live(s)

IndInv ==
  /\ Types /\ Shapes /\ Locks /\ NamesLead /\ TasksKnow /\ UnlockedInPlace
  /\ Vms /\ Recorded /\ SlotsKept /\ Shutting

\* A Running is not None.
LEMMA RunNotNone ==
  ASSUME Types, NEW s \in Slots
  PROVE  Run(s, thread[s].boot) \in Running /\ Run(s, thread[s].boot) # None
<1>1. Run(s, thread[s].boot) \in Running
  BY DEF Types, Threads, Run, Running
<1> QED
  BY <1>1, SandboxesAssumption DEF Running

----------------------------------------------------------------------------
(* What the steps of a task do to it.                                      *)

\* A task goes on: its place changes and nothing else of it.
LEMMA GotoDoes ==
  ASSUME Types, NEW t \in Tasks, NEW p \in Holding, Goto(t, p)
  PROVE  /\ task' \in [Tasks -> TaskRecords]
         /\ task'[t].pc = p /\ task'[t].id = task[t].id
         /\ task'[t].op = task[t].op /\ task'[t].run = task[t].run
         /\ \A u \in Tasks : u # t => task'[u] = task[u]
<1>1. task \in [Tasks -> TaskRecords] /\ task' = [task EXCEPT ![t].pc = p]
  BY DEF Types, Goto
<1>2. task[t] \in TaskRecords
  BY <1>1
<1>3. /\ [task[t] EXCEPT !.pc = p] \in TaskRecords
      /\ task'[t] = [task[t] EXCEPT !.pc = p]
  BY <1>1, <1>2 DEF TaskRecords
<1> QED
  BY <1>1, <1>2, <1>3 DEF TaskRecords

\* A task ends: it is idle and every lock it held is free.
LEMMA FinishDoes ==
  ASSUME Types, NEW t \in Tasks, Finish(t)
  PROVE  /\ task' \in [Tasks -> TaskRecords] /\ task'[t] = Idle
         /\ \A u \in Tasks : u # t => task'[u] = task[u]
         /\ lock' \in [Ids -> Tasks \cup {None}]
         /\ \A i \in Ids : lock'[i] = IF lock[i] = t THEN None ELSE lock[i]
<1>1. Idle \in TaskRecords
  BY DEF Idle, TaskRecords, Ops
<1>2. task \in [Tasks -> TaskRecords] /\ lock \in [Ids -> Tasks \cup {None}]
  BY DEF Types
<1>3. /\ task' = [task EXCEPT ![t] = Idle]
      /\ lock' = [i \in Ids |-> IF lock[i] = t THEN None ELSE lock[i]]
  BY DEF Finish
<1> QED
  BY <1>1, <1>2, <1>3

\* Only t moves, and it keeps the lock on its sandbox or frees it.
Moves(t) ==
  /\ \A u \in Tasks : u # t => task'[u] = task[u]
  /\ \/ /\ task'[t].pc \in Holding /\ task'[t].id = task[t].id
        /\ lock' = lock
     \/ /\ task'[t] = Idle
        /\ \A i \in Ids : lock'[i] = IF lock[i] = t THEN None ELSE lock[i]

\* The two ways a task moves.
LEMMA GoesOn ==
  ASSUME IndInv, NEW t \in Tasks, NEW p \in Holding, Goto(t, p), lock' = lock
  PROVE  /\ Moves(t) /\ task' \in [Tasks -> TaskRecords]
         /\ lock' \in [Ids -> Tasks \cup {None}]
         /\ task'[t].pc = p /\ task'[t].run = task[t].run
<1>1. Types /\ lock \in [Ids -> Tasks \cup {None}]
  BY DEF IndInv, Types
<1>2. /\ task' \in [Tasks -> TaskRecords]
      /\ task'[t].pc = p /\ task'[t].id = task[t].id
      /\ task'[t].run = task[t].run
      /\ \A u \in Tasks : u # t => task'[u] = task[u]
  BY <1>1, GotoDoes
<1>3. Moves(t)
  BY <1>2, Zenon DEF Moves
<1>4. lock' \in [Ids -> Tasks \cup {None}]
  BY <1>1
<1> QED
  BY <1>2, <1>3, <1>4

\* A task that finishes is idle and holds no lock of its own.
LEMMA Ends ==
  ASSUME IndInv, NEW t \in Tasks, Finish(t)
  PROVE  /\ Moves(t) /\ task' \in [Tasks -> TaskRecords]
         /\ lock' \in [Ids -> Tasks \cup {None}] /\ task'[t].pc = "idle"
<1>1. /\ task' \in [Tasks -> TaskRecords] /\ task'[t] = Idle
      /\ \A u \in Tasks : u # t => task'[u] = task[u]
      /\ lock' \in [Ids -> Tasks \cup {None}]
      /\ \A i \in Ids : lock'[i] = IF lock[i] = t THEN None ELSE lock[i]
  BY FinishDoes DEF IndInv
<1>2. Moves(t)
  BY <1>1, Zenon DEF Moves
<1> QED
  BY <1>1, <1>2 DEF Idle

\* A task that goes on holds its lock, and one that ends frees it.
LEMMA MovesLocks ==
  ASSUME IndInv, Types', NEW t \in Tasks, task[t].pc \in Holding, Moves(t)
  PROVE  /\ Locks'
         /\ \A i \in Ids : i # task[t].id => lock'[i] = lock[i]
<1> DEFINE id == task[t].id
<1>1. /\ None \notin Tasks /\ id \in Ids /\ lock[id] = t
      /\ lock \in [Ids -> Tasks \cup {None}]
      /\ \A i \in Ids : lock[i] = t => i = id
  BY SandboxesAssumption DEF IndInv, Types, Shapes, Locks, Holding
<1>2. \A i \in Ids : i # id => lock'[i] = lock[i]
  BY <1>1 DEF Moves
<1>3. CASE task'[t].pc \in Holding /\ task'[t].id = id /\ lock' = lock
  <2>1. \A u \in Tasks : task'[u].id = task[u].id
                         /\ (task'[u].pc \in Holding <=> task[u].pc \in Holding)
    BY <1>3 DEF Moves
  <2> QED
    BY <1>1, <1>2, <1>3, <2>1 DEF Locks, IndInv
<1>4. CASE /\ task'[t] = Idle
           /\ \A i \in Ids : lock'[i] = IF lock[i] = t THEN None ELSE lock[i]
  <2>1. task'[t].pc = "idle"
    BY <1>4 DEF Idle
  <2>2. \A u \in Tasks : task'[u].pc \in Holding => lock'[task'[u].id] = u
    <3> SUFFICES ASSUME NEW u \in Tasks, task'[u].pc \in Holding
                 PROVE  lock'[task'[u].id] = u
      OBVIOUS
    <3>1. u # t /\ task'[u] = task[u]
      BY <2>1 DEF Moves, Holding
    <3>2. lock[task[u].id] = u /\ task[u].id \in Ids
      BY <3>1 DEF IndInv, Locks, Shapes, Holding
    <3> QED
      BY <3>1, <3>2, <1>4
  <2>3. \A i \in Ids : lock'[i] # None =>
          task'[lock'[i]].id = i /\ task'[lock'[i]].pc \in Holding
    <3> SUFFICES ASSUME NEW i \in Ids, lock'[i] # None
                 PROVE  task'[lock'[i]].id = i /\ task'[lock'[i]].pc \in Holding
      OBVIOUS
    <3>1. lock'[i] = lock[i] /\ lock[i] # t /\ lock[i] \in Tasks
      BY <1>1, <1>4
    <3> QED
      BY <3>1 DEF Moves, IndInv, Locks
  <2> QED
    BY <1>2, <2>2, <2>3 DEF Locks
<1> QED
  BY <1>2, <1>3, <1>4 DEF Moves

\* Nothing that the slots depend on changes.
LEMMA SameSlots ==
  ASSUME SlotsKept, NEW t \in Tasks,
         \A u \in Tasks : u # t => task'[u] = task[u],
         task[t].pc # "save", task'[t].pc # "save",
         slots' = slots, \A s \in Slots : Live(s)' <=> Live(s)
  PROVE  SlotsKept'
<1>1. \A u \in Tasks, s \in Slots : Saves(u, s)' <=> Saves(u, s)
  BY DEF Saves
<1> QED
  BY <1>1 DEF SlotsKept

\* A task under whose lock no VM is left changes what is stored of the
\* sandbox, and goes on or ends.
LEMMA QuietStep ==
  ASSUME IndInv, NEW t \in Tasks, task[t].pc \in Holding, Types', Moves(t),
         NEW id \in Ids, id = task[t].id, Quiet(id),
         UNCHANGED <<named, name_of, shut, thread, vm, deleted, ready>>,
         \A j \in Ids : j # id =>
           /\ dirs'[j] = dirs[j] /\ stored'[j] = stored[j]
           /\ last_boot'[j] = last_boot[j] /\ disk'[j] = disk[j],
         task'[t].pc \in (Alone \ {"remove"}) \cup {"idle"},
         task'[t].pc = "save" => task'[t].run \in Running,
         task'[t].pc = "forget" => dirs'[id] # "placed",
         task'[t].pc \in Settled => InPlace(id)',
         task[t].pc = "remove" =>
           task'[t].pc = "idle" /\ dirs'[id] # "placed",
         task[t].pc # "remove" /\ task'[t].pc = "idle" =>
           InPlace(id)',
         SlotsKept'
  PROVE  IndInv'
<1>1. /\ id \in Ids /\ lock[id] = t /\ name_of[id] # None /\ vm[id] = None
      /\ Quiet(id) /\ (task[t].pc # "remove" <=> Listed(id))
      /\ task[t].pc \in Holding
  BY DEF IndInv, Shapes, Locks, TasksKnow, Knows, Vms, Holding
<1>2. \A u \in Tasks : u # t => /\ task'[u] = task[u]
                                /\ task[u].pc \in Holding => task[u].id # id
  BY <1>1 DEF Moves, IndInv, Locks
<1>3. /\ task'[t].pc # "idle" => task'[t].id = id /\ task'[t].pc \in Holding
      /\ task'[t].pc \notin {"wait", "join", "lock"}
  BY DEF Moves, Idle, Alone, Holding
<1>4. Locks' /\ \A i \in Ids : i # id => lock'[i] = lock[i]
  BY <1>1, MovesLocks
<1>5. \A i \in Ids : /\ Listed(i)' <=> Listed(i)
                     /\ i # id => (InPlace(i)' <=> InPlace(i))
  BY DEF Listed, InPlace
<1>6. Shapes'
  BY <1>1, <1>2, <1>3 DEF IndInv, Shapes, Live, Holding
<1>7. NamesLead'
  BY <1>1, <1>5 DEF IndInv, NamesLead
<1>8. TasksKnow'
  <2> SUFFICES ASSUME NEW u \in Tasks
               PROVE  Knows(task[u].id, task[u].pc)'
    BY DEF TasksKnow
  <2>1. CASE u # t
    <3>1. /\ task[u].pc # "idle" => task[u].id \in Ids
          /\ Knows(task[u].id, task[u].pc) /\ task'[u] = task[u]
      BY <2>1, <1>2 DEF IndInv, Shapes, TasksKnow
    <3> QED
      BY <2>1, <3>1, <1>2, <1>5 DEF Knows, Holding, Settled
  <2>2. CASE u = t
    <3>1. task'[t].pc = "idle" => Knows(task[t].id, task[t].pc)'
      BY DEF Knows, Holding, Settled
    <3>2. /\ task'[t].pc # "idle" => task[t].pc # "remove" /\ Listed(id)'
          /\ task'[t].pc # "remove"
      BY <1>1, <1>5 DEF Alone, Holding
    <3>3. task'[t].pc # "idle" => Knows(task[t].id, task[t].pc)'
      <4> SUFFICES ASSUME task'[t].pc # "idle"
                   PROVE  Knows(task[t].id, task[t].pc)'
        OBVIOUS
      <4>1. task'[t].id = id /\ task'[t].pc # "lock"
        BY <1>3
      <4> QED
        BY <4>1, <3>2, <1>1 DEF Knows, Holding, Settled, Listed, InPlace
    <3> QED
      BY <2>2, <3>1, <3>3
  <2> QED
    BY <2>1, <2>2
<1>9. UnlockedInPlace'
  <2> SUFFICES ASSUME NEW i \in Ids, Listed(i)', lock'[i] = None
               PROVE  InPlace(i)'
    BY DEF UnlockedInPlace
  <2>1. CASE i # id
    BY <2>1, <1>4, <1>5 DEF IndInv, UnlockedInPlace
  <2>2. CASE i = id
    <3>1. task'[t].pc = "idle"
      BY <2>2, <1>1, SandboxesAssumption DEF Moves, Idle
    <3> QED
      BY <2>2, <3>1, <1>1, <1>5
  <2> QED
    BY <2>1, <2>2
<1>10. Vms'
  <2>1. \A s \in Slots : /\ Live(s)' <=> Live(s)
                         /\ Live(s) => thread[s].id # id /\ thread[s].id \in Ids
    BY <1>1 DEF Live, Quiet, IndInv, Shapes
  <2>2. \A i : Quiet(i)' <=> Quiet(i)
    BY <2>1 DEF Quiet
  <2>3. \A s \in Slots : Live(s)' => Owned(s)'
    <3> SUFFICES ASSUME NEW s \in Slots, Live(s) PROVE Owned(s)'
      BY <2>1
    <3>1. thread[s].id \in Ids /\ lock'[thread[s].id] = lock[thread[s].id]
      BY <2>1, <1>4
    <3>2. lock[thread[s].id] # None =>
            task'[lock[thread[s].id]] = task[lock[thread[s].id]]
      <4>1. lock[thread[s].id] # None => lock[thread[s].id] \in Tasks \ {t}
        BY <1>1, <2>1, <3>1 DEF IndInv, Types, Locks
      <4> QED
        BY <4>1, <1>2
    <3>3. Owned(s)
      BY DEF IndInv, Vms
    <3> QED
      BY <3>1, <3>2, <3>3 DEF Owned
  <2>4. \A u \in Tasks :
          /\ task'[u].pc \in Holding => vm'[task'[u].id] = None
          /\ task'[u].pc \in Alone => Quiet(task'[u].id)
          /\ task'[u].pc = "wait" /\ ready'[task'[u].id] = "err" =>
               Quiet(task'[u].id)
    BY <1>1, <1>2, <1>3 DEF IndInv, Vms, Alone, Holding
  <2>5. \A u \in Tasks : Quiet(task'[u].id) => (Quiet(task[u].id))'
    BY <2>2 DEF Quiet, Live
  <2> QED
    BY <2>1, <2>3, <2>4, <2>5 DEF IndInv, Vms
<1>11. Recorded'
  BY <1>1 DEF IndInv, Recorded, Live, Quiet, Shapes
<1>12. Shutting'
  BY <1>1, <1>2, <1>3 DEF IndInv, Shutting, Live, Holding
<1> QED
  BY <1>4, <1>6, <1>7, <1>8, <1>9, <1>10, <1>11, <1>12 DEF IndInv

\* The same for a task that is alone with its sandbox.
LEMMA AloneStep ==
  ASSUME IndInv, NEW t \in Tasks, task[t].pc \in Alone, Types', Moves(t),
         NEW id \in Ids, id = task[t].id,
         UNCHANGED <<named, name_of, shut, thread, vm, deleted, ready>>,
         \A j \in Ids : j # id =>
           /\ dirs'[j] = dirs[j] /\ stored'[j] = stored[j]
           /\ last_boot'[j] = last_boot[j] /\ disk'[j] = disk[j],
         task'[t].pc \in (Alone \ {"remove"}) \cup {"idle"},
         task'[t].pc = "save" => task'[t].run \in Running,
         task'[t].pc = "forget" => dirs'[id] # "placed",
         task'[t].pc \in Settled => InPlace(id)',
         task[t].pc = "remove" =>
           task'[t].pc = "idle" /\ dirs'[id] # "placed",
         task[t].pc # "remove" /\ task'[t].pc = "idle" =>
           InPlace(id)',
         SlotsKept'
  PROVE  IndInv'
<1>1. task[t].pc \in Holding /\ Quiet(id)
  BY DEF IndInv, Vms, Alone
<1> QED
  BY <1>1, QuietStep

\* make stages the directory.
LEMMA MakeStagesKeeps ==
  ASSUME IndInv, NEW t \in Tasks, MakeStages(t) PROVE IndInv'
<1>1. PICK id \in Ids : id = task[t].id
  BY DEF IndInv, Shapes, MakeStages
<1>2. /\ task[t].pc = "make" /\ Goto(t, "place") /\ lock' = lock
      /\ UNCHANGED <<name_of, stored, named, slots, node_boot, shut, vm, alive,
                     deleted, last_boot, thread, ready, content>>
      /\ dirs' = [dirs EXCEPT ![id] = "partial"]
      /\ disk' = [disk EXCEPT ![id] = IF task[t].imports THEN import ELSE 0]
      /\ import' = IF task[t].imports THEN None ELSE import
  BY <1>1 DEF MakeStages, node, flags, entries, history
<1>3. /\ Moves(t) /\ task' \in [Tasks -> TaskRecords]
      /\ lock' \in [Ids -> Tasks \cup {None}] /\ task'[t].pc = "place"
  BY <1>2, GoesOn DEF Holding
<1>4. Types'
  <2>1. /\ dirs' \in [Ids -> {"absent", "partial", "placed", "deleted"}]
        /\ disk' \in [Ids -> Nat \cup {None}] /\ import' \in Nat \cup {None}
    BY <1>2 DEF IndInv, Types
  <2> QED
    BY <1>2, <1>3, <2>1, Zenon DEF IndInv, Types
<1>5. SlotsKept'
  BY <1>2, <1>3, SameSlots DEF IndInv, Moves, Live
<1>6. \A j \in Ids : j # id => dirs'[j] = dirs[j] /\ disk'[j] = disk[j]
  BY <1>2 DEF IndInv, Types
<1> QED
  BY <1>1, <1>2, <1>3, <1>4, <1>5, <1>6, AloneStep
    DEF Alone, Holding, Settled

\* make puts the directory into place.
LEMMA MakePlacesKeeps ==
  ASSUME IndInv, NEW t \in Tasks, MakePlaces(t) PROVE IndInv'
<1>1. PICK id \in Ids : id = task[t].id
  BY DEF IndInv, Shapes, MakePlaces
<1>2. /\ task[t].pc = "place"
      /\ (Goto(t, "start") /\ lock' = lock) \/ Finish(t)
      /\ UNCHANGED <<name_of, stored, disk, import, named, slots, node_boot,
                     shut, vm, alive, deleted, last_boot, thread, ready,
                     content>>
      /\ dirs' = [dirs EXCEPT ![id] = "placed"]
  BY <1>1 DEF MakePlaces, node, flags, history
<1>3. /\ Moves(t) /\ task' \in [Tasks -> TaskRecords]
      /\ lock' \in [Ids -> Tasks \cup {None}]
      /\ task'[t].pc \in {"start", "idle"}
  BY <1>2, GoesOn, Ends DEF Holding
<1>4. Types'
  <2>1. dirs' \in [Ids -> {"absent", "partial", "placed", "deleted"}]
    BY <1>2 DEF IndInv, Types
  <2> QED
    BY <1>2, <1>3, <2>1, Zenon DEF IndInv, Types
<1>5. SlotsKept'
  BY <1>2, <1>3, SameSlots DEF IndInv, Moves, Live
<1>6. dirs'[id] = "placed" /\ \A j \in Ids : j # id => dirs'[j] = dirs[j]
  BY <1>2 DEF IndInv, Types
<1>7. InPlace(id)'
  BY <1>6 DEF InPlace
<1> QED
  BY <1>1, <1>2, <1>3, <1>4, <1>5, <1>6, <1>7, AloneStep
    DEF Alone, Holding

\* make fails before the directory is in place, or in its last sync.
LEMMA MakeFailsKeeps ==
  ASSUME IndInv, NEW t \in Tasks, MakeFails(t) \/ MakeFailsPlaced(t)
  PROVE  IndInv'
<1>1. PICK id \in Ids : id = task[t].id
  BY DEF IndInv, Shapes, MakeFails, MakeFailsPlaced
<1>2. /\ task[t].pc \in {"make", "place"} /\ Goto(t, "undo") /\ lock' = lock
      /\ UNCHANGED <<name_of, stored, named, slots, node_boot, shut, vm, alive,
                     deleted, last_boot, thread, ready, content>>
      /\ \/ /\ import' = (IF task[t].imports /\ dirs[id] = "partial"
                            THEN disk[id] ELSE import)
            /\ dirs' = [dirs EXCEPT ![id] = "absent"]
            /\ disk' = [disk EXCEPT ![id] = None]
         \/ /\ dirs' = [dirs EXCEPT ![id] = "placed"]
            /\ disk' = disk /\ import' = import
  BY <1>1 DEF MakeFails, MakeFailsPlaced, node, flags, entries, history
<1>3. /\ Moves(t) /\ task' \in [Tasks -> TaskRecords]
      /\ lock' \in [Ids -> Tasks \cup {None}] /\ task'[t].pc = "undo"
  BY <1>2, GoesOn DEF Holding
<1>4. Types'
  <2>1. /\ dirs' \in [Ids -> {"absent", "partial", "placed", "deleted"}]
        /\ disk' \in [Ids -> Nat \cup {None}] /\ import' \in Nat \cup {None}
    BY <1>2 DEF IndInv, Types
  <2> QED
    BY <1>2, <1>3, <2>1, Zenon DEF IndInv, Types
<1>5. SlotsKept'
  BY <1>2, <1>3, SameSlots DEF IndInv, Moves, Live
<1>6. \A j \in Ids : j # id => dirs'[j] = dirs[j] /\ disk'[j] = disk[j]
  BY <1>2 DEF IndInv, Types
<1> QED
  BY <1>1, <1>2, <1>3, <1>4, <1>5, <1>6, AloneStep
    DEF Alone, Holding, Settled

\* create_now puts an imported disk back.
LEMMA UndoKeeps == ASSUME IndInv, NEW t \in Tasks, Undo(t) PROVE IndInv'
<1>1. PICK id \in Ids : id = task[t].id
  BY DEF IndInv, Shapes, Undo
<1>2. /\ task[t].pc = "undo" /\ Goto(t, "bury") /\ lock' = lock
      /\ UNCHANGED <<name_of, dirs, stored, named, slots, node_boot, shut, vm,
                     alive, deleted, last_boot, thread, ready, content>>
      /\ import' \in {disk[id], import}
      /\ \/ disk' = disk
         \/ disk' = [disk EXCEPT ![id] = None]
  BY <1>1 DEF Undo, node, flags, entries, history, IndInv, Types
<1>3. /\ Moves(t) /\ task' \in [Tasks -> TaskRecords]
      /\ lock' \in [Ids -> Tasks \cup {None}] /\ task'[t].pc = "bury"
  BY <1>2, GoesOn DEF Holding
<1>4. Types'
  <2>1. disk' \in [Ids -> Nat \cup {None}] /\ import' \in Nat \cup {None}
    BY <1>2 DEF IndInv, Types
  <2> QED
    BY <1>2, <1>3, <2>1, Zenon DEF IndInv, Types
<1>5. SlotsKept'
  BY <1>2, <1>3, SameSlots DEF IndInv, Moves, Live
<1>6. \A j \in Ids : j # id => dirs'[j] = dirs[j] /\ disk'[j] = disk[j]
  BY <1>2 DEF IndInv, Types
<1> QED
  BY <1>1, <1>2, <1>3, <1>4, <1>5, <1>6, AloneStep
    DEF Alone, Holding, Settled

\* bury sets the directory aside.
LEMMA BuryRenamesKeeps ==
  ASSUME IndInv, NEW t \in Tasks, BuryRenames(t) PROVE IndInv'
<1>1. PICK id \in Ids : id = task[t].id
  BY DEF IndInv, Shapes, BuryRenames
<1>2. /\ task[t].pc = "bury" /\ Goto(t, "forget") /\ lock' = lock
      /\ UNCHANGED <<name_of, stored, disk, import, named, slots, node_boot,
                     shut, vm, alive, deleted, last_boot, thread, ready,
                     content>>
      /\ dirs' = [dirs EXCEPT ![id] = IF @ = "placed" THEN "deleted" ELSE @]
  BY <1>1 DEF BuryRenames, Aside, node, flags, entries, history
<1>3. /\ Moves(t) /\ task' \in [Tasks -> TaskRecords]
      /\ lock' \in [Ids -> Tasks \cup {None}] /\ task'[t].pc = "forget"
  BY <1>2, GoesOn DEF Holding
<1>4. Types'
  <2>1. dirs' \in [Ids -> {"absent", "partial", "placed", "deleted"}]
    BY <1>2 DEF IndInv, Types
  <2> QED
    BY <1>2, <1>3, <2>1, Zenon DEF IndInv, Types
<1>5. SlotsKept'
  BY <1>2, <1>3, SameSlots DEF IndInv, Moves, Live
<1>6. dirs'[id] # "placed" /\ \A j \in Ids : j # id => dirs'[j] = dirs[j]
  BY <1>2 DEF IndInv, Types
<1> QED
  BY <1>1, <1>2, <1>3, <1>4, <1>5, <1>6, AloneStep
    DEF Alone, Holding, Settled

\* bury fails: the directory is in place or aside, and still has its name.
LEMMA BuryFailsKeeps ==
  ASSUME IndInv, NEW t \in Tasks, BuryFails(t) PROVE IndInv'
<1>1. PICK id \in Ids : id = task[t].id
  BY DEF IndInv, Shapes, BuryFails
<1>2. /\ task[t].pc = "bury" /\ Finish(t) /\ "bury" \in Fallible
      /\ UNCHANGED <<name_of, stored, disk, import, named, slots, node_boot,
                     shut, vm, alive, deleted, last_boot, thread, ready,
                     content>>
      /\ dirs[id] = "placed"
      /\ \/ dirs' = dirs
         \/ dirs' = [dirs EXCEPT ![id] = IF @ = "placed" THEN "deleted" ELSE @]
  BY <1>1 DEF BuryFails, Aside, node, flags, history
<1>3. /\ Moves(t) /\ task' \in [Tasks -> TaskRecords]
      /\ lock' \in [Ids -> Tasks \cup {None}] /\ task'[t].pc = "idle"
  BY <1>2, Ends
<1>4. Types'
  <2>1. dirs' \in [Ids -> {"absent", "partial", "placed", "deleted"}]
    BY <1>2 DEF IndInv, Types
  <2> QED
    BY <1>2, <1>3, <2>1, Zenon DEF IndInv, Types
<1>5. SlotsKept'
  BY <1>2, <1>3, SameSlots DEF IndInv, Moves, Live
<1>6. /\ dirs'[id] \in {"placed", "deleted"}
      /\ \A j \in Ids : j # id => dirs'[j] = dirs[j]
  BY <1>2 DEF IndInv, Types
<1>7. InPlace(id)'
  BY <1>2, <1>6 DEF InPlace
<1> QED
  BY <1>1, <1>2, <1>3, <1>4, <1>5, <1>6, <1>7, AloneStep
    DEF Alone, Holding, Settled

\* bury removes what is left.
LEMMA BuryRemovesKeeps ==
  ASSUME IndInv, NEW t \in Tasks, BuryRemoves(t) PROVE IndInv'
<1>1. PICK id \in Ids : id = task[t].id
  BY DEF IndInv, Shapes, BuryRemoves
<1>2. /\ task[t].pc = "remove" /\ Finish(t)
      /\ UNCHANGED <<name_of, stored, import, named, slots, node_boot, shut,
                     vm, alive, deleted, last_boot, thread, ready, content>>
      /\ dirs' = [dirs EXCEPT ![id] = "absent"]
      /\ disk' = [disk EXCEPT ![id] = None]
  BY <1>1 DEF BuryRemoves, node, flags, history
<1>3. /\ Moves(t) /\ task' \in [Tasks -> TaskRecords]
      /\ lock' \in [Ids -> Tasks \cup {None}] /\ task'[t].pc = "idle"
  BY <1>2, Ends
<1>4. Types'
  <2>1. /\ dirs' \in [Ids -> {"absent", "partial", "placed", "deleted"}]
        /\ disk' \in [Ids -> Nat \cup {None}]
    BY <1>2 DEF IndInv, Types
  <2> QED
    BY <1>2, <1>3, <2>1, Zenon DEF IndInv, Types
<1>5. SlotsKept'
  BY <1>2, <1>3, SameSlots DEF IndInv, Moves, Live
<1>6. /\ dirs'[id] = "absent"
      /\ \A j \in Ids : j # id => dirs'[j] = dirs[j] /\ disk'[j] = disk[j]
  BY <1>2 DEF IndInv, Types
<1> QED
  BY <1>1, <1>2, <1>3, <1>4, <1>5, <1>6, AloneStep
    DEF Alone, Holding, Settled

\* The answers that leave the files alone: end, park, and a start refused.
LEMMA AnswersKeep ==
  ASSUME IndInv, NEW t \in Tasks, End(t) \/ Copy(t) \/ StartRefused(t)
  PROVE  IndInv'
<1>1. PICK id \in Ids : id = task[t].id
  BY DEF IndInv, Shapes, End, Copy, StartRefused
<1>2. /\ task[t].pc \in {"end", "copy", "start"}
      /\ (Goto(t, "undo") /\ lock' = lock) \/ Finish(t)
      /\ UNCHANGED <<dirs, name_of, stored, disk, import, named, slots,
                     node_boot, shut, vm, alive, deleted, last_boot, thread,
                     ready, content>>
  BY <1>1 DEF End, Copy, StartRefused, StartFails, files, node, flags, history
<1>3. /\ Moves(t) /\ task' \in [Tasks -> TaskRecords]
      /\ lock' \in [Ids -> Tasks \cup {None}]
      /\ task'[t].pc \in {"undo", "idle"}
  BY <1>2, GoesOn, Ends DEF Holding
<1>4. Types'
  BY <1>2, <1>3, Zenon DEF IndInv, Types
<1>5. SlotsKept'
  BY <1>2, <1>3, SameSlots DEF IndInv, Moves, Live
<1>6. InPlace(id)'
  BY <1>1, <1>2 DEF InPlace, IndInv, TasksKnow, Knows, Settled
<1> QED
  BY <1>1, <1>2, <1>3, <1>4, <1>5, <1>6, AloneStep
    DEF Alone, Holding, Settled

\* restore: the new boot, in memory and in the record, and the new disk.
LEMMA RestoresKeep ==
  ASSUME IndInv, NEW t \in Tasks,
         Renumber(t) \/ Record(t) \/ Swap(t) \/ RestoreFails(t)
  PROVE  IndInv'
<1>1. PICK id \in Ids : id = task[t].id
  BY DEF IndInv, Shapes, Renumber, Record, Swap, RestoreFails
<1>2. /\ task[t].pc \in {"renumber", "record", "swap"}
      /\ \/ \E p \in {"record", "swap"} : Goto(t, p) /\ lock' = lock
         \/ Finish(t)
      /\ UNCHANGED <<dirs, name_of, named, slots, shut, vm, alive, deleted,
                     thread, ready, content>>
  BY DEF Renumber, Record, Swap, RestoreFails, files, node, flags, entries,
         history
<1>3. /\ node_boot' \in Nat
      /\ \E b \in Nat : stored' = [stored EXCEPT ![id] = b]
      /\ \E b \in Nat : last_boot' = [last_boot EXCEPT ![id] = b]
      /\ \E c \in Nat \cup {None} : disk' = [disk EXCEPT ![id] = c]
      /\ import' \in Nat \cup {None}
  <2>1. /\ stored \in [Ids -> Nat] /\ last_boot \in [Ids -> Nat]
        /\ disk \in [Ids -> Nat \cup {None}] /\ node_boot \in Nat
        /\ import \in Nat \cup {None}
    BY DEF IndInv, Types
  <2>2. /\ stored = [stored EXCEPT ![id] = stored[id]]
        /\ last_boot = [last_boot EXCEPT ![id] = last_boot[id]]
        /\ disk = [disk EXCEPT ![id] = disk[id]]
        /\ stored[id] \in Nat /\ last_boot[id] \in Nat
        /\ disk[id] \in Nat \cup {None}
    BY <2>1
  <2>3. CASE Renumber(t)
    <3>1. /\ node_boot' = node_boot + 1 /\ stored' = stored /\ disk' = disk
          /\ import' = import
          /\ last_boot' = [last_boot EXCEPT ![id] = node_boot + 1]
      BY <1>1, <2>3 DEF Renumber, boot_after, files
    <3>2. node_boot + 1 \in Nat
      BY <2>1
    <3> QED
      BY <3>1, <3>2, <2>1, <2>2, Zenon
  <2>4. CASE Record(t)
    <3>1. /\ node_boot' = node_boot /\ disk' = disk /\ import' = import
          /\ last_boot' = last_boot
          /\ stored' = [stored EXCEPT ![id] = last_boot[id]]
      BY <1>1, <2>4 DEF Record, node, entries, flags
    <3> QED
      BY <3>1, <2>1, <2>2
  <2>5. CASE Swap(t)
    <3>1. /\ node_boot' = node_boot /\ stored' = stored /\ import' = None
          /\ last_boot' = last_boot /\ disk' = [disk EXCEPT ![id] = import]
      BY <1>1, <2>5 DEF Swap, node, flags
    <3> QED
      BY <3>1, <2>1, <2>2
  <2>6. CASE RestoreFails(t)
    <3>1. /\ node_boot' = node_boot /\ disk' = disk /\ import' = import
          /\ last_boot' = last_boot
      BY <2>6 DEF RestoreFails, node, flags
    <3>2. stored' = stored \/ stored' \in Saved(id, last_boot[id])
      BY <1>1, <2>6 DEF RestoreFails
    <3>3. stored' = stored \/ \E b \in {stored[id], last_boot[id]} :
                                stored' = [stored EXCEPT ![id] = b]
      BY <3>2 DEF Saved
    <3> QED
      BY <3>1, <3>3, <2>1, <2>2
  <2> QED
    BY <2>3, <2>4, <2>5, <2>6
<1>4. /\ Moves(t) /\ task' \in [Tasks -> TaskRecords]
      /\ lock' \in [Ids -> Tasks \cup {None}]
      /\ task'[t].pc \in {"record", "swap", "idle"}
  BY <1>2, GoesOn, Ends DEF Holding
<1>5. Types'
  <2>1. /\ stored' \in [Ids -> Nat] /\ last_boot' \in [Ids -> Nat]
        /\ disk' \in [Ids -> Nat \cup {None}]
    BY <1>3 DEF IndInv, Types
  <2> QED
    BY <1>2, <1>3, <1>4, <2>1, Zenon DEF IndInv, Types
<1>6. SlotsKept'
  BY <1>2, <1>4, SameSlots DEF IndInv, Moves, Live
<1>7. InPlace(id)'
  BY <1>1, <1>2 DEF InPlace, IndInv, TasksKnow, Knows, Settled
<1>8. \A j \in Ids : j # id =>
        /\ stored'[j] = stored[j] /\ last_boot'[j] = last_boot[j]
        /\ disk'[j] = disk[j]
  BY <1>3 DEF IndInv, Types
<1> QED
  BY <1>1, <1>2, <1>4, <1>5, <1>6, <1>7, <1>8, AloneStep
    DEF Alone, Holding, Settled

\* A slot is taken for a VM: it leaves the free ones.
LEMMA StartTakesSlotKeeps ==
  ASSUME IndInv, NEW t \in Tasks, StartTakesSlot(t) PROVE IndInv'
<1>1. PICK id \in Ids : id = task[t].id
  BY DEF IndInv, Shapes, StartTakesSlot
<1>2. PICK s \in slots :
        /\ slots' = slots \ {s}
        /\ task' = [task EXCEPT ![t].pc = "save",
                                ![t].run = Run(s, node_boot + 1)]
  BY DEF StartTakesSlot, boot_after
<1>3. /\ task[t].pc = "start" /\ node_boot' = node_boot + 1 /\ lock' = lock
      /\ UNCHANGED <<dirs, name_of, stored, disk, import, named, shut, vm,
                     alive, deleted, last_boot, thread, ready, content>>
  BY DEF StartTakesSlot, boot_after, files, entries, flags, history
<1>4. Run(s, node_boot + 1) \in Running /\ s \in Slots
  BY DEF Run, Running, IndInv, Types
<1>5. /\ task' \in [Tasks -> TaskRecords] /\ task'[t].pc = "save"
      /\ task'[t].run = Run(s, node_boot + 1) /\ task'[t].id = task[t].id
      /\ \A u \in Tasks : u # t => task'[u] = task[u]
  <2>1. task[t] \in TaskRecords /\ task \in [Tasks -> TaskRecords]
    BY DEF IndInv, Types
  <2>2. task'[t] = [task[t] EXCEPT !.pc = "save",
                                   !.run = Run(s, node_boot + 1)]
    BY <1>2, <2>1
  <2> HIDE DEF Run
  <2>3. [task[t] EXCEPT !.pc = "save", !.run = Run(s, node_boot + 1)]
          \in TaskRecords
    BY <2>1, <1>4 DEF TaskRecords, Holding
  <2> QED
    BY <1>2, <2>1, <2>2, <2>3 DEF TaskRecords
<1>6. Moves(t)
  BY <1>3, <1>5 DEF Moves, Holding
<1>7. Types'
  <2>1. slots' \in SUBSET Slots /\ node_boot' \in Nat
    BY <1>2, <1>3 DEF IndInv, Types
  <2> QED
    BY <1>3, <1>5, <2>1, Zenon DEF IndInv, Types
<1>8. SlotsKept'
  <2>1. \A x \in Slots : Live(x)' = Live(x)
    BY <1>3 DEF Live
  <2>2. \A u \in Tasks, x \in Slots :
          Saves(u, x)' <=> (IF u = t THEN x = s ELSE Saves(u, x))
    BY <1>5 DEF Saves, Run
  <2>3. \A x \in Slots : ~Saves(t, x)
    BY <1>3 DEF Saves
  <2> QED
    BY <1>2, <1>4, <2>1, <2>2, <2>3 DEF IndInv, SlotsKept
<1>9. InPlace(id)'
  BY <1>1, <1>3 DEF InPlace, IndInv, TasksKnow, Knows, Settled
<1> QED
  BY <1>1, <1>3, <1>4, <1>5, <1>6, <1>7, <1>8, <1>9, AloneStep
    DEF Alone, Holding, Settled

\* A start fails before there is a thread: its slot is free again.
LEMMA StartFailsKeeps ==
  ASSUME IndInv, NEW t \in Tasks, StartSaveFails(t) \/ StartSpawnFails(t)
  PROVE  IndInv'
<1>1. PICK id \in Ids : id = task[t].id
  BY DEF IndInv, Shapes, StartSaveFails, StartSpawnFails
<1>2. PICK s \in Slots : s = task[t].run.slot
  BY DEF IndInv, Shapes, StartSaveFails, StartSpawnFails, Running
<1>3. /\ task[t].pc = "save" /\ slots' = slots \cup {s}
      /\ (Goto(t, "undo") /\ lock' = lock) \/ Finish(t)
      /\ UNCHANGED <<dirs, name_of, disk, import, named, node_boot, shut, vm,
                     alive, deleted, thread, ready, content>>
  BY <1>2 DEF StartSaveFails, StartSpawnFails, StartFails, flags, history
<1>4. /\ \E b \in Nat : stored' = [stored EXCEPT ![id] = b]
      /\ \E b \in Nat : last_boot' = [last_boot EXCEPT ![id] = b]
  <2>1. stored \in [Ids -> Nat] /\ last_boot \in [Ids -> Nat]
    BY DEF IndInv, Types
  <2>2. /\ stored[id] \in Nat /\ task[t].run.boot \in Nat
        /\ last_boot = [last_boot EXCEPT ![id] = last_boot[id]]
        /\ last_boot[id] \in Nat
    BY <1>3, <2>1 DEF IndInv, Shapes, Running
  <2>3. CASE StartSaveFails(t)
    <3>1. stored' \in Saved(id, task[t].run.boot) /\ last_boot' = last_boot
      BY <1>1, <2>3 DEF StartSaveFails, flags
    <3>2. \E b \in {stored[id], task[t].run.boot} :
            stored' = [stored EXCEPT ![id] = b]
      BY <3>1 DEF Saved
    <3> QED
      BY <3>1, <3>2, <2>2
  <2>4. CASE StartSpawnFails(t)
    <3>1. /\ stored' = [stored EXCEPT ![id] = task[t].run.boot]
          /\ last_boot' = [last_boot EXCEPT ![id] = task[t].run.boot]
      BY <1>1, <2>4 DEF StartSpawnFails
    <3> QED
      BY <3>1, <2>2
  <2> QED
    BY <2>3, <2>4
<1>5. /\ Moves(t) /\ task' \in [Tasks -> TaskRecords]
      /\ lock' \in [Ids -> Tasks \cup {None}]
      /\ task'[t].pc \in {"undo", "idle"}
  BY <1>3, GoesOn, Ends DEF Holding
<1>6. Types'
  <2>1. /\ stored' \in [Ids -> Nat] /\ last_boot' \in [Ids -> Nat]
        /\ slots' \in SUBSET Slots
    BY <1>3, <1>4 DEF IndInv, Types
  <2> QED
    BY <1>3, <1>5, <2>1, Zenon DEF IndInv, Types
<1>7. SlotsKept'
  <2>1. \A x \in Slots : Live(x)' = Live(x)
    BY <1>3 DEF Live
  <2>2. \A u \in Tasks, x \in Slots : Saves(u, x)' <=> u # t /\ Saves(u, x)
    BY <1>5 DEF Saves, Moves
  <2>3. \A x \in Slots : Saves(t, x) <=> x = s
    BY <1>2, <1>3 DEF Saves
  <2> QED
    BY <1>3, <2>1, <2>2, <2>3 DEF IndInv, SlotsKept
<1>8. InPlace(id)'
  BY <1>1, <1>3 DEF InPlace, IndInv, TasksKnow, Knows, Settled
<1>9. \A j \in Ids : j # id =>
        stored'[j] = stored[j] /\ last_boot'[j] = last_boot[j]
  BY <1>4 DEF IndInv, Types
<1> QED
  BY <1>1, <1>3, <1>5, <1>6, <1>7, <1>8, <1>9, AloneStep
    DEF Alone, Holding, Settled

\* A thread that was told to stop, or ended by itself, has been joined: no VM
\* of the sandbox is left.
LEMMA JoinKeeps == ASSUME IndInv, NEW t \in Tasks, Join(t) PROVE IndInv'
<1>1. PICK id \in Ids : id = task[t].id
  BY DEF IndInv, Shapes, Join
<1>2. PICK p \in {"bury", "copy", "renumber", "start", "end"} :
        p = Stopped(task[t].op)
  BY DEF Stopped
<1>3. /\ task[t].pc = "join" /\ ~Holds(task[t].run) /\ Goto(t, p)
      /\ lock' = lock
      /\ UNCHANGED <<dirs, name_of, stored, disk, import, named, slots,
                     node_boot, shut, vm, alive, deleted, last_boot, thread,
                     ready, content>>
  BY <1>2 DEF Join, files, node, flags, entries, history
<1>4. /\ Moves(t) /\ task' \in [Tasks -> TaskRecords]
      /\ lock' \in [Ids -> Tasks \cup {None}] /\ task'[t].pc = p
  BY <1>3, GoesOn DEF Holding
<1>5. Types'
  BY <1>3, <1>4, Zenon DEF IndInv, Types
<1>6. SlotsKept'
  BY <1>3, <1>4, SameSlots DEF IndInv, Moves, Live
<1>7. Quiet(id)
  <2> SUFFICES ASSUME NEW s \in Slots, Live(s), thread[s].id = id PROVE FALSE
    BY DEF Quiet
  <2>1. Owned(s) /\ lock[id] = t /\ vm[id] = None /\ shut \notin Stopping
    BY <1>1, <1>3 DEF IndInv, Vms, Locks, Shutting, Holding
  <2>2. Run(s, thread[s].boot) # None
    BY RunNotNone DEF IndInv
  <2>3. task[t].run = Run(s, thread[s].boot)
    BY <2>1, <2>2 DEF Owned
  <2> QED
    BY <2>3, <1>3 DEF Holds, Live, Run
<1>8. InPlace(id)'
  BY <1>1, <1>3 DEF InPlace, IndInv, TasksKnow, Knows, Settled
<1> QED
  BY <1>1, <1>3, <1>4, <1>5, <1>6, <1>7, <1>8, QuietStep
    DEF Alone, Holding, Settled

\* The VMs run on: none starts or ends, and none moves.
LEMMA RunsOn ==
  ASSUME IndInv, Types',
         UNCHANGED <<dirs, name_of, stored, named, slots, lock, vm, deleted,
                     last_boot, task>>,
         \A s \in Slots : /\ Live(s)' <=> Live(s)
                          /\ thread'[s].id = thread[s].id
                          /\ thread'[s].boot = thread[s].boot
                          /\ thread'[s].told = thread[s].told,
         \A i \in Ids : ready'[i] = "err" => ready[i] = "err",
         \A s \in Slots : thread'[s].phase \in {"up", "exited", "stopping"} =>
                            disk'[thread[s].id] # None,
         \/ shut' = shut
         \/ shut' = "closing" /\ shut = "open"
         \/ shut' = "done" /\ shut = "stopping" /\ \A s \in Slots : ~Live(s)
  PROVE  IndInv'
<1>1. Shapes'
  BY DEF IndInv, Shapes
<1>2. Locks'
  BY DEF IndInv, Locks
<1>3. \A i \in Ids : (Listed(i)' <=> Listed(i)) /\ (InPlace(i)' <=> InPlace(i))
  BY DEF Listed, InPlace
<1>4. NamesLead' /\ UnlockedInPlace'
  BY <1>3 DEF IndInv, NamesLead, UnlockedInPlace
<1>5. TasksKnow'
  BY DEF IndInv, TasksKnow, Knows, Listed, InPlace
<1>6. \A i : Quiet(i)' <=> Quiet(i)
  BY DEF Quiet
<1>7. Vms'
  <2>1. \A s \in Slots : Live(s)' => Owned(s)'
    BY DEF IndInv, Vms, Owned, Stopping, Shutting
  <2>2. \A t \in Tasks : Quiet(task[t].id)' <=> Quiet(task[t].id)
    BY <1>6 DEF Quiet
  <2>3. \A t \in Tasks : task[t].pc = "wait" => task[t].id \in Ids
    BY DEF IndInv, Shapes
  <2> QED
    BY <2>1, <2>2, <2>3 DEF IndInv, Vms
<1>8. Recorded'
  BY DEF IndInv, Recorded
<1>9. SlotsKept'
  BY DEF IndInv, SlotsKept, Saves
<1>10. Shutting'
  BY DEF IndInv, Shutting, Stopping
<1> QED
  BY <1>1, <1>2, <1>4, <1>5, <1>7, <1>8, <1>9, <1>10 DEF IndInv

\* A boot succeeds, a VM exits, its thread starts to take it down, and the
\* guest writes.
LEMMA ThreadsKeep ==
  ASSUME IndInv, NEW s \in Slots,
         Boots(s) \/ VmExits(s) \/ HoldStops(s) \/ GuestWrites(s)
  PROVE  IndInv'
<1>1. PICK id \in Ids : id = thread[s].id
  BY DEF Boots, VmExits, HoldStops, GuestWrites, IndInv, Shapes, Live
<1>2. /\ UNCHANGED <<dirs, name_of, stored, import, named, slots, node_boot,
                     shut, lock, vm, deleted, last_boot, task>>
      /\ ready' = ready \/ ready' = [ready EXCEPT ![id] = "ok"]
      /\ \/ alive' = alive
         \/ \E b \in BOOLEAN : alive' = [alive EXCEPT ![id] = b]
      /\ \/ disk' = disk /\ content' = content
         \/ /\ content' = content + 1
            /\ disk' = [disk EXCEPT ![id] = content + 1]
  BY <1>1 DEF Boots, VmExits, HoldStops, GuestWrites, files, node, entries,
              flags, history
<1>3. /\ thread[s].phase # "off"
      /\ \/ thread' = thread
         \/ \E p \in Phases \ {"off"} :
              /\ thread' = [thread EXCEPT ![s].phase = p]
              /\ p \in {"up", "exited", "stopping"} =>
                   \/ disk[id] # None
                   \/ thread[s].phase \in {"up", "exited", "stopping"}
  <2>1. CASE Boots(s)
    BY <1>1, <2>1 DEF Boots, Phases
  <2>2. CASE VmExits(s)
    BY <2>2 DEF VmExits, Phases
  <2>3. CASE HoldStops(s)
    <3>1. thread[s].phase \in {"up", "exited"}
      BY <2>3 DEF HoldStops
    <3>2. thread' = [thread EXCEPT ![s].phase =
                       IF thread[s].phase = "up" THEN "stopping" ELSE "dead"]
      BY <2>3 DEF HoldStops
    <3> QED
      BY <3>1, <3>2 DEF Phases
  <2>4. CASE GuestWrites(s)
    BY <2>4 DEF GuestWrites
  <2> QED
    BY <2>1, <2>2, <2>3, <2>4
<1>4. thread \in [Slots -> Threads]
  BY DEF IndInv, Types
<1>5. /\ thread' \in [Slots -> Threads]
      /\ \A x \in Slots : /\ Live(x)' <=> Live(x)
                          /\ thread'[x].id = thread[x].id
                          /\ thread'[x].boot = thread[x].boot
                          /\ thread'[x].told = thread[x].told
                          /\ x # s => thread'[x].phase = thread[x].phase
      /\ \/ thread'[s].phase = thread[s].phase
         \/ thread'[s].phase \in {"up", "exited", "stopping"} =>
              \/ disk[id] # None
              \/ thread[s].phase \in {"up", "exited", "stopping"}
  <2>1. CASE thread' = thread
    BY <2>1, <1>4 DEF Live
  <2>2. CASE thread' # thread
    <3>1. PICK p \in Phases \ {"off"} :
            /\ thread' = [thread EXCEPT ![s].phase = p]
            /\ p \in {"up", "exited", "stopping"} =>
                 \/ disk[id] # None
                 \/ thread[s].phase \in {"up", "exited", "stopping"}
      BY <1>3, <2>2
    <3>2. thread[s] \in Threads /\ thread'[s] = [thread[s] EXCEPT !.phase = p]
      BY <3>1, <1>4
    <3>3. /\ thread'[s] \in Threads /\ thread'[s].phase = p
          /\ thread'[s].id = thread[s].id /\ thread'[s].boot = thread[s].boot
          /\ thread'[s].told = thread[s].told
      BY <3>2 DEF Threads
    <3>4. \A x \in Slots : x # s => thread'[x] = thread[x]
      BY <3>1, <1>4
    <3>5. thread' \in [Slots -> Threads]
      BY <3>1, <3>3, <1>4
    <3> QED
      BY <3>1, <3>3, <3>4, <3>5, <1>3 DEF Live
  <2> QED
    BY <2>1, <2>2
<1>6. /\ disk' \in [Ids -> Nat \cup {None}] /\ content' \in Nat
      /\ \A i \in Ids : disk[i] # None => disk'[i] # None
  <2>1. content + 1 \in Nat /\ content + 1 # None
    BY SandboxesAssumption DEF IndInv, Types
  <2> QED
    BY <1>2, <2>1 DEF IndInv, Types
<1>7. Types'
  <2>1. ready' \in [Ids -> {"none", "ok", "err"}] /\ alive' \in [Ids -> BOOLEAN]
    <3>1. ready \in [Ids -> {"none", "ok", "err"}] /\ alive \in [Ids -> BOOLEAN]
      BY DEF IndInv, Types
    <3> QED
      BY <1>2, <3>1
  <2> QED
    BY <1>2, <1>5, <1>6, <2>1, Zenon DEF IndInv, Types
<1>8. \A i \in Ids : ready'[i] = "err" => ready[i] = "err"
  BY <1>2 DEF IndInv, Types
<1>9. \A x \in Slots : thread'[x].phase \in {"up", "exited", "stopping"} =>
                         disk'[thread[x].id] # None
  <2> SUFFICES ASSUME NEW x \in Slots,
                      thread'[x].phase \in {"up", "exited", "stopping"}
               PROVE  disk'[thread[x].id] # None
    OBVIOUS
  <2>1. Live(x) /\ thread[x].id \in Ids
    BY <1>5 DEF Live, IndInv, Shapes
  <2>2. thread[x].phase \in {"up", "exited", "stopping"} => disk[thread[x].id] # None
    BY <2>1 DEF IndInv, Recorded
  <2> QED
    BY <2>1, <2>2, <1>1, <1>5, <1>6
<1> QED
  BY <1>2, <1>5, <1>7, <1>8, <1>9, RunsOn

\* Nothing of the VMs changes.
LEMMA RestKeeps ==
  ASSUME IndInv,
         PutImport \/ ShutDown \/ ShutDownEnds \/ UNCHANGED vars
  PROVE  IndInv'
<1>1. /\ UNCHANGED <<dirs, name_of, stored, disk, named, slots, node_boot,
                     lock, vm, alive, deleted, last_boot, thread, ready, task>>
      /\ \/ import' = import /\ content' = content
         \/ import' = content + 1 /\ content' = content + 1
      /\ \/ shut' = shut
         \/ shut' = "closing" /\ shut = "open"
         \/ /\ shut' = "done" /\ shut = "stopping"
            /\ \A s \in Slots : ~thread[s].told
  BY DEF PutImport, ShutDown, ShutDownEnds, vars, files, node, entries, flags,
         history
<1>2. shut' = "done" /\ shut = "stopping" /\ (\A s \in Slots : ~thread[s].told)
        => \A s \in Slots : ~Live(s)
  BY DEF IndInv, Shutting
<1>3. Types'
  <2>1. import' \in Nat \cup {None} /\ content' \in Nat
    BY <1>1 DEF IndInv, Types
  <2>2. shut' \in {"open", "closing", "stopping", "done"}
    BY <1>1 DEF IndInv, Types
  <2> QED
    BY <1>1, <2>1, <2>2, Zenon DEF IndInv, Types
<1>4. \A s \in Slots : thread'[s].phase \in {"up", "exited", "stopping"} =>
                         disk'[thread[s].id] # None
  BY <1>1 DEF IndInv, Recorded, Live
<1>5. \A s \in Slots : Live(s)' <=> Live(s)
  BY <1>1 DEF Live
<1> QED
  BY <1>1, <1>2, <1>3, <1>4, <1>5, RunsOn

\* The thread of a VM ends, after a failed boot or a stop: its slot is free,
\* and no VM of the sandbox is left.
LEMMA ThreadEndsKeeps ==
  ASSUME IndInv, NEW s \in Slots, BootFails(s) \/ HoldEnds(s) PROVE IndInv'
<1>1. PICK id \in Ids : id = thread[s].id
  BY DEF BootFails, HoldEnds, IndInv, Shapes, Live
<1>2. /\ UNCHANGED <<dirs, name_of, stored, disk, import, named, node_boot,
                     shut, lock, vm, alive, deleted, last_boot, task, content>>
      /\ ready' = ready \/ ready' = [ready EXCEPT ![id] = "err"]
      /\ Live(s) /\ thread' = [thread EXCEPT ![s] = Off]
      /\ slots' = slots \cup {s} \/ ("reclaim" \in Fallible /\ slots' = slots)
  BY <1>1 DEF BootFails, HoldEnds, Release, Live, files, node, entries, flags,
              history
<1>3. thread \in [Slots -> Threads] /\ ready \in [Ids -> {"none", "ok", "err"}]
  BY DEF IndInv, Types
<1>4. Off \in Threads /\ Off.phase = "off" /\ Off.told = FALSE
  BY DEF Off, Threads, Phases
<1>5. /\ thread' \in [Slots -> Threads]
      /\ ~Live(s)' /\ thread'[s].told = FALSE
      /\ \A x \in Slots : x # s => thread'[x] = thread[x]
      /\ \A x \in Slots : x # s => (Live(x)' <=> Live(x))
  BY <1>2, <1>3, <1>4 DEF Live
<1>6. Types'
  <2>1. slots' \in SUBSET Slots /\ ready' \in [Ids -> {"none", "ok", "err"}]
    BY <1>2, <1>3 DEF IndInv, Types
  <2> QED
    BY <1>2, <1>5, <2>1, Zenon DEF IndInv, Types
<1>7. Shapes' /\ Locks'
  BY <1>2, <1>5 DEF IndInv, Shapes, Locks
<1>8. NamesLead' /\ UnlockedInPlace' /\ TasksKnow'
  BY <1>2 DEF IndInv, NamesLead, UnlockedInPlace, TasksKnow, Knows, Listed,
              InPlace
<1>9. Vms'
  <2>1. Quiet(id)'
    BY <1>1, <1>2, <1>5 DEF IndInv, Vms, Quiet
  <2>2. \A t \in Tasks : Quiet(task[t].id) => Quiet(task[t].id)'
    BY <1>2, <1>5 DEF Quiet
  <2>3. \A t \in Tasks : task[t].id = id => Quiet(task[t].id)'
    BY <1>2, <2>1 DEF Quiet
  <2>4. \A x \in Slots : Live(x)' => Owned(x)'
    BY <1>2, <1>5 DEF IndInv, Vms, Owned
  <2>5. \A t \in Tasks : task[t].pc \in Holding => task[t].id \in Ids
    BY DEF IndInv, Shapes, Holding
  <2>6. \A t \in Tasks : task[t].pc = "wait" /\ ready'[task[t].id] = "err"
                           => Quiet(task[t].id)'
    <3> SUFFICES ASSUME NEW t \in Tasks, task[t].pc = "wait",
                        ready'[task[t].id] = "err"
                 PROVE  Quiet(task[t].id)'
      OBVIOUS
    <3>1. task[t].id = id \/ ready[task[t].id] = "err"
      BY <1>2, <1>3, <2>5 DEF Holding
    <3> QED
      BY <3>1, <2>2, <2>3 DEF IndInv, Vms
  <2> QED
    BY <1>2, <1>5, <2>2, <2>4, <2>6 DEF IndInv, Vms
<1>10. Recorded'
  BY <1>2, <1>5 DEF IndInv, Recorded
<1>11. SlotsKept'
  <2>1. \A t \in Tasks, x \in Slots : Saves(t, x)' <=> Saves(t, x)
    BY <1>2 DEF Saves
  <2> QED
    BY <1>2, <1>5, <2>1 DEF IndInv, SlotsKept
<1>12. Shutting'
  BY <1>2, <1>5 DEF IndInv, Shutting
<1> QED
  BY <1>6, <1>7, <1>8, <1>9, <1>10, <1>11, <1>12 DEF IndInv

\* A request starts, or leaves before it has the lock.
LEMMA OutsideKeeps ==
  ASSUME IndInv, NEW t \in Tasks,
         \/ LockLeaves(t)
         \/ \E op \in Ops, name \in Names, flag \in BOOLEAN :
              Request(t, op, name, flag)
  PROVE  IndInv'
<1>1. /\ UNCHANGED <<dirs, name_of, stored, disk, import, named, slots,
                     node_boot, shut, vm, alive, deleted, last_boot, thread,
                     ready, content>>
      /\ task[t].pc \in {"idle", "lock"}
  BY DEF LockLeaves, Locked, Request, Admits, files, node, entries, flags,
         history
<1>2. \A i \in Ids : lock[i] # t
  BY <1>1, SandboxesAssumption DEF IndInv, Locks, Holding
<1>3. /\ task' \in [Tasks -> TaskRecords] /\ lock' = lock
      /\ \A u \in Tasks : u # t => task'[u] = task[u]
      /\ \/ task'[t].pc = "idle"
         \/ /\ task'[t].pc = "lock" /\ shut = "open" /\ task'[t].id \in Ids
            /\ Listed(task'[t].id)
  <2>1. CASE LockLeaves(t)
    <3>1. Finish(t)
      BY <2>1 DEF LockLeaves
    <3>2. /\ task' \in [Tasks -> TaskRecords] /\ task'[t] = Idle
          /\ \A u \in Tasks : u # t => task'[u] = task[u]
          /\ lock' \in [Ids -> Tasks \cup {None}]
          /\ \A i \in Ids : lock'[i] = IF lock[i] = t THEN None ELSE lock[i]
      BY <3>1, FinishDoes DEF IndInv
    <3>3. lock' = lock
      BY <3>2, <1>2 DEF IndInv, Types
    <3> QED
      BY <3>2, <3>3 DEF Idle
  <2>2. CASE \E op \in Ops, name \in Names, flag \in BOOLEAN :
               Request(t, op, name, flag)
    <3>1. PICK op \in Ops, name \in Names, flag \in BOOLEAN :
            Request(t, op, name, flag)
      BY <2>2
    <3> DEFINE new == [op |-> op, pc |-> "lock", id |-> named[name],
                       run |-> None, flag |-> flag,
                       imports |-> op = "restore"]
    <3>2. /\ task' = [task EXCEPT ![t] = new] /\ lock' = lock
          /\ named[name] # None /\ shut = "open"
      BY <3>1 DEF Request, Admits, entries
    <3>3. named[name] \in Ids
      BY <3>2 DEF IndInv, Types
    <3>4. new \in TaskRecords /\ new.pc = "lock" /\ new.id = named[name]
      BY <3>3 DEF TaskRecords
    <3> HIDE DEF new
    <3>5. /\ task' \in [Tasks -> TaskRecords] /\ task'[t] = new
          /\ \A u \in Tasks : u # t => task'[u] = task[u]
      BY <3>2, <3>4 DEF IndInv, Types
    <3>6. Listed(named[name])
      <4>1. name_of[named[name]] = name /\ name # None
        BY <3>2, SandboxesAssumption DEF IndInv, NamesLead
      <4> QED
        BY <4>1 DEF Listed
    <3> QED
      BY <3>2, <3>3, <3>4, <3>5, <3>6
  <2> QED
    BY <2>1, <2>2
<1>4. Types'
  BY <1>1, <1>3, Zenon DEF IndInv, Types
<1>5. Shapes'
  BY <1>1, <1>3 DEF IndInv, Shapes, Live
<1>6. Locks'
  BY <1>1, <1>2, <1>3 DEF IndInv, Locks, Types, Holding
<1>7. NamesLead' /\ UnlockedInPlace'
  BY <1>1, <1>3 DEF IndInv, NamesLead, UnlockedInPlace, Listed, InPlace
<1>8. TasksKnow'
  BY <1>1, <1>3 DEF IndInv, TasksKnow, Knows, Listed, InPlace, Holding, Settled
<1>9. Vms'
  <2>1. \A s \in Slots : (Live(s)' <=> Live(s)) /\ (Live(s) => thread[s].id \in Ids)
    BY <1>1 DEF Live, IndInv, Shapes
  <2>2. \A s \in Slots : Live(s)' => Owned(s)'
    <3> SUFFICES ASSUME NEW s \in Slots, Live(s) PROVE Owned(s)'
      BY <2>1
    <3>1. LET i == thread[s].id IN lock[i] # None => task'[lock[i]] = task[lock[i]]
      BY <1>2, <1>3, <2>1 DEF IndInv, Types
    <3> QED
      BY <1>1, <1>3, <3>1 DEF IndInv, Vms, Owned
  <2>3. \A u \in Tasks : u # t => (Quiet(task[u].id)' <=> Quiet(task[u].id))
    BY <1>1, <1>3, <2>1 DEF Quiet
  <2> QED
    BY <1>1, <1>3, <2>1, <2>2, <2>3 DEF IndInv, Vms, Holding, Alone
<1>10. Recorded'
  BY <1>1 DEF IndInv, Recorded, Live
<1>11. SlotsKept'
  BY <1>1, <1>3, SameSlots DEF IndInv, Live
<1>12. Shutting'
  BY <1>1, <1>3 DEF IndInv, Shutting, Stopping, Live
<1> QED
  BY <1>4, <1>5, <1>6, <1>7, <1>8, <1>9, <1>10, <1>11, <1>12 DEF IndInv

\* create takes a name for a sandbox nobody knows, with its lock held.
LEMMA CreateKeeps ==
  ASSUME IndInv, NEW t \in Tasks, NEW id \in Ids, NEW name \in Names,
         NEW start \in BOOLEAN, NEW imports \in BOOLEAN,
         Create(t, id, name, start, imports)
  PROVE  IndInv'
<1> DEFINE new == [op |-> "create", pc |-> "make", id |-> id, run |-> None,
                   flag |-> start, imports |-> imports]
<1>1. /\ UNCHANGED <<dirs, stored, disk, import, slots, node_boot, shut, vm,
                     alive, deleted, last_boot, thread, ready, content>>
      /\ task[t].pc = "idle" /\ shut = "open" /\ name_of[id] = None
      /\ named[name] = None
      /\ named' = [named EXCEPT ![name] = id]
      /\ name_of' = [name_of EXCEPT ![id] = name]
      /\ lock' = [lock EXCEPT ![id] = t]
      /\ task' = [task EXCEPT ![t] = new]
  BY DEF Create, Admits, flags
<1>2. new \in TaskRecords /\ new.pc = "make" /\ new.id = id
  BY DEF TaskRecords, Ops, Holding
<1> HIDE DEF new
<1>3. /\ task' \in [Tasks -> TaskRecords] /\ task'[t].pc = "make"
      /\ task'[t].id = id
      /\ \A u \in Tasks : u # t => task'[u] = task[u]
      /\ lock' \in [Ids -> Tasks \cup {None}] /\ lock'[id] = t
      /\ \A i \in Ids : i # id => lock'[i] = lock[i]
      /\ named' \in [Names -> Ids \cup {None}] /\ named'[name] = id
      /\ \A n \in Names : n # name => named'[n] = named[n]
      /\ name_of' \in [Ids -> Names \cup {None}] /\ name_of'[id] = name
      /\ \A i \in Ids : i # id => name_of'[i] = name_of[i]
  BY <1>1, <1>2 DEF IndInv, Types
<1>4. /\ None \notin Names /\ None \notin Ids /\ None \notin Tasks
      /\ \A u \in Tasks : task[u].pc # "idle" =>
                            task[u].id \in Ids /\ task[u].id # id
      /\ \A i \in Ids : lock[i] # t
      /\ lock[id] = None
  BY <1>1, SandboxesAssumption
    DEF IndInv, Locks, TasksKnow, Knows, Types, Shapes, Holding
<1>5. \A i \in Ids : i # id => /\ Listed(i)' <=> Listed(i)
                               /\ name_of[i] # None <=> name_of'[i] # None
  <2> SUFFICES ASSUME NEW i \in Ids, i # id PROVE Listed(i)' <=> Listed(i)
    BY <1>3
  <2>1. CASE name_of[i] = None
    BY <2>1, <1>3 DEF Listed
  <2>2. CASE name_of[i] # None
    <3>1. name_of[i] \in Names
      BY <2>2 DEF IndInv, Types
    <3> QED
      BY <3>1, <1>1, <1>3, <1>4 DEF Listed
  <2> QED
    BY <2>1, <2>2
<1>6. Listed(id)' /\ ~Listed(id) /\ dirs[id] # "placed"
  BY <1>1, <1>3, <1>4 DEF Listed, IndInv, NamesLead
<1>7. \A s \in Slots : /\ Live(s)' <=> Live(s)
                       /\ Live(s) => thread[s].id \in Ids /\ thread[s].id # id
  <2>1. \A s \in Slots : Live(s) =>
          thread[s].id \in Ids /\ dirs[thread[s].id] = "placed"
    BY DEF IndInv, Shapes, Recorded
  <2> QED
    BY <1>1, <1>6, <2>1 DEF Live
<1>8. Types'
  BY <1>1, <1>3, Zenon DEF IndInv, Types
<1>9. Shapes'
  BY <1>1, <1>3, <1>7 DEF IndInv, Shapes
<1>10. Locks'
  BY <1>1, <1>3, <1>4 DEF IndInv, Locks, Types, Holding
<1>11. NamesLead'
  <2>1. \A n \in Names : named'[n] # None => name_of'[named'[n]] = n
    <3> SUFFICES ASSUME NEW n \in Names, named'[n] # None, n # name
                 PROVE  name_of'[named'[n]] = n
      BY <1>3
    <3>1. /\ named'[n] = named[n] /\ named[n] \in Ids
          /\ name_of[named[n]] = n
      BY <1>3 DEF IndInv, NamesLead, Types
    <3> QED
      BY <3>1, <1>1, <1>3, <1>4
  <2>2. \A i \in Ids : dirs'[i] = "placed" => Listed(i)'
    BY <1>1, <1>5, <1>6 DEF IndInv, NamesLead
  <2> QED
    BY <2>1, <2>2 DEF NamesLead
<1>12. TasksKnow'
  <2> SUFFICES ASSUME NEW u \in Tasks PROVE Knows(task[u].id, task[u].pc)'
    BY DEF TasksKnow
  <2>1. CASE u = t
    BY <2>1, <1>3, <1>4, <1>6 DEF Knows, Settled, Holding, Listed
  <2>2. CASE u # t
    <3>1. /\ Knows(task[u].id, task[u].pc) /\ task'[u] = task[u]
          /\ task[u].pc # "idle" => task[u].id \in Ids /\ task[u].id # id
      BY <2>2, <1>3, <1>4 DEF IndInv, TasksKnow
    <3>2. task[u].pc # "idle" =>
            /\ Listed(task[u].id)' <=> Listed(task[u].id)
            /\ InPlace(task[u].id)' <=> InPlace(task[u].id)
            /\ name_of'[task[u].id] # None
      BY <3>1, <1>1, <1>5 DEF Knows, Listed, InPlace
    <3> QED
      BY <3>1, <3>2, <1>1 DEF Knows, Holding, Settled
  <2> QED
    BY <2>1, <2>2
<1>13. UnlockedInPlace'
  BY <1>1, <1>3, <1>4, <1>5 DEF IndInv, UnlockedInPlace, InPlace
<1>14. Vms'
  <2>1. \A s \in Slots : Live(s)' => Owned(s)'
    <3> SUFFICES ASSUME NEW s \in Slots, Live(s) PROVE Owned(s)'
      BY <1>7
    <3>1. /\ thread[s].id \in Ids /\ thread[s].id # id
          /\ lock'[thread[s].id] = lock[thread[s].id]
          /\ lock[thread[s].id] # None =>
               task'[lock[thread[s].id]] = task[lock[thread[s].id]]
      BY <1>3, <1>4, <1>7 DEF IndInv, Types
    <3> QED
      BY <1>1, <3>1 DEF IndInv, Vms, Owned
  <2>2. \A u \in Tasks : u # t => (Quiet(task[u].id)' <=> Quiet(task[u].id))
    BY <1>1, <1>3, <1>7 DEF Quiet
  <2>3. Quiet(task[t].id)'
    BY <1>1, <1>3, <1>7 DEF Quiet
  <2>4. /\ vm[id] = None
        /\ \A i \in Ids : name_of'[i] = None => vm[i] = None
    BY <1>1, <1>3, <1>4 DEF IndInv, Vms
  <2> QED
    BY <1>1, <1>3, <1>7, <2>1, <2>2, <2>3, <2>4 DEF IndInv, Vms, Holding, Alone
<1>15. Recorded'
  <2>1. UNCHANGED <<dirs, stored, disk, last_boot, thread>>
    BY <1>1
  <2> QED
    BY <2>1 DEF IndInv, Recorded, Live
<1>16. SlotsKept'
  BY <1>1, <1>3, <1>7, SameSlots DEF IndInv
<1>17. Shutting'
  BY <1>1, <1>3 DEF IndInv, Shutting, Stopping
<1> QED
  BY <1>8, <1>9, <1>10, <1>11, <1>12, <1>13, <1>14, <1>15, <1>16, <1>17
    DEF IndInv

\* bury forgets the name: no task but the one that buries knows the sandbox
\* as more than deleted.
LEMMA BuryForgetsKeeps ==
  ASSUME IndInv, NEW t \in Tasks, BuryForgets(t) PROVE IndInv'
<1>1. PICK id \in Ids : id = task[t].id
  BY DEF IndInv, Shapes, BuryForgets
<1>2. /\ task[t].pc = "forget" /\ Goto(t, "remove") /\ lock' = lock
      /\ deleted' = [deleted EXCEPT ![id] = TRUE]
      /\ named' = [n \in Names |-> IF named[n] = id THEN None ELSE named[n]]
      /\ UNCHANGED <<dirs, name_of, stored, disk, import, slots, node_boot,
                     shut, vm, alive, last_boot, thread, ready, content>>
  BY <1>1 DEF BuryForgets, files, history
<1>3. /\ Moves(t) /\ task' \in [Tasks -> TaskRecords]
      /\ lock' \in [Ids -> Tasks \cup {None}] /\ task'[t].pc = "remove"
  BY <1>2, GoesOn DEF Holding
<1>4. /\ task'[t].id = id /\ \A u \in Tasks : u # t => task'[u] = task[u]
  BY <1>1, <1>3 DEF Moves, Idle
<1>5. /\ named' \in [Names -> Ids \cup {None}]
      /\ deleted' \in [Ids -> BOOLEAN] /\ deleted'[id]
      /\ \A i \in Ids : i # id => deleted'[i] = deleted[i]
  <2>1. named \in [Names -> Ids \cup {None}] /\ deleted \in [Ids -> BOOLEAN]
    BY DEF IndInv, Types
  <2>2. named' \in [Names -> Ids \cup {None}]
    BY <1>2, <2>1
  <2> QED
    BY <1>2, <2>1, <2>2
<1>6. /\ lock[id] = t /\ dirs[id] # "placed" /\ vm[id] = None
      /\ name_of[id] # None
      /\ \A u \in Tasks : u # t /\ task[u].pc \in Holding => task[u].id # id
  BY <1>1, <1>2 DEF IndInv, Locks, TasksKnow, Knows, Vms, Holding
<1>7. \A i \in Ids : Listed(i)' <=> i # id /\ Listed(i)
  <2> SUFFICES ASSUME NEW i \in Ids PROVE Listed(i)' <=> i # id /\ Listed(i)
    OBVIOUS
  <2>1. None \notin Ids /\ (name_of[i] # None => name_of[i] \in Names)
    BY SandboxesAssumption DEF IndInv, Types
  <2> QED
    BY <2>1, <1>2 DEF Listed
<1>8. Types'
  BY <1>2, <1>3, <1>5, Zenon DEF IndInv, Types
<1>9. Shapes'
  BY <1>1, <1>2, <1>3, <1>4 DEF IndInv, Shapes, Live
<1>10. Locks'
  BY <1>2, <1>3, <1>8, MovesLocks DEF Holding
<1>11. NamesLead' /\ UnlockedInPlace'
  <2>1. \A n \in Names : named'[n] # None => named'[n] = named[n]
    BY <1>2
  <2> QED
    BY <1>2, <1>6, <1>7, <2>1
      DEF IndInv, NamesLead, UnlockedInPlace, InPlace
<1>12. TasksKnow'
  <2> SUFFICES ASSUME NEW u \in Tasks PROVE Knows(task[u].id, task[u].pc)'
    BY DEF TasksKnow
  <2>1. CASE u = t
    <3>1. ~Listed(task[t].id)'
      BY <1>4, <1>7 DEF Listed
    <3> QED
      BY <2>1, <3>1, <1>2, <1>3, <1>4, <1>6 DEF Knows, Settled, Holding
  <2>2. CASE u # t
    <3>1. /\ Knows(task[u].id, task[u].pc) /\ task'[u] = task[u]
          /\ task[u].pc # "idle" => task[u].id \in Ids
          /\ task[u].pc \in Holding => task[u].id # id
      BY <2>2, <1>4, <1>6 DEF IndInv, TasksKnow, Shapes
    <3>2. task[u].pc # "idle" =>
            /\ Listed(task[u].id)' <=> task[u].id # id /\ Listed(task[u].id)
            /\ InPlace(task[u].id)' <=> InPlace(task[u].id)
            /\ deleted[task[u].id] \/ task[u].id = id => deleted'[task[u].id]
      BY <3>1, <1>2, <1>5, <1>7 DEF Listed, InPlace
    <3> QED
      BY <3>1, <3>2, <1>2 DEF Knows, Holding, Settled
  <2> QED
    BY <2>1, <2>2
<1>13. Vms'
  <2>1. \A s \in Slots : (Live(s)' <=> Live(s)) /\ (Live(s) => thread[s].id \in Ids)
    BY <1>2 DEF Live, IndInv, Shapes
  <2>2. \A s \in Slots : Live(s)' => Owned(s)'
    <3> SUFFICES ASSUME NEW s \in Slots, Live(s) PROVE Owned(s)'
      BY <2>1
    <3>1. LET i == thread[s].id IN
            /\ i # id
            /\ lock[i] # None => task'[lock[i]] = task[lock[i]]
      <4>1. thread[s].id # id
        BY <1>1, <1>2 DEF IndInv, Vms, Quiet, Alone, Holding
      <4>2. lock[thread[s].id] # None => lock[thread[s].id] \in Tasks \ {t}
        BY <1>1, <2>1, <4>1 DEF IndInv, Types, Locks
      <4> QED
        BY <4>1, <4>2, <1>4
    <3> QED
      BY <1>2, <3>1 DEF IndInv, Vms, Owned
  <2>3. \A u \in Tasks : Quiet(task[u].id)' <=> Quiet(task[u].id)
    BY <1>1, <1>2, <1>4, <2>1 DEF Quiet
  <2> QED
    BY <1>1, <1>2, <1>3, <1>4, <1>6, <2>1, <2>2, <2>3
      DEF IndInv, Vms, Holding, Alone
<1>14. Recorded'
  BY <1>2 DEF IndInv, Recorded, Live
<1>15. SlotsKept'
  BY <1>2, <1>3, <1>4, SameSlots DEF IndInv, Live
<1>16. Shutting'
  BY <1>2, <1>4, <1>3 DEF IndInv, Shutting, Live
<1> QED
  BY <1>8, <1>9, <1>10, <1>11, <1>12, <1>13, <1>14, <1>15, <1>16 DEF IndInv

\* A thread is started for the VM, in the slot taken for it.
LEMMA StartSavesKeeps ==
  ASSUME IndInv, NEW t \in Tasks, StartSaves(t) PROVE IndInv'
<1>1. PICK id \in Ids : id = task[t].id
  BY DEF IndInv, Shapes, StartSaves
<1>2. PICK s \in Slots, b \in Nat : task[t].run = Run(s, b)
  BY DEF IndInv, Shapes, StartSaves, Running, Run
<1> DEFINE new == [phase |-> "booting", id |-> id, boot |-> b, told |-> FALSE]
<1>3. /\ task[t].pc = "save" /\ dirs[id] = "placed"
      /\ Goto(t, "wait") /\ lock' = lock
      /\ stored' = [stored EXCEPT ![id] = b]
      /\ last_boot' = [last_boot EXCEPT ![id] = b]
      /\ thread' = [thread EXCEPT ![s] = new]
      /\ ready' = [ready EXCEPT ![id] = "none"]
      /\ UNCHANGED <<dirs, name_of, disk, import, named, slots, node_boot, shut,
                     vm, alive, deleted, content>>
  BY <1>1, <1>2 DEF StartSaves, node, history, Run
<1>4. new \in Threads /\ new.phase = "booting" /\ new.id = id /\ new.boot = b
  BY DEF Threads, Phases
<1> HIDE DEF new
<1>5. /\ thread' \in [Slots -> Threads] /\ thread'[s] = new
      /\ \A x \in Slots : x # s => thread'[x] = thread[x]
      /\ stored' \in [Ids -> Nat] /\ last_boot' \in [Ids -> Nat]
      /\ stored'[id] = b /\ last_boot'[id] = b
      /\ \A i \in Ids : i # id => /\ stored'[i] = stored[i]
                                  /\ last_boot'[i] = last_boot[i]
      /\ ready' \in [Ids -> {"none", "ok", "err"}] /\ ready'[id] = "none"
      /\ \A i \in Ids : i # id => ready'[i] = ready[i]
  BY <1>3, <1>4 DEF IndInv, Types
<1>6. /\ Moves(t) /\ task' \in [Tasks -> TaskRecords]
      /\ lock' \in [Ids -> Tasks \cup {None}] /\ task'[t].pc = "wait"
      /\ task'[t].run = Run(s, b)
  BY <1>2, <1>3, GoesOn DEF Holding
<1>7. /\ task'[t].id = id /\ \A u \in Tasks : u # t => task'[u] = task[u]
  BY <1>1, <1>6 DEF Moves, Idle
<1>8. /\ lock[id] = t /\ vm[id] = None /\ name_of[id] # None /\ Quiet(id)
      /\ Listed(id) /\ InPlace(id) /\ shut \notin Stopping
      /\ s \notin slots /\ ~Live(s)
      /\ \A u \in Tasks : u # t /\ task[u].pc \in Holding => task[u].id # id
  <2>1. Saves(t, s)
    BY <1>2, <1>3 DEF Saves, Run
  <2> QED
    BY <2>1, <1>1, <1>3 DEF IndInv, Locks, TasksKnow, Knows, Vms, Holding,
                            Alone, Settled, SlotsKept, Shutting
<1>9. \A x \in Slots : /\ Live(x)' <=> x = s \/ Live(x)
                       /\ Live(x) => /\ x # s /\ thread[x].id # id
                                     /\ thread[x].id \in Ids
  BY <1>4, <1>5, <1>8 DEF Live, Quiet, IndInv, Shapes
<1>10. Types'
  BY <1>3, <1>5, <1>6, Zenon DEF IndInv, Types
<1>11. Shapes'
  <2>1. Run(s, b) \in Running
    BY DEF Run, Running
  <2> QED
    BY <1>4, <1>5, <1>6, <1>7, <1>9, <2>1 DEF IndInv, Shapes
<1>12. Locks'
  BY <1>3, <1>6, <1>10, MovesLocks DEF Holding
<1>13. NamesLead' /\ UnlockedInPlace'
  BY <1>3 DEF IndInv, NamesLead, UnlockedInPlace, Listed, InPlace
<1>14. TasksKnow'
  <2> SUFFICES ASSUME NEW u \in Tasks PROVE Knows(task[u].id, task[u].pc)'
    BY DEF TasksKnow
  <2>1. CASE u = t
    BY <2>1, <1>3, <1>6, <1>7, <1>8
      DEF Knows, Settled, Holding, Listed, InPlace
  <2>2. CASE u # t
    BY <2>2, <1>3, <1>7 DEF IndInv, TasksKnow, Knows, Listed, InPlace
  <2> QED
    BY <2>1, <2>2
<1>15. Vms'
  <2>1. \A x \in Slots : Live(x)' => Owned(x)'
    <3> SUFFICES ASSUME NEW x \in Slots, Live(x)' PROVE Owned(x)'
      OBVIOUS
    <3>1. CASE x = s
      <4>1. /\ thread'[x].id = id /\ thread'[x].boot = b /\ lock'[id] = t
            /\ t # None
        BY <3>1, <1>3, <1>4, <1>5, <1>8, SandboxesAssumption
      <4> QED
        BY <3>1, <4>1, <1>6 DEF Owned
    <3>2. CASE x # s
      <4>1. /\ thread'[x] = thread[x] /\ Live(x) /\ thread[x].id # id
            /\ thread[x].id \in Ids
        BY <3>2, <1>5, <1>9
      <4>2. lock[thread[x].id] # None => lock[thread[x].id] \in Tasks \ {t}
        BY <1>1, <4>1 DEF IndInv, Types, Locks
      <4> QED
        BY <4>1, <4>2, <1>3, <1>7 DEF IndInv, Vms, Owned
    <3> QED
      BY <3>1, <3>2
  <2>2. \A x, y \in Slots :
          Live(x)' /\ Live(y)' /\ thread'[x].id = thread'[y].id => x = y
    BY <1>4, <1>5, <1>9 DEF IndInv, Vms
  <2>3. \A u \in Tasks : u # t /\ task[u].pc \in Holding =>
          (Quiet(task[u].id)' <=> Quiet(task[u].id))
    BY <1>4, <1>5, <1>7, <1>8, <1>9 DEF Quiet
  <2>4. \A u \in Tasks : u # t /\ task[u].pc \in Holding =>
          task[u].id \in Ids /\ ready'[task[u].id] = ready[task[u].id]
    BY <1>5, <1>8 DEF IndInv, Shapes, Holding
  <2>5. \A u \in Tasks :
       /\ task'[u].pc \in Holding => vm'[task'[u].id] = None
       /\ task'[u].pc \in Alone => Quiet(task[u].id)'
       /\ task'[u].pc = "wait" /\ ready'[task'[u].id] = "err" =>
            Quiet(task[u].id)'
    <3> SUFFICES ASSUME NEW u \in Tasks
                 PROVE  /\ task'[u].pc \in Holding => vm'[task'[u].id] = None
                        /\ task'[u].pc \in Alone => Quiet(task[u].id)'
                        /\ task'[u].pc = "wait"
                             /\ ready'[task'[u].id] = "err" =>
                               Quiet(task[u].id)'
      OBVIOUS
    <3>1. CASE u = t
      BY <3>1, <1>3, <1>5, <1>6, <1>7, <1>8 DEF Alone
    <3>2. CASE u # t
      BY <3>2, <1>3, <1>7, <2>3, <2>4 DEF IndInv, Vms, Alone, Holding
    <3> QED
      BY <3>1, <3>2
  <2> QED
    BY <1>3, <2>1, <2>2, <2>5 DEF IndInv, Vms
<1>16. Recorded'
  <2> SUFFICES ASSUME NEW x \in Slots, Live(x)'
               PROVE  LET i == thread'[x].id IN
                      /\ dirs'[i] = "placed"
                      /\ stored'[i] = thread'[x].boot
                      /\ last_boot'[i] = thread'[x].boot
                      /\ thread'[x].phase \in {"up", "exited", "stopping"} =>
                           disk'[i] # None
    BY DEF Recorded
  <2>1. CASE x = s
    BY <2>1, <1>3, <1>4, <1>5
  <2>2. CASE x # s
    BY <2>2, <1>3, <1>5, <1>9 DEF IndInv, Recorded
  <2> QED
    BY <2>1, <2>2
<1>17. SlotsKept'
  <2>1. \A u \in Tasks, x \in Slots : Saves(u, x)' <=> u # t /\ Saves(u, x)
    BY <1>6, <1>7 DEF Saves
  <2>2. \A x \in Slots : Saves(t, x) <=> x = s
    BY <1>2, <1>3 DEF Saves, Run
  <2> QED
    BY <1>3, <1>8, <1>9, <2>1, <2>2 DEF IndInv, SlotsKept
<1>18. Shutting'
  BY <1>3, <1>8 DEF Shutting, Stopping
<1> QED
  BY <1>10, <1>11, <1>12, <1>13, <1>14, <1>15, <1>16, <1>17, <1>18 DEF IndInv

\* A boot ends: its VM goes into the entry, or the start has failed and no VM
\* is left.
LEMMA StartEndsKeeps ==
  ASSUME IndInv, NEW t \in Tasks, StartEnds(t) PROVE IndInv'
<1>1. PICK id \in Ids : id = task[t].id
  BY DEF IndInv, Shapes, StartEnds
<1>2. /\ task[t].pc = "wait" /\ ready[id] # "none"
      /\ UNCHANGED <<dirs, name_of, stored, disk, import, named, slots,
                     node_boot, shut, alive, deleted, last_boot, thread, ready,
                     content>>
      /\ IF ready[id] = "ok"
           THEN vm' = [vm EXCEPT ![id] = task[t].run] /\ Finish(t)
           ELSE StartFails(t) /\ vm' = vm
  BY <1>1 DEF StartEnds, files, node, flags, history
<1>3. InPlace(id) /\ InPlace(id)' /\ Listed(id) /\ name_of[id] # None
  BY <1>1, <1>2 DEF InPlace, IndInv, TasksKnow, Knows, Settled, Holding
<1>4. CASE ready[id] # "ok"
  <2>1. /\ (Goto(t, "undo") /\ lock' = lock) \/ Finish(t)
        /\ vm' = vm
    BY <1>2, <1>4 DEF StartFails
  <2>2. /\ Moves(t) /\ task' \in [Tasks -> TaskRecords]
        /\ lock' \in [Ids -> Tasks \cup {None}]
        /\ task'[t].pc \in {"undo", "idle"}
    BY <2>1, GoesOn, Ends DEF Holding
  <2>3. Types'
    BY <1>2, <2>1, <2>2, Zenon DEF IndInv, Types
  <2>4. SlotsKept'
    BY <1>2, <2>2, SameSlots DEF IndInv, Moves, Live
  <2>5. ready[id] = "err"
    BY <1>2, <1>4 DEF IndInv, Types
  <2>6. Quiet(id)
    BY <1>1, <1>2, <2>5 DEF IndInv, Vms
  <2> QED
    BY <1>1, <1>2, <1>3, <2>1, <2>2, <2>3, <2>4, <2>6, QuietStep
      DEF Alone, Holding, Settled
<1>5. CASE ready[id] = "ok"
  <2>1. vm' = [vm EXCEPT ![id] = task[t].run] /\ Finish(t)
    BY <1>2, <1>5
  <2>2. /\ Moves(t) /\ task' \in [Tasks -> TaskRecords]
        /\ lock' \in [Ids -> Tasks \cup {None}] /\ task'[t].pc = "idle"
    BY <2>1, Ends
  <2>3. /\ vm' \in [Ids -> Running \cup {None}] /\ vm'[id] = task[t].run
        /\ \A i \in Ids : i # id => vm'[i] = vm[i]
    <3>1. task[t].run \in Running /\ vm \in [Ids -> Running \cup {None}]
      BY <1>2 DEF IndInv, Shapes, Types
    <3> QED
      BY <2>1, <3>1
  <2>4. /\ \A u \in Tasks : u # t =>
             /\ task'[u] = task[u]
             /\ task[u].pc \in Holding => task[u].id # id /\ task[u].id \in Ids
        /\ lock[id] = t
    BY <1>1, <1>2, <2>2 DEF Moves, IndInv, Locks, Shapes, Holding
  <2>5. Types'
    BY <1>2, <2>2, <2>3, Zenon DEF IndInv, Types
  <2>6. Locks' /\ \A i \in Ids : i # id => lock'[i] = lock[i]
    BY <1>1, <1>2, <2>2, <2>5, MovesLocks DEF Holding
  <2>7. SlotsKept'
    BY <1>2, <2>2, SameSlots DEF IndInv, Moves, Live
  <2>8. Shapes'
    BY <1>2, <2>2, <2>4 DEF IndInv, Shapes, Live
  <2>9. NamesLead'
    BY <1>2 DEF IndInv, NamesLead, Listed
  <2>10. TasksKnow'
    <3> SUFFICES ASSUME NEW u \in Tasks PROVE Knows(task[u].id, task[u].pc)'
      BY DEF TasksKnow
    <3>1. CASE u = t
      BY <3>1, <2>2 DEF Knows, Settled, Holding
    <3>2. CASE u # t
      BY <3>2, <1>2, <2>4 DEF IndInv, TasksKnow, Knows, Listed, InPlace
    <3> QED
      BY <3>1, <3>2
  <2>11. UnlockedInPlace'
    BY <1>2, <1>3, <2>6 DEF IndInv, UnlockedInPlace, Listed, InPlace
  <2>12. Vms'
    <3>1. \A s \in Slots : (Live(s)' <=> Live(s)) /\ (Live(s) => thread[s].id \in Ids)
      BY <1>2 DEF Live, IndInv, Shapes
    <3>2. \A s \in Slots : Live(s)' => Owned(s)'
      <4> SUFFICES ASSUME NEW s \in Slots, Live(s) PROVE Owned(s)'
        BY <3>1
      <4>1. Owned(s) /\ thread[s].id \in Ids /\ thread' = thread
        BY <1>2, <3>1 DEF IndInv, Vms
      <4>2. CASE thread[s].id = id
        <5>1. vm[id] = None /\ shut \notin Stopping
          BY <1>1, <1>2 DEF IndInv, Vms, Shutting, Holding
        <5>2. Run(s, thread[s].boot) # None
          BY RunNotNone DEF IndInv
        <5>3. task[t].run = Run(s, thread[s].boot)
          BY <4>1, <4>2, <5>1, <5>2, <2>4 DEF Owned
        <5> QED
          BY <4>1, <4>2, <5>3, <2>3 DEF Owned
      <4>3. CASE thread[s].id # id
        <5>1. lock[thread[s].id] # None => lock[thread[s].id] \in Tasks \ {t}
          BY <1>1, <4>1, <4>3 DEF IndInv, Types, Locks
        <5> QED
          BY <4>1, <4>3, <5>1, <1>2, <2>3, <2>4, <2>6 DEF Owned
      <4> QED
        BY <4>2, <4>3
    <3>3. \A u \in Tasks : u # t => (Quiet(task[u].id)' <=> Quiet(task[u].id))
      BY <1>2, <2>4, <3>1 DEF Quiet
    <3>4. \A i \in Ids : name_of'[i] = None => vm'[i] = None
      BY <1>2, <1>3, <2>3 DEF IndInv, Vms
    <3>5. \A u \in Tasks :
         /\ task'[u].pc \in Holding => vm'[task'[u].id] = None
         /\ task'[u].pc \in Alone => Quiet(task[u].id)'
         /\ task'[u].pc = "wait" /\ ready'[task'[u].id] = "err" =>
              Quiet(task[u].id)'
      BY <1>2, <2>2, <2>3, <2>4, <3>3 DEF IndInv, Vms, Holding, Alone
    <3> QED
      BY <1>2, <3>1, <3>2, <3>4, <3>5 DEF IndInv, Vms
  <2>13. Recorded'
    BY <1>2 DEF IndInv, Recorded, Live
  <2>14. Shutting'
    BY <1>2, <2>2, <2>4 DEF IndInv, Shutting, Live
  <2> QED
    BY <2>5, <2>6, <2>7, <2>8, <2>9, <2>10, <2>11, <2>12, <2>13, <2>14
      DEF IndInv
<1> QED
  BY <1>4, <1>5

\* A task takes the lock: with no VM in the entry none is left of the sandbox,
\* and one that is there is told to stop and is the task's to join.
LEMMA LockStopsKeeps ==
  ASSUME IndInv, NEW t \in Tasks, LockStops(t) PROVE IndInv'
<1>1. PICK id \in Ids : id = task[t].id
  BY DEF IndInv, Shapes, LockStops, Locked
<1>2. /\ task[t].pc = "lock" /\ lock[id] = None /\ ~deleted[id]
      /\ lock' = [lock EXCEPT ![id] = t]
      /\ UNCHANGED <<dirs, name_of, stored, disk, import, named, slots,
                     node_boot, shut, alive, deleted, last_boot, ready,
                     content>>
  BY <1>1 DEF LockStops, Locked, Refused, files, node, flags, history
<1>3. /\ Listed(id) /\ InPlace(id) /\ name_of[id] # None
      /\ shut \notin Stopping
      /\ t # None /\ lock[id] # t /\ \A i \in Ids : lock[i] # t
      /\ \A u \in Tasks : u # t /\ task[u].pc \in Holding =>
           task[u].id # id /\ task[u].id \in Ids
  BY <1>1, <1>2, SandboxesAssumption
    DEF IndInv, TasksKnow, Knows, UnlockedInPlace, Shutting, Locks, Shapes,
        Holding
<1>4. /\ lock' \in [Ids -> Tasks \cup {None}] /\ lock'[id] = t
      /\ \A i \in Ids : i # id => lock'[i] = lock[i]
  BY <1>2 DEF IndInv, Types
<1>5. /\ task' \in [Tasks -> TaskRecords] /\ task'[t].id = id
      /\ \A u \in Tasks : u # t => task'[u] = task[u]
      /\ vm' \in [Ids -> Running \cup {None}] /\ vm'[id] = None
      /\ \A i \in Ids : i # id => vm'[i] = vm[i]
      /\ thread' \in [Slots -> Threads]
      /\ \A s \in Slots :
           /\ thread'[s].phase = thread[s].phase /\ thread'[s].id = thread[s].id
           /\ thread'[s].boot = thread[s].boot
           /\ ~Live(s) => ~thread'[s].told
      /\ \/ /\ vm[id] = None
            /\ task'[t].pc \in {"bury", "copy", "renumber", "start", "end"}
         \/ /\ vm[id] # None /\ task'[t].pc = "join" /\ task'[t].run = vm[id]
            /\ task'[t].run \in Running
  <2>1. /\ task \in [Tasks -> TaskRecords] /\ thread \in [Slots -> Threads]
        /\ vm \in [Ids -> Running \cup {None}]
        /\ \A s \in Slots : ~Live(s) => ~thread[s].told
    BY DEF IndInv, Types, Shapes
  <2>2. CASE vm[id] = None
    <3>1. Goto(t, Stopped(task[t].op)) /\ vm' = vm /\ thread' = thread
      BY <1>1, <2>2 DEF LockStops
    <3>2. PICK p \in {"bury", "copy", "renumber", "start", "end"} :
            p = Stopped(task[t].op)
      BY DEF Stopped
    <3>3. p \in Holding /\ Goto(t, p)
      BY <3>1, <3>2 DEF Holding
    <3>4. /\ task' \in [Tasks -> TaskRecords] /\ task'[t].pc = p
          /\ task'[t].id = task[t].id
          /\ \A u \in Tasks : u # t => task'[u] = task[u]
      BY <3>3, GotoDoes DEF IndInv
    <3> QED
      BY <1>1, <2>1, <2>2, <3>1, <3>4
  <2>3. CASE vm[id] # None
    <3>1. PICK run \in Running : run = vm[id]
      BY <2>1, <2>3
    <3>2. /\ task' = [task EXCEPT ![t].pc = "join", ![t].run = run]
          /\ vm' = [vm EXCEPT ![id] = None]
          /\ \/ thread' = thread
             \/ /\ Holds(run)
                /\ thread' = [thread EXCEPT ![run.slot].told = TRUE]
      BY <1>1, <2>3, <3>1 DEF LockStops
    <3>3. /\ task' \in [Tasks -> TaskRecords] /\ task'[t].pc = "join"
          /\ task'[t].run = run /\ task'[t].id = task[t].id
          /\ \A u \in Tasks : u # t => task'[u] = task[u]
      <4>1. task[t] \in TaskRecords
        BY <2>1
      <4>2. task'[t] = [task[t] EXCEPT !.pc = "join", !.run = run]
        BY <3>2, <2>1
      <4>3. [task[t] EXCEPT !.pc = "join", !.run = run] \in TaskRecords
        BY <4>1 DEF TaskRecords, Holding
      <4> QED
        BY <2>1, <3>2, <4>1, <4>2, <4>3 DEF TaskRecords
    <3>4. /\ vm' \in [Ids -> Running \cup {None}] /\ vm'[id] = None
          /\ \A i \in Ids : i # id => vm'[i] = vm[i]
      BY <2>1, <3>2
    <3>5. /\ thread' \in [Slots -> Threads]
          /\ \A s \in Slots :
               /\ thread'[s].phase = thread[s].phase
               /\ thread'[s].id = thread[s].id
               /\ thread'[s].boot = thread[s].boot
               /\ ~Live(s) => ~thread'[s].told
      <4>1. CASE thread' = thread
        BY <2>1, <4>1
      <4>2. CASE /\ Holds(run)
                 /\ thread' = [thread EXCEPT ![run.slot].told = TRUE]
        <5>1. PICK x \in Slots : x = run.slot
          BY DEF Running
        <5>2. thread[x] \in Threads /\ Live(x)
          BY <2>1, <4>2, <5>1 DEF Holds, Live
        <5>3. thread'[x] = [thread[x] EXCEPT !.told = TRUE]
          BY <2>1, <4>2, <5>1
        <5>4. /\ thread'[x] \in Threads
              /\ thread'[x].phase = thread[x].phase
              /\ thread'[x].id = thread[x].id
              /\ thread'[x].boot = thread[x].boot
          BY <5>2, <5>3 DEF Threads
        <5>5. \A s \in Slots : s # x => thread'[s] = thread[s]
          BY <2>1, <4>2, <5>1
        <5>6. thread' \in [Slots -> Threads]
          BY <2>1, <4>2, <5>1, <5>4
        <5> QED
          BY <2>1, <5>2, <5>4, <5>5, <5>6
      <4> QED
        BY <3>2, <4>1, <4>2
    <3> QED
      BY <1>1, <2>3, <3>1, <3>3, <3>4, <3>5
  <2> QED
    BY <2>2, <2>3
<1>6. \A s \in Slots : (Live(s)' <=> Live(s)) /\ (Live(s) => thread[s].id \in Ids)
  BY <1>5 DEF Live, IndInv, Shapes
<1>7. Types'
  BY <1>2, <1>4, <1>5, Zenon DEF IndInv, Types
<1>8. Shapes'
  BY <1>1, <1>5, <1>6 DEF IndInv, Shapes
<1>9. Locks'
  BY <1>3, <1>4, <1>5 DEF IndInv, Locks, Types, Holding
<1>10. NamesLead' /\ UnlockedInPlace'
  BY <1>2, <1>3, <1>4 DEF IndInv, NamesLead, UnlockedInPlace, Listed, InPlace
<1>11. TasksKnow'
  <2> SUFFICES ASSUME NEW u \in Tasks PROVE Knows(task[u].id, task[u].pc)'
    BY DEF TasksKnow
  <2>1. CASE u = t
    BY <2>1, <1>2, <1>3, <1>5 DEF Knows, Settled, Holding, Listed, InPlace
  <2>2. CASE u # t
    BY <2>2, <1>2, <1>5 DEF IndInv, TasksKnow, Knows, Listed, InPlace
  <2> QED
    BY <2>1, <2>2
<1>12. Vms'
  <2>1. \A s \in Slots : Live(s)' => Owned(s)'
    <3> SUFFICES ASSUME NEW s \in Slots, Live(s) PROVE Owned(s)'
      BY <1>6
    <3>1. /\ Owned(s) /\ thread[s].id \in Ids /\ thread'[s].id = thread[s].id
          /\ thread'[s].boot = thread[s].boot
      BY <1>5, <1>6 DEF IndInv, Vms
    <3>2. CASE thread[s].id = id
      <4>1. vm[id] = Run(s, thread[s].boot)
        BY <3>1, <3>2, <1>2, <1>3 DEF Owned
      <4>2. vm[id] # None
        BY <4>1, RunNotNone DEF IndInv
      <4>3. task'[t].pc = "join" /\ task'[t].run = vm[id]
        BY <1>5, <4>2
      <4> QED
        BY <3>1, <3>2, <4>1, <4>3, <1>3, <1>4 DEF Owned
    <3>3. CASE thread[s].id # id
      <4>1. lock[thread[s].id] # None => lock[thread[s].id] \in Tasks \ {t}
        BY <1>3, <3>1 DEF IndInv, Types
      <4> QED
        BY <3>1, <3>3, <4>1, <1>2, <1>4, <1>5 DEF Owned
    <3> QED
      BY <3>2, <3>3
  <2>2. \A u \in Tasks : u # t => (Quiet(task[u].id)' <=> Quiet(task[u].id))
    BY <1>5, <1>6 DEF Quiet
  <2>3. task'[t].pc # "join" => Quiet(task[t].id)'
    <3> SUFFICES ASSUME task'[t].pc # "join", NEW s \in Slots, Live(s),
                        thread[s].id = id
                 PROVE  FALSE
      BY <1>5, <1>6 DEF Quiet
    <3>1. vm[id] = None /\ Owned(s)
      BY <1>5 DEF IndInv, Vms
    <3>2. Run(s, thread[s].boot) # None
      BY RunNotNone DEF IndInv
    <3> QED
      BY <3>1, <3>2, <1>2, <1>3 DEF Owned
  <2>4. \A u \in Tasks :
       /\ task'[u].pc \in Holding => vm'[task'[u].id] = None
       /\ task'[u].pc \in Alone => Quiet(task[u].id)'
       /\ task'[u].pc = "wait" /\ ready'[task'[u].id] = "err" =>
            Quiet(task[u].id)'
    <3> SUFFICES ASSUME NEW u \in Tasks
                 PROVE  /\ task'[u].pc \in Holding => vm'[task'[u].id] = None
                        /\ task'[u].pc \in Alone => Quiet(task[u].id)'
                        /\ task'[u].pc = "wait"
                             /\ ready'[task'[u].id] = "err" =>
                               Quiet(task[u].id)'
      OBVIOUS
    <3>1. CASE u = t
      BY <3>1, <1>5, <2>3 DEF Alone
    <3>2. CASE u # t
      BY <3>2, <1>2, <1>3, <1>5, <2>2 DEF IndInv, Vms, Alone, Holding
    <3> QED
      BY <3>1, <3>2
  <2>5. \A i \in Ids : name_of'[i] = None => vm'[i] = None
    BY <1>2, <1>3, <1>5 DEF IndInv, Vms
  <2> QED
    BY <1>5, <1>6, <2>1, <2>4, <2>5 DEF IndInv, Vms
<1>13. Recorded'
  BY <1>2, <1>5, <1>6 DEF IndInv, Recorded
<1>14. SlotsKept'
  BY <1>2, <1>5, <1>6, SameSlots DEF IndInv
<1>15. Shutting'
  BY <1>2, <1>3 DEF Shutting, Stopping
<1> QED
  BY <1>7, <1>8, <1>9, <1>10, <1>11, <1>12, <1>13, <1>14, <1>15 DEF IndInv

\* shut_down, with every request over, tells each VM of a sandbox to stop:
\* that is every VM there is.
LEMMA ShutDownStopsKeeps == ASSUME IndInv, ShutDownStops PROVE IndInv'
<1> DEFINE listed == {i \in Ids : \E n \in Names : named[n] = i}
           runs == {vm[i] : i \in {j \in listed : vm[j] # None}}
           told(s) == \E run \in runs : run.slot = s /\ Holds(run)
<1>1. /\ shut = "closing" /\ shut' = "stopping"
      /\ \A t \in Tasks : task[t].pc = "idle"
      /\ thread' = [s \in Slots |-> IF told(s)
                      THEN [thread[s] EXCEPT !.told = TRUE] ELSE thread[s]]
      /\ vm' = [i \in Ids |-> IF i \in listed THEN None ELSE vm[i]]
      /\ UNCHANGED <<dirs, name_of, stored, disk, import, named, slots,
                     node_boot, lock, alive, deleted, last_boot, ready, task,
                     content>>
  BY DEF ShutDownStops, files, flags, history
<1>2. \A s \in Slots : Live(s) => told(s) /\ thread[s].id \in Ids
  <2> SUFFICES ASSUME NEW s \in Slots, Live(s)
               PROVE  told(s) /\ thread[s].id \in Ids
    OBVIOUS
  <2> DEFINE i == thread[s].id
             run == Run(s, thread[s].boot)
  <2>1. i \in Ids /\ Owned(s) /\ dirs[i] = "placed"
    BY DEF IndInv, Shapes, Vms, Recorded
  <2>2. lock[i] = None
    BY <1>1, <2>1, SMTT(30) DEF IndInv, Locks, Holding, Types
  <2>3. vm[i] = run /\ run # None
    BY <1>1, <2>1, <2>2, RunNotNone DEF Owned, Stopping, IndInv
  <2>4. i \in listed
    <3>1. name_of[i] # None /\ named[name_of[i]] = i
      BY <2>1 DEF IndInv, NamesLead, Listed
    <3>2. name_of[i] \in Names
      BY <2>1, <3>1 DEF IndInv, Types
    <3> QED
      BY <2>1, <3>1, <3>2
  <2>5. run \in runs
    BY <2>3, <2>4
  <2>6. run.slot = s /\ Holds(run)
    BY DEF Run, Holds, Live
  <2> QED
    BY <2>1, <2>5, <2>6
<1>3. \A s \in Slots : told(s) => Live(s)
  BY DEF Holds, Live
<1> HIDE DEF told, runs, listed
<1>4. thread \in [Slots -> Threads] /\ vm \in [Ids -> Running \cup {None}]
  BY DEF IndInv, Types
<1>5. /\ vm' \in [Ids -> Running \cup {None}]
      /\ \A i \in Ids : vm[i] = None => vm'[i] = None
  BY <1>1, <1>4
<1>6. ASSUME NEW s \in Slots
      PROVE  /\ thread'[s] \in Threads
             /\ thread'[s].phase = thread[s].phase
             /\ thread'[s].id = thread[s].id
             /\ thread'[s].boot = thread[s].boot
             /\ IF Live(s) THEN thread'[s].told
                ELSE thread'[s].told = thread[s].told
  <2>1. thread[s] \in Threads
    BY <1>4
  <2>2. CASE Live(s)
    <3>1. thread'[s] = [thread[s] EXCEPT !.told = TRUE]
      BY <1>1, <1>2, <2>2
    <3> QED
      BY <2>1, <2>2, <3>1 DEF Threads
  <2>3. CASE ~Live(s)
    <3>1. thread'[s] = thread[s]
      BY <1>1, <1>3, <2>3
    <3> QED
      BY <2>1, <2>3, <3>1
  <2> QED
    BY <2>2, <2>3
<1>7. thread' \in [Slots -> Threads] /\ \A s \in Slots : Live(s)' <=> Live(s)
  <2>1. thread' \in [Slots -> Threads]
    BY <1>1, <1>6
  <2> QED
    BY <1>6, <2>1 DEF Live
<1>8. Types'
  BY <1>1, <1>5, <1>7, Zenon DEF IndInv, Types
<1>9. Shapes' /\ Locks'
  BY <1>1, <1>6, <1>7 DEF IndInv, Shapes, Locks
<1>10. NamesLead' /\ UnlockedInPlace' /\ TasksKnow'
  BY <1>1 DEF IndInv, NamesLead, UnlockedInPlace, TasksKnow, Knows, Listed,
              InPlace
<1>11. Vms'
  <2>1. \A s \in Slots : Owned(s)'
    BY <1>1 DEF Owned, Stopping
  <2>2. \A t \in Tasks : task'[t].pc = "idle"
    BY <1>1
  <2> QED
    BY <1>1, <1>5, <1>6, <1>7, <2>1, <2>2 DEF IndInv, Vms, Holding, Alone
<1>12. Recorded'
  BY <1>1, <1>6, <1>7 DEF IndInv, Recorded
<1>13. SlotsKept'
  BY <1>1, <1>7 DEF IndInv, SlotsKept, Saves
<1>14. Shutting'
  BY <1>1, <1>6, <1>7 DEF Shutting, Stopping
<1> QED
  BY <1>8, <1>9, <1>10, <1>11, <1>12, <1>13, <1>14 DEF IndInv

\* A finite set of numbers that is not empty has a greatest.
LEMMA MaxExists ==
  ASSUME NEW S \in SUBSET Nat, IsFiniteSet(S), S # {}
  PROVE  Max(S) \in S /\ \A y \in S : y <= Max(S)
<1> DEFINE Has(A) == \E x \in A : \A y \in A : x >= y
           Bad == {n \in Nat : \E A \in SUBSET S : /\ A # {} /\ ~Has(A)
                                                   /\ IsFiniteSet(A)
                                                   /\ Cardinality(A) = n}
<1>1. Bad = {}
  <2> SUFFICES ASSUME Bad # {} PROVE FALSE
    OBVIOUS
  <2>1. Bad \subseteq Nat
    OBVIOUS
  <2>2. PICK n \in Bad : \A m \in Bad : ~(<<m, n>> \in OpToRel(<, Nat))
    BY <2>1, WFMin, NatLessThanWellFounded, Zenon
  <2>3. n \in Nat /\ \A m \in Bad : ~(m < n)
    BY <2>1, <2>2 DEF OpToRel
  <2>4. PICK A \in SUBSET S : A # {} /\ ~Has(A) /\ IsFiniteSet(A)
                              /\ Cardinality(A) = n
    OBVIOUS
  <2>5. PICK x \in A : TRUE
    BY <2>4
  <2>6. /\ IsFiniteSet(A \ {x}) /\ Cardinality(A \ {x}) = n - 1
        /\ Cardinality(A \ {x}) \in Nat
    BY <2>4, <2>5, FS_RemoveElement, FS_CardinalityType
  <2>7. Has(A \ {x}) \/ A \ {x} = {}
    <3> SUFFICES ASSUME ~Has(A \ {x}), A \ {x} # {} PROVE FALSE
      OBVIOUS
    <3>1. A \ {x} \in SUBSET S
      BY <2>4
    <3>2. Cardinality(A \ {x}) \in Bad
      BY <2>6, <3>1
    <3> HIDE DEF Bad
    <3> QED
      BY <2>3, <2>6, <3>2
  <2>8. Has(A)
    <3>1. CASE A \ {x} = {}
      <4>1. A = {x} /\ x \in Nat
        BY <2>5, <3>1
      <4> QED
        BY <4>1
    <3>2. CASE Has(A \ {x})
      <4>1. PICK m \in A \ {x} : \A y \in A \ {x} : m >= y
        BY <3>2
      <4>2. m \in Nat /\ x \in Nat /\ A \subseteq Nat
        BY <2>4
      <4>3. CASE m >= x
        BY <4>1, <4>3
      <4>4. CASE ~(m >= x)
        <5>1. \A y \in A : x >= y
          BY <4>1, <4>2, <4>4
        <5> QED
          BY <2>5, <5>1
      <4> QED
        BY <4>3, <4>4
    <3> QED
      BY <2>7, <3>1, <3>2
  <2> QED
    BY <2>4, <2>8
<1>2. Cardinality(S) \in Nat
  BY FS_CardinalityType
<1>3. Has(S)
  BY <1>1, <1>2
<1> QED
  BY <1>3 DEF Max

\* load goes on from the highest boot in a record of a sandbox in place.
LEMMA LoadNumbers ==
  ASSUME Types
  PROVE  LET last == Max({0} \cup {stored[i] : i \in Kept}) IN
         last \in Nat /\ \A i \in Kept : stored[i] <= last
<1> DEFINE B == {stored[i] : i \in Kept}
           S == {0} \cup B
<1>1. IsFiniteSet(Kept)
  BY SandboxesAssumption, FS_Subset DEF Kept
<1>2. IsFiniteSet(B)
  <2> DEFINE f == [i \in Kept |-> stored[i]]
  <2>1. f \in Surjection(Kept, B)
    BY DEF Surjection
  <2> QED
    BY <1>1, <2>1, FS_Surjection, Zenon
<1>3. IsFiniteSet(S)
  BY <1>2, FS_AddElement
<1>4. S \in SUBSET Nat /\ S # {}
  BY DEF Types, Kept
<1>5. \A i \in Kept : stored[i] \in S
  OBVIOUS
<1> HIDE DEF S
<1>6. Max(S) \in S /\ \A y \in S : y <= Max(S)
  BY <1>3, <1>4, MaxExists
<1>7. Max(S) \in Nat /\ \A i \in Kept : stored[i] <= Max(S)
  BY <1>4, <1>5, <1>6
<1> QED
  BY <1>7 DEF S

\* With no VM, no task and every slot free, what is left to show is of the
\* directories and the names.
LEMMA AtRest ==
  ASSUME Types, NamesLead, lock = [i \in Ids |-> None],
         vm = [i \in Ids |-> None], thread = [s \in Slots |-> Off],
         task = [t \in Tasks |-> Idle], slots = Slots, shut = "open",
         \A i \in Ids : Listed(i) => dirs[i] = "placed"
  PROVE  IndInv
<1>1. \A s \in Slots : ~Live(s) /\ thread[s].told = FALSE
  BY DEF Live, Off
<1>2. \A t \in Tasks : task[t].pc = "idle"
  BY DEF Idle
<1>3. Shapes /\ Locks /\ TasksKnow /\ UnlockedInPlace
  BY <1>1, <1>2
    DEF Shapes, Locks, TasksKnow, Knows, UnlockedInPlace, InPlace, Holding,
        Settled
<1>4. Vms /\ Recorded /\ SlotsKept /\ Shutting
  BY <1>1, <1>2
    DEF Vms, Recorded, SlotsKept, Saves, Shutting, Stopping, Holding, Alone,
        Quiet
<1> QED
  BY <1>3, <1>4 DEF IndInv

\* The initial state satisfies the inductive invariant.
LEMMA InitIndInv == Init => IndInv
<1> SUFFICES ASSUME Init PROVE IndInv
  OBVIOUS
<1>1. Off \in Threads /\ Idle \in TaskRecords
  BY DEF Off, Threads, Phases, Idle, TaskRecords, Ops
<1>2. Types
  BY <1>1 DEF Init, Types
<1>3. NamesLead /\ \A i \in Ids : ~Listed(i)
  BY DEF Init, NamesLead, Listed
<1> QED
  BY <1>2, <1>3, AtRest DEF Init

\* A crash and the load after it: each directory in place has its name to
\* itself, so load takes up every one of them.
LEMMA CrashKeeps == ASSUME IndInv, CrashAndLoad PROVE IndInv'
<1>1. /\ dirs' = [i \in Ids |-> IF i \in Kept THEN "placed" ELSE "absent"]
      /\ disk' = [i \in Ids |-> IF i \in Kept THEN disk[i] ELSE None]
      /\ named' = [n \in Names |->
           IF \E i \in Kept : name_of[i] = n
             THEN CHOOSE i \in Kept : name_of[i] = n ELSE None]
      /\ slots' = Slots /\ shut' = "open"
      /\ node_boot' = Max({0} \cup {stored[i] : i \in Kept})
      /\ lock' = [i \in Ids |-> None] /\ vm' = [i \in Ids |-> None]
      /\ alive' = [i \in Ids |-> FALSE] /\ deleted' = [i \in Ids |-> FALSE]
      /\ last_boot' = [i \in Ids |-> IF i \in Kept THEN stored[i] ELSE 0]
      /\ thread' = [s \in Slots |-> Off] /\ ready' = [i \in Ids |-> "none"]
      /\ task' = [t \in Tasks |-> Idle]
      /\ UNCHANGED <<stored, name_of, import, content>>
  BY DEF CrashAndLoad
<1>2. \A i \in Kept : /\ i \in Ids /\ name_of[i] \in Names
                      /\ named[name_of[i]] = i
  BY DEF Kept, IndInv, NamesLead, Listed, Types
<1>3. \A n \in Names :
        /\ named'[n] # None => /\ named'[n] \in Kept
                               /\ name_of[named'[n]] = n
        /\ \A i \in Kept : name_of[i] = n => named'[n] = i
  <2> SUFFICES ASSUME NEW n \in Names
               PROVE  /\ named'[n] # None => /\ named'[n] \in Kept
                                             /\ name_of[named'[n]] = n
                      /\ \A i \in Kept : name_of[i] = n => named'[n] = i
    OBVIOUS
  <2> DEFINE c == CHOOSE i \in Kept : name_of[i] = n
  <2>1. CASE \E i \in Kept : name_of[i] = n
    <3>1. c \in Kept /\ name_of[c] = n
      BY <2>1
    <3>2. named'[n] = c
      BY <1>1, <2>1
    <3> HIDE DEF c
    <3> QED
      BY <3>1, <3>2, <1>2
  <2>2. CASE ~\E i \in Kept : name_of[i] = n
    BY <1>1, <2>2
  <2> QED
    BY <2>1, <2>2
<1>4. node_boot' \in Nat
  BY <1>1, LoadNumbers DEF IndInv
<1>5. Types'
  <2>1. Off \in Threads /\ Idle \in TaskRecords
    BY DEF Off, Threads, Phases, Idle, TaskRecords, Ops
  <2>2. /\ dirs' \in [Ids -> {"absent", "partial", "placed", "deleted"}]
        /\ disk' \in [Ids -> Nat \cup {None}] /\ last_boot' \in [Ids -> Nat]
        /\ slots' \in SUBSET Slots
        /\ shut' \in {"open", "closing", "stopping", "done"}
        /\ lock' \in [Ids -> Tasks \cup {None}]
        /\ vm' \in [Ids -> Running \cup {None}]
    BY <1>1 DEF IndInv, Types
  <2>3. /\ alive' \in [Ids -> BOOLEAN] /\ deleted' \in [Ids -> BOOLEAN]
        /\ ready' \in [Ids -> {"none", "ok", "err"}]
        /\ thread' \in [Slots -> Threads] /\ task' \in [Tasks -> TaskRecords]
    BY <1>1, <2>1
  <2>4. named' \in [Names -> Ids \cup {None}]
    <3>1. \A n \in Names : named'[n] \in Ids \cup {None}
      BY <1>2, <1>3
    <3> QED
      BY <1>1, <3>1
  <2> QED
    BY <1>1, <1>4, <2>2, <2>3, <2>4, Zenon DEF IndInv, Types
<1>6. \A i \in Ids : Listed(i)' <=> i \in Kept
  <2> SUFFICES ASSUME NEW i \in Ids PROVE Listed(i)' <=> i \in Kept
    OBVIOUS
  <2>1. ASSUME i \in Kept PROVE Listed(i)'
    BY <2>1, <1>1, <1>2, <1>3, SandboxesAssumption DEF Listed
  <2>2. ASSUME Listed(i)' PROVE i \in Kept
    <3>1. name_of[i] \in Names /\ named'[name_of[i]] = i /\ i # None
      BY <2>2, <1>1, SandboxesAssumption DEF Listed, IndInv, Types
    <3> QED
      BY <3>1, <1>3
  <2> QED
    BY <2>1, <2>2
<1>7. \A i \in Ids : dirs'[i] = "placed" <=> i \in Kept
  BY <1>1
<1>8. NamesLead'
  BY <1>1, <1>3, <1>6, <1>7 DEF NamesLead
<1>9. \A i \in Ids : Listed(i)' => dirs'[i] = "placed"
  BY <1>6, <1>7
<1>10. \A s \in Slots : ~Live(s)' /\ thread'[s].told = FALSE
  BY <1>1 DEF Live, Off
<1>11. \A t \in Tasks : task'[t].pc = "idle"
  BY <1>1 DEF Idle
<1>12. \A i \in Ids : lock'[i] = None /\ vm'[i] = None
  BY <1>1
<1>13. (Shapes /\ Locks /\ TasksKnow)'
  BY <1>10, <1>11, <1>12
    DEF Shapes, Locks, TasksKnow, Knows, Holding, Settled
<1>14. UnlockedInPlace'
  BY <1>9 DEF UnlockedInPlace, InPlace
<1>15. Vms' /\ Recorded'
  BY <1>10, <1>11, <1>12 DEF Vms, Recorded, Holding, Alone
<1>16. SlotsKept' /\ Shutting'
  BY <1>1, <1>10, <1>11 DEF SlotsKept, Saves, Shutting, Stopping
<1> QED
  BY <1>5, <1>8, <1>13, <1>14, <1>15, <1>16 DEF IndInv

\* Every step keeps the inductive invariant.
LEMMA NextIndInv == IndInv /\ [Next]_vars => IndInv'
<1> SUFFICES ASSUME IndInv, [Next]_vars PROVE IndInv'
  OBVIOUS
<1>1. ASSUME NEW t \in Tasks, Begin(t) \/ Lock(t) PROVE IndInv'
  <2>1. CASE \E id \in Ids, name \in Names, start, imports \in BOOLEAN :
               Create(t, id, name, start, imports)
    BY <2>1, CreateKeeps
  <2>2. CASE \/ LockLeaves(t)
             \/ \E op \in Ops, name \in Names, flag \in BOOLEAN :
                  Request(t, op, name, flag)
    BY <2>2, OutsideKeeps
  <2>3. CASE LockStops(t)
    BY <2>3, LockStopsKeeps
  <2> QED
    BY <1>1, <2>1, <2>2, <2>3, Zenon DEF Begin, Lock
<1>2. ASSUME NEW t \in Tasks, Step(t) PROVE IndInv'
  <2>1. CASE \/ MakeStages(t) \/ MakePlaces(t) \/ MakeFails(t)
             \/ MakeFailsPlaced(t) \/ Undo(t)
    BY <2>1, MakeStagesKeeps, MakePlacesKeeps, MakeFailsKeeps, UndoKeeps
  <2>2. CASE BuryRenames(t) \/ BuryFails(t) \/ BuryForgets(t) \/ BuryRemoves(t)
    BY <2>2, BuryRenamesKeeps, BuryFailsKeeps, BuryForgetsKeeps,
       BuryRemovesKeeps
  <2>3. CASE \/ Join(t) \/ End(t) \/ Copy(t) \/ Renumber(t) \/ Record(t)
             \/ Swap(t) \/ RestoreFails(t) \/ StartRefused(t)
    BY <2>3, JoinKeeps, AnswersKeep, RestoresKeep
  <2>4. CASE \/ StartTakesSlot(t) \/ StartSaves(t) \/ StartSaveFails(t)
             \/ StartSpawnFails(t) \/ StartEnds(t)
    BY <2>4, StartTakesSlotKeeps, StartSavesKeeps, StartFailsKeeps,
       StartEndsKeeps
  <2> QED
    BY <1>2, <2>1, <2>2, <2>3, <2>4, Zenon DEF Step
<1>3. ASSUME NEW s \in Slots, Hold(s) \/ VmExits(s) \/ GuestWrites(s)
      PROVE  IndInv'
  BY <1>3, ThreadsKeep, ThreadEndsKeeps, Zenon DEF Hold
<1>4. CASE \/ PutImport \/ ShutDown \/ ShutDownStops \/ ShutDownEnds
           \/ CrashAndLoad \/ UNCHANGED vars
  BY <1>4, RestKeeps, ShutDownStopsKeeps, CrashKeeps
<1> QED
  BY <1>1, <1>2, <1>3, <1>4, Zenon DEF Next

\* The inductive invariant holds in every state of the specification.
LEMMA Inductive == Spec => []IndInv
BY InitIndInv, NextIndInv, PTL DEF Spec

----------------------------------------------------------------------------
(* Theorems                                                                *)

\* OneVmPerSandbox for every number of requests, sandboxes and slots: the
\* lock of Entry::vm and the join of Running::stop keep a second VM off the
\* disk of a sandbox, whatever fails and wherever the agent crashes.
THEOREM NeverTwoVms == Spec => []OneVmPerSandbox
<1>1. IndInv => OneVmPerSandbox
  BY DEF IndInv, Vms, OneVmPerSandbox
<1> QED
  BY <1>1, Inductive, PTL

\* QuietWhileReplaced: no VM of a sandbox is left, one that exited by itself
\* and is still taken down included, while its disk is copied, swapped or
\* removed.
THEOREM DiskReplacedAtRest == Spec => []QuietWhileReplaced
<1>1. IndInv => QuietWhileReplaced
  BY DEF IndInv, Vms, Quiet, Alone, Holding, QuietWhileReplaced
<1> QED
  BY <1>1, Inductive, PTL

\* SlotsConserved: no failed start, boot or crash leaks a slot of the host
\* or hands one out twice.
THEOREM ConservesSlots == Spec => []SlotsConserved
<1>1. ASSUME IndInv PROVE SlotsConserved
  <2> SUFFICES ASSUME NEW s \in Slots
               PROVE  LET claims == (IF s \in slots THEN 1 ELSE 0)
                            + (IF Live(s) THEN 1 ELSE 0)
                            + Cardinality({t \in Tasks : Saves(t, s)})
                      IN claims = 1 \/ (claims = 0 /\ "reclaim" \in Fallible)
    BY Zenon DEF SlotsConserved, Saves
  <2> DEFINE on == {t \in Tasks : Saves(t, s)}
  <2>1. /\ ~(s \in slots /\ Live(s))
        /\ \A t \in Tasks : Saves(t, s) => s \notin slots /\ ~Live(s)
        /\ \A t, u \in Tasks : Saves(t, s) /\ Saves(u, s) => t = u
        /\ \/ s \in slots \/ Live(s) \/ \E t \in Tasks : Saves(t, s)
           \/ "reclaim" \in Fallible
    BY <1>1, Zenon DEF IndInv, SlotsKept
  <2>2. CASE \A t \in Tasks : ~Saves(t, s)
    <3>1. on = {}
      BY <2>2
    <3>2. Cardinality(on) = 0
      BY <3>1, FS_EmptySet
    <3> HIDE DEF on
    <3> QED
      BY <2>1, <2>2, <3>2 DEF on
  <2>3. CASE \E t \in Tasks : Saves(t, s)
    <3>1. PICK t \in Tasks : Saves(t, s)
      BY <2>3
    <3>2. on = {t}
      BY <2>1, <3>1
    <3>3. Cardinality(on) = 1
      BY <3>2, FS_Singleton
    <3>4. s \notin slots /\ ~Live(s)
      BY <2>1, <3>1
    <3> HIDE DEF on
    <3> QED
      BY <3>3, <3>4 DEF on
  <2> QED
    BY <2>2, <2>3
<1> QED
  BY <1>1, Inductive, PTL

\* RunsAsRecorded: a guest runs on a directory in place, under the boot that
\* save wrote to its record before the VM ran.
THEOREM BootsAreRecorded == Spec => []RunsAsRecorded
<1>1. ASSUME IndInv PROVE RunsAsRecorded
  <2> SUFFICES ASSUME NEW s \in Slots,
                      thread[s].phase \in {"up", "exited", "stopping"}
               PROVE  /\ Whole(thread[s].id)
                      /\ stored[thread[s].id] = thread[s].boot
                      /\ last_boot[thread[s].id] = thread[s].boot
    BY DEF RunsAsRecorded
  <2>1. Live(s)
    BY DEF Live
  <2> QED
    BY <1>1, <2>1 DEF IndInv, Recorded, Whole
<1> QED
  BY <1>1, Inductive, PTL

\* OneDirPerName: load never finds two directories of one name, wherever the
\* agent crashed.
THEOREM LoadTakesEvery == Spec => []OneDirPerName
<1>1. IndInv => OneDirPerName
  BY DEF IndInv, NamesLead, Listed, Kept, OneDirPerName
<1> QED
  BY <1>1, Inductive, PTL

\* NamedInPlace: a sandbox that answers to a name and that no request works
\* on has its directory, but for a delete that failed half way.
THEOREM NamesLeadToDirs == Spec => []NamedInPlace
<1>1. ASSUME IndInv PROVE NamedInPlace
  <2> SUFFICES ASSUME NEW n \in Names, named[n] # None, lock[named[n]] = None
               PROVE  InPlace(named[n])
    BY DEF NamedInPlace, InPlace
  <2>1. named[n] \in Ids /\ name_of[named[n]] = n /\ n # None
    BY <1>1, SandboxesAssumption DEF IndInv, Types, NamesLead
  <2>2. Listed(named[n])
    BY <2>1 DEF Listed
  <2> QED
    BY <1>1, <2>1, <2>2, Zenon DEF IndInv, UnlockedInPlace
<1> QED
  BY <1>1, Inductive, PTL

\* ShutdownStopsAll: once shut_down returns no VM is left, whichever request
\* was booting one when it began.
THEOREM ShutdownLeavesNone == Spec => []ShutdownStopsAll
<1>1. IndInv => ShutdownStopsAll
  BY DEF IndInv, Shutting, ShutdownStopsAll
<1> QED
  BY <1>1, Inductive, PTL

----------------------------------------------------------------------------
(* The boots that park answers with.                                       *)

At(i, pcs) == \E t \in Tasks : task[t].id = i /\ task[t].pc \in pcs

\* No boot of the sandbox is known to anyone yet.
New(i) == name_of[i] = None \/ At(i, {"make", "place"})

\* What is answered of a sandbox in place is of the boot in its record or of
\* one before, and of the one in the record only while the disk is as it was:
\* a VM runs and a restore replaces the disk under a later one.
Told(i) ==
  /\ stored[i] <= node_boot
  /\ last_boot[i] = stored[i] \/ At(i, {"record"})
  /\ \A x \in seen : x.id = i =>
       /\ x.boot <= stored[i]
       /\ x.boot = stored[i] =>
            disk[i] \in {x.content, None} /\ Quiet(i) /\ ~At(i, {"swap"})

\* A task that numbers a boot has a later one than the record.
Later(t) ==
  LET i == task[t].id IN
  /\ task[t].pc = "record" =>
       last_boot[i] <= node_boot
       /\ (dirs[i] = "placed" => stored[i] < last_boot[i])
  /\ task[t].pc = "save" =>
       task[t].run.boot <= node_boot
       /\ (dirs[i] = "placed" => stored[i] < task[t].run.boot)

Answered == seen \subseteq [id : Ids, boot : Nat, content : Nat]

BootInv ==
  /\ Answered /\ BootTellsDisk
  /\ \A i \in Ids : New(i) => /\ stored[i] = 0 /\ last_boot[i] = 0
                              /\ \A x \in seen : x.id # i
  /\ \A i \in Ids : dirs[i] = "placed" => Told(i)
  /\ \A t \in Tasks : Later(t)

\* A task that holds the lock on a sandbox past its making is alone with it,
\* and the sandbox is not new.
LEMMA HoldsAlone ==
  ASSUME IndInv, NEW t \in Tasks, task[t].pc \in Holding
  PROVE  /\ task[t].id \in Ids
         /\ \A u \in Tasks : task[u].id = task[t].id /\ task[u].pc \in Holding
                             => u = t
         /\ task[t].pc \notin {"make", "place"} => ~New(task[t].id)
<1>1. /\ task[t].id \in Ids /\ lock[task[t].id] = t
      /\ name_of[task[t].id] # None
      /\ \A u \in Tasks : task[u].pc \in Holding => lock[task[u].id] = u
  BY DEF IndInv, Shapes, Locks, TasksKnow, Knows, Holding
<1>2. \A u \in Tasks : task[u].id = task[t].id /\ task[u].pc \in Holding
                      => u = t
  BY <1>1
<1>3. task[t].pc \notin {"make", "place"} => ~New(task[t].id)
  BY <1>1, <1>2 DEF New, At, Holding
<1> QED
  BY <1>1, <1>2, <1>3

\* A step that numbers no boot and answers nothing: a directory it leaves in
\* place is new, or was in place and keeps its disk or loses it.
LEMMA BootFrame ==
  ASSUME IndInv, BootInv,
         UNCHANGED <<stored, last_boot, seen, node_boot>>,
         \A i \in Ids : New(i)' => New(i),
         \A i \in Ids : dirs'[i] = "placed" =>
           \/ New(i)
           \/ /\ dirs[i] = "placed" /\ disk'[i] \in {disk[i], None}
              /\ At(i, {"record"}) => At(i, {"record"})',
         \A i \in Ids : Quiet(i) => Quiet(i)',
         \A t \in Tasks : task'[t].pc \in {"record", "save", "swap"} =>
           task'[t] = task[t]
  PROVE  BootInv'
<1>1. Answered' /\ BootTellsDisk'
  BY DEF BootInv, Answered, BootTellsDisk
<1>2. \A i \in Ids : New(i)' => /\ stored'[i] = 0 /\ last_boot'[i] = 0
                                /\ \A x \in seen' : x.id # i
  BY DEF BootInv
<1>3. ASSUME NEW i \in Ids, dirs'[i] = "placed" PROVE Told(i)'
  <2>1. At(i, {"swap"})' => At(i, {"swap"})
    BY DEF At
  <2>2. CASE New(i)
    <3>1. /\ stored'[i] = 0 /\ last_boot'[i] = 0 /\ \A x \in seen' : x.id # i
          /\ node_boot' \in Nat
      BY <2>2 DEF BootInv, IndInv, Types
    <3> QED
      BY <3>1 DEF Told
  <2>3. CASE /\ dirs[i] = "placed" /\ disk'[i] \in {disk[i], None}
             /\ At(i, {"record"}) => At(i, {"record"})'
    <3>1. Told(i)
      BY <2>3 DEF BootInv
    <3>2. ASSUME NEW x \in seen, x.id = i, x.boot = stored[i]
          PROVE  disk'[i] \in {x.content, None} /\ Quiet(i)'
                 /\ ~At(i, {"swap"})'
      BY <2>1, <2>3, <3>1, <3>2 DEF Told
    <3> QED
      BY <2>3, <3>1, <3>2 DEF Told
  <2> QED
    BY <1>3, <2>2, <2>3
<1>4. ASSUME NEW t \in Tasks PROVE Later(t)'
  <2>1. CASE task'[t].pc \in {"record", "save"}
    <3>1. task'[t] = task[t] /\ task[t].pc \in Holding
          /\ task[t].pc \notin {"make", "place"}
      BY <2>1 DEF Holding
    <3>2. task[t].id \in Ids /\ ~New(task[t].id)
      BY <3>1, HoldsAlone
    <3>3. dirs'[task[t].id] = "placed" => dirs[task[t].id] = "placed"
      BY <3>2
    <3>4. Later(t)
      BY DEF BootInv
    <3> QED
      BY <3>1, <3>3, <3>4 DEF Later
  <2>2. CASE task'[t].pc \notin {"record", "save"}
    BY <2>2 DEF Later
  <2> QED
    BY <2>1, <2>2
<1> QED
  BY <1>1, <1>2, <1>3, <1>4 DEF BootInv

\* A step of one task that numbers no boot and answers nothing.
LEMMA TaskFrame ==
  ASSUME IndInv, BootInv, NEW t \in Tasks,
         \A u \in Tasks : u # t => task'[u] = task[u],
         task'[t].pc \notin {"record", "save", "swap", "make"},
         task'[t].pc = "place" =>
           task[t].pc = "make" /\ task'[t].id = task[t].id,
         UNCHANGED <<stored, last_boot, seen, node_boot, name_of>>,
         \A i \in Ids : Quiet(i) => Quiet(i)',
         \A i \in Ids : dirs'[i] = "placed" =>
           \/ New(i)
           \/ dirs[i] = "placed" /\ disk'[i] \in {disk[i], None},
         task[t].pc = "record" => dirs'[task[t].id] # "placed"
  PROVE  BootInv'
<1>1. \A i \in Ids : New(i)' => New(i)
  <2> SUFFICES ASSUME NEW i \in Ids, At(i, {"make", "place"})'
               PROVE  At(i, {"make", "place"})
    BY DEF New
  <2>1. PICK u \in Tasks : task'[u].id = i /\ task'[u].pc \in {"make", "place"}
    BY DEF At
  <2>2. task[u].id = i /\ task[u].pc \in {"make", "place"}
    BY <2>1
  <2> QED
    BY <2>2 DEF At
<1>2. \A i \in Ids : dirs'[i] = "placed" /\ At(i, {"record"}) =>
                      At(i, {"record"})'
  BY DEF At
<1>3. \A u \in Tasks : task'[u].pc \in {"record", "save", "swap"} =>
        task'[u] = task[u]
  OBVIOUS
<1>4. \A i \in Ids : dirs'[i] = "placed" =>
        \/ New(i)
        \/ /\ dirs[i] = "placed" /\ disk'[i] \in {disk[i], None}
           /\ At(i, {"record"}) => At(i, {"record"})'
  BY <1>2
<1> QED
  BY <1>1, <1>3, <1>4, BootFrame

\* The steps of a task that leave what is numbered and answered alone.
LEMMA TaskStepsTell ==
  ASSUME IndInv, BootInv, "save" \notin Fallible, NEW t \in Tasks,
         \/ LockLeaves(t) \/ LockStops(t)
         \/ MakeStages(t) \/ MakePlaces(t) \/ MakeFails(t)
         \/ MakeFailsPlaced(t) \/ Undo(t) \/ BuryRenames(t) \/ BuryFails(t)
         \/ BuryForgets(t) \/ BuryRemoves(t) \/ Join(t) \/ End(t)
         \/ RestoreFails(t) \/ StartRefused(t) \/ StartSaveFails(t)
         \/ StartEnds(t)
         \/ \E op \in Ops, name \in Names, flag \in BOOLEAN :
              Request(t, op, name, flag)
  PROVE  BootInv'
<1> USE DEF Holding
<1>1. /\ Types /\ task \in [Tasks -> TaskRecords] /\ task[t] \in TaskRecords
      /\ dirs \in [Ids -> {"absent", "partial", "placed", "deleted"}]
      /\ disk \in [Ids -> Nat \cup {None}] /\ stored \in [Ids -> Nat]
  BY DEF IndInv, Types
<1>2. task[t].pc \in {"make", "place"} => New(task[t].id)
  BY DEF New, At
<1>3. \A p \in Holding : Goto(t, p) =>
        /\ \A u \in Tasks : u # t => task'[u] = task[u]
        /\ task'[t].pc = p /\ task'[t].id = task[t].id
  BY <1>1, GotoDoes
<1>4. Finish(t) => /\ \A u \in Tasks : u # t => task'[u] = task[u]
                   /\ task'[t].pc = "idle"
  BY <1>1, FinishDoes DEF Idle
<1>5. UNCHANGED thread => \A i \in Ids : Quiet(i) => Quiet(i)'
  BY DEF Quiet, Live
<1>6. CASE LockLeaves(t) \/ End(t)
  BY <1>6, <1>4, <1>5, TaskFrame DEF LockLeaves, Locked, End, files, node,
     flags, history
<1>7. CASE StartRefused(t) \/ StartEnds(t)
  <2>1. /\ \A u \in Tasks : u # t => task'[u] = task[u]
        /\ task'[t].pc \in {"undo", "idle"} /\ task[t].pc # "record"
    BY <1>7, <1>3, <1>4 DEF StartRefused, StartEnds, StartFails
  <2>2. UNCHANGED <<stored, last_boot, seen, node_boot, name_of, dirs, disk,
                    thread>>
    BY <1>7 DEF StartRefused, StartEnds, files, node, flags, history
  <2> QED
    BY <2>1, <2>2, <1>5, TaskFrame
<1>8. CASE Join(t)
  <2>1. Stopped(task[t].op) \in {"bury", "copy", "renumber", "start", "end"}
    BY DEF Stopped
  <2>2. /\ \A u \in Tasks : u # t => task'[u] = task[u]
        /\ task'[t].pc \in {"bury", "copy", "renumber", "start", "end"}
        /\ task[t].pc # "record"
    BY <1>8, <2>1, <1>3 DEF Join
  <2>3. UNCHANGED <<stored, last_boot, seen, node_boot, name_of, dirs, disk,
                    thread>>
    BY <1>8 DEF Join, files, node, entries, flags, history
  <2> QED
    BY <2>2, <2>3, <1>5, TaskFrame
<1>9. CASE LockStops(t)
  <2>1. Stopped(task[t].op) \in {"bury", "copy", "renumber", "start", "end"}
    BY DEF Stopped
  <2>2. /\ \A u \in Tasks : u # t => task'[u] = task[u]
        /\ task'[t].pc \in {"bury", "copy", "renumber", "start", "end", "join"}
        /\ task[t].pc # "record"
    <3>1. CASE Goto(t, Stopped(task[t].op))
      BY <1>9, <3>1, <2>1, <1>3 DEF LockStops, Locked
    <3>2. CASE task' = [task EXCEPT ![t].pc = "join", ![t].run = vm[task[t].id]]
      BY <1>9, <3>2, <1>1 DEF LockStops, Locked, TaskRecords
    <3> QED
      BY <1>9, <3>1, <3>2 DEF LockStops
  <2>3. UNCHANGED <<stored, last_boot, seen, node_boot, name_of, dirs, disk>>
    BY <1>9 DEF LockStops, files, node, flags, history
  <2>4. \A s \in Slots : thread'[s].phase = thread[s].phase
                         /\ thread'[s].id = thread[s].id
    BY <1>9, <1>1 DEF LockStops, Types, Threads
  <2>5. \A i \in Ids : Quiet(i) => Quiet(i)'
    BY <2>4 DEF Quiet, Live
  <2> QED
    BY <2>2, <2>3, <2>5, TaskFrame
<1>10. CASE RestoreFails(t) \/ StartSaveFails(t)
  <2>1. /\ \A u \in Tasks : u # t => task'[u] = task[u]
        /\ task'[t].pc \in {"undo", "idle"}
    BY <1>10, <1>3, <1>4 DEF RestoreFails, StartSaveFails, StartFails
  <2>2. task[t].pc \in {"record", "swap", "save"} /\ task[t].id \in Ids
    BY <1>10, HoldsAlone DEF RestoreFails, StartSaveFails
  <2>3. task[t].pc # "swap" => dirs[task[t].id] # "placed"
    BY <1>10 DEF RestoreFails, StartSaveFails, SaveMayFail
  <2>4. stored' = stored
    <3>1. [stored EXCEPT ![task[t].id] = stored[task[t].id]] = stored
      BY <1>1, <2>2
    <3> QED
      BY <1>10, <2>3, <3>1 DEF RestoreFails, StartSaveFails, Saved
  <2>5. UNCHANGED <<last_boot, seen, node_boot, name_of, dirs, disk, thread>>
    BY <1>10 DEF RestoreFails, StartSaveFails, node, flags, history
  <2> QED
    BY <2>1, <2>2, <2>3, <2>4, <2>5, <1>5, TaskFrame
<1>11. CASE \E op \in Ops, name \in Names, flag \in BOOLEAN :
              Request(t, op, name, flag)
  <2>1. /\ \A u \in Tasks : u # t => task'[u] = task[u]
        /\ task'[t].pc = "lock" /\ task[t].pc = "idle"
    BY <1>11, <1>1 DEF Request, Admits
  <2>2. UNCHANGED <<stored, last_boot, seen, node_boot, name_of, dirs, disk,
                    thread>>
    BY <1>11 DEF Request, files, node, entries, flags, history
  <2> QED
    BY <2>1, <2>2, <1>5, TaskFrame
<1>12. CASE \/ MakeStages(t) \/ MakePlaces(t) \/ MakeFails(t)
            \/ MakeFailsPlaced(t) \/ Undo(t) \/ BuryRenames(t)
            \/ BuryFails(t) \/ BuryForgets(t) \/ BuryRemoves(t)
  <2>1. /\ \A u \in Tasks : u # t => task'[u] = task[u]
        /\ task'[t].pc \in {"place", "start", "undo", "bury", "forget",
                            "remove", "idle"}
        /\ task'[t].pc = "place" =>
             task[t].pc = "make" /\ task'[t].id = task[t].id
        /\ task[t].pc \in {"make", "place", "undo", "bury", "forget", "remove"}
    BY <1>12, <1>3, <1>4
      DEF MakeStages, MakePlaces, MakeFails, MakeFailsPlaced, Undo,
          BuryRenames, BuryFails, BuryForgets, BuryRemoves
  <2>2. UNCHANGED <<stored, last_boot, seen, node_boot, name_of, thread>>
    BY <1>12
      DEF MakeStages, MakePlaces, MakeFails, MakeFailsPlaced, Undo,
          BuryRenames, BuryFails, BuryForgets, BuryRemoves, files, node,
          entries, flags, history
  <2>3. task[t].id \in Ids
    BY <2>1, HoldsAlone
  <2>4. \A i \in Ids : dirs'[i] = "placed" =>
          \/ New(i)
          \/ dirs[i] = "placed" /\ disk'[i] \in {disk[i], None}
    <3>1. CASE \/ MakeStages(t) \/ MakePlaces(t) \/ MakeFails(t)
               \/ MakeFailsPlaced(t)
      BY <3>1, <1>1, <1>2, <2>3
        DEF MakeStages, MakePlaces, MakeFails, MakeFailsPlaced
    <3>2. CASE \/ Undo(t) \/ BuryRenames(t) \/ BuryFails(t) \/ BuryForgets(t)
               \/ BuryRemoves(t)
      BY <3>2, <1>1, <2>3
        DEF Undo, BuryRenames, BuryFails, BuryForgets, BuryRemoves, Aside, files
    <3> QED
      BY <1>12, <3>1, <3>2
  <2> QED
    BY <2>1, <2>2, <2>4, <1>5, TaskFrame
<1> QED
  BY <1>6, <1>7, <1>8, <1>9, <1>10, <1>11, <1>12

\* Nothing that a thread, a caller or shut_down does numbers a boot, and the
\* name of a new sandbox is taken before anything is known of it.  A guest
\* writes under a boot that was never answered.
LEMMA OthersTell ==
  ASSUME IndInv, BootInv,
         \/ \E s \in Slots : Hold(s) \/ VmExits(s) \/ GuestWrites(s)
         \/ PutImport \/ ShutDown \/ ShutDownStops \/ ShutDownEnds
         \/ \E t \in Tasks, id \in Ids, name \in Names,
              start, imports \in BOOLEAN : Create(t, id, name, start, imports)
         \/ UNCHANGED vars
  PROVE  BootInv'
<1>1. /\ Types /\ task \in [Tasks -> TaskRecords]
      /\ disk \in [Ids -> Nat \cup {None}] /\ thread \in [Slots -> Threads]
  BY DEF IndInv, Types
<1>2. UNCHANGED <<task, name_of>> =>
        /\ \A i \in Ids : New(i)' => New(i)
        /\ \A i \in Ids : At(i, {"record"}) => At(i, {"record"})'
  BY DEF New, At
<1>3. CASE \E s \in Slots : Hold(s) \/ VmExits(s)
  <2>1. PICK s \in Slots : Hold(s) \/ VmExits(s)
    BY <1>3
  <2>2. UNCHANGED <<stored, last_boot, seen, node_boot, task, name_of, dirs,
                    disk>>
    BY <2>1 DEF Hold, Boots, BootFails, HoldStops, HoldEnds, VmExits, files,
       node, entries, flags, history
  <2>3. \A u \in Slots : \/ thread'[u] = thread[u] \/ thread'[u] = Off
                         \/ /\ thread[u].phase # "off"
                            /\ thread'[u].id = thread[u].id
    BY <2>1, <1>1
      DEF Hold, Boots, BootFails, HoldStops, HoldEnds, VmExits, Release, Threads
  <2>4. \A i \in Ids : Quiet(i) => Quiet(i)'
    BY <2>3 DEF Quiet, Live, Off
  <2> QED
    BY <1>2, <2>2, <2>4, BootFrame
<1>4. CASE \E s \in Slots : GuestWrites(s)
  <2>1. PICK s \in Slots : GuestWrites(s)
    BY <1>4
  <2> DEFINE id == thread[s].id
  <2>2. UNCHANGED <<stored, last_boot, seen, node_boot, task, name_of, dirs,
                    thread>>
    BY <2>1 DEF GuestWrites, node, entries, flags
  <2>3. id \in Ids /\ ~Quiet(id)
    BY <2>1 DEF GuestWrites, IndInv, Shapes, Live, Quiet
  <2>4. \A i \in Ids : i # id => disk'[i] = disk[i]
    BY <2>1, <1>1 DEF GuestWrites
  <2>5. /\ \A i \in Ids : New(i)' <=> New(i)
        /\ \A i \in Ids : At(i, {"record"})' <=> At(i, {"record"})
        /\ \A i \in Ids : At(i, {"swap"})' <=> At(i, {"swap"})
        /\ \A i \in Ids : Quiet(i)' <=> Quiet(i)
    BY <2>2 DEF New, At, Quiet, Live
  <2>6. ASSUME NEW i \in Ids, dirs[i] = "placed" PROVE Told(i)'
    <3>1. Told(i)
      BY <2>6 DEF BootInv
    <3>2. CASE i # id
      BY <2>2, <2>4, <2>5, <3>1, <3>2 DEF Told
    <3>3. CASE i = id
      <4>1. \A x \in seen : x.id = i => x.boot <= stored[i] /\ x.boot # stored[i]
        BY <2>3, <3>1, <3>3 DEF Told
      <4> QED
        BY <2>2, <2>5, <3>1, <4>1 DEF Told
    <3> QED
      BY <3>2, <3>3
  <2>7. Answered' /\ BootTellsDisk' /\ \A t \in Tasks : Later(t)'
    BY <2>2 DEF BootInv, Answered, BootTellsDisk, Later
  <2> QED
    BY <2>2, <2>5, <2>6, <2>7 DEF BootInv
<1>5. CASE PutImport \/ ShutDown \/ ShutDownEnds \/ UNCHANGED vars
  <2>1. UNCHANGED <<stored, last_boot, seen, node_boot, task, name_of, dirs,
                    disk, thread>>
    BY <1>5 DEF PutImport, ShutDown, ShutDownEnds, files, node, entries,
       flags, history, vars
  <2>2. \A i \in Ids : Quiet(i) => Quiet(i)'
    BY <2>1 DEF Quiet, Live
  <2> QED
    BY <1>2, <2>1, <2>2, BootFrame
<1>6. CASE ShutDownStops
  <2>1. UNCHANGED <<stored, last_boot, seen, node_boot, task, name_of, dirs,
                    disk>>
    BY <1>6 DEF ShutDownStops, files, flags, history
  <2>2. \A s \in Slots : \/ thread'[s] = thread[s]
                         \/ thread'[s] = [thread[s] EXCEPT !.told = TRUE]
    BY <1>6 DEF ShutDownStops
  <2>3. \A s \in Slots : thread'[s].phase = thread[s].phase
                         /\ thread'[s].id = thread[s].id
    BY <2>2, <1>1 DEF Threads
  <2>4. \A i \in Ids : Quiet(i) => Quiet(i)'
    BY <2>3 DEF Quiet, Live
  <2> QED
    BY <1>2, <2>1, <2>4, BootFrame
<1>7. CASE \E t \in Tasks, id \in Ids, name \in Names,
             start, imports \in BOOLEAN : Create(t, id, name, start, imports)
  <2>1. PICK t \in Tasks, id \in Ids, name \in Names,
             start, imports \in BOOLEAN : Create(t, id, name, start, imports)
    BY <1>7
  <2>2. UNCHANGED <<stored, last_boot, seen, node_boot, dirs, disk, thread>>
    BY <2>1 DEF Create, flags
  <2>3. /\ \A u \in Tasks : u # t => task'[u] = task[u]
        /\ task'[t].pc = "make" /\ task'[t].id = id /\ task[t].pc = "idle"
    BY <2>1, <1>1 DEF Create, Admits
  <2>4. name_of[id] = None /\ \A i \in Ids : i # id => name_of'[i] = name_of[i]
    BY <2>1 DEF Create, IndInv, Types
  <2>5. \A i \in Ids : New(i)' => New(i)
    BY <2>3, <2>4 DEF New, At
  <2>6. \A i \in Ids : At(i, {"record"}) => At(i, {"record"})'
    BY <2>3 DEF At
  <2>7. \A i \in Ids : Quiet(i) => Quiet(i)'
    BY <2>2 DEF Quiet, Live
  <2> QED
    BY <2>2, <2>3, <2>5, <2>6, <2>7, BootFrame
<1> QED
  BY <1>3, <1>4, <1>5, <1>6, <1>7

\* A task that numbers or answers for its sandbox leaves the others alone:
\* what is left to show is of its own.
LEMMA Elsewhere ==
  ASSUME IndInv, IndInv', BootInv, NEW t \in Tasks, NEW id \in Ids,
         task[t].id = id, task[t].pc \in Holding \ {"make", "place"},
         \A u \in Tasks : u # t => task'[u] = task[u],
         task'[t].pc \notin {"make", "place"},
         task'[t].id = id \/ task'[t].pc = "idle",
         UNCHANGED name_of, node_boot' >= node_boot,
         \A i \in Ids : i # id =>
           /\ dirs'[i] = dirs[i] /\ stored'[i] = stored[i]
           /\ last_boot'[i] = last_boot[i] /\ disk'[i] = disk[i]
           /\ Quiet(i) => Quiet(i)'
           /\ \A x \in seen' : x.id = i => x \in seen,
         Answered', BootTellsDisk', Later(t)',
         dirs'[id] = "placed" => Told(id)'
  PROVE  BootInv'
<1>1. ~New(id) /\ \A u \in Tasks : task[u].id = id /\ task[u].pc \in Holding
                                  => u = t
  BY HoldsAlone
<1>2. \A i \in Ids : New(i)' => New(i) /\ i # id
  <2>1. ~At(id, {"make", "place"})'
    BY <1>1 DEF At, Holding
  <2> QED
    BY <1>1, <2>1 DEF New, At
<1>3. \A i \in Ids : New(i)' => /\ stored'[i] = 0 /\ last_boot'[i] = 0
                                /\ \A x \in seen' : x.id # i
  BY <1>2 DEF BootInv
<1>4. ASSUME NEW i \in Ids, dirs'[i] = "placed", i # id PROVE Told(i)'
  <2>1. Told(i)
    BY <1>4 DEF BootInv
  <2>2. At(i, {"record"}) => At(i, {"record"})'
    BY <1>4 DEF At
  <2>3. At(i, {"swap"})' => At(i, {"swap"})
    BY <1>4 DEF At
  <2>4. stored'[i] <= node_boot'
    BY <1>4, <2>1 DEF Told, IndInv, Types
  <2> QED
    BY <1>4, <2>1, <2>2, <2>3, <2>4 DEF Told
<1>5. ASSUME NEW u \in Tasks, u # t PROVE Later(u)'
  <2>1. CASE task[u].pc \in {"record", "save"}
    <3>1. task[u].id \in Ids /\ task[u].id # id
      BY <1>1, <1>5, <2>1, HoldsAlone DEF Holding
    <3>2. /\ Later(u) /\ node_boot \in Nat /\ node_boot' \in Nat
          /\ last_boot[task[u].id] \in Nat
          /\ task[u].pc = "save" => task[u].run.boot \in Nat
      BY <3>1 DEF BootInv, IndInv, Types, Shapes, Running
    <3> QED
      BY <1>5, <3>1, <3>2 DEF Later
  <2>2. CASE task[u].pc \notin {"record", "save"}
    BY <1>5, <2>2 DEF Later
  <2> QED
    BY <2>1, <2>2
<1> QED
  BY <1>3, <1>4, <1>5 DEF BootInv

\* park answers with the boot in the record, and with the disk of it.
LEMMA CopyTells ==
  ASSUME IndInv, IndInv', BootInv, NEW t \in Tasks, Copy(t)
  PROVE  BootInv'
<1>1. task[t].pc = "copy" /\ task[t].pc \in Holding \ {"make", "place"}
  BY DEF Copy, Holding
<1>2. PICK id \in Ids : id = task[t].id
  BY <1>1, HoldsAlone
<1> DEFINE x == [id |-> id, boot |-> last_boot[id], content |-> disk[id]]
<1>3. /\ task[t].pc = "copy" /\ Finish(t)
      /\ seen' = IF Whole(id) THEN seen \cup {x} ELSE seen
      /\ UNCHANGED <<stored, last_boot, disk, dirs, name_of, node_boot, thread>>
  BY <1>2 DEF Copy, files, node, flags
<1>4. task[t].pc \in Holding \ {"make", "place"}
  BY <1>3 DEF Holding
<1>5. /\ id \in Ids /\ Quiet(id) /\ ~At(id, {"record", "swap"})
      /\ ~At(id, {"record"}) /\ ~At(id, {"swap"})
  <2>1. id \in Ids /\ Quiet(id)
    BY <1>2, <1>3, <1>4 DEF IndInv, Vms, Alone, Holding
  <2> QED
    BY <1>2, <1>3, <1>4, <2>1, HoldsAlone DEF At, Holding
<1>6. /\ \A u \in Tasks : u # t => task'[u] = task[u]
      /\ task'[t].pc = "idle"
  BY <1>3, FinishDoes DEF IndInv, Idle
<1>7. \A i \in Ids : Quiet(i)' <=> Quiet(i)
  BY <1>3 DEF Quiet, Live
<1>8. Whole(id) => /\ Told(id) /\ last_boot[id] = stored[id]
                   /\ disk[id] \in Nat /\ last_boot[id] \in Nat
                   /\ \A y \in seen : y.id = id /\ y.boot = stored[id] =>
                        y.content = disk[id]
  BY <1>5 DEF Whole, BootInv, Told, IndInv, Types
<1>9. Answered'
  <2>1. Whole(id) => x \in [id : Ids, boot : Nat, content : Nat]
    BY <1>5, <1>8
  <2> QED
    BY <1>3, <2>1 DEF BootInv, Answered
<1>10. BootTellsDisk'
  <2>1. BootTellsDisk
    BY DEF BootInv
  <2>2. CASE ~Whole(id)
    BY <1>3, <2>1, <2>2 DEF BootTellsDisk
  <2>3. CASE Whole(id)
    <3>1. \A y \in seen : y.id = x.id /\ y.boot = x.boot => y.content = x.content
      BY <1>8, <2>3
    <3> QED
      BY <1>3, <2>1, <2>3, <3>1 DEF BootTellsDisk
  <2> QED
    BY <2>2, <2>3
<1>11. ~At(id, {"swap"})'
  BY <1>5, <1>6 DEF At
<1>12. ASSUME dirs'[id] = "placed" PROVE Told(id)'
  <2>1. Told(id) /\ stored[id] = last_boot[id] /\ stored[id] \in Nat
    BY <1>3, <1>5, <1>12 DEF BootInv, Told, IndInv, Types
  <2>2. \A y \in seen' : y.id = id =>
          /\ y.boot <= stored[id]
          /\ y.boot = stored[id] => disk[id] \in {y.content, None}
    BY <1>3, <2>1 DEF Told
  <2> QED
    BY <1>3, <1>5, <1>7, <1>11, <2>1, <2>2 DEF Told
<1>13. Later(t)'
  BY <1>6 DEF Later
<1>14. \A i \in Ids : i # id => \A y \in seen' : y.id = i => y \in seen
  BY <1>3
<1>15. node_boot' >= node_boot
  BY <1>3 DEF IndInv, Types
<1> HIDE DEF x
<1> QED
  BY <1>2, <1>3, <1>4, <1>5, <1>6, <1>7, <1>9, <1>10, <1>12, <1>13, <1>14, <1>15,
     Elsewhere

\* A restore takes a boot past every one the node knows of, writes it to the
\* record, and only then replaces the disk.
LEMMA RestoreTells ==
  ASSUME IndInv, IndInv', BootInv, NEW t \in Tasks,
         Renumber(t) \/ Record(t) \/ Swap(t)
  PROVE  BootInv'
<1>1. task[t].pc \in {"renumber", "record", "swap"}
  BY DEF Renumber, Record, Swap
<1>2. task[t].pc \in Holding \ {"make", "place"} /\ task[t].pc \in Alone
  BY <1>1 DEF Holding, Alone
<1>3. PICK id \in Ids : id = task[t].id
  BY <1>2, HoldsAlone
<1>4. /\ Types /\ Types' /\ stored[id] \in Nat /\ last_boot[id] \in Nat
      /\ node_boot \in Nat /\ Quiet(id) /\ Later(t)
      /\ dirs[id] = "placed" => Told(id)
      /\ Answered /\ BootTellsDisk
  BY <1>2, <1>3 DEF IndInv, Types, Vms, BootInv
<1>5. \A p \in {"record", "swap"} : At(id, {p}) => task[t].pc = p
  BY <1>2, <1>3, HoldsAlone DEF At, Holding
<1>6. /\ UNCHANGED <<seen, name_of, dirs, thread>>
      /\ \A i \in Ids : Quiet(i) <=> Quiet(i)'
      /\ Answered' /\ BootTellsDisk'
  <2>1. UNCHANGED <<seen, name_of, dirs, thread>>
    BY DEF Renumber, Record, Swap, files, node, entries, history
  <2> QED
    BY <1>4, <2>1 DEF Quiet, Live, Answered, BootTellsDisk
<1>7. CASE Renumber(t)
  <2>1. /\ node_boot' = node_boot + 1 /\ Goto(t, "record")
        /\ last_boot' = [last_boot EXCEPT ![id] = node_boot + 1]
        /\ UNCHANGED <<stored, disk>>
    BY <1>3, <1>7 DEF Renumber, boot_after, files
  <2>2. /\ \A u \in Tasks : u # t => task'[u] = task[u]
        /\ task'[t].pc = "record" /\ task'[t].id = id
    BY <1>3, <1>4, <2>1, GotoDoes DEF Holding
  <2>3. last_boot'[id] = node_boot + 1
        /\ \A i \in Ids : i # id => last_boot'[i] = last_boot[i]
    BY <1>4, <2>1 DEF Types
  <2>4. At(id, {"record"})' /\ ~At(id, {"swap"})'
    <3>1. At(id, {"record"})'
      BY <2>2 DEF At
    <3>2. \A u \in Tasks : task[u].id = id /\ task[u].pc \in Holding => u = t
      BY <1>2, <1>3, HoldsAlone
    <3> QED
      BY <2>2, <3>1, <3>2 DEF At, Holding
  <2>5. dirs'[id] = "placed" => Told(id)'
    BY <1>4, <1>6, <2>1, <2>4 DEF Told
  <2>6. Later(t)'
    BY <1>4, <1>6, <2>1, <2>2, <2>3 DEF Later, Told
  <2>7. node_boot' >= node_boot
    BY <1>4, <2>1
  <2> QED
    BY <1>2, <1>3, <1>6, <2>1, <2>2, <2>3, <2>5, <2>6, <2>7, Elsewhere
<1>8. CASE Record(t)
  <2>1. /\ task[t].pc = "record" /\ dirs[id] = "placed" /\ Goto(t, "swap")
        /\ stored' = [stored EXCEPT ![id] = last_boot[id]]
        /\ UNCHANGED <<node_boot, last_boot, disk>>
    BY <1>3, <1>8 DEF Record, node, entries, flags
  <2>2. /\ \A u \in Tasks : u # t => task'[u] = task[u]
        /\ task'[t].pc = "swap" /\ task'[t].id = id
    BY <1>3, <1>4, <2>1, GotoDoes DEF Holding
  <2>3. stored'[id] = last_boot[id]
        /\ \A i \in Ids : i # id => stored'[i] = stored[i]
    BY <1>4, <2>1 DEF Types
  <2>4. /\ last_boot[id] <= node_boot /\ stored[id] < last_boot[id]
    BY <1>3, <1>4, <2>1 DEF Later
  <2>5. \A x \in seen : x.id = id => x.boot < stored'[id]
    BY <1>4, <2>1, <2>3, <2>4 DEF Told, Answered
  <2>6. Told(id)'
    BY <1>4, <1>6, <2>1, <2>3, <2>4, <2>5 DEF Told, Answered
  <2>7. Later(t)'
    BY <2>2 DEF Later
  <2>8. node_boot' >= node_boot
    BY <1>4, <2>1
  <2> QED
    BY <1>2, <1>3, <1>6, <2>1, <2>2, <2>3, <2>6, <2>7, <2>8, Elsewhere
<1>9. CASE Swap(t)
  <2>1. /\ task[t].pc = "swap" /\ Finish(t) /\ \A i \in Ids : i # id => disk'[i] = disk[i]
        /\ UNCHANGED <<node_boot, last_boot, stored>>
    BY <1>3, <1>4, <1>9 DEF Swap, node, flags, Types
  <2>2. /\ \A u \in Tasks : u # t => task'[u] = task[u]
        /\ task'[t].pc = "idle"
    BY <1>4, <2>1, FinishDoes DEF Idle
  <2>3. At(id, {"swap"}) /\ ~At(id, {"record"})
    BY <1>3, <1>5, <2>1 DEF At
  <2>4. dirs'[id] = "placed" => Told(id)'
    <3> SUFFICES ASSUME dirs[id] = "placed" PROVE Told(id)'
      BY <1>6
    <3>1. Told(id) /\ \A x \in seen : x.id = id => x.boot # stored[id]
      BY <1>4, <2>3 DEF Told
    <3> QED
      BY <1>6, <2>1, <2>3, <3>1 DEF Told
  <2>5. Later(t)'
    BY <2>2 DEF Later
  <2>6. node_boot' >= node_boot
    BY <1>4, <2>1
  <2> QED
    BY <1>2, <1>3, <1>6, <2>1, <2>2, <2>4, <2>5, <2>6, Elsewhere
<1> QED
  BY <1>7, <1>8, <1>9

\* A start takes a boot past every one the node knows of and writes it to the
\* record before the VM runs.
LEMMA StartTells ==
  ASSUME IndInv, IndInv', BootInv, NEW t \in Tasks,
         StartTakesSlot(t) \/ StartSaves(t) \/ StartSpawnFails(t)
  PROVE  BootInv'
<1>1. task[t].pc \in {"start", "save"}
  BY DEF StartTakesSlot, StartSaves, StartSpawnFails
<1>2. task[t].pc \in Holding \ {"make", "place"} /\ task[t].pc \in Alone
  BY <1>1 DEF Holding, Alone
<1>3. PICK id \in Ids : id = task[t].id
  BY <1>2, HoldsAlone
<1>4. /\ Types /\ Types' /\ stored[id] \in Nat /\ last_boot[id] \in Nat
      /\ node_boot \in Nat /\ Quiet(id) /\ Later(t)
      /\ dirs[id] = "placed" => Told(id)
      /\ Answered /\ BootTellsDisk
  BY <1>2, <1>3 DEF IndInv, Types, Vms, BootInv
<1>5. ~At(id, {"record"}) /\ ~At(id, {"swap"})
  BY <1>1, <1>2, <1>3, HoldsAlone DEF At, Holding
<1>6. UNCHANGED <<seen, name_of, dirs, disk>> /\ Answered' /\ BootTellsDisk'
  <2>1. UNCHANGED <<seen, name_of, dirs, disk>>
    BY DEF StartTakesSlot, StartSaves, StartSpawnFails, files, history
  <2> QED
    BY <1>4, <2>1 DEF Answered, BootTellsDisk
<1>7. CASE StartTakesSlot(t)
  <2>1. PICK s \in slots :
          task' = [task EXCEPT ![t].pc = "save", ![t].run = Run(s, node_boot + 1)]
    BY <1>7 DEF StartTakesSlot, boot_after
  <2>2. /\ node_boot' = node_boot + 1
        /\ UNCHANGED <<stored, last_boot, thread>>
    BY <1>7 DEF StartTakesSlot, boot_after, files, entries, flags
  <2>3. /\ \A u \in Tasks : u # t => task'[u] = task[u]
        /\ task'[t].pc = "save" /\ task'[t].id = id
        /\ task'[t].run.boot = node_boot + 1
    BY <1>3, <1>4, <2>1 DEF Types, TaskRecords, Run
  <2>4. \A i \in Ids : Quiet(i) <=> Quiet(i)'
    BY <2>2 DEF Quiet, Live
  <2>5. ~At(id, {"swap"})'
    BY <1>5, <2>3 DEF At
  <2>6. dirs'[id] = "placed" => Told(id)'
    BY <1>4, <1>5, <1>6, <2>2, <2>4, <2>5 DEF Told
  <2>7. Later(t)'
    BY <1>4, <1>6, <2>2, <2>3 DEF Later, Told
  <2>8. node_boot' >= node_boot
    BY <1>4, <2>2
  <2> QED
    BY <1>2, <1>3, <1>6, <2>2, <2>3, <2>4, <2>6, <2>7, <2>8, Elsewhere
<1>8. CASE StartSaves(t) \/ StartSpawnFails(t)
  <2> DEFINE run == task[t].run
  <2>1. /\ task[t].pc = "save" /\ dirs[id] = "placed"
        /\ stored' = [stored EXCEPT ![id] = run.boot]
        /\ last_boot' = [last_boot EXCEPT ![id] = run.boot]
        /\ UNCHANGED node_boot
    BY <1>3, <1>8 DEF StartSaves, StartSpawnFails, node
  <2>2. /\ stored'[id] = run.boot /\ last_boot'[id] = run.boot
        /\ \A i \in Ids : i # id => /\ stored'[i] = stored[i]
                                     /\ last_boot'[i] = last_boot[i]
    BY <1>4, <2>1 DEF Types
  <2>3. /\ run \in Running /\ run.boot \in Nat
        /\ run.boot <= node_boot /\ stored[id] < run.boot
    BY <1>3, <1>4, <2>1 DEF Later, IndInv, Shapes, Running
  <2>4. /\ \A u \in Tasks : u # t => task'[u] = task[u]
        /\ task'[t].pc \in {"wait", "undo", "idle"}
        /\ task'[t].id = id \/ task'[t].pc = "idle"
    <3>1. ASSUME NEW p \in {"wait", "undo"}, Goto(t, p)
          PROVE  /\ \A u \in Tasks : u # t => task'[u] = task[u]
                 /\ task'[t].pc = p /\ task'[t].id = id
      BY <1>3, <1>4, <3>1, GotoDoes DEF Holding
    <3>2. ASSUME Finish(t)
          PROVE  /\ \A u \in Tasks : u # t => task'[u] = task[u]
                 /\ task'[t].pc = "idle"
      BY <1>4, <3>2, FinishDoes DEF Idle
    <3> QED
      BY <1>8, <3>1, <3>2 DEF StartSaves, StartSpawnFails, StartFails
  <2>5. \A s \in Slots : thread'[s] = thread[s] \/ thread'[s].id = id
    BY <1>3, <1>4, <1>8, <2>3
      DEF StartSaves, StartSpawnFails, Types, Running
  <2>6. \A i \in Ids : i # id => (Quiet(i) => Quiet(i)')
    BY <2>5 DEF Quiet, Live
  <2>7. \A x \in seen : x.id = id => x.boot < run.boot
    BY <1>4, <2>1, <2>3 DEF Told, Answered
  <2> HIDE DEF run
  <2>8. Told(id)'
    BY <1>4, <1>6, <2>1, <2>2, <2>3, <2>7 DEF Told, Answered
  <2>9. Later(t)'
    BY <2>4 DEF Later
  <2>10. node_boot' >= node_boot
    BY <1>4, <2>1
  <2> QED
    BY <1>2, <1>3, <1>6, <2>2, <2>4, <2>6, <2>8, <2>9, <2>10, Elsewhere
<1> QED
  BY <1>7, <1>8

\* After a crash the node knows of every boot in a record, and the records
\* of the sandboxes in place are all that counts.
LEMMA CrashTells ==
  ASSUME IndInv, IndInv', BootInv, CrashAndLoad
  PROVE  BootInv'
<1> DEFINE S == {0} \cup {stored[i] : i \in Kept}
<1>1. /\ Types /\ Answered /\ BootTellsDisk
      /\ UNCHANGED <<seen, stored, name_of>> /\ node_boot' = Max(S)
      /\ task' = [t \in Tasks |-> Idle] /\ thread' = [s \in Slots |-> Off]
  BY DEF CrashAndLoad, IndInv, BootInv
<1>2. ASSUME NEW i \in Ids
      PROVE  /\ dirs'[i] = "placed" => i \in Kept
             /\ i \in Kept => disk'[i] = disk[i] /\ last_boot'[i] = stored[i]
             /\ i \notin Kept => last_boot'[i] = 0
  BY DEF CrashAndLoad
<1>3. \A i \in Kept : stored[i] <= Max(S)
  BY <1>1, LoadNumbers
<1> HIDE DEF S
<1>4. /\ \A t \in Tasks : task'[t].pc = "idle"
      /\ \A i \in Ids : Quiet(i)' /\ ~At(i, {"swap"})' /\ ~At(i, {"make", "place"})'
  BY <1>1 DEF Idle, Off, Quiet, Live, At
<1>5. Answered' /\ BootTellsDisk'
  BY <1>1 DEF Answered, BootTellsDisk
<1>6. \A i \in Ids : New(i)' => /\ stored'[i] = 0 /\ last_boot'[i] = 0
                                /\ \A x \in seen' : x.id # i
  <2> SUFFICES ASSUME NEW i \in Ids, name_of[i] = None
               PROVE  /\ stored'[i] = 0 /\ last_boot'[i] = 0
                      /\ \A x \in seen' : x.id # i
    BY <1>1, <1>4 DEF New
  <2>1. stored[i] = 0 /\ \A x \in seen : x.id # i
    BY DEF BootInv, New
  <2> QED
    BY <1>1, <1>2, <2>1
<1>7. ASSUME NEW i \in Ids, dirs'[i] = "placed" PROVE Told(i)'
  <2>1. i \in Kept /\ Told(i)
    <3>1. i \in Kept
      BY <1>2, <1>7
    <3> QED
      BY <3>1 DEF BootInv, Kept
  <2>2. stored'[i] <= node_boot' /\ last_boot'[i] = stored'[i]
    BY <1>1, <1>2, <1>3, <2>1
  <2> QED
    BY <1>1, <1>2, <1>4, <2>1, <2>2 DEF Told
<1>8. \A t \in Tasks : Later(t)'
  BY <1>4 DEF Later
<1> QED
  BY <1>5, <1>6, <1>7, <1>8 DEF BootInv

\* Every step keeps it.
LEMMA NextBootInv ==
  ASSUME "save" \notin Fallible, IndInv, IndInv', BootInv, [Next]_vars
  PROVE  BootInv'
<1>1. ASSUME NEW t \in Tasks, Begin(t) \/ Lock(t) \/ Step(t) PROVE BootInv'
  BY <1>1, TaskStepsTell, OthersTell, CopyTells, RestoreTells, StartTells, Zenon
    DEF Begin, Lock, Step
<1>2. CASE \/ \E s \in Slots : Hold(s) \/ VmExits(s) \/ GuestWrites(s)
           \/ PutImport \/ ShutDown \/ ShutDownStops \/ ShutDownEnds
           \/ UNCHANGED vars
  BY <1>2, OthersTell, Zenon
<1>3. CASE CrashAndLoad
  BY <1>3, CrashTells
<1> QED
  BY <1>1, <1>2, <1>3, Zenon DEF Next

\* Nothing is answered before a sandbox is made.
LEMMA InitBootInv == Init => BootInv
<1> SUFFICES ASSUME Init PROVE BootInv
  OBVIOUS
<1>1. /\ seen = {} /\ \A i \in Ids : /\ stored[i] = 0 /\ last_boot[i] = 0
                                     /\ dirs[i] # "placed"
      /\ \A t \in Tasks : task[t].pc = "idle"
  BY DEF Init, Idle
<1> QED
  BY <1>1 DEF BootInv, Answered, BootTellsDisk, Later

\* BootTellsDisk for every number of requests, sandboxes, boots and crashes,
\* provided a record that is to be written is written: the boot park answers
\* names one state of the disk, across crashes of the agent and restores,
\* though the clock of boot_after stands still (boot_after, save_boot).
THEOREM BootNamesDisk ==
  ASSUME "save" \notin Fallible
  PROVE  Spec => []BootTellsDisk
<1>1. Init => BootInv
  BY InitBootInv
<1>2. IndInv /\ IndInv' /\ BootInv /\ [Next]_vars => BootInv'
  BY NextBootInv
<1>3. BootInv => BootTellsDisk
  BY DEF BootInv
<1> QED
  BY <1>1, <1>2, <1>3, Inductive, PTL DEF Spec
=============================================================================
