---------------------------- MODULE VirtioDevice ----------------------------
(***************************************************************************)
(* A virtio device over MMIO (shuru-linux kvm/devices.rs): the registers   *)
(* the driver sets it up with, the worker that serves a kicked queue, the  *)
(* interrupt line, and what a snapshot does to all of it.  The backend is  *)
(* a disk, whose requests the worker serves, or a network card, which also *)
(* has a thread of its own that puts received frames in the guest's ring.  *)
(*                                                                         *)
(* Ring indices are counted without their wrap at 2^16: the code only      *)
(* compares them, and no more than a ring is ever outstanding.  A frame is *)
(* its number, a sector of the disk the write it holds, 0 for zeroes.      *)
(***************************************************************************)
EXTENDS Integers, Sequences, FiniteSets, SequencesExt

CONSTANTS Kinds,     \* backends: a subset of {"block", "net"}
          Requests,  \* requests of the driver: [op, ranges], ranges of [at, n]
          Capacity,  \* sectors of the disk
          Size,      \* the queue's size
          MaxReqs, MaxFrames, MaxResets, MaxSaves, MaxFaults   \* bounds

VARIABLES kind, read_only,
          mem,      \* the guest's memory: rings, and what its driver remembers
          core,     \* Core: [status, activated, negotiated, last]
          irq,      \* whether the interrupt status has a reason
          kick,     \* the queue's eventfd
          worker,   \* [at, upto]: serve, and the avail index it works up to
          rx,       \* [has, running, at, next, used]: NetBackend's receive side
          sock,     \* frames of the host waiting in the socket pair
          disk,
          done,     \* requests answered with success, of frames the ones sent
          machine,  \* "running", "paused" or "saved"
          left      \* what may still happen

vars == <<kind, read_only, mem, core, irq, kick, worker, rx, sock, disk, done, machine, left>>

Sectors == 0..(Capacity - 1)
FreshRings == [avail |-> <<>>, used |-> <<>>, buffers |-> 0, frames |-> <<>>,
               wants |-> TRUE, at |-> "setup", seen |-> 0, got |-> 0, unkicked |-> FALSE]
FreshCore == [status |-> "zero", activated |-> FALSE, negotiated |-> FALSE, last |-> 0]
NoRx == [has |-> FALSE, running |-> FALSE, at |-> "none", next |-> 0]

Init ==
  /\ kind \in Kinds
  /\ read_only \in IF kind = "block" THEN BOOLEAN ELSE {FALSE}
  /\ mem = FreshRings
  /\ core = FreshCore
  /\ irq = FALSE /\ kick = FALSE
  /\ worker = [at |-> "poll", upto |-> 0]
  /\ rx = NoRx
  /\ sock = <<>>
  /\ disk = [s \in Sectors |-> 1] /\ done = 0
  /\ machine = "running"
  /\ left = [reqs |-> MaxReqs, frames |-> MaxFrames, resets |-> MaxResets,
             saves |-> MaxSaves, faults |-> MaxFaults]

Guest == machine = "running" /\ UNCHANGED <<kind, read_only, machine>>
Unlocked == worker.at \notin {"serving", "flag"}
Outside == <<disk, done, sock>>

-----------------------------------------------------------------------------
(* The block backend. *)

InDisk(r) == r.at <= Capacity /\ r.n <= Capacity - r.at
Wiped(d, rs) == [s \in Sectors |-> IF \E i \in DOMAIN rs : s \in rs[i].at..(rs[i].at + rs[i].n - 1)
                                   THEN 0 ELSE d[s]]
Written(d, r) == [s \in Sectors |-> IF s \in r.at..(r.at + r.n - 1) THEN 2 ELSE d[s]]

\* decode_ranges: every range is checked before any is used.
decode_ranges(rs) == rs # <<>> /\ \A i \in DOMAIN rs : InDisk(rs[i])

\* request: the status of a request and the disk after it.  The host may fail
\* a punch after some of the ranges.
request(d, q, fault) ==
  CASE q.op \in {"discard", "zeroes"} ->
         IF read_only THEN [status |-> "ioerr", disk |-> d]
         ELSE IF ~core.negotiated THEN [status |-> "unsupp", disk |-> d]
         ELSE IF ~decode_ranges(q.ranges) THEN [status |-> "ioerr", disk |-> d]
         ELSE IF fault THEN [status |-> "ioerr", disk |-> Wiped(d, <<q.ranges[1]>>)]
         ELSE [status |-> "ok", disk |-> Wiped(d, q.ranges)]
    [] q.op \in {"in", "out"} ->
         IF (q.op = "out" /\ read_only) \/ ~InDisk(q.ranges[1]) THEN [status |-> "ioerr", disk |-> d]
         ELSE [status |-> "ok", disk |-> IF q.op = "out" THEN Written(d, q.ranges[1]) ELSE d]
    [] q.op = "bad" -> [status |-> "none", disk |-> d]      \* no chain with room for a status
    [] OTHER -> [status |-> "unsupp", disk |-> d]

\* One request served: the backend's effect, then the used ring.  A frame of
\* a broken chain is dropped and its buffer given back.
Serves(m, fault) ==
  LET q == m.avail[core.last + 1]
      r == IF kind = "block" THEN request(disk, q, fault)
           ELSE [status |-> IF q.op = "bad" THEN "none" ELSE "ok", disk |-> disk]
  IN  /\ disk' = r.disk
      /\ done' = IF r.status = "ok" THEN done + 1 ELSE done
      /\ mem' = [m EXCEPT !.used = Append(@, r.status)]
      /\ core' = [core EXCEPT !.last = @ + 1]

-----------------------------------------------------------------------------
(* serve: the worker of the device. *)

\* poll found the kick; it is read before the core is locked.
WorkerWakes ==
  /\ worker.at = "poll" /\ kick
  /\ kick' = FALSE /\ worker' = [worker EXCEPT !.at = "read"]
  /\ UNCHANGED <<kind, read_only, mem, core, irq, rx, Outside, machine, left>>

\* The avail index is read once, under the core's lock.
WorkerLocks ==
  /\ worker.at = "read"
  /\ worker' = IF core.activated /\ Len(mem.avail) > core.last
               THEN [at |-> "serving", upto |-> Len(mem.avail)] ELSE [worker EXCEPT !.at = "poll"]
  /\ UNCHANGED <<kind, read_only, mem, core, irq, kick, rx, Outside, machine, left>>

WorkerServes ==
  /\ worker.at = "serving"
  /\ \E fault \in BOOLEAN :
       /\ fault => left.faults > 0
       /\ Serves(mem, fault)
       /\ left' = [left EXCEPT !.faults = IF fault THEN @ - 1 ELSE @]
  /\ worker' = IF core.last + 1 = worker.upto THEN [worker EXCEPT !.at = "flag"] ELSE worker
  /\ UNCHANGED <<kind, read_only, irq, kick, rx, sock, machine>>

\* wants_interrupt reads the driver's flag after the used index is written.
WorkerRaises ==
  /\ worker.at = "flag"
  /\ irq' = (irq \/ mem.wants)
  /\ worker' = [worker EXCEPT !.at = "poll"]
  /\ UNCHANGED <<kind, read_only, mem, core, kick, rx, Outside, machine, left>>

-----------------------------------------------------------------------------
(* The receive side of the network backend. *)

\* start_rx and start: the thread takes the ring where it was left.
Started(r) == IF r.has THEN [r EXCEPT !.running = TRUE, !.at = "idle"] ELSE r

\* Mutant: the thread's next index is not taken over when it is joined.
stops_unread(r) == [r EXCEPT !.running = FALSE, !.at = "none", !.next = 0]

\* stop_rx joins the thread at the head of its loop and keeps the next index.
stop_rx(r) == [r EXCEPT !.running = FALSE, !.at = "none"]

\* A frame is taken from the socket and put in the next buffer; without one,
\* or when the buffer is too small for it, it is dropped and the buffer kept.
RxPuts ==
  /\ rx.at = "idle" /\ sock # <<>>
  /\ sock' = Tail(sock)
  /\ IF rx.next < mem.buffers /\ Head(sock).fits
     THEN /\ mem' = [mem EXCEPT !.frames = Append(@, [buffer |-> rx.next + 1, id |-> Head(sock).id])]
          /\ rx' = [rx EXCEPT !.next = @ + 1, !.at = "put"]
     ELSE UNCHANGED <<mem, rx>>
  /\ UNCHANGED <<kind, read_only, core, irq, kick, worker, disk, done, machine, left>>

RxRaises ==
  /\ rx.at = "put"
  /\ irq' = (irq \/ mem.wants)
  /\ rx' = [rx EXCEPT !.at = "idle"]
  /\ UNCHANGED <<kind, read_only, mem, core, kick, worker, Outside, machine, left>>

-----------------------------------------------------------------------------
(* write: the driver sets up the device. *)

FeaturesOk ==
  /\ Guest /\ Unlocked /\ core.status = "zero" /\ mem.at = "setup"
  /\ \E discard \in BOOLEAN :
       core' = [core EXCEPT !.status = "features", !.negotiated = discard /\ kind = "block" /\ ~read_only]
  /\ UNCHANGED <<mem, irq, kick, worker, rx, Outside, left>>

\* DRIVER_OK: the backend is activated under the lock, then every queue kicked.
DriverOk ==
  /\ Guest /\ Unlocked /\ core.status = "features" /\ ~core.activated
  /\ core' = [core EXCEPT !.status = "ok", !.activated = TRUE]
  /\ rx' = IF kind = "net" THEN Started([rx EXCEPT !.has = TRUE, !.next = 0]) ELSE rx
  /\ kick' = TRUE
  /\ mem' = [mem EXCEPT !.at = "ready"]
  /\ UNCHANGED <<irq, worker, Outside, left>>

\* A status of zero: the backend stops, the queues are new, the line is lowered.
\* The driver then lays out new rings.
Reset ==
  /\ Guest /\ Unlocked /\ left.resets > 0 /\ mem.at \in {"setup", "ready"} /\ core.status # "zero"
  /\ rx.at \in {"none", "idle"}
  /\ core' = [FreshCore EXCEPT !.negotiated = FALSE]
  /\ rx' = [stop_rx(rx) EXCEPT !.has = FALSE]
  /\ irq' = FALSE
  /\ mem' = FreshRings
  /\ left' = [left EXCEPT !.resets = @ - 1]
  /\ UNCHANGED <<kick, worker, Outside>>

-----------------------------------------------------------------------------
(* The guest's driver. *)

\* A request goes in the avail ring, before or after DRIVER_OK, then the kick.
Submits ==
  /\ Guest /\ left.reqs > 0 /\ ~mem.unkicked /\ core.status # "zero"
  /\ Len(mem.avail) - mem.seen < Size
  /\ \E q \in Requests :
       /\ (q.op = "send") => kind = "net"
       /\ (kind = "net") => q.op \in {"send", "bad"}
       /\ mem' = [mem EXCEPT !.avail = Append(@, q), !.unkicked = TRUE]
  /\ left' = [left EXCEPT !.reqs = @ - 1]
  /\ UNCHANGED <<core, irq, kick, worker, rx, Outside>>
Kicks ==
  /\ Guest /\ mem.unkicked
  /\ mem' = [mem EXCEPT !.unkicked = FALSE]
  /\ kick' = TRUE
  /\ UNCHANGED <<core, irq, worker, rx, Outside, left>>

GivesBuffer ==
  /\ Guest /\ kind = "net" /\ core.status # "zero" /\ mem.buffers - mem.got < Size
  /\ mem.buffers < MaxFrames
  /\ mem' = [mem EXCEPT !.buffers = @ + 1]
  /\ UNCHANGED <<core, irq, kick, worker, rx, Outside, left>>

\* The interrupt handler: acknowledge, switch interrupts off, then look at the
\* rings; switch them on again and look once more.
TakesInterrupt ==
  /\ Guest /\ irq /\ mem.at = "ready"
  /\ irq' = FALSE
  /\ mem' = [mem EXCEPT !.at = "poll", !.wants = FALSE]
  /\ UNCHANGED <<core, kick, worker, rx, Outside, left>>
Polls ==
  /\ Guest /\ mem.at = "poll"
  /\ mem' = [mem EXCEPT !.seen = Len(mem.used), !.got = Len(mem.frames), !.at = "enable"]
  /\ UNCHANGED <<core, irq, kick, worker, rx, Outside, left>>
EnablesAgain ==
  /\ Guest /\ mem.at = "enable"
  /\ mem' = [mem EXCEPT !.wants = TRUE, !.at = "again"]
  /\ UNCHANGED <<core, irq, kick, worker, rx, Outside, left>>
LooksAgain ==
  /\ Guest /\ mem.at = "again"
  /\ mem' = [mem EXCEPT !.at = IF mem.seen < Len(mem.used) \/ mem.got < Len(mem.frames)
                               THEN "poll" ELSE "ready",
                        !.wants = ~(mem.seen < Len(mem.used) \/ mem.got < Len(mem.frames))]
  /\ UNCHANGED <<core, irq, kick, worker, rx, Outside, left>>

Arrives ==
  /\ kind = "net" /\ left.frames > 0
  /\ \E fits \in BOOLEAN : sock' = Append(sock, [id |-> MaxFrames - left.frames + 1, fits |-> fits])
  /\ left' = [left EXCEPT !.frames = @ - 1]
  /\ UNCHANGED <<kind, read_only, mem, core, irq, kick, worker, rx, disk, done, machine>>

-----------------------------------------------------------------------------
(* Snapshots. *)

Pause == /\ machine = "running" /\ left.saves > 0
         /\ machine' = "paused"
         /\ left' = [left EXCEPT !.saves = @ - 1]
         /\ UNCHANGED <<kind, read_only, mem, core, irq, kick, worker, rx, Outside>>

\* save finishes the requests made before the pause, one by one under the
\* lock, then stops the receive thread.
SaveDrains ==
  /\ machine = "paused" /\ Unlocked /\ core.activated /\ core.last < Len(mem.avail)
  /\ Serves(mem, FALSE)
  /\ irq' = (irq \/ (mem.wants /\ core.last + 1 = Len(mem.avail)))
  /\ UNCHANGED <<kind, read_only, kick, worker, rx, sock, machine, left>>
Save ==
  /\ machine = "paused" /\ Unlocked /\ ~(core.activated /\ core.last < Len(mem.avail))
  /\ rx.at \in {"none", "idle"}
  /\ machine' = "saved"
  /\ rx' = stop_rx(rx)
  /\ UNCHANGED <<kind, read_only, mem, core, irq, kick, worker, Outside, left>>

\* resume, after a save or one that another device failed.
Resume ==
  /\ machine = "saved"
  /\ machine' = "running"
  /\ rx' = IF rx.at = "none" THEN Started(rx) ELSE rx
  /\ UNCHANGED <<kind, read_only, mem, core, irq, kick, worker, Outside, left>>

\* restore: another process makes the device from the saved state.  Its
\* eventfd is empty and its worker new; a saved reason is raised again, a
\* device that was not activated has no thread, and frames that were still in
\* the socket of the old process are gone.
Restore ==
  /\ machine = "saved"
  /\ machine' = "running"
  /\ kick' = FALSE /\ worker' = [at |-> "poll", upto |-> 0]
  /\ rx' = IF core.activated THEN Started(rx) ELSE NoRx
  /\ sock' = <<>>
  /\ UNCHANGED <<kind, read_only, mem, core, irq, disk, done, left>>

Next ==
  \/ WorkerWakes \/ WorkerLocks \/ WorkerServes \/ WorkerRaises
  \/ RxPuts \/ RxRaises
  \/ FeaturesOk \/ DriverOk \/ Reset
  \/ Submits \/ Kicks \/ GivesBuffer \/ Arrives
  \/ TakesInterrupt \/ Polls \/ EnablesAgain \/ LooksAgain
  \/ Pause \/ SaveDrains \/ Save \/ Resume \/ Restore

Spec == Init /\ [][Next]_vars

-----------------------------------------------------------------------------
\* No request is forgotten: when the worker sleeps, nothing is kicked and the
\* driver owes no kick, the device has served every request of its ring.
\* (serve reads the eventfd before the ring; DRIVER_OK kicks every queue.)
RequestsServed ==
  (core.activated /\ worker.at = "poll" /\ ~kick /\ ~mem.unkicked /\ machine = "running")
    => core.last = Len(mem.avail)

\* No interrupt is lost: what the driver has not seen has a reason in the
\* status register while the driver waits, unless the device is about to raise.
InterruptReaches ==
  (core.activated /\ mem.at = "ready" /\ worker.at = "poll" /\ rx.at # "put" /\ machine = "running")
    => ((mem.seen < Len(mem.used) \/ mem.got < Len(mem.frames)) => irq)

\* A receive buffer is used once and in order, across pauses and restores.
BuffersOnce ==
  \A i \in DOMAIN mem.frames :
    /\ mem.frames[i].buffer = i
    /\ i > 1 => mem.frames[i - 1].id < mem.frames[i].id

\* A device that was reset leaves the guest's memory alone until it is
\* activated again, so the driver may lay out new rings at once.
QuietAfterReset == ~core.activated => (mem.used = <<>> /\ mem.frames = <<>> /\ rx.at = "none")

\* A request that names a range outside the disk, or that was not negotiated,
\* changes nothing.
RefusedLeavesDisk == (done = 0 /\ left.faults = MaxFaults) => disk = [s \in Sectors |-> 1]

DeviceSafe == /\ RequestsServed /\ InterruptReaches /\ BuffersOnce /\ QuietAfterReset
              /\ RefusedLeavesDisk
=============================================================================
