---------------------------- MODULE AsyncSandbox ----------------------------
(***************************************************************************)
(* The Rust SDK (shuru-sdk lib.rs): a thread owns the VM and serves        *)
(* commands one by one; reads and dials go to threads of their own; shells *)
(* and watches are read by a thread each into a bounded queue.             *)
(*                                                                         *)
(* A command is serial (files written, trim, checkpoint), an exec (or a    *)
(* download), a read (read_file, read_dir), a dial, a stream (open_shell,  *)
(* open_watch) or a stop.  An exec, a download or a dial may take for      *)
(* ever; a guest answers anything else while the VM runs.                  *)
(***************************************************************************)
EXTENDS Integers, Sequences, FiniteSets, SequencesExt

CONSTANTS Callers,       \* tasks that hold the sandbox
          Ops,           \* what a task may call
          MaxCalls,      \* bound: calls of a task
          EVENT_QUEUE,   \* events queued for a stream
          MaxEvents      \* bound: events of a stream

VARIABLES boot,      \* the boot future: "wait", "up", "failed" or "dropped"
          disk,      \* what boot_vm holds: the steps it has done
          vm,        \* "none", "run" or "off"
          calls,     \* caller -> calls left
          call,      \* caller -> [op, at]: its call and how it ended
          cmds,      \* commands queued
          loop,      \* the VM thread: [at, who]
          worker,    \* caller -> its thread for a read or a dial
          stream,    \* caller -> the stream it opened and the thread that reads it
          held       \* the AsyncSandbox was not dropped

vars == <<boot, disk, vm, calls, call, cmds, loop, worker, stream, held>>

NoCall == [op |-> "none", at |-> "idle"]
NoStream == [at |-> "none", frames |-> 0, made |-> 0, queue |-> 0, keeps |-> FALSE, open |-> FALSE]
\* What boot_vm sets up, in order: each is undone when a later one fails.
BootSteps == <<"disk", "store", "proxy", "vm", "forwards", "certificate">>

Init ==
  /\ boot = "wait" /\ disk = 0 /\ vm = "none"
  /\ calls = [c \in Callers |-> MaxCalls]
  /\ call = [c \in Callers |-> NoCall]
  /\ cmds = <<>>
  /\ loop = [at |-> "boot", who |-> "none"]
  /\ worker = [c \in Callers |-> "none"]
  /\ stream = [c \in Callers |-> NoStream]
  /\ held = FALSE

-----------------------------------------------------------------------------
(* boot. *)

\* boot_vm, step by step; the VM runs from its step on.
boot_vm ==
  /\ loop.at = "boot" /\ disk < Len(BootSteps)
  /\ \/ /\ disk' = disk + 1
        /\ vm' = IF BootSteps[disk + 1] = "vm" THEN "run" ELSE vm
        /\ UNCHANGED <<boot, loop>>
     \/ \* a step fails: what there is is dropped, which powers a VM off
        /\ disk' = 0
        /\ vm' = IF vm = "run" THEN "off" ELSE vm
        /\ loop' = [loop EXCEPT !.at = "ended"]
        /\ boot' = IF boot = "wait" THEN "failed" ELSE boot
  /\ UNCHANGED <<calls, call, cmds, worker, stream, held>>
\* ready_tx: nobody left to take it, and the VM goes again.
Ready ==
  /\ loop.at = "boot" /\ disk = Len(BootSteps)
  /\ IF boot = "wait"
     THEN boot' = "up" /\ held' = TRUE /\ loop' = [loop EXCEPT !.at = "recv"] /\ UNCHANGED <<vm, disk>>
     ELSE vm' = "off" /\ disk' = 0 /\ loop' = [loop EXCEPT !.at = "ended"] /\ UNCHANGED <<boot, held>>
  /\ UNCHANGED <<calls, call, cmds, worker, stream>>
DropsBoot ==
  /\ boot = "wait"
  /\ boot' = "dropped"
  /\ UNCHANGED <<disk, vm, calls, call, cmds, loop, worker, stream, held>>

-----------------------------------------------------------------------------
(* Callers. *)

\* Every call: a command with a channel for its answer.  Once the thread has
\* ended the channel of commands is closed.
Calls(c) ==
  /\ held /\ call[c].at = "idle" /\ calls[c] > 0
  /\ \E op \in Ops :
       /\ op = "stream" => stream[c].at = "none"
       /\ IF loop.at = "ended"
          THEN call' = [call EXCEPT ![c] = [op |-> op, at |-> IF op = "stop" THEN "ok" ELSE "error"]]
               /\ UNCHANGED cmds
          ELSE /\ call' = [call EXCEPT ![c] = [op |-> op, at |-> "wait"]]
               /\ cmds' = Append(cmds, [who |-> c, op |-> op])
  /\ calls' = [calls EXCEPT ![c] = @ - 1]
  /\ UNCHANGED <<boot, disk, vm, loop, worker, stream, held>>
Returns(c) ==
  /\ call[c].at \in {"ok", "error"}
  /\ call' = [call EXCEPT ![c] = NoCall]
  /\ UNCHANGED <<boot, disk, vm, calls, cmds, loop, worker, stream, held>>
\* The caller is dropped while it waits; its command stays.
Cancels(c) ==
  /\ call[c].at = "wait"
  /\ call' = [call EXCEPT ![c].at = "cancelled"]
  /\ UNCHANGED <<boot, disk, vm, calls, cmds, loop, worker, stream, held>>
\* Drop: a stop is queued and nobody waits for it.
Drops ==
  /\ held /\ \A c \in Callers : call[c].at \in {"idle", "cancelled"}
  /\ held' = FALSE
  /\ cmds' = IF loop.at = "ended" THEN cmds ELSE Append(cmds, [who |-> "none", op |-> "stop"])
  /\ UNCHANGED <<boot, disk, vm, calls, call, loop, worker, stream>>

Answered(c, r) == IF c \in Callers /\ call[c].at = "wait" THEN [call EXCEPT ![c].at = r] ELSE call

-----------------------------------------------------------------------------
(* run_vm_loop. *)

\* Mutant: a dial runs on the loop.
OffLoopReads(op) == op = "read"

\* Served by a thread of its own, so that it holds nobody back.
OffLoop(op) == op \in {"read", "dial"}
Serves ==
  /\ loop.at = "recv" /\ cmds # <<>>
  /\ LET m == Head(cmds)
     IN  IF OffLoop(m.op) THEN /\ worker' = [worker EXCEPT ![m.who] = m.op] /\ UNCHANGED loop
         ELSE loop' = [at |-> m.op, who |-> m.who] /\ UNCHANGED worker
  /\ cmds' = Tail(cmds)
  /\ UNCHANGED <<boot, disk, vm, calls, call, stream, held>>
\* A command the guest answers at once: it fails once the VM is off.
Serial ==
  /\ loop.at = "serial"
  /\ call' = Answered(loop.who, IF vm = "run" THEN "ok" ELSE "error")
  /\ loop' = [at |-> "recv", who |-> "none"]
  /\ UNCHANGED <<boot, disk, vm, calls, cmds, worker, stream, held>>
\* exec, download and dial take as long as the guest or a server takes.
ExecEnds ==
  /\ loop.at \in {"exec", "dial"}
  /\ \E r \in {"ok", "error"} : call' = Answered(loop.who, r)
  /\ loop' = [at |-> "recv", who |-> "none"]
  /\ UNCHANGED <<boot, disk, vm, calls, cmds, worker, stream, held>>
OpensStream ==
  /\ loop.at = "stream"
  /\ LET c == loop.who
         ok == vm = "run" /\ stream[c].at = "none"
     IN  /\ call' = Answered(c, IF ok THEN "ok" ELSE "error")
         /\ stream' = IF ok /\ call[c].at = "wait"
                      THEN [stream EXCEPT ![c] = [NoStream EXCEPT !.at = "read", !.keeps = TRUE, !.open = TRUE]]
                      ELSE stream
  /\ loop' = [at |-> "recv", who |-> "none"]
  /\ UNCHANGED <<boot, disk, vm, calls, cmds, worker, held>>
\* Stop ends the loop; the commands behind it are dropped with their channels.
Stop ==
  /\ loop.at = "stop"
  /\ vm' = "off"
  /\ LET left == {cmds[i].who : i \in DOMAIN cmds} \intersect Callers
         a == Answered(loop.who, "ok")
     IN  call' = [c \in Callers |-> IF c \in left /\ a[c].at = "wait"
                                    THEN [a[c] EXCEPT !.at = IF a[c].op = "stop" THEN "ok" ELSE "error"]
                                    ELSE a[c]]
  /\ cmds' = <<>>
  /\ loop' = [at |-> "ended", who |-> "none"]
  /\ disk' = 0
  /\ stream' = [c \in Callers |-> [stream[c] EXCEPT !.open = FALSE]]
  /\ UNCHANGED <<boot, calls, worker, held>>

WorkerEnds(c) ==
  /\ worker[c] # "none"
  /\ call' = Answered(c, IF vm = "run" THEN "ok" ELSE "error")
  /\ worker' = [worker EXCEPT ![c] = "none"]
  /\ UNCHANGED <<boot, disk, vm, calls, cmds, loop, stream, held>>

-----------------------------------------------------------------------------
(* Streams. *)

GuestSends(c) ==
  /\ stream[c].open /\ stream[c].made < MaxEvents
  /\ stream' = [stream EXCEPT ![c].made = @ + 1, ![c].frames = @ + 1]
  /\ UNCHANGED <<boot, disk, vm, calls, call, cmds, loop, worker, held>>
\* The reader thread: a frame, then blocking_send into the queue; it ends with
\* the connection, or when a frame finds the receiver gone.
ReadsFrame(c) ==
  /\ stream[c].at = "read"
  /\ \/ /\ stream[c].frames > 0
        /\ stream' = [stream EXCEPT ![c].frames = @ - 1, ![c].at = "send"]
     \/ /\ stream[c].frames = 0 /\ ~stream[c].open
        /\ stream' = [stream EXCEPT ![c].at = "ended"]
  /\ UNCHANGED <<boot, disk, vm, calls, call, cmds, loop, worker, held>>
BlockingSend(c) ==
  /\ stream[c].at = "send"
  /\ \/ /\ stream[c].keeps /\ stream[c].queue < EVENT_QUEUE
        /\ stream' = [stream EXCEPT ![c].queue = @ + 1, ![c].at = "read"]
     \/ /\ ~stream[c].keeps
        /\ stream' = [stream EXCEPT ![c].at = "ended", ![c].open = FALSE]
  /\ UNCHANGED <<boot, disk, vm, calls, call, cmds, loop, worker, held>>
Receives(c) ==
  /\ stream[c].keeps /\ stream[c].queue > 0
  /\ stream' = [stream EXCEPT ![c].queue = @ - 1]
  /\ UNCHANGED <<boot, disk, vm, calls, call, cmds, loop, worker, held>>
DropsStream(c) ==
  /\ stream[c].keeps
  /\ stream' = [stream EXCEPT ![c].keeps = FALSE, ![c].queue = 0]
  /\ UNCHANGED <<boot, disk, vm, calls, call, cmds, loop, worker, held>>

Steps ==
  \/ boot_vm \/ Ready \/ Serves \/ Serial \/ OpensStream \/ Stop
  \/ \E c \in Callers : \/ Returns(c) \/ ReadsFrame(c) \/ BlockingSend(c)
                        \/ (worker[c] = "read" \/ vm # "run") /\ WorkerEnds(c)
MayDo ==
  \/ DropsBoot \/ Drops \/ ExecEnds
  \/ \E c \in Callers : \/ Calls(c) \/ Cancels(c) \/ GuestSends(c) \/ Receives(c) \/ DropsStream(c)
                        \/ worker[c] = "dial" /\ vm = "run" /\ WorkerEnds(c)
Next == Steps \/ MayDo

Spec == Init /\ [][Next]_vars

-----------------------------------------------------------------------------
Quiet == ~ENABLED Steps

\* A call is answered unless the guest takes its time with it or with the exec
\* (or download) the VM thread is at: a dial holds only its own caller.
HeldByExecOnly ==
  Quiet => \A c \in Callers : call[c].at = "wait" => (call[c].op = "dial" /\ worker[c] = "dial") \/ loop.at = "exec"

\* After a stop, or once nobody holds the sandbox, the VM is off when all is
\* quiet and nothing of it is left, unless an exec or download never ends.
DroppedIsOff == (Quiet /\ ~held /\ loop.at # "exec") => vm # "run" /\ disk = 0

\* A stream that ended was read to its end by its thread: nothing the guest
\* sent is left, unless the receiver is gone.
ReadToTheEnd == \A c \in Callers : (stream[c].at = "ended" /\ stream[c].keeps) => stream[c].frames = 0

AsyncSafe == HeldByExecOnly /\ DroppedIsOff /\ ReadToTheEnd

\* "Drop the handle to stop watching": the guest's side ends too.  Violated: the
\* reader sees that the handle is gone only with the next event.
DropStops == Quiet => \A c \in Callers : (stream[c].open /\ vm = "run") => stream[c].keeps
=============================================================================
