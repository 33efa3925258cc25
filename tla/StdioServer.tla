---------------------------- MODULE StdioServer -----------------------------
(***************************************************************************)
(* `shuru run --stdio` (shuru-cli stdio.rs) and the SDK that drives it     *)
(* (packages/sdk process.ts, process-handle.ts, sandbox.ts): requests on   *)
(* stdin, answers and notifications on stdout.  The main thread reads and  *)
(* answers; each spawned process has a thread that reads its frames and    *)
(* one that writes its stdin; one thread writes the notifications.         *)
(*                                                                         *)
(* A request on files the main thread answers by itself is a "call"; stdin *)
(* is counted in writes; stdout is a pipe of a few lines.  Watches, whose  *)
(* threads only add notifications until the VM stops, are left out.        *)
(***************************************************************************)
EXTENDS Integers, Sequences, FiniteSets, SequencesExt

CONSTANTS Procs,           \* processes, spawned in this order
          STDIN_BACKLOG,   \* writes a client may have queued for a process
          EVENT_QUEUE,     \* notifications queued
          OutRoom, VsockRoom,             \* lines in stdout, frames to a process
          Calls,                          \* what the client may ask
          MaxReqs, MaxOut                 \* bounds: requests, output of a process

VARIABLES sdk,      \* the client: [sent, pending, handlers, spawned, heard, shut, twice]
          stdin,    \* lines to the server
          main,     \* the main thread: [at, line, by]
          out,      \* lines in stdout
          events,   \* the notification channel
          notifier, \* the thread that writes them
          proc,     \* process -> ProcessHandle, ProcessState and its two threads
          guest,    \* process -> the process in the guest
          vm,       \* the VM runs
          lost      \* requests whose queue went away with a spawn that failed

vars == <<sdk, stdin, main, out, events, notifier, proc, guest, vm, lost>>

P == ToSet(Procs)
NoLine == [k |-> "none", id |-> 0, p |-> "none"]
Line(k, id, p) == [k |-> k, id |-> id, p |-> p]

Init ==
  /\ sdk = [sent |-> 0, spawns |-> 0, pending |-> {}, handlers |-> {}, spawned |-> {}, heard |-> {},
            shut |-> FALSE, twice |-> FALSE]
  /\ stdin = <<>>
  /\ main = [at |-> "read", line |-> NoLine, by |-> "none", spawns |-> 0]
  /\ out = <<>> /\ events = <<>> /\ notifier = [at |-> "recv", line |-> NoLine]
  /\ proc = [p \in P |-> [entry |-> FALSE, killed |-> FALSE, exited |-> FALSE, backlog |-> 0,
                          exec_id |-> FALSE, timer |-> FALSE, queue |-> <<>>, closed |-> FALSE,
                          reader |-> "none", writer |-> "none", line |-> NoLine, hold |-> NoLine,
                          told |-> FALSE, late |-> FALSE]]
  /\ \E reads \in SUBSET P :
       guest = [p \in P |-> [is |-> "none", reads |-> p \in reads, wrote |-> 0,
                             frames |-> <<>>, stdin |-> <<>>]]
  /\ vm = TRUE /\ lost = {}

Writes(l) == Len(out) < OutRoom /\ out' = Append(out, l)

-----------------------------------------------------------------------------
(* The client. *)

\* send: a number, a pending promise, a line.
Asks ==
  /\ ~sdk.shut /\ sdk.sent < MaxReqs
  /\ \E k \in Calls, p \in sdk.spawned \union {"none"} :
       /\ (k \in {"input", "kill"}) = (p # "none")
       /\ k = "spawn" => sdk.spawns < Len(Procs)
       /\ stdin' = Append(stdin, Line(k, sdk.sent + 1, p))
       /\ sdk' = [sdk EXCEPT !.sent = @ + 1, !.pending = @ \union {sdk.sent + 1},
                             !.spawns = IF k = "spawn" THEN @ + 1 ELSE @, !.shut = k = "checkpoint"]
  /\ UNCHANGED <<main, out, events, notifier, proc, guest, vm, lost>>
\* stop: stdin ends.
Stops ==
  /\ ~sdk.shut
  /\ sdk' = [sdk EXCEPT !.shut = TRUE]
  /\ UNCHANGED <<stdin, main, out, events, notifier, proc, guest, vm, lost>>
\* dispatch of one line.
Dispatched(s, l) ==
  CASE l.k = "output" -> s
    [] l.k = "exit" -> IF l.p \in s.handlers
                       THEN [s EXCEPT !.handlers = @ \ {l.p}, !.heard = @ \union {l.p}] ELSE s
    [] OTHER -> [s EXCEPT !.pending = @ \ {l.id}, !.twice = @ \/ l.id \notin s.pending,
                          !.spawned = IF l.k = "spawned" THEN @ \union {l.p} ELSE @]
\* readLoop: the lines of one read are dispatched at once, and only then do
\* the promises they resolved go on: the handlers of a process are set after
\* the read its spawn was answered in.
ReadsLines ==
  /\ out # <<>>
  /\ \E n \in 1..Len(out) :
       LET s == FoldLeft(Dispatched, sdk, SubSeq(out, 1, n))
       IN  /\ sdk' = [s EXCEPT !.handlers = @ \union (s.spawned \ sdk.spawned)]
           /\ out' = SubSeq(out, n + 1, Len(out))
  /\ UNCHANGED <<stdin, main, events, notifier, proc, guest, vm, lost>>

-----------------------------------------------------------------------------
(* run_stdio: the main thread. *)

Answer(k) == [main EXCEPT !.at = "answer", !.line = k]
Takes(k) == main.at = "read" /\ stdin # <<>> /\ Head(stdin).k = k

\* A finished process loses its entry, which ends its input thread; the new
\* one is started before its spawn is answered.
Spawn ==
  /\ Takes("spawn")
  /\ LET p == Procs[main.spawns + 1]
         kept == [q \in P |-> [proc[q] EXCEPT !.entry = @ /\ ~proc[q].exited]]
     IN  /\ proc' = [kept EXCEPT ![p].entry = TRUE, ![p].reader = "open"]
         /\ main' = [Answer(Line("spawned", Head(stdin).id, p)) EXCEPT !.spawns = @ + 1]
  /\ stdin' = Tail(stdin)
  /\ UNCHANGED <<sdk, out, events, notifier, guest, vm, lost>>
Kill ==
  /\ Takes("kill")
  /\ LET p == Head(stdin).p
     IN  proc' = IF ~proc[p].entry \/ proc[p].killed THEN proc
                 ELSE [proc EXCEPT ![p].killed = TRUE, ![p].timer = TRUE,
                                   ![p].queue = Append(@, Line("kill", 0, p))]
  /\ main' = Answer(Line("result", Head(stdin).id, "none"))
  /\ stdin' = Tail(stdin)
  /\ UNCHANGED <<sdk, out, events, notifier, guest, vm, lost>>
\* Refused without an entry, over the backlog, or once the queue is gone;
\* otherwise answered by the input thread.
Input ==
  /\ Takes("input")
  /\ LET p == Head(stdin).p
         q == proc[p]
         refused == ~q.entry \/ q.backlog + 1 > STDIN_BACKLOG \/ q.reader = "failed"
     IN  IF refused THEN main' = Answer(Line("error", Head(stdin).id, "none")) /\ UNCHANGED proc
         ELSE /\ proc' = [proc EXCEPT ![p].backlog = @ + 1,
                                      ![p].queue = Append(@, Line("stdin", Head(stdin).id, p))]
              /\ UNCHANGED main
  /\ stdin' = Tail(stdin)
  /\ UNCHANGED <<sdk, out, events, notifier, guest, vm, lost>>
\* exec: answered once the command ended; nothing else is read meanwhile.
Exec ==
  /\ Takes("exec")
  /\ main' = Answer(Line("result", Head(stdin).id, "none"))
  /\ stdin' = Tail(stdin)
  /\ UNCHANGED <<sdk, out, events, notifier, proc, guest, vm, lost>>
\* Files, directories and trim: parameters that do not parse and calls that
\* fail are answered as errors.
Call ==
  /\ Takes("call")
  /\ \E k \in {"result", "error"} : main' = Answer(Line(k, Head(stdin).id, "none"))
  /\ stdin' = Tail(stdin)
  /\ UNCHANGED <<sdk, out, events, notifier, proc, guest, vm, lost>>
\* sandbox.stop, and the kill of a save that ends in PowerOff.
Off ==
  /\ vm' = FALSE
  /\ guest' = [p \in P |-> [guest[p] EXCEPT !.is = IF @ = "alive" THEN "dead" ELSE @]]
\* handle_checkpoint: save_disk kills the VM, saved or failed, before it is
\* answered; a name or directory that is refused leaves it to stop.  Parameters
\* that do not parse end nothing.
Checkpoint ==
  /\ Takes("checkpoint")
  /\ \E k \in {"result", "error"} :
       LET told == Answer(Line(k, Head(stdin).id, "none"))
       IN  \/ main' = [told EXCEPT !.by = "checkpoint"] /\ Off
           \/ k = "error" /\ main' = [told EXCEPT !.by = "checkpoint"] /\ UNCHANGED <<vm, guest>>
           \/ k = "error" /\ main' = told /\ UNCHANGED <<vm, guest>>
  /\ stdin' = Tail(stdin)
  /\ UNCHANGED <<sdk, out, events, notifier, proc, lost>>
Answers ==
  /\ main.at = "answer"
  /\ Writes(main.line)
  /\ main' = [main EXCEPT !.at = IF main.by = "checkpoint" THEN "stop" ELSE "read", !.line = NoLine]
  /\ UNCHANGED <<sdk, stdin, events, notifier, proc, guest, vm, lost>>
Eof ==
  /\ main.at = "read" /\ stdin = <<>> /\ sdk.shut
  /\ main' = [main EXCEPT !.at = "stop", !.by = "eof"]
  /\ UNCHANGED <<sdk, stdin, out, events, notifier, proc, guest, vm, lost>>

\* Mutant: the threads are joined before the entries go.
DropsLate == proc

\* Entries go, so that input threads end.
Drops == [p \in P |-> [proc[p] EXCEPT !.entry = FALSE]]
\* stop closes every connection.  At the end of stdin the entries are
\* dropped and the threads joined; after a checkpoint only the notifier is.
StopsVm ==
  /\ main.at = "stop" /\ Off
  /\ IF main.by = "eof" THEN /\ proc' = Drops /\ main' = [main EXCEPT !.at = "join"]
     ELSE /\ main' = [main EXCEPT !.at = "flush"] /\ UNCHANGED proc
  /\ UNCHANGED <<sdk, stdin, out, events, notifier, lost>>
Joins ==
  /\ main.at = "join" /\ \A p \in P : proc[p].reader \in {"none", "done", "failed"}
  /\ main' = [main EXCEPT !.at = "flush"]
  /\ UNCHANGED <<sdk, stdin, out, events, notifier, proc, guest, vm, lost>>
Ends ==
  /\ main.at = "flush" /\ notifier.at = "ended"
  /\ main' = [main EXCEPT !.at = "ended"]
  /\ UNCHANGED <<sdk, stdin, out, events, notifier, proc, guest, vm, lost>>

-----------------------------------------------------------------------------
(* The threads of a process. *)

\* open_exec, once: the process runs, or the spawn failed and the queue of its
\* stdin goes with it.
Opens(p) ==
  /\ proc[p].reader = "open" /\ vm
  /\ proc' = [proc EXCEPT ![p].exec_id = TRUE, ![p].reader = "read", ![p].writer = "take"]
  /\ guest' = [guest EXCEPT ![p].is = "alive"]
  /\ UNCHANGED <<sdk, stdin, main, out, events, notifier, vm, lost>>
OpenFails(p) ==
  /\ proc[p].reader = "open"
  /\ proc' = [proc EXCEPT ![p].reader = "fail", ![p].line = Line("exit", 0, p)]
  /\ UNCHANGED <<sdk, stdin, main, out, events, notifier, guest, vm, lost>>

\* read_frame: output and exit become notifications; a connection that ends
\* without an exit is an exit too.
ReadsFrame(p) ==
  /\ proc[p].reader = "read"
  /\ \/ /\ guest[p].frames # <<>>
        /\ proc' = [proc EXCEPT ![p].reader = "send", ![p].line = Line(Head(guest[p].frames), 0, p)]
        /\ guest' = [guest EXCEPT ![p].frames = Tail(@)]
     \/ /\ guest[p].frames = <<>> /\ ~vm
        /\ proc' = [proc EXCEPT ![p].reader = "send", ![p].line = Line("exit", 0, p)]
        /\ UNCHANGED guest
  /\ UNCHANGED <<sdk, stdin, main, out, events, notifier, vm, lost>>
SendsEvent(p) ==
  /\ proc[p].reader \in {"send", "fail"} /\ Len(events) < EVENT_QUEUE
  /\ events' = Append(events, proc[p].line)
  /\ LET exit == proc[p].line.k = "exit"
         fail == proc[p].reader = "fail"
     IN  /\ proc' = [proc EXCEPT ![p].line = NoLine,
                                 ![p].exited = @ \/ (exit /\ ~fail),
                                 ![p].queue = IF fail THEN <<>> ELSE @,
                                 ![p].reader = IF fail THEN "failed" ELSE IF exit THEN "join" ELSE "read"]
         /\ lost' = IF fail THEN lost \union ({proc[p].queue[i].id : i \in DOMAIN proc[p].queue} \ {0})
                    ELSE lost
  /\ UNCHANGED <<sdk, stdin, main, out, notifier, guest, vm>>
JoinsWriter(p) ==
  /\ proc[p].reader = "join" /\ proc[p].writer = "ended"
  /\ proc' = [proc EXCEPT ![p].reader = "done"]
  /\ UNCHANGED <<sdk, stdin, main, out, events, notifier, guest, vm, lost>>

\* The input thread takes stdin or a kill; after a kill nothing is written.
TakesStdin(p) ==
  /\ proc[p].writer = "take" /\ proc[p].queue # <<>> /\ Head(proc[p].queue).k = "stdin"
  /\ LET c == proc[p].closed \/ proc[p].killed
     IN  proc' = [proc EXCEPT ![p].backlog = @ - 1, ![p].queue = Tail(@), ![p].closed = c,
                              ![p].hold = Line(IF c THEN "error" ELSE "result", Head(proc[p].queue).id, "none"),
                              ![p].writer = IF c THEN "reply" ELSE "write"]
  /\ UNCHANGED <<sdk, stdin, main, out, events, notifier, guest, vm, lost>>
WritesStdin(p) ==
  /\ proc[p].writer = "write"
  /\ \/ /\ guest[p].is = "alive" /\ Len(guest[p].stdin) < VsockRoom
        /\ guest' = [guest EXCEPT ![p].stdin = Append(@, "stdin")]
        /\ proc' = [proc EXCEPT ![p].writer = "reply"]
     \/ /\ guest[p].is # "alive"
        /\ proc' = [proc EXCEPT ![p].writer = "reply", ![p].closed = TRUE, ![p].hold.k = "error"]
        /\ UNCHANGED guest
  /\ UNCHANGED <<sdk, stdin, main, out, events, notifier, vm, lost>>
RepliesInput(p) ==
  /\ proc[p].writer = "reply"
  /\ Writes(proc[p].hold)
  /\ proc' = [proc EXCEPT ![p].writer = "take", ![p].hold = NoLine]
  /\ UNCHANGED <<sdk, stdin, main, events, notifier, guest, vm, lost>>
TakesKill(p) ==
  /\ proc[p].writer = "take" /\ proc[p].queue # <<>> /\ Head(proc[p].queue).k = "kill"
  /\ IF proc[p].closed \/ guest[p].is # "alive" THEN UNCHANGED guest
     ELSE /\ Len(guest[p].stdin) < VsockRoom
          /\ guest' = [guest EXCEPT ![p].stdin = Append(@, "kill")]
  /\ proc' = [proc EXCEPT ![p].queue = Tail(@), ![p].closed = TRUE]
  /\ UNCHANGED <<sdk, stdin, main, out, events, notifier, vm, lost>>
WriterEnds(p) ==
  /\ proc[p].writer = "take" /\ proc[p].queue = <<>> /\ ~proc[p].entry
  /\ proc' = [proc EXCEPT ![p].writer = "ended"]
  /\ UNCHANGED <<sdk, stdin, main, out, events, notifier, guest, vm, lost>>

Died(g) == [g EXCEPT !.is = "dead", !.frames = Append(@, "exit"), !.stdin = <<>>]
\* kill_after_grace, on a connection of its own.
Grace(p) ==
  /\ proc[p].timer
  /\ proc' = [proc EXCEPT ![p].timer = FALSE]
  /\ guest' = IF ~proc[p].exited /\ proc[p].exec_id /\ guest[p].is = "alive"
              THEN [guest EXCEPT ![p] = Died(@)] ELSE guest
  /\ UNCHANGED <<sdk, stdin, main, out, events, notifier, vm, lost>>

\* The notifier.
TakesEvent ==
  /\ notifier.at = "recv" /\ events # <<>>
  /\ notifier' = [at |-> "write", line |-> Head(events)]
  /\ events' = Tail(events)
  /\ UNCHANGED <<sdk, stdin, main, out, proc, guest, vm, lost>>
Notifies ==
  /\ notifier.at = "write"
  /\ Writes(notifier.line)
  /\ LET p == notifier.line.p
     IN  proc' = [proc EXCEPT ![p].late = @ \/ proc[p].told, ![p].told = notifier.line.k = "exit"]
  /\ notifier' = [at |-> "recv", line |-> NoLine]
  /\ UNCHANGED <<sdk, stdin, main, events, guest, vm, lost>>
NotifierEnds ==
  /\ notifier.at = "recv" /\ events = <<>> /\ main.at = "flush"
  /\ \A p \in P : proc[p].reader \in {"none", "done", "failed"}
  /\ notifier' = [notifier EXCEPT !.at = "ended"]
  /\ UNCHANGED <<sdk, stdin, main, out, events, proc, guest, vm, lost>>

-----------------------------------------------------------------------------
(* The guest. *)

\* The guest's handler passes stdin to a process that reads it, and kills.
GuestTakes(p) ==
  /\ guest[p].is = "alive" /\ guest[p].stdin # <<>>
  /\ \/ /\ Head(guest[p].stdin) = "kill"
        /\ guest' = [guest EXCEPT ![p] = Died(@)]
     \/ /\ Head(guest[p].stdin) = "stdin" /\ guest[p].reads
        /\ guest' = [guest EXCEPT ![p].stdin = Tail(@)]
  /\ UNCHANGED <<sdk, stdin, main, out, events, notifier, proc, vm, lost>>
GuestWrites(p) ==
  /\ guest[p].is = "alive" /\ guest[p].wrote < MaxOut
  /\ guest' = [guest EXCEPT ![p].wrote = @ + 1, ![p].frames = Append(@, "output")]
  /\ UNCHANGED <<sdk, stdin, main, out, events, notifier, proc, vm, lost>>
GuestExits(p) ==
  /\ guest[p].is = "alive"
  /\ guest' = [guest EXCEPT ![p] = Died(@)]
  /\ UNCHANGED <<sdk, stdin, main, out, events, notifier, proc, vm, lost>>

\* What goes on by itself; what the client and the processes may do.
Steps ==
  \/ ReadsLines \/ Spawn \/ Kill \/ Input \/ Exec \/ Call \/ Checkpoint \/ Answers \/ Eof
  \/ StopsVm \/ Joins \/ Ends \/ TakesEvent \/ Notifies \/ NotifierEnds
  \/ \E p \in P : \/ Opens(p) \/ OpenFails(p) \/ ReadsFrame(p) \/ SendsEvent(p) \/ JoinsWriter(p)
                  \/ TakesStdin(p) \/ WritesStdin(p) \/ RepliesInput(p) \/ TakesKill(p)
                  \/ WriterEnds(p) \/ Grace(p) \/ GuestTakes(p)
MayDo == \/ Asks \/ Stops
           \/ \E p \in P : GuestWrites(p) \/ GuestExits(p)
Next == Steps \/ MayDo

Spec == Init /\ [][Next]_vars

-----------------------------------------------------------------------------
Quiet == ~ENABLED Steps

\* Every request is answered once: when nothing is under way no answer is
\* missing but those a blocked write to a process or a spawn that failed
\* keeps.
AnsweredOnce ==
  /\ ~sdk.twice
  /\ Quiet => \A id \in sdk.pending :
       \/ id \in lost
       \/ \E p \in P : proc[p].hold.id = id \/ \E i \in DOMAIN proc[p].queue : proc[p].queue[i].id = id

\* The backlog counts what is queued, so a client that waits for its answers
\* is never refused for long.
BacklogExact ==
  \A p \in P : proc[p].reader # "failed" =>
     proc[p].backlog = Cardinality({i \in DOMAIN proc[p].queue : proc[p].queue[i].k = "stdin"})

\* A process's exit is told once, after all its output.
ExitIsLast == \A p \in P : ~proc[p].late

\* At the end of stdin the server ends, whatever its processes do (stop closes
\* the connections, dropping the entries ends the input threads).
EofEnds == (Quiet /\ main.by = "eof") => main.at = "ended"

StdioSafe == AnsweredOnce /\ BacklogExact /\ ExitIsLast /\ EofEnds

\* The four that follow are violated.
\* After a checkpoint the server ends too.
CheckpointEnds == (Quiet /\ main.by = "checkpoint") => main.at = "ended"
\* The exit of a spawned process reaches its handle.
ExitHeard == (Quiet /\ out = <<>>) => \A p \in sdk.spawned : proc[p].told => p \in sdk.heard
\* A killed process is dead once all is quiet.
KilledDies == Quiet => \A p \in P : proc[p].killed => guest[p].is # "alive"
\* Nobody waits for ever on a write: no answer is lost with a failed spawn.
InputAnswered == lost = {}
=============================================================================
