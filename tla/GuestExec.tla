----------------------------- MODULE GuestExec -----------------------------
(***************************************************************************)
(* One exec of a control connection of the guest agent, with pipes or on a *)
(* terminal (handle_piped_exec, kill_on_hangup, handle_tty_exec and        *)
(* pty_poll_loop of crates/shuru-guest/src/main.rs): the threads that move *)
(* output and input, the one that watches for the host to hang up, the     *)
(* wait for the exit, and the kills by id. A frame is the stream it is of. *)
(***************************************************************************)
EXTENDS Naturals, Sequences, FiniteSets

CONSTANTS MaxOut,          \* bound on what the process writes
          Kinds            \* kinds of exec: [tty, scope], scope "cgroup" or "group"

VARIABLES
  kind,
  alive,                   \* processes: "main", "fork" in the scope, "away" not
  exit,                    \* Exit of the child: "none", then "set" once reaped
  wrote, unread,           \* output of the process: all, and what is in its pipe
  stdin,                   \* room is left in its stdin
  host,                    \* the host's end is "open" or "closed"
  sent,                    \* frames written to the connection
  chan,                    \* the channel to the writer thread
  thread,                  \* where each thread is
  execs,                   \* the scope is in EXECS
  signalled                \* signals sent to the scope, or to the tty child

vars == <<kind, alive, exit, wrote, unread, stdin, host, sent, chan, thread, execs, signalled>>
process == <<alive, exit, wrote, unread, stdin>>

Streams == {"out", "err"}
Threads == {"out", "err", "writer", "input", "hangup", "main"}
Goes(t, at) == thread' = [thread EXCEPT ![t] = at]
Piped == ~kind.tty

\* Who a signal reaches: SIGKILL takes all of a cgroup at once, but only the
\* processes that stayed in a process group.
Members == IF kind.scope = "cgroup" THEN {"main", "fork", "away"} ELSE {"main", "fork"}
Signal(sig) ==
  /\ signalled' = signalled \cup {sig}
  /\ alive' = IF sig = "KILL" THEN alive \ Members ELSE alive

-----------------------------------------------------------------------------
(* handle_piped_exec                                                       *)

\* A reader thread moves what is in the pipe into the channel, and ends with
\* the pipe or with the writer.
Reader(st) ==
  /\ Piped /\ thread[st] = "run"
  /\ \/ /\ unread[st] > 0 /\ unread' = [unread EXCEPT ![st] = 0]
        /\ IF thread["writer"] = "done" THEN Goes(st, "done") /\ UNCHANGED chan
           ELSE chan' = chan \o [i \in 1 .. unread[st] |-> st] /\ UNCHANGED thread
     \/ /\ unread[st] = 0 /\ alive = {} /\ Goes(st, "done") /\ UNCHANGED <<chan, unread>>
  /\ UNCHANGED <<kind, alive, exit, wrote, stdin, host, sent, execs, signalled>>

Writer ==
  /\ Piped /\ thread["writer"] = "run"
  /\ \/ /\ chan # <<>> /\ host = "open"
        /\ sent' = Append(sent, Head(chan)) /\ chan' = Tail(chan) /\ UNCHANGED thread
     \/ /\ chan # <<>> /\ host = "closed" /\ Goes("writer", "done") /\ UNCHANGED <<sent, chan>>
     \/ /\ chan = <<>> /\ thread["main"] = "flush" /\ Goes("writer", "done")
        /\ UNCHANGED <<sent, chan>>
  /\ UNCHANGED <<kind, process, host, execs, signalled>>

\* The input thread: STDIN, which may wait for the process to read, KILL, or
\* the end of the connection.
Input(f) ==
  /\ Piped /\ thread["input"] = "run" /\ thread["main"] # "done"
  /\ \/ f = "STDIN" /\ host = "open" /\ stdin /\ stdin' \in BOOLEAN
        /\ UNCHANGED <<alive, signalled, thread>>
     \/ f = "KILL" /\ host = "open" /\ Signal("TERM") /\ Goes("input", "done") /\ UNCHANGED stdin
     \/ f = "EOF" /\ host = "closed" /\ stdin /\ Goes("input", "done")
        /\ UNCHANGED <<alive, signalled, stdin>>
  /\ UNCHANGED <<kind, exit, wrote, unread, host, sent, chan, execs>>

\* kill_on_hangup: the pipe of the main thread is looked at first.
\* Mutant: the watch ends when the process is reaped.
HangupDoneOnExit == exit = "set"
HangupDone == thread["main"] \in {"exit", "flush", "done"}
Hangup ==
  /\ Piped /\ thread["hangup"] = "run"
  /\ \/ HangupDone /\ Goes("hangup", "done") /\ UNCHANGED <<alive, signalled>>
     \/ ~HangupDone /\ host = "closed" /\ Signal("KILL") /\ Goes("hangup", "killed")
  /\ UNCHANGED <<kind, exit, wrote, unread, stdin, host, sent, chan, execs>>

\* The main thread: both readers and the exit are waited for, the exec is
\* taken out of EXECS, the watch is ended and joined, EXIT is sent.
Main ==
  /\ Piped
  /\ \/ /\ thread["main"] = "join" /\ thread["out"] = "done" /\ thread["err"] = "done"
        /\ exit = "set"
        /\ execs' = FALSE /\ Goes("main", "exit") /\ UNCHANGED chan
     \/ /\ thread["main"] = "exit" /\ thread["hangup"] # "run"
        /\ chan' = Append(chan, "EXIT") /\ Goes("main", "flush") /\ UNCHANGED execs
     \/ /\ thread["main"] = "flush" /\ thread["writer"] = "done"
        /\ Goes("main", "done") /\ UNCHANGED <<chan, execs>>
  /\ UNCHANGED <<kind, process, host, sent, signalled>>

\* KILL_REQ, on another connection
KillById ==
  /\ execs /\ Signal("KILL")
  /\ UNCHANGED <<kind, exit, wrote, unread, stdin, host, sent, chan, thread, execs>>

-----------------------------------------------------------------------------
(* pty_poll_loop: one round. Writes to a closed connection are lost.       *)

Write(frames) == sent' = IF host = "open" THEN sent \o frames ELSE sent
PtyRound ==
  /\ kind.tty /\ thread["main"] = "join"
  /\ \/ /\ host = "closed" /\ Goes("main", "wait")
        /\ signalled' = IF exit = "none" THEN signalled \cup {"HUP"} ELSE signalled
        /\ UNCHANGED <<sent, unread>>
     \/ /\ unread["out"] > 0 /\ Write(<<"out">>)
        /\ unread' = [unread EXCEPT !["out"] = @ - 1] /\ UNCHANGED <<thread, signalled>>
     \/ /\ alive = {} /\ Goes("main", "wait")
        /\ Write([i \in 1 .. unread["out"] |-> "out"])
        /\ unread' = [unread EXCEPT !["out"] = 0] /\ UNCHANGED signalled
  /\ UNCHANGED <<kind, alive, exit, wrote, stdin, host, chan, execs>>
PtyExit ==
  /\ kind.tty /\ thread["main"] = "wait" /\ exit = "set"
  /\ Write(<<"EXIT">>) /\ Goes("main", "done")
  /\ UNCHANGED <<kind, process, host, chan, execs, signalled>>

-----------------------------------------------------------------------------
(* The process and the host (external).                                    *)

Writes(st) ==
  /\ alive # {} /\ wrote["out"] + wrote["err"] < MaxOut /\ (kind.tty => st = "out")
  /\ wrote' = [wrote EXCEPT ![st] = @ + 1] /\ unread' = [unread EXCEPT ![st] = @ + 1]
  /\ UNCHANGED <<kind, alive, exit, stdin, host, sent, chan, thread, execs, signalled>>
Forks(p) ==
  /\ "main" \in alive /\ alive = {"main"} /\ alive' = alive \cup {p}
  /\ UNCHANGED <<kind, exit, wrote, unread, stdin, host, sent, chan, thread, execs, signalled>>
Dies(p) ==
  /\ p \in alive /\ alive' = alive \ {p}
  /\ UNCHANGED <<kind, exit, wrote, unread, stdin, host, sent, chan, thread, execs, signalled>>
Reaped ==
  /\ "main" \notin alive /\ exit = "none" /\ exit' = "set"
  /\ UNCHANGED <<kind, alive, wrote, unread, stdin, host, sent, chan, thread, execs, signalled>>
ReadsStdin ==
  /\ ~stdin /\ stdin' = TRUE
  /\ UNCHANGED <<kind, alive, exit, wrote, unread, host, sent, chan, thread, execs, signalled>>
HostCloses ==
  /\ host = "open" /\ host' = "closed"
  /\ UNCHANGED <<kind, process, sent, chan, thread, execs, signalled>>

-----------------------------------------------------------------------------
\* What the exec has started once the child runs: the threads of
\* handle_piped_exec and its entry in EXECS, nothing beside the poll loop in
\* handle_tty_exec. A spawn that fails is answered and ends before this.
handle_piped_exec ==
  /\ ~kind.tty /\ execs = TRUE
  /\ thread = [t \in Threads |-> IF t = "main" THEN "join" ELSE "run"]
handle_tty_exec ==
  /\ kind.tty /\ execs = FALSE
  /\ thread = [t \in Threads |-> IF t = "main" THEN "join" ELSE "none"]

Init ==
  /\ kind \in Kinds /\ alive = {"main"} /\ exit = "none"
  /\ wrote = [st \in Streams |-> 0] /\ unread = wrote /\ stdin = TRUE
  /\ host = "open" /\ sent = <<>> /\ chan = <<>> /\ signalled = {}
  /\ handle_piped_exec \/ handle_tty_exec

Steps == Writer \/ Hangup \/ Main \/ PtyRound \/ PtyExit \/ Reaped
         \/ \E st \in Streams : Reader(st)
Next ==
  \/ Steps \/ KillById \/ ReadsStdin \/ HostCloses
  \/ \E st \in Streams : Writes(st)
  \/ \E p \in {"fork", "away"} : Forks(p)
  \/ \E p \in {"main", "fork", "away"} : Dies(p)
  \/ \E f \in {"STDIN", "KILL", "EOF"} : Input(f)

Spec == Init /\ [][Next]_vars

-----------------------------------------------------------------------------
Count(s, x) == Cardinality({i \in 1 .. Len(s) : s[i] = x})

\* EXIT is the last frame, once, and behind every byte the exec wrote, those
\* of processes it left behind included (Main, PtyRound).
ExitFrameLast ==
  Count(sent, "EXIT") > 0 =>
    /\ sent[Len(sent)] = "EXIT" /\ Count(sent, "EXIT") = 1
    /\ \A st \in Streams : Count(sent, st) = wrote[st]

\* The watch for a hangup gives up only on an exec that is over, and a host
\* that hung up on one that is not has it killed: no exec in a cgroup runs on
\* for a host that is gone (kill_on_hangup).
HangupReaches ==
  Piped =>
    /\ thread["hangup"] = "done" => exit = "set" /\ thread["out"] = "done" /\ thread["err"] = "done"
    /\ thread["hangup"] = "killed" /\ kind.scope = "cgroup" => alive = {}

\* An exec that has ended can no longer be killed by its id, one that runs
\* can (EXECS).
ExecsTrue == Piped => (execs <=> thread["main"] = "join")

ExecSafe == ExitFrameLast /\ HangupReaches /\ ExecsTrue
=============================================================================
