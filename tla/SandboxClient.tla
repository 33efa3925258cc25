--------------------------- MODULE SandboxClient ---------------------------
(***************************************************************************)
(* The VM library (crates/shuru-vm/src/sandbox.rs): calls of threads of    *)
(* one Sandbox, each on a vsock connection of its own. A call connects,    *)
(* sends the mounts nobody has sent yet, sends its request and takes frames*)
(* until it has its answer; stop shuts the guest down and powers it off.   *)
(* What the guest answers is any frame at any time (external).             *)
(***************************************************************************)
EXTENDS Naturals, Sequences, FiniteSets

CONSTANTS Callers, Ops,    \* threads, and the calls each may make
          Mounts,          \* number of directory mounts
          MaxFrames,       \* bound on frames of an answer
          MaxBuffered,     \* chunks a buffered answer may have
          Attempts         \* connection attempts (1000 in the code)

VARIABLES
  vm,                      \* "running", "stopped" or "error"
  mounts,                  \* Sandbox::mounts: requests nobody took yet
  mounted,                 \* answers of the guest to each mount
  call,                    \* each caller: op, at, what it took and its result
  guest,                   \* each connection: frames sent, last of them, closed
  stopper                  \* the thread in stop

vars == <<vm, mounts, mounted, call, guest, stopper>>

Idle == [op |-> "none", at |-> "idle", tries |-> 0, mine |-> <<>>, out |-> 0, result |-> "none"]
Calm == [sent |-> 0, last |-> "none", data |-> 0]

\* VmConfigBuilder::build: one request for each mount, tagged in order.
build == [i \in 1 .. Mounts |-> i]

Goes(c, at) == [call[c] EXCEPT !.at = at]
Returns(c, r) == [call[c] EXCEPT !.at = "done", !.result = r]

-----------------------------------------------------------------------------
(* What each call makes of a frame f: "more" to read on, "data" for output *)
(* it keeps, or its result.                                                *)

exec_with_env(f, n) == CASE f = "data" -> "data" [] f = "final" -> "ok" [] f = "error" -> "code1"
                         [] f = "other" -> "more" [] f = "eof" -> "code0"
\* Capped::write: output past MAX_BUFFERED fails the call
exec_buffered(f, n) == IF f = "data" /\ n >= MaxBuffered THEN "fail" ELSE exec_with_env(f, n)
shell(f, n) == exec_with_env(f, n)
\* Mutant: the end of the connection ends the file.
read_file_to_eof(f, n) == IF f \in {"final", "eof"} THEN "ok"
                          ELSE IF f = "data" /\ n < MaxBuffered THEN "data" ELSE "fail"
read_file(f, n) == IF f = "final" THEN "ok"
                   ELSE IF f = "data" /\ n < MaxBuffered THEN "data" ELSE "fail"
write_file(f, n) == IF f = "final" THEN "ok" ELSE "fail"
void_fs_op(f, n) == IF f = "final" THEN "ok" ELSE "fail"
download(f, n) == CASE f = "data" -> "more" [] f = "final" -> "ok" [] OTHER -> "fail"
read_dir(f, n) == IF f = "final" THEN "ok" ELSE "fail"
stat(f, n) == IF f = "final" THEN "ok" ELSE "fail"
kill_exec(f, n) == IF f = "final" THEN "ok" ELSE "fail"
shutdown_handshake(f) == CASE f = "final" -> "ok" [] f \in {"data", "other"} -> "more" [] OTHER -> "fail"

Takes(op, f, n) ==
  CASE op = "exec" -> exec_with_env(f, n) [] op = "exec_buffered" -> exec_buffered(f, n)
    [] op = "shell" -> shell(f, n) [] op = "read_file" -> read_file(f, n)
    [] op = "write_file" -> write_file(f, n) [] op = "void_fs_op" -> void_fs_op(f, n)
    [] op = "download" -> download(f, n) [] op = "read_dir" -> read_dir(f, n)
    [] op = "stat" -> stat(f, n) [] op = "kill_exec" -> kill_exec(f, n)

-----------------------------------------------------------------------------
(* A call                                                                  *)

Begin(c, op) ==
  /\ call[c].at = "idle" /\ call' = [call EXCEPT ![c] = [Idle EXCEPT !.op = op, !.at = "connect"]]
  /\ UNCHANGED <<vm, mounts, mounted, guest, stopper>>

\* connect_to_vsock_port: tried until the guest answers the hello, the VM is
\* gone or the attempts are used up.
connect_vsock(c) ==
  /\ call[c].at = "connect"
  /\ call' = [call EXCEPT ![c] =
       IF vm # "running" THEN Returns(c, "fail")
       ELSE Goes(c, IF @.op = "kill_exec" THEN "request" ELSE "mounts")]
  /\ UNCHANGED <<vm, mounts, mounted, guest, stopper>>
connect_retries(c) ==
  /\ call[c].at = "connect" /\ vm = "running"
  /\ call' = [call EXCEPT ![c] = IF @.tries + 1 = Attempts THEN Returns(c, "fail")
                                 ELSE [@ EXCEPT !.tries = @ + 1]]
  /\ UNCHANGED <<vm, mounts, mounted, guest, stopper>>

\* send_mount_requests: the whole list is taken, then each is sent and its
\* answer awaited; the rest is lost with the first that fails.
send_mount_requests(c) ==
  /\ call[c].at = "mounts"
  /\ call' = [call EXCEPT ![c] = [@ EXCEPT !.mine = mounts, !.at = "mounting"]]
  /\ mounts' = <<>> /\ UNCHANGED <<vm, mounted, guest, stopper>>
mount_answered(c) ==
  /\ call[c].at = "mounting" /\ call[c].mine # <<>>
  /\ \/ /\ vm = "running" /\ mounted' = Append(mounted, Head(call[c].mine))
        /\ call' = [call EXCEPT ![c].mine = Tail(@)]
     \/ call' = [call EXCEPT ![c] = Returns(c, "fail")] /\ UNCHANGED mounted
  /\ UNCHANGED <<vm, mounts, guest, stopper>>
mounts_sent(c) ==
  /\ call[c].at = "mounting" /\ call[c].mine = <<>>
  /\ call' = [call EXCEPT ![c] = Goes(c, "request")]
  /\ UNCHANGED <<vm, mounts, mounted, guest, stopper>>

\* The request goes out; these hand the stream to their caller then.
Opens == {"open_exec", "open_shell", "open_watch"}
request(c) ==
  /\ call[c].at = "request"
  /\ call' = [call EXCEPT ![c] = IF @.op \in Opens THEN Returns(c, "stream") ELSE Goes(c, "answer")]
  /\ UNCHANGED <<vm, mounts, mounted, guest, stopper>>

\* A frame of the guest, or the end of the connection with the VM.
Answers(c, f) ==
  /\ call[c].at = "answer" /\ (f # "eof" => vm = "running" /\ guest[c].sent < MaxFrames)
  /\ guest' = [guest EXCEPT ![c] = [sent |-> @.sent + 1, last |-> f,
                                    data |-> IF f = "data" THEN @.data + 1 ELSE @.data]]
  /\ LET r == Takes(call[c].op, f, call[c].out) IN
       call' = [call EXCEPT ![c] = CASE r = "more" -> @
                                     [] r = "data" -> [@ EXCEPT !.out = @ + 1]
                                     [] OTHER -> Returns(c, r)]
  /\ UNCHANGED <<vm, mounts, mounted, stopper>>

-----------------------------------------------------------------------------
(* stop, shutdown and kill                                                 *)

\* Only a running guest is asked. shutdown waits on another thread, for a
\* bounded time.
stop ==
  /\ stopper = "idle" /\ stopper' = IF vm = "running" THEN "asked" ELSE "kill"
  /\ UNCHANGED <<vm, mounts, mounted, call, guest>>
shutdown(f) ==
  /\ stopper = "asked" /\ (f # "eof" => vm = "running")
  /\ stopper' = IF shutdown_handshake(f) = "more" THEN "asked"
                ELSE IF shutdown_handshake(f) = "ok" THEN "killSynced" ELSE "kill"
  /\ UNCHANGED <<vm, mounts, mounted, call, guest>>
shutdown_times_out ==
  /\ stopper = "asked" /\ stopper' = "kill"
  /\ UNCHANGED <<vm, mounts, mounted, call, guest>>
kill ==
  /\ stopper \in {"kill", "killSynced"} /\ stopper' = "done" /\ vm' = "stopped"
  /\ UNCHANGED <<mounts, mounted, call, guest>>

\* the guest powers off or dies by itself
VmEnds ==
  /\ vm = "running" /\ vm' \in {"stopped", "error"}
  /\ UNCHANGED <<mounts, mounted, call, guest, stopper>>

-----------------------------------------------------------------------------
Init ==
  /\ vm = "running" /\ mounts = build /\ mounted = <<>> /\ stopper = "idle"
  /\ call = [c \in Callers |-> Idle] /\ guest = [c \in Callers |-> Calm]

Next ==
  \/ stop \/ shutdown_times_out \/ kill \/ VmEnds
  \/ \E f \in {"data", "final", "error", "other", "eof"} :
        shutdown(f) \/ \E c \in Callers : Answers(c, f)
  \/ \E c \in Callers :
        \/ \E op \in Ops[c] : Begin(c, op)
        \/ connect_vsock(c) \/ connect_retries(c) \/ send_mount_requests(c)
        \/ mount_answered(c) \/ mounts_sent(c) \/ request(c)

Spec == Init /\ [][Next]_vars

-----------------------------------------------------------------------------
\* A call that returns what the guest has, rather than an error, was answered
\* by the guest: a connection cut short is never taken for a whole file, an
\* empty directory or a write that was done. An exec and a shell are left out:
\* they report a cut as exit code 0.
WholeAnswer ==
  \A c \in Callers : call[c].result = "ok" =>
    guest[c].last = "final" /\ (call[c].op \in {"exec", "read_file"} => call[c].out = guest[c].data)

\* Mounts are asked for in order and once, whichever calls come first, and no
\* call sends its request before the mounts it took were made
\* (send_mount_requests: "Drains the mount list so subsequent calls are
\* no-ops").
MountsOnce ==
  /\ \A i, j \in 1 .. Len(mounted) : i < j => mounted[i] < mounted[j]
  /\ \A c \in Callers : call[c].at \in {"request", "answer"} => call[c].mine = <<>>
  /\ \A c, d \in Callers : c # d => call[c].mine = <<>> \/ call[d].mine = <<>>

ClientSafe == WholeAnswer /\ MountsOnce

\* An exit code comes from the guest: exec_with_env "Returns the guest process
\* exit code".  Violated: a connection that ends before EXIT gives 0.
ExitCodeIsTold ==
  \A c \in Callers : call[c].op \in {"exec", "exec_buffered", "shell"} =>
    (call[c].result \in {"ok", "code0"} => guest[c].last = "final")
=============================================================================
