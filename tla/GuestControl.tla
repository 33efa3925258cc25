---------------------------- MODULE GuestControl ----------------------------
(***************************************************************************)
(* The guest agent as PID 1 (crates/shuru-guest/src/main.rs, disk.rs,      *)
(* identity.rs): its boot, and the control connections it then serves, one *)
(* thread each: the hello of shuru-proto, then one request after another   *)
(* until an answer ends the loop or a handler takes the connection over.   *)
(* What the handlers of sessions, execs, files and services do is in the   *)
(* modules of those; here they take the connection, answer or wait. The    *)
(* overlay of a read only mount, and discard, are here.                    *)
(*                                                                         *)
(* An overlay has one directory, Dir, and the entries in and beside it; it *)
(* is the kernel that keeps it (external) and discard that edits its upper *)
(* layer by hand.                                                          *)
(***************************************************************************)
EXTENDS Naturals, Sequences, FiniteSets

CONSTANTS Conns,           \* control connections
          Scripts,         \* what the clients may ask for in a behaviour
          Inside, Beside,  \* entries in Dir and beside it
          MaxAsks,         \* bound on the requests of each connection
          MaxEdits         \* bound on what programs do to the overlay

VARIABLES
  script,                  \* the requests of this behaviour
  stage,                   \* how far the boot is
  identity,                \* CURRENT: 0 zeroed, 1 of the boot, 2 of a restore
  clock, seeded,           \* what restore has done of its work
  restored,                \* RESTORE_RESP was sent
  conn,                    \* each connection
  busy,                    \* BUSY: a seal holds the root
  root,                    \* LEASE, its lock and the root under it
  services,                \* "starting", "ready", "failed" or "down"
  lower, upper, edits,     \* the layers of the overlay
  mounted,                 \* "none", "overlay" or "direct"
  lost                     \* entries the last discard took away, and its path

bootVars == <<stage, identity, clock, seeded, restored>>
diskVars == <<busy, root, services>>
overlayVars == <<lower, upper, edits, mounted, lost>>
vars == <<script, bootVars, conn, diskVars, overlayVars>>

Dir == "dir"
Entries == {Dir} \cup Inside \cup Beside
Closed == [st |-> "none", copy |-> 0, token |-> 0, late |-> FALSE, asked |-> <<>>,
           op |-> "none", told |-> <<>>, gate |-> 0]
\* The lock of LEASE is free or held by a connection, at a step of its seal
\* or trim; lease is whose seal it is, over or not, and (for the properties)
\* whether the root was written since; seals are counted as they begin, and
\* broken says that a thaw vouched for a root that was written.
NoConn == "free"
NoLease == [id |-> "none", expired |-> FALSE, wrote |-> FALSE]
Unsealed == [lock |-> NoConn, step |-> "none", frozen |-> FALSE, lease |-> NoLease,
             seals |-> 0, broken |-> FALSE]

Init ==
  /\ script \in Scripts
  /\ stage = "initramfs" /\ identity = 0 /\ clock = FALSE /\ seeded = FALSE
  /\ restored = FALSE /\ conn = [c \in Conns |-> Closed]
  /\ busy = FALSE /\ root = Unsealed /\ services = "starting"
  /\ lower \in IF "mount" \in script THEN {Entries, Entries \ Inside, {}} ELSE {{}}
  /\ upper = [p \in Entries |-> "none"]
  /\ edits = 0 /\ mounted = "none" /\ lost = [path |-> "none", opaque |-> FALSE, of |-> {}]

-----------------------------------------------------------------------------
(* The boot *)

\* disk::boot mounts the root, grows it and moves it to /; where it or
\* check_root fails the VM is powered off.
boot == stage = "initramfs" /\ stage' \in {"root", "off"}
\* A mount the agent cannot do without fails: PID 1 panics.
mount_filesystems == stage = "root" /\ stage' \in {"mounted", "off"}
check_root == stage = "mounted" /\ stage' \in {"checked", "off"}
\* The identity is on the kernel command line, or the agent exits.
identity_parse ==
  /\ stage = "checked"
  /\ \/ stage' = "named" /\ identity' = 1
     \/ stage' = "off" /\ UNCHANGED identity
setup_networking == stage = "named" /\ stage' \in {"networked", "off"}
\* Both listeners are there before the first connection is accepted.
create_vsock_listener == stage = "networked" /\ stage' \in {"listening", "off"}
run ==
  /\ \/ (boot \/ mount_filesystems \/ check_root) /\ UNCHANGED identity
     \/ identity_parse
     \/ (setup_networking \/ create_vsock_listener) /\ UNCHANGED identity
  /\ UNCHANGED <<script, clock, seeded, restored, conn, diskVars, overlayVars>>

\* start_all and the watches of the services (module Services).
servicesSettle ==
  /\ stage = "listening" /\ services = "starting" /\ services' \in {"ready", "failed"}
  /\ UNCHANGED <<script, bootVars, conn, busy, root, overlayVars>>

-----------------------------------------------------------------------------
(* A connection: accept, hello, requests *)

Set(c, r) == conn' = [conn EXCEPT ![c] = r]
Rest == UNCHANGED <<script, bootVars, diskVars, overlayVars>>

\* The host connects with a token; accept4 gives the connection a thread.
accept(c, token) ==
  /\ stage = "listening" /\ conn[c].st = "none"
  /\ Set(c, [Closed EXCEPT !.st = "accepted", !.token = token, !.late = restored]) /\ Rest
\* identity::current copies the identity; accept then waits for the hello.
current(c) ==
  /\ conn[c].st = "accepted"
  /\ Set(c, [conn[c] EXCEPT !.st = "hello", !.copy = identity]) /\ Rest
\* Identity::accept, with 2 s for the peer: the token is the copy's, or the
\* connection is dropped without an answer.
Agrees(r) == r.token = r.copy
authenticate(c) ==
  /\ conn[c].st = "hello"
  /\ \/ Agrees(conn[c]) /\ Set(c, [conn[c] EXCEPT !.st = "open"])
     \/ Set(c, [conn[c] EXCEPT !.st = "closed"])
  /\ Rest

\* The client sends its next request, before or after an answer.
Asks(c, op) ==
  /\ conn[c].st = "open" /\ Len(conn[c].asked) < MaxAsks[c]
  /\ Set(c, [conn[c] EXCEPT !.asked = Append(@, op)]) /\ Rest
HangsUp(c) ==
  /\ conn[c].st \in {"open", "taken"} /\ conn[c].op = "none"
  /\ Set(c, [conn[c] EXCEPT !.st = "closed"]) /\ Rest

\* read_frame, and the seal's gate: while the root is sealed only a seal or
\* a thaw is served, anything else is refused and the connection ends.
Unread(r) == Len(r.asked) > Len(r.told)
Answered(r, what) == [r EXCEPT !.op = "none", !.told = Append(@, <<r.op, what>>)]
handle_connection(c) ==
  LET r == conn[c]  op == r.asked[Len(r.told) + 1]
  IN  /\ r.st = "open" /\ r.op = "none" /\ Unread(r)
      /\ IF busy /\ op \notin {"seal", "thaw"}
         THEN Set(c, [Answered([r EXCEPT !.op = op], "error") EXCEPT !.st = "closed"])
         ELSE Set(c, [r EXCEPT !.op = op, !.gate = root.seals])
      /\ Rest

Doing(c, op) == conn[c].st = "open" /\ conn[c].op = op
Answers(c, what) == Set(c, Answered(conn[c], what))
NoPayload == {"unknown", "ports", "list", "trim", "shutdown", "kill_exec"}
\* A request that does not parse is answered with an error, and so is one
\* whose argv is empty; the connection goes on.
invalid(c) ==
  /\ conn[c].st = "open" /\ conn[c].op \notin {"none"} \cup NoPayload
  /\ IF conn[c].op = "attach" THEN Set(c, [Answered(conn[c], "error") EXCEPT !.st = "closed"])
                              ELSE Answers(c, "error")
  /\ root.lock # c /\ Rest
\* A frame of another type is skipped, and not answered.
unknown(c) == Doing(c, "unknown") /\ Answers(c, "silence") /\ Rest
\* The file handlers, session list and kill, and KILL_REQ answer.
answers(c) ==
  conn[c].op \in {"file", "kill", "kill_exec", "list"} /\ Doing(c, conn[c].op) /\ Answers(c, "ok") /\ Rest
\* A watch, an attach and the ports take the connection over.
takes(c) ==
  /\ conn[c].op \in {"watch", "attach", "ports"} /\ Doing(c, conn[c].op)
  /\ Set(c, [Answered(conn[c], "ok") EXCEPT !.st = "taken"]) /\ Rest
\* An exec and a session wait for the services, outside any lock.
wait_ready(c) ==
  /\ conn[c].op \in {"exec", "session"} /\ Doing(c, conn[c].op)
  /\ \/ services \in {"failed", "down"} /\ Answers(c, "error")
     \/ services = "ready" /\ Set(c, [Answered(conn[c], "ok") EXCEPT !.st = "taken"])
  /\ Rest
\* The recipe's exec before the services does not.
before_services(c) ==
  /\ Doing(c, "early_exec") /\ Set(c, [Answered(conn[c], "ok") EXCEPT !.st = "taken"]) /\ Rest

\* SEAL_REQ: under the lock, BUSY is set, the services may be stopped, the
\* root is synced, trimmed and frozen, and looked at again; where a step fails
\* BUSY is taken back, and a root that cannot be thawed again ends the VM.
\* Mutant: a seal that is refused takes BUSY back too.
sealFrees(c) ==
  /\ Doing(c, "seal") /\ root.lock = NoConn
  /\ \/ busy /\ busy' = FALSE /\ Answers(c, "error") /\ UNCHANGED <<root, services>>
     \/ /\ ~busy /\ busy' = TRUE /\ services' \in {services, "down"}
        /\ root' = [root EXCEPT !.lock = c, !.step = "sync", !.seals = @ + 1]
        /\ UNCHANGED conn
  /\ UNCHANGED <<script, bootVars, overlayVars>>
seal(c) ==
  /\ Doing(c, "seal") /\ root.lock = NoConn
  /\ \/ busy /\ Answers(c, "error") /\ UNCHANGED <<busy, root, services>>
     \/ /\ ~busy /\ busy' = TRUE /\ services' \in {services, "down"}
        /\ root' = [root EXCEPT !.lock = c, !.step = "sync", !.seals = @ + 1]
        /\ UNCHANGED conn
  /\ UNCHANGED <<script, bootVars, overlayVars>>
freeze(c) ==
  /\ root.lock = c /\ root.step = "sync"
  /\ \/ root' = [root EXCEPT !.step = "verify", !.frozen = TRUE] /\ UNCHANGED <<conn, busy>>
     \/ /\ root' = [root EXCEPT !.lock = NoConn, !.step = "none"]
        /\ busy' = FALSE /\ Answers(c, "error")
  /\ UNCHANGED <<script, bootVars, services, overlayVars>>
verify(c) ==
  /\ root.lock = c /\ root.step = "verify"
  /\ \/ /\ root' = [root EXCEPT !.lock = NoConn, !.step = "none",
                                !.lease = [NoLease EXCEPT !.id = c]]
        /\ Answers(c, "ok") /\ UNCHANGED <<stage, busy>>
     \/ /\ root' = [root EXCEPT !.lock = NoConn, !.step = "none", !.frozen = FALSE]
        /\ busy' = FALSE /\ Answers(c, "error") /\ UNCHANGED stage
     \/ /\ stage' = "off" /\ conn' = [d \in Conns |-> [conn[d] EXCEPT !.st = "closed"]]
        /\ UNCHANGED <<busy, root>>
  /\ UNCHANGED <<script, identity, clock, seeded, restored, services, overlayVars>>

\* THAW_REQ, for the seal that was asked for on a connection: refused where
\* it is not the one at hand or the ioctl fails; past the deadline, or once
\* the watchdog has thawed, the answer says so.
thaw(c, id) ==
  /\ Doing(c, "thaw") /\ root.lock = NoConn
  /\ \/ /\ id # root.lease.id \/ ~root.lease.expired
        /\ Answers(c, "error") /\ UNCHANGED <<busy, root>>
     \/ \E late \in BOOLEAN :
          /\ id = root.lease.id
          /\ Answers(c, IF root.lease.expired \/ late THEN "expired" ELSE "ok")
          /\ busy' = FALSE
          /\ root' = [root EXCEPT !.lease = NoLease, !.frozen = @ /\ root.lease.expired,
                                  !.broken = @ \/ (~root.lease.expired /\ root.lease.wrote)]
  /\ UNCHANGED <<script, bootVars, services, overlayVars>>

\* The watchdog thaws what has passed its deadline, unless the lock is held.
start_watchdog ==
  /\ stage = "listening" /\ root.lock = NoConn
  /\ root.lease # NoLease /\ ~root.lease.expired
  /\ root' = [root EXCEPT !.lease.expired = TRUE, !.frozen = FALSE] /\ busy' = FALSE
  /\ UNCHANGED <<script, bootVars, conn, services, overlayVars>>

\* A program writes to the root (external), which a frozen one has it wait with.
RootWritten ==
  /\ stage = "listening" /\ ~root.frozen /\ root.lease # NoLease /\ ~root.lease.wrote
  /\ root' = [root EXCEPT !.lease.wrote = TRUE]
  /\ UNCHANGED <<script, bootVars, conn, busy, services, overlayVars>>

\* TRIM_REQ takes the lock of the lease and looks at BUSY again under it.
trim(c) ==
  /\ Doing(c, "trim") /\ root.lock = NoConn
  /\ IF busy THEN Answers(c, "error") /\ UNCHANGED root
     ELSE root' = [root EXCEPT !.lock = c, !.step = "trim"] /\ UNCHANGED conn
  /\ UNCHANGED <<script, bootVars, busy, services, overlayVars>>
trim_root(c) ==
  /\ root.lock = c /\ root.step = "trim" /\ \E what \in {"ok", "error"} : Answers(c, what)
  /\ root' = [root EXCEPT !.lock = NoConn, !.step = "none"]
  /\ UNCHANGED <<script, bootVars, busy, services, overlayVars>>
\* shutdown stops the services, then the root is synced.
shutdown(c) ==
  /\ Doing(c, "shutdown") /\ services' = "down" /\ \E what \in {"ok", "error"} : Answers(c, what)
  /\ UNCHANGED <<script, bootVars, busy, root, overlayVars>>
service_env(c) ==
  /\ Doing(c, "service_env")
  /\ IF services = "starting" THEN services' = "ready" /\ Answers(c, "ok")
                              ELSE UNCHANGED services /\ Answers(c, "error")
  /\ UNCHANGED <<script, bootVars, busy, root, overlayVars>>

\* restore sets the clock, seeds the generator and takes the new identity
\* last: one that fails on the way leaves the old one.
\* The same without the check of the seeding, as a mutant.
IdentifiedEarly(done) == IF "clock" \in done THEN 2 ELSE identity
Identified(done) == IF done = {"clock", "seed"} THEN 2 ELSE identity
restore(c) ==
  /\ Doing(c, "restore")
  /\ \E done \in {{}, {"clock"}, {"clock", "seed"}} :
       /\ clock' = (clock \/ "clock" \in done) /\ seeded' = (seeded \/ "seed" \in done)
       /\ identity' = Identified(done)
       /\ restored' = (restored \/ done = {"clock", "seed"})
       /\ Answers(c, IF done = {"clock", "seed"} THEN "ok" ELSE "error")
  /\ UNCHANGED <<script, stage, diskVars, overlayVars>>

-----------------------------------------------------------------------------
(* Mounts and the overlay *)

\* Whether p is under a directory that is not merged with the lower one.
Parent(p) == IF p \in Inside THEN Dir ELSE "root"
Shut(u, p) == Parent(p) = Dir /\ u[Dir] \in {"opaque", "whiteout"}
\* What a program sees at p: an entry of the upper layer, else the lower's.
Sees(u, p) ==
  IF u[p] \in {"file", "dir", "opaque"} THEN "upper"
  ELSE IF u[p] = "whiteout" \/ Shut(u, p) \/ p \notin lower THEN "none" ELSE "lower"

\* process_mount: read only is an overlay on tmpfs, else the share itself.
\* A step that fails is the answer.
mount_overlay == mounted = "none" /\ mounted' \in {"overlay", "none"}
mount_direct == mounted = "none" /\ mounted' \in {"direct", "none"}
process_mount(c) ==
  /\ Doing(c, "mount") /\ (mount_overlay \/ mount_direct)
  /\ Answers(c, IF mounted' = "none" THEN "error" ELSE "ok")
  /\ UNCHANGED <<script, bootVars, diskVars, lower, upper, edits, lost>>

\* What programs do in the mount, as the kernel keeps it (external): a change
\* copies the parent up, a removal of a lower entry leaves a whiteout, and a
\* directory made again where one was removed is opaque.
UpParent(u, p) == IF Parent(p) = Dir /\ u[Dir] = "none" THEN [u EXCEPT ![Dir] = "dir"] ELSE u
Removed(u, p) ==
  LET up == UpParent(u, p)
      gone == [q \in Entries |-> IF p = Dir /\ q \in Inside THEN "none" ELSE up[q]]
  IN  [gone EXCEPT ![p] = IF p \in lower /\ ~Shut(u, p) THEN "whiteout" ELSE "none"]
Edit(u) == /\ mounted = "overlay" /\ edits < MaxEdits /\ edits' = edits + 1 /\ upper' = u
           /\ UNCHANGED <<script, bootVars, conn, diskVars, lower, mounted, lost>>
Writes(p) == /\ p # Dir /\ (p \in Inside => Sees(upper, Dir) # "none")
             /\ Edit([UpParent(upper, p) EXCEPT ![p] = "file"])
Removes(p) == Sees(upper, p) # "none" /\ Edit(Removed(upper, p))
Makes == /\ Sees(upper, Dir) = "none"
         /\ Edit([upper EXCEPT ![Dir] = IF upper[Dir] = "whiteout" THEN "opaque" ELSE "dir"])

\* The nearest directory over p in the upper layer that is opaque.
find_opaque_ancestor(p) == {d \in {Dir} : Parent(p) = d /\ upper[d] = "opaque"}
\* remove_dir_all takes what is in a directory too.
Without(u, d) == [q \in Entries |-> IF q = d \/ (d = Dir /\ q \in Inside) THEN "none" ELSE u[q]]
\* handle_discard: the entry of the upper layer is removed, a whiteout too;
\* where there is none, the opaque directory over it.
Targets(p) == IF upper[p] # "none" THEN {p} ELSE find_opaque_ancestor(p)
handle_discard(c, p) ==
  /\ Doing(c, "discard")
  /\ IF mounted # "overlay" \/ Targets(p) = {}
     THEN Answers(c, "error") /\ UNCHANGED <<upper, lost>>
     ELSE \E d \in Targets(p) :
            /\ upper' = Without(upper, d) /\ Answers(c, "ok")
            /\ lost' = [path |-> p, opaque |-> d # p, of |-> {q \in Entries : Sees(upper', q) # Sees(upper, q)}]
  /\ UNCHANGED <<script, bootVars, diskVars, lower, edits, mounted>>

-----------------------------------------------------------------------------
Serve(c) ==
  \/ current(c) \/ authenticate(c) \/ handle_connection(c) \/ invalid(c) \/ unknown(c)
  \/ answers(c) \/ takes(c) \/ wait_ready(c) \/ before_services(c) \/ seal(c) \/ freeze(c)
  \/ verify(c) \/ (\E id \in Conns : thaw(c, id)) \/ trim(c) \/ trim_root(c) \/ shutdown(c) \/ service_env(c) \/ restore(c) \/ process_mount(c)
  \/ \E p \in Entries : handle_discard(c, p)
Programs == Makes \/ \E p \in Entries : Writes(p) \/ Removes(p)
Next ==
  \/ run \/ servicesSettle \/ start_watchdog \/ RootWritten \/ Programs
  \/ \E c \in Conns : \/ \E token \in {1, 2} : accept(c, token)
                      \/ \E op \in script : Asks(c, op)
                      \/ HangsUp(c) \/ Serve(c)

Spec == Init /\ [][Next]_vars

-----------------------------------------------------------------------------
\* Every state below is one of a boot, of connections and of an overlay.
TypeOK ==
  /\ stage \in {"initramfs", "root", "mounted", "checked", "named", "networked", "listening", "off"}
  /\ identity \in 0..2 /\ {clock, seeded, restored, busy} \subseteq BOOLEAN
  /\ root.lock \in Conns \cup {NoConn} /\ root.step \in {"none", "sync", "verify", "trim"}
  /\ services \in {"starting", "ready", "failed", "down"}
  /\ \A c \in Conns : conn[c].st \in {"none", "accepted", "hello", "open", "taken", "closed"}
  /\ upper \in [Entries -> {"none", "file", "whiteout", "dir", "opaque"}]
  /\ mounted \in {"none", "overlay", "direct"}

\* A connection accepted after a restore was answered is never served with
\* the identity of the snapshot, which every copy of it knows, and none is
\* ever served with the zeroed identity CURRENT starts with.
RestoredShutsOut ==
  \A c \in Conns : conn[c].st \in {"open", "taken"} =>
                     conn[c].copy > 0 /\ (conn[c].late => conn[c].copy = 2)

\* The new identity is taken only by a guest that has the host's clock and
\* fresh seed material: restores of one snapshot never share both.
RestoreIsWhole == (identity = 2 \/ restored) => clock /\ seeded /\ identity = 2

\* Requests are answered one by one and in order, whatever an answer says:
\* a client that sends ahead can tell which request an answer is for.
AnswersInOrder ==
  \A c \in Conns : \A i \in 1..Len(conn[c].told) : conn[c].told[i][1] = conn[c].asked[i]

\* A trim never runs on a frozen root, whether it passed the gate before the
\* seal or between two seals (trim, seal, the lock of LEASE).
TrimSparesSeal == root.step = "trim" => ~root.frozen

\* A request that is served while the root is frozen was read before that
\* seal began: the gate is shut from before the freeze until after the thaw,
\* whatever other seals, thaws and the watchdog do (BUSY).
GateHolds ==
  \A c \in Conns : /\ root.frozen
                   /\ conn[c].st = "open" /\ conn[c].op \notin {"none", "seal", "thaw"}
                   => conn[c].gate < root.seals

\* A thaw answers that the seal held only where nothing was written from the
\* freeze on: the save that asked for it is kept on the strength of that
\* answer (thaw, start_watchdog, Lease::expired).
SealVouched == ~root.broken

\* What a discard changes for programs is the entry it names and what is in
\* it; or, where an opaque directory over it has to go, what that hid and
\* held; never an entry beside.
DiscardScope ==
  lost.path # "none" =>
    \A q \in lost.of : \/ q = lost.path
                       \/ lost.path = Dir /\ q \in Inside
                       \/ lost.opaque /\ q \in Inside \cup {Dir}

\* Not so, and refuted by TLC: a discard of one entry leaves what programs
\* wrote to others. The comment of handle_discard has it remove the opaque
\* mark of the directory over the entry; it removes the directory.
DiscardSparesWrites == lost.path # "none" => lost.of \subseteq {lost.path} \cup {q \in Inside : lost.path = Dir}

GuestControlSafe ==
  RestoredShutsOut /\ RestoreIsWhole /\ AnswersInOrder /\ DiscardScope
  /\ TrimSparesSeal /\ GateHolds /\ SealVouched

=============================================================================
