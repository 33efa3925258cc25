------------------------------ MODULE DiskSave ------------------------------
(***************************************************************************)
(* Saving the disk of a running sandbox as a checkpoint: the guest seals   *)
(* its root under a lease (crates/shuru-guest/src/disk.rs), the host       *)
(* copies the disk into a staging directory, asks for the thaw and only    *)
(* then renames the copy into place (Sandbox::save_disk and publish of     *)
(* crates/shuru-vm). Each saver is a process with a sandbox of its own;    *)
(* all save to one destination. A copy reads the disk in two steps; what   *)
(* a read sees is the seal it ran under, 0 for none.                       *)
(***************************************************************************)
EXTENDS Naturals, Sequences

CONSTANTS Savers, MaxSaves    \* bound on the saves a process begins

VARIABLES
  saver,     \* the host process of each sandbox, see Idle
  guest,     \* its guest, see Running
  stage,     \* the name dest.partial: the inode and its entry "disk"
  files,     \* what has been copied into each image file
  dest,      \* what the destination holds
  inodes     \* directories made so far

vars == <<saver, guest, stage, files, dest, inodes>>

Idle == [at |-> "idle", after |-> "Thaw", held |-> 0, lock |-> 0, ok |-> TRUE, left |-> MaxSaves]
\* id is the seal in force or last in force; due says its deadline passed.
Running == [on |-> TRUE, busy |-> FALSE, frozen |-> FALSE, lease |-> "none", due |-> FALSE,
            id |-> 0, req |-> "none", answer |-> "none"]
Off == [Running EXCEPT !.on = FALSE]

To(s, at) == [saver EXCEPT ![s].at = at]
Ask(s, r) == [guest EXCEPT ![s].req = IF guest[s].on THEN r ELSE "none",
                           ![s].answer = IF guest[s].on THEN "none" ELSE "error"]

-----------------------------------------------------------------------------
(* The guest: one handler at a time holds LEASE.                           *)

\* seal, up to FIFREEZE: BUSY is set and the services are stopped.
SealBegin(s) ==
  /\ guest[s].req = "seal"
  /\ guest' = IF guest[s].busy
              THEN [guest EXCEPT ![s].req = "none", ![s].answer = "error"]
              ELSE [guest EXCEPT ![s].req = "freeze", ![s].busy = TRUE]
  /\ UNCHANGED <<saver, stage, files, dest, inodes>>

\* seal, from FIFREEZE on. A root that does not verify is thawed, or the
\* machine powers off.
SealEnd(s) ==
  /\ guest[s].req = "freeze"
  /\ \/ guest' = [guest EXCEPT ![s].req = "none", ![s].answer = "Sealed",
                               ![s].frozen = TRUE, ![s].lease = "held",
                               ![s].due = FALSE, ![s].id = @ + 1]
     \/ guest' = [guest EXCEPT ![s].req = "none", ![s].answer = "error", ![s].busy = FALSE]
     \/ guest' = [guest EXCEPT ![s] = [Off EXCEPT !.answer = "error"]]
  /\ UNCHANGED <<saver, stage, files, dest, inodes>>

\* Whether the lease held through the copy.
\* Mutant: a seal that the watchdog ended thaws like any other.
ExpiredUnseen(g) == FALSE
Expired(g) == g.lease = "expired" \/ g.due

\* thaw of the seal with the id of the request. FITHAW may fail.
Thaw(s) ==
  /\ guest[s].req = "thaw"
  /\ LET l == guest[s].lease IN
     \/ /\ l = "none"
        /\ guest' = [guest EXCEPT ![s].req = "none", ![s].answer = "error"]
     \/ /\ l # "none"
        /\ guest' = [guest EXCEPT
              ![s].req = "none", ![s].lease = "none",
              ![s].busy = FALSE, ![s].frozen = FALSE,
              ![s].answer = IF Expired(guest[s]) THEN "Expired" ELSE "Thawed"]
     \/ /\ l = "held"
        /\ guest' = [guest EXCEPT ![s].req = "none", ![s].answer = "error"]
  /\ UNCHANGED <<saver, stage, files, dest, inodes>>

\* start_watchdog: one round with the lock free, FITHAW having worked.
Watchdog(s) ==
  /\ guest[s].lease = "held" /\ guest[s].due /\ guest[s].req # "freeze"
  /\ guest' = [guest EXCEPT ![s].lease = "expired", ![s].frozen = FALSE, ![s].busy = FALSE]
  /\ UNCHANGED <<saver, stage, files, dest, inodes>>

\* The deadline of the lease passes.
Deadline(s) ==
  /\ guest[s].lease = "held" /\ ~guest[s].due
  /\ guest' = [guest EXCEPT ![s].due = TRUE]
  /\ UNCHANGED <<saver, stage, files, dest, inodes>>

-----------------------------------------------------------------------------
(* The host: save_disk.                                                    *)

Begin(s, after) ==
  /\ saver[s].at = "idle" /\ saver[s].left > 0 /\ guest[s].req # "freeze"
  /\ saver' = [saver EXCEPT ![s] = [Idle EXCEPT !.at = "sealing", !.after = after,
                                                !.left = saver[s].left - 1]]
  /\ guest' = Ask(s, "seal")
  /\ UNCHANGED <<stage, files, dest, inodes>>

\* kill, and the end of the call
Ended(s, g) == IF saver[s].after = "PowerOff" THEN [g EXCEPT ![s] = Off] ELSE g

\* disk_request gives up after SHUTDOWN_TIMEOUT; the guest may answer nobody.
Sealing(s) ==
  /\ saver[s].at = "sealing"
  /\ \/ /\ guest[s].answer = "Sealed"
        /\ saver' = To(s, "mkdir") /\ UNCHANGED guest
     \/ /\ guest[s].answer # "Sealed"
        /\ saver' = To(s, "idle") /\ guest' = Ended(s, guest)
  /\ UNCHANGED <<stage, files, dest, inodes>>

\* finish: the thaw, and the kill after it. A failed save asks to thaw once
\* more, with no answer wanted.
AskThaw(s) ==
  /\ saver[s].at \in {"thaw", "rethaw"}
  /\ saver' = To(s, IF saver[s].at = "thaw" THEN "thawing" ELSE "rethawing")
  /\ guest' = Ask(s, "thaw")
  /\ UNCHANGED <<stage, files, dest, inodes>>

Thawing(s) ==
  /\ saver[s].at = "thawing"
  /\ \/ /\ guest[s].answer = "Thawed"
        /\ saver' = To(s, "rename") /\ guest' = Ended(s, guest)
     \/ /\ guest[s].answer # "Thawed"
        /\ saver' = [saver EXCEPT ![s].at = "drop", ![s].ok = FALSE]
        /\ UNCHANGED guest
  /\ UNCHANGED <<stage, files, dest, inodes>>

Rethawing(s) ==
  /\ saver[s].at = "rethawing"
  /\ saver' = To(s, "idle") /\ guest' = Ended(s, guest)
  /\ UNCHANGED <<stage, files, dest, inodes>>

-----------------------------------------------------------------------------
(* publish                                                                 *)

\* An error before the guard is made leaves the staging directory alone.
Fail(s) == saver' = [saver EXCEPT ![s].at = "unlock", ![s].ok = FALSE]
FailAndDrop(s) == saver' = [saver EXCEPT ![s].at = "drop", ![s].ok = FALSE]

Mkdir(s) ==
  /\ saver[s].at = "mkdir" /\ saver' = To(s, "open")
  /\ IF stage.dir = 0
     THEN inodes' = inodes + 1 /\ stage' = [dir |-> inodes + 1, disk |-> 0]
     ELSE UNCHANGED <<inodes, stage>>
  /\ UNCHANGED <<guest, files, dest>>

Open(s) ==
  /\ saver[s].at = "open"
  /\ IF stage.dir = 0 THEN Fail(s)
     ELSE saver' = [saver EXCEPT ![s].at = "lock", ![s].held = stage.dir]
  /\ UNCHANGED <<guest, stage, files, dest, inodes>>

Lock(s) ==
  /\ saver[s].at = "lock"
  /\ IF \E t \in Savers : saver[t].lock = saver[s].held THEN Fail(s)
     ELSE saver' = [saver EXCEPT ![s].at = "clear", ![s].lock = saver[s].held]
  /\ UNCHANGED <<guest, stage, files, dest, inodes>>

Clear(s) ==
  /\ saver[s].at = "clear" /\ saver' = To(s, "create")
  /\ stage' = [stage EXCEPT !.disk = 0]
  /\ UNCHANGED <<guest, files, dest, inodes>>

\* copy: save_to makes the file, which must not exist, and fills it.
Create(s) ==
  /\ saver[s].at = "create"
  /\ IF stage.dir = 0 \/ stage.disk # 0
     THEN FailAndDrop(s) /\ UNCHANGED <<stage, files>>
     ELSE /\ files' = Append(files, <<>>)
          /\ stage' = [stage EXCEPT !.disk = Len(files) + 1]
          /\ saver' = [saver EXCEPT ![s].at = "copy", ![s].held = Len(files) + 1]
  /\ UNCHANGED <<guest, dest, inodes>>

Copy(s) ==
  /\ saver[s].at = "copy"
  /\ LET f == saver[s].held
         seal == IF guest[s].frozen THEN guest[s].id ELSE 0
     IN /\ files' = [files EXCEPT ![f] = Append(@, <<s, seal>>)]
        /\ saver' = IF Len(files[f]) = 1 THEN To(s, "sync") ELSE saver
  /\ UNCHANGED <<guest, stage, dest, inodes>>

CopyFails(s) ==
  /\ saver[s].at = "copy" /\ FailAndDrop(s)
  /\ UNCHANGED <<guest, stage, files, dest, inodes>>

Sync(s) ==
  /\ saver[s].at = "sync"
  /\ IF stage.disk = 0 THEN FailAndDrop(s) ELSE saver' = To(s, "thaw")
  /\ UNCHANGED <<guest, stage, files, dest, inodes>>

Rename(s) ==
  /\ saver[s].at = "rename"
  /\ IF stage.disk = 0 THEN FailAndDrop(s) /\ UNCHANGED <<dest, stage>>
     ELSE /\ dest' = files[stage.disk] /\ stage' = [stage EXCEPT !.disk = 0]
          /\ saver' = To(s, "drop")
  /\ UNCHANGED <<guest, files, inodes>>

\* The guard goes before the lock: Partial::drop
DropGuard(s) ==
  /\ saver[s].at = "drop" /\ saver' = To(s, "unlock")
  /\ stage' = [dir |-> 0, disk |-> 0]
  /\ UNCHANGED <<guest, files, dest, inodes>>

Unlock(s) ==
  /\ saver[s].at = "unlock"
  /\ saver' = [saver EXCEPT ![s].lock = 0, ![s].at = IF saver[s].ok THEN "idle" ELSE "rethaw"]
  /\ UNCHANGED <<guest, stage, files, dest, inodes>>

\* The process dies, and its sandbox and its lock with it.
Crash(s) ==
  /\ saver[s].at # "idle"
  /\ saver' = [saver EXCEPT ![s] = [Idle EXCEPT !.left = 0]]
  /\ guest' = [guest EXCEPT ![s] = Off]
  /\ UNCHANGED <<stage, files, dest, inodes>>

-----------------------------------------------------------------------------
Init ==
  /\ saver = [s \in Savers |-> Idle] /\ guest = [s \in Savers |-> Running]
  /\ stage = [dir |-> 0, disk |-> 0] /\ files = <<>> /\ dest = <<>> /\ inodes = 0

Guest(s) == SealBegin(s) \/ SealEnd(s) \/ Thaw(s) \/ Watchdog(s) \/ Deadline(s)
Publish(s) ==
  \/ Mkdir(s) \/ Open(s) \/ Lock(s) \/ Clear(s) \/ Create(s) \/ Copy(s)
  \/ CopyFails(s) \/ Sync(s) \/ Rename(s) \/ DropGuard(s) \/ Unlock(s)
Next ==
  \E s \in Savers :
    \/ Guest(s) \/ Publish(s) \/ Sealing(s) \/ AskThaw(s) \/ Thawing(s)
    \/ Rethawing(s) \/ Crash(s)
    \/ \E after \in {"Thaw", "PowerOff"} : Begin(s, after)

Spec == Init /\ [][Next]_vars

-----------------------------------------------------------------------------
\* The checkpoint is one whole disk, read from end to end under one seal: a
\* lease that ran out during the copy, another save or a crash never leaves
\* anything else in its place (save_disk, publish, thaw).  It holds of two
\* saves; three that meet publish a torn one, see OneSaver.
PublishedWhole ==
  dest # <<>> => Len(dest) = 2 /\ dest[1] = dest[2] /\ dest[1][2] # 0

\* A root is frozen only while a lease stands that the watchdog will end, and
\* the agent refuses requests only then or while it is sealing: a host that
\* gave up never leaves the guest shut (seal, start_watchdog, busy).
SealEnds ==
  \A s \in Savers :
    /\ guest[s].frozen => guest[s].lease = "held"
    /\ guest[s].busy => guest[s].lease = "held" \/ guest[s].req = "freeze"

SaveSafe == PublishedWhole /\ SealEnds

\* Two saves never work in the staging directory at once (publish).  Violated
\* by three saves: the lock is on the directory that was opened, which a save
\* that ends removes (Partial), while a third has made and locked a new one.
OneSaver ==
  \A s, t \in Savers :
    {saver[s].at, saver[t].at} \subseteq {"create", "copy", "sync", "thaw", "thawing", "rename"}
      => s = t
=============================================================================
