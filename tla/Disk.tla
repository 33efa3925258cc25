-------------------------------- MODULE Disk --------------------------------
(***************************************************************************)
(* What a guest and a checkpoint are promised of a disk, whatever keeps    *)
(* its bytes: a read answers with the bytes last written, a write lands    *)
(* whole unless it fails, a checkpoint is the disk at one moment, and the  *)
(* next start is from the last checkpoint.  ContentStore implements it.    *)
(***************************************************************************)
EXTENDS Integers, Sequences

CONSTANTS
    Images          \* the images a disk without a checkpoint may start from

VARIABLES
    disk,           \* address -> byte
    req,            \* the command under way: [kind, at, len, data]
    reply,          \* what the last command was answered
    saved           \* the checkpoint, or <<>>

vars == <<disk, req, reply, saved>>

Idle == [kind |-> "none", at |-> 0, len |-> 0, data |-> <<>>]
Done(data) == [status |-> "ok", data |-> data]
Slice(at, len) == [i \in 1..len |-> disk[at + i]]

Init == disk \in Images /\ req = Idle /\ reply = Done(<<>>) /\ saved = <<>>

\* The guest begins a command.
Ask == req = Idle /\ req' # Idle /\ UNCHANGED <<reply, disk, saved>>

\* A part of a write lands.
Land ==
    /\ req.kind = "write"
    /\ \E n \in 1..Len(req.data) :
          /\ disk' = [a \in DOMAIN disk |-> IF a - req.at \in 1..n THEN req.data[a - req.at] ELSE disk[a]]
          /\ req' = [kind |-> "write", at |-> req.at + n, len |-> req.len,
                     data |-> SubSeq(req.data, n + 1, Len(req.data))]
    /\ UNCHANGED <<reply, saved>>

\* The answer: a read's bytes, or that the whole write landed.
Answer ==
    /\ \/ req.kind = "read" /\ reply' = Done(Slice(req.at, req.len))
       \/ req.kind = "write" /\ req.data = <<>> /\ reply' = Done(<<>>)
       \/ req.kind = "flush" /\ reply' = Done(<<>>)
    /\ req' = Idle /\ UNCHANGED <<disk, saved>>

Fail == req.kind # "none" /\ req' = Idle /\ reply' = [status |-> "error", data |-> <<>>] /\ UNCHANGED <<disk, saved>>

\* The client went away or the server was stopped.
Disconnect == req' = Idle /\ UNCHANGED <<disk, reply, saved>>

Save == saved' # saved /\ saved' = disk /\ UNCHANGED <<disk, req, reply>>

Restart ==
    /\ req' = Idle
    /\ \/ saved = <<>> /\ disk' \in Images
       \/ saved # <<>> /\ disk' = saved
    /\ UNCHANGED <<reply, saved>>

Next == Ask \/ Land \/ Answer \/ Fail \/ Disconnect \/ Save \/ Restart

Spec == Init /\ [][Next]_vars
=============================================================================
