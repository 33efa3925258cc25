------------------------------- MODULE MCNode -------------------------------
(***************************************************************************)
(* The components on the host, one of them running in each behaviour: the  *)
(* launch of VMs, checkpoints, the network proxy, and the libraries,       *)
(* servers and SDKs that reach a sandbox.                                  *)
(***************************************************************************)
EXTENDS Integers, Sequences, FiniteSets

CONSTANT Parts

(* Inputs. *)

\* Two sandboxes of the node, and who owns the launches of a slot.
Owners == [a |-> "serve", b |-> "serve", r |-> "run"]
TwoOwners == [a |-> "serve", b |-> "serve"]

\* What two callers of a sandbox ask of it.
ClientOps == [c1 |-> {"exec", "exec_buffered", "shell", "read_file", "write_file", "void_fs_op",
                      "download", "read_dir", "stat", "kill_exec", "open_exec"},
              c2 |-> {"read_file"}]

HubLoads == {[who |-> {"c1"}, out |-> 2], [who |-> {"c1", "c2"}, out |-> 0]}

SecretResolves == [a |-> 2, b |-> 1]

\* Requests of a guest as the bytes of two heads and bodies, the second of
\* which may be cut: "s" is the placeholder of a secret, "r" "n" end a line.
Get == <<"g", "p", "q", "r", "n", "r", "n">>
Auth == <<"g", "s", "r", "n", "A", "s", "E", "r", "n", "r", "n">>
Post == <<"l", "r", "n", "r", "n", "p", "q">>
Chunk == <<"c", "q", "r", "n", "r", "n", "2", "r", "n", "p", "q", "r", "n", "0", "r", "n", "r", "n">>
Odd == <<"x", "p", "q", "r", "n", "r", "n", "p", "q">>
Cut == <<"g", "p", "q", "r">>
HeadScripts == {a \o b : a \in {Get, Auth, Post, Chunk, Odd}, b \in {Get, Auth, Post, Chunk, Odd, Cut}}

\* Where connections go, and what the resolver answers.
To(ip, port, sni) == [ip |-> ip, port |-> port, sni |-> sni]
EgressAnswer == [ok |-> <<"i1", "i2">>, fine |-> <<"i3">>, no |-> <<"i4">>]

\* A disk of two chunks: the first from a base image that ends inside it, the
\* second from a parent.
Command(kind, at, len, data) == [kind |-> kind, at |-> at, len |-> len, data |-> data]
DiskCommands == {Command("read", 0, 4, <<>>), Command("write", 1, 0, <<1, 0>>),
                 Command("write", 3, 0, <<1>>), Command("flush", 0, 0, <<>>), Command("other", 0, 0, <<>>)}
Hashes(a, b) == [i \in 0..1 |-> IF i = 0 THEN a ELSE b]
DiskBudgets ==
    {[cmds |-> 2, saves |-> 1, faults |-> 0, runs |-> 1, others |-> 0, cuts |-> 0, lapses |-> 0, power |-> TRUE],
     [cmds |-> 1, saves |-> 1, faults |-> 1, runs |-> 1, others |-> 1, cuts |-> 1, lapses |-> 0, power |-> FALSE]}
LapseBudgets ==
    {[cmds |-> 3, saves |-> 1, faults |-> 0, runs |-> 0, others |-> 0, cuts |-> 0, lapses |-> 1, power |-> FALSE]}
DiskStarts == {[index |-> Hashes(<<>>, <<>>), parents |-> <<Hashes(<<>>, <<1, 1>>)>>, base |-> <<1>>]}
NoBaseStarts == {[index |-> Hashes(<<>>, <<>>), parents |-> <<Hashes(<<>>, <<1, 1>>)>>, base |-> <<>>]}

\* One component runs in each behaviour, so all of them are instantiated over
\* the same variables; a component with fewer leaves the others at 0.
VARIABLES
    part,           \* the component that runs in this behaviour
    x1, x2, x3, x4, x5, x6, x7, x8, x9, x10, x11, x12, x13, x14, x15, x16

vars == <<part, x1, x2, x3, x4, x5, x6, x7, x8, x9, x10, x11, x12, x13, x14, x15, x16>>

(* The variables past the first k, for a component of k variables. *)
past14 == <<x15, x16>>
past13 == <<x14, x15, x16>>
past11 == <<x12, x13, x14, x15, x16>>
past10 == <<x11, x12, x13, x14, x15, x16>>
past8 == <<x9, x10, x11, x12, x13, x14, x15, x16>>
past7 == <<x8, x9, x10, x11, x12, x13, x14, x15, x16>>
past6 == <<x7, x8, x9, x10, x11, x12, x13, x14, x15, x16>>
Unused14 == x15 = 0 /\ x16 = 0
Unused13 == x14 = 0 /\ Unused14
Unused11 == x12 = 0 /\ x13 = 0 /\ Unused13
Unused10 == x11 = 0 /\ Unused11
Unused8 == x9 = 0 /\ x10 = 0 /\ Unused10
Unused7 == x8 = 0 /\ Unused8
Unused6 == x7 = 0 /\ Unused7

\* Two sandboxes and a run of the command line that share a slot.
VL == INSTANCE VmLaunch WITH
        Slots <- {1}, Owner <- Owners, Networked <- {}, Saving <- {}, Restored <- {},
        MaxCrashes <- 1, MaxFaults <- 1, MaxAsks <- 0, MaxBytes <- 0, free <- x1,
        retired <- x2, lock <- x3, dir <- x4, group <- x5, proc <- x6, lag <- x7,
        alive <- x8, launching <- x9, launch <- x10, sent <- x11, wire <- x12,
        poll <- x13, save <- x14, up <- x15, left <- x16

\* A sandbox with a network and one restored and saved again.
VN == INSTANCE VmLaunch WITH
        Slots <- {1}, Owner <- TwoOwners, Networked <- {"a"}, Saving <- {"b"},
        Restored <- {"b"}, MaxCrashes <- 0, MaxFaults <- 1, MaxAsks <- 1, MaxBytes <- 1,
        free <- x1, retired <- x2, lock <- x3, dir <- x4, group <- x5, proc <- x6,
        lag <- x7, alive <- x8, launching <- x9, launch <- x10, sent <- x11,
        wire <- x12, poll <- x13, save <- x14, up <- x15, left <- x16

\* Two saves of one checkpoint.
DV == INSTANCE DiskSave WITH
        Savers <- {"s1", "s2"}, MaxSaves <- 1, saver <- x1, guest <- x2, stage <- x3,
        files <- x4, dest <- x5, inodes <- x6

\* Two connections of a guest through the proxy's network stack.
NS == INSTANCE NetStack WITH
        Flows <- {"f1", "f2"}, Denied <- {}, Tls <- TRUE, MAX_TCP_SOCKETS <- 1,
        TO_GUEST_BUDGET <- 1, TO_HOST_BUDGET <- 1, MaxUp <- 1, MaxDown <- 1, flow <- x1,
        wire <- x2, stack <- x3, events <- x4, cmds <- x5, budget <- x6, task <- x7

\* One connection and more data each way.
NR == INSTANCE NetStack WITH
        Flows <- {"f1"}, Denied <- {}, Tls <- TRUE, MAX_TCP_SOCKETS <- 1,
        TO_GUEST_BUDGET <- 1, TO_HOST_BUDGET <- 1, MaxUp <- 3, MaxDown <- 3, flow <- x1,
        wire <- x2, stack <- x3, events <- x4, cmds <- x5, budget <- x6, task <- x7

\* How fast those connections go out, and the record of them.
EP == INSTANCE EgressPolicy WITH
        Conns <- {"c1", "c2"}, Targets <- {To("i1", 443, "none"), To("i2", 80, "none"),
        To("i1", 25, "none")}, Allow <- {}, Answer <- [no |-> <<"i1">>], Refused <- {"i2"},
        Gateway <- "gw", Exposed <- {}, DenyPorts <- {25}, ConnBurst <- 1,
        DestBurst <- 1, EgressBurst <- 1, EGRESS_SLACK <- 1, PinCapacity <- 2, Kept <- 1,
        Memory <- 2, MaxClock <- 2, MaxBytes <- 2, MaxAway <- 1, clock <- x1,
        gate <- x2, pace <- x3, log <- x4, conn <- x5, query <- x6, pins <- x7,
        events <- x8, written <- x9, late <- x10, away <- x11, opened <- x12,
        sent <- x13, used <- x14

\* An allowlist, with more addresses than are kept and a name that is not
\* allowed at an address that is.
EA == INSTANCE EgressPolicy WITH
        Conns <- {"c1", "c2"}, Targets <- {To("i1", 443, "ok"), To("i1", 443, "no"),
        To("i2", 80, "none"), To("i4", 80, "none"), To("gw", 443, "none"),
        To("gw", 80, "none")}, Allow <- {"ok", "fine"}, Answer <- EgressAnswer,
        Refused <- {}, Gateway <- "gw", Exposed <- {443}, DenyPorts <- {},
        ConnBurst <- 2, DestBurst <- 2, EgressBurst <- 2, EGRESS_SLACK <- 0,
        PinCapacity <- 2, Kept <- 1, Memory <- 2, MaxClock <- 0, MaxBytes <- 1,
        MaxAway <- 1, clock <- x1, gate <- x2, pace <- x3, log <- x4, conn <- x5,
        query <- x6, pins <- x7, events <- x8, written <- x9, late <- x10, away <- x11,
        opened <- x12, sent <- x13, used <- x14

\* A guest's requests with a secret's placeholder in them.
RH == INSTANCE RequestHeads WITH
        Scripts <- HeadScripts, MaxRead <- 4, MAX_HEAD <- 11, MAX_CHUNK_LINE <- 3,
        MaxRotations <- 1, script <- x1, at <- x2, stream <- x3, data <- x4, out <- x5,
        pc <- x6, secret <- x7, pair <- x8, since <- x9, used <- x10

\* Two connections that need a secret while it is refreshed.
SE == INSTANCE Secrets WITH
        Conns <- {"a", "b"}, Kinds <- {"provided", "none", "value", "command"},
        Resolves <- SecretResolves, MaxUpdates <- 1, MaxClock <- 2, Lifetimes <- {2},
        REFRESH_WINDOW <- 1, RETRY_PAUSE <- 2, MAX_AGE <- 3, ASK_TIMEOUT <- 2,
        PROVIDER_TIMEOUT <- 1, IN_FLIGHT <- 1, clock <- x1, updates <- x2, conf <- x3,
        table <- x4, placeholder <- x5, slots <- x6, slot <- x7, conn <- x8,
        waiting <- x9, wire <- x10, tasks <- x11

\* Two callers of a sandbox of the library.
SC == INSTANCE SandboxClient WITH
        Callers <- {"c1", "c2"}, Ops <- ClientOps, Mounts <- 1, MaxFrames <- 2,
        MaxBuffered <- 1, Attempts <- 2, vm <- x1, mounts <- x2, mounted <- x3,
        call <- x4, guest <- x5, stopper <- x6

\* The command line's server for the SDK.
ST == INSTANCE StdioServer WITH
        Procs <- <<"p1">>, STDIN_BACKLOG <- 1, EVENT_QUEUE <- 1, OutRoom <- 2,
        VsockRoom <- 1,
        Calls <- {"spawn", "input", "kill", "checkpoint", "exec", "call"}, MaxReqs <- 3,
        MaxOut <- 1, sdk <- x1, stdin <- x2, main <- x3, out <- x4, events <- x5,
        notifier <- x6, proc <- x7, guest <- x8, vm <- x9, lost <- x10

\* Two callers of the asynchronous SDK.
AS == INSTANCE AsyncSandbox WITH
        Callers <- {"c1", "c2"},
        Ops <- {"serial", "exec", "read", "dial", "stream", "stop"}, MaxCalls <- 1,
        EVENT_QUEUE <- 1, MaxEvents <- 1, boot <- x1, disk <- x2, vm <- x3, calls <- x4,
        call <- x5, cmds <- x6, loop <- x7, worker <- x8, stream <- x9, held <- x10

\* A session shared by its starter and two more.
SH == INSTANCE SessionHub WITH
        Starter <- "s", Joiners <- {"c1", "c2"}, Hubs <- {"h1", "h2"}, Gens <- 1..6,
        KEPT <- 1, MAX_BEHIND <- 1, READ_ON_BELOW <- 1, Loads <- HubLoads, load <- x1,
        written <- x2, exited <- x3, map <- x4, hubOf <- x5, readers <- x6,
        writer <- x7, actor <- x8, hub <- x9, client <- x10

\* A port forwarded to a client.
FW == INSTANCE Forward WITH
        Room <- 1, MaxData <- 2, whole <- x1, phase <- x2, hop <- x3, copier <- x4,
        sent <- x5, got <- x6, left <- x7, permit <- x8

\* A disk of content-addressed chunks.
CS == INSTANCE ContentStore WITH
        Chunks <- 2, CHUNK_SIZE <- 2, Requests <- DiskCommands, Starts <- DiskStarts,
        Budgets <- DiskBudgets, store <- x1, index <- x2, parents <- x3, base <- x4,
        dirty <- x5, file <- x6, server <- x7, client <- x8, cmd <- x9, reply <- x10,
        rc <- x11, save <- x12, left <- x13

\* A disk without a base image, and a lease that ends before the save does.
CL == INSTANCE ContentStore WITH
        Chunks <- 2, CHUNK_SIZE <- 2, Requests <- DiskCommands, Starts <- NoBaseStarts,
        Budgets <- LapseBudgets, store <- x1, index <- x2, parents <- x3, base <- x4,
        dirty <- x5, file <- x6, server <- x7, client <- x8, cmd <- x9, reply <- x10,
        rc <- x11, save <- x12, left <- x13

PartInit ==
    /\ part \in Parts
    /\ \/ part = "launch" /\ VL!Init
       \/ part = "netd" /\ VN!Init
       \/ part = "save" /\ DV!Init /\ Unused6
       \/ part = "stack" /\ NS!Init /\ Unused7
       \/ part = "relay" /\ NR!Init /\ Unused7
       \/ part = "egress" /\ EP!Init /\ Unused14
       \/ part = "allow" /\ EA!Init /\ Unused14
       \/ part = "heads" /\ RH!Init /\ Unused10
       \/ part = "secrets" /\ SE!Init /\ Unused11
       \/ part = "client" /\ SC!Init /\ Unused6
       \/ part = "stdio" /\ ST!Init /\ Unused10
       \/ part = "async" /\ AS!Init /\ Unused10
       \/ part = "hub" /\ SH!Init /\ Unused10
       \/ part = "forward" /\ FW!Init /\ Unused8
       \/ part = "store" /\ CS!Init /\ Unused13
       \/ part = "lapse" /\ CL!Init /\ Unused13

PartNext ==
    /\ UNCHANGED part
    /\ \/ part = "launch" /\ VL!Next
       \/ part = "netd" /\ VN!Next
       \/ part = "save" /\ DV!Next /\ UNCHANGED past6
       \/ part = "stack" /\ NS!Next /\ UNCHANGED past7
       \/ part = "relay" /\ NR!Next /\ UNCHANGED past7
       \/ part = "egress" /\ EP!Next /\ UNCHANGED past14
       \/ part = "allow" /\ EA!Next /\ UNCHANGED past14
       \/ part = "heads" /\ RH!Next /\ UNCHANGED past10
       \/ part = "secrets" /\ SE!Next /\ UNCHANGED past11
       \/ part = "client" /\ SC!Next /\ UNCHANGED past6
       \/ part = "stdio" /\ ST!Next /\ UNCHANGED past10
       \/ part = "async" /\ AS!Next /\ UNCHANGED past10
       \/ part = "hub" /\ SH!Next /\ UNCHANGED past10
       \/ part = "forward" /\ FW!Next /\ UNCHANGED past8
       \/ part = "store" /\ CS!Next /\ UNCHANGED past13
       \/ part = "lapse" /\ CL!Next /\ UNCHANGED past13

PartSpec == PartInit /\ [][PartNext]_vars

-----------------------------------------------------------------------------
\* A slot has one VM, nothing of a VM outlives what launched it unseen, and
\* two saves that meet publish one whole disk, read while its guest is sealed.
LaunchAndSaveSafe ==
    /\ part = "launch" => VL!LaunchSafe
    /\ part = "netd" => VN!LaunchSafe
    /\ part = "save" => DV!SaveSafe

\* What a guest sends through the proxy arrives in order and only where the
\* allowlist or the gateway's ports let it, also once a pin was evicted; within
\* its pace and the slack a read may take over it, with a line in the record
\* for each connection.  A secret replaces its placeholder wherever the reads cut the request, and a
\* refreshed secret is never older than the one it replaces.
NetworkSafe ==
    /\ part = "stack" => NS!NetStackSafe
    /\ part = "relay" => NR!NetStackSafe
    /\ part = "egress" => EP!EgressSafe
    /\ part = "allow" => EA!EgressSafe
    /\ part = "heads" => RH!HeadsSafe
    /\ part = "secrets" => SE!SecretsSafe

\* Each call of the library, of the SDK's server and of the asynchronous SDK
\* is answered once and with its own answer, and a shared session or forwarded
\* port gives each end what the other sent, or ends.
ClientsSafe ==
    /\ part = "client" => SC!ClientSafe
    /\ part = "stdio" => ST!StdioSafe
    /\ part = "async" => AS!AsyncSafe
    /\ part = "hub" => SH!HubSafe
    /\ part = "forward" => FW!ForwardSafe

\* The content store implements Disk: whatever ingestion, flushes, failed
\* puts, checkpoints, crashes and restarts interleave, a read answers with what
\* was last written, a checkpoint is the disk at one moment and the next run
\* starts from it.  In part "store" the guest is sealed for the whole of a save,
\* as save_index asks; in part "lapse" the seal's lease may end before,
\* and the guest writes while the save goes on, over a disk without a base
\* image (with one it does not hold: see ContentStore).  It is the specification
\* Disk under the refinement mapping of ContentStore, asked of the behaviours of
\* the store.
ImplementsDisk ==
    /\ part = "store" => CS!D!Init
    /\ part = "lapse" => CL!D!Init
    /\ [][/\ part = "store" => [CS!D!Next]_(CS!D!vars)
          /\ part = "lapse" => [CL!D!Next]_(CL!D!vars)]_vars
=============================================================================
