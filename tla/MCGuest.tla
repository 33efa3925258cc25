------------------------------- MODULE MCGuest ------------------------------
(***************************************************************************)
(* The components of a VM, one of them running in each behaviour: the      *)
(* sessions and the agent of shuru-guest, shuru-screen and shuru-desktop   *)
(* inside the guest, the virtual devices and the machine under it.         *)
(***************************************************************************)
EXTENDS Integers, Sequences, FiniteSets

CONSTANTS Parts

(* Inputs. *)

\* A session's load: chunks of output and input, attaches, a terminal or not,
\* and whether the limit of sessions is reached.
Load(out, in, attach, tty, limit) ==
    [out |-> out, in |-> in, attach |-> attach, tty |-> tty, limit |-> limit]
SessionLoads == {Load(3, 0, 1, TRUE, FALSE), Load(1, 0, 2, TRUE, FALSE), Load(2, 0, 1, FALSE, FALSE),
                 Load(0, 2, 1, FALSE, FALSE), Load(0, 0, 2, TRUE, TRUE)}

ExecKinds == {[tty |-> TRUE, scope |-> "group"], [tty |-> FALSE, scope |-> "cgroup"],
              [tty |-> FALSE, scope |-> "group"]}

\* Trees of two names, two deep, with links to one of them, and requests.
Dirs == {<<>>, <<"a">>, <<"b">>}
Paths == Dirs \union {<<"a", "a">>, <<"a", "b">>, <<"b", "a">>}
Shapes == {ps \in SUBSET (Paths \ {<<>>}) : \A p \in ps : Len(p) = 2 => <<p[1]>> \in ps}
Filled(t) ==
    [p \in DOMAIN t \union {<<>>} |->
        IF p = <<>> THEN "dir" ELSE IF t[p] # "file" THEN t[p] ELSE IF p[1] = "a" THEN "new" ELSE "old"]
SmallTrees ==
    UNION {{Filled(t) : t \in {t \in [ps -> {"dir", "file", "link"}] :
              \A p \in ps : Len(p) = 2 => t[<<p[1]>>] = "dir" /\ (p[2] = "b" => t[p] # "link")}} : ps \in Shapes}
Request(op, src, dst, recursive, stream) ==
    [op |-> op, src |-> src, dst |-> dst, recursive |-> recursive, stream |-> stream]
TreeRequests ==
    {Request("copy", s, d, r, FALSE) :
        s \in {<<>>, <<"a">>}, d \in {<<"a">>, <<"b">>, <<"a", "d">>, <<"a", "d", "e">>, <<"c">>}, r \in BOOLEAN}
    \union {Request(op, s, <<>>, r, FALSE) : op \in {"chmod", "chown"}, s \in {<<>>, <<"a">>}, r \in BOOLEAN}
    \union {Request("list", s, <<>>, r, st) : s \in {<<>>, <<"a">>}, r \in BOOLEAN, st \in BOOLEAN}
    \union {Request("remove", <<"a">>, <<>>, r, FALSE) : r \in BOOLEAN}
    \union {Request("mkdir", <<"b", "c">>, <<>>, r, FALSE) : r \in BOOLEAN}
    \union {Request("rename", <<"a">>, d, FALSE, FALSE) : d \in {<<"b">>, <<"a", "d">>, <<"b", "c">>}}

\* What two connections to the agent ask.
ControlScripts == {{"restore", "unknown"}, {"seal", "thaw"}, {"seal", "trim"}, {"exec", "shutdown"}, {"trim", "file"},
                   {"service_env", "session"}, {"early_exec", "watch"}}

\* Requests of the block device, as their sectors, and of the network device.
Chain(op, ranges) == [op |-> op, ranges |-> ranges]
Span(at, n) == [at |-> at, n |-> n]
Chains == {Chain("out", <<Span(0, 1)>>), Chain("discard", <<Span(0, 1), Span(1, 2)>>),
           Chain("discard", <<Span(1, 1)>>), Chain("bad", <<>>)}
Frames == {Chain("send", <<>>), Chain("bad", <<>>)}

\* Two windows, a dialog of the first and a dialog of that dialog.
WindowKind == [A |-> "normal", B |-> "normal", D |-> "dialog", E |-> "dialog"]
WindowParent == [A |-> "none", B |-> "none", D |-> "A", E |-> "D"]
WindowKey == [A |-> "a", B |-> "b", D |-> "a", E |-> "a"]

\* One component runs in each behaviour, so all of them are instantiated over
\* the same variables; a component with fewer leaves the others at 0.
VARIABLES
    part,           \* the component that runs in this behaviour
    x1, x2, x3, x4, x5, x6, x7, x8, x9, x10, x11, x12, x13, x14, x15, x16, x17, x18,
    x19, x20

vars == <<part, x1, x2, x3, x4, x5, x6, x7, x8, x9, x10, x11, x12, x13, x14, x15, x16, x17,
         x18, x19, x20>>

(* The variables past the first k, for a component of k variables. *)
past15 == <<x16, x17, x18, x19, x20>>
past14 == <<x15, x16, x17, x18, x19, x20>>
past13 == <<x14, x15, x16, x17, x18, x19, x20>>
past12 == <<x13, x14, x15, x16, x17, x18, x19, x20>>
past11 == <<x12, x13, x14, x15, x16, x17, x18, x19, x20>>
past10 == <<x11, x12, x13, x14, x15, x16, x17, x18, x19, x20>>
past9 == <<x10, x11, x12, x13, x14, x15, x16, x17, x18, x19, x20>>
past5 == <<x6, x7, x8, x9, x10, x11, x12, x13, x14, x15, x16, x17, x18, x19, x20>>
past3 == <<x4, x5, x6, x7, x8, x9, x10, x11, x12, x13, x14, x15, x16, x17, x18, x19, x20>>
Unused15 == x16 = 0 /\ x17 = 0 /\ x18 = 0 /\ x19 = 0 /\ x20 = 0
Unused14 == x15 = 0 /\ Unused15
Unused13 == x14 = 0 /\ Unused14
Unused12 == x13 = 0 /\ Unused13
Unused11 == x12 = 0 /\ Unused12
Unused10 == x11 = 0 /\ Unused11
Unused9 == x10 = 0 /\ Unused10
Unused5 == x6 = 0 /\ x7 = 0 /\ x8 = 0 /\ x9 = 0 /\ Unused9
Unused3 == x4 = 0 /\ x5 = 0 /\ Unused5

\* A session, its ring and the clients attached to it.
SO == INSTANCE SessionOutput WITH
        Clients <- {"c1", "c2"}, Buffer <- 2, MaxRuns <- 1, SendLow <- 1,
        StdinQueue <- 1, Loads <- SessionLoads, load <- x1, pipe <- x2, held <- x3,
        exit <- x4, life <- x5, log <- x6, start <- x7, outputs <- x8, finished <- x9,
        owner <- x10, stdin <- x11, queue <- x12, stdin_eof <- x13, hangup <- x14,
        att <- x15, attaches <- x16, dirty <- x17, left <- x18, phase <- x19, reg <- x20

\* Two sessions that may get the same pid, and the reaper.
SP == INSTANCE SessionProcesses WITH
        Sessions <- {1, 2}, Pids <- {1}, Limits <- {1, 2}, MaxKills <- 1, MaxAsks <- 1,
        limit <- x1, running <- x2, starter <- x3, proc <- x4, pid <- x5, orphan <- x6,
        streams <- x7, watched <- x8, exits <- x9, cmds <- x10, table <- x11,
        exit <- x12, early <- x13, kills <- x14, asks <- x15, reap_pending <- x16,
        pidfd <- x17, dirs <- x18, stale <- x19, hit <- x20

\* A plain service and one that is restarted.
SV == INSTANCE Services WITH
        Plain <- {"db"}, Restarted <- {"web"}, Probes <- {{"db"}, {"web"}},
        MaxRuns <- 2, probed <- x1, begun <- x2, shutting <- x3, svc <- x4, proc <- x5,
        watches <- x6, timers <- x7, command <- x8, stop <- x9

\* An exec with pipes or a terminal.
GE == INSTANCE GuestExec WITH
        MaxOut <- 2, Kinds <- ExecKinds, kind <- x1, alive <- x2, exit <- x3,
        wrote <- x4, unread <- x5, stdin <- x6, host <- x7, sent <- x8, chan <- x9,
        thread <- x10, execs <- x11, signalled <- x12

\* The agent's connections, its identity and its seal.
GC == INSTANCE GuestControl WITH
        Conns <- {"c1", "c2"}, Scripts <- ControlScripts, Inside <- {"d1"},
        Beside <- {"f"}, MaxAsks <- [c1 |-> 2, c2 |-> 1], MaxEdits <- 0, script <- x1, stage <- x2,
        identity <- x3, clock <- x4, seeded <- x5, restored <- x6, conn <- x7,
        busy <- x8, root <- x9, services <- x10, lower <- x11, upper <- x12,
        edits <- x13, mounted <- x14, lost <- x15

\* An overlay that programs change and one connection that discards: a
\* directory may be removed, made again, which is opaque, and written in.
GO == INSTANCE GuestControl WITH
        Conns <- {"c1"}, Scripts <- {{"mount", "discard"}}, Inside <- {"d1", "d2"},
        Beside <- {"f"}, MaxAsks <- [c1 |-> 3], MaxEdits <- 3, script <- x1, stage <- x2,
        identity <- x3, clock <- x4, seeded <- x5, restored <- x6, conn <- x7,
        busy <- x8, root <- x9, services <- x10, lower <- x11, upper <- x12,
        edits <- x13, mounted <- x14, lost <- x15

\* Requests that walk a tree while it changes.
GT == INSTANCE GuestTree WITH
        Trees <- SmallTrees, LinkTo <- <<"b">>, Requests <- TreeRequests, FrameEntries <- 2, start <- x1,
        tree <- x2, req <- x3, stack <- x4, count <- x5, changed <- x6, page <- x7,
        frames <- x8, result <- x9

\* A file sent up or down through the node.
FT == INSTANCE FileTransfer WITH
        Ops <- {"read", "tail", "list", "write", "call", "download"},
        Sizes <- {0, 3, 4}, Chunk <- 2, Keeps <- {1, 2, 3}, Room <- 2, op <- x1,
        size <- x2, keep <- x3, permit <- x4, cut <- x5, up <- x6, down <- x7,
        guest <- x8, node <- x9, chan <- x10, client <- x11

\* Two watches of files, each step of the way with a small backlog.
WF == INSTANCE WatchFeed WITH
        Watches <- {"p", "q"}, MaxWatches <- 2, GuestBacklog <- 1, NodeBacklog <- 1,
        MaxEvents <- 2, events <- x1, queue <- x2, dropped <- x3, wire <- x4,
        watch <- x5, task <- x6, feed <- x7, client <- x8, missed <- x9

\* A port that opens and closes, and two who watch.
PW == INSTANCE PortWatch WITH
        Ports <- {1}, Watches <- {"w1", "w2"}, MaxWatches <- 1, Backlog <- 2,
        MaxChanges <- 2, open <- x1, changes <- x2, interest <- x3, scanner <- x4,
        known <- x5, rx <- x6, thread <- x7, wire <- x8, client <- x9

\* The screen of two rows and one viewer.
SS == INSTANCE ScreenStream WITH
        Viewers <- {"v"}, Rows <- {1, 2}, MAX_QUEUED <- 2, MaxDraws <- 2,
        MaxResizes <- 0, MaxAsks <- 0, MaxStills <- 1, MaxFaults <- 1, MaxDead <- 0,
        screen <- x1,
        xq <- x2, cap <- x3, jobs <- x4, enc <- x5, hub <- x6, client <- x7, view <- x8,
        stills <- x9, left <- x10

\* A screen that is resized under a viewer that asks, leaves and comes back.
SR == INSTANCE ScreenStream WITH
        Viewers <- {"v"}, Rows <- {1}, MAX_QUEUED <- 2, MaxDraws <- 1,
        MaxResizes <- 1, MaxAsks <- 1, MaxStills <- 0, MaxFaults <- 1, MaxDead <- 0,
        screen <- x1,
        xq <- x2, cap <- x3, jobs <- x4, enc <- x5, hub <- x6, client <- x7, view <- x8,
        stills <- x9, left <- x10

\* The same under a viewer that stops reading for a while.
ST == INSTANCE ScreenStream WITH
        Viewers <- {"v"}, Rows <- {1}, MAX_QUEUED <- 2, MaxDraws <- 1,
        MaxResizes <- 0, MaxAsks <- 0, MaxStills <- 0, MaxFaults <- 1, MaxDead <- 1,
        screen <- x1,
        xq <- x2, cap <- x3, jobs <- x4, enc <- x5, hub <- x6, client <- x7, view <- x8,
        stills <- x9, left <- x10

\* Two symbols the layout lacks and one scratch keycode for them.
SI == INSTANCE ScreenInput WITH
        Viewers <- {"v"}, Setters <- {"g1"}, Plain <- {}, Lacking <- {"u", "w"},
        Scratch <- <<"k1">>, MaxEvents <- 2, MaxGates <- 2, MaxCrashes <- 0,
        MaxCursors <- 0, gate <- x1, setter <- x2, stream <- x3, chan <- x4, inj <- x5,
        x <- x6, cursor <- x7, lands <- x8, left <- x9

\* A key of the layout and one that it lacks, with a screen server that dies
\* and is started again and a cursor that changes.
SX == INSTANCE ScreenInput WITH
        Viewers <- {"v"}, Setters <- {"g1"}, Plain <- {"a"}, Lacking <- {"u"},
        Scratch <- <<"k1">>, MaxEvents <- 1, MaxGates <- 1, MaxCrashes <- 1,
        MaxCursors <- 1, gate <- x1, setter <- x2, stream <- x3, chan <- x4, inj <- x5,
        x <- x6, cursor <- x7, lands <- x8, left <- x9

\* Windows mapped, moved and closed.
WM == INSTANCE WindowManager WITH
        Windows <- {"A", "D", "B"}, Kind <- WindowKind, Parent <- WindowParent,
        Key <- WindowKey, Before <- {"A"}, Modal <- {"D"}, MaxMaps <- 1, MaxActs <- 2,
        MaxLaunches <- 1, MaxQueue <- 2, x <- x1, queue <- x2, wm <- x3, launch <- x4,
        acts <- x5

\* A dialog that blocks a dialog.
WD == INSTANCE WindowManager WITH
        Windows <- {"A", "D", "E"}, Kind <- WindowKind, Parent <- WindowParent,
        Key <- WindowKey, Before <- {"A"}, Modal <- {"E"}, MaxMaps <- 1, MaxActs <- 2,
        MaxLaunches <- 0, MaxQueue <- 1, x <- x1, queue <- x2, wm <- x3, launch <- x4,
        acts <- x5

\* One notification more than are kept, and two more than are shown.
DN == INSTANCE DesktopShell WITH
        KEPT <- 2, SHOWN <- 1, Pinned <- 1, Keys <- {}, MaxNotes <- 3, MaxActs <- 3,
        sh <- x1, bus <- x2, left <- x3

\* Menus, drags and Alt+Tab, with notifications and windows that come and go.
DS == INSTANCE DesktopShell WITH
        KEPT <- 2, SHOWN <- 1, Pinned <- 0, Keys <- {"a", "b"}, MaxNotes <- 2,
        MaxActs <- 4, sh <- x1, bus <- x2, left <- x3

\* A block device, with a reset and a save between its requests.
VB == INSTANCE VirtioDevice WITH
        Kinds <- {"block"}, Requests <- Chains, Capacity <- 2, Size <- 2, MaxReqs <- 2,
        MaxFrames <- 0, MaxResets <- 1, MaxSaves <- 1, MaxFaults <- 0, kind <- x1,
        read_only <- x2, mem <- x3, core <- x4, irq <- x5, kick <- x6, worker <- x7,
        rx <- x8, sock <- x9, disk <- x10, done <- x11, machine <- x12, left <- x13

\* A network device, with a save while a frame is on its way.
VN == INSTANCE VirtioDevice WITH
        Kinds <- {"net"}, Requests <- Frames, Capacity <- 2, Size <- 2, MaxReqs <- 1,
        MaxFrames <- 2, MaxResets <- 1, MaxSaves <- 1, MaxFaults <- 0, kind <- x1,
        read_only <- x2, mem <- x3, core <- x4, irq <- x5, kick <- x6, worker <- x7,
        rx <- x8, sock <- x9, disk <- x10, done <- x11, machine <- x12, left <- x13

\* Two vCPUs and a device, paused, resumed, saved and stopped.
KM == INSTANCE KvmMachine WITH
        Vcpus <- {1, 2}, Devices <- {1}, Unsaved <- {}, Pages <- {"ring", "p"},
        Targets <- {1}, MaxCalls <- 2, MaxWrites <- 1, running <- x1, paused <- x2,
        state <- x3, monitor <- x4, vcpu <- x5, api <- x6, devs <- x7, pending <- x8,
        page <- x9, base <- x10, saved <- x11, before <- x12, balloon <- x13,
        left <- x14

\* A shared directory of two names, with room for two inodes and one open file.
VF == INSTANCE VirtioFs WITH
        Names <- {"a", "b"}, Depth <- 2, Inos <- {1, 2}, MAX_INODES <- 2,
        MAX_OPEN_FILES <- 1, Window <- 1, ForgetHasReply <- TRUE, MaxOps <- 5,
        MaxHost <- 1, read_only <- x1, host <- x2, inodes <- x3, next <- x4, fhs <- x5,
        nextFh <- x6, held <- x7, listing <- x8, told <- x9, left <- x10

PartInit ==
    /\ part \in Parts
    /\ \/ part = "output" /\ SO!Init
       \/ part = "processes" /\ SP!Init
       \/ part = "services" /\ SV!Init /\ Unused9
       \/ part = "exec" /\ GE!Init /\ Unused12
       \/ part = "control" /\ GC!Init /\ Unused15
       \/ part = "overlay" /\ GO!Init /\ Unused15
       \/ part = "tree" /\ GT!Init /\ Unused9
       \/ part = "transfer" /\ FT!Init /\ Unused11
       \/ part = "feed" /\ WF!Init /\ Unused9
       \/ part = "ports" /\ PW!Init /\ Unused9
       \/ part = "stream" /\ SS!Init /\ Unused10
       \/ part = "resize" /\ SR!Init /\ Unused10
       \/ part = "stall" /\ ST!Init /\ Unused10
       \/ part = "input" /\ SI!Init /\ Unused9
       \/ part = "restart" /\ SX!Init /\ Unused9
       \/ part = "windows" /\ WM!Init /\ Unused5
       \/ part = "dialogs" /\ WD!Init /\ Unused5
       \/ part = "notes" /\ DN!Init /\ Unused3
       \/ part = "shell" /\ DS!Init /\ Unused3
       \/ part = "block" /\ VB!Init /\ Unused13
       \/ part = "net" /\ VN!Init /\ Unused13
       \/ part = "machine" /\ KM!Init /\ Unused14
       \/ part = "fs" /\ VF!Init /\ Unused10

PartNext ==
    /\ UNCHANGED part
    /\ \/ part = "output" /\ SO!Next
       \/ part = "processes" /\ SP!Next
       \/ part = "services" /\ SV!Next /\ UNCHANGED past9
       \/ part = "exec" /\ GE!Next /\ UNCHANGED past12
       \/ part = "control" /\ GC!Next /\ UNCHANGED past15
       \/ part = "overlay" /\ GO!Next /\ UNCHANGED past15
       \/ part = "tree" /\ GT!Next /\ UNCHANGED past9
       \/ part = "transfer" /\ FT!Next /\ UNCHANGED past11
       \/ part = "feed" /\ WF!Next /\ UNCHANGED past9
       \/ part = "ports" /\ PW!Next /\ UNCHANGED past9
       \/ part = "stream" /\ SS!Next /\ UNCHANGED past10
       \/ part = "resize" /\ SR!Next /\ UNCHANGED past10
       \/ part = "stall" /\ ST!Next /\ UNCHANGED past10
       \/ part = "input" /\ SI!Next /\ UNCHANGED past9
       \/ part = "restart" /\ SX!Next /\ UNCHANGED past9
       \/ part = "windows" /\ WM!Next /\ UNCHANGED past5
       \/ part = "dialogs" /\ WD!Next /\ UNCHANGED past5
       \/ part = "notes" /\ DN!Next /\ UNCHANGED past3
       \/ part = "shell" /\ DS!Next /\ UNCHANGED past3
       \/ part = "block" /\ VB!Next /\ UNCHANGED past13
       \/ part = "net" /\ VN!Next /\ UNCHANGED past13
       \/ part = "machine" /\ KM!Next /\ UNCHANGED past14
       \/ part = "fs" /\ VF!Next /\ UNCHANGED past10

PartSpec == PartInit /\ [][PartNext]_vars

-----------------------------------------------------------------------------
\* What a session keeps for whoever attaches next, and whose process a pid is:
\* no client misses or repeats output, whatever attaches, detaches and exits
\* meet; a kill or a reap never reaches another session's process, and the loop
\* never sleeps through the end of one, also once it has let go of its pidfd.
SessionsSafe ==
    /\ part = "output" => SO!SessionSafe
    /\ part = "processes" => SP!ProcessesSafe

\* Services restart only while they should, an exec's frames come in order and
\* end with its exit, and the agent answers only whom it knows.  No trim
\* and no request read after the seal runs on a frozen root, a thaw vouches
\* only for a seal that lasted, and a discard changes nothing it does not name.
AgentSafe ==
    /\ part = "services" => SV!ServicesSafe
    /\ part = "exec" => GE!ExecSafe
    /\ part = "control" => GC!GuestControlSafe
    /\ part = "overlay" => GO!GuestControlSafe

\* What a client learns of files and ports is what happened to them: a copy or
\* walk reaches what its paths lead to, through the links it follows and no
\* others, and ends; a transfer is whole or says it is not, and a watcher hears
\* of every change or that it missed some.
FilesSafe ==
    /\ part = "tree" => GT!TreeSafe
    /\ part = "transfer" => FT!TransferSafe
    /\ part = "feed" => WF!FeedSafe
    /\ part = "ports" => PW!PortWatchSafe

\* A viewer decodes only from a keyframe, has one coming unless one failed to
\* encode, and when it has caught up shows the screen as it is; what it types
\* lands as typed with nothing left pressed.
ScreenSafe ==
    /\ part = "stream" => SS!StreamSafe
    /\ part = "resize" => SR!StreamSafe
    /\ part = "stall" => ST!StreamSafe
    /\ part = "input" => SI!InputSafe
    /\ part = "restart" => SX!InputSafe

\* The desktop's windows keep one order and one keyboard, which no window has
\* that a modal dialog blocks, and none stays managed that its app withdrew;
\* a program hears once of every close of its notification, an open center
\* lists what is open, and no grab outlives the menu or drag it was for.
DesktopSafe ==
    /\ part = "windows" => WM!WindowsSafe
    /\ part = "dialogs" => WD!WindowsSafe
    /\ part = "notes" => DN!ShellSafe
    /\ part = "shell" => DS!ShellSafe

\* A device answers each request of the guest once, over a save too, puts no
\* frame in two buffers or out of order, and is quiet after a reset; a snapshot has every page as it
\* was when the vCPUs stopped, with no request between the rings and the
\* devices; a node of a shared directory that the guest still holds stays
\* mapped, within the limits of inodes and open files.
DevicesSafe ==
    /\ part = "block" => VB!DeviceSafe
    /\ part = "net" => VN!DeviceSafe
    /\ part = "machine" => KM!MachineSafe
    /\ part = "fs" => VF!FsSafe
=============================================================================
