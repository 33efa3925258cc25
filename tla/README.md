# TLA+ models of shuru

shuru runs Linux guests in light virtual machines: on a Linux host under KVM
(`crates/shuru-linux`), on macOS through the Virtualization framework
(`crates/shuru-darwin`), and, with the node agent (`crates/shuru-node`), as
named sandboxes behind an HTTP API. This directory holds models of the parts
that keep state between the steps of several actors, the TLC runs that check
them on small instances, and proofs for instances of every size.

Run a model with `tlc -config <file>.cfg <module>` and check the proofs with
`tlapm <component>Proofs.tla`. `PROJECT.json` maps each definition to the lines it
models and lists the runs, the mutants (for every property a plausible bug
that TLC must find), the hazards, the findings and the theorems. A helper that
stands for lines inside a larger mapped definition has no entry of its own.

Names follow the source. A definition commented `Mutant:` is not part of the
model: it is the wrong version of the definition below it.

## Inventory

How the parts meet: a request for a sandbox reaches the node's HTTP API, which
counts it (`IdlePark`), boots the VM if needed (`Sandboxes`, `VmLaunch`) and gets
a connection to the guest agent, one `Connection` in the `Mux` of that VM's vsock
device, moved through the rings by its worker. In the guest, the agent
(`GuestControl`) hands the connection to sessions, execs, files, ports or
services. The guest's network ends in the proxy on the host. Screen and desktop
are programs in the guest. The VM library, the stdio server and the SDKs use
the same agent without a node. A disk is a file that `DiskSave` publishes as a
checkpoint, or chunks served by `ContentStore`.

| Component | Modules | State | What is hard |
|---|---|---|---|
| vsock connection | `VsockConnection` | credit counters, queue, shutdown flags, deadline | wrapping counters, half closes, timeouts, a guest that sends anything |
| vsock mux and control | `VsockMux` | connections by port, resets, turns, callers, handshakes | a full reset queue, late cancels, a restored guest, starvation |
| vsock transport and queue | `VsockTransport` | rings, notification flags, frozen | driver and worker without a lock, stores seen late |
| sandboxes of a host | `Sandboxes` | directories, records, names, slots, VM and lock per entry | overlapping requests, failing steps, crashes between renames |
| idle park | `IdlePark` | clock, open requests, last look | decisions on answers that have aged |
| guest sessions | `SessionOutput`, `SessionProcesses` | output ring, clients, stdin; table, pids, cgroups | slow clients, pid reuse, exits before registration |
| guest services | `Services` | state and process per service, watches, gate | a watch that judges another run, shutdown during restart |
| guest agent | `GuestControl`, `GuestExec` | identity, connections, lease and gate, overlay; an exec's threads | a restore under open connections, a seal that meets a trim or its watchdog, hangups, output after exit |
| guest files | `GuestTree`, `FileTransfer`, `WatchFeed` | walks, transfers, watches with backlogs | links, copies onto or into their source, cut transfers, lost events |
| ports and forwards | `PortWatch`, `Forward` | interest table, scanner; four copiers | lost events, half closes |
| node hub and exec | `SessionHub` | slot, hubs, readers, clients | a hub torn down while clients attach, clients that fall behind |
| secrets and provider | `Secrets` | table, slots, asks, config | updates and expiry during a fetch |
| node VM launch and jail | `VmLaunch` | slots and locks, cgroups, jailed processes | a crash of the node, children that outlive a step |
| virtio block and network devices | `VirtioDevice` | registers, rings, worker, interrupt line | reset and save against a worker |
| virtio-fs device | `VirtioFs` | inode and file tables | references, limits, a host that changes the directory |
| KVM machine, snapshots and balloon | `KvmMachine` | vCPU threads, signals, pages, balloon | signals that land outside KVM_RUN, dirty pages |
| proxy network stack | `NetStack` | sockets, budgets, queues to the engine | closes that overtake data, the limit of sockets |
| proxy policy and records | `EgressPolicy` | token buckets, DNS pins, log | a pin evicted between an answer and its use, tasks in debt together, the log at its limit |
| proxy request rewriting | `RequestHeads` | parser of heads and bodies, substitution | a head cut by reads at any byte |
| content store | `Disk`, `ContentStore` | chunks, index, parents, dirty chunks | ingestion against saves, a lease that ends, power failure |
| VM library and checkpoints | `SandboxClient`, `DiskSave` | calls, mounts; seal, staging directory | two savers, a lease that ends |
| screen | `ScreenStream`, `ScreenInput` | frames, encoder, viewers; gate, keymap | resizes, keyframes that fail, stalled viewers, keys held by a viewer that leaves, restarts |
| desktop windows and shell | `WindowManager`, `DesktopShell` | clients in three orders; notifications, menus, grabs | windows withdrawn while events are queued |
| stdio server and TypeScript SDK | `StdioServer` | requests, backlog, notifications | everyone waiting on a full pipe |
| Rust SDK | `AsyncSandbox` | command loop, streams | an exec that never ends, dropped handles |

Not modelled: the HTTP routing and parsing of the node; drawing, settings and
accessibility of the desktop; the command line around the VM library; the macOS
bindings; the encoding of frames; kernel configuration and vendored code. They
keep little state between calls or are not this repository's logic. Within the
modelled components: `configure` and `checkpoint` of the node, sizes and
`config.json`, firewall and seccomp rules, register and interrupt controller
state, attributes and xattrs of virtio-fs, certificates, pixel conversion and
rate control are left out. Each module's header says what it abstracts.

## The modules

The header comment of a module names the files it models and its abstractions.
The eight that are proved about:

**VsockConnection.** One `Connection` between the unix socket of a host client
and the guest. A byte is named by its position in its stream modulo `W`, so a
byte lost, repeated or reordered shows. `Receive` is one packet of the guest with
any operation, flags, length and credit header; `Pump` and `Fill` are a
connection's share of the worker's pass; `Wake` is epoll, edge triggered;
`Caller*` is the thread in `VsockControl::connect` with its timeout. What the
client does after the device dropped its end is not followed.

**VsockMux.** All connections of one device, each reduced to who waits for its
answer and whether its REQUEST is out, with the reset queue, ports, turns,
callers, listener clients, a device reset and a guest restored from a snapshot.
Packets of one pass are separate steps, which allows more than the code: the
worker holds the lock.

**VsockTransport.** `run` and `Transport::process` against a driver that posts,
polls and turns interrupts on and off at any moment. Stores of the worker pass
through a FIFO buffer (`Flush`), drained by the fence in `Queue::set_notify`: the
memory model of x86, on which a missing fence already shows. `Save` and `Resume`
freeze the device for a snapshot.

**Sandboxes.** Requests are tasks that take a permit, then the lock on the VM of
one entry. Every rename, save and join is a step of its own, because a crash
may come between any two. A VM is a thread in a slot with the phases booting,
up, exited, stopping and dead. Directories, records, disks and the import
directory survive `CrashAndLoad`; nothing else does. `Fallible` is the set of
steps that may fail.

**ContentStore and Disk.** `Disk` is what a guest and a checkpoint are promised: a
read answers with what was last written, a write lands whole unless it fails, a
checkpoint is the disk at one moment and the next start is from the last one.
`ContentStore` is the code: dirty chunks, an index of hashes, parents, a base
image, `read_chunk` with its ingestion by two threads, flushes, failed puts,
saves, other processes on the same store, power failures and restarts. A put may
fail before its rename or after it (`PutFails`, `cuts`), with the chunk in place and not
yet durable. A save is under a seal whose lease (300 s, `sandbox.rs:363`) the guest's
watchdog may end (`LeaseEnds`, `lapses`); from then on the guest writes while the
save goes on. The refinement mapping (`D == INSTANCE Disk WITH ...` in `ContentStore`) reads the
abstract disk through `Resolves`, the lookup order of `read_chunk`.

**IdlePark.** One sandbox with `Activity`, `watch`, `check` and `stop_idle`. Time
passes in ticks and instants are kept as ages. `Holds` stands for the requests
that keep the lock on a running VM (usage, config, checkpoint); `HoldLimit` is
how long the check may wait for the lock.

**SessionOutput.** One exec session in the event loop of the guest agent. A byte
of output is its offset, and `log` the stream of each; `start` is where the ring
begins. Handlers run between a wait and the next settle, one at a time;
`Settle`, `SettleClient` for each attachment and `Register` are the settle, during
which the process and the clients go on. What `register` waits for is the set
`reg`, so a loop that sleeps on work it forgot shows.

**SessionHub.** One session on the node: the lock `starting`, the map of slots, the
hubs opened one after another with their readers and teardown, and each client's
queue. A client is dropped when it lags by more than `MAX_BEHIND` units.

### Runs over several components

`MCGuest`, `MCNode` and `MCLive` check components that share no state, so one
behaviour runs one component: `part` is chosen in the initial state and never
changes. In `MCGuest` and `MCNode` the components are instantiated over one pool
of variables `x1`, `x2`, ..., each component taking the first ones and leaving the
rest at 0; the constants of each instance stand next to it. A property is the
conjunction of one named invariant per part (`SO!SessionSafe`, ...), and those are
conjunctions of the properties that the component's module states and explains.

Some components have several parts, one per instance. `control` has pairs of requests to
the agent, a seal with a thaw or a trim among them, and `overlay` programs that remove
and make a directory again, which leaves it opaque, and a discard below it. `stream`,
`resize` and `stall` are the screen with stills, with a resize, and with a viewer that
stops reading, each with an encoder that may fail, on a keyframe too. `windows` has two
events in the queue, `dialogs` a modal dialog of a dialog, `notes` and `shell` more
notifications than are kept or shown. `egress` is the proxy without an allowlist and
`allow` with one: two pins for three addresses, a name that is not allowed at an
allowed address, and the host's address with an exposed port. `store` is the content
store with a base image and a seal that holds, `lapse` one without a base image whose
lease ends during a save.

What the less obvious of these modules say:

- `SessionProcesses`: a pidfd that turned readable is taken off watch whether or not the
  reap got the lock; `ExitAwaited` says that the exit still arrives, by `reap_pending`, by
  the reaper or by a callback under way.
- `GuestControl`: `root` holds the lease, the frozen flag and where a seal, thaw or trim is
  inside the lock. `TrimSparesSeal`, `GateHolds` and `SealVouched` say that no trim runs on a
  frozen root, that a request served while it is frozen was read before the seal began,
  and that a thaw answers "held" only where nothing was written since the freeze.
- `GuestTree`: the root of a copy, walk or listing is followed if it is a link, entries
  below are not, and a file copied onto a link is written through it.
- `ScreenStream`: the flag for a keyframe is cleared when the job is made. `KeyframeOwed`
  says who owes the keyframe from there on; one that fails in the encoder is owed by
  nobody until the viewer asks, which the property names as its only exception.
- `EgressPolicy`: a task that sends more than the bucket has is held back only once the debt
  is longer than `EGRESS_SLACK`, so `Paced` bounds what leaves by the burst, the rate and
  one slack, however many tasks are in debt. Connections to the gateway on an exposed
  port skip the pins and the SNI, as in `handle_connection`.
- `StdioServer`: a checkpoint that powers the VM off has killed it before it is answered.
- `AsyncSandbox`: an exec and a download hold the VM thread for as long as they take.

## Runs

| Run | Module | Bounds | Shows |
|---|---|---|---|
| `to_host` | VsockConnection | W 4, buffer 2, packets up to 3 bytes, one rx buffer, a socket of one byte | order, bound, close and credit from guest to host with all header values and several wraps; three liveness properties; `IndInv` |
| `to_guest` | VsockConnection | W 3, two rx buffers of one byte, windows 0 and 2 | order and credit from host to guest under a window that shrinks |
| `transport` | VsockTransport | rings of 2, batch 1, two resets, one data packet | no lost kick for tx, no lost interrupt |
| `mux` | VsockMux | one caller, one listener client, two connections, one spare reset, three ports, event index modulo 2 | resets, ports, restored guests, turns |
| `sandboxes` | MCSandboxes | two tasks, ids, names and slots, two boots, two contents, one crash | the safety of overlapping requests, and what a boot says of the disk across the crash |
| `live` | MCLive | one request and `--idle-park` 5 against poll 1, netd 1, lock 1; two tasks on one sandbox, three boots | what is quiet is parked, what is in use is not; requests and shutdowns end |
| `guest` | MCGuest | 23 parts | sessions, agent, files, screen, desktop, devices |
| `node` | MCNode | 16 parts | launches, saves, proxy, secrets, clients; `ContentStore` implements `Disk` |
| `rx_kick` | VsockTransport | as `transport` | **violated**: finding 1 |
| `sandboxes_cold` | MCSandboxes | one of each, an import | **violated**: finding 2 |
| `idle_park_sync` | IdlePark | in units of 5 s: `--idle-park` 6, lock 12 | **violated**: finding 3 |
| `disk_save` | DiskSave | two savers, two saves each | **violated**: finding 4 |

Why the bounds are enough. The counters wrap after three or four bytes, and
window, packet and buffer are smaller than `W` and differ where the code's do.
Two connections and one spare reset let the reset queue be full with a
connection still to be reset. A ring of two lets one buffer be in use and one
be posted. Two requests are what a race in `Sandboxes` needs, as each holds one
lock at most; the second id and name let a name be reused and two directories
compete for it. In `guest` and `node` every queue, pool and cache has a limit of one
or two, which the load exceeds by at least one; every component has two clients
where clients race, and one crash, fault or resize where it handles them. For
the eight components of the proofs the theorems do not depend on the bounds.

Deadlock is checked only for `VsockTransport`, where the driver never stops. The
others may stop: a connection that has gone, ports, boots or crashes used up,
a client that has all it asked for.

### Fairness

- `VsockConnection`: the worker's steps, the timer, the client's reads and the
  guest taking its buffers are weakly fair, for the worker loops as long as it
  has events and a deadline is part of its wait. Nothing is assumed of what the
  guest sends, nor that a client writes or closes.
- `Sandboxes`: a task and a thread get on, as tokio and the kernel schedule them
  and every boot and stop has its own timeout; the lock on a VM is strongly
  fair, as tokio's `Mutex` hands it out in order. Requests need not arrive, and a
  VM need not exit.
- `IdlePark`: time and `watch` go on, a guest that can answer does, a request that
  holds the lock lets go, and the check gets the lock in its turn.

### Findings

1. `process` reads `rx_drained` after the buffers were used; an rx buffer the
   driver posts in between is not seen by the recheck and came without a kick.
   A packet may wait until the next event of the device (`vsock.rs:373`).
2. A failed create moves the imported disk back before it removes the
   directory; a crash in between leaves a sandbox without a disk
   (`sandboxes.rs:617`).
3. `check` looks at the sessions once and may then wait for the lock longer than
   `--idle-park`; a detached session started meanwhile is stopped
   (`idle.rs:206`). The theorem `SessionsAreSpared` gives the condition under which
   it is not.
4. `publish` locks the directory it opened, which the save before may have
   removed: two saves work in one staging directory and a half copy is renamed
   into place (`checkpoint.rs:41`).

### Statements that do not hold

The modules also state these, with the reason beside each; TLC refutes them
with the constants of the run, changed as in brackets. They are behaviours to
know of rather than contradictions of the documentation.

| Module | Statement | What happens |
|---|---|---|
| Services | `ShutdownStopsEvery` | a service marked failed after its ready timeout keeps its process through a shutdown |
| Services | `JudgedByOwn` | the watch of an earlier run may judge a later one |
| SandboxClient | `ExitCodeIsTold` | a connection that ends before EXIT gives exit code 0 |
| Secrets | `PausesAfterFailure` [`MaxClock` 3] | the pause counts from the begin of the fetch, so a slow failure has none |
| NetStack | `SynNotReset` | at the limit of sockets a SYN the gate let in is reset |
| WindowManager | `WithdrawnIsHidden` | a window withdrawn while it is adopted stays shown |
| WindowManager | `ModalHasKeyboard` | a dialog made modal while its parent has the keyboard does not take it; `ModalBlocks` holds of every later focus |
| WindowManager | `MaximizedFills` [`MaxActs` 3] | a drag under way sizes a window maximized under it |
| DesktopShell | `MenuHoldsInput`, `TooltipHasItem` | a drag takes the pointer from an open menu; a tooltip is drawn for an item that has gone |
| VirtioFs | `NodeNamesFile`, `ForgetUnmaps` | a rename leaves the node at its old path; a reset keeps references nobody gives back |
| KvmMachine | `StopEnds` [`FairSpec`, one vCPU, `Pages` {"ring"}, `Targets` {0}, no writes] | a signal sent before KVM_RUN does nothing |
| ScreenInput | `UndoneByNext` (part `restart`), `GateTold` [two setters] | a key mapped just before a crash stays mapped; a viewer may be told of the gate out of order |
| StdioServer | `CheckpointEnds`, `ExitHeard`, `KilledDies`, `InputAnswered` | a full pipe holds up answers, exits and kills |
| AsyncSandbox | `DropStops` | the guest's side of a dropped stream ends only with its next event |
| VmLaunch | `RetiredIsBusy` [two slots], `StopHearsEgress` (part `netd`) | a slot is retired with nothing left in it; the last count may answer an earlier request |
| RequestHeads | `RewritesSmallHeads` [`MAX_HEAD` 6] | whether a head over the cap is tunnelled depends on the split |
| EgressPolicy | `LateIsRefused` | a connection between close and exit goes upstream unrecorded |
| EgressPolicy | `ToldIsPinned` (part `allow`) | another answer evicts an address before the guest is told of it |
| GuestControl | `DiscardSparesWrites` (part `overlay`) | a discard below an opaque directory removes the directory with all that was written in it, where the comment at `main.rs:1091` only has its mark removed |
| GuestTree | `CopyOntoItself` | a file copied onto itself, by its path or through a link, is emptied |
| ScreenStream | `KeyframeAlwaysOwed` | a keyframe that fails in the encoder is not made again until the viewer asks |
| ContentStore | `ImplementsDisk` [`lapses` 1 with a base image] | the lease ends while the saving thread ingests a chunk of the base; the guest writes and flushes it, and `set_hash` (`cas.rs:448`) puts the base's back |
| ContentStore | `DropCanJoin`, `PublishedIsDurable` | the server may wait for a client taken during the drop; `put` trusts a chunk another process has not synced |
| DiskSave | `OneSaver` [`MaxSaves` 2] | as finding 4 |
| Sandboxes | `UsageTellsLastRun` | `hold` clears `alive` before it keeps what the run used |

`GuestControl`: a connection thread that copied the identity before a restore
still accepts the token from before; `RestoredShutsOut` is stated of the
connections accepted after the restore was answered. `BootTellsDisk` holds only
where saving the record does not fail: with "save" in `Fallible` a boot may go on
from a record that was not written.

## Proofs

Eight modules prove 35 listed theorems. Each inductive invariant was first checked by
TLC on the run's instance (that of `VsockConnection` still is, in `to_host`). A
proof of an invariant has a lemma per action or group of actions, with a step
per conjunct the action can disturb.

**VsockConnectionProofs**, from `SizesAssumption`
(`0 < MaxPacket <= BufferSize`, and `BufferSize + SocketSize`, `SendSize`, a packet's
length and the guest's window all below `W`, which `BUFFER_SIZE`, `MAX_PACKET` and
`u32` satisfy): `ConnectionInvariant`, `ConnectionTypes`,
`BufferIsBounded`, `DeadlineLosesNothing`, `SendsWithinCredit`, `GuestBytesInOrder`,
`FailedConnectIsGone`, `ClientBytesInOrder`. `BufferBounded` is not inductive: a packet is admitted by its
distance to `advertised`, while what is queued is the distance of `received` to
`forwarded`. `WindowInv` ties the three: on the circle of the counters they lie in
the order advertised, forwarded, received, at most `BufferSize` apart, and the
queue holds exactly the bytes between the last two. `CloseInv` says that the write
side closes behind the last byte. For the order of bytes, `StreamInv` says
that the socket holds, behind the greeting, the bytes from `clientGot` up to
`forwarded`, and the queue those from `forwarded` on, so that a byte straight from
guest memory and one through the queue land in the same sequence.

For the other direction, `ClientBytesInOrder` proves `SentInOrder`: the payloads in the
rx buffers, joined, and what the socket still holds are consecutive bytes of the
client, the first of them as far behind `sent` as the payloads are long. The join
is a recursive function over the sequence of payloads; that it has a solution and
what it does to an appended and to a removed payload is shown by hand, each with
the least index where it would fail (`UpTo`). `SentInv` adds that no more payloads
than buffers are on their way and none is longer than its buffer. This theorem also
needs `InFlightAssumption`: what the rx buffers and the socket hold together is less
than the counters tell apart. In the code that is 256 buffers of at most 64 KiB and
the socket, against 2^32.

**VsockTransportProofs**, for rings, batches and reset queues of every size:
`NoTxForgotten`, `NoInterruptLost`, `ConservesBuffers`, `TypeCorrect`. `KicksOn` says that
outside the fences of a pass kicks are on, or a store that turns them on is in
the buffer; `Outstanding` which stores can be in the buffer at each point of a
pass; `Woken` that what the guest sent wakes the worker, or will when the device
is resumed; `Paid` that a used buffer is paid for by an interrupt, by the end of
the pass (`Owed`) or by a driver that is still looking; `Conserved` that the counts
of a ring add up to its size.

**VsockMuxProofs**, for any number of callers, clients, connections, ports and
resets: `NoSocketForgotten`, `CancelsOwnOnly`, `WaitsForGuest`, `NoneStarves`, `ResetsFit`.
`Room` (pending resets and open connections fit the queue) is what keeps a reset
from being dropped; `Hearing` says that a connection the guest has and the device
has not is reset after it; `Calling` ties the caller of a connect to its
connection; `Awaiting` says that until the guest handled its reset event the device
knows that it has not, or has failed; `Turns` orders the connections by who was
passed over.

**SandboxesProofs**, for any number of requests, sandboxes (finite), names, slots
and crashes, and for every `Fallible`: `NeverTwoVms`, `DiskReplacedAtRest`,
`ConservesSlots`, `BootsAreRecorded`, `LoadTakesEvery`, `NamesLeadToDirs`,
`ShutdownLeavesNone`, and `BootNamesDisk` where saving the record does not fail. The
invariant says who holds each lock and in which states
(`Locks`), what a task that holds it knows (`TasksKnow`, `Quiet`), that an unlocked
sandbox is whole (`UnlockedInPlace`), that a VM is owned by one slot and one entry
or one task (`Vms`, `SlotsKept`), and what the record and directory hold while it
runs (`Recorded`, `NamesLead`). `BootNamesDisk` needs a second one on top, `BootInv`:
of a sandbox in place no boot was answered that is later than its record, the
one in the record was answered only for the disk as it is, and then no VM runs
and no restore is about to replace the disk (`Told`); a boot that a start or a
restore has taken and not yet written is later than the record (`Later`); a crash
goes on from the highest record in place (`LoadNumbers`). The hypothesis is needed:
with a save that fails TLC finds a boot answered for two disks.

**ContentStoreProofs**, from `StoreConstants` (sizes are positive, starts and commands
are well formed, and no put, of this process or another, is left between its rename
and its sync where the power may fail) and `SealHolds` (over a base image the lease
outlasts the save; without one it may end during it): `StoreImplementsDisk`, the
refinement, and `NothingMissing`. Besides
types, the invariant says that every hash an index names is stored (`Stored`),
that what a thread has read of a chunk is what the abstract disk holds there
even if the other thread ingests it meanwhile (`Reading`), and what a command and
a save under way have done so far (`Serving`, `Saving`). Each step is shown to leave
the abstract disk alone or to be one of its actions. The assumption on
puts is needed: without it a chunk may be published and then lost (`PublishedIsDurable`);
with it a power failure is a crash. `SealHolds` is needed as well: it is what the comment
"The caller holds the guest seal throughout this operation" on `save_index` asks of the
caller, and what a lease that ends during a long save takes away (see the table above).
The save whose lease ended is discarded by `save_disk`, but the write it undid in
the running disk stays undone.

**IdleParkProofs**, for any number of requests and any timeouts: `RequestsAreSpared`,
`SessionsAreSpared` and `TypeCorrect`. `busy` counts the open requests
(`BusyCounts`), and a session that started after the guest answered was started
by a request that is still open or restarted the clock when it ended, so the
clock shows no more than the time since the answer (`StartedSince`). That time is
at most `Poll + NetdLimit + 2 * HoldLimit`. `SessionsAreSpared` therefore needs
`After > Poll + NetdLimit + 2 * HoldLimit`, and the condition is exact: with `After` equal to
the sum TLC finds a session stopped. The node does not enforce it, which is
finding 3.

**SessionOutputProofs**, for any number of clients, every load, and every size of the
ring and the queues with at least one run and one frame of stdin
(`SessionConstants`, which also keeps the names of clients and streams apart; the
instance in `guest` and the code's constants satisfy it): `SessionOutputInOrder` and
`SessionIsSafe`, which is the invariant that `guest` checks of a session. `OutputGapless`
is not inductive: `fill` starts at the later of the cursor and the ring's start, so
that a byte is skipped unless the ring kept it. `Rings` says that it did (`start` is
not past any attached cursor, and there are at most `MaxRuns` runs), and its step
through `read_output` is the lemma `DropKeeps`: what `room` lets in makes `drop_front` drop
nothing that a client needs. The lemma counts the runs of a log before and after a
read (`AppendedRuns`, `RunsFewer`): a read adds one run at most, so at most the first run
goes, and `room` answered 0 if a client still needed that one. `Feeds` says that what is
queued for a client goes on from what it was sent up to its cursor, and ends with
EXIT when it closes; `Settles` that a settle has seen every client that is not left to
see, which is what `LoopNotStuck` needs when `Register` puts the loop to sleep.

**SessionHubProofs**, for any number of clients, hubs, slots and units and every limit
(`HubConstants`: the starter does not also attach, and names are apart):
`OneHubConnection`, `HubGapless`, `HubOwner`. `Locks` says that who holds a slot holds the
one in the map, and alone; `Starts` that while a start has no hub nobody opens one;
`Conns` that a connection belongs to the hub in the slot of the map, from which there
is one at most. `Reached` says that a client on a hub has, with its queue, everything
up to the hub's end, and `ExitTold` that the exit is told only after the session wrote
its last unit.

Model-checked only: liveness and `HubNotStuck`, since fairness and `ENABLED` are outside
the prover's reach; and the parts of `guest` and `node` other than the content store,
`SessionOutput` and `SessionHub`, which have no proofs yet.

## Plan

1. Proofs for the budgets and queues of `NetStack` and the tables of `VirtioFs`, where
   the invariants of `guest` and `node` are closest to inductive.
2. `configure` and `checkpoint` of the node as actions of `Sandboxes`.
