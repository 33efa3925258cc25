---------------------------- MODULE ContentStore ----------------------------
(***************************************************************************)
(* shuru-store: a disk served over NBD from content-addressed chunks.      *)
(* CasBackend keeps written chunks in memory (dirty), an index of hashes,  *)
(* the indexes of its parents and a base image under them; read_chunk      *)
(* takes a chunk from the first of these that has it and ingests what it   *)
(* reads of the base.  The NBD thread serves one client at a time; another *)
(* thread saves checkpoints (save_index) and stops the server (Drop).  The *)
(* guest is sealed for a save under a lease, which may end before the save *)
(* does.  A hash is modelled by the content it names.                      *)
(***************************************************************************)
EXTENDS Integers, Sequences, FiniteSets

CONSTANTS
    Chunks,         \* the chunks of the disk are 0..Chunks-1
    CHUNK_SIZE,
    Requests,       \* the commands: [kind, at, len, data]
    Starts,         \* what a disk without a checkpoint starts from: [index, parents, base]
    Budgets         \* bounds, one of them in each behaviour: [cmds, saves, faults, runs,
                    \* others, cuts, lapses, power], with the puts of other processes, the
                    \* puts that fail after their rename, the leases that end during a
                    \* save, and whether the power may fail

Zero == <<>>        \* ZERO_CHUNK_HASH
Bytes == {0, 1}
Contents == UNION {[1..n -> Bytes] : n \in 1..CHUNK_SIZE}
Index == 0..(Chunks - 1)
Addresses == 1..(Chunks * CHUNK_SIZE)
Min2(a, b) == IF a < b THEN a ELSE b

\* What the proofs assume of the constants: commands within the disk, images
\* of chunks, and no put left halfway, by this process or another, before the
\* power fails.
StoreConstants ==
    /\ Chunks \in Nat \ {0} /\ CHUNK_SIZE \in Nat \ {0}
    /\ \A r \in Requests :
          /\ r.kind \in {"read", "write", "flush", "other"} /\ r.at \in Nat /\ r.len \in Nat
          /\ r.data \in Seq(Bytes)
          /\ r.at + (IF r.kind = "read" THEN r.len ELSE Len(r.data)) <= Chunks * CHUNK_SIZE
    /\ \A s \in Starts :
          /\ s.index \in [Index -> Contents \union {Zero}] /\ s.base \in Seq(Bytes)
          /\ s.parents \in Seq([Index -> Contents \union {Zero}])
    /\ \A b \in Budgets :
          /\ b \in [cmds: Nat, saves: Nat, faults: Nat, runs: Nat, others: Nat, cuts: Nat,
                    lapses: Nat, power: BOOLEAN]
          /\ b.power => b.others = 0 /\ b.cuts = 0

\* The seal outlasts the save, or no base image is under the disk.
SealHolds == \A b \in Budgets, s \in Starts : b.lapses = 0 \/ s.base = <<>>

VARIABLES
    store,          \* content -> "absent", "seen" (renamed, not yet durable) or "durable"
    index, parents, base, dirty,
    file,           \* the published checkpoint's hashes, or <<>>
    server,         \* the NBD thread: [at, fd, told], and Drop: [drop, shut, knock]
    client,         \* "none", "options" or "commands"
    cmd,            \* the command being served: [kind, at, len, data, got]
    reply,
    rc,             \* thread -> its read_chunk: [at, chunk, data]
    save,           \* save_index: [at, next, hashes, sealed], sealed while the lease lasts
    left            \* what of the bounds is left

vars == <<store, index, parents, base, dirty, file, server, client, cmd, reply, rc, save, left>>

NoCmd == [kind |-> "none", at |-> 0, len |-> 0, data |-> <<>>, got |-> <<>>]
NoRead == [at |-> "none", chunk |-> 0, data |-> <<>>]
Begins(i) == [at |-> "dirty", chunk |-> i, data |-> <<>>]
NoSave == [at |-> "none", next |-> 0, hashes |-> <<>>, sealed |-> FALSE]
Listening == [at |-> "accept", fd |-> FALSE, drop |-> "none", shut |-> FALSE, knock |-> FALSE]
NoReply == [status |-> "ok", data |-> <<>>]
Refused == [status |-> "error", data |-> <<>>]
NoDirty == [i \in Index |-> Zero]

\* start_cas_nbd_server: the checkpoint's index, or an index and base image
\* read lazily.
Named(s) == {s.index[i] : i \in Index} \union UNION {{p[i] : i \in Index} : p \in {s.parents[k] : k \in DOMAIN s.parents}}
Opens(s) == index = s.index /\ parents = s.parents /\ base = s.base

Init ==
    /\ \E s \in Starts : Opens(s)
    /\ store = [c \in Contents |-> IF \E s \in Starts : c \in Named(s) THEN "durable" ELSE "absent"]
    /\ dirty = NoDirty /\ file = <<>>
    /\ server = Listening /\ client = "none" /\ cmd = NoCmd /\ reply = NoReply
    /\ rc = [t \in {"nbd", "save"} |-> NoRead] /\ save = NoSave
    /\ left \in Budgets

----------------------------------------------------------------------------
(* The chunk store. *)

\* LocalChunkStore.put: a chunk already there is left alone; another is
\* written, synced, renamed, and its directory synced.
Put(s, c) == IF s[c] # "absent" THEN s ELSE [k \in Contents |-> IF k = c \/ s[k] = "seen" THEN "durable" ELSE s[k]]

\* A put that fails, before its rename or after it, when the directory is not
\* synced.
PutFails(c) ==
    \/ /\ left.faults > 0 /\ left' = [left EXCEPT !.faults = @ - 1]
       /\ UNCHANGED store
    \/ /\ left.cuts > 0 /\ left' = [left EXCEPT !.cuts = @ - 1]
       /\ store[c] = "absent" /\ store' = [store EXCEPT ![c] = "seen"]

\* fetch_chunk: zeros for a chunk that is gone.
fetch_chunk(h) == IF store[h] # "absent" THEN h ELSE [i \in 1..CHUNK_SIZE |-> 0]

\* Another process putting the same content, between its rename and its sync.
OtherPuts ==
    /\ \/ /\ left.others > 0 /\ left' = [left EXCEPT !.others = @ - 1]
          /\ \E c \in Contents : store[c] = "absent" /\ Len(c) = CHUNK_SIZE /\ store' = [store EXCEPT ![c] = "seen"]
       \/ (\E c \in Contents : store[c] = "seen" /\ store' = [store EXCEPT ![c] = "durable"]) /\ UNCHANGED left
    /\ UNCHANGED <<index, parents, base, dirty, file, server, client, cmd, reply, rc, save>>

----------------------------------------------------------------------------
(* read_chunk, in the NBD thread or the saving one: a look at dirty, a     *)
(* look at the indexes and the base, and the ingestion of a base chunk,    *)
(* each under its own lock.                                                *)

AllZero(c) == \A i \in DOMAIN c : c[i] = 0
ZeroChunk == [i \in 1..CHUNK_SIZE |-> 0]

\* The part of the base image in chunk i, which the end of the file may cut.
BaseChunk(i) ==
    LET from == i * CHUNK_SIZE IN SubSeq(base, from + 1, Min2(from + CHUNK_SIZE, Len(base)))

\* The hash in an index, or the first in its parents that is not ZERO.
Resolves(own, chain, i) ==
    LET having == {k \in DOMAIN chain : chain[k][i] # Zero}
    IN IF own[i] # Zero THEN own[i]
       ELSE IF having = {} THEN Zero ELSE chain[CHOOSE k \in having : \A m \in having : k <= m][i]

\* read_chunk of thread t gets on, having data.
Moves(t, at, data) == rc' = [rc EXCEPT ![t] = [at |-> at, chunk |-> rc[t].chunk, data |-> data]]

\* The index and its parents, and under them the base image.
looks(t) ==
    LET i == rc[t].chunk
        h == Resolves(index, parents, i)
    IN /\ rc[t].at = "index"
       /\ IF h # Zero THEN Moves(t, "done", fetch_chunk(h))
          ELSE IF i * CHUNK_SIZE < Len(base) /\ ~AllZero(BaseChunk(i))
          THEN Moves(t, "put", BaseChunk(i)) ELSE Moves(t, "done", ZeroChunk)
       /\ UNCHANGED <<store, index, parents, base, dirty, file, server, client, cmd, reply, save, left>>

read_chunk(t) ==
    LET i == rc[t].chunk
        data == rc[t].data
    IN /\ \/ /\ rc[t].at = "dirty"
             /\ IF dirty[i] # Zero THEN Moves(t, "done", dirty[i]) ELSE Moves(t, "index", data)
             /\ UNCHANGED <<store, index, left>>
          \/ /\ rc[t].at = "put"
             /\ store' = Put(store, data) /\ Moves(t, "set", data)
             /\ UNCHANGED <<index, left>>
          \/ /\ rc[t].at = "set"
             /\ index' = [index EXCEPT ![i] = data] /\ Moves(t, "done", data)
             /\ UNCHANGED <<store, left>>
          \/ /\ rc[t].at = "index" /\ left.faults > 0
             /\ left' = [left EXCEPT !.faults = @ - 1]
             /\ Moves(t, "failed", data)
             /\ UNCHANGED <<store, index>>
          \/ /\ rc[t].at = "put" /\ PutFails(data)
             /\ Moves(t, "failed", data)
             /\ UNCHANGED index
       /\ UNCHANGED <<parents, base, dirty, file, server, client, cmd, reply, save>>

----------------------------------------------------------------------------
(* CasBackend.flush, under both locks: every dirty chunk is put and then   *)
(* indexed; a put that fails leaves the rest dirty and is itself left      *)
(* unsynced when its directory could not be synced.                        *)

Flush(done, cut) ==
    /\ store' = [c \in Contents |->
                   IF store[c] # "absent" THEN store[c]
                   ELSE IF \E i \in done : dirty[i] = c THEN "durable"
                   ELSE IF \E i \in cut : dirty[i] = c THEN "seen" ELSE "absent"]
    /\ index' = [i \in Index |-> IF i \in done THEN dirty[i] ELSE index[i]]
Dirty == {i \in Index : dirty[i] # Zero}
Fault == left.faults > 0 /\ left' = [left EXCEPT !.faults = @ - 1]
Flushes == Flush(Dirty, {}) /\ dirty' = NoDirty /\ UNCHANGED left
FlushFails ==
    /\ \E done \in SUBSET Dirty :
          /\ done # Dirty
          /\ \/ Flush(done, {}) /\ Fault
             \/ /\ left.cuts > 0 /\ left' = [left EXCEPT !.cuts = @ - 1]
                /\ \E i \in Dirty \ done : Flush(done, {i})
    /\ UNCHANGED dirty

----------------------------------------------------------------------------
(* The NBD thread. *)

\* The accept loop takes a client, or Drop's knock.
accept ==
    /\ server.at = "accept"
    /\ \/ /\ client = "asks"
          /\ server' = [server EXCEPT !.at = IF server.shut THEN "stopped" ELSE "taken"]
       \/ server.knock /\ server' = [server EXCEPT !.at = "stopped"]
    /\ UNCHANGED <<store, index, parents, base, dirty, file, client, cmd, reply, rc, save, left>>

\* active_fd is stored after the check of the shutdown channel.
stores_fd ==
    /\ server.at = "taken"
    /\ server' = [server EXCEPT !.at = "client", !.fd = TRUE]
    /\ client' = "options"
    /\ UNCHANGED <<store, index, parents, base, dirty, file, cmd, reply, rc, save, left>>

\* handshake: INFO and unknown options are answered and leave the client in
\* the loop; GO and EXPORT_NAME start transmission; ABORT ends the session.
handshake ==
    /\ server.at = "client" /\ client = "options"
    /\ \/ client' = "commands" /\ UNCHANGED server
       \/ client' = "none" /\ server' = [server EXCEPT !.at = "accept", !.fd = FALSE]
    /\ UNCHANGED <<store, index, parents, base, dirty, file, cmd, reply, rc, save, left>>

\* transmission reads a command.  External: a guest that is sealed writes
\* nothing.
transmission ==
    /\ server.at = "client" /\ client = "commands" /\ cmd = NoCmd
    /\ left.cmds > 0 /\ left' = [left EXCEPT !.cmds = @ - 1]
    /\ \E r \in Requests :
          /\ r.kind = "write" => ~save.sealed
          /\ cmd' = [kind |-> r.kind, at |-> r.at, len |-> r.len, data |-> r.data, got |-> <<>>]
    /\ UNCHANGED <<store, index, parents, base, dirty, file, server, client, reply, rc, save>>

Position == IF cmd.kind = "read" THEN cmd.at + Len(cmd.got) ELSE cmd.at
Wanted == IF cmd.kind = "read" THEN cmd.len - Len(cmd.got) ELSE Len(cmd.data)
InChunk == Position % CHUNK_SIZE
Piece == Min2(CHUNK_SIZE - InChunk, Wanted)

\* The loops of read and write, a chunk at a time.
BeginsChunk ==
    /\ cmd.kind \in {"read", "write"} /\ Wanted > 0 /\ rc["nbd"] = NoRead
    /\ rc' = [rc EXCEPT !["nbd"] = Begins(Position \div CHUNK_SIZE)]
    /\ UNCHANGED <<store, index, parents, base, dirty, file, server, client, cmd, reply, save, left>>

Byte(c, i) == IF i \in DOMAIN c THEN c[i] ELSE 0

\* A chunk shorter than what is read of it is filled with zeros.
read ==
    /\ cmd.kind = "read" /\ rc["nbd"].at = "done"
    /\ cmd' = [cmd EXCEPT !.got = @ \o [k \in 1..Piece |-> Byte(rc["nbd"].data, InChunk + k)]]
    /\ rc' = [rc EXCEPT !["nbd"] = NoRead]
    /\ UNCHANGED <<store, index, parents, base, dirty, file, server, client, reply, save, left>>

\* A chunk, resized when it is short, with n bytes of data over it after o.
Overwrite(old, data, o, n) ==
    LET len == IF Len(old) < o + n THEN o + n ELSE Len(old)
    IN [k \in 1..len |-> IF k - o \in 1..n THEN data[k - o] ELSE Byte(old, k)]

write ==
    /\ cmd.kind = "write" /\ rc["nbd"].at = "done"
    /\ dirty' = [dirty EXCEPT ![rc["nbd"].chunk] = Overwrite(rc["nbd"].data, cmd.data, InChunk, Piece)]
    /\ cmd' = [kind |-> "write", at |-> cmd.at + Piece, len |-> cmd.len,
               data |-> SubSeq(cmd.data, Piece + 1, Len(cmd.data)), got |-> cmd.got]
    /\ rc' = [rc EXCEPT !["nbd"] = NoRead]
    /\ UNCHANGED <<store, index, parents, base, file, server, client, reply, save, left>>

\* send_reply, after the loops or flush, EIO for what failed and EINVAL for a
\* command it does not know.
send_reply ==
    /\ \/ /\ cmd.kind \in {"read", "write"} /\ Wanted = 0
          /\ reply' = [status |-> "ok", data |-> IF cmd.kind = "read" THEN cmd.got ELSE <<>>]
          /\ UNCHANGED <<store, index, dirty, left>>
       \/ /\ rc["nbd"].at = "failed" /\ reply' = Refused
          /\ UNCHANGED <<store, index, dirty, left>>
       \/ cmd.kind = "other" /\ reply' = Refused /\ UNCHANGED <<store, index, dirty, left>>
       \/ cmd.kind = "flush" /\ Flushes /\ reply' = NoReply
       \/ cmd.kind = "flush" /\ FlushFails /\ reply' = Refused
    /\ cmd' = NoCmd /\ rc' = [rc EXCEPT !["nbd"] = NoRead]
    /\ UNCHANGED <<parents, base, file, server, client, save>>

\* handle_client returns: DISC, or a read or write of a stream that ended.
EndsClient ==
    /\ server.at = "client" /\ client = "gone" /\ rc["nbd"] = NoRead
    /\ server' = [server EXCEPT !.at = "accept", !.fd = FALSE]
    /\ client' = "none" /\ cmd' = NoCmd
    /\ UNCHANGED <<store, index, parents, base, dirty, file, reply, rc, save, left>>

\* External: the VM's NBD client connects, and disconnects.
Client ==
    /\ \/ client = "none" /\ client' = "asks"
       \/ client \in {"options", "commands"} /\ client' = "gone"
    /\ UNCHANGED <<store, index, parents, base, dirty, file, server, cmd, reply, rc, save, left>>

----------------------------------------------------------------------------
(* save_index: flush, the hashes of the chain, the base chunks that no     *)
(* index has, and the file.                                                *)

SaveFails == save' = NoSave

\* External: the lease of the seal ends, and the guest thaws.
LeaseEnds ==
    /\ save.sealed /\ left.lapses > 0
    /\ left' = [left EXCEPT !.lapses = @ - 1]
    /\ save' = [save EXCEPT !.sealed = FALSE]
    /\ UNCHANGED <<store, index, parents, base, dirty, file, server, client, cmd, reply, rc>>

\* Mutant: save_index that leaves out the parents' hashes.
OwnHashes == index

\* The hashes of a standalone index.
Collected == [i \in Index |-> Resolves(index, parents, i)]

save_index ==
    /\ server.drop = "none"
    /\ \/ /\ save.at = "none" /\ left.saves > 0 /\ cmd.kind # "write"
          /\ save' = [at |-> "flush", next |-> 0, hashes |-> <<>>, sealed |-> TRUE]
          /\ left' = [left EXCEPT !.saves = @ - 1]
          /\ UNCHANGED <<store, index, dirty>>
       \/ save.at = "flush" /\ Flushes /\ save' = [save EXCEPT !.at = "collect"]
       \/ save.at = "flush" /\ FlushFails /\ SaveFails
       \/ /\ save.at = "collect"
          /\ save' = [at |-> "base", next |-> 0, hashes |-> Collected, sealed |-> save.sealed]
          /\ UNCHANGED <<store, index, dirty, left>>
    /\ UNCHANGED <<parents, base, file, server, client, cmd, reply, rc>>

\* The loop over the chunks of the base image.
SaveBase ==
    LET i == save.next
        data == rc["save"].data
        ingests == save.hashes[i] = Zero /\ i * CHUNK_SIZE < Len(base)
    IN /\ save.at = "base" /\ i < Chunks
       /\ \/ ~ingests /\ save' = [save EXCEPT !.next = @ + 1] /\ UNCHANGED <<store, rc, left>>
          \/ /\ ingests /\ rc["save"] = NoRead
             /\ rc' = [rc EXCEPT !["save"] = Begins(i)]
             /\ UNCHANGED <<store, save, left>>
          \/ /\ rc["save"].at = "done"
             /\ store' = IF AllZero(data) THEN store ELSE Put(store, data)
             /\ save' = [at |-> "base", next |-> i + 1,
                        hashes |-> [save.hashes EXCEPT ![i] = IF AllZero(data) THEN Zero ELSE data],
                        sealed |-> save.sealed]
             /\ rc' = [rc EXCEPT !["save"] = NoRead]
             /\ UNCHANGED left
          \/ /\ \/ rc["save"].at = "failed" /\ UNCHANGED <<store, left>>
                \/ rc["save"].at = "done" /\ ~AllZero(data) /\ PutFails(data)
             /\ SaveFails /\ rc' = [rc EXCEPT !["save"] = NoRead]
       /\ UNCHANGED <<index, parents, base, dirty, file, server, client, cmd, reply>>

\* ChunkIndex.save into the staging file, which the caller publishes when the
\* guest answers that its lease lasted.
SaveWrites ==
    /\ save.at = "base" /\ save.next = Chunks
    /\ \/ save.sealed /\ file' = save.hashes /\ UNCHANGED left
       \/ ~save.sealed /\ UNCHANGED <<file, left>>
       \/ Fault /\ UNCHANGED file
    /\ save' = NoSave
    /\ UNCHANGED <<store, index, parents, base, dirty, server, client, cmd, reply, rc>>

----------------------------------------------------------------------------
(* NbdHandle.drop, and the next run. *)

\* flush, the shutdown message, the shutdown of the descriptor it reads in
\* active_fd, and the knock on the socket before it joins the thread.
drop ==
    /\ save = NoSave
    /\ \/ /\ server.drop = "none"
          /\ Flushes \/ FlushFails
          /\ server' = [server EXCEPT !.drop = "send", !.shut = TRUE] /\ UNCHANGED client
       \/ /\ server.drop = "send"
          /\ server' = [server EXCEPT !.drop = "joined", !.knock = TRUE]
          /\ client' = IF server.fd /\ client \in {"options", "commands"} THEN "gone" ELSE client
          /\ UNCHANGED <<store, index, dirty, left>>
    /\ UNCHANGED <<parents, base, file, cmd, reply, rc, save>>

\* The next run: from the checkpoint's index, which has no parent and no
\* base, or from an image.
NextRun ==
    /\ left.runs > 0
    /\ left' = [left EXCEPT !.runs = @ - 1]
    /\ IF file # <<>> THEN index' = file /\ parents' = <<>> /\ base' = <<>>
       ELSE \E s \in Starts : index' = s.index /\ parents' = s.parents /\ base' = s.base
    /\ dirty' = NoDirty /\ server' = Listening /\ client' = "none" /\ cmd' = NoCmd
    /\ rc' = [t \in {"nbd", "save"} |-> NoRead] /\ save' = NoSave
    /\ UNCHANGED <<file, reply>>

start_cas_nbd_server == server.at = "stopped" /\ server.drop = "joined" /\ NextRun /\ UNCHANGED store
crash == NextRun /\ UNCHANGED store

\* The power fails: a rename whose directory was not synced may be undone.
power_fails ==
    /\ left.power /\ NextRun
    /\ \E lost \in SUBSET {c \in Contents : store[c] = "seen"} :
          store' = [c \in Contents |-> IF c \in lost THEN "absent"
                                       ELSE IF store[c] = "seen" THEN "durable" ELSE store[c]]

Next ==
    \/ OtherPuts \/ accept \/ stores_fd \/ handshake \/ transmission \/ BeginsChunk \/ read \/ write
    \/ send_reply \/ EndsClient \/ Client \/ save_index \/ SaveBase \/ SaveWrites \/ LeaseEnds \/ drop
    \/ start_cas_nbd_server \/ crash \/ power_fails
    \/ \E t \in {"nbd", "save"} : read_chunk(t) \/ looks(t)

Spec == Init /\ [][Next]_vars

----------------------------------------------------------------------------
(* Properties. *)

\* Byte k of chunk i, as the dirty chunks, the indexes and the base image
\* stand for it, and address a as a byte of a chunk.
Based(image, i, k) == IF i * CHUNK_SIZE + k <= Len(image) THEN image[i * CHUNK_SIZE + k] ELSE 0
Held(i, k) ==
    LET h == Resolves(index, parents, i)
    IN IF dirty[i] # Zero THEN Byte(dirty[i], k)
       ELSE IF h # Zero THEN Byte(fetch_chunk(h), k) ELSE Based(base, i, k)
ChunkOf(a) == (a - 1) \div CHUNK_SIZE
OffsetOf(a) == ((a - 1) % CHUNK_SIZE) + 1

\* The images of Starts.
ImageOf(s) ==
    [a \in Addresses |->
        LET h == Resolves(s.index, s.parents, ChunkOf(a))
        IN IF h # Zero THEN Byte(h, OffsetOf(a)) ELSE Based(s.base, ChunkOf(a), OffsetOf(a))]

\* The disk the guest sees, its command, and the disk a checkpoint has.
DiskNow == [a \in Addresses |-> Held(ChunkOf(a), OffsetOf(a))]
Command == [kind |-> cmd.kind, at |-> cmd.at, len |-> cmd.len, data |-> cmd.data]
Saved(hash, k) == IF hash = Zero THEN 0 ELSE Byte(fetch_chunk(hash), k)
Checkpoint == IF file = <<>> THEN <<>> ELSE [a \in Addresses |-> Saved(file[ChunkOf(a)], OffsetOf(a))]

D == INSTANCE Disk WITH
        Images <- {ImageOf(s) : s \in Starts},
        disk <- DiskNow, req <- Command, reply <- reply, saved <- Checkpoint

\* The backend implements Disk: whatever ingestion, flushes, failed puts,
\* checkpoints, crashes and restarts interleave, a read answers with what was
\* last written, a checkpoint is the disk at one moment and the next run has it.
\* "The caller holds the guest seal throughout this operation": that much is
\* assumed (SealHolds).  Violated where the lease ends while save_index ingests
\* a chunk of a base image: a write and flush of that chunk is undone when
\* read_chunk of the saving thread sets the hash of the base's.
ImplementsDisk == D!Spec

\* Every hash an index names is in the store, so no read answers zeros for a
\* chunk that is gone; a checkpoint's hold once it is published.
HashesAreStored ==
    /\ \A i \in Index : index[i] # Zero => store[index[i]] # "absent"
    /\ file # <<>> => \A i \in Index : file[i] # Zero => store[file[i]] # "absent"

\* Drop joins a thread that can end: it has the knock to accept, or its client
\* was shut down.  Violated: a client taken between the check of the channel
\* and the store of active_fd is not, and the join waits for it.
DropCanJoin ==
    server.drop = "joined" /\ server.at = "client" => client = "gone" \/ client = "none"

\* "Durability starts at publication": the chunks of a published checkpoint
\* survive the power.  Violated where the power fails: put leaves a chunk another process
\* renamed but has not synced.
PublishedIsDurable == file # <<>> => \A i \in Index : file[i] # Zero => store[file[i]] = "durable"
=============================================================================
