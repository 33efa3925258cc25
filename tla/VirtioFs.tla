------------------------------ MODULE VirtioFs ------------------------------
(***************************************************************************)
(* The virtio-fs device (shuru-linux kvm/virtio_fs.rs): FUSE requests of   *)
(* the guest's kernel served from a directory of the host.  The device     *)
(* keeps a table of the inodes it told the guest about, each with the path *)
(* it was first found at and the references the guest holds, and a table   *)
(* of open files.  Both have a limit.                                      *)
(*                                                                         *)
(* One thread serves the queue, so a request is one action; the host's own *)
(* programs change the directory in between.  Attributes, bytes and the    *)
(* layout of messages are left out: a file is its inode number and a count *)
(* of the changes to it.                                                   *)
(***************************************************************************)
EXTENDS Integers, Sequences, FiniteSets, SequencesExt, Functions

CONSTANTS Names,            \* names in a directory
          Depth,            \* bound: the longest path
          Inos,             \* inode numbers of the host, given again after a removal
          MAX_INODES, MAX_OPEN_FILES,
          Window,           \* entries that fit a READDIR reply
          ForgetHasReply,   \* whether the driver leaves room for a reply to FORGET
          MaxOps, MaxHost   \* bounds: requests of the guest, changes by the host

VARIABLES read_only,  \* whether the share is mounted read only
          host,     \* the entries below the shared directory, in the order it lists them
          inodes,   \* by_id: nodeid -> [path, ref, ino]
          next,     \* the next nodeid
          fhs,      \* the open files: handle -> inode number
          nextFh,
          held,     \* the references the guest's kernel counts, by nodeid
          listing,  \* a listing the guest has begun
          told,     \* the nodeid or handle of the last reply
          left      \* [ops, host]: what may still happen

vars == <<read_only, host, inodes, next, fhs, nextFh, held, listing, told, left>>

ROOT == 1
NoListing == [dir |-> 0, off |-> 0, seen |-> <<>>]

Start == IF read_only THEN <<[path |-> <<CHOOSE n \in Names : TRUE>>, ino |-> 1, dir |-> FALSE, changes |-> 0]>>
         ELSE <<>>

Init ==
  /\ read_only \in BOOLEAN
  /\ host = Start
  /\ inodes = (ROOT :> [path |-> <<>>, ref |-> 1, ino |-> 0])
  /\ next = 2
  /\ fhs = <<>> /\ nextFh = 1
  /\ held = (ROOT :> 1)
  /\ listing = NoListing
  /\ told = 1
  /\ left = [ops |-> MaxOps, host |-> MaxHost]

-----------------------------------------------------------------------------
(* The directory of the host. *)

At(p) == {i \in DOMAIN host : host[i].path = p}
Exists(p) == At(p) # {}
Entry(p) == host[CHOOSE i \in At(p) : TRUE]
IsDir(p) == p = <<>> \/ (Exists(p) /\ Entry(p).dir)
Under(p) == SelectSeq(host, LAMBDA e : Len(e.path) = Len(p) + 1 /\ IsPrefix(p, e.path))
Free == Inos \ {host[i].ino : i \in DOMAIN host}

Made(p, dir) == Append(host, [path |-> p, ino |-> CHOOSE n \in Free : \A m \in Free : n <= m,
                              dir |-> dir, changes |-> 0])
Removed(p) == SelectSeq(host, LAMBDA e : e.path # p)
Changed(ino) == [i \in DOMAIN host |-> IF host[i].ino = ino
                                       THEN [host[i] EXCEPT !.changes = 1 - @] ELSE host[i]]

\* rename(2): what was at the new path goes, everything below the old one moves.
Renamed(old, new) ==
  LET kept == SelectSeq(host, LAMBDA e : e.path # new)
  IN  [i \in DOMAIN kept |->
         IF IsPrefix(old, kept[i].path)
         THEN [kept[i] EXCEPT !.path = new \o SubSeq(@, Len(old) + 1, Len(@))]
         ELSE kept[i]]
MayRename(old, new) ==
  /\ Exists(old) /\ IsDir(Front(new)) /\ ~IsPrefix(old, new)
  /\ Exists(new) => /\ Entry(new).dir = Entry(old).dir
                    /\ Under(new) = <<>>
  /\ \A i \in DOMAIN host : IsPrefix(old, host[i].path) => Len(new) + Len(host[i].path) - Len(old) <= Depth

-----------------------------------------------------------------------------
(* The tables. *)

path_of(id) == inodes[id].path
Mapped == DOMAIN inodes
by_hostid(ino) == {id \in Mapped : inodes[id].ino = ino}
full(t) == Cardinality(DOMAIN t) >= MAX_INODES

\* Mutant: an inode that is already mapped is answered without a reference.
interns_unreferenced(t, n, p, ino) ==
  LET ids == {id \in DOMAIN t : t[id].ino = ino}
  IN  IF ids # {} THEN [id |-> CHOOSE i \in ids : TRUE, t |-> t]
      ELSE IF full(t) THEN [id |-> 0, t |-> t]
      ELSE [id |-> n, t |-> t @@ (n :> [path |-> p, ref |-> 1, ino |-> ino])]

\* intern: the nodeid of a host inode with one more reference, a new one
\* while there is room, 0 when there is none.  A mapped inode keeps the path
\* it was found at.
intern(t, n, p, ino) ==
  LET ids == {id \in DOMAIN t : t[id].ino = ino}
  IN  IF ids # {}
      THEN LET id == CHOOSE i \in ids : TRUE IN [id |-> id, t |-> [t EXCEPT ![id].ref = @ + 1]]
      ELSE IF full(t) THEN [id |-> 0, t |-> t]
      ELSE [id |-> n, t |-> t @@ (n :> [path |-> p, ref |-> 1, ino |-> ino])]

\* forget: n references less; without one left the inode is unmapped.
forget(t, id, n) ==
  IF id = ROOT \/ id \notin DOMAIN t THEN t
  ELSE IF t[id].ref <= n THEN Restrict(t, DOMAIN t \ {id})
  ELSE [t EXCEPT ![id].ref = @ - n]

Counted(h, id) == IF id \in DOMAIN h THEN [h EXCEPT ![id] = @ + 1] ELSE h @@ (id :> 1)
\* A reply with a nodeid: the guest counts the reference it was given.
Answered(r) ==
  /\ inodes' = r.t
  /\ next' = IF r.id = next THEN next + 1 ELSE next
  /\ held' = IF r.id = 0 THEN held ELSE Counted(held, r.id)
  /\ told' = IF r.id = 0 THEN told ELSE r.id

-----------------------------------------------------------------------------
(* Requests.  The guest names nodes it holds. *)

Guest == left.ops > 0 /\ left' = [left EXCEPT !.ops = @ - 1] /\ UNCHANGED read_only
Children(p) == IF Len(p) < Depth THEN {Append(p, n) : n \in Names} ELSE {}
TablesStay == UNCHANGED <<inodes, next, held, told>>
Files == <<fhs, nextFh>>

op_lookup ==
  \E d \in DOMAIN held : \E p \in Children(path_of(d)) :
    /\ Guest /\ Exists(p)
    /\ Answered(intern(inodes, next, p, Entry(p).ino))
    /\ UNCHANGED <<host, Files, listing>>

\* FORGET: the guest's kernel gives back references.  A request without room
\* for a reply is given up before it is looked at.
op_forget ==
  \E id \in DOMAIN held \ {ROOT} : \E n \in 1..held[id] :
    /\ Guest
    /\ inodes' = IF ForgetHasReply THEN forget(inodes, id, n) ELSE inodes
    /\ held' = IF held[id] = n THEN Restrict(held, DOMAIN held \ {id}) ELSE [held EXCEPT ![id] = @ - n]
    /\ UNCHANGED <<host, next, told, Files, listing>>

\* SETATTR changes the file at the path of the node, whatever is there now.
op_setattr ==
  \E id \in DOMAIN held \ {ROOT} :
    /\ Guest /\ ~read_only /\ Exists(path_of(id))
    /\ host' = Changed(Entry(path_of(id)).ino)
    /\ UNCHANGED <<Files, listing>> /\ TablesStay

\* OPEN and OPENDIR: by path; a truncating open changes the file even when no
\* handle is left for it.
op_open ==
  \E id \in DOMAIN held \ {ROOT}, trunc \in BOOLEAN :
    /\ Guest /\ Exists(path_of(id)) /\ (trunc => ~read_only /\ ~IsDir(path_of(id)))
    /\ host' = IF trunc THEN Changed(Entry(path_of(id)).ino) ELSE host
    /\ IF Cardinality(DOMAIN fhs) >= MAX_OPEN_FILES THEN UNCHANGED Files
       ELSE fhs' = fhs @@ (nextFh :> Entry(path_of(id)).ino) /\ nextFh' = nextFh + 1
    /\ UNCHANGED listing /\ TablesStay

\* CREATE checks both tables for room before it makes the file.
op_create ==
  \E d \in DOMAIN held : \E p \in Children(path_of(d)) :
    /\ Guest /\ ~read_only /\ ~full(inodes) /\ Cardinality(DOMAIN fhs) < MAX_OPEN_FILES
    /\ IsDir(path_of(d)) /\ (IF Exists(p) THEN ~IsDir(p) ELSE Free # {})
    /\ host' = IF Exists(p) THEN host ELSE Made(p, FALSE)
    /\ LET ino == IF Exists(p) THEN Entry(p).ino ELSE host'[Len(host')].ino
       IN  /\ Answered(intern(inodes, next, p, ino))
           /\ fhs' = fhs @@ (nextFh :> ino)
    /\ nextFh' = nextFh + 1
    /\ UNCHANGED listing

op_write == \E fh \in DOMAIN fhs : /\ Guest /\ ~read_only
                                   /\ host' = Changed(fhs[fh])
                                   /\ UNCHANGED <<Files, listing>> /\ TablesStay

op_release == \E fh \in DOMAIN fhs : /\ Guest
                                     /\ fhs' = Restrict(fhs, DOMAIN fhs \ {fh})
                                     /\ UNCHANGED <<host, nextFh, listing>> /\ TablesStay

op_unlink ==
  \E d \in DOMAIN held : \E p \in Children(path_of(d)) :
    /\ Guest /\ ~read_only /\ Exists(p) /\ Under(p) = <<>>
    /\ host' = Removed(p)
    /\ UNCHANGED <<Files, listing>> /\ TablesStay

\* MKDIR makes the directory first: without room for its inode it is made
\* and the guest is told it was not.
op_mkdir ==
  \E d \in DOMAIN held : \E p \in Children(path_of(d)) :
    /\ Guest /\ ~read_only /\ IsDir(path_of(d)) /\ ~Exists(p) /\ Free # {}
    /\ host' = Made(p, TRUE)
    /\ Answered(intern(inodes, next, p, host'[Len(host')].ino))
    /\ UNCHANGED <<Files, listing>>

op_rename ==
  \E d, e \in DOMAIN held : \E old \in Children(path_of(d)), new \in Children(path_of(e)) :
    /\ Guest /\ ~read_only /\ MayRename(old, new)
    /\ host' = Renamed(old, new)
    /\ UNCHANGED <<Files, listing>> /\ TablesStay

\* READDIRPLUS: the directory is read again from its start, the entries before
\* the offset are skipped, and an inode is referenced only once its entry is
\* sure to be in the reply.
op_readdir ==
  \E d \in DOMAIN held :
    /\ Guest /\ IsDir(path_of(d)) /\ listing.dir \in {0, d}
    /\ LET all  == Under(path_of(d))
           last == IF listing.off + Window < Len(all) THEN listing.off + Window ELSE Len(all)
           part == IF listing.off < last THEN SubSeq(all, listing.off + 1, last) ELSE <<>>
           step(s, e) == LET r == intern(s.t, s.n, e.path, e.ino)
                         IN  IF s.stop \/ r.id = 0 THEN [s EXCEPT !.stop = TRUE]
                             ELSE [s EXCEPT !.t = r.t, !.n = IF r.id = @ THEN @ + 1 ELSE @,
                                            !.h = Counted(@, r.id), !.got = Append(@, e.path)]
           out  == FoldLeft(step, [t |-> inodes, n |-> next, h |-> held, got |-> <<>>, stop |-> FALSE], part)
       IN  /\ inodes' = out.t /\ next' = out.n /\ held' = out.h
           /\ listing' = IF out.got = <<>> THEN NoListing
                         ELSE [dir |-> d, off |-> listing.off + Len(out.got), seen |-> listing.seen \o out.got]
    /\ UNCHANGED <<host, Files, told>>

\* The driver resets the device, as after a reboot of the guest: files are
\* closed, the inodes stay mapped.
reset ==
  /\ Guest
  /\ fhs' = <<>> /\ held' = (ROOT :> 1) /\ listing' = NoListing
  /\ UNCHANGED <<host, inodes, next, nextFh, told>>

\* Programs of the host change the directory.
HostChanges ==
  /\ left.host > 0 /\ left' = [left EXCEPT !.host = @ - 1] /\ UNCHANGED read_only
  /\ \E d \in {<<>>} \cup {host[i].path : i \in DOMAIN host} : \E p \in Children(d) :
       \/ IsDir(d) /\ ~Exists(p) /\ Free # {} /\ \E dir \in BOOLEAN : host' = Made(p, dir)
       \/ Exists(p) /\ Under(p) = <<>> /\ host' = Removed(p)
  /\ UNCHANGED <<Files, listing>> /\ TablesStay

Next == \/ op_lookup \/ op_forget \/ op_setattr \/ op_open \/ op_create \/ op_write \/ op_release
        \/ op_unlink \/ op_mkdir \/ op_rename \/ op_readdir \/ reset \/ HostChanges

Spec == Init /\ [][Next]_vars

-----------------------------------------------------------------------------
(* Properties. *)

\* A node the guest's kernel still counts references to stays mapped with at
\* least as many: a request that names it is never refused as unknown.
HeldIsMapped == \A id \in DOMAIN held : id \in Mapped /\ inodes[id].ref >= held[id]

\* An inode of the host has one nodeid, and no reply carries the number 0
\* that stands for none.
OneNodePerInode ==
  /\ \A id, jd \in Mapped : inodes[id].ino = inodes[jd].ino => id = jd
  /\ told # 0

\* The tables stay within their limits, whatever the guest keeps open.
TablesBounded == Cardinality(Mapped) <= MAX_INODES /\ Cardinality(DOMAIN fhs) <= MAX_OPEN_FILES

\* A share mounted read only is never changed by a request.
ReadOnlyStays == read_only /\ left.host = MaxHost => host = Start

FsSafe == HeldIsMapped /\ OneNodePerInode /\ TablesBounded /\ ReadOnlyStays

\* The path of a node names the file the guest was told of, as long as the
\* host has that file.  Violated: a rename, even the guest's own, leaves the
\* node at the path it was first found at.
NodeNamesFile ==
  \A id \in Mapped : \A i \in DOMAIN host :
    host[i].ino = inodes[id].ino => host[i].path = inodes[id].path

\* The last FORGET of a node unmaps it, so the table has room again.
\* Violated: a reset keeps the references of the driver before, which no
\* driver gives back.
ForgetUnmaps ==
  [][op_forget => (DOMAIN inodes' \ DOMAIN held') \subseteq (DOMAIN inodes \ DOMAIN held)]_vars
=============================================================================
