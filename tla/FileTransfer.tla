--------------------------- MODULE FileTransfer ---------------------------
(***************************************************************************)
(* A file request of the API, from its HTTP client through the agent of    *)
(* the host (crates/shuru-node/src/serve/files.rs and guest.rs) to the     *)
(* guest agent (handle_read_file and handle_download of                    *)
(* crates/shuru-guest/src/main.rs, write of files.rs) and back. A file is  *)
(* the sequence of its bytes; a chunk is a run of them. A listing is read  *)
(* like a file of entries, its pages as chunks.                            *)
(***************************************************************************)
EXTENDS Naturals, Sequences, FiniteSets, SequencesExt

CONSTANTS Ops,             \* of "read", "tail", "list", "write", "call", "download"
          Sizes,           \* bytes of the file or the body
          Chunk,           \* FILE_CHUNK
          Keeps,           \* bytes a tail may ask for
          Room             \* chunks a wire or a channel holds

VARIABLES
  op, size, keep,
  permit,                  \* connections of this request within addr.calls
  cut,                     \* who ended the guest connection: "none", "node", "vm"
  up, down,                \* frames to the guest and from it
  guest,                   \* at, bytes read or received, the file, the error
  node,                    \* at, chunks held by Tail, its counts, the error
  chan,                    \* the body of the response
  client                   \* bytes got or sent, how the response ended, left

vars == <<op, size, keep, permit, cut, up, down, guest, node, chan, client>>

Bytes(lo, hi) == [i \in 1 .. hi - lo |-> lo + i]
Frame(kind, data) == [kind |-> kind, data |-> data]
Reads == {"read", "tail", "list"}
GuestGoes(at) == guest' = [guest EXCEPT !.at = at]
Closes(who) == cut' = IF cut = "none" THEN who ELSE cut

-----------------------------------------------------------------------------
(* The guest                                                               *)

\* handle_read_file and list: a chunk of any length, an empty one at the end,
\* or an error. One that cannot be opened is an error at once.
handle_read_file ==
  /\ op \in Reads /\ guest.at = "run" /\ cut = "none" /\ Len(down) < Room
  /\ \/ \E n \in 1 .. Chunk :
          /\ guest.pos + n <= size
          /\ down' = Append(down, Frame("data", Bytes(guest.pos, guest.pos + n)))
          /\ guest' = [guest EXCEPT !.pos = @ + n]
     \/ guest.pos = size /\ down' = Append(down, Frame("data", <<>>)) /\ GuestGoes("done")
     \/ down' = Append(down, Frame("error", <<>>)) /\ GuestGoes("done")
  /\ UNCHANGED <<op, size, keep, permit, cut, up, node, chan, client>>

\* write: the file is made or truncated first. Chunks are read on after a
\* failure until the length is reached; the answer is the last word.
open_for_write ==
  /\ op = "write" /\ guest.at = "open"
  /\ guest' \in {[guest EXCEPT !.at = "run", !.err = e] : e \in BOOLEAN}
  /\ UNCHANGED <<op, size, keep, permit, cut, up, down, node, chan, client>>
\* Mutant: the loop ends at the first failure.
StopsOnError == guest.pos >= size \/ guest.err
Received == guest.pos >= size
write_takes ==
  /\ op = "write" /\ guest.at = "run" /\ ~Received /\ up # <<>> /\ up' = Tail(up)
  /\ \E bad \in BOOLEAN :
       guest' = [guest EXCEPT !.pos = @ + Len(Head(up)), !.err = @ \/ bad,
                              !.file = IF guest.err \/ bad THEN @ ELSE @ \o Head(up)]
  /\ UNCHANGED <<op, size, keep, permit, cut, down, node, chan, client>>
write_short ==
  /\ op = "write" /\ guest.at = "run" /\ ~Received /\ up = <<>> /\ cut # "none"
  /\ GuestGoes("done") /\ UNCHANGED <<op, size, keep, permit, cut, up, down, node, chan, client>>
finish_write ==
  /\ op = "write" /\ guest.at = "run" /\ Received /\ GuestGoes("done")
  /\ down' = IF cut = "none" THEN Append(down, Frame(IF guest.err THEN "error" ELSE "ok", <<>>)) ELSE down
  /\ UNCHANGED <<op, size, keep, permit, cut, up, node, chan, client>>

\* handle_download: the body is written as it comes; progress may go out
\* after a chunk, FS_OK or the error at the end.
handle_download ==
  /\ op = "download" /\ guest.at = "run" /\ Len(down) < Room
  /\ \/ /\ guest.pos < size
        /\ guest' = [guest EXCEPT !.pos = @ + 1, !.file = Append(@, guest.pos + 1)]
        /\ \/ cut = "none" /\ down' = Append(down, Frame("progress", <<>>))
           \/ UNCHANGED down
     \/ /\ guest.pos = size /\ GuestGoes("done")
        /\ down' = IF cut = "none" THEN Append(down, Frame("ok", <<>>)) ELSE down
     \/ /\ GuestGoes("done")
        /\ down' = IF cut = "none" THEN Append(down, Frame("error", <<>>)) ELSE down
  /\ UNCHANGED <<op, size, keep, permit, cut, up, node, chan, client>>

\* The calls with one answer and no body (stat, mkdir, remove, rename, chmod,
\* chown): done and answered in one go.
handle_call ==
  /\ op = "call" /\ guest.at = "run" /\ Len(down) < Room /\ GuestGoes("done")
  /\ \E kind \in {"ok", "error"} :
       down' = IF cut = "none" THEN Append(down, Frame(kind, <<>>)) ELSE down
  /\ UNCHANGED <<op, size, keep, permit, cut, up, node, chan, client>>

\* the guest stops or the device resets the connection (external)
VmDies ==
  /\ cut = "none" /\ guest.at # "none" /\ Closes("vm") /\ GuestGoes("done")
  /\ UNCHANGED <<op, size, keep, permit, up, down, node, chan, client>>

-----------------------------------------------------------------------------
(* The agent                                                               *)

\* connect_port takes a permit or refuses; the request follows.
call ==
  /\ node.at = "begin"
  /\ \/ /\ permit' = 1 /\ guest' = [guest EXCEPT !.at = IF op = "write" THEN "open" ELSE "run"]
        /\ node' = [node EXCEPT !.at = IF op = "write" THEN "send" ELSE "first"]
     \/ node' = [node EXCEPT !.at = "failed"] /\ UNCHANGED <<permit, guest>>
  /\ UNCHANGED <<op, size, keep, cut, up, down, chan, client>>

\* The response is an error, or its body ends; the connection goes with the
\* task that held it.
Ends(at) ==
  /\ node' = [node EXCEPT !.at = at] /\ permit' = 0 /\ Closes("node")

\* answer: the first frame decides the status.
answer ==
  /\ node.at = "first"
  /\ \/ /\ down # <<>> /\ down' = Tail(down)
        /\ LET f == Head(down) IN
           \/ f.kind = "progress" /\ UNCHANGED <<node, permit, cut, chan>>
           \/ f.kind = "error" /\ Ends("failed") /\ UNCHANGED chan
           \/ f.kind = "ok" /\ Ends("ok") /\ UNCHANGED chan
           \/ /\ f.kind = "data" /\ op = "tail"
              /\ node' = [node EXCEPT !.at = "tail", !.next = f.data] /\ UNCHANGED <<permit, cut, chan>>
           \/ /\ f.kind = "data" /\ op # "tail"
              /\ node' = [node EXCEPT !.at = "stream", !.next = f.data] /\ UNCHANGED <<permit, cut, chan>>
     \/ down = <<>> /\ cut = "vm" /\ Ends("failed") /\ UNCHANGED <<down, chan>>
  /\ UNCHANGED <<op, size, keep, up, guest, client>>

\* read: each chunk goes into the body before the next is read; the body ends
\* with the empty chunk, and breaks off on anything else.
read_sends ==
  /\ node.at = "stream" /\ node.next # <<>> /\ Len(chan) < Room /\ ~client.left
  /\ chan' = Append(chan, Frame("data", node.next)) /\ node' = [node EXCEPT !.at = "reads"]
  /\ UNCHANGED <<op, size, keep, permit, cut, up, down, guest, client>>
read_next ==
  /\ node.at = "reads"
  /\ \/ /\ down # <<>> /\ Head(down).kind = "data" /\ down' = Tail(down)
        /\ node' = [node EXCEPT !.at = "stream", !.next = Head(down).data]
        /\ UNCHANGED <<permit, cut, chan>>
     \/ /\ \/ down # <<>> /\ Head(down).kind # "data"
           \/ down = <<>> /\ cut = "vm"
        /\ chan' = Append(chan, Frame("error", <<>>)) /\ Ends("cut") /\ UNCHANGED down
  /\ UNCHANGED <<op, size, keep, up, guest, client>>
read_ends ==
  /\ node.at = "stream" /\ node.next = <<>> /\ Ends("ok")
  /\ chan' = Append(chan, Frame("end", <<>>))
  /\ UNCHANGED <<op, size, keep, up, down, guest, client>>
read_closed ==
  /\ node.at \in {"stream", "reads"} /\ client.left /\ Ends("left")
  /\ UNCHANGED <<op, size, keep, up, down, guest, chan, client>>

\* hyper drops the handler of a client that is gone, its connection with it
Cancelled ==
  /\ node.at \in {"first", "tail", "send"} /\ client.left /\ Ends("left")
  /\ UNCHANGED <<op, size, keep, up, down, guest, chan, client>>

\* Tail: no more chunks are held than the bytes to keep need.
Held(cs) == FoldLeft(LAMBDA n, c : n + Len(c), 0, cs)
RECURSIVE Trim(_)
Trim(cs) == IF Len(cs) > 1 /\ Held(cs) - Len(cs[1]) >= keep THEN Trim(Tail(cs)) ELSE cs
push(cs, c) == Trim(Append(cs, c))
finish(cs) == LET all == FoldLeft(LAMBDA s, c : s \o c, <<>>, cs) IN
                SubSeq(all, (IF Len(all) > keep THEN Len(all) - keep ELSE 0) + 1, Len(all))
read_tail ==
  /\ node.at = "tail"
  /\ \/ /\ node.next # <<>> /\ down # <<>> /\ down' = Tail(down)
        /\ IF Head(down).kind = "data"
           THEN /\ node' = [node EXCEPT !.tail = push(@, node.next), !.size = @ + Len(node.next),
                                        !.next = Head(down).data]
                /\ UNCHANGED <<permit, cut>>
           ELSE Ends("failed")
        /\ UNCHANGED chan
     \/ node.next # <<>> /\ down = <<>> /\ cut = "vm" /\ Ends("failed") /\ UNCHANGED <<down, chan>>
     \/ /\ node.next = <<>> /\ Ends("ok") /\ UNCHANGED down
        /\ chan' = <<Frame("data", finish(node.tail)), Frame("end", <<>>)>>
  /\ UNCHANGED <<op, size, keep, up, guest, client>>

\* write: the body is passed on as it comes, within its length.
send_data ==
  /\ node.at = "send"
  /\ \/ /\ client.sent > node.size /\ Len(up) < Room
        /\ \E n \in 1 .. Chunk :
             /\ node.size + n <= client.sent
             /\ up' = IF cut = "none" THEN Append(up, Bytes(node.size, node.size + n)) ELSE up
             /\ IF cut = "none" THEN node' = [node EXCEPT !.size = @ + n] /\ UNCHANGED <<permit, cut>>
                ELSE Ends("failed")
     \/ /\ node.size = size /\ node' = [node EXCEPT !.at = "first"] /\ UNCHANGED <<up, permit, cut>>
     \/ /\ client.left /\ node.size < size /\ Ends("failed") /\ UNCHANGED up
  /\ UNCHANGED <<op, size, keep, down, guest, chan, client>>

-----------------------------------------------------------------------------
(* The HTTP client (external)                                              *)

ClientSends ==
  /\ op = "write" /\ ~client.left /\ client.sent < size
  /\ client' = [client EXCEPT !.sent = @ + 1]
  /\ UNCHANGED <<op, size, keep, permit, cut, up, down, guest, node, chan>>
ClientTakes ==
  /\ chan # <<>> /\ ~client.left /\ chan' = Tail(chan)
  /\ client' = IF Head(chan).kind = "data" THEN [client EXCEPT !.got = @ \o Head(chan).data]
               ELSE [client EXCEPT !.end = Head(chan).kind]
  /\ UNCHANGED <<op, size, keep, permit, cut, up, down, guest, node>>
ClientLeaves ==
  /\ ~client.left /\ client' = [client EXCEPT !.left = TRUE]
  /\ UNCHANGED <<op, size, keep, permit, cut, up, down, guest, node, chan>>

-----------------------------------------------------------------------------
Init ==
  /\ op \in Ops /\ size \in (IF op = "call" THEN {0} ELSE Sizes)
  /\ keep \in (IF op = "tail" THEN Keeps ELSE {0})
  /\ permit = 0 /\ cut = "none" /\ up = <<>> /\ down = <<>> /\ chan = <<>>
  /\ guest = [at |-> "none", pos |-> 0, file |-> <<>>, err |-> FALSE]
  /\ node = [at |-> "begin", next |-> <<>>, tail |-> <<>>, size |-> 0]
  /\ client = [got |-> <<>>, sent |-> 0, end |-> "none", left |-> FALSE]

Steps ==
  \/ handle_read_file \/ open_for_write \/ write_takes \/ write_short \/ finish_write
  \/ handle_download \/ handle_call \/ call \/ answer \/ read_sends \/ read_next \/ read_ends
  \/ read_closed \/ Cancelled \/ read_tail \/ send_data
Next == Steps \/ VmDies \/ ClientSends \/ ClientTakes \/ ClientLeaves

Spec == Init /\ [][Next]_vars

-----------------------------------------------------------------------------
\* A body that ends properly holds all of the file, or the last bytes asked
\* for; whatever cut the read shows as a body cut short (read, read_tail).
ReadIsWhole ==
  client.end = "end" =>
    client.got = IF op = "tail" THEN Bytes(IF size > keep THEN size - keep ELSE 0, size)
                 ELSE Bytes(0, size)
TailHoldsLittle ==
  op = "tail" => Len(node.tail) <= 1 \/ Held(node.tail) < keep + Chunk

\* A write or a download that answers ok left every byte in the file.
WriteIsWhole == op \in {"write", "download"} /\ node.at = "ok" => guest.file = Bytes(0, size)

\* The guest that failed a write tells why: the agent is not left with a
\* closed connection while the VM runs and its client stays (write: "Every
\* chunk is read even after a failure").
WriteErrorTold ==
  op = "write" /\ ~client.left /\ cut # "vm" =>
    (guest.at = "done" => up = <<>>) /\ (node.at = "failed" => guest.at \in {"none", "done"})

\* The connection of a request goes back to the budget with it, however it
\* ends: none is left behind by a client that is gone.
PermitsReturn ==
  /\ node.at \in {"ok", "failed", "cut", "left"} => permit = 0
  /\ client.left /\ ~ENABLED Steps => permit = 0

TransferSafe == ReadIsWhole /\ TailHoldsLittle /\ WriteIsWhole /\ WriteErrorTold /\ PermitsReturn
=============================================================================
