----------------------------- MODULE GuestTree -----------------------------
(***************************************************************************)
(* The requests of the guest agent that walk a tree of files: copy, chmod, *)
(* chown, the listing of a directory in pages, remove and rename           *)
(* (crates/shuru-guest/src/files.rs and main.rs). A path is a sequence of  *)
(* names, a tree a function from its paths to what is there; a step pops   *)
(* one directory of the stack, as the loops of the code do. Every link of  *)
(* a tree leads to the same place; calls of the kernel (external) follow   *)
(* the links on their way, most of them one at the end of the path too.    *)
(***************************************************************************)
EXTENDS Naturals, Sequences, FiniteSets, SequencesExt

CONSTANTS Trees,           \* trees to start from: functions to "dir", "link" or what is in a file
          LinkTo,          \* where links lead: a path of one name
          Requests,        \* [op, src, dst, recursive, stream]
          FrameEntries     \* entries that fill a listing frame

VARIABLES
  start, tree,             \* the tree before the request, and now
  req,
  stack,                   \* directories still to be read
  count,                   \* paths the request counted
  changed,                 \* paths it set the mode or owner of
  page, frames,            \* the listing: entries not sent yet, frames sent
  result                   \* "run", "ok" or "error"

vars == <<start, tree, req, stack, count, changed, page, frames, result>>

Under(t, p) == {q \in DOMAIN t : IsPrefix(p, q)}
Below(t, p) == Under(t, p) \ {p}
Children(t, p) == {q \in DOMAIN t : Len(q) = Len(p) + 1 /\ IsPrefix(p, q)}
Parent(p) == SubSeq(p, 1, Len(p) - 1)
\* p of the tree below src, as it is named below dst
Moved(p, src, dst) == dst \o SubSeq(p, Len(src) + 1, Len(p))
With(t, new) == [p \in DOMAIN t \cup DOMAIN new |-> IF p \in DOMAIN new THEN new[p] ELSE t[p]]
Without(t, ps) == [p \in DOMAIN t \ ps |-> t[p]]

\* Where a path leads, through every link (At) or those before its last name
\* (In); a link to itself leads nowhere.
Nowhere == <<"?", "?">>
Through(t, p) == IF p \notin DOMAIN t \/ t[p] # "link" THEN p
                 ELSE IF LinkTo \in DOMAIN t /\ t[LinkTo] = "link" THEN Nowhere ELSE LinkTo
At(t, p) == FoldLeft(LAMBDA at, name : Through(t, Append(at, name)), <<>>, p)
In(t, p) == IF p = <<>> THEN p ELSE Append(At(t, Parent(p)), Last(p))
Dir(t, p) == p \in DOMAIN t /\ t[p] = "dir"
IsDir(t, p) == Dir(t, At(t, p))

\* create_dir_all: p and what is missing above it, unless something that is
\* not a directory, and does not lead to one, is in the way.
Above(p) == {SubSeq(p, 1, n) : n \in 0 .. Len(p)}
CanMakeDirs(t, p) == \A q \in Above(p) : In(t, q) \in DOMAIN t => IsDir(t, q)
create_dir_all(t, p) == With(t, [q \in {In(t, q) : q \in Above(p)} \ DOMAIN t |-> "dir"])

Fail == result' = "error" /\ UNCHANGED <<start, tree, req, stack, count, changed, page, frames>>

-----------------------------------------------------------------------------
(* copy                                                                    *)

\* fs::copy opens what the source leads to and writes to what the destination
\* leads to, which it empties first: a file copied onto itself is lost.
\* A link is made anew, in place of a file or another link.
\* An entry whose kind is "link" was found as one; any other is a file.
CanCopy(t, link, to) ==
  LET q == IF link THEN In(t, to) ELSE At(t, to) IN Dir(t, Parent(q)) /\ ~Dir(t, q)
copy_one(t, from, link, to) ==
  IF link THEN With(t, [q \in {In(t, to)} |-> "link"])
  ELSE With(t, [q \in {At(t, to)} |-> IF q = At(t, from) THEN "empty" ELSE t[At(t, from)]])

\* copy_paths: what the source leads to is a file, which is copied by itself,
\* or a directory, only when asked for.
copy_paths ==
  /\ req.op = "copy" /\ result = "begin"
  /\ LET src == At(tree, req.src) IN
     \/ src \notin DOMAIN tree /\ Fail
     \/ /\ src \in DOMAIN tree /\ ~Dir(tree, src)
        /\ IF CanCopy(tree, FALSE, req.dst)
           THEN /\ tree' = copy_one(tree, src, FALSE, req.dst) /\ count' = 1 /\ result' = "ok"
                /\ UNCHANGED <<start, req, stack, changed, page, frames>>
           ELSE Fail
     \/ Dir(tree, src) /\ ~req.recursive /\ Fail
     \/ /\ Dir(tree, src) /\ req.recursive
        /\ IF CanMakeDirs(tree, req.dst)
           THEN /\ tree' = create_dir_all(tree, req.dst) /\ stack' = <<src>> /\ result' = "run"
                /\ UNCHANGED <<start, req, count, changed, page, frames>>
           ELSE Fail

\* copy_tree: a directory is popped and made, its files and links are copied,
\* in any order, its directories pushed but for the destination, which is
\* told by its inode.
\* Mutant: the destination is told by its path.
SkipsPath(p) == p = req.dst
Skips(p) == p = At(tree, req.dst)
copy_entry(d, st, c) ==
  LET link == tree[c] = "link"
      to == Append(d, Last(c))
  IN  IF st.failed \/ ~CanCopy(st.tree, link, to) THEN [st EXCEPT !.failed = TRUE]
      ELSE [st EXCEPT !.tree = copy_one(@, c, link, to), !.count = @ + 1]
copy_tree ==
  /\ req.op = "copy" /\ result = "run" /\ stack # <<>>
  /\ LET s == Last(stack)
         d == Moved(s, At(start, req.src), req.dst)
         dirs == {c \in Children(tree, s) : Dir(tree, c) /\ ~Skips(c)}
     IN IF ~CanMakeDirs(tree, d) THEN Fail
        ELSE \E files \in SetToSeqs({c \in Children(tree, s) : ~Dir(tree, c)}) :
               LET made == [tree |-> create_dir_all(tree, d), count |-> count + 1, failed |-> FALSE]
                   st == FoldLeft(LAMBDA a, c : copy_entry(d, a, c), made, files)
               IN /\ tree' = st.tree /\ count' = st.count
                  /\ stack' = Front(stack) \o SetToSeq(dirs)
                  /\ result' = IF st.failed THEN "error" ELSE "run"
                  /\ UNCHANGED <<start, req, changed, page, frames>>
copy_done ==
  /\ req.op = "copy" /\ result = "run" /\ stack = <<>> /\ result' = "ok"
  /\ UNCHANGED <<start, tree, req, stack, count, changed, page, frames>>

-----------------------------------------------------------------------------
(* chmod and chown: walk                                                   *)

\* At the root both follow a link; below it chmod leaves links alone and
\* chown sets their own owner.
Sets(p, link) == req.op = "chown" \/ ~link
walkRoot ==
  /\ req.op \in {"chmod", "chown"} /\ result = "begin"
  /\ LET root == At(tree, req.src) IN
     IF root \in DOMAIN tree
     THEN /\ changed' = {root} /\ count' = 1
          /\ IF req.recursive /\ Dir(tree, root)
             THEN stack' = <<root>> /\ result' = "run"
             ELSE result' = "ok" /\ UNCHANGED stack
          /\ UNCHANGED <<start, tree, req, page, frames>>
     ELSE Fail
walk ==
  /\ req.op \in {"chmod", "chown"} /\ result = "run"
  /\ IF stack = <<>> THEN result' = "ok" /\ UNCHANGED <<stack, count, changed>>
     ELSE LET hit == {c \in Children(tree, Last(stack)) : Sets(c, tree[c] = "link")} IN
            /\ changed' = changed \cup hit /\ count' = count + Cardinality(hit)
            /\ stack' = Front(stack) \o SetToSeq({c \in Children(tree, Last(stack)) : Dir(tree, c)})
            /\ UNCHANGED result
  /\ UNCHANGED <<start, tree, req, page, frames>>

-----------------------------------------------------------------------------
(* read_dir: list and Listing                                              *)

listRoot ==
  /\ req.op = "list" /\ result = "begin"
  /\ IF IsDir(tree, req.src)
     THEN stack' = <<At(tree, req.src)>> /\ result' = "run"
          /\ UNCHANGED <<start, tree, req, count, changed, page, frames>>
     ELSE Fail

\* Listing::push: a full page goes out with more set, or fails a listing that
\* was to fit one frame.
push(st, p) ==
  IF st.failed THEN st
  ELSE IF Len(st.page) < FrameEntries THEN [st EXCEPT !.page = Append(@, p)]
  ELSE IF ~req.stream THEN [st EXCEPT !.failed = TRUE]
  ELSE [st EXCEPT !.frames = Append(@, [entries |-> st.page, more |-> TRUE]), !.page = <<p>>]
list ==
  /\ req.op = "list" /\ result = "run" /\ stack # <<>>
  /\ LET dir == Last(stack)
         st == FoldLeft(push, [page |-> page, frames |-> frames, failed |-> FALSE],
                        SetToSeq(Children(tree, dir)))
     IN /\ page' = st.page /\ frames' = st.frames
        /\ result' = IF st.failed THEN "error" ELSE "run"
        /\ stack' = Front(stack) \o SetToSeq({c \in Children(tree, dir) :
                                                req.recursive /\ Dir(tree, c)})
  /\ UNCHANGED <<start, tree, req, count, changed>>
finish ==
  /\ req.op = "list" /\ result = "run" /\ stack = <<>> /\ result' = "ok"
  /\ frames' = Append(frames, [entries |-> page, more |-> FALSE])
  /\ UNCHANGED <<start, tree, req, stack, count, changed, page>>

-----------------------------------------------------------------------------
(* remove, rename and mkdir are one call of the kernel, or two, on the     *)
(* entry itself where it is a link                                         *)

handle_remove ==
  /\ req.op = "remove" /\ result = "begin"
  /\ LET p == In(tree, req.src) IN
     IF p \in DOMAIN tree /\ (req.recursive \/ Below(tree, p) = {})
     THEN tree' = Without(tree, Under(tree, p)) /\ result' = "ok"
          /\ UNCHANGED <<start, req, stack, count, changed, page, frames>>
     ELSE Fail
handle_rename ==
  /\ req.op = "rename" /\ result = "begin"
  /\ LET p == In(tree, req.src)  q == In(tree, req.dst) IN
     IF /\ p \in DOMAIN tree
        /\ \/ p = q
           \/ /\ Dir(tree, Parent(q)) /\ ~IsPrefix(p, q)
              /\ Dir(tree, p) => q \notin DOMAIN tree \/ (Dir(tree, q) /\ Below(tree, q) = {})
              /\ ~Dir(tree, p) => ~Dir(tree, q)
     THEN /\ tree' = With(Without(tree, Under(tree, p)),
                          [r \in {Moved(r, p, q) : r \in Under(tree, p)} |-> tree[Moved(r, q, p)]])
          /\ result' = "ok" /\ UNCHANGED <<start, req, stack, count, changed, page, frames>>
     ELSE Fail
handle_mkdir ==
  /\ req.op = "mkdir" /\ result = "begin"
  /\ IF IF req.recursive THEN CanMakeDirs(tree, req.src)
        ELSE LET p == In(tree, req.src) IN Dir(tree, Parent(p)) /\ p \notin DOMAIN tree
     THEN tree' = create_dir_all(tree, req.src) /\ result' = "ok"
          /\ UNCHANGED <<start, req, stack, count, changed, page, frames>>
     ELSE Fail

-----------------------------------------------------------------------------
Init ==
  /\ start \in Trees /\ tree = start /\ req \in Requests
  /\ stack = <<>> /\ count = 0 /\ changed = {} /\ page = <<>> /\ frames = <<>> /\ result = "begin"

Next == \/ copy_paths \/ copy_tree \/ copy_done \/ walkRoot \/ walk \/ listRoot \/ list \/ finish
        \/ handle_remove \/ handle_rename \/ handle_mkdir

Spec == Init /\ [][Next]_vars

-----------------------------------------------------------------------------
\* What the two paths of a copy lead to, the destination once it is made.
From == At(start, req.src)
Made == IF req.recursive /\ Dir(start, From) /\ CanMakeDirs(start, req.dst)
        THEN create_dir_all(start, req.dst) ELSE start
Into == At(Made, req.dst)
\* The tree a copy reads: its source without what is below the destination.
Source == [p \in Under(Made, From) \ Under(Made, Into) |-> Made[p]]
Linked == \E q \in Under(start, In(Made, req.dst)) \cup Under(start, Into) : start[q] = "link"

\* A copy onto a place without links, apart from the source or inside it,
\* gives it what the source held, counts each of it once and leaves
\* everything else as it was, the source included; a destination inside the
\* source, however its path gets there, is not copied into itself (copy_tree).
CopyFaithful ==
  req.op = "copy" /\ result = "ok" /\ ~Linked /\ ~IsPrefix(Into, From) =>
    /\ \A p \in DOMAIN Source : LET q == Moved(p, From, Into) IN
         q \in DOMAIN tree /\ tree[q] = Source[p]
    /\ count = Cardinality(DOMAIN Source)
    /\ \A p \in DOMAIN tree : IsPrefix(Into, p) \/ (p \in DOMAIN Made /\ tree[p] = Made[p])
    /\ DOMAIN Made \subseteq DOMAIN tree
\* A copy, failed or not, takes nothing away and changes only what the
\* destination, or a link below it, leads to.
CopyScope ==
  req.op = "copy" =>
    /\ DOMAIN start \subseteq DOMAIN tree
    /\ \A p \in DOMAIN start :
         tree[p] # start[p] => IsPrefix(Into, p) \/ (Linked /\ IsPrefix(LinkTo, p))
\* and it ends: nothing is made deeper than the two paths reach.
CopyEnds ==
  req.op = "copy" => \A p \in DOMAIN tree \ DOMAIN start :
    Len(p) <= Len(Into) + 3

\* Not so, and refuted by TLC: a copy onto its own source, by the same path or
\* through a link, changes nothing. It empties each file.
CopyOntoItself == req.op = "copy" /\ Into = From => tree = start

\* A walk changes what its root leads to and everything below that, once
\* each, and nothing that only a link below leads to (walk, chmod, chown).
WalkExact ==
  req.op \in {"chmod", "chown"} /\ result = "ok" =>
    LET root == At(tree, req.src) IN
    /\ changed = {root} \cup {p \in Below(tree, root) : req.recursive /\ Sets(p, tree[p] = "link")}
    /\ count = Cardinality(changed)

\* A listing names each entry once over all its frames, only the last of which
\* says there is no more; one that was to be whole is not cut short but fails
\* (Listing).
ListingWhole ==
  /\ req.op = "list" /\ result = "ok" =>
       LET all == FoldLeft(LAMBDA s, f : s \o f.entries, <<>>, frames) IN
         /\ ToSet(all) = IF req.recursive THEN Below(tree, At(tree, req.src)) ELSE Children(tree, At(tree, req.src))
         /\ Len(all) = Cardinality(ToSet(all))
         /\ \A i \in 1 .. Len(frames) : frames[i].more <=> i < Len(frames)
         /\ ~req.stream => Len(frames) = 1
  /\ \A i \in 1 .. Len(frames) : Len(frames[i].entries) <= FrameEntries

TreeSafe == CopyFaithful /\ CopyScope /\ CopyEnds /\ WalkExact /\ ListingWhole
=============================================================================
