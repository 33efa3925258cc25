---------------------------- MODULE ScreenStream ----------------------------
(***************************************************************************)
(* The video of a screen (shuru-screen capture.rs, video.rs, hub.rs,       *)
(* server.rs): one thread takes the damage of the X server, copies the     *)
(* rows that changed into one of two frames and hands it to the encoder;   *)
(* the encoder sends each viewer keyframes and differences; viewers come,  *)
(* fall behind, ask for a keyframe, and a resize starts everything again.  *)
(*                                                                         *)
(* A row is the number of times it was drawn.  A frame carries the rows    *)
(* its map names; rows outside the map are said to be unchanged.  Bitrates *)
(* and times are left out: a frame may be held back at any time unless a   *)
(* keyframe is wanted, and a quiet screen may be sharpened at any time.    *)
(***************************************************************************)
EXTENDS Integers, Sequences, FiniteSets, SequencesExt

CONSTANTS Viewers, Rows,
          MAX_QUEUED,     \* messages waiting before a viewer is resynced
          MaxDraws, MaxResizes, MaxAsks, MaxStills, MaxFaults, MaxDead   \* bounds

VARIABLES screen,   \* [rows, size]: the X server
          xq,       \* its events for the capture thread: rows, or 0 for a resize
          cap,      \* the capture thread and its Capturer
          jobs,     \* the channel of one job to the encoder
          enc,      \* the encoder thread
          hub,      \* [size, waker, stills]
          client,   \* viewer -> its Client in the hub
          view,     \* viewer -> what it decoded
          stills,   \* stills answered
          left

vars == <<screen, xq, cap, jobs, enc, hub, client, view, stills, left>>

Blank == [r \in Rows |-> 0]
NoJob == [idx |-> 0, key |-> FALSE, buf |-> Blank, map |-> {},
          owed |-> {}]   \* the viewers whose flag was taken for it
\* capture_loop begins: two frames, every row stale in both, nothing sent.
FreshCap(size) ==
  [at |-> "top", size |-> size, damaged |-> TRUE, acc |-> {}, mb |-> {},
   shm |-> Blank, pool |-> [i \in {0, 1} |-> TRUE], buf |-> [i \in {0, 1} |-> Blank],
   stale |-> [i \in {0, 1} |-> Rows], next |-> 0, had |-> FALSE, full |-> TRUE,
   watch |-> {}, want |-> FALSE, motion |-> {}, resized |-> FALSE, job |-> NoJob]
Gone == [on |-> FALSE, needs |-> FALSE, started |-> FALSE, queue |-> <<>>,
         had |-> FALSE]   \* had the last frame encoded: what a difference is against
NoView == [size |-> 0, keyed |-> FALSE, pic |-> Blank, bad |-> FALSE]

Init ==
  /\ screen = [rows |-> Blank, size |-> 1]
  /\ xq = <<>>
  /\ cap = FreshCap(1)
  /\ jobs = <<>>
  /\ enc = [at |-> "recv", job |-> NoJob, to |-> {}, lost |-> {}]   \* lost: owed a keyframe that failed
  /\ hub = [size |-> 1, waker |-> FALSE, stills |-> 0]
  /\ client = [v \in Viewers |-> Gone]
  /\ view = [v \in Viewers |-> NoView]
  /\ stills = 0
  /\ left = [draws |-> MaxDraws, resizes |-> MaxResizes, asks |-> MaxAsks,
             stills |-> MaxStills, faults |-> MaxFaults, dead |-> MaxDead]

Clients == {v \in Viewers : client[v].on}
Sent(c, m) == [c EXCEPT !.queue = Append(@, m)]
Hello(size) == [t |-> "hello", size |-> size, key |-> FALSE, follows |-> FALSE, rows |-> Blank, map |-> {}]
\* Mutant: a viewer that starts again is not flagged.
resyncUnflagged(c) == [c EXCEPT !.started = FALSE]
resync(c) == [c EXCEPT !.started = FALSE, !.needs = TRUE]

-----------------------------------------------------------------------------
(* The X server. *)

Draws ==
  /\ left.draws > 0
  /\ \E r \in Rows : /\ screen' = [screen EXCEPT !.rows[r] = @ + 1]
                     /\ xq' = Append(xq, r)
  /\ left' = [left EXCEPT !.draws = @ - 1]
  /\ UNCHANGED <<cap, jobs, enc, hub, client, view, stills>>
Resizes ==
  /\ left.resizes > 0
  /\ screen' = [screen EXCEPT !.size = @ + 1]
  /\ xq' = Append(xq, 0)
  /\ left' = [left EXCEPT !.resizes = @ - 1]
  /\ UNCHANGED <<cap, jobs, enc, hub, client, view, stills>>

-----------------------------------------------------------------------------
(* capture_loop. *)

\* pump: the events queued so far.
Pumped(c) ==
  LET rows == {xq[i] : i \in DOMAIN xq} \ {0}
  IN  [c EXCEPT !.acc = @ \union rows, !.mb = @ \union rows,
                !.damaged = @ \/ rows # {}, !.resized = @ \/ 0 \in {xq[i] : i \in DOMAIN xq}]
\* The loop's head: events, then the waker, which is drained before the
\* stills asked for are taken.
Pump ==
  /\ cap.at = "top"
  /\ xq' = <<>>
  /\ cap' = [Pumped(cap) EXCEPT !.at = IF Pumped(cap).resized THEN "join" ELSE "answer"]
  /\ hub' = [hub EXCEPT !.waker = @ /\ Pumped(cap).resized]
  /\ UNCHANGED <<screen, jobs, enc, client, view, stills, left>>
\* snapshot: with the server grabbed, events first, then the whole screen.
answer_snapshots ==
  /\ cap.at = "answer"
  /\ stills' = stills + hub.stills
  /\ hub' = [hub EXCEPT !.stills = 0]
  /\ IF hub.stills = 0 THEN cap' = [cap EXCEPT !.at = "look"] /\ UNCHANGED xq
     ELSE /\ xq' = <<>>
          /\ cap' = [Pumped(cap) EXCEPT !.at = "look", !.shm = screen.rows]
  /\ UNCHANGED <<screen, jobs, enc, client, view, left>>

\* The viewers are looked at once; without one the thread waits for one, and
\* the first one has everything taken again.  Whether a viewer has stalled is
\* a matter of time, and of samples that may be old.
Ready(v, stalled) == Len(client[v].queue) < MAX_QUEUED \div 2 /\ v \notin stalled
Watched(stalled) ==
  LET c == [cap EXCEPT !.watch = Clients,
                       !.want = \E v \in Clients : client[v].needs /\ Ready(v, stalled)]
  IN  IF cap.had THEN c
      ELSE [c EXCEPT !.had = TRUE, !.shm = screen.rows, !.damaged = TRUE,
                     !.stale = [i \in {0, 1} |-> Rows], !.full = TRUE]

\* flow_ok, asked unless a keyframe is wanted: a viewer that has acked nothing
\* for long is resynced and holds nobody up.
flow_ok(dead) == [v \in Viewers |-> IF v \in dead THEN resync(client[v]) ELSE client[v]]
\* A viewer is found stalled, here or there.
Stalls(vs) == Cardinality(vs) <= left.dead /\ left' = [left EXCEPT !.dead = @ - Cardinality(vs)]

\* Nothing to send, too early, a viewer too far behind, or the encoder still
\* has the frame: wait.  Otherwise take damage, or sharpen a quiet screen.
Look ==
  /\ cap.at = "look"
  /\ IF Clients = {} THEN cap' = [cap EXCEPT !.had = FALSE, !.at = "wait"] /\ UNCHANGED <<client, left>>
     ELSE \E stalled, dead \in SUBSET Clients :
          LET c == Watched(stalled)
          IN  /\ Stalls(stalled \union dead) /\ client' = flow_ok(dead)
              /\ dead # {} => ~c.want /\ c.damaged /\ \A v \in dead : client[v].started
              /\ \/ (~c.want \/ ~c.pool[c.next]) /\ cap' = [c EXCEPT !.at = "wait"]
                 \/ c.pool[c.next] /\ (c.damaged \/ c.want) /\ cap' = [c EXCEPT !.at = "take"]
                 \/ /\ c.pool[c.next] /\ ~c.damaged /\ ~c.want /\ c.motion # {}
                    /\ cap' = [c EXCEPT !.at = "paint"]
  /\ UNCHANGED <<screen, xq, jobs, enc, hub, view, stills>>

\* Mutant: a frame is not told of the rows the other one was given.
StalesNone(i, band) == [j \in {0, 1} |-> IF j = i THEN {} ELSE cap.stale[j]]

\* Frame i is up to date; the other one now lacks the rows of the band.
Stales(i, band) == [j \in {0, 1} |-> IF j = i THEN {} ELSE cap.stale[j] \union band]

\* The viewers seen when the keyframe was decided, but for those that are
\* behind or stalled now, are no longer owed one.
Unflagged(stalled) == {v \in cap.watch : Ready(v, stalled)}

\* take_damage and grab, then convert of what is new and what this frame had
\* not been brought up to date with.
Take ==
  /\ cap.at = "take"
  /\ LET band == cap.acc
         shm == [r \in Rows |-> IF r \in band THEN screen.rows[r] ELSE cap.shm[r]]
         i == cap.next
         todo == cap.stale[i] \union band
         map == IF cap.want \/ cap.full THEN Rows ELSE cap.mb
         buf == [r \in Rows |-> IF r \in todo THEN shm[r] ELSE cap.buf[i][r]]
         taken == [cap EXCEPT !.acc = {}, !.mb = {}, !.damaged = FALSE, !.full = FALSE, !.shm = shm]
     IN  IF band = {} /\ ~cap.want THEN cap' = [taken EXCEPT !.at = "top"] /\ UNCHANGED <<client, left>>
         ELSE \E stalled \in SUBSET cap.watch :
              LET owed == IF cap.want THEN Unflagged(stalled) ELSE {} IN
              /\ Stalls(stalled)
              /\ cap' = [taken EXCEPT !.buf[i] = buf, !.pool[i] = FALSE, !.stale = Stales(i, band),
                                      !.motion = @ \union map, !.next = 1 - i, !.at = "send",
                                      !.job = [idx |-> i, key |-> cap.want, buf |-> buf, map |-> map,
                                               owed |-> owed]]
              /\ client' = [v \in Viewers |-> IF v \in owed THEN [client[v] EXCEPT !.needs = FALSE]
                                              ELSE client[v]]
  /\ UNCHANGED <<screen, xq, jobs, enc, hub, view, stills>>

\* A quiet screen is sent again, sharper: the rows sent while they moved.
Paintover ==
  /\ cap.at = "paint"
  /\ LET i == cap.next
         buf == [r \in Rows |-> IF r \in cap.stale[i] THEN cap.shm[r] ELSE cap.buf[i][r]]
     IN  cap' = [cap EXCEPT !.buf[i] = buf, !.pool[i] = FALSE, !.stale[i] = {}, !.motion = {},
                            !.next = 1 - i, !.at = "send",
                            !.job = [idx |-> i, key |-> FALSE, buf |-> buf, map |-> cap.motion,
                                     owed |-> {}]]
  /\ UNCHANGED <<screen, xq, jobs, enc, hub, client, view, stills, left>>

Sends ==
  /\ cap.at = "send" /\ jobs = <<>>
  /\ jobs' = <<cap.job>>
  /\ cap' = [cap EXCEPT !.at = "top", !.job = NoJob]
  /\ UNCHANGED <<screen, xq, enc, hub, client, view, stills, left>>

\* wait_any ends by an event, the waker or its timeout.
Wakes ==
  /\ cap.at = "wait"
  /\ cap' = [cap EXCEPT !.at = "top"]
  /\ UNCHANGED <<screen, xq, jobs, enc, hub, client, view, stills, left>>

\* After a resize the encoder is joined, capture opened at the new size, and
\* every stream gets the new hello and is resynced.
Reopens ==
  /\ cap.at = "join" /\ jobs = <<>> /\ enc.at = "recv"
  /\ cap' = [FreshCap(screen.size) EXCEPT !.shm = screen.rows]
  /\ xq' = <<>>
  /\ hub' = [hub EXCEPT !.size = screen.size, !.waker = TRUE]
  /\ client' = [v \in Viewers |-> IF client[v].on THEN Sent(resync(client[v]), Hello(screen.size))
                                  ELSE client[v]]
  /\ UNCHANGED <<screen, jobs, enc, view, stills, left>>

-----------------------------------------------------------------------------
(* encode_loop. *)

\* The encoded frame gets a number; the buffer goes back at once.  A frame
\* the encoder fails is dropped, a keyframe too.
Encodes ==
  /\ enc.at = "recv" /\ jobs # <<>>
  /\ jobs' = <<>>
  /\ cap' = [cap EXCEPT !.pool[Head(jobs).idx] = TRUE]
  /\ \/ /\ enc' = [enc EXCEPT !.at = "each", !.job = Head(jobs), !.to = Clients]
        /\ UNCHANGED left
     \/ /\ left.faults > 0
        /\ left' = [left EXCEPT !.faults = @ - 1]
        /\ enc' = [enc EXCEPT !.lost = @ \union Head(jobs).owed]
  /\ UNCHANGED <<screen, xq, hub, client, view, stills>>

\* A viewer that is too far behind starts again at a keyframe.
Overrun(c) == IF c.started THEN resync(c) ELSE c
SendsTo(v) ==
  /\ enc.at = "each" /\ v \in enc.to
  /\ LET c == client[v]
         m == [t |-> "frame", size |-> cap.size, key |-> enc.job.key, follows |-> c.had,
               rows |-> enc.job.buf, map |-> enc.job.map]
     IN  client' = [client EXCEPT ![v] =
           IF Len(c.queue) > MAX_QUEUED THEN [Overrun(c) EXCEPT !.had = FALSE]
           ELSE IF c.started \/ enc.job.key THEN Sent([c EXCEPT !.started = TRUE, !.had = TRUE], m)
           ELSE [c EXCEPT !.had = FALSE]]
  /\ enc' = [enc EXCEPT !.to = @ \ {v}]
  /\ UNCHANGED <<screen, xq, cap, jobs, hub, view, stills, left>>
EncodeLoops ==
  /\ enc.at = "each" /\ enc.to = {}
  /\ enc' = [enc EXCEPT !.at = "recv", !.job = NoJob]
  /\ UNCHANGED <<screen, xq, cap, jobs, hub, client, view, stills, left>>

-----------------------------------------------------------------------------
(* The server and the viewers. *)

\* add_client: the hello goes in before any frame can.
add_client(v) ==
  /\ ~client[v].on /\ view[v].size = 0
  /\ client' = [client EXCEPT ![v] = Sent([Gone EXCEPT !.on = TRUE, !.needs = TRUE], Hello(hub.size))]
  /\ hub' = [hub EXCEPT !.waker = TRUE]
  /\ UNCHANGED <<screen, xq, cap, jobs, enc, view, stills, left>>
\* A stream that comes back is another Client, not one the threads have seen.
remove_client(v) ==
  /\ client[v].on /\ view[v].size # 0 /\ left.asks > 0
  /\ client' = [client EXCEPT ![v] = Gone]
  /\ view' = [view EXCEPT ![v] = [NoView EXCEPT !.bad = view[v].bad]]
  /\ cap' = [cap EXCEPT !.watch = @ \ {v}]
  /\ enc' = [enc EXCEPT !.to = @ \ {v}, !.lost = @ \ {v}]
  /\ hub' = [hub EXCEPT !.waker = TRUE]
  /\ left' = [left EXCEPT !.asks = @ - 1]
  /\ UNCHANGED <<screen, xq, jobs, stills>>
AsksKeyframe(v) ==
  /\ client[v].on /\ left.asks > 0
  /\ client' = [client EXCEPT ![v] = resync(@)]
  /\ hub' = [hub EXCEPT !.waker = TRUE]
  /\ left' = [left EXCEPT !.asks = @ - 1]
  /\ UNCHANGED <<screen, xq, cap, jobs, enc, view, stills>>
still ==
  /\ left.stills > 0
  /\ hub' = [hub EXCEPT !.stills = @ + 1, !.waker = TRUE]
  /\ left' = [left EXCEPT !.stills = @ - 1]
  /\ UNCHANGED <<screen, xq, cap, jobs, enc, client, view, stills>>

\* The writer puts a message on the socket and the viewer decodes it.
Delivers(v) ==
  /\ client[v].on /\ client[v].queue # <<>>
  /\ LET m == Head(client[v].queue)
         w == view[v]
     IN  view' = [view EXCEPT ![v] =
           IF m.t = "hello" THEN [w EXCEPT !.size = m.size, !.keyed = FALSE]
           ELSE [w EXCEPT !.bad = @ \/ m.size # w.size \/ (~m.key /\ ~(w.keyed /\ m.follows)),
                          !.keyed = TRUE,
                          !.pic = [r \in Rows |-> IF r \in m.map THEN m.rows[r] ELSE @[r]]]]
  /\ client' = [client EXCEPT ![v].queue = Tail(@)]
  /\ UNCHANGED <<screen, xq, cap, jobs, enc, hub, stills, left>>

Next ==
  \/ Draws \/ Resizes \/ still
  \/ Pump \/ answer_snapshots \/ Look \/ Take \/ Paintover \/ Sends \/ Wakes \/ Reopens
  \/ Encodes \/ EncodeLoops
  \/ \E v \in Viewers : SendsTo(v) \/ add_client(v) \/ remove_client(v) \/ AsksKeyframe(v) \/ Delivers(v)

Spec == Init /\ [][Next]_vars

-----------------------------------------------------------------------------
\* Every viewer can decode what it gets: frames of the size of its last hello,
\* a keyframe first, and then every frame without a gap (encode_loop resyncs
\* a viewer it skips; the encoder is joined before a new hello).
Decodable == \A v \in Viewers : ~view[v].bad

\* A viewer that has no keyframe is owed one: it is flagged, or the keyframe
\* its flag was taken for is on its way to it, whatever stalls, resyncs and
\* resizes meanwhile; or that keyframe failed in the encoder, and then the
\* viewer has to ask (capture_loop, encode_loop, resync).
KeyframeOwed ==
  \A v \in Clients : ~client[v].started =>
    \/ client[v].needs
    \/ v \in cap.job.owed \/ \E i \in DOMAIN jobs : v \in jobs[i].owed
    \/ enc.at = "each" /\ enc.job.key /\ v \in enc.to
    \/ v \in enc.lost

\* Not so, and refuted by TLC: the same without the last case.  The flag is
\* taken when the job is made, and not set again when the encoder fails.
KeyframeAlwaysOwed == KeyframeOwed /\ \A v \in enc.lost : client[v].started \/ client[v].needs

\* A still asked for is answered or the capture thread is about to look: a
\* waiting thread with a still asked for has its waker set.
StillsWake == (cap.at = "wait" /\ hub.stills > 0) => hub.waker

\* When everything is quiet and no frame failed, a viewer sees the screen: no
\* row that changed was left out of a map or of the other frame.
ShowsScreen ==
  (/\ cap.at = "wait" /\ ~cap.damaged /\ xq = <<>> /\ jobs = <<>> /\ enc.at = "recv"
   /\ left.faults = MaxFaults) =>
     \A v \in Clients : (client[v].started /\ ~client[v].needs /\ client[v].queue = <<>>)
        => view[v].pic = screen.rows

StreamSafe == Decodable /\ KeyframeOwed /\ StillsWake /\ ShowsScreen
=============================================================================
