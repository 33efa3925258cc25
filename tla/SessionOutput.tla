--------------------------- MODULE SessionOutput ---------------------------
(***************************************************************************)
(* One exec session of the guest agent, from the loop that runs it: its    *)
(* output ring, the clients attached to it, its stdin queue and its        *)
(* hangup (crates/shuru-guest/src/sessions/ring.rs and event_loop.rs).     *)
(* A byte of output is its offset; log holds the stream of each.           *)
(***************************************************************************)
EXTENDS Naturals, Sequences, FiniteSets, FiniteSetsExt

CONSTANTS
  Clients,
  Buffer, MaxRuns,        \* BUFFER and MAX_RUNS of the ring
  SendLow, StdinQueue,    \* SEND_LOW and STDIN_QUEUE
  Loads                   \* kinds of session: bounds on its bytes of output, on
                          \* the frames of a client and on the attachments
                          \* made, and tty and limit

VARIABLES
  load,                   \* the kind: ExecRequest::tty, and limit when
                          \* max_run_after_disconnect is set
  \* The process.
  pipe, held,             \* unread bytes, and streams still open, of its side
  exit,                   \* "running", "exited" once reaped, then "known"
  \* Session.
  life, log, start, outputs, finished, owner, stdin, queue, stdin_eof,
  hangup,                 \* "none", "armed", or "sent" since the last client left
  att, attaches,
  \* Loop.
  dirty, left,            \* clients this settle still has to see
  phase, reg              \* where the loop is; sources it waits for

vars == <<load, pipe, held, exit, life, log, start, outputs, finished,
          owner, stdin, queue, stdin_eof, hangup, att, attaches, dirty, left,
          phase, reg>>
process == <<load, pipe, held, exit>>
session == <<life, log, start, outputs, finished, owner, stdin, queue,
             stdin_eof, hangup, att, attaches>>

Streams == {"out", "err"}
Nobody == "nobody"
EXIT == 0                 \* the EXIT frame, among offsets of bytes
End == Len(log)
\* out is what fill queued for the client, got the last byte it was sent.
Detached == [on |-> FALSE, cursor |-> 0, out |-> <<>>, got |-> 0,
             closing |-> FALSE, blocked |-> FALSE, n |-> 0, eof |-> FALSE,
             shut |-> FALSE]
Attached == {c \in Clients : att[c].on}

-----------------------------------------------------------------------------
(* The ring.                                                               *)

\* The first bytes of the runs in the bytes of l after s.
RunStarts(l, s) == {i \in s + 1 .. Len(l) : i = s + 1 \/ l[i] # l[i - 1]}
Runs(l, s) == Cardinality(RunStarts(l, s))
FirstRun(l, s) == Min({i \in RunStarts(l, s) : i > s + 1} \cup {Len(l) + 1}) - s - 1

\* The start after bytes were appended to make l.
DropFront(l) ==
  LET s == Max({start, IF Len(l) > Buffer THEN Len(l) - Buffer ELSE 0})
  IN IF Runs(l, s) > MaxRuns THEN s + FirstRun(l, s) ELSE s

\* Mutant: a run more than MAX_RUNS is not counted.
RingRoomBytesOnly(st, keep) == IF keep + Buffer > End THEN keep + Buffer - End ELSE 0
RingRoom(st, keep) ==
  IF /\ End > start => log[End] # st
     /\ Runs(log, start) >= MaxRuns
     /\ start + FirstRun(log, start) > keep
  THEN 0 ELSE IF keep + Buffer > End THEN keep + Buffer - End ELSE 0

\* Loop::room
Room(st) ==
  IF Attached = {} THEN Buffer
  ELSE RingRoom(st, Min({att[c].cursor : c \in Attached}))

-----------------------------------------------------------------------------
(* Handlers of the loop, each between a wait and the next settle.          *)

Handler == phase = "wait" /\ life = "live" /\ UNCHANGED <<load, phase, left, reg>>

\* read_output
ReadOutput(st) ==
  /\ Handler /\ st \in reg \cap outputs
  /\ \/ \E n \in 1 .. Min({pipe[st], Room(st)}) :
          LET l == log \o [i \in 1 .. n |-> st] IN
          /\ log' = l
          /\ start' = DropFront(l)
          /\ pipe' = [pipe EXCEPT ![st] = @ - n]
          /\ UNCHANGED outputs
     \/ /\ Room(st) > 0 /\ pipe[st] = 0 /\ st \notin held
        /\ outputs' = outputs \ {st}
        /\ UNCHANGED <<log, start, pipe>>
  /\ dirty' = TRUE
  /\ UNCHANGED <<held, exit, life, finished, owner, stdin, queue, stdin_eof,
                 hangup, att, attaches>>

\* write_stdin: the process takes some of the queue, or has closed its stdin.
WriteStdin ==
  /\ Handler /\ "stdin" \in reg /\ stdin /\ queue > 0
  /\ \/ \E n \in 1 .. queue : queue' = queue - n /\ UNCHANGED stdin
     \/ queue' = 0 /\ stdin' = FALSE
  /\ dirty' = TRUE
  /\ UNCHANGED <<pipe, held, exit, life, log, start, outputs, finished, owner,
                 stdin_eof, hangup, att, attaches>>

\* detach, on the attachments a, with the session as it is then
Detach(c, a) ==
  /\ att' = [a EXCEPT ![c] = Detached]
  /\ hangup' = IF \A d \in Clients \ {c} : ~a[d].on
               THEN IF ~finished THEN IF load.limit THEN "armed" ELSE "none" ELSE hangup
               ELSE hangup

\* take_input: the whole frames of c, until stdin has no room. The frames of
\* a client are n of STDIN and then, perhaps, STDIN_EOF.
Takes(c) == owner \in {Nobody, c}
Taken(c) == IF ~Takes(c) \/ ~stdin THEN att[c].n ELSE Min({att[c].n, StdinQueue - queue})
TakeInput(c) ==
  LET rest == att[c].n - Taken(c)
      eof  == Takes(c) /\ att[c].eof /\ rest = 0
  IN /\ queue' = IF Takes(c) /\ stdin THEN queue + Taken(c) ELSE queue
     /\ stdin_eof' = (stdin_eof \/ eof)
     /\ owner' = IF Takes(c) /\ (Taken(c) > 0 \/ eof) THEN c ELSE owner
     /\ att' = [att EXCEPT ![c].n = rest, ![c].eof = @ /\ rest > 0, ![c].blocked = rest > 0]

\* An event of the socket of c: read_input, and detach at its end.
ReadInput(c) ==
  /\ Handler /\ c \in Attached /\ ~att[c].blocked
  /\ att[c].n > 0 \/ att[c].eof
  /\ ~att[c].shut
  /\ TakeInput(c)
  /\ dirty' = TRUE
  /\ UNCHANGED <<pipe, held, exit, life, log, start, outputs, finished, stdin,
                 hangup, attaches>>

\* The client is gone: what it still had to say is taken if there is room,
\* unless its input was waiting; then its hangup alone ends it.
ClientGone(c) ==
  /\ Handler /\ c \in Attached /\ att[c].shut
  /\ LET heard == ~att[c].blocked
         eof   == heard /\ Takes(c) /\ att[c].eof /\ att[c].n = Taken(c)
         claim == heard /\ Takes(c) /\ (Taken(c) > 0 \/ eof)
     IN /\ queue' = IF heard /\ Takes(c) /\ stdin THEN queue + Taken(c) ELSE queue
        /\ stdin_eof' = (stdin_eof \/ eof)
        /\ owner' = IF owner = c \/ claim THEN Nobody ELSE owner
  /\ Detach(c, att)
  /\ dirty' = TRUE
  /\ UNCHANGED <<pipe, held, exit, life, log, start, outputs, finished, stdin, attaches>>

\* The socket of c has room again: flush, n more items of its output sent.
Flushed(a, n) == [a EXCEPT !.out = SubSeq(a.out, n + 1, Len(a.out)),
                           !.got = IF n = 0 THEN @ ELSE a.out[n]]
Flush(c) ==
  /\ Handler /\ c \in Attached \cap reg
  /\ \E n \in 0 .. Len(att[c].out) :
       LET a == [att EXCEPT ![c] = Flushed(att[c], n)] IN
       IF a[c].closing /\ a[c].out = <<>>
       THEN Detach(c, a) /\ owner' = IF owner = c THEN Nobody ELSE owner
       ELSE att' = a /\ UNCHANGED <<hangup, owner>>
  /\ dirty' = TRUE
  /\ UNCHANGED <<pipe, held, exit, life, log, start, outputs, finished, stdin,
                 queue, stdin_eof, attaches>>

\* attach, from an offset the client asks for
Attach(c, offset, take_owner) ==
  /\ attaches < load.attach /\ ~att[c].on /\ offset \in 0 .. End
  /\ LET cursor == Max({offset, start}) IN
     att' = [att EXCEPT ![c] = [Detached EXCEPT !.on = TRUE, !.got = cursor,
                                                !.cursor = cursor]]
  /\ owner' = IF take_owner \/ owner = Nobody THEN c ELSE owner
  /\ hangup' = "none"
  /\ attaches' = attaches + 1

CmdAttach ==
  /\ Handler
  /\ \E c \in Clients, o \in 0 .. End, t \in BOOLEAN : Attach(c, o, t)
  /\ dirty' = TRUE
  /\ UNCHANGED <<pipe, held, exit, life, log, start, outputs, finished, stdin,
                 queue, stdin_eof>>

\* exited
CmdExited ==
  /\ Handler /\ exit = "exited"
  /\ exit' = "known" /\ dirty' = TRUE
  /\ UNCHANGED <<pipe, held, session>>

\* start: the connection that started the session is attached before any
\* output is read, unless MAX_ATTACHMENTS are taken; an exit may be known.
Start ==
  /\ phase = "wait" /\ life = "none" /\ life' = "live"
  /\ exit' = (IF exit = "exited" THEN "known" ELSE exit) /\ dirty' = TRUE
  /\ \/ \E c \in Clients : Attach(c, 0, FALSE)
     \/ /\ hangup' = IF load.limit THEN "armed" ELSE "none"
        /\ UNCHANGED <<att, owner, attaches>>
  /\ UNCHANGED <<load, pipe, held, log, start, outputs, finished, stdin, queue,
                 stdin_eof, left, phase, reg>>

\* timers: the hangup is due.
HangUp ==
  /\ Handler /\ hangup = "armed" /\ hangup' = "sent"
  /\ UNCHANGED <<pipe, held, exit, life, log, start, outputs, finished, owner,
                 stdin, queue, stdin_eof, att, attaches, dirty>>

\* sweep: KEEP_EXITED has passed, or MAX_EXITED newer sessions have ended.
Sweep ==
  /\ Handler /\ finished /\ Attached = {}
  /\ life' = "gone" /\ dirty' = FALSE
  /\ UNCHANGED <<pipe, held, exit, log, start, outputs, finished, owner, stdin,
                 queue, stdin_eof, hangup, att, attaches>>

-----------------------------------------------------------------------------
(* settle                                                                  *)

Settle ==
  /\ phase = "wait" /\ life = "live" /\ dirty
  /\ phase' = "settle" /\ dirty' = FALSE /\ left' = Attached
  /\ LET fin  == ~finished /\ exit = "known" /\ outputs = {}
         done == finished \/ fin \/ (stdin_eof /\ queue = 0 /\ ~load.tty)
     IN /\ finished' = (finished \/ fin)
        /\ hangup' = IF fin THEN "none" ELSE hangup
        /\ stdin' = (stdin /\ ~done)
        /\ queue' = IF done THEN 0 ELSE queue
  /\ UNCHANGED <<process, life, log, start, outputs, owner, stdin_eof, att, attaches, reg>>

\* fill: Ring::frames from the cursor, and EXIT behind the last byte.
Filled(a) ==
  LET at   == Max({a.cursor, start})
      take == Min({SendLow, End - at})
      more == Len(a.out) < SendLow /\ a.cursor < End
      b    == IF more THEN [a EXCEPT !.cursor = at + take,
                                     !.out = @ \o [i \in 1 .. take |-> at + i]]
              ELSE a
  IN IF finished /\ ~b.closing /\ b.cursor = End
     THEN [b EXCEPT !.closing = TRUE, !.out = Append(@, EXIT)] ELSE b

\* fill and flush of one attachment, and its input if that can go on now.
SettleClient(c) ==
  /\ phase = "settle" /\ c \in left /\ left' = left \ {c}
  /\ \E n \in 0 .. Len(Filled(att[c]).out) :
       LET a == [att EXCEPT ![c] = Flushed(Filled(att[c]), n)] IN
       \/ /\ a[c].closing /\ a[c].out = <<>>
          /\ Detach(c, a) /\ dirty' = TRUE
          /\ owner' = IF owner = c THEN Nobody ELSE owner
          /\ UNCHANGED <<queue, stdin_eof>>
       \/ /\ ~(a[c].closing /\ a[c].out = <<>>)
          /\ a[c].blocked /\ queue < StdinQueue
          /\ queue' = IF Takes(c) /\ stdin THEN queue + Taken(c) ELSE queue
          /\ LET rest == a[c].n - Taken(c) IN
             /\ att' = [a EXCEPT ![c].n = rest, ![c].eof = @ /\ rest > 0,
                                 ![c].blocked = rest > 0]
             /\ stdin_eof' = (stdin_eof \/ (Takes(c) /\ a[c].eof /\ rest = 0))
          /\ owner' = IF Takes(c) THEN c ELSE owner
          /\ dirty' = TRUE
          /\ UNCHANGED hangup
       \/ /\ ~(a[c].closing /\ a[c].out = <<>>)
          /\ ~(a[c].blocked /\ queue < StdinQueue)
          /\ att' = a
          /\ UNCHANGED <<queue, stdin_eof, owner, hangup, dirty>>
  /\ UNCHANGED <<process, life, log, start, outputs, finished, stdin, attaches, phase, reg>>

\* register: what every descriptor can do now.
Register ==
  /\ phase = "settle" /\ left = {} /\ phase' = "wait"
  /\ reg' = {st \in outputs : Room(st) > 0}
            \cup (IF stdin /\ queue > 0 THEN {"stdin"} ELSE {})
            \cup {c \in Attached : att[c].out # <<>> \/ att[c].cursor < End}
  /\ UNCHANGED <<process, session, dirty, left>>

-----------------------------------------------------------------------------
(* The process and the clients (external).                                 *)

ProcessWrites(st) ==
  /\ st \in held /\ exit = "running"
  /\ End + pipe["out"] + pipe["err"] < load.out
  /\ pipe' = [pipe EXCEPT ![st] = @ + 1]
  /\ UNCHANGED <<load, held, exit, session, dirty, left, phase, reg>>

\* A process it left behind may hold a stream after the exit.
ProcessCloses(st) ==
  /\ st \in held /\ held' = held \ {st}
  /\ UNCHANGED <<load, pipe, exit, session, dirty, left, phase, reg>>

\* Reaped: Cmd::Exited is posted, before Cmd::Start perhaps.
ProcessExits ==
  /\ exit = "running" /\ exit' = "exited"
  /\ UNCHANGED <<load, pipe, held, session, dirty, left, phase, reg>>

ClientSends(c) ==
  /\ c \in Attached /\ ~att[c].shut /\ ~att[c].eof
  /\ \/ att[c].n < load.in /\ att' = [att EXCEPT ![c].n = @ + 1]
     \/ load.in > 0 /\ att' = [att EXCEPT ![c].eof = TRUE]
  /\ UNCHANGED <<process, life, log, start, outputs, finished, owner, stdin,
                 queue, stdin_eof, hangup, attaches, dirty, left, phase, reg>>

ClientCloses(c) ==
  /\ c \in Attached /\ ~att[c].shut
  /\ att' = [att EXCEPT ![c].shut = TRUE]
  /\ UNCHANGED <<process, life, log, start, outputs, finished, owner, stdin,
                 queue, stdin_eof, hangup, attaches, dirty, left, phase, reg>>

-----------------------------------------------------------------------------
Init ==
  /\ load \in Loads
  /\ outputs = IF load.tty THEN {"out"} ELSE Streams
  /\ held = outputs
  /\ pipe = [st \in Streams |-> 0]
  /\ exit = "running" /\ life = "none" /\ log = <<>> /\ start = 0
  /\ finished = FALSE /\ owner = Nobody /\ stdin = TRUE /\ queue = 0
  /\ stdin_eof = FALSE /\ hangup = "none"
  /\ att = [c \in Clients |-> Detached] /\ attaches = 0
  /\ dirty = FALSE /\ left = {} /\ phase = "wait" /\ reg = {}

Next ==
  \/ Start \/ CmdAttach \/ CmdExited \/ HangUp \/ Sweep \/ WriteStdin
  \/ Settle \/ Register \/ ProcessExits
  \/ \E st \in Streams : ReadOutput(st) \/ ProcessWrites(st) \/ ProcessCloses(st)
  \/ \E c \in Clients :
       ReadInput(c) \/ ClientGone(c) \/ Flush(c) \/ SettleClient(c)
       \/ ClientSends(c) \/ ClientCloses(c)

Spec == Init /\ [][Next]_vars

-----------------------------------------------------------------------------
\* A client is sent every byte from its offset on, none missing and none
\* twice, whatever the ring dropped (room, frames, fill).
OutputGapless ==
  \A c \in Attached : \A i \in 1 .. Len(att[c].out) :
    att[c].out[i] \in {EXIT, att[c].got + i}

\* EXIT is the last thing a client hears, and only when every stream has
\* ended and it has all the output there was.
ExitIsLast ==
  \A c \in Attached : \A i \in 1 .. Len(att[c].out) :
    att[c].out[i] = EXIT =>
      /\ i = Len(att[c].out) /\ outputs = {}
      /\ att[c].got + i - 1 = End

\* When the loop goes to sleep, nothing is left that it should do and will
\* not be woken for: input waits only for a full queue, a stream is read
\* while there is room, and a client with output to come is written to.
LoopNotStuck ==
  (phase = "wait" /\ ~dirty /\ life = "live") =>
    /\ \A c \in Attached : att[c].blocked => queue >= StdinQueue /\ "stdin" \in reg
    /\ \A st \in outputs : st \in reg <=> Room(st) > 0
    /\ \A c \in Attached : att[c].cursor < End => c \in reg
    /\ exit = "known" /\ outputs = {} => finished

\* A session with a limit that runs with nobody attached is hung up, and one
\* that somebody is attached to is not.
AloneIsHungUp ==
  /\ life = "live" /\ load.limit /\ ~finished /\ Attached = {} => hangup # "none"
  /\ hangup = "armed" => Attached = {} /\ load.limit

SessionSafe == OutputGapless /\ ExitIsLast /\ LoopNotStuck /\ AloneIsHungUp
=============================================================================
