------------------------------ MODULE Forward ------------------------------
(***************************************************************************)
(* A connection forwarded to a port in the guest: four copiers in a row.   *)
(* On the host they are the two threads of relay in                        *)
(* crates/shuru-vm/src/sandbox.rs, or the select of relay in               *)
(* crates/shuru-node/src/serve/ports.rs (whole_close); in the guest the    *)
(* two threads of forward_relay in crates/shuru-guest/src/main.rs. Data is *)
(* a count of chunks on each hop, a hop holds Room of them.                *)
(***************************************************************************)
EXTENDS Naturals, FiniteSets

CONSTANTS Room,            \* chunks a hop holds
          MaxData          \* bound on what each end sends

VARIABLES
  whole,                   \* whole_close of the ForwardRequest
  phase,                   \* "hello", "open" (asked for), "relay" or "refused"
  hop,                     \* each hop: chunks on it, end of file sent, reader gone
  copier,                  \* each copier: "run" or "done"
  sent, got,               \* chunks each end sent and got
  left,                    \* ends that closed the connection, both ways
  permit                   \* the agent holds a stream permit for it

vars == <<whole, phase, hop, copier, sent, got, left, permit>>

Hops == {"up1", "up2", "up3", "down1", "down2", "down3"}
Copiers == {"hostUp", "guestUp", "hostDown", "guestDown"}
Ends == {"client", "target"}
From == [hostUp |-> "up1", guestUp |-> "up2", guestDown |-> "down1", hostDown |-> "down2"]
To == [hostUp |-> "up2", guestUp |-> "up3", guestDown |-> "down2", hostDown |-> "down3"]
Out == [client |-> "up1", target |-> "down1"]
In == [client |-> "down3", target |-> "up3"]
Empty == [n |-> 0, fin |-> FALSE, gone |-> FALSE]

\* The write side of h shut down; the connection of h dropped at its reader.
Fin(h) == [h EXCEPT !.fin = TRUE]
Gone(h) == [h EXCEPT !.gone = TRUE, !.n = 0]

-----------------------------------------------------------------------------
\* The host asks the guest for the port: open_forward_stream, or open once a
\* WebSocket has said where to. carry gives up on one that does not, in time.
opens ==
  /\ phase = "hello" /\ phase' = "open"
  /\ UNCHANGED <<whole, hop, copier, sent, got, left, permit>>
Refused == /\ phase' = "refused" /\ permit' = FALSE
           /\ hop' = [h \in Hops |-> Gone(Fin(hop[h]))]
           /\ UNCHANGED <<whole, copier, sent, got, left>>
carryRefuses == phase = "hello" /\ whole /\ Refused

\* handle_forward_connection of the guest: the port is connected to and the
\* answer sent, or an error is and both ends close.
connects ==
  /\ phase = "open" /\ phase' = "relay" /\ copier' = [c \in Copiers |-> "run"]
  /\ UNCHANGED <<whole, hop, sent, got, left, permit>>
refuses == phase = "open" /\ Refused

\* Where a copier has nothing more to do: its input ended, or what it writes
\* to is gone.
Ended(c) ==
  \/ hop[From[c]].n = 0 /\ (hop[From[c]].fin \/ hop[From[c]].gone)
  \/ hop[From[c]].n > 0 /\ hop[To[c]].gone
copies(c) ==
  /\ copier[c] = "run" /\ hop[From[c]].n > 0 /\ ~hop[To[c]].gone /\ hop[To[c]].n < Room
  /\ hop' = [hop EXCEPT ![From[c]].n = @ - 1, ![To[c]].n = @ + 1]
  /\ UNCHANGED <<whole, phase, copier, sent, got, left, permit>>
\* A write that makes no progress for STALL or FORWARD_STALL fails.
Stalled(c) == whole /\ hop[From[c]].n > 0 /\ hop[To[c]].n = Room

\* The connections of a relay go when both its copiers are done: what they
\* had not read is lost.
Released(h, done) ==
  [x \in Hops |-> IF \/ x \in {"up1", "down2"} /\ {"hostUp", "hostDown"} \subseteq done
                     \/ x \in {"up2", "down1"} /\ {"guestUp", "guestDown"} \subseteq done
                  THEN Gone(h[x]) ELSE h[x]]
Done == {c \in Copiers : copier[c] = "done"}

\* relay of the host without whole_close: the end of one way is passed on.
hostEnds(c) ==
  /\ c \in {"hostUp", "hostDown"} /\ copier[c] = "run" /\ Ended(c) /\ ~whole
  /\ copier' = [copier EXCEPT ![c] = "done"]
  /\ hop' = Released([hop EXCEPT ![To[c]] = Fin(@)], Done \cup {c})
  /\ UNCHANGED <<whole, phase, sent, got, left, permit>>

\* relay of the agent: the first of the two to end takes the other with it,
\* the connection to the guest and its permit are dropped. A stalled client
\* is sent no close.
selectEnds(c) ==
  /\ c \in {"hostUp", "hostDown"} /\ copier[c] = "run" /\ whole /\ (Ended(c) \/ Stalled(c))
  /\ copier' = [copier EXCEPT !["hostUp"] = "done", !["hostDown"] = "done"]
  /\ hop' = [hop EXCEPT !["up1"] = Gone(@), !["down2"] = Gone(@),
                        !["up2"] = Fin(@), !["down3"] = Fin(@)]
  /\ permit' = FALSE
  /\ UNCHANGED <<whole, phase, sent, got, left>>

\* forward_relay: the thread to the port shuts down both ways with
\* whole_close, "also ends the read of the other thread".
\* Mutant: only the write side is shut down whatever the host asked for.
ShutsWriteOnly(h) == [h EXCEPT !["up3"] = Fin(@)]
ShutsPort(h) == [h EXCEPT !["up3"] = Fin(@), !["down1"] = IF whole THEN Fin(@) ELSE @]
guestUpEnds ==
  /\ copier["guestUp"] = "run" /\ (Ended("guestUp") \/ Stalled("guestUp"))
  /\ copier' = [copier EXCEPT !["guestUp"] = "done"]
  /\ hop' = Released(ShutsPort(hop), Done \cup {"guestUp"})
  /\ UNCHANGED <<whole, phase, sent, got, left, permit>>
guestDownEnds ==
  /\ copier["guestDown"] = "run" /\ Ended("guestDown")
  /\ copier' = [copier EXCEPT !["guestDown"] = "done"]
  /\ hop' = Released([hop EXCEPT !["down2"] = Fin(@)], Done \cup {"guestDown"})
  /\ UNCHANGED <<whole, phase, sent, got, left, permit>>

-----------------------------------------------------------------------------
(* The client and the program at the port (external).                      *)

Sends(e) ==
  /\ phase = "relay" /\ e \notin left /\ ~hop[Out[e]].fin /\ ~hop[Out[e]].gone
  /\ sent[e] < MaxData /\ hop[Out[e]].n < Room
  /\ sent' = [sent EXCEPT ![e] = @ + 1] /\ hop' = [hop EXCEPT ![Out[e]].n = @ + 1]
  /\ UNCHANGED <<whole, phase, copier, got, left, permit>>
Takes(e) ==
  /\ e \notin left /\ hop[In[e]].n > 0
  /\ got' = [got EXCEPT ![e] = @ + 1] /\ hop' = [hop EXCEPT ![In[e]].n = @ - 1]
  /\ UNCHANGED <<whole, phase, copier, sent, left, permit>>
\* a WebSocket has no half close
HalfCloses(e) ==
  /\ phase = "relay" /\ e \notin left /\ ~hop[Out[e]].fin /\ (whole => e = "target")
  /\ hop' = [hop EXCEPT ![Out[e]] = Fin(@)]
  /\ UNCHANGED <<whole, phase, copier, sent, got, left, permit>>
Leaves(e) ==
  /\ phase = "relay" /\ e \notin left /\ left' = left \cup {e}
  /\ hop' = [hop EXCEPT ![Out[e]] = Fin(@), ![In[e]] = Gone(@)]
  /\ UNCHANGED <<whole, phase, copier, sent, got, permit>>

-----------------------------------------------------------------------------
Init ==
  /\ whole \in BOOLEAN /\ phase = "hello" /\ hop = [h \in Hops |-> Empty]
  /\ copier = [c \in Copiers |-> "none"] /\ sent = [e \in Ends |-> 0] /\ got = sent
  /\ left = {} /\ permit = whole

Steps == \/ opens \/ carryRefuses \/ connects \/ refuses \/ guestUpEnds \/ guestDownEnds
         \/ \E c \in Copiers : copies(c) \/ hostEnds(c) \/ selectEnds(c)
Next == Steps \/ \E e \in Ends : Sends(e) \/ Takes(e) \/ HalfCloses(e) \/ Leaves(e)

Spec == Init /\ [][Next]_vars

-----------------------------------------------------------------------------
\* A half close loses nothing: without whole_close, when the copiers are done
\* and neither end left, each end has been or will be handed all that the
\* other sent, an answer that came after the end of the request included
\* (relay and forward_relay shut down one way only).
HalfCloseKeeps ==
  ~whole /\ phase = "relay" /\ left = {} /\ Done = Copiers =>
    /\ got["target"] + hop["up3"].n = sent["client"]
    /\ got["client"] + hop["down3"].n = sent["target"]

\* With whole_close the connection ends as one: once the host has let go, no
\* copier of the guest is left waiting for the port, and the permit went with the host's side.
WholeEnds ==
  /\ whole /\ phase = "relay" /\ copier["hostUp"] = "done" /\ ~ENABLED Steps => Done = Copiers
  /\ permit => phase # "refused" /\ (phase = "relay" => copier["hostUp"] # "done")

ForwardSafe == HalfCloseKeeps /\ WholeEnds
=============================================================================
