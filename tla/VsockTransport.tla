--------------------------- MODULE VsockTransport ---------------------------
(***************************************************************************)
(* The worker of the vsock device and the virtqueues it shares with the    *)
(* guest: run and Transport::process of                                    *)
(* crates/shuru-linux/src/kvm/vsock.rs, with vsock/queue.rs.               *)
(*                                                                         *)
(* A pass turns guest kicks off, takes what the guest sent, fills the      *)
(* guest's rx buffers, turns kicks on and looks at the rings once more.    *)
(* The guest posts and looks at the kick flag on its own vCPUs meanwhile.  *)
(* The stores of the worker sit in a store buffer until it is flushed, at  *)
(* the latest by a fence.                                                  *)
(*                                                                         *)
(* The ring indices stand as their differences: what is posted and not     *)
(* taken, and what is used and not taken back.  The mux stands as what it  *)
(* has for the guest: pending resets, and packets of connections.          *)
(***************************************************************************)
EXTENDS Integers, Sequences

CONSTANTS
  Size,       \* buffers of each ring
  Batch,      \* BATCH
  MaxResets,  \* where can_receive stops the tx queue
  MaxData     \* bound on packets connections have for the guest

ASSUME TransportAssumption ==
  Size \in Nat /\ Batch \in Nat \ {0} /\ MaxResets \in Nat /\ MaxData \in Nat

Queues == {"rx", "tx"}

VARIABLES
  \* The worker.
  pc,         \* where it is
  tx_used, taken,
  filled,     \* rx buffers used in this pass
  rx_drained, busy,
  buffered,   \* its stores that memory has not seen
  \* What wakes it.
  wake,       \* the eventfd, or a host socket
  kick,       \* queues whose kick eventfd is set
  frozen,     \* State::frozen
  \* The mux.
  resets, data,
  \* The rings.
  suppressed, \* VRING_USED_F_NO_NOTIFY
  backlog,    \* buffers posted and not taken by the device
  used,       \* buffers used and not taken back by the driver
  \* The driver (external).
  owned,      \* buffers it may post
  posting,    \* "idle", or "check" between a post and its look at the flag
  napi,       \* "asleep", "polling" or "enabling"
  no_int,     \* VRING_AVAIL_F_NO_INTERRUPT
  irq         \* an interrupt it has not seen

pass == <<tx_used, taken, filled, rx_drained>>
worker == <<pc, pass, busy, buffered>>
wakes == <<wake, kick, frozen>>
mux == <<resets, data>>
driver == <<owned, posting, napi, no_int>>
vars == <<worker, wakes, mux, suppressed, backlog, used, driver, irq>>

Init ==
  /\ pc = "wait" /\ busy = FALSE /\ buffered = <<>>
  /\ tx_used = FALSE /\ taken = 0 /\ filled = 0 /\ rx_drained = FALSE
  /\ wake = FALSE /\ kick = {} /\ frozen = FALSE
  /\ resets = 0 /\ data = 0
  /\ suppressed = [q \in Queues |-> FALSE]
  /\ backlog = [q \in Queues |-> 0] /\ used = [q \in Queues |-> 0]
  /\ owned = [q \in Queues |-> Size]
  /\ posting = [q \in Queues |-> "idle"]
  /\ napi = [q \in Queues |-> "asleep"] /\ no_int = [q \in Queues |-> FALSE]
  /\ irq = FALSE

Flag(q, off) == [what |-> "flag", queue |-> q, value |-> off]
Used(q) == [what |-> "used", queue |-> q, value |-> TRUE]

\* The oldest store reaches memory.
Flush ==
  /\ buffered # <<>>
  /\ buffered' = Tail(buffered)
  /\ LET store == Head(buffered) IN
       IF store.what = "flag"
         THEN /\ suppressed' = [suppressed EXCEPT ![store.queue] = store.value]
              /\ UNCHANGED used
         ELSE /\ used' = [used EXCEPT ![store.queue] = @ + 1]
              /\ UNCHANGED suppressed
  /\ UNCHANGED <<pc, pass, busy, wakes, mux, backlog, driver, irq>>

----------------------------------------------------------------------------
(* run                                                                     *)

\* Every event ready is taken; the kicks of a frozen device go unanswered.
Wakes ==
  /\ pc = "wait" /\ (busy \/ wake \/ kick # {})
  /\ wake' = FALSE /\ kick' = {} /\ busy' = FALSE
  /\ IF frozen THEN UNCHANGED <<pc, pass>>
     ELSE /\ pc' = "off"
          /\ tx_used' = FALSE /\ taken' = 0 /\ filled' = 0
          /\ rx_drained' = FALSE
  /\ UNCHANGED <<buffered, frozen, mux, suppressed, backlog, used, driver,
                 irq>>

----------------------------------------------------------------------------
(* Transport::process                                                      *)

\* set_notify stores the flags,
SetNotify ==
  /\ pc \in {"off", "on"}
  /\ buffered' = buffered \o <<Flag("tx", pc = "off"), Flag("rx", pc = "off")>>
  /\ pc' = IF pc = "off" THEN "off_fence" ELSE "on_fence"
  /\ UNCHANGED <<pass, busy, wakes, mux, suppressed, backlog, used, driver,
                 irq>>

\* Mutant: set_notify has no fence.
FenceNot ==
  /\ pc \in {"off_fence", "on_fence"}
  /\ pc' = IF pc = "off_fence" THEN "tx" ELSE "interrupt"
  /\ UNCHANGED <<pass, busy, buffered, wakes, mux, suppressed, backlog, used,
                 driver, irq>>

\* and waits for them to be seen before the rings are looked at.
Fence ==
  /\ pc \in {"off_fence", "on_fence"} /\ buffered = <<>>
  /\ pc' = IF pc = "off_fence" THEN "tx" ELSE "interrupt"
  /\ UNCHANGED <<pass, busy, buffered, wakes, mux, suppressed, backlog, used,
                 driver, irq>>

\* Mutant: one reset too many.
can_receive_more == resets <= MaxResets

can_receive == resets < MaxResets

\* One packet of the guest, which may earn it a reset, or let a connection
\* send, or be malformed and do nothing.
TakeTx ==
  /\ pc = "tx" /\ taken < Batch /\ can_receive /\ backlog["tx"] > 0
  /\ backlog' = [backlog EXCEPT !["tx"] = @ - 1]
  /\ buffered' = Append(buffered, Used("tx"))
  /\ tx_used' = TRUE /\ taken' = taken + 1
  /\ \/ resets' = resets + 1 /\ UNCHANGED data
     \/ data < MaxData /\ data' = data + 1 /\ UNCHANGED resets
     \/ UNCHANGED mux
  /\ UNCHANGED <<pc, filled, rx_drained, busy, wakes, suppressed, used,
                 driver, irq>>

TxDone ==
  /\ pc = "tx" /\ ~(taken < Batch /\ can_receive /\ backlog["tx"] > 0)
  /\ pc' = "fill"
  /\ UNCHANGED <<pass, busy, buffered, wakes, mux, suppressed, backlog, used,
                 driver, irq>>

\* Mux::fill: resets first, then the connections.
Fill ==
  /\ pc = "fill" /\ backlog["rx"] > 0 /\ filled < Batch
  /\ \/ resets > 0 /\ resets' = resets - 1 /\ UNCHANGED data
     \/ resets = 0 /\ data > 0 /\ data' = data - 1 /\ UNCHANGED resets
  /\ backlog' = [backlog EXCEPT !["rx"] = @ - 1]
  /\ filled' = filled + 1
  /\ UNCHANGED <<pc, tx_used, taken, rx_drained, busy, buffered, wakes,
                 suppressed, used, driver, irq>>

\* A malformed chain at the front goes back empty.
FillInvalid ==
  /\ pc = "fill" /\ backlog["rx"] > 0 /\ filled = 0
  /\ backlog' = [backlog EXCEPT !["rx"] = @ - 1]
  /\ filled' = 1 /\ pc' = "complete"
  /\ UNCHANGED <<tx_used, taken, rx_drained, busy, buffered, wakes, mux,
                 suppressed, used, driver, irq>>

\* No room, or nothing to send.
FillDone ==
  /\ pc = "fill"
  /\ backlog["rx"] = 0 \/ filled = Batch \/ (resets = 0 /\ data = 0)
  /\ pc' = "complete"
  /\ UNCHANGED <<pass, busy, buffered, wakes, mux, suppressed, backlog, used,
                 driver, irq>>

\* The buffers filled are handed back, and the ring is read for rx_drained.
Complete ==
  /\ pc = "complete" /\ pc' = "on"
  /\ buffered' = buffered \o [i \in 1 .. filled |-> Used("rx")]
  /\ rx_drained' = (backlog["rx"] = 0)
  /\ UNCHANGED <<tx_used, taken, filled, busy, wakes, mux, suppressed,
                 backlog, used, driver, irq>>

\* Mutant: only the tx queue is asked whether it wants an interrupt.
InterruptAsksTx ==
  /\ pc = "interrupt" /\ pc' = "recheck"
  /\ irq' = (irq \/ ((tx_used \/ filled > 0) /\ ~no_int["tx"]))
  /\ UNCHANGED <<pass, busy, buffered, wakes, mux, suppressed, backlog, used,
                 driver>>

Interrupt ==
  /\ pc = "interrupt" /\ pc' = "recheck"
  /\ irq' = \/ irq
            \/ tx_used /\ ~no_int["tx"]
            \/ filled > 0 /\ ~no_int["rx"]
  /\ UNCHANGED <<pass, busy, buffered, wakes, mux, suppressed, backlog, used,
                 driver>>

\* Buffers posted while kicks were off came without one.
Recheck ==
  /\ pc = "recheck" /\ pc' = "wait"
  /\ busy' = \/ tx_used
             \/ filled > 0
             \/ can_receive /\ backlog["tx"] > 0
             \/ rx_drained /\ backlog["rx"] > 0
  /\ UNCHANGED <<pass, buffered, wakes, mux, suppressed, backlog, used,
                 driver, irq>>

Process ==
  \/ SetNotify \/ Fence \/ TakeTx \/ TxDone \/ Fill \/ FillInvalid
  \/ FillDone \/ Complete \/ Interrupt \/ Recheck

----------------------------------------------------------------------------
(* The snapshot, and the host.                                             *)

\* save, with the vCPUs paused; the worker holds the state through a pass.
Save ==
  /\ pc = "wait" /\ ~frozen
  /\ frozen' = TRUE
  /\ UNCHANGED <<worker, wake, kick, mux, suppressed, backlog, used, driver,
                 irq>>

Resume ==
  /\ frozen /\ frozen' = FALSE /\ wake' = TRUE
  /\ UNCHANGED <<worker, kick, mux, suppressed, backlog, used, driver, irq>>

\* A host socket has something for the guest, or a deadline ends a
\* connection (external).
HostEvent ==
  /\ pc = "wait" /\ data < MaxData
  /\ data' = data + 1 /\ wake' = TRUE
  /\ UNCHANGED <<worker, kick, frozen, resets, suppressed, backlog, used,
                 driver, irq>>

----------------------------------------------------------------------------
(* The driver of the guest (external).                                     *)

Posts(q) ==
  /\ owned[q] > 0
  /\ owned' = [owned EXCEPT ![q] = @ - 1]
  /\ backlog' = [backlog EXCEPT ![q] = @ + 1]
  /\ posting' = [posting EXCEPT ![q] = "check"]
  /\ UNCHANGED <<worker, wakes, mux, suppressed, used, napi, no_int, irq>>

Checks(q) ==
  /\ posting[q] = "check"
  /\ posting' = [posting EXCEPT ![q] = "idle"]
  /\ kick' = IF suppressed[q] THEN kick ELSE kick \cup {q}
  /\ UNCHANGED <<worker, wake, frozen, mux, suppressed, backlog, used, owned,
                 napi, no_int, irq>>

\* One interrupt runs the callback of every queue.
Interrupted ==
  /\ irq /\ irq' = FALSE
  /\ napi' = [q \in Queues |-> "polling"]
  /\ no_int' = [q \in Queues |-> TRUE]
  /\ UNCHANGED <<worker, wakes, mux, suppressed, backlog, used, owned,
                 posting>>

Takes(q) ==
  /\ napi[q] = "polling" /\ used[q] > 0
  /\ used' = [used EXCEPT ![q] = @ - 1]
  /\ owned' = [owned EXCEPT ![q] = @ + 1]
  /\ UNCHANGED <<worker, wakes, mux, suppressed, backlog, posting, napi,
                 no_int, irq>>

\* Interrupts on again, then one more look.
Enables(q) ==
  /\ napi[q] = "polling" /\ used[q] = 0
  /\ napi' = [napi EXCEPT ![q] = "enabling"]
  /\ no_int' = [no_int EXCEPT ![q] = FALSE]
  /\ UNCHANGED <<worker, wakes, mux, suppressed, backlog, used, owned,
                 posting, irq>>

Rechecks(q) ==
  /\ napi[q] = "enabling"
  /\ napi' = [napi EXCEPT ![q] = IF used[q] > 0 THEN "polling" ELSE "asleep"]
  /\ no_int' = [no_int EXCEPT ![q] = used[q] > 0]
  /\ UNCHANGED <<worker, wakes, mux, suppressed, backlog, used, owned,
                 posting, irq>>

Driver ==
  /\ ~frozen
  /\ \/ Interrupted
     \/ \E q \in Queues :
          Posts(q) \/ Checks(q) \/ Takes(q) \/ Enables(q) \/ Rechecks(q)

Next == Flush \/ Wakes \/ Process \/ Save \/ Resume \/ HostEvent \/ Driver

Spec == Init /\ [][Next]_vars

----------------------------------------------------------------------------
(* Properties                                                              *)

\* The values each variable takes; the resets never outgrow their queue.
TypeOK ==
  /\ pc \in {"wait", "off", "off_fence", "tx", "fill", "complete", "on",
             "on_fence", "interrupt", "recheck"}
  /\ tx_used \in BOOLEAN /\ rx_drained \in BOOLEAN /\ busy \in BOOLEAN
  /\ taken \in 0 .. Batch /\ filled \in 0 .. Batch
  /\ buffered \in Seq([what : {"flag", "used"}, queue : Queues,
                       value : BOOLEAN])
  /\ wake \in BOOLEAN /\ kick \in SUBSET Queues /\ frozen \in BOOLEAN
  /\ resets \in 0 .. MaxResets /\ data \in 0 .. MaxData
  /\ suppressed \in [Queues -> BOOLEAN]
  /\ backlog \in [Queues -> 0 .. Size] /\ used \in [Queues -> 0 .. Size]
  /\ owned \in [Queues -> 0 .. Size]
  /\ posting \in [Queues -> {"idle", "check"}]
  /\ napi \in [Queues -> {"asleep", "polling", "enabling"}]
  /\ no_int \in [Queues -> BOOLEAN] /\ irq \in BOOLEAN

\* The worker sleeps and nothing is set that would wake it.
Asleep == pc = "wait" /\ ~busy /\ ~wake /\ kick = {} /\ ~frozen

\* The worker never sleeps on packets of the guest it could take: a post it
\* did not see came with a kick (process, set_notify, resume).
TxNotForgotten ==
  Asleep /\ posting["tx"] = "idle" => ~(can_receive /\ backlog["tx"] > 0)

\* The worker never sleeps on rx buffers with packets to put in them: what
\* was posted while kicks were off is seen at the end of the pass
\* (process: "Buffers posted while kicks were off came without one").
RxNotForgotten ==
  Asleep /\ posting["rx"] = "idle" =>
    ~(backlog["rx"] > 0 /\ (resets > 0 \/ data > 0))

\* A driver that waits for an interrupt is not left with used buffers
\* (wants_interrupt, after complete).
InterruptNotLost ==
  pc = "wait" /\ ~irq =>
    \A q \in Queues : napi[q] = "asleep" => used[q] = 0
=============================================================================
