------------------------------- MODULE MCLive -------------------------------
(***************************************************************************)
(* Progress of the idle check (IdlePark) and of a node's requests and      *)
(* shutdown (Sandboxes).  One of the two runs in each behaviour, the other *)
(* rests in its initial state.                                             *)
(***************************************************************************)
EXTENDS IdlePark, TLC

CONSTANTS Parts, None

\* The requests and the slot of a small node.
NodeTasks == {"t1", "t2"}
NodeSlots == {"s1"}

VARIABLES
    part,           \* the component that runs in this behaviour
    dirs, name_of, stored, disk, import, named, slots, node_boot, shut, node_lock, vm,
    alive, deleted, last_boot, ended, thread, ready, task, content, seen, crashes

vSB == <<dirs, name_of, stored, disk, import, named, slots, node_boot, shut, node_lock, vm,
         alive, deleted, last_boot, ended, thread, ready, task, content, seen, crashes>>
allvars == <<part, vars, vSB>>

\* One sandbox of a node with one slot, and two requests.
SB == INSTANCE Sandboxes WITH
        None <- None, Tasks <- NodeTasks, Ids <- {"i1"}, Names <- {"n1"}, Slots <- NodeSlots,
        Fallible <- {"boot", "usage", "reclaim"}, MaxBoot <- 3, MaxContent <- 0, MaxCrashes <- 0,
        lock <- node_lock

PartInit ==
    /\ part \in Parts
    /\ Init /\ SB!Init

PartNext ==
    /\ UNCHANGED part
    /\ IF part = "park" THEN Next ELSE UNCHANGED vars
    /\ IF part = "node" THEN SB!Next ELSE UNCHANGED vSB

\* The fairness of IdlePark and of Sandboxes, where each is what runs.
PartFairness ==
    /\ WF_vars(part = "park" /\ Tick) /\ WF_vars(part = "park" /\ Watch)
    /\ WF_vars(part = "park" /\ GuestLists) /\ WF_vars(part = "park" /\ LetsGo)
    /\ SF_vars(part = "park" /\ Check)
    /\ \A t \in NodeTasks : WF_vSB(part = "node" /\ SB!Step(t)) /\ SF_vSB(part = "node" /\ SB!Lock(t))
    /\ \A s \in NodeSlots : WF_vSB(part = "node" /\ SB!Hold(s))
    /\ WF_vSB(part = "node" /\ SB!ShutDownStops) /\ WF_vSB(part = "node" /\ SB!ShutDownEnds)

PartSpec == PartInit /\ [][PartNext]_allvars /\ PartFairness

----------------------------------------------------------------------------
\* Every request of a node ends: no order of stops, boots and deletes leaves
\* one waiting for a lock, a thread or an answer that never comes (Sandboxes).
RequestsEnd == SB!RequestsEnd

\* A shutdown of the node ends, whatever requests it meets (Sandboxes).
ShutdownEnds == SB!ShutdownEnds
=============================================================================
