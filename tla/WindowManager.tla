---------------------------- MODULE WindowManager ----------------------------
(***************************************************************************)
(* The windows of the desktop: wm.rs, wm/manage.rs and wm/input.rs of      *)
(* crates/shuru-desktop. One thread takes X events in order, commands of   *)
(* the API and what a person does, and keeps the clients in three orders   *)
(* (mapped, recently used, stacked) with one of them focused.              *)
(*                                                                         *)
(* The apps are external: they map, withdraw (with the synthetic event of  *)
(* ICCCM) and destroy their windows while events about them are queued.    *)
(* A card is what it is taken from: the work area, a half of it, the size  *)
(* asked for, or where a drag left it.                                     *)
(***************************************************************************)
EXTENDS Naturals, Sequences, SequencesExt, FiniteSets

CONSTANTS Windows, Kind, Parent, Key,  \* the windows, and what their properties say
          Before,          \* those mapped before the window manager starts
          Modal,           \* those that map with the modal state
          MaxMaps,         \* times an app maps each window
          MaxActs,         \* commands, messages and gestures
          MaxLaunches,
          MaxQueue         \* events of apps that wait

VARIABLES x,               \* each window at the X server
          queue,           \* events the window manager has not read
          wm,              \* the Wm
          launch,          \* launches asked for, and how often each was answered
          acts

vars == <<x, queue, wm, launch, acts>>

None == "none"
Framed(w) == Kind[w] \notin {"dock", "popup"}
IsApp(w) == Kind[w] \in {"normal", "dialog", "utility"}
Keep(s, Ok(_)) == SelectSeq(s, Ok)
Drop(s, w) == SelectSeq(s, LAMBDA y : y # w)
First(s) == IF s = <<>> THEN None ELSE Head(s)
NoDrag == [k |-> None, w |-> None, started |-> FALSE, snap |-> None]
NoClient == [parent |-> None, key |-> None, place |-> "floating", card |-> "asked", floating |-> None,
             snapped |-> FALSE, minimized |-> FALSE, attention |-> FALSE, modal |-> FALSE, unmaps |-> 0]

\* setup manages what is mapped already, before the first event is read.
Init ==
  /\ x = [w \in Windows |-> [mapped |-> w \in Before, wants |-> w \in Before, gone |-> FALSE,
                             maps |-> IF w \in Before THEN 1 ELSE 0]]
  /\ queue = SetToSeq({[k |-> "adopt", w |-> w] : w \in Before})
  /\ wm = [clients |-> {}, c |-> [w \in Windows |-> NoClient], mru |-> <<>>, order |-> <<>>,
           stack |-> <<>>, focused |-> None, grabbed |-> {}, pending |-> <<>>, drag |-> NoDrag,
           switching |-> [list |-> <<>>, i |-> 0]]
  /\ launch = [asked |-> 0, answers |-> [n \in 1..MaxLaunches |-> 0]]
  /\ acts = 0

-----------------------------------------------------------------------------
(* Stacking and focus *)

Up(m, w) == IF m.c[w].parent \in m.clients THEN m.c[w].parent ELSE w
top_of(m, w) ==
  LET above[n \in 0..Cardinality(Windows)] == IF n = 0 THEN w ELSE Up(m, above[n - 1])
  IN  above[Cardinality(Windows)]
\* The window and the dialogs over it, bottom first.
group(m, t) == <<t>> \o Keep(m.stack, LAMBDA y : y # t /\ top_of(m, y) = t)
Main(m, w) == Kind[w] = "normal" /\ m.c[w].parent = None
Lifted(m, w) == group(m, top_of(m, w))
\* The window that gets the keyboard: of a top window its last used dialog,
\* and over that a modal one.
Dialogs(m, w) == Keep(m.mru, LAMBDA y : y # w /\ top_of(m, y) = w /\ IsApp(y))
Modals(m, w) == Keep(m.order, LAMBDA y : m.c[y].modal /\ m.c[y].parent = w /\ ~m.c[y].minimized)
Over(m, t) == Head(Append(Modals(m, t), t))
Target(m, w) == Over(m, Head(Append(IF w = top_of(m, w) THEN Dialogs(m, w) ELSE <<>>, w)))
\* focus, with restore for each of the group g that is minimized.
Raised(m, g) ==
  [m EXCEPT !.c = [y \in Windows |-> IF y \in Range(g) THEN [@[y] EXCEPT !.minimized = FALSE] ELSE @[y]],
            !.stack = Keep(@, LAMBDA y : y \notin Range(g)) \o Keep(g, Framed)]
Given(m, t) ==
  [m EXCEPT !.c[t].attention = FALSE, !.mru = <<t>> \o Drop(@, t),
            !.grabbed = (@ \cup ({m.focused} \cap m.clients)) \ {t}, !.focused = t]
focus(m, w) ==
  IF w \notin m.clients THEN m
  ELSE LET r == Raised(m, Lifted(m, w)) IN Given(r, Target(r, w))
Visible(m, w) == IsApp(w) /\ ~m.c[w].minimized
next_focus(m, key) ==
  LET same == Keep(m.mru, LAMBDA y : Visible(m, y) /\ m.c[y].key = key)
  IN  IF same # <<>> THEN Head(same) ELSE First(Keep(m.mru, LAMBDA y : Visible(m, y)))
focus_nothing(m) == [m EXCEPT !.focused = None, !.grabbed = @ \cup ({m.focused} \ {None})]
focusNext(m, w) == IF w = None THEN focus_nothing(m) ELSE focus(m, w)

end_drag(m) == [m EXCEPT !.drag = NoDrag]
unmanage(m, w) ==
  LET c == m.c[w]
      n == [m EXCEPT !.clients = @ \ {w}, !.mru = Drop(@, w), !.order = Drop(@, w), !.stack = Drop(@, w),
                     !.drag = IF @.w = w THEN NoDrag ELSE @, !.grabbed = @ \ {w}, !.c[w] = NoClient]
      up == c.parent \in n.clients /\ ~n.c[c.parent].minimized
  IN  IF m.focused # w THEN n
      ELSE focusNext([n EXCEPT !.focused = None], IF up THEN c.parent ELSE next_focus(n, c.key))
minimize(m, w) ==
  LET t == top_of(m, w)
      n == [m EXCEPT !.c = [y \in Windows |-> IF y \in Range(group(m, t)) /\ Framed(y)
                                              THEN [@[y] EXCEPT !.minimized = TRUE] ELSE @[y]]]
  IN  IF w \notin m.clients \/ ~Framed(t) THEN m
      ELSE IF m.focused # None /\ top_of(m, m.focused) = t THEN focusNext(n, next_focus(n, m.c[t].key)) ELSE n

\* float_card: where it floated, or the size it asked for.
float_card(m, w) == IF m.c[w].floating # None THEN m.c[w].floating ELSE "asked"
set_maximized(m, w, on) ==
  LET c == m.c[w]
  IN  IF w \notin m.clients \/ ~Framed(w) \/ (c.place = "maximized") = on THEN m
      ELSE [m EXCEPT !.c[w] = IF on THEN [c EXCEPT !.floating = IF c.snapped THEN @ ELSE c.card, !.snapped = FALSE,
                                                   !.place = "maximized", !.card = "area"]
                              ELSE [c EXCEPT !.place = "floating", !.card = float_card(m, w)]]
toggle_maximized(m, w) == set_maximized(m, w, w \in m.clients /\ m.c[w].place = "floating")

-----------------------------------------------------------------------------
(* Launches *)

pending_for(m, w) == {i \in DOMAIN m.pending : m.pending[i].key = Key[w]}
Earliest(s) == CHOOSE i \in s : \A j \in s : i <= j
Answer(l, p) == IF p.reply = 0 THEN l ELSE [l EXCEPT !.answers[p.reply] = @ + 1]
\* The window of a pending launch: its entry goes, its caller is answered.
answered(m, w) == LET i == Earliest(pending_for(m, w))
                      n == [m EXCEPT !.pending = RemoveAt(@, i)]
                  IN  IF m.pending[i].maximize THEN set_maximized(n, w, TRUE) ELSE n
answer_pending(l, m, w) == Answer(l, m.pending[Earliest(pending_for(m, w))])
Asked(m, w) == pending_for(m, w) # {}
answeredIfAsked(m, w) == IF Asked(m, w) THEN answered(m, w) ELSE m

\* manage: framed, placed, stacked on top when it takes the keyboard and
\* else right under the focused window.
SameApp(m, key) == IF m.focused = None THEN TRUE ELSE m.c[m.focused].key = key
Takes(m, w, key) == IsApp(w) /\ (Asked(m, w) \/ SameApp(m, key))
Under(m, w) ==
  LET at == IF m.focused = None THEN {} ELSE {i \in DOMAIN m.stack : m.stack[i] = top_of(m, m.focused)}
  IN  IF at = {} THEN Append(m.stack, w) ELSE InsertAt(m.stack, Earliest(at), w)
\* Mutant: every framed window is expected to unmap once by our reparenting.
UnmapsAlways(w, viewable) == IF Framed(w) THEN 1 ELSE 0
OwnUnmaps(w, viewable) == IF Framed(w) /\ viewable THEN 1 ELSE 0
New(m, w, viewable) ==
  LET p == IF Parent[w] \in m.clients THEN Parent[w] ELSE None
      floats == Asked(m, w) /\ ~m.pending[Earliest(pending_for(m, w))].maximize
      full == Kind[w] = "normal" /\ p = None /\ ~floats
  IN  [NoClient EXCEPT !.parent = p, !.key = IF p = None THEN Key[w] ELSE m.c[p].key,
                       !.place = IF full THEN "maximized" ELSE "floating",
                       !.card = IF full THEN "area" ELSE "asked",
                       !.modal = p # None /\ w \in Modal,
                       !.unmaps = OwnUnmaps(w, viewable)]
Stacked(m, w, take) ==
  [m EXCEPT !.stack = IF ~Framed(w) THEN @ ELSE IF take THEN Append(@, w) ELSE Under(m, w),
            !.grabbed = IF IsApp(w) THEN @ \cup {w} ELSE @,
            !.mru = IF take THEN <<w>> \o @ ELSE Append(@, w)]
Shown(m, w, take) == IF take THEN focus(Stacked(m, w, take), w) ELSE Stacked(m, w, take)
managed(m, w, viewable) ==
  LET n == [m EXCEPT !.clients = @ \cup {w}, !.c[w] = New(m, w, viewable), !.order = Append(@, w)]
  IN  answeredIfAsked(Shown(n, w, Takes(n, w, n.c[w].key)), w)
\* Reparenting a mapped window unmaps it once.
manage(w, viewable) ==
  IF w \in wm.clients \/ x[w].gone THEN UNCHANGED <<x, wm, launch>> /\ queue' = Tail(queue)
  ELSE /\ wm' = managed(wm, w, viewable)
       /\ launch' = IF Asked(wm, w) THEN answer_pending(launch, wm, w) ELSE launch
       /\ queue' = IF Framed(w) /\ x[w].mapped THEN Append(Tail(queue), [k |-> "unmap", w |-> w])
                   ELSE Tail(queue)
       /\ x' = [x EXCEPT ![w].mapped = TRUE]

-----------------------------------------------------------------------------
(* Events of the X server *)

Does(m) == wm' = m /\ queue' = Tail(queue) /\ UNCHANGED <<x, launch>>
MapRequest(w) ==
  IF w \notin wm.clients THEN manage(w, FALSE)
  ELSE IF wm.c[w].minimized THEN Does(focus(wm, w))
  ELSE /\ x' = [x EXCEPT ![w].mapped = ~@.gone] /\ queue' = Tail(queue) /\ UNCHANGED <<wm, launch>>
UnmapNotify(w) ==
  Does(IF w \notin wm.clients THEN wm
       ELSE IF wm.c[w].unmaps > 0 THEN [wm EXCEPT !.c[w].unmaps = @ - 1] ELSE unmanage(wm, w))
\* The window may be withdrawn before setup looks at it, before manage looks
\* at it again, or after both.
adopt(w) == \/ ~x[w].mapped /\ Does(wm)
            \/ \E viewable \in {x[w].mapped, TRUE} : manage(w, viewable)
DestroyNotify(w) == Does(IF w \in wm.clients THEN unmanage(wm, w) ELSE wm)
event ==
  /\ queue # <<>> /\ acts' = acts
  /\ LET e == Head(queue)
     IN  CASE e.k = "map"     -> MapRequest(e.w)
           [] e.k = "adopt"   -> adopt(e.w)
           [] e.k = "unmap"   -> UnmapNotify(e.w)
           [] e.k = "destroy" -> DestroyNotify(e.w)

(* What an app does with its windows *)
Queued(k, w) == [k |-> k, w |-> w]
Maps(w) ==
  /\ ~x[w].gone /\ ~x[w].wants /\ x[w].maps < MaxMaps /\ Len(queue) < MaxQueue
  /\ x' = [x EXCEPT ![w].wants = TRUE, ![w].maps = @ + 1]
  /\ queue' = IF x[w].mapped THEN queue ELSE Append(queue, Queued("map", w))
  /\ UNCHANGED <<wm, launch, acts>>
Withdraws(w) ==
  /\ ~x[w].gone /\ x[w].wants /\ Len(queue) < MaxQueue
  /\ x' = [x EXCEPT ![w].wants = FALSE, ![w].mapped = FALSE]
  /\ queue' = queue \o (IF x[w].mapped THEN <<Queued("unmap", w)>> ELSE <<>>) \o <<Queued("unmap", w)>>
  /\ UNCHANGED <<wm, launch, acts>>
Destroys(w) ==
  /\ ~x[w].gone /\ x[w].maps > 0 /\ Len(queue) < MaxQueue
  /\ x' = [x EXCEPT ![w].gone = TRUE, ![w].wants = FALSE, ![w].mapped = FALSE]
  /\ queue' = queue \o (IF x[w].mapped THEN <<Queued("unmap", w)>> ELSE <<>>) \o <<Queued("destroy", w)>>
  /\ UNCHANGED <<wm, launch, acts>>

-----------------------------------------------------------------------------
(* Messages of apps, commands of the API, and a person *)

Act(m) == /\ acts < MaxActs /\ acts' = acts + 1 /\ wm' = m /\ UNCHANGED <<x, queue, launch>>
\* _NET_ACTIVE_WINDOW: of a pager, of the app in front, or of a launch.
activeWindow(w, pager) ==
  /\ w \in wm.clients /\ IsApp(w) /\ (pager \/ SameApp(wm, wm.c[w].key) \/ Asked(wm, w))
  /\ acts < MaxActs /\ acts' = acts + 1 /\ UNCHANGED <<x, queue>>
  /\ wm' = answeredIfAsked(focus(wm, w), w)
  /\ launch' = IF Asked(wm, w) THEN answer_pending(launch, wm, w) ELSE launch
\* _NET_WM_STATE and the urgency hint. Above and fullscreen only change how
\* the same stack is shown.
set_attention(m, w, on) == [m EXCEPT !.c[w].attention = on /\ m.focused # w]
wmState(w) ==
  w \in wm.clients /\ \E m \in {[wm EXCEPT !.c[w].modal = wm.c[w].parent # None /\ ~@],
                               set_attention(wm, w, ~wm.c[w].attention),
                               toggle_maximized(wm, w)} : Act(m)
\* Cmd::Focus; Cmd::Launch, its failure and its deadline.
cmdFocus(w, maximize) ==
  /\ w \in wm.clients /\ IsApp(w)
  /\ Act(IF maximize /\ Main(wm, w) THEN set_maximized(focus(wm, w), w, TRUE) ELSE focus(wm, w))
Launches(key, maximize) ==
  /\ launch.asked < MaxLaunches /\ acts < MaxActs /\ acts' = acts + 1
  /\ launch' = [launch EXCEPT !.asked = @ + 1]
  /\ wm' = [wm EXCEPT !.pending = Append(@, [key |-> key, maximize |-> maximize, reply |-> launch.asked + 1])]
  /\ UNCHANGED <<x, queue>>
PendingEnds(i) ==
  /\ launch' = Answer(launch, wm.pending[i]) /\ wm' = [wm EXCEPT !.pending = RemoveAt(@, i)]
  /\ UNCHANGED <<x, queue, acts>>
\* A click on a window, on the rail, and Hide of an app menu.
clicks(w) == w \in wm.grabbed /\ IsApp(w) /\ Act(IF wm.focused # w THEN focus(wm, w) ELSE wm)
windows_of(m, key) == Keep(m.mru, LAMBDA y : m.c[y].key = key /\ Main(m, y))
activate(key) == windows_of(wm, key) # <<>> /\ Act(focus(wm, Head(windows_of(wm, key))))
hide(key) == Act(FoldLeft(minimize, wm, windows_of(wm, key)))
\* frame_press and move_resize_request: a drag of the bar, the grip or a light.
dragStarts(w, k) ==
  /\ w \in wm.clients /\ Framed(w) /\ ~wm.c[w].minimized /\ wm.drag = NoDrag
  /\ k = "resize" => wm.c[w].place = "floating"
  /\ LET f == IF wm.focused # w THEN focus(wm, w) ELSE wm
     IN  Act([f EXCEPT !.drag = [NoDrag EXCEPT !.k = k, !.w = w]])
\* drag_motion, with unsnap before the first move.
drag_motion(snap) ==
  /\ wm.drag.k \in {"move", "resize"}
  /\ LET d == wm.drag  c == wm.c[d.w]
         pull == d.k = "move" /\ ~d.started /\ (c.place = "maximized" \/ c.snapped)
     IN  Act([wm EXCEPT !.drag.started = TRUE, !.drag.snap = IF d.k = "move" /\ Main(wm, d.w) THEN snap ELSE None,
                        !.c[d.w] = [c EXCEPT !.card = "dragged", !.place = IF pull THEN "floating" ELSE @,
                                             !.snapped = IF pull \/ d.k = "resize" THEN FALSE ELSE @]])
Snapped(m, w, d) ==
  CASE d.k = "resize" -> [m EXCEPT !.c[w].floating = m.c[w].card]
    [] d.k = "light" \/ ~d.started -> m
    [] d.snap = "max" -> set_maximized(m, w, TRUE)
    [] d.snap = "side" -> [m EXCEPT !.c[w].floating = m.c[w].card, !.c[w].card = "half", !.c[w].snapped = TRUE]
    [] OTHER -> [m EXCEPT !.c[w].floating = m.c[w].card]
light_click(m, w, light) ==
  CASE light = "minimize" -> minimize(m, w) [] light = "maximize" -> toggle_maximized(m, w) [] OTHER -> m
button_release(light) ==
  /\ wm.drag # NoDrag
  /\ LET n == Snapped(end_drag(wm), wm.drag.w, wm.drag)
     IN  Act(IF wm.drag.k = "light" THEN light_click(n, wm.drag.w, light) ELSE n)
\* Alt+Tab and Alt+`: the list is made once and walked until Alt goes up.
app_cycle(m) ==
  FoldLeft(LAMBDA s, w : IF IsApp(w) /\ \A i \in DOMAIN s : m.c[s[i]].key # m.c[w].key THEN Append(s, w) ELSE s,
           <<>>, m.mru)
window_cycle(m) ==
  IF m.focused = None THEN <<>>
  ELSE Keep(m.mru, LAMBDA y : m.c[y].key = m.c[m.focused].key /\ Main(m, y) /\ ~m.c[y].minimized)
key_press(windows) ==
  LET on == wm.switching.list # <<>>
      list == IF on THEN wm.switching.list ELSE IF windows THEN window_cycle(wm) ELSE app_cycle(wm)
      i == (wm.switching.i + 1) % Len(list)
  IN  /\ Len(list) > 1
      /\ Act(focus([wm EXCEPT !.switching = [list |-> list, i |-> i]], list[i + 1]))
key_release ==
  /\ wm.switching.list # <<>> /\ wm' = [wm EXCEPT !.switching = [list |-> <<>>, i |-> 0]]
  /\ UNCHANGED <<x, queue, launch, acts>>

Person(w) == \/ clicks(w) \/ Act(minimize(wm, w))
             \/ \E k \in {"move", "resize", "light"} : dragStarts(w, k)
Next ==
  \/ event
  \/ \E w \in Windows : \/ Maps(w) \/ Withdraws(w) \/ Destroys(w) \/ wmState(w) \/ Person(w)
                        \/ \E b \in BOOLEAN : activeWindow(w, b) \/ cmdFocus(w, b)
  \/ \E k \in {Key[w] : w \in Windows} : \/ activate(k) \/ hide(k)
                                         \/ \E b \in BOOLEAN : Launches(k, b)
  \/ \E i \in DOMAIN wm.pending : PendingEnds(i)
  \/ \E s \in {None, "max", "side"} : drag_motion(s)
  \/ \E l \in {"close", "minimize", "maximize"} : button_release(l)
  \/ \E b \in BOOLEAN : key_press(b)
  \/ key_release
Spec == Init /\ [][Next]_vars

-----------------------------------------------------------------------------

\* Every managed window is once in the order of mapping and of use, the
\* framed ones once in the stack, and no drag outlives its window.
ListsAgree ==
  /\ IsInjective(wm.mru) /\ Range(wm.mru) = wm.clients
  /\ IsInjective(wm.order) /\ Range(wm.order) = wm.clients
  /\ IsInjective(wm.stack) /\ Range(wm.stack) = {w \in wm.clients : Framed(w)}
  /\ wm.drag.w \in wm.clients \cup {None}
\* The keyboard is with a window on the screen, the last used, and with
\* none only when no app has one there.
KeyboardIsSeen ==
  IF wm.focused = None THEN \A w \in wm.clients : ~Visible(wm, w)
  ELSE /\ wm.focused \in wm.clients /\ Head(wm.mru) = wm.focused
       /\ ~wm.c[wm.focused].minimized /\ ~wm.c[wm.focused].attention
\* A click reaches the window manager from every window of an app but the
\* focused one.
ClicksAreSeen == wm.grabbed = {w \in wm.clients : IsApp(w)} \ {wm.focused}
\* The windows of the focused app's front group are over all others, its
\* dialogs over their window.
FocusedOnTop ==
  wm.focused # None => LET g == group(wm, top_of(wm, wm.focused))
                       IN  Framed(top_of(wm, wm.focused)) => IsSuffix(g, wm.stack)
\* "Blocks input to its parent while it is open."  Wherever the keyboard is
\* given from here, it is not to a window that an open modal dialog blocks.
Blocked(m) == \E d \in m.clients : m.c[d].modal /\ ~m.c[d].minimized /\ m.focused = m.c[d].parent
ModalBlocks == \A w \in wm.clients : ~Blocked(focus(wm, w))
\* With every event read, no window is managed that its app withdrew or
\* destroyed, though it did while the window was being taken in.
WithdrawnIsLetGo == queue = <<>> => wm.clients \subseteq {w \in Windows : x[w].wants}
\* A launch is answered once, and as long as it is not it waits.
LaunchAnswered ==
  \A n \in 1..launch.asked :
    launch.answers[n] = 1 - Cardinality({i \in DOMAIN wm.pending : wm.pending[i].reply = n})
WindowsSafe == ListsAgree /\ KeyboardIsSeen /\ ClicksAreSeen /\ FocusedOnTop /\ ModalBlocks
               /\ WithdrawnIsLetGo /\ LaunchAnswered

\* A window that is shown and that its app withdrew is still to be let go.
\* Violated with two events in the queue: a window withdrawn while the manager
\* adopts it is mapped by the adoption, and let go without being hidden.
WithdrawnIsHidden == queue = <<>> => \A w \in Windows : x[w].mapped => x[w].wants
\* No modal dialog is open over the window with the keyboard.  Violated: a
\* dialog made modal while its parent has the keyboard does not take it.
ModalHasKeyboard == ~Blocked(wm)
\* A maximized window fills the work area.  Violated by three acts: a
\* drag under way sizes a window that is maximized under it.
MaximizedFills == \A w \in wm.clients : wm.c[w].place = "maximized" => wm.c[w].card = "area"
=============================================================================
