---------------------------- MODULE DesktopShell ----------------------------
(***************************************************************************)
(* The shell of the desktop: the notifications with their banners and the  *)
(* notification center, the menus that drop from the panel and the rail,   *)
(* the tooltip of the rail, and the grabs of the pointer and the keyboard  *)
(* that menus, drags and Alt+Tab take (shuru-desktop wm/notes.rs,          *)
(* wm/menu.rs, wm/overlay.rs, wm/input.rs and bus.rs).                     *)
(*                                                                         *)
(* One thread runs every handler to its end, so a handler is one action:   *)
(* a function of the record `sh`.  Programs (over the session bus), the    *)
(* person (over X) and the agent (over the API) interleave freely.         *)
(* Geometry and painting are left out; a menu is its rows, a row is what   *)
(* it does.                                                                *)
(***************************************************************************)
EXTENDS Integers, Sequences, FiniteSets, SequencesExt

CONSTANTS KEPT,      \* notifications remembered
          SHOWN,     \* banners on the screen
          Pinned,    \* how many apps the rail always shows
          Keys,      \* apps that are on the rail while they have a window
          MaxNotes,  \* bound: notifications the programs send
          MaxActs    \* bound: everything else that happens

VARIABLES sh,    \* what the window manager's thread keeps of the shell
          bus,   \* what it sent: answers to Notify, Closed and Action
          left   \* [notes, acts]: what may still happen

vars == <<sh, bus, left>>

NoPop == [what |-> "none", rows |-> <<>>, sel |-> 0, pending |-> FALSE]

Init ==
  /\ sh = [recent |-> <<>>, quiet |-> FALSE, unseen |-> FALSE, next |-> 0, shown |-> <<>>,
           pop |-> NoPop, pointer |-> "none", keyboard |-> "none",
           drag |-> FALSE, switching |-> FALSE, asked |-> 0,
           order |-> <<>>, tip |-> 0, up |-> TRUE]
  /\ bus = <<>>
  /\ left = [notes |-> MaxNotes, acts |-> MaxActs]

-----------------------------------------------------------------------------
(* Banners and the center. *)

\* What the center lists: the notifications not closed, newest first.
listed(s) == SelectSeq(s.recent, LAMBDA r : r.open)

\* The newest open banners are put on the screen.
layout_notes(s) ==
  LET on == SelectSeq(s.recent, LAMBDA r : r.open /\ r.banner /\ ~s.quiet)
  IN  [s EXCEPT !.shown = [i \in 1..(IF Len(on) < SHOWN THEN Len(on) ELSE SHOWN) |-> on[i].id]]

Row(what, id) == [row |-> what, id |-> id]
Acts(row) == row.row \notin {"line", "search"}

\* The rows of the center: do not disturb, each notification with its
\* actions under it, and Clear all when there is any.
notes_rows(s) ==
  LET of(r) == <<Row("note", r.id)>> \o (IF r.sub THEN <<Row("sub", r.id)>> ELSE <<>>)
      notes == FoldLeft(LAMBDA rows, r : rows \o of(r), <<>>, listed(s))
  IN  <<Row("quiet", 0), Row("line", 0), Row("line", 0)>> \o notes \o
      (IF notes # <<>> THEN <<Row("line", 0), Row("clear", 0)>> ELSE <<Row("line", 0)>>)

\* show_pop: a menu that was not open before takes the pointer and the keyboard.
show_pop(s, what, rows, sel) ==
  LET had == s.pop.what # "none"
  IN  [s EXCEPT !.tip = 0,
                !.pop = [what |-> what, rows |-> rows, sel |-> sel,
                         pending |-> had /\ s.pop.pending],
                !.pointer = IF had THEN @ ELSE "pop",
                !.keyboard = IF had THEN @ ELSE "pop"]

\* Mutant: an open menu gives the keyboard up only with its pointer grab.
ClosesHalf(s) == IF s.pop.what = "none" THEN s ELSE [s EXCEPT !.pop = NoPop, !.pointer = "none"]

close_pop(s) ==
  IF s.pop.what = "none" THEN s
  ELSE [s EXCEPT !.pop = NoPop, !.pointer = "none", !.keyboard = "none"]

\* The row the keyboard stays on when the rows change under it.
kept_row(rows, was) ==
  LET at    == IF was > Len(rows) THEN Len(rows) ELSE was
      after == {i \in at..Len(rows) : Acts(rows[i])}
      under == {i \in 1..(at - 1) : Acts(rows[i])}
  IN  IF was = 0 THEN 0
      ELSE IF after # {} THEN CHOOSE i \in after : \A j \in after : i <= j
      ELSE CHOOSE i \in under : \A j \in under : j <= i

refresh_notes(s) ==
  IF s.pop.what # "notes" THEN s
  ELSE show_pop(s, "notes", notes_rows(s), kept_row(notes_rows(s), s.pop.sel))

Sent(b, s, id) == Append(b, [ev |-> s, id |-> id])

\* A step of the thread, as what it leaves: the shell and the messages sent.
Out(s, b) == [s |-> s, b |-> b]

close_note(o, id) ==
  IF ~\E i \in DOMAIN o.s.recent : o.s.recent[i].id = id /\ o.s.recent[i].open THEN o
  ELSE LET gone  == [i \in DOMAIN o.s.recent |->
                       IF o.s.recent[i].id = id
                       THEN [o.s.recent[i] EXCEPT !.open = FALSE, !.banner = FALSE]
                       ELSE o.s.recent[i]]
           s     == [o.s EXCEPT !.recent = gone]
           seen  == [s EXCEPT !.unseen = @ /\ listed(s) # <<>>]
       IN  Out(refresh_notes(layout_notes(seen)), Sent(o.b, "closed", id))

clear_notes(o) ==
  FoldLeft(LAMBDA p, r : close_note(p, r.id), o, listed(o.s))

note_action(o, id, key) ==
  IF \E i \in DOMAIN o.s.recent :
       LET r == o.s.recent[i] IN r.id = id /\ r.open /\ (key = "default" \/ r.sub)
  THEN close_note(Out(o.s, Sent(o.b, "action", id)), id)
  ELSE o

open_note(o, id) ==
  IF \E i \in DOMAIN o.s.recent : o.s.recent[i].id = id /\ o.s.recent[i].def
  THEN note_action(o, id, "default")
  ELSE close_note(o, id)

set_quiet(s, quiet) ==
  IF s.quiet = quiet THEN s
  ELSE LET r == [i \in DOMAIN s.recent |->
                   [s.recent[i] EXCEPT !.banner = @ /\ ~quiet]]
       IN  refresh_notes(layout_notes([s EXCEPT !.quiet = quiet, !.recent = r]))

\* Notify: the number of a notification it replaces, or the next one; the
\* oldest beyond KEPT are forgotten and their programs told.
notify(o, replaces, def, sub) ==
  LET s    == o.s
      old  == \E i \in DOMAIN s.recent : s.recent[i].id = replaces
      id   == IF old THEN replaces ELSE s.next + 1
      new  == [id |-> id, def |-> def, sub |-> sub, open |-> TRUE, banner |-> ~s.quiet]
      all  == <<new>> \o SelectSeq(s.recent, LAMBDA r : r.id # id)
      cut  == SelectSeq(SubSeq(all, KEPT + 1, Len(all)), LAMBDA r : r.open)
      kept == [s EXCEPT !.next = IF old THEN @ ELSE @ + 1,
                        !.recent = SubSeq(all, 1, IF Len(all) < KEPT THEN Len(all) ELSE KEPT),
                        !.unseen = @ \/ s.pop.what # "notes"]
      told == FoldLeft(LAMBDA b, r : Sent(b, "closed", r.id), o.b, Reverse(cut))
  IN  Out(refresh_notes(layout_notes(kept)), Sent(told, "id", id))

-----------------------------------------------------------------------------
(* Menus. *)

open_notes(s) ==
  LET c == [close_pop(s) EXCEPT !.unseen = FALSE]
  IN  IF s.pop.what = "notes" THEN close_pop(s) ELSE show_pop(c, "notes", notes_rows(c), 0)

open_apps_menu(s) ==
  IF s.pop.what = "apps" THEN close_pop(s)
  ELSE show_pop(close_pop(s), "apps", <<Row("search", 0), Row("line", 0), Row("app", 0)>>, 3)

open_app_menu(s) ==
  IF s.pop.what = "app" THEN close_pop(s) ELSE show_pop(close_pop(s), "app", <<Row("app", 0)>>, 0)

\* panel_click: the launcher, the menu of the app in front, the center.
panel_click(s, hit) ==
  CASE hit = "apps"  -> open_apps_menu(s)
    [] hit = "app"   -> open_app_menu(s)
    [] hit = "notes" -> open_notes(s)

\* The panel names the app in front while an app has a window.
PanelHits(s) == IF s.order = <<>> THEN {"apps", "notes"} ELSE {"apps", "app", "notes"}

\* rail_click takes the tooltip down; an app in front opens its menu.
rail_click(s, front) == IF front THEN open_app_menu([s EXCEPT !.tip = 0]) ELSE [s EXCEPT !.tip = 0]

\* Whether the item hit is the app in front, for each item there may be.
RailHits(s) == {front \in BOOLEAN : IF front THEN s.order # <<>> ELSE Pinned + Len(s.order) > 0}

run_act(o, row) ==
  CASE row.row = "note"  -> open_note(o, row.id)
    [] row.row = "sub"   -> note_action(o, row.id, "sub")
    [] row.row = "clear" -> clear_notes(o)
    [] row.row = "quiet" -> Out(set_quiet(o.s, ~o.s.quiet), o.b)
    [] row.row = "x"     -> close_note(o, row.id)
    [] row.row = "app"   -> o

\* choose: acts that change the center keep it open, the others close the
\* menu before they run.
choose(o, row) ==
  IF row.row \in {"x", "clear", "quiet"}
  THEN LET p == run_act(o, row) IN Out(refresh_notes(p.s), p.b)
  ELSE run_act(Out(close_pop(o.s), o.b), row)

refresh_query(s) ==
  show_pop(s, "apps", <<Row("search", 0), Row("line", 0), Row("app", 0)>>, 3)

-----------------------------------------------------------------------------
(* What comes in.  Each is one turn of the loop. *)

Steps(o) == /\ sh.up /\ left.acts > 0
            /\ sh' = o.s /\ bus' = o.b
            /\ left' = [left EXCEPT !.acts = @ - 1]
Now == Out(sh, bus)
Shell(s) == Steps(Out(s, bus))

Notify ==
  \E replaces \in 0..sh.next, def, sub \in BOOLEAN :
    /\ sh.up /\ left.notes > 0
    /\ LET o == notify(Now, replaces, def, sub) IN sh' = o.s /\ bus' = o.b
    /\ left' = [left EXCEPT !.notes = @ - 1]

CloseNotification == \E id \in 1..sh.next : Steps(close_note(Now, id))

NoteAction == \E id \in 1..sh.next, key \in {"default", "sub"} : Steps(note_action(Now, id, key))

SetQuiet == Shell(set_quiet(sh, ~sh.quiet))

\* expire_notes: the time of a banner is up; its notification stays listed.
Expire ==
  \E i \in DOMAIN sh.recent :
    /\ sh.recent[i].banner
    /\ Shell(layout_notes([sh EXCEPT !.recent[i].banner = FALSE]))

\* A press on a banner or its close button; with a menu open the press is the menu's.
note_press ==
  /\ sh.pop.what = "none"
  /\ \E slot \in 1..SHOWN, close \in BOOLEAN :
       Steps(IF slot > Len(sh.shown) THEN Now
             ELSE IF close THEN close_note(Now, sh.shown[slot]) ELSE open_note(Now, sh.shown[slot]))

PanelPress == sh.pop.what = "none" /\ \E hit \in PanelHits(sh) : Shell(panel_click(sh, hit))

RailPress == sh.pop.what = "none" /\ \E front \in RailHits(sh) : Shell(rail_click(sh, front))

\* A press on a row does its act, one inside the sheet nothing; one outside
\* closes the menu and is then a press on the panel unless it is on the pill.
pop_press ==
  /\ sh.pop.what # "none"
  /\ \/ \E i \in DOMAIN sh.pop.rows :
          /\ Acts(sh.pop.rows[i])
          /\ \/ Steps(choose(Now, sh.pop.rows[i]))
             \/ /\ sh.pop.rows[i].row = "note"
                /\ Steps(choose(Now, Row("x", sh.pop.rows[i].id)))
     \/ Shell(close_pop(sh))
     \/ \E hit \in PanelHits(sh) : Shell(panel_click(close_pop(sh), hit))
     \/ \E front \in RailHits(sh) : Shell(rail_click(close_pop(sh), front))

\* The keys a menu takes: super and Escape close it, Enter does the row,
\* Delete dismisses the notification, the arrows move.
pop_key ==
  /\ sh.pop.what # "none"
  /\ \/ Shell(close_pop(sh))
     \/ sh.pop.sel > 0 /\ Acts(sh.pop.rows[sh.pop.sel]) /\ Steps(choose(Now, sh.pop.rows[sh.pop.sel]))
     \/ /\ sh.pop.what = "notes" /\ sh.pop.sel > 0 /\ sh.pop.rows[sh.pop.sel].row = "note"
        /\ Steps(choose(Now, Row("x", sh.pop.rows[sh.pop.sel].id)))
     \/ \E i \in DOMAIN sh.pop.rows : /\ Acts(sh.pop.rows[i]) /\ i # sh.pop.sel
                                      /\ Shell([sh EXCEPT !.pop.sel = i])
     \/ sh.pop.what = "apps" /\ Shell(refresh_query(sh))

\* Paste asks the owner of the clipboard once for a field.
Paste ==
  /\ sh.pop.what = "apps" /\ ~sh.pop.pending
  /\ Shell([sh EXCEPT !.pop.pending = TRUE, !.asked = @ + 1])

\* The answer goes to the field that waits for one, whichever asked.
clipboard_paste ==
  /\ sh.asked > 0
  /\ LET s == [sh EXCEPT !.asked = @ - 1]
     IN  \/ s.pop.pending /\ Shell(refresh_query([s EXCEPT !.pop.pending = FALSE]))
         \/ s.pop.pending /\ Shell([s EXCEPT !.pop.pending = FALSE])
         \/ ~s.pop.pending /\ Shell(s)

\* The agent clicks the panel or the rail by node: any open menu is closed
\* first; a node of the menu is chosen as a press would.
tree_action ==
  \/ \E hit \in PanelHits(sh) : Shell(panel_click(close_pop(sh), hit))
  \/ \E front \in RailHits(sh) : Shell(rail_click(close_pop(sh), front))

\* The screen changes size, or the language: an open menu is closed.
screen_changed == Shell(close_pop(sh))

\* The super key with no menu open opens the launcher, not while switching.
SuperKey == sh.pop.what = "none" /\ ~sh.switching /\ Shell(open_apps_menu(sh))

\* Alt+Tab with windows to switch between holds the keyboard until Alt is up.
AltTab == /\ sh.pop.what = "none" /\ ~sh.switching /\ Len(sh.order) > 1
          /\ Shell([sh EXCEPT !.switching = TRUE, !.keyboard = "switch"])
key_release == sh.switching /\ Shell([sh EXCEPT !.switching = FALSE, !.keyboard = "none"])

\* A press on a frame starts a drag; so does a program's request, which a
\* menu does not hold back.
frame_press == /\ sh.pop.what = "none" /\ ~sh.drag /\ sh.order # <<>>
               /\ Shell([sh EXCEPT !.drag = TRUE, !.pointer = "drag"])
move_resize_request == /\ ~sh.drag /\ sh.order # <<>>
                       /\ \/ Shell([sh EXCEPT !.drag = TRUE, !.pointer = "drag"])
                          \/ Shell([sh EXCEPT !.pointer = "none"])
end_drag == sh.drag /\ Shell([sh EXCEPT !.drag = FALSE, !.pointer = "none"])

\* The pointer over an item of the rail names it; leaving takes the name down.
Hover == /\ ~sh.drag /\ sh.pop.what = "none"
         /\ \E i \in 0..(Pinned + Len(sh.order)) : i # sh.tip /\ Shell([sh EXCEPT !.tip = i])

\* Windows come and go: the rail is drawn again with what it shows now; a
\* drag of the window that went ends.
draw_rail ==
  \/ \E k \in Keys \ Range(sh.order) : Shell([sh EXCEPT !.order = Append(@, k)])
  \/ \E k \in Range(sh.order), ends \in {FALSE, sh.drag} :
       Shell([sh EXCEPT !.order = SelectSeq(@, LAMBDA x : x # k), !.drag = @ /\ ~ends,
                        !.pointer = IF ends THEN "none" ELSE @])

\* draw_tooltip after the server lost the window, or the appearance changed:
\* it names the item at the place it was shown for; past the end of the rail
\* the thread panics.
draw_tooltip ==
  /\ sh.tip > 0
  /\ Shell([sh EXCEPT !.up = sh.tip <= Pinned + Len(sh.order)])

Next ==
  \/ Notify \/ CloseNotification \/ NoteAction \/ SetQuiet \/ Expire \/ note_press
  \/ PanelPress \/ RailPress \/ pop_press \/ pop_key \/ Paste \/ clipboard_paste \/ tree_action
  \/ screen_changed \/ SuperKey \/ AltTab \/ key_release \/ frame_press \/ move_resize_request
  \/ end_drag \/ Hover \/ draw_rail \/ draw_tooltip

Spec == Init /\ [][Next]_vars

-----------------------------------------------------------------------------
(* Properties. *)

\* What a program was told of a notification, oldest first.
Told(id) == SelectSeq(bus, LAMBDA e : e.id = id)

\* A program is told of every close of its notification exactly once,
\* whoever closed it or pushed it out, and of an action only while it is open.
ClosesToldOnce ==
  \A id \in 1..sh.next :
    LET t    == Told(id)
        open == \E i \in DOMAIN sh.recent : sh.recent[i].id = id /\ sh.recent[i].open
    IN  /\ t # <<>> /\ t[1].ev = "id"
        /\ open <=> t[Len(t)].ev = "id"
        /\ \A i \in 2..Len(t) : t[i].ev # "id" => t[i - 1].ev \in {"id", "action"} \ {t[i].ev}

\* The screen shows the newest open banners and none while do not disturb is on.
BannersAreNewest ==
  /\ sh.shown = layout_notes(sh).shown
  /\ sh.quiet => \A i \in DOMAIN sh.recent : ~sh.recent[i].banner

\* An open center lists exactly the notifications that are open, and its
\* keyboard row is one that acts.
CenterIsCurrent ==
  sh.pop.what = "notes" => /\ sh.pop.rows = notes_rows(sh)
                           /\ sh.pop.sel > 0 => Acts(sh.pop.rows[sh.pop.sel])

\* The bell shows unseen notifications only when the center has some to list and is shut.
UnseenIsListed == sh.unseen => listed(sh) # <<>> /\ sh.pop.what # "notes"

\* The pointer and the keyboard are held only for a menu, a drag or Alt+Tab
\* that still runs: the desktop is never left without input.
GrabsEnd ==
  /\ sh.pointer # "none" => sh.pop.what # "none" \/ sh.drag
  /\ sh.keyboard # "none" => sh.pop.what # "none" \/ sh.switching

\* A field that waits for a paste has an answer coming.
PasteIsAnswered == sh.pop.pending => sh.asked > 0

ShellSafe == ClosesToldOnce /\ BannersAreNewest /\ CenterIsCurrent /\ UnseenIsListed
             /\ GrabsEnd /\ PasteIsAnswered

\* An open menu holds the pointer and the keyboard, so every press and key
\* reaches it until it closes.  Violated: a drag that a window
\* asks for under the menu takes the pointer.
MenuHoldsInput == sh.pop.what # "none" => sh.pointer = "pop" /\ sh.keyboard = "pop"

\* The tooltip is drawn only for an item the rail has.  Violated: the rail may
\* shrink under it before it is drawn again.
TooltipHasItem == sh.up
=============================================================================
