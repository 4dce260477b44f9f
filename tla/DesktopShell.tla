---------------------------- MODULE DesktopShell ----------------------------
(***************************************************************************)
(* The window system of the browser shell, shell/shell.js: window records, *)
(* the focus and the stacking order, minimising, maximising and snapping,  *)
(* the launcher and the keyboard shortcuts.  Every event handler is one    *)
(* step; an interactive move or resize is a pair of handlers that other    *)
(* events may come between.                                                *)
(*                                                                         *)
(* A geometry is "max", the desktop's bounds, or "own", any other place.   *)
(* The stacking order stands for the z-indexes, `hidden` for an element    *)
(* whose data-state is "minimised" and `lit` for the elements with the     *)
(* class "focused".                                                        *)
(***************************************************************************)
EXTENDS Integers, Sequences, SequencesExt

CONSTANTS Apps,    \* registered applications
          First,   \* the one that boot opens
          MaxSeq,  \* bound on the windows created
          None

ASSUME ShellAssumption == First \in Apps /\ MaxSeq \in Nat \ {0} /\ None \notin Nat

VARIABLES desk,    \* the shell's state object and the elements of its windows
          grab,    \* the handlers of a move or a resize that are registered
          palette  \* the launcher is on the screen

vars == <<desk, grab, palette>>

Ids == 1..MaxSeq

NoGrab == [kind |-> "none", win |-> None, zone |-> None]
Zones == {"max", "side"}
PlaceOf(zone) == IF zone = "max" THEN "max" ELSE "own"
StateOf(zone) == IF zone = "max" THEN "maximised" ELSE "normal"

\* createWindow's record; the place is the one it is given at first.
NewWindow(app) ==
  [app |-> app, state |-> "normal", hidden |-> FALSE, geo |-> "own", prev |-> None]

-----------------------------------------------------------------------------
(* The functions of shell.js on the state object d. *)

\* Faulty variant: the window that had the focus keeps the look of it.
FocusKeepsClass(d, w) ==
  IF d.focused = w THEN d
  ELSE [d EXCEPT !.lit = @ \cup {w}, !.stack = Append(Remove(@, w), w), !.focused = w]

focus(d, w) ==
  IF d.focused = w THEN d
  ELSE [d EXCEPT !.lit = (@ \ ToSet(d.windows)) \cup {w},
                 !.stack = Append(Remove(@, w), w),
                 !.focused = w]

\* The record of a closed window is cleared: only the handlers of a move under
\* way still see it, and what they do to it shows nowhere.
closeWindow(d, w) ==
  LET gone == [d EXCEPT !.windows = Remove(@, w), !.stack = Remove(@, w), !.lit = @ \ {w},
                        !.rec[w] = NewWindow(First)]
  IN  IF d.focused # w THEN gone
      ELSE IF gone.windows = <<>> THEN [gone EXCEPT !.focused = None]
      ELSE focus([gone EXCEPT !.focused = None], Last(gone.windows))

\* The class "focused" stays on the element.
minimise(d, w) ==
  [d EXCEPT !.rec[w].state = "minimised", !.rec[w].hidden = TRUE,
            !.focused = IF @ = w THEN None ELSE @]

restore(d, w) == [d EXCEPT !.rec[w].state = "normal", !.rec[w].hidden = FALSE]

\* Sets the state and the place; what the element shows stays as it is.
toggleMaximise(d, w) ==
  IF d.rec[w].state = "maximised"
  THEN [d EXCEPT !.rec[w].geo = d.rec[w].prev, !.rec[w].state = "normal"]
  ELSE [d EXCEPT !.rec[w].prev = d.rec[w].geo, !.rec[w].geo = "max",
                 !.rec[w].state = "maximised"]

createWindow(d, app) ==
  LET w == d.seq + 1
  IN  focus([d EXCEPT !.seq = w, !.rec[w] = NewWindow(app),
                      !.windows = Append(@, w), !.stack = Append(@, w)], w)

\* The window of an application, if it has one.
WindowsOf(d, app) == {w \in ToSet(d.windows) : d.rec[w].app = app}

openApp(d, app) ==
  IF WindowsOf(d, app) = {} THEN createWindow(d, app)
  ELSE LET w == CHOOSE v \in WindowsOf(d, app) : TRUE
       IN  focus(IF d.rec[w].state = "minimised" THEN restore(d, w) ELSE d, w)

cycleFocus(d) ==
  LET visible == SelectSeq(d.windows, LAMBDA w : d.rec[w].state # "minimised")
      index == IF Contains(visible, d.focused)
               THEN CHOOSE i \in DOMAIN visible : visible[i] = d.focused ELSE 0
  IN  IF visible = <<>> THEN d ELSE focus(d, visible[(index % Len(visible)) + 1])

\* beginDrag takes a maximised window off the desktop's bounds.
Unmaximise(d, w) ==
  IF d.rec[w].state = "maximised"
  THEN [d EXCEPT !.rec[w].geo = "own", !.rec[w].state = "normal"] ELSE d

\* The release at the end of a move.
SnapTo(d, w, zone) ==
  IF zone = None THEN d
  ELSE [d EXCEPT !.rec[w].prev = IF @ = None THEN d.rec[w].geo ELSE @,
                 !.rec[w].geo = PlaceOf(zone),
                 !.rec[w].state = StateOf(zone)]

-----------------------------------------------------------------------------
(* Events. *)

\* The launcher covers the screen, and a button that is down stays down.
CanClick(w) == /\ ~palette /\ grab = NoGrab
               /\ Contains(desk.windows, w) /\ ~desk.rec[w].hidden

CanOpen(app) == desk.seq < MaxSeq \/ WindowsOf(desk, app) # {}

DockClick(app) ==
  /\ ~palette /\ grab = NoGrab /\ CanOpen(app)
  /\ desk' = openApp(desk, app)
  /\ UNCHANGED <<grab, palette>>

MouseDown(w) ==
  /\ CanClick(w)
  /\ desk' = focus(desk, w)
  /\ UNCHANGED <<grab, palette>>

\* The buttons act on release: the focus may have moved on since the press.
CloseClick(w) ==
  /\ CanClick(w)
  /\ desk' = closeWindow(desk, w)
  /\ UNCHANGED <<grab, palette>>

MinimiseClick(w) ==
  /\ CanClick(w)
  /\ desk' = minimise(desk, w)
  /\ UNCHANGED <<grab, palette>>

\* The button, and a double click on the title bar.
MaximiseClick(w) ==
  /\ CanClick(w)
  /\ desk' = toggleMaximise(desk, w)
  /\ UNCHANGED <<grab, palette>>

\* The title bar's handler comes before the window's.
beginDrag(w) ==
  /\ CanClick(w)
  /\ desk' = focus(Unmaximise(desk, w), w)
  /\ grab' = [kind |-> "drag", win |-> w, zone |-> None]
  /\ UNCHANGED palette

\* The grip's handler keeps the event from the window: no focus.
beginResize(w) ==
  /\ CanClick(w)
  /\ grab' = [kind |-> "resize", win |-> w, zone |-> None]
  /\ UNCHANGED <<desk, palette>>

\* The handlers hold the window's record, open or not.
DragMove(zone) ==
  /\ grab.kind = "drag"
  /\ desk' = [desk EXCEPT !.rec[grab.win].geo = "own"]
  /\ grab' = [grab EXCEPT !.zone = zone]
  /\ UNCHANGED palette

DragUp ==
  /\ grab.kind = "drag"
  /\ desk' = SnapTo(desk, grab.win, grab.zone)
  /\ grab' = NoGrab
  /\ UNCHANGED palette

ResizeMove ==
  /\ grab.kind = "resize"
  /\ desk' = [desk EXCEPT !.rec[grab.win].geo = "own"]
  /\ UNCHANGED <<grab, palette>>

ResizeUp ==
  /\ grab.kind = "resize"
  /\ grab' = NoGrab
  /\ UNCHANGED <<desk, palette>>

\* A change of the browser's size puts maximised windows back on the bounds.
BrowserResize ==
  /\ desk' = [desk EXCEPT !.rec = [w \in Ids |->
        IF Contains(desk.windows, w) /\ @[w].state = "maximised"
        THEN [@[w] EXCEPT !.geo = "max"] ELSE @[w]]]
  /\ UNCHANGED <<grab, palette>>

CtrlSpace ==
  /\ palette' = ~palette
  /\ UNCHANGED <<desk, grab>>

\* Enter on a match, or a click on one.
PaletteOpens(app) ==
  /\ palette /\ CanOpen(app)
  /\ desk' = openApp(desk, app)
  /\ palette' = FALSE
  /\ UNCHANGED grab

PaletteDismissed ==
  /\ palette /\ palette' = FALSE
  /\ UNCHANGED <<desk, grab>>

AltTab ==
  /\ desk' = cycleFocus(desk)
  /\ UNCHANGED <<grab, palette>>

CtrlW ==
  /\ desk.focused # None
  /\ desk' = closeWindow(desk, desk.focused)
  /\ UNCHANGED <<grab, palette>>

CtrlM ==
  /\ desk.focused # None
  /\ desk' = minimise(desk, desk.focused)
  /\ UNCHANGED <<grab, palette>>

CtrlShiftF ==
  /\ desk.focused # None
  /\ desk' = toggleMaximise(desk, desk.focused)
  /\ UNCHANGED <<grab, palette>>

\* The launcher's own handler, when its input has the key, and after it the
\* document's, which the event goes on to.
Escape ==
  /\ palette' \in {FALSE, palette}
  /\ desk' = IF desk.focused = None THEN desk ELSE closeWindow(desk, desk.focused)
  /\ UNCHANGED grab

-----------------------------------------------------------------------------
Empty == [windows |-> <<>>, rec |-> [w \in Ids |-> NewWindow(First)], stack |-> <<>>,
          lit |-> {}, focused |-> None, seq |-> 0]

Init ==
  /\ desk = openApp(Empty, First)
  /\ grab = NoGrab
  /\ palette = FALSE

Next ==
  \/ \E app \in Apps : DockClick(app) \/ PaletteOpens(app)
  \/ \E w \in Ids : \/ MouseDown(w) \/ CloseClick(w) \/ MinimiseClick(w) \/ MaximiseClick(w)
                    \/ beginDrag(w) \/ beginResize(w)
  \/ \E zone \in Zones \cup {None} : DragMove(zone)
  \/ DragUp \/ ResizeMove \/ ResizeUp \/ BrowserResize
  \/ CtrlSpace \/ PaletteDismissed \/ AltTab \/ CtrlW \/ CtrlM \/ CtrlShiftF \/ Escape

Spec == Init /\ [][Next]_vars

-----------------------------------------------------------------------------
(* Properties. *)

\* The window that state.focused names is open, lies above all others and is the
\* only one that looks focused, although focus() returns early, closing hands
\* the focus on and minimising leaves the class behind (shell.js:142-170).
FocusedIsOnTop ==
  desk.focused # None =>
    /\ Contains(desk.windows, desk.focused)
    /\ Last(desk.stack) = desk.focused
    /\ desk.lit \cap ToSet(desk.windows) = {desk.focused}

\* A maximised window has a geometry to go back to: toggleMaximise reads
\* win.prev without a test, whichever of the button, the shortcut and the snap
\* at the top edge has maximised it (shell.js:190-215).
MaximisedCanReturn ==
  \A w \in Ids : desk.rec[w].state = "maximised" => desk.rec[w].prev # None

\* The records of the windows agree with one another and with the screen,
\* whatever events come between the handlers of a move.
WindowsConsistent == FocusedIsOnTop /\ MaximisedCanReturn
=============================================================================
