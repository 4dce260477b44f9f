----------------------------- MODULE Compositor -----------------------------
(***************************************************************************)
(* The Wayland compositor (josh_compositor.c): its views, the stack they   *)
(* are drawn in, keyboard and pointer focus, interactive moves and         *)
(* resizes, and what each client has been told of its own state.           *)
(*                                                                         *)
(* The event loop is one thread: every handler is an action, and the       *)
(* events of clients, devices and the user come in any order.  wlroots is  *)
(* external: a surface it names may belong to the view itself ("main") or  *)
(* be a popup or subsurface ("child"); the seat forgets a surface when it  *)
(* is destroyed and a keyboard when it is unplugged; a toplevel is         *)
(* unmapped before it is destroyed; a request to move or resize is taken   *)
(* only while exactly one button is down over the view's own surface.      *)
(* What is under the pointer depends on the clients' buffers and is any    *)
(* mapped view.                                                            *)
(***************************************************************************)
EXTENDS Sequences, WindowModel

CONSTANTS Views, Keyboards,
          Desktops,        \* bounds of the outputs, one of them the default
          Points,          \* pointer positions
          Threshold,       \* width of the snap edge (24 pixels in the code)
          MinSize,         \* smallest interactive size (100 by 80)
          Box,             \* bound on the coordinates and sizes explored
          FirstGeometry,   \* where the first view opens
          Cascade, Step,   \* views before the cascade repeats, and its step
          ClientSizes,     \* sizes clients commit, as width and height, or None
          EdgeSets,        \* edges a client may ask to resize
          Events,          \* optional events explored
          MaxButtons,      \* pointer buttons held at once
          MaxGrabs,        \* bound on the interactive moves and resizes
          Keys,            \* Super shortcuts the user presses
          Parts,           \* surfaces of a view: "main", and "child" if it has any
          None, Orphan, Freed

\* A view, with what its client has been told.
josh_view ==
  [mapped : BOOLEAN, fullscreen : BOOLEAN, state : josh_window_state,
   told : [maximised : BOOLEAN, fullscreen : BOOLEAN, resizing : BOOLEAN,
           activated : BOOLEAN, tiled : {"none", "LEFT", "RIGHT"}]]

ASSUME GeometryAssumption ==
  /\ FirstGeometry \in josh_rect /\ Desktops \subseteq josh_rect
  /\ Points \subseteq [x : Int, y : Int] /\ Threshold \in Int
  /\ MinSize \in Int \X Int /\ Step \in Int /\ Cascade \in Nat \ {0}
  /\ \A size \in ClientSizes : size = None \/ size \in Int \X Int

ASSUME ValuesAssumption ==
  /\ None \notin Views \cup josh_view /\ Freed \notin Views
  /\ {None, Orphan} \cap (Views \X {"main", "child"}) = {}

VARIABLES
  views,       \* josh_view of each live view; None for the others
  stack,       \* the scene tree, bottom first
  kfocus,      \* surface with keyboard focus: <<view, part>>, None or Orphan
  pfocus,      \* surface with pointer focus, likewise
  seatkb, keyboards,
  buttons,     \* pointer buttons held
  cursor, desktop, next_view_offset,
  mode, grabbed, grab,     \* cursor_mode, grabbed_view and its parameters
  grab_mapped,             \* the view was mapped when the grab began
  grabs,                   \* grabs so far
  blind,                   \* a view was raised while the seat had no keyboard
  own                      \* geometry when last maximised, None if lost

seatVars == <<kfocus, pfocus, seatkb, keyboards, buttons>>
grabVars == <<mode, grabbed, grab, grab_mapped>>
worldVars == <<cursor, desktop, next_view_offset>>
vars == <<views, stack, seatVars, grabVars, grabs, worldVars, blind, own>>

Live == {v \in Views : views[v] # None}
Mapped == {v \in Live : views[v].mapped}
NoGrab == [x |-> 0, y |-> 0, geometry |-> FirstGeometry, edges |-> {}]

\* Bound: geometries and saved geometries stay in a box.
InBox(g) == {g.x, g.y, g.width, g.height} \subseteq Box

SetState(vs, v, state) == [vs EXCEPT ![v].state = state]
Tell(vs, v, what, value) == [vs EXCEPT ![v].told[what] = value]

\* The stack once the node of v, which is in it once, has been taken out.
Without(nodes, v) ==
  LET at == CHOOSE i \in DOMAIN nodes : nodes[i] = v
  IN [i \in 1..(Len(nodes) - 1) |-> IF i < at THEN nodes[i] ELSE nodes[i + 1]]

-----------------------------------------------------------------------------
Init ==
  /\ views = [v \in Views |-> None] /\ stack = <<>>
  /\ kfocus = None /\ pfocus = None /\ seatkb = None /\ keyboards = {}
  /\ buttons = 0
  /\ cursor \in Points /\ desktop \in Desktops /\ next_view_offset = 0
  /\ mode = "PASSTHROUGH" /\ grabbed = None /\ grab = NoGrab
  /\ grab_mapped = FALSE /\ grabs = 0 /\ blind = FALSE
  /\ own = [v \in Views |-> None]

\* The client is told about the view with the keyboard focus, then about the
\* new one.  The faulty variant tells them in the other order.
ActivateFirst(vs, v) ==
  LET new == Tell(vs, v, "activated", TRUE)
  IN IF \E w \in Live : kfocus = <<w, "main">>
     THEN Tell(new, kfocus[1], "activated", FALSE) ELSE new
Activate(vs, v) ==
  LET old == IF \E w \in Live : kfocus = <<w, "main">>
             THEN Tell(vs, kfocus[1], "activated", FALSE) ELSE vs
  IN Tell(old, v, "activated", TRUE)

\* focus_view: sets views', stack', kfocus' and blind'.
FocusView(vs, v, part) ==
  IF ~vs[v].mapped \/ kfocus = <<v, part>>
  THEN views' = vs /\ UNCHANGED <<stack, kfocus, blind>>
  ELSE /\ views' = Activate(vs, v)
       /\ stack' = Append(Without(stack, v), v)
       /\ kfocus' = IF seatkb # None THEN <<v, part>> ELSE kfocus
       /\ blind' = (seatkb = None)

\* end_interactive, as far as the grabbed view is concerned.
EndSnap(vs, v) ==
  LET zone == josh_snap_zone_for(desktop, cursor, Threshold)
      state == josh_window_apply_snap(vs[v].state, desktop, zone)
      max == Tell(SetState(vs, v, state), v, "maximised", zone = "MAXIMISE")
  IN IF zone = "NONE" THEN vs
     ELSE Tell(max, v, "tiled", IF zone = "MAXIMISE" THEN "none" ELSE zone)

EndViews(vs) ==
  IF grabbed \notin Live THEN vs
  ELSE IF mode = "MOVE" THEN EndSnap(vs, grabbed)
  ELSE Tell(vs, grabbed, "resizing", FALSE)

\* The grab's parameters are not read again before the next grab sets them.
EndGrab ==
  /\ mode' = "PASSTHROUGH" /\ grabbed' = None
  /\ grab' = NoGrab /\ grab_mapped' = FALSE

\* A snap saves or keeps another place than the maximised window came from.
OwnAfterSnap(vs) ==
  [v \in Views |-> IF views[v] # None /\ vs[v] # None /\ views[v].state # vs[v].state
                   THEN None ELSE own[v]]

-----------------------------------------------------------------------------
\* handle_new_toplevel; a failed allocation leaves the client without a view.
NewToplevel(v) ==
  /\ views[v] = None
  /\ LET d == next_view_offset * Step
         g == [FirstGeometry EXCEPT !.x = @ + d, !.y = @ + d]
     IN views' = [views EXCEPT ![v] =
          [mapped |-> FALSE, fullscreen |-> FALSE,
           state |-> [geometry |-> g, previous |-> g, has_previous |-> FALSE,
                      maximised |-> FALSE],
           told |-> [maximised |-> FALSE, fullscreen |-> FALSE, tiled |-> "none",
                     resizing |-> FALSE, activated |-> FALSE]]]
  /\ stack' = Append(stack, v)
  /\ next_view_offset' = (next_view_offset + 1) % Cascade
  /\ UNCHANGED <<seatVars, grabVars, cursor, desktop, grabs, blind, own>>

\* handle_view_map, with the size the client committed (or none).
Map(v, size) ==
  /\ v \in Live \ Mapped
  /\ LET g == views[v].state.geometry
         sized == IF size = None THEN g
                  ELSE [g EXCEPT !.width = size[1], !.height = size[2]]
     IN FocusView([views EXCEPT ![v].mapped = TRUE, ![v].state.geometry = sized],
                  v, "main")
  /\ UNCHANGED <<pfocus, seatkb, keyboards, buttons, grabVars, worldVars, grabs, own>>

\* handle_view_unmap; the faulty variant forgets the grab.
UnmapOnly(v) ==
  /\ v \in Mapped
  /\ views' = [views EXCEPT ![v].mapped = FALSE]
  /\ UNCHANGED <<stack, seatVars, grabVars, worldVars, grabs, blind, own>>
Unmap(v) ==
  /\ v \in Mapped
  /\ LET vs == [views EXCEPT ![v].mapped = FALSE]
     IN IF grabbed = v
        THEN views' = EndViews(vs) /\ own' = OwnAfterSnap(EndViews(vs)) /\ EndGrab
        ELSE views' = vs /\ UNCHANGED <<own, grabVars>>
  /\ UNCHANGED <<stack, seatVars, worldVars, grabs, blind>>

\* handle_view_destroy; the client may keep the surface or destroy it too.
Destroy(v, keeps) ==
  LET After(f) == IF f \notin {<<v, "main">>, <<v, "child">>} THEN f
                  ELSE IF keeps THEN Orphan ELSE None
  IN /\ v \in Live \ Mapped
     /\ views' = [views EXCEPT ![v] = None]
     /\ stack' = Without(stack, v)
     /\ kfocus' = After(kfocus) /\ pfocus' = After(pfocus)
     /\ grabbed' = IF grabbed = v THEN Freed ELSE grabbed
     /\ own' = [own EXCEPT ![v] = None]
     /\ UNCHANGED <<seatkb, keyboards, buttons, mode, grab, grab_mapped, worldVars, grabs, blind>>

\* A focused surface without a view, or a popup or subsurface, goes away.
SurfaceGone(f) ==
  /\ f \in {kfocus, pfocus}
  /\ kfocus' = IF kfocus = f THEN None ELSE kfocus
  /\ pfocus' = IF pfocus = f THEN None ELSE pfocus
  /\ UNCHANGED <<views, stack, seatkb, keyboards, buttons, grabVars, worldVars, grabs, blind, own>>

-----------------------------------------------------------------------------
\* begin_interactive: wlroots accepts the serial of the one button held.
Begin(v, newmode, edges) ==
  LET restores == newmode = "MOVE" /\ views[v].state.maximised
      state == IF restores
               THEN josh_window_toggle_maximise(views[v].state, desktop)
               ELSE views[v].state
      told == IF restores THEN Tell(SetState(views, v, state), v, "maximised", FALSE)
              ELSE views
      at == IF newmode = "MOVE" THEN state.geometry ELSE [x |-> 0, y |-> 0]
  IN /\ grabs < MaxGrabs /\ grabs' = grabs + 1
     /\ v \in Live /\ buttons = 1 /\ pfocus = <<v, "main">>
     /\ views' = IF newmode = "RESIZE" THEN Tell(told, v, "resizing", TRUE) ELSE told
     /\ own' = IF restores THEN [own EXCEPT ![v] = None] ELSE own
     /\ mode' = newmode /\ grabbed' = v /\ grab_mapped' = views[v].mapped
     /\ grab' = [x |-> cursor.x - at.x, y |-> cursor.y - at.y,
                 geometry |-> state.geometry, edges |-> edges]
     /\ UNCHANGED <<stack, seatVars, worldVars, blind>>

\* The geometry of the grabbed view once the pointer is at p.
Dragged(p) ==
  LET g == grab.geometry
      dx == p.x - grab.x
      dy == p.y - grab.y
      e == grab.edges
      w == IF "left" \in e THEN g.width - dx
           ELSE IF "right" \in e THEN g.width + dx ELSE g.width
      h == IF "top" \in e THEN g.height - dy
           ELSE IF "bottom" \in e THEN g.height + dy ELSE g.height
  IN IF mode = "MOVE"
     THEN [views[grabbed].state.geometry EXCEPT !.x = dx, !.y = dy]
     ELSE [x |-> IF "left" \in e THEN g.x + dx ELSE g.x,
           y |-> IF "top" \in e THEN g.y + dy ELSE g.y,
           width |-> IF w < MinSize[1] THEN MinSize[1] ELSE w,
           height |-> IF h < MinSize[2] THEN MinSize[2] ELSE h]

\* handle_cursor_motion and its absolute form, with a grab and without.
MotionGrabbed(p) ==
  /\ mode # "PASSTHROUGH" /\ grabbed \in Live
  /\ InBox(Dragged(p))
  /\ cursor' = p
  /\ views' = [views EXCEPT ![grabbed].state.geometry = Dragged(p)]
  /\ UNCHANGED <<stack, seatVars, grabVars, desktop, next_view_offset, grabs, blind, own>>

MotionFree(p, under) ==
  /\ mode = "PASSTHROUGH"
  /\ cursor' = p /\ pfocus' = under
  /\ UNCHANGED <<views, stack, kfocus, seatkb, keyboards, buttons, grabVars,
                 desktop, next_view_offset, grabs, blind, own>>

\* handle_cursor_button, pressed: the view under the pointer gets the focus.
Press(under) ==
  /\ buttons < MaxButtons /\ buttons' = buttons + 1
  /\ IF under = None THEN UNCHANGED <<views, stack, kfocus, blind>>
     ELSE FocusView(views, under[1], under[2])
  /\ UNCHANGED <<pfocus, seatkb, keyboards, grabVars, worldVars, grabs, own>>

\* Released: any button ends the interaction.  What a use of a freed view
\* would do is not modelled: only the release that does not touch it is.
Release ==
  /\ buttons > 0
  /\ grabbed = Freed =>
       mode = "MOVE" /\ josh_snap_zone_for(desktop, cursor, Threshold) = "NONE"
  /\ buttons' = buttons - 1
  /\ views' = EndViews(views) /\ own' = OwnAfterSnap(EndViews(views)) /\ EndGrab
  /\ UNCHANGED <<stack, kfocus, pfocus, seatkb, keyboards, worldVars, grabs, blind>>

-----------------------------------------------------------------------------
\* The window state after a toggle, the client told, the own place saved.
Toggle(v, told) ==
  LET state == josh_window_toggle_maximise(views[v].state, desktop)
  IN /\ views' = Tell(SetState(views, v, state), v, "maximised", told)
     /\ own' = [own EXCEPT ![v] = IF views[v].state.maximised THEN None
                                  ELSE views[v].state.geometry]

RequestMaximize(v, requested) ==
  /\ v \in Live
  /\ IF requested # views[v].state.maximised THEN Toggle(v, requested)
     ELSE views' = Tell(views, v, "maximised", requested) /\ UNCHANGED own
  /\ UNCHANGED <<stack, seatVars, grabVars, worldVars, grabs, blind>>

RequestFullscreen(v, requested) ==
  /\ v \in Live
  /\ LET s == views[v].state
         into == [s EXCEPT !.previous = s.geometry, !.has_previous = TRUE,
                           !.geometry = desktop]
         out == [s EXCEPT !.geometry = IF s.has_previous THEN s.previous ELSE @]
         state == CASE requested /\ ~views[v].fullscreen -> into
                    [] ~requested /\ views[v].fullscreen -> out
                    [] OTHER -> s
     IN /\ views' = [views EXCEPT ![v].state = state, ![v].fullscreen = requested,
                                  ![v].told.fullscreen = requested]
        /\ own' = IF requested /\ ~views[v].fullscreen THEN [own EXCEPT ![v] = None] ELSE own
  /\ UNCHANGED <<stack, seatVars, grabVars, worldVars, grabs, blind>>

\* A minimise request is answered with the unchanged size.
RequestMinimize(v) == v \in Live /\ UNCHANGED vars

\* handle_keybinding with Super held and a view in focus.  Down on a view
\* that is not maximised goes to the client like any other key.  The faulty
\* variant of a snap does not tell the client that it is no longer maximised.
SnapKeySilently(v, zone) ==
  LET state == josh_window_apply_snap(views[v].state, desktop, zone)
  IN /\ views' = Tell(SetState(views, v, state), v, "tiled", zone)
     /\ own' = [own EXCEPT ![v] = None]
SnapKey(v, zone) ==
  LET state == josh_window_apply_snap(views[v].state, desktop, zone)
  IN /\ views' = Tell(Tell(SetState(views, v, state), v, "maximised", FALSE),
                      v, "tiled", zone)
     /\ own' = [own EXCEPT ![v] = None]

Shortcut(key) ==
  /\ keyboards # {}
  /\ \E v \in Live :
       /\ kfocus = <<v, "main">>
       /\ \/ /\ key = "Up"
             /\ LET s == views[v].state
                    state == IF s.maximised THEN s
                             ELSE josh_window_toggle_maximise(s, desktop)
                IN /\ views' = Tell(Tell(SetState(views, v, state), v, "maximised", TRUE),
                                    v, "tiled", "none")
                   /\ own' = IF s.maximised THEN own ELSE [own EXCEPT ![v] = s.geometry]
          \/ key = "Down" /\ views[v].state.maximised /\ Toggle(v, FALSE)
          \/ key = "Left" /\ SnapKey(v, "LEFT")
          \/ key = "Right" /\ SnapKey(v, "RIGHT")
  /\ UNCHANGED <<stack, seatVars, grabVars, worldVars, grabs, blind>>

-----------------------------------------------------------------------------
\* handle_new_input, and any key or modifier of a keyboard that is not a
\* shortcut: the seat uses that keyboard.
NewKeyboard(k) ==
  /\ k \notin keyboards
  /\ keyboards' = keyboards \cup {k} /\ seatkb' = k
  /\ UNCHANGED <<views, stack, kfocus, pfocus, buttons, grabVars, worldVars, grabs, blind, own>>

KeyTyped(k) ==
  /\ k \in keyboards /\ seatkb' = k
  /\ UNCHANGED <<views, stack, kfocus, pfocus, keyboards, buttons, grabVars,
                 worldVars, grabs, blind, own>>

\* handle_keyboard_destroy; the seat forgets the keyboard.
KeyboardGone(k) ==
  /\ k \in keyboards
  /\ keyboards' = keyboards \ {k}
  /\ seatkb' = IF seatkb = k THEN None ELSE seatkb
  /\ UNCHANGED <<views, stack, kfocus, pfocus, buttons, grabVars, worldVars, grabs, blind, own>>

\* An output appears or goes: handle_new_output, handle_output_destroy.
OutputsChange(d) ==
  /\ desktop' = d
  /\ UNCHANGED <<views, stack, seatVars, grabVars, cursor, next_view_offset, grabs, blind, own>>

\* What can be under the pointer.
Under == {None} \cup Mapped \X Parts

ClientStep(v) ==
  \/ NewToplevel(v) \/ Unmap(v)
  \/ \E size \in ClientSizes : Map(v, size)
  \/ Destroy(v, FALSE) \/ ("keep" \in Events /\ Destroy(v, TRUE))
  \/ "move" \in Events /\ Begin(v, "MOVE", {})
  \/ "resize" \in Events /\ \E e \in EdgeSets : Begin(v, "RESIZE", e)
  \/ "maximize" \in Events /\ \E r \in BOOLEAN : RequestMaximize(v, r)
  \/ "fullscreen" \in Events /\ \E r \in BOOLEAN : RequestFullscreen(v, r)
  \/ "minimize" \in Events /\ RequestMinimize(v)

UserStep ==
  \/ \E p \in Points :
       MotionGrabbed(p) \/ \E u \in Under : MotionFree(p, u)
  \/ \E u \in Under : Press(u)
  \/ Release
  \/ \E key \in Keys : Shortcut(key)
  \/ \E k \in Keyboards : NewKeyboard(k) \/ KeyTyped(k)
  \/ "unplug" \in Events /\ \E k \in Keyboards : KeyboardGone(k)
  \/ \E d \in Desktops : OutputsChange(d)

Next ==
  \/ \E v \in Views : ClientStep(v)
  \/ \E f \in {Orphan} \cup Views \X {"child"} : SurfaceGone(f)
  \/ UserStep

Spec == Init /\ [][Next]_vars

-----------------------------------------------------------------------------
\* Safety.  A view freed during an interactive move or resize stays the
\* grabbed view only if the grab began while it was not mapped: from a mapped
\* view, handle_view_unmap has always ended the grab before
\* handle_view_destroy frees it.
GrabOnLiveView == (grabbed = Freed => ~grab_mapped)

\* Safety.  While the seat has had a keyboard at every focus change, the
\* mapped view whose surface gets the keys is drawn above every other mapped
\* view, and its client has been told that it is active.
FocusedIsTopAndActive ==
  ~blind => \A v \in Mapped : \A part \in {"main", "child"} :
    kfocus = <<v, part>> =>
      /\ views[v].told.activated
      /\ \A i, j \in DOMAIN stack :
           (stack[i] = v /\ stack[j] \in Mapped \ {v}) => j < i

\* Safety.  Through shortcuts, requests, drags and snaps in any order, a
\* client is told it is maximised or fullscreen exactly when its view is.
ClientsToldState ==
  \A v \in Live : /\ views[v].told.maximised = views[v].state.maximised
                  /\ views[v].told.fullscreen = views[v].fullscreen

\* Safety.  A view that was maximised and neither snapped nor made fullscreen
\* since then still has the geometry it came from to return to, whatever was
\* dragged, resized, unmapped and mapped again meanwhile.
RestoresOwnPlace ==
  \A v \in Live : own[v] # None =>
    /\ views[v].state.maximised /\ views[v].state.has_previous
    /\ views[v].state.previous = own[v]
=============================================================================
