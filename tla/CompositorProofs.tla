-------------------------- MODULE CompositorProofs --------------------------
(***************************************************************************)
(* For any number of views, any outputs and any sizes: no freed view that  *)
(* was mapped stays grabbed, clients are told the state of their views, a  *)
(* maximised view keeps the place it came from, and the view with the keys *)
(* is on top and active.                                                   *)
(***************************************************************************)
EXTENDS Compositor, TLAPS

\* One view r and the place o it was maximised from: the client has been told
\* the state, and the place is still saved.  A view that is gone has no place.
Sound(r, o) ==
  IF r = None THEN o = None
  ELSE /\ r.told.maximised = r.state.maximised
       /\ r.told.fullscreen = r.fullscreen
       /\ o # None => /\ r.state.maximised /\ r.state.has_previous
                      /\ r.state.previous = o

ViewsSound(vs, places) ==
  /\ vs \in [Views -> josh_view \cup {None}]
  /\ DOMAIN places = Views
  /\ \A v \in Views : Sound(vs[v], places[v])

\* The two states have the same live views, mapped alike.
SameLife(vs, us) ==
  \A v \in Views : /\ vs[v] = None <=> us[v] = None
                   /\ vs[v] # None => us[v].mapped = vs[v].mapped

\* And their clients have been told alike who is active.
LooksLike(r, q) == r.mapped = q.mapped /\ r.told.activated = q.told.activated

SameLook(vs, us) ==
  \A v \in Views : /\ vs[v] = None <=> us[v] = None
                   /\ vs[v] # None => LooksLike(us[v], vs[v])

\* The same, except that views may have been unmapped.
Quieter(vs, us) ==
  \A v \in Views : /\ vs[v] = None <=> us[v] = None
                   /\ vs[v] # None => /\ us[v].told.activated = vs[v].told.activated
                                      /\ us[v].mapped => vs[v].mapped

GrabSound(vs) ==
  grab_mapped => /\ grabbed \in Views /\ vs[grabbed] # None
                 /\ vs[grabbed].mapped

\* What the handlers read besides the views.
WorldOK ==
  /\ cursor \in Points /\ desktop \in Desktops
  /\ next_view_offset \in Int
  /\ mode \in {"PASSTHROUGH", "MOVE", "RESIZE"}
  /\ grab_mapped \in BOOLEAN
  /\ grab.x \in Int /\ grab.y \in Int /\ grab.geometry \in josh_rect

IInv == WorldOK /\ ViewsSound(views, own) /\ GrabSound(views)

-----------------------------------------------------------------------------
\* josh_snap_zone_for answers with one of the four zones.
LEMMA ZoneType ==
  ASSUME NEW d \in josh_rect, NEW p \in [x : Int, y : Int], NEW t \in Int
  PROVE  josh_snap_zone_for(d, p, t) \in josh_snap_zone
BY DEF josh_snap_zone_for, josh_snap_zone, normalised_desktop, josh_rect

\* normalised_desktop gives a rectangle.
LEMMA NormalisedRect ==
  ASSUME NEW d \in josh_rect
  PROVE  normalised_desktop(d) \in josh_rect
<1>1. /\ d.x \in Int /\ d.y \in Int /\ d.width \in Int /\ d.height \in Int
      /\ DOMAIN d = {"x", "y", "width", "height"}
  BY DEF josh_rect
<1>2. /\ (IF d.width < 1 THEN 1 ELSE d.width) \in Int
      /\ (IF d.height < 1 THEN 1 ELSE d.height) \in Int
  BY <1>1
<1>3. ASSUME NEW w \in Int, NEW h \in Int
      PROVE  [d EXCEPT !.width = w, !.height = h] \in josh_rect
  BY Zenon DEF josh_rect
<1> QED BY <1>2, <1>3, Zenon DEF normalised_desktop

\* josh_snap_geometry gives a rectangle for every zone.
LEMMA SnapRect ==
  ASSUME NEW d \in josh_rect, NEW zone \in josh_snap_zone
  PROVE  josh_snap_geometry(d, zone) \in josh_rect
<1> DEFINE b == normalised_desktop(d)
           left == b.width \div 2
<1>1. b \in josh_rect
  BY NormalisedRect
<1>2. left \in Int /\ b.width \in Int /\ b.x \in Int
  BY <1>1 DEF josh_rect
<1>3. /\ (IF left < 1 THEN 1 ELSE left) \in Int
      /\ (IF b.width - left < 1 THEN 1 ELSE b.width - left) \in Int
      /\ b.x + left \in Int
  BY <1>2
<1>4. ASSUME NEW n \in Int, NEW m \in Int
      PROVE  /\ [b EXCEPT !.width = n] \in josh_rect
             /\ [b EXCEPT !.x = m, !.width = n] \in josh_rect
             /\ [b EXCEPT !.width = n, !.height = m] \in josh_rect
  BY <1>1, Zenon DEF josh_rect
<1>5. CASE zone = "LEFT"
  <2>1. josh_snap_geometry(d, zone) =
          [b EXCEPT !.width = IF left < 1 THEN 1 ELSE left]
    BY <1>5 DEF josh_snap_geometry
  <2> QED BY <2>1, <1>3, <1>4, Zenon
<1>6. CASE zone = "RIGHT"
  <2>1. josh_snap_geometry(d, zone) =
          [b EXCEPT !.x = b.x + left,
                    !.width = IF b.width - left < 1 THEN 1 ELSE b.width - left]
    BY <1>6 DEF josh_snap_geometry
  <2> DEFINE n == IF b.width - left < 1 THEN 1 ELSE b.width - left
             m == b.x + left
  <2>2. n \in Int /\ m \in Int
    BY <1>3
  <2>3. josh_snap_geometry(d, zone) = [b EXCEPT !.x = m, !.width = n]
    BY <2>1
  <2> HIDE DEF n, m, b
  <2> QED BY <2>2, <2>3, <1>4, Zenon
<1>7. CASE zone = "MAXIMISE"
  BY <1>1, <1>7 DEF josh_snap_geometry
<1>8. CASE zone = "NONE"
  <2>1. josh_snap_geometry(d, zone) = [b EXCEPT !.width = 0, !.height = 0]
    BY <1>8 DEF josh_snap_geometry
  <2>2. 0 \in Int
    OBVIOUS
  <2> HIDE DEF b
  <2> QED BY <2>1, <2>2, <1>4, Zenon
<1> QED BY <1>5, <1>6, <1>7, <1>8 DEF josh_snap_zone

\* josh_window_toggle_maximise flips the flag, and saves the geometry when
\* it maximises.
LEMMA ToggleState ==
  ASSUME NEW w \in josh_window_state, NEW d \in josh_rect
  PROVE  LET s == josh_window_toggle_maximise(w, d)
         IN /\ s \in josh_window_state
            /\ s.maximised = ~w.maximised
            /\ ~w.maximised => s.has_previous /\ s.previous = w.geometry
<1>1. josh_snap_geometry(d, "MAXIMISE") \in josh_rect
  BY SnapRect DEF josh_snap_zone
<1> QED
  BY <1>1, Zenon DEF josh_window_toggle_maximise, josh_window_state

\* josh_window_apply_snap maximises in the top zone only.
LEMMA SnapState ==
  ASSUME NEW w \in josh_window_state, NEW d \in josh_rect,
         NEW zone \in josh_snap_zone \ {"NONE"}
  PROVE  LET s == josh_window_apply_snap(w, d, zone)
         IN s \in josh_window_state /\ s.maximised = (zone = "MAXIMISE")
<1>1. josh_snap_geometry(d, zone) \in josh_rect
  BY SnapRect
<1> QED
  BY <1>1 DEF josh_window_apply_snap, josh_window_state, josh_snap_zone

-----------------------------------------------------------------------------
\* Replacing one view by a sound one keeps the views sound.
LEMMA Replace ==
  ASSUME NEW vs, NEW places, ViewsSound(vs, places), NEW v \in Views,
         NEW r \in josh_view \cup {None}, NEW o, Sound(r, o)
  PROVE  ViewsSound([vs EXCEPT ![v] = r], [places EXCEPT ![v] = o])
BY DEF ViewsSound

\* The same when its place is left alone.
LEMMA ReplaceView ==
  ASSUME NEW vs, NEW places, ViewsSound(vs, places), NEW v \in Views,
         NEW r \in josh_view \cup {None}, Sound(r, places[v])
  PROVE  ViewsSound([vs EXCEPT ![v] = r], places)
BY DEF ViewsSound

\* Telling a client that it is active, resized or tiled disturbs nothing.
LEMMA TellKeeps ==
  ASSUME NEW vs, NEW places, ViewsSound(vs, places), NEW v \in Views,
         vs[v] # None, NEW what, NEW value,
         \/ what \in {"activated", "resizing"} /\ value \in BOOLEAN
         \/ what = "tiled" /\ value \in {"none", "LEFT", "RIGHT"}
  PROVE  /\ ViewsSound(Tell(vs, v, what, value), places)
         /\ SameLife(vs, Tell(vs, v, what, value))
         /\ Tell(vs, v, what, value)[v].told[what] = value
<1> DEFINE r == [vs[v] EXCEPT !.told[what] = value]
<1>1. vs[v] \in josh_view /\ Sound(vs[v], places[v])
  BY DEF ViewsSound
<1>2. r \in josh_view /\ Sound(r, places[v]) /\ r.mapped = vs[v].mapped
  BY <1>1, ValuesAssumption DEF josh_view, Sound
<1>0. r.told[what] = value
  BY <1>1 DEF josh_view
<1>3. Tell(vs, v, what, value) = [vs EXCEPT ![v] = r]
  BY DEF Tell
<1>4. r # None
  BY <1>2, ValuesAssumption
<1> HIDE DEF r
<1>5. ViewsSound([vs EXCEPT ![v] = r], places)
  BY <1>2, ReplaceView
<1>6. SameLife(vs, [vs EXCEPT ![v] = r])
  BY <1>2, <1>4 DEF SameLife, ViewsSound
<1>7. [vs EXCEPT ![v] = r][v] = r
  BY DEF ViewsSound
<1> QED BY <1>0, <1>3, <1>5, <1>6, <1>7

\* focus_view tells clients only who is active.
LEMMA FocusKeeps ==
  ASSUME NEW vs, ViewsSound(vs, own), \A w \in Live : vs[w] # None,
         NEW v \in Views, vs[v] # None, NEW part, FocusView(vs, v, part)
  PROVE  /\ ViewsSound(views', own) /\ SameLife(vs, views')
         /\ vs[v].mapped /\ kfocus # <<v, part>> => views'[v].told.activated
<1>1. CASE ~vs[v].mapped \/ kfocus = <<v, part>>
  BY <1>1 DEF FocusView, SameLife
<1>2. CASE ~(~vs[v].mapped \/ kfocus = <<v, part>>)
  <2>1. views' = Activate(vs, v)
    BY <1>2 DEF FocusView
  <2> DEFINE old == IF \E w \in Live : kfocus = <<w, "main">>
                    THEN Tell(vs, kfocus[1], "activated", FALSE) ELSE vs
  <2>2. ViewsSound(old, own) /\ SameLife(vs, old)
    <3>1. CASE \E w \in Live : kfocus = <<w, "main">>
      <4>1. PICK w \in Live : kfocus = <<w, "main">>
        BY <3>1
      <4>2. kfocus[1] = w /\ w \in Views /\ vs[w] # None
        BY <4>1 DEF Live
      <4>3. ViewsSound(Tell(vs, w, "activated", FALSE), own)
            /\ SameLife(vs, Tell(vs, w, "activated", FALSE))
        BY <4>2, TellKeeps, Zenon
      <4> QED BY <3>1, <4>2, <4>3, Zenon
    <3>2. CASE ~(\E w \in Live : kfocus = <<w, "main">>)
      BY <3>2 DEF SameLife
    <3> QED BY <3>1, <3>2, Zenon
  <2>3. old[v] # None
    BY <2>2, Zenon DEF SameLife
  <2>4. views' = Tell(old, v, "activated", TRUE)
    BY <2>1 DEF Activate
  <2> HIDE DEF old
  <2> DEFINE new == Tell(old, v, "activated", TRUE)
  <2>5. /\ ViewsSound(new, own) /\ SameLife(old, new)
        /\ new[v].told["activated"] = TRUE
    <3>1. ViewsSound(new, own) /\ SameLife(old, new)
      BY <2>2, <2>3, TellKeeps, Zenon
    <3>2. ASSUME NEW what, NEW value, what = "activated", value = TRUE
          PROVE  Tell(old, v, what, value)[v].told[what] = value
      <4>1. what \in {"activated", "resizing"} /\ value \in BOOLEAN
        BY <3>2
      <4> QED BY <2>2, <2>3, <4>1, TellKeeps
    <3> QED BY <3>1, <3>2, Zenon
  <2>6. views' = new
    BY <2>4
  <2> HIDE DEF new
  <2>7. ViewsSound(views', own) /\ SameLife(vs, views')
    BY <2>2, <2>5, <2>6 DEF SameLife
  <2>8. views'[v].told.activated
    BY <2>5, <2>6
  <2> QED BY <2>7, <2>8
<1> QED BY <1>1, <1>2

\* vs has the live views and the window states of the present state.
SameStates(vs) ==
  \A v \in Views : /\ vs[v] = None <=> views[v] = None
                   /\ vs[v] # None => vs[v].state = views[v].state

\* A view that changes state loses the place it was maximised from; one that
\* does not keeps it.
LEMMA SnapKeeps ==
  ASSUME NEW vs, ViewsSound(vs, own), SameStates(vs), NEW g \in Views,
         vs[g] # None, NEW r \in josh_view, Sound(r, None),
         NEW us, us = [vs EXCEPT ![g] = r]
  PROVE  ViewsSound(us, OwnAfterSnap(us))
<1> DEFINE places == OwnAfterSnap(us)
<1>1. us \in [Views -> josh_view \cup {None}] /\ DOMAIN places = Views
  BY DEF ViewsSound, OwnAfterSnap
<1>2. r # None
  BY ValuesAssumption
<1>3. ASSUME NEW v \in Views, v # g
      PROVE  Sound(us[v], places[v])
  <2>1. us[v] = vs[v] /\ places[v] = own[v]
    BY <1>3 DEF ViewsSound, OwnAfterSnap, SameStates
  <2> QED BY <2>1 DEF ViewsSound
<1>4. Sound(us[g], places[g])
  <2>1. us[g] = r /\ views[g] # None /\ Sound(vs[g], own[g])
        /\ vs[g].state = views[g].state
    BY DEF ViewsSound, SameStates
  <2>2. places[g] = IF views[g].state # r.state THEN None ELSE own[g]
    BY <1>2, <2>1 DEF OwnAfterSnap
  <2>3. CASE views[g].state # r.state
    BY <2>1, <2>2, <2>3
  <2>4. CASE views[g].state = r.state
    BY <1>2, <2>1, <2>2, <2>4 DEF Sound
  <2> QED BY <2>3, <2>4
<1> QED BY <1>1, <1>3, <1>4, Zenon DEF ViewsSound

\* Replacing a view by one that looks like it.
LEMMA OneLook ==
  ASSUME NEW vs, NEW places, ViewsSound(vs, places), NEW g \in Views, vs[g] # None,
         NEW r \in josh_view, LooksLike(r, vs[g])
  PROVE  SameLook(vs, [vs EXCEPT ![g] = r])
BY ValuesAssumption DEF SameLook, LooksLike, ViewsSound

\* end_interactive leaves every client told what its view is.
LEMMA EndKeeps ==
  ASSUME WorldOK, NEW vs, ViewsSound(vs, own), SameStates(vs)
  PROVE  /\ ViewsSound(EndViews(vs), OwnAfterSnap(EndViews(vs)))
         /\ SameLook(vs, EndViews(vs))
<1>1. ViewsSound(vs, OwnAfterSnap(vs))
  BY DEF ViewsSound, OwnAfterSnap, SameStates
<1> DEFINE zone == josh_snap_zone_for(desktop, cursor, Threshold)
<1>2. zone \in josh_snap_zone /\ desktop \in josh_rect
  BY GeometryAssumption, ZoneType DEF WorldOK
<1>0. SameLook(vs, vs)
  BY DEF SameLook, LooksLike
<1>3. CASE grabbed \notin Live
  BY <1>0, <1>1, <1>3 DEF EndViews
<1>4. CASE grabbed \in Live
  <2>0. ViewsSound(vs, own)
    OBVIOUS
  <2>1. /\ grabbed \in Views /\ vs[grabbed] # None
        /\ vs[grabbed] \in josh_view /\ Sound(vs[grabbed], own[grabbed])
    BY <1>4 DEF Live, SameStates, ViewsSound
  <2>2. CASE mode = "MOVE" /\ zone = "NONE"
    BY <1>0, <1>1, <1>4, <2>2 DEF EndViews, EndSnap
  <2>3. CASE mode = "MOVE" /\ zone # "NONE"
    <3> DEFINE state == josh_window_apply_snap(vs[grabbed].state, desktop, zone)
               tiled == IF zone = "MAXIMISE" THEN "none" ELSE zone
               r == [vs[grabbed] EXCEPT
                       !.state = state, !.told.maximised = (zone = "MAXIMISE"),
                       !.told.tiled = tiled]
    <3>1. vs[grabbed].state \in josh_window_state
      BY <2>1 DEF josh_view
    <3>2. state \in josh_window_state /\ state.maximised = (zone = "MAXIMISE")
      BY <1>2, <2>3, <3>1, SnapState
    <3>3. EndViews(vs) = [vs EXCEPT ![grabbed] = r]
      BY <1>4, <2>1, <2>3, Zenon DEF EndViews, EndSnap, Tell, SetState, ViewsSound
    <3>4. tiled \in {"none", "LEFT", "RIGHT"}
      BY <1>2, <2>3 DEF josh_snap_zone
    <3> HIDE DEF zone, state, tiled
    <3>5. r \in josh_view /\ Sound(r, None)
      BY <2>1, <3>2, <3>4, ValuesAssumption, Zenon DEF josh_view, Sound
    <3>6. LooksLike(r, vs[grabbed])
      BY <2>1, Zenon DEF josh_view, LooksLike
    <3> HIDE DEF r
    <3>7. SameLook(vs, EndViews(vs))
      <4>1. SameLook(vs, [vs EXCEPT ![grabbed] = r])
        BY ONLY <2>0, <2>1, <3>5, <3>6, OneLook, Zenon
      <4> QED BY ONLY <3>3, <4>1, Zenon
    <3> QED BY <2>1, <3>3, <3>5, <3>7, SnapKeeps, Zenon
  <2>4. CASE mode # "MOVE"
    <3> DEFINE r == [vs[grabbed] EXCEPT !.told.resizing = FALSE]
    <3>1. EndViews(vs) = [vs EXCEPT ![grabbed] = r]
      BY <1>4, <2>4, Zenon DEF EndViews, Tell
    <3>2. r \in josh_view /\ Sound(r, None) /\ LooksLike(r, vs[grabbed])
      BY <2>1, ValuesAssumption, Zenon DEF josh_view, Sound, LooksLike
    <3> HIDE DEF r
    <3>3. SameLook(vs, EndViews(vs))
      <4>1. SameLook(vs, [vs EXCEPT ![grabbed] = r])
        BY ONLY <2>0, <2>1, <3>2, OneLook, Zenon
      <4> QED BY ONLY <3>1, <4>1, Zenon
    <3> QED BY <2>1, <3>1, <3>2, <3>3, SnapKeeps, Zenon
  <2> QED BY <2>2, <2>3, <2>4
<1> QED BY <1>3, <1>4
-----------------------------------------------------------------------------
\* A handler that changes one view without mapping or unmapping it: what it
\* must establish of the new view and of the place it was maximised from.
LEMMA OneView ==
  ASSUME IInv, NEW v \in Live, NEW r \in josh_view, NEW o, Sound(r, o),
         LooksLike(r, views[v]), views' = [views EXCEPT ![v] = r],
         own' = [own EXCEPT ![v] = o] \/ (own' = own /\ o = own[v])
  PROVE  ViewsSound(views', own') /\ SameLook(views, views')
<1>1. v \in Views /\ r # None /\ views[v] # None /\ ViewsSound(views, own)
  BY ValuesAssumption DEF Live, IInv
<1>2. ViewsSound(views', own')
  <2>1. CASE own' = [own EXCEPT ![v] = o]
    BY <1>1, <2>1, Replace, Zenon
  <2>2. CASE own' = own /\ o = own[v]
    BY <1>1, <2>2, ReplaceView, Zenon
  <2> QED BY <2>1, <2>2
<1>3. SameLook(views, views')
  BY <1>1 DEF SameLook, LooksLike, ViewsSound
<1> QED BY <1>2, <1>3

LEMMA LookIsLife ==
  ASSUME NEW vs, NEW us, SameLook(vs, us)
  PROVE  SameLife(vs, us)
BY DEF SameLook, LooksLike, SameLife

\* A grab survives a handler that unmaps and frees nothing.
LEMMA GrabKept ==
  ASSUME IInv, UNCHANGED <<grabbed, grab_mapped>>, SameLife(views, views')
  PROVE  GrabSound(views)'
BY DEF IInv, GrabSound, SameLife

\* What is known of a live view in the invariant.
LEMMA LiveView ==
  ASSUME IInv, NEW v \in Live
  PROVE  /\ v \in Views /\ views[v] # None
         /\ views[v] \in josh_view /\ Sound(views[v], own[v])
         /\ views[v].state \in josh_window_state
         /\ desktop \in josh_rect
BY GeometryAssumption DEF IInv, ViewsSound, Live, WorldOK, josh_view

\* The parameters of no grab are well typed.
LEMMA NoGrabType ==
  NoGrab.x \in Int /\ NoGrab.y \in Int /\ NoGrab.geometry \in josh_rect
BY GeometryAssumption DEF NoGrab

\* Every run of the compositor starts in the invariant.
LEMMA InitIInv == Init => IInv
<1> SUFFICES ASSUME Init PROVE IInv
  OBVIOUS
<1>1. WorldOK
  <2>1. cursor \in Points /\ desktop \in Desktops /\ next_view_offset \in Int
    BY DEF Init
  <2>2. mode \in {"PASSTHROUGH", "MOVE", "RESIZE"} /\ grab_mapped \in BOOLEAN
    BY Zenon DEF Init
  <2>3. grab.x \in Int /\ grab.y \in Int /\ grab.geometry \in josh_rect
    BY NoGrabType DEF Init
  <2> QED BY <2>1, <2>2, <2>3 DEF WorldOK
<1>2. ViewsSound(views, own)
  BY DEF Init, ViewsSound, Sound
<1>3. GrabSound(views)
  BY DEF Init, GrabSound
<1> QED BY <1>1, <1>2, <1>3 DEF IInv

\* handle_new_toplevel.
LEMMA NewToplevelKeeps ==
  ASSUME IInv, NEW v \in Views, NewToplevel(v)
  PROVE  /\ IInv' /\ views'[v] # None /\ ~views'[v].mapped
         /\ \A w \in Views \ {v} : views'[w] = views[w]
<1> DEFINE d == next_view_offset * Step
           g == [FirstGeometry EXCEPT !.x = @ + d, !.y = @ + d]
           r == [mapped |-> FALSE, fullscreen |-> FALSE,
                 state |-> [geometry |-> g, previous |-> g, has_previous |-> FALSE,
                            maximised |-> FALSE],
                 told |-> [maximised |-> FALSE, fullscreen |-> FALSE, tiled |-> "none",
                           resizing |-> FALSE, activated |-> FALSE]]
<1>1. d \in Int
  BY GeometryAssumption DEF IInv, WorldOK
<1>2. views[v] = None /\ views' = [views EXCEPT ![v] = r]
  BY DEF NewToplevel
<1> HIDE DEF d
<1>3. g \in josh_rect
  <2>1. FirstGeometry \in josh_rect
    BY GeometryAssumption
  <2>2. FirstGeometry.x + d \in Int /\ FirstGeometry.y + d \in Int
    BY <1>1, <2>1 DEF josh_rect
  <2>3. ASSUME NEW a \in Int, NEW b \in Int
        PROVE  [FirstGeometry EXCEPT !.x = a, !.y = b] \in josh_rect
    BY <2>1, Zenon DEF josh_rect
  <2> QED BY <2>2, <2>3, Zenon
<1> HIDE DEF g
<1>4. own[v] = None
  BY <1>2 DEF IInv, ViewsSound, Sound
<1>5. r \in josh_view
  BY <1>3 DEF josh_view, josh_window_state
<1>6. Sound(r, None) /\ ~r.mapped
  BY Zenon DEF Sound
<1> HIDE DEF r
<1>10. /\ views'[v] # None /\ ~views'[v].mapped
       /\ \A w \in Views \ {v} : views'[w] = views[w]
  BY <1>2, <1>5, <1>6, ValuesAssumption DEF IInv, ViewsSound
<1>7. ViewsSound(views', own')
  <2>1. own' = own /\ ViewsSound(views, own) /\ Sound(r, own[v])
    BY <1>4, <1>6 DEF IInv, NewToplevel
  <2> QED BY <1>2, <1>5, <2>1, ReplaceView, Zenon
<1>8. GrabSound(views)'
  BY <1>2 DEF IInv, GrabSound, NewToplevel, grabVars, ViewsSound
<1>9. WorldOK'
  <2>1. next_view_offset' \in Int
    BY GeometryAssumption DEF IInv, WorldOK, NewToplevel
  <2> QED BY <2>1 DEF IInv, WorldOK, NewToplevel, grabVars
<1> QED BY <1>7, <1>8, <1>9, <1>10 DEF IInv

\* handle_view_map sizes the view before it asks for the focus.
LEMMA MapView ==
  ASSUME IInv, NEW v \in Views, NEW size \in ClientSizes, Map(v, size)
  PROVE  \E r \in josh_view : /\ Sound(r, own[v]) /\ r.mapped /\ r.told = views[v].told
                              /\ FocusView([views EXCEPT ![v] = r], v, "main")
<1> DEFINE g == views[v].state.geometry
           sized == IF size = None THEN g
                    ELSE [g EXCEPT !.width = size[1], !.height = size[2]]
           r == [views[v] EXCEPT !.mapped = TRUE, !.state.geometry = sized]
<1>1. v \in Live
  BY DEF Map
<1>2. /\ views[v] # None /\ views[v] \in josh_view /\ Sound(views[v], own[v])
      /\ g \in josh_rect
  BY <1>1, LiveView DEF josh_window_state
<1>3. FocusView([views EXCEPT ![v] = r], v, "main")
  BY Zenon DEF Map
<1> HIDE DEF g
<1>4. sized \in josh_rect
  BY <1>2, GeometryAssumption, Zenon DEF josh_rect
<1> HIDE DEF sized
<1>5. [views[v].state EXCEPT !.geometry = sized] \in josh_window_state
  BY <1>2, <1>4 DEF josh_view, josh_window_state
<1>6. r \in josh_view /\ r.mapped
  BY <1>2, <1>5, Zenon DEF josh_view
<1>7. /\ r.state.maximised = views[v].state.maximised
      /\ r.state.has_previous = views[v].state.has_previous
      /\ r.state.previous = views[v].state.previous
      /\ r.told = views[v].told /\ r.fullscreen = views[v].fullscreen
  BY <1>2 DEF josh_view, josh_window_state
<1> HIDE DEF r
<1>8. Sound(r, own[v])
  BY <1>2, <1>6, <1>7, ValuesAssumption DEF Sound
<1> QED BY <1>3, <1>6, <1>7, <1>8, Zenon

LEMMA MapKeeps ==
  ASSUME IInv, NEW v \in Views, NEW size \in ClientSizes, Map(v, size)
  PROVE  IInv'
<1>1. v \in Live
  BY DEF Map
<1>2. PICK r \in josh_view : /\ Sound(r, own[v]) /\ r.mapped /\ r.told = views[v].told
                             /\ FocusView([views EXCEPT ![v] = r], v, "main")
  BY MapView
<1> DEFINE vs == [views EXCEPT ![v] = r]
<1>3. FocusView(vs, v, "main")
  BY <1>2
<1>6. ViewsSound(vs, own) /\ vs[v] # None
  BY <1>2, ReplaceView, ValuesAssumption DEF IInv, ViewsSound
<1>7. \A w \in Live : vs[w] # None
  BY <1>2, ValuesAssumption DEF Live, IInv, ViewsSound
<1>8. grab_mapped => /\ grabbed \in Views /\ vs[grabbed] # None
                     /\ vs[grabbed].mapped
  BY <1>2, <1>6 DEF IInv, GrabSound, ViewsSound
<1> HIDE DEF vs
<1>9. ViewsSound(views', own) /\ SameLife(vs, views')
  BY <1>3, <1>6, <1>7, FocusKeeps
<1>10. GrabSound(views)'
  BY <1>8, <1>9 DEF GrabSound, SameLife, Map, grabVars
<1>11. WorldOK'
  BY DEF IInv, WorldOK, Map, grabVars, worldVars
<1> QED BY <1>9, <1>10, <1>11 DEF IInv, Map

\* handle_view_unmap ends the grab of the view it unmaps.
LEMMA UnmapKeeps ==
  ASSUME IInv, NEW v \in Views, Unmap(v)
  PROVE  IInv' /\ Quieter(views, views')
<1> DEFINE r == [views[v] EXCEPT !.mapped = FALSE]
           vs == [views EXCEPT ![v] = r]
<1>1. v \in Live
  BY DEF Unmap, Mapped
<1>2. views[v] # None /\ views[v] \in josh_view /\ Sound(views[v], own[v])
  BY <1>1, LiveView
<1>3. r \in josh_view /\ Sound(r, own[v]) /\ r.state = views[v].state
  BY <1>2, ValuesAssumption, Zenon DEF josh_view, Sound
<1>0. r.told = views[v].told /\ ~r.mapped
  BY <1>2 DEF josh_view
<1>4. IF grabbed = v
      THEN views' = EndViews(vs) /\ own' = OwnAfterSnap(EndViews(vs)) /\ EndGrab
      ELSE views' = vs /\ UNCHANGED <<own, grabVars>>
  BY DEF Unmap
<1> HIDE DEF r
<1>5. ViewsSound(vs, own)
  BY <1>3, ReplaceView DEF IInv
<1>6. SameStates(vs)
  BY <1>2, <1>3, ValuesAssumption DEF SameStates, IInv, ViewsSound
<1>9. Quieter(views, vs)
  BY <1>0, <1>2, <1>3, ValuesAssumption DEF Quieter, IInv, ViewsSound
<1>7. CASE grabbed = v
  <2>1. ViewsSound(views', own')
    <3> HIDE DEF vs
    <3>1. ViewsSound(EndViews(vs), OwnAfterSnap(EndViews(vs)))
      BY <1>5, <1>6, EndKeeps DEF IInv
    <3> QED BY <1>4, <1>7, <3>1
  <2>2. GrabSound(views)'
    BY <1>4, <1>7 DEF GrabSound, EndGrab
  <2>3. WorldOK'
    BY <1>4, <1>7, NoGrabType, Zenon DEF IInv, WorldOK, Unmap, EndGrab, worldVars
  <2>4. Quieter(views, views')
    <3> HIDE DEF vs
    <3>1. SameLook(vs, views')
      BY <1>4, <1>5, <1>6, <1>7, EndKeeps DEF IInv
    <3> QED BY <1>9, <3>1 DEF Quieter, SameLook, LooksLike
  <2> QED BY <2>1, <2>2, <2>3, <2>4 DEF IInv
<1>8. CASE grabbed # v
  <2>1. views' = vs /\ own' = own /\ grabbed' = grabbed /\ grab_mapped' = grab_mapped
    BY <1>4, <1>8 DEF grabVars
  <2>2. GrabSound(views)'
    BY <1>8, <2>1 DEF IInv, GrabSound, ViewsSound
  <2>3. WorldOK'
    BY <1>4, <1>8 DEF IInv, WorldOK, Unmap, worldVars, grabVars
  <2> QED BY <1>5, <1>9, <2>1, <2>2, <2>3 DEF IInv
<1> QED BY <1>7, <1>8

\* handle_view_destroy: the view is not mapped, so a grab on it began unmapped.
LEMMA DestroyKeeps ==
  ASSUME IInv, NEW v \in Views, NEW keeps, Destroy(v, keeps)
  PROVE  IInv'
<1>1. /\ v \in Live /\ ~views[v].mapped /\ views' = [views EXCEPT ![v] = None]
      /\ own' = [own EXCEPT ![v] = None]
      /\ grabbed' = (IF grabbed = v THEN Freed ELSE grabbed)
      /\ UNCHANGED <<mode, grab, grab_mapped, cursor, desktop, next_view_offset>>
  BY DEF Destroy, Mapped, worldVars
<1>2. ViewsSound(views', own')
  BY <1>1, Replace, Zenon DEF IInv, Sound
<1>3. GrabSound(views)'
  BY <1>1 DEF IInv, GrabSound, ViewsSound
<1>4. WorldOK'
  BY <1>1 DEF IInv, WorldOK
<1> QED BY <1>2, <1>3, <1>4 DEF IInv

\* A view whose client has just been told of its new state is sound without a
\* place, or with the place that was saved on maximising.
LEMMA NewState ==
  ASSUME NEW r \in josh_view, NEW o, Sound(r, o),
         NEW s \in josh_window_state, NEW b \in BOOLEAN, s.maximised = b,
         NEW q, q # None => s.maximised /\ s.has_previous /\ s.previous = q
  PROVE  LET n == [r EXCEPT !.state = s, !.told.maximised = b]
         IN n \in josh_view /\ Sound(n, q) /\ LooksLike(n, r)
<1> DEFINE n == [r EXCEPT !.state = s, !.told.maximised = b]
<1>1. n \in josh_view /\ LooksLike(n, r)
  BY Zenon DEF josh_view, LooksLike
<1>2. /\ n.state = s /\ n.told.maximised = b /\ n.fullscreen = r.fullscreen
      /\ n.told.fullscreen = r.told.fullscreen
  BY DEF josh_view
<1>3. n # None /\ r # None
  BY <1>1, ValuesAssumption
<1> HIDE DEF n
<1>4. Sound(n, q)
  BY <1>2, <1>3 DEF Sound
<1> QED BY <1>1, <1>4 DEF n

\* The client of a sound view may be told that it is resized or tiled.
LEMMA ToldView ==
  ASSUME NEW r \in josh_view, NEW o, Sound(r, o), NEW what, NEW value,
         \/ what = "resizing" /\ value \in BOOLEAN
         \/ what = "tiled" /\ value \in {"none", "LEFT", "RIGHT"}
  PROVE  LET n == [r EXCEPT !.told[what] = value]
         IN n \in josh_view /\ Sound(n, o) /\ LooksLike(n, r)
BY ValuesAssumption DEF josh_view, Sound, LooksLike

\* begin_interactive: a move restores a maximised view.
LEMMA BeginKeeps ==
  ASSUME IInv, NEW v \in Views, NEW newmode \in {"MOVE", "RESIZE"}, NEW edges,
         Begin(v, newmode, edges)
  PROVE  IInv' /\ SameLook(views, views')
<1> DEFINE restores == newmode = "MOVE" /\ views[v].state.maximised
           state == IF restores
                    THEN josh_window_toggle_maximise(views[v].state, desktop)
                    ELSE views[v].state
           told == IF restores THEN Tell(SetState(views, v, state), v, "maximised", FALSE)
                   ELSE views
           o == IF restores THEN None ELSE own[v]
           r == IF restores
                THEN [views[v] EXCEPT !.state = state, !.told.maximised = FALSE]
                ELSE IF newmode = "RESIZE"
                     THEN [views[v] EXCEPT !.told.resizing = TRUE] ELSE views[v]
           at == IF newmode = "MOVE" THEN state.geometry ELSE [x |-> 0, y |-> 0]
<1>1. /\ v \in Live /\ grabbed' = v /\ grab_mapped' = views[v].mapped
      /\ mode' = newmode /\ UNCHANGED <<cursor, desktop, next_view_offset>>
      /\ grab' = [x |-> cursor.x - at.x, y |-> cursor.y - at.y,
                  geometry |-> state.geometry, edges |-> edges]
  BY Zenon DEF Begin, worldVars
<1>2. /\ views[v] # None /\ views[v] \in josh_view /\ Sound(views[v], own[v])
      /\ views[v].state \in josh_window_state /\ desktop \in josh_rect
      /\ views \in [Views -> josh_view \cup {None}]
  BY <1>1, LiveView, Zenon DEF IInv, ViewsSound
<1>3. state \in josh_window_state /\ (restores => ~state.maximised)
  BY <1>2, ToggleState, Zenon
<1>4. views' = [views EXCEPT ![v] = r]
  <2>1. views' = IF newmode = "RESIZE" THEN Tell(told, v, "resizing", TRUE) ELSE told
    BY Zenon DEF Begin
  <2> HIDE DEF state
  <2>2. CASE restores
    BY <1>2, <2>1, <2>2, Zenon DEF Tell, SetState
  <2>3. CASE ~restores /\ newmode = "RESIZE"
    BY <1>2, <2>1, <2>3, Zenon DEF Tell
  <2>4. CASE ~restores /\ newmode # "RESIZE"
    BY <1>2, <2>1, <2>4, Zenon
  <2> QED BY <2>2, <2>3, <2>4
<1>5. own' = [own EXCEPT ![v] = o] \/ (own' = own /\ o = own[v])
  BY Zenon DEF Begin
<1>6. /\ state.geometry \in josh_rect /\ cursor.x \in Int /\ cursor.y \in Int
      /\ at.x \in Int /\ at.y \in Int
  <2>1. state.geometry \in josh_rect
    BY <1>3 DEF josh_window_state
  <2>2. cursor.x \in Int /\ cursor.y \in Int
    BY GeometryAssumption DEF IInv, WorldOK
  <2> HIDE DEF state
  <2>3. at.x \in Int /\ at.y \in Int
    BY <2>1 DEF josh_rect
  <2> QED BY <2>1, <2>2, <2>3
<1> HIDE DEF state
<1>7. r \in josh_view /\ Sound(r, o) /\ LooksLike(r, views[v])
  <2>1. CASE restores
    <3>1. r = [views[v] EXCEPT !.state = state, !.told.maximised = FALSE] /\ o = None
      BY <2>1
    <3>2. state.maximised = FALSE
      BY <1>3, <2>1 DEF josh_window_state
    <3> HIDE DEF r, o
    <3> QED BY <1>2, <1>3, <3>1, <3>2, NewState, Zenon
  <2>2. CASE ~restores /\ newmode = "RESIZE"
    <3>1. r = [views[v] EXCEPT !.told["resizing"] = TRUE] /\ o = own[v]
      BY <2>2, Zenon
    <3>2. views[v] \in josh_view /\ Sound(views[v], own[v])
      BY <1>2
    <3> DEFINE n == [views[v] EXCEPT !.told["resizing"] = TRUE]
    <3>3. n \in josh_view /\ Sound(n, own[v]) /\ LooksLike(n, views[v])
      BY <3>2, ToldView, Zenon
    <3> HIDE DEF r, o, n
    <3>4. r = n
      BY <3>1 DEF n
    <3> QED BY <3>1, <3>3, <3>4, Zenon
  <2>3. CASE ~restores /\ newmode # "RESIZE"
    BY <1>2, <2>3 DEF LooksLike
  <2> QED BY <2>1, <2>2, <2>3, Zenon
<1> HIDE DEF r, o, at, restores
<1>8. ViewsSound(views', own') /\ SameLook(views, views')
  BY <1>1, <1>4, <1>5, <1>7, OneView, Zenon
<1>9. GrabSound(views)'
  BY <1>1, <1>2, <1>8, Zenon DEF GrabSound, SameLook, LooksLike
<1>10. WorldOK'
  <2>1. grab.x' \in Int /\ grab.y' \in Int /\ grab.geometry' \in josh_rect
    BY <1>1, <1>6
  <2>2. grab_mapped' \in BOOLEAN
    BY <1>1, <1>2 DEF josh_view
  <2> QED BY <1>1, <2>1, <2>2 DEF IInv, WorldOK
<1> QED BY <1>8, <1>9, <1>10 DEF IInv

\* process_cursor_motion gives the grabbed view a rectangle.
LEMMA DraggedRect ==
  ASSUME IInv, grabbed \in Live, NEW p \in Points
  PROVE  Dragged(p) \in josh_rect
<1> DEFINE dx == p.x - grab.x
           dy == p.y - grab.y
           g == grab.geometry
           e == grab.edges
           w == IF "left" \in e THEN g.width - dx
                ELSE IF "right" \in e THEN g.width + dx ELSE g.width
           h == IF "top" \in e THEN g.height - dy
                ELSE IF "bottom" \in e THEN g.height + dy ELSE g.height
<1>1. dx \in Int /\ dy \in Int /\ g \in josh_rect
  BY GeometryAssumption DEF IInv, WorldOK
<1>2. MinSize[1] \in Int /\ MinSize[2] \in Int
  BY GeometryAssumption
<1>3. views[grabbed].state.geometry \in josh_rect
  BY LiveView DEF josh_window_state
<1> HIDE DEF dx, dy, g, e
<1>4. w \in Int /\ h \in Int /\ g.x + dx \in Int /\ g.y + dy \in Int
      /\ g.x \in Int /\ g.y \in Int
  BY <1>1 DEF josh_rect
<1>5. CASE mode = "MOVE"
  <2>1. Dragged(p) = [views[grabbed].state.geometry EXCEPT !.x = dx, !.y = dy]
    BY <1>5 DEF Dragged, dx, dy
  <2> QED BY <1>1, <1>3, <2>1, Zenon DEF josh_rect
<1>6. CASE mode # "MOVE"
  <2>1. Dragged(p) =
          [x |-> IF "left" \in e THEN g.x + dx ELSE g.x,
           y |-> IF "top" \in e THEN g.y + dy ELSE g.y,
           width |-> IF w < MinSize[1] THEN MinSize[1] ELSE w,
           height |-> IF h < MinSize[2] THEN MinSize[2] ELSE h]
    BY <1>6 DEF Dragged, dx, dy, g, e
  <2> HIDE DEF w, h
  <2> QED BY <1>2, <1>4, <2>1 DEF josh_rect
<1> QED BY <1>5, <1>6

\* A change of the geometry alone keeps a view sound.
LEMMA GeometryOnly ==
  ASSUME NEW r \in josh_view, NEW o, Sound(r, o), NEW g \in josh_rect
  PROVE  LET n == [r EXCEPT !.state.geometry = g]
         IN n \in josh_view /\ Sound(n, o) /\ LooksLike(n, r)
<1> DEFINE n == [r EXCEPT !.state.geometry = g]
<1>1. [r.state EXCEPT !.geometry = g] \in josh_window_state
  BY DEF josh_view, josh_window_state
<1>2. n \in josh_view /\ n.mapped = r.mapped
  BY <1>1 DEF josh_view
<1>3. /\ n.state.maximised = r.state.maximised
      /\ n.state.has_previous = r.state.has_previous
      /\ n.state.previous = r.state.previous
      /\ n.told = r.told /\ n.fullscreen = r.fullscreen
  BY DEF josh_view, josh_window_state
<1>4. n # None /\ r # None
  BY <1>2, ValuesAssumption
<1> HIDE DEF n
<1>5. Sound(n, o)
  BY <1>3, <1>4 DEF Sound
<1> QED BY <1>2, <1>3, <1>5 DEF n, LooksLike

\* handle_cursor_motion during a grab.
LEMMA MotionKeeps ==
  ASSUME IInv, NEW p \in Points, MotionGrabbed(p)
  PROVE  IInv' /\ SameLook(views, views')
<1> DEFINE r == [views[grabbed] EXCEPT !.state.geometry = Dragged(p)]
<1>1. grabbed \in Live /\ views' = [views EXCEPT ![grabbed] = r] /\ own' = own
  BY DEF MotionGrabbed
<1>2. r \in josh_view /\ Sound(r, own[grabbed]) /\ LooksLike(r, views[grabbed])
  BY <1>1, LiveView, DraggedRect, GeometryOnly
<1> HIDE DEF r
<1>3. ViewsSound(views', own') /\ SameLook(views, views')
  BY <1>1, <1>2, OneView, Zenon
<1>4. GrabSound(views)'
  BY <1>3, LookIsLife, GrabKept DEF MotionGrabbed, grabVars
<1>5. WorldOK'
  BY DEF IInv, WorldOK, MotionGrabbed, grabVars
<1> QED BY <1>3, <1>4, <1>5 DEF IInv

\* handle_cursor_button, pressed.
LEMMA PressKeeps ==
  ASSUME IInv, NEW under \in Under, Press(under)
  PROVE  IInv'
<1>1. own' = own /\ UNCHANGED <<grabbed, grab_mapped>> /\ WorldOK'
  BY DEF Press, IInv, WorldOK, grabVars, worldVars
<1>2. ViewsSound(views', own') /\ SameLife(views, views')
  <2>1. CASE under = None
    BY <1>1, <2>1 DEF Press, IInv, SameLife
  <2>2. CASE under # None
    <3>1. FocusView(views, under[1], under[2])
      BY <2>2 DEF Press
    <3>2. under[1] \in Live
      BY <2>2 DEF Under, Mapped
    <3> QED BY <1>1, <3>1, <3>2, FocusKeeps DEF IInv, Live
  <2> QED BY <2>1, <2>2
<1>3. GrabSound(views)'
  BY <1>1, <1>2, GrabKept
<1> QED BY <1>1, <1>2, <1>3 DEF IInv

\* handle_cursor_button, released: the grab ends.
LEMMA ReleaseKeeps ==
  ASSUME IInv, Release
  PROVE  IInv' /\ SameLook(views, views')
<1>1. SameStates(views)
  BY DEF SameStates
<1>2. /\ ViewsSound(EndViews(views), OwnAfterSnap(EndViews(views)))
      /\ SameLook(views, EndViews(views))
  BY <1>1, EndKeeps DEF IInv
<1>3. ViewsSound(views', own') /\ SameLook(views, views')
  BY <1>2 DEF Release
<1>4. GrabSound(views)'
  BY DEF Release, EndGrab, GrabSound
<1>5. WorldOK'
  BY NoGrabType, Zenon DEF IInv, WorldOK, Release, EndGrab, worldVars
<1> QED BY <1>3, <1>4, <1>5 DEF IInv

\* A toggle that is told to the client as it is made.
LEMMA ToggleKeeps ==
  ASSUME IInv, NEW v \in Live, NEW b \in BOOLEAN, b = ~views[v].state.maximised,
         Toggle(v, b)
  PROVE  ViewsSound(views', own') /\ SameLook(views, views')
<1> DEFINE s == josh_window_toggle_maximise(views[v].state, desktop)
           r == [views[v] EXCEPT !.state = s, !.told.maximised = b]
           q == IF views[v].state.maximised THEN None ELSE views[v].state.geometry
<1>1. /\ v \in Views /\ views[v] \in josh_view /\ Sound(views[v], own[v])
      /\ views[v].state \in josh_window_state /\ desktop \in josh_rect
      /\ views \in [Views -> josh_view \cup {None}]
  BY LiveView DEF IInv, ViewsSound
<1>2. /\ s \in josh_window_state /\ s.maximised = ~views[v].state.maximised
      /\ ~views[v].state.maximised =>
           s.has_previous /\ s.previous = views[v].state.geometry
  BY <1>1, ToggleState
<1>3. views' = [views EXCEPT ![v] = r] /\ own' = [own EXCEPT ![v] = q]
  BY <1>1, Zenon DEF Toggle, Tell, SetState
<1> HIDE DEF s
<1>4. s \in josh_window_state /\ s.maximised = b
  BY <1>2
<1>5. q # None => s.maximised /\ s.has_previous /\ s.previous = q
  BY <1>2, Zenon
<1> HIDE DEF q
<1>6. r \in josh_view /\ Sound(r, q) /\ LooksLike(r, views[v])
  <2>1. views[v] \in josh_view /\ Sound(views[v], own[v])
    BY <1>1
  <2> QED BY <1>4, <1>5, <2>1, NewState, Zenon
<1> HIDE DEF r
<1> QED BY <1>3, <1>6, OneView, Zenon

\* handle_request_maximize.
LEMMA MaximizeKeeps ==
  ASSUME IInv, NEW v \in Views, NEW requested \in BOOLEAN,
         RequestMaximize(v, requested)
  PROVE  ViewsSound(views', own') /\ SameLook(views, views')
<1>1. v \in Live
  BY DEF RequestMaximize
<1>2. /\ views[v] \in josh_view /\ Sound(views[v], own[v]) /\ views[v] # None
      /\ views[v].state \in josh_window_state
  BY <1>1, LiveView
<1>3. views[v].state.maximised \in BOOLEAN
  BY <1>2 DEF josh_window_state
<1>4. CASE requested # views[v].state.maximised
  <2>1. Toggle(v, requested) /\ requested = ~views[v].state.maximised
    BY <1>3, <1>4 DEF RequestMaximize
  <2> QED BY <1>1, <2>1, ToggleKeeps, Zenon
<1>5. CASE requested = views[v].state.maximised
  <2>1. views[v].told.maximised = requested
    BY <1>2, <1>5 DEF Sound
  <2>2. [views[v] EXCEPT !.told.maximised = requested] = views[v]
    BY <1>2, <2>1 DEF josh_view
  <2>3. views' = [views EXCEPT ![v] = views[v]] /\ own' = own
    BY <1>5, <2>2 DEF RequestMaximize, Tell
  <2> QED BY <1>1, <1>2, <2>3, OneView, Zenon DEF LooksLike
<1> QED BY <1>4, <1>5

\* handle_request_fullscreen.
LEMMA FullscreenKeeps ==
  ASSUME IInv, NEW v \in Views, NEW requested \in BOOLEAN,
         RequestFullscreen(v, requested)
  PROVE  ViewsSound(views', own') /\ SameLook(views, views')
<1> DEFINE s == views[v].state
           into == [s EXCEPT !.previous = s.geometry, !.has_previous = TRUE,
                             !.geometry = desktop]
           out == [s EXCEPT !.geometry = IF s.has_previous THEN s.previous ELSE @]
           entered == requested /\ ~views[v].fullscreen
           left == ~requested /\ views[v].fullscreen
           state == CASE entered -> into [] left -> out [] OTHER -> s
           r == [views[v] EXCEPT !.state = state, !.fullscreen = requested,
                                 !.told.fullscreen = requested]
           o == IF entered THEN None ELSE own[v]
<1>1. v \in Live /\ views' = [views EXCEPT ![v] = r]
  <2>1. /\ v \in Live
        /\ views' = [views EXCEPT ![v].state = state, ![v].fullscreen = requested,
                                   ![v].told.fullscreen = requested]
    BY ZenonT(20) DEF RequestFullscreen
  <2> HIDE DEF state
  <2> QED BY <2>1, Zenon
<1>2. /\ views[v] \in josh_view /\ Sound(views[v], own[v]) /\ views[v] # None
      /\ s \in josh_window_state /\ desktop \in josh_rect
  BY <1>1, LiveView
<1>3. own' = [own EXCEPT ![v] = o] \/ (own' = own /\ o = own[v])
  BY Zenon DEF RequestFullscreen
<1> HIDE DEF s
<1>4. into \in josh_window_state /\ into.maximised = s.maximised
  BY <1>2, Zenon DEF josh_window_state
<1>5. /\ out \in josh_window_state /\ out.maximised = s.maximised
      /\ out.has_previous = s.has_previous /\ out.previous = s.previous
  <2>1. (IF s.has_previous THEN s.previous ELSE s.geometry) \in josh_rect
    BY <1>2 DEF josh_window_state
  <2> QED BY <1>2, <2>1 DEF josh_window_state
<1> HIDE DEF into, out
<1>6. /\ state \in josh_window_state /\ state.maximised = s.maximised
      /\ o # None => /\ state.has_previous = s.has_previous
                     /\ state.previous = s.previous /\ o = own[v]
  <2>1. CASE entered
    BY <1>4, <2>1
  <2>2. CASE left
    BY <1>5, <2>2
  <2>3. CASE ~entered /\ ~left
    BY <1>2, <2>3
  <2> QED BY <2>1, <2>2, <2>3, Zenon
<1> HIDE DEF state, o
<1>7. /\ r \in josh_view /\ LooksLike(r, views[v])
      /\ r.state = state /\ r.fullscreen = requested
      /\ r.told.fullscreen = requested
      /\ r.told.maximised = views[v].told.maximised
  BY <1>2, <1>6, Zenon DEF josh_view, LooksLike
<1> HIDE DEF r
<1>8. Sound(r, o)
  BY <1>2, <1>6, <1>7, ValuesAssumption DEF Sound, s
<1> QED BY <1>1, <1>3, <1>7, <1>8, OneView, Zenon

\* A snap shortcut.
LEMMA SnapKeyKeeps ==
  ASSUME IInv, NEW v \in Live, NEW zone \in {"LEFT", "RIGHT"}, SnapKey(v, zone)
  PROVE  ViewsSound(views', own') /\ SameLook(views, views')
<1> DEFINE s == josh_window_apply_snap(views[v].state, desktop, zone)
           r == [views[v] EXCEPT !.state = s, !.told.maximised = FALSE]
           n == [r EXCEPT !.told["tiled"] = zone]
<1>1. /\ v \in Views /\ views[v] \in josh_view /\ Sound(views[v], own[v])
      /\ views[v].state \in josh_window_state /\ desktop \in josh_rect
      /\ views \in [Views -> josh_view \cup {None}]
  BY LiveView DEF IInv, ViewsSound
<1>2. s \in josh_window_state /\ s.maximised = FALSE
  <2>1. zone \in josh_snap_zone \ {"NONE"} /\ zone # "MAXIMISE"
    BY DEF josh_snap_zone
  <2>2. s \in josh_window_state /\ s.maximised = (zone = "MAXIMISE")
    BY <1>1, <2>1, SnapState
  <2> QED BY <2>1, <2>2, Zenon
<1>3. views' = [views EXCEPT ![v] = n] /\ own' = [own EXCEPT ![v] = None]
  BY <1>1, Zenon DEF SnapKey, Tell, SetState
<1> HIDE DEF s
<1>4. r \in josh_view /\ Sound(r, None) /\ LooksLike(r, views[v])
  BY <1>1, <1>2, NewState, Zenon
<1> HIDE DEF r
<1>5. n \in josh_view /\ Sound(n, None) /\ LooksLike(n, r)
  BY <1>4, ToldView
<1> HIDE DEF n
<1>6. LooksLike(n, views[v])
  BY <1>4, <1>5 DEF LooksLike
<1> QED BY <1>3, <1>5, <1>6, OneView, Zenon

\* handle_keybinding.
LEMMA ShortcutKeeps ==
  ASSUME IInv, NEW key, Shortcut(key)
  PROVE  ViewsSound(views', own') /\ SameLook(views, views')
<1>1. PICK v \in Live :
        \/ /\ key = "Up"
           /\ LET s == views[v].state
                  state == IF s.maximised THEN s
                           ELSE josh_window_toggle_maximise(s, desktop)
              IN /\ views' = Tell(Tell(SetState(views, v, state), v, "maximised", TRUE),
                                  v, "tiled", "none")
                 /\ own' = IF s.maximised THEN own ELSE [own EXCEPT ![v] = s.geometry]
        \/ views[v].state.maximised /\ Toggle(v, FALSE)
        \/ SnapKey(v, "LEFT") \/ SnapKey(v, "RIGHT")
  BY Zenon DEF Shortcut
<1>2. /\ v \in Views /\ views[v] \in josh_view /\ Sound(views[v], own[v])
      /\ views[v].state \in josh_window_state /\ desktop \in josh_rect
      /\ views[v] # None /\ views \in [Views -> josh_view \cup {None}]
  BY LiveView DEF IInv, ViewsSound
<1> DEFINE s == views[v].state
           state == IF s.maximised THEN s ELSE josh_window_toggle_maximise(s, desktop)
           r == [views[v] EXCEPT !.state = state, !.told.maximised = TRUE]
           n == [r EXCEPT !.told["tiled"] = "none"]
           q == IF s.maximised THEN own[v] ELSE s.geometry
<1>3. CASE /\ views' = Tell(Tell(SetState(views, v, state), v, "maximised", TRUE),
                            v, "tiled", "none")
           /\ own' = IF s.maximised THEN own ELSE [own EXCEPT ![v] = s.geometry]
  <2>1. views' = [views EXCEPT ![v] = n]
    BY <1>2, <1>3, Zenon DEF Tell, SetState
  <2>2. own' = [own EXCEPT ![v] = q] \/ (own' = own /\ q = own[v])
    BY <1>3, Zenon
  <2>3. state \in josh_window_state /\ state.maximised = TRUE
    BY <1>2, ToggleState DEF josh_window_state
  <2>4. q # None => state.maximised /\ state.has_previous /\ state.previous = q
    <3>1. CASE s.maximised
      BY <1>2, <2>3, <3>1 DEF Sound
    <3>2. CASE ~s.maximised
      BY <1>2, <2>3, <3>2, ToggleState
    <3> QED BY <3>1, <3>2, Zenon
  <2> HIDE DEF state, q, s
  <2>5. r \in josh_view /\ Sound(r, q) /\ LooksLike(r, views[v])
    BY <1>2, <2>3, <2>4, NewState, Zenon
  <2> HIDE DEF r
  <2>6. n \in josh_view /\ Sound(n, q) /\ LooksLike(n, r)
    BY <2>5, ToldView
  <2> HIDE DEF n
  <2>7. LooksLike(n, views[v])
    BY <2>5, <2>6 DEF LooksLike
  <2> QED BY <2>1, <2>2, <2>6, <2>7, OneView, Zenon
<1>4. CASE views[v].state.maximised /\ Toggle(v, FALSE)
  BY <1>4, ToggleKeeps, Zenon
<1>5. CASE SnapKey(v, "LEFT") \/ SnapKey(v, "RIGHT")
  BY <1>5, SnapKeyKeeps
<1> QED BY <1>1, <1>3, <1>4, <1>5, Zenon

\* Handlers that change neither the views nor the grab.
LEMMA OthersKeep ==
  ASSUME IInv, UNCHANGED <<views, own, grabVars>>,
         cursor' \in Points, desktop' \in Desktops,
         next_view_offset' = next_view_offset
  PROVE  IInv'
<1>1. WorldOK'
  BY DEF IInv, WorldOK, grabVars
<1>2. ViewsSound(views', own') /\ GrabSound(views)'
  BY DEF IInv, GrabSound, grabVars
<1> QED BY <1>1, <1>2 DEF IInv

\* Requests and shortcuts leave the grab and the world alone.
LEMMA RequestsKeep ==
  ASSUME IInv, UNCHANGED <<grabVars, worldVars>>,
         ViewsSound(views', own'), SameLook(views, views')
  PROVE  IInv'
<1>1. WorldOK'
  BY DEF IInv, WorldOK, grabVars, worldVars
<1>2. GrabSound(views)'
  BY LookIsLife, GrabKept DEF grabVars
<1> QED BY <1>1, <1>2 DEF IInv

\* Every event of a client keeps the invariant.
LEMMA ClientIInv ==
  ASSUME IInv, NEW v \in Views, ClientStep(v)
  PROVE  IInv'
<1>1. CASE NewToplevel(v)
  BY <1>1, NewToplevelKeeps
<1>2. CASE Unmap(v)
  BY <1>2, UnmapKeeps
<1>3. CASE \E size \in ClientSizes : Map(v, size)
  BY <1>3, MapKeeps
<1>4. CASE Destroy(v, FALSE) \/ Destroy(v, TRUE)
  BY <1>4, DestroyKeeps, Zenon
<1>5. CASE Begin(v, "MOVE", {})
  BY <1>5, BeginKeeps
<1>6. CASE \E e \in EdgeSets : Begin(v, "RESIZE", e)
  BY <1>6, BeginKeeps
<1>7. CASE \E r \in BOOLEAN : RequestMaximize(v, r)
  <2>1. PICK r \in BOOLEAN : RequestMaximize(v, r)
    BY <1>7
  <2>2. UNCHANGED <<grabVars, worldVars>>
    BY <2>1 DEF RequestMaximize
  <2> QED BY <2>1, <2>2, MaximizeKeeps, RequestsKeep
<1>8. CASE \E r \in BOOLEAN : RequestFullscreen(v, r)
  <2>1. PICK r \in BOOLEAN : RequestFullscreen(v, r)
    BY <1>8
  <2>2. UNCHANGED <<grabVars, worldVars>>
    BY <2>1, Zenon DEF RequestFullscreen
  <2> QED BY <2>1, <2>2, FullscreenKeeps, RequestsKeep
<1>9. CASE RequestMinimize(v)
  BY <1>9, OthersKeep DEF RequestMinimize, vars, worldVars, IInv, WorldOK
<1> QED
  BY <1>1, <1>2, <1>3, <1>4, <1>5, <1>6, <1>7, <1>8, <1>9, Zenon DEF ClientStep

\* Every event of the user and the devices keeps it.
LEMMA UserIInv ==
  ASSUME IInv, UserStep
  PROVE  IInv'
<1>1. CASE \E p \in Points : MotionGrabbed(p)
  BY <1>1, MotionKeeps
<1>2. CASE \E p \in Points, u \in Under : MotionFree(p, u)
  BY <1>2, OthersKeep, Zenon DEF MotionFree, IInv, WorldOK
<1>3. CASE \E u \in Under : Press(u)
  BY <1>3, PressKeeps
<1>4. CASE Release
  BY <1>4, ReleaseKeeps
<1>5. CASE \E key \in Keys : Shortcut(key)
  <2>1. PICK key \in Keys : Shortcut(key)
    BY <1>5
  <2>2. UNCHANGED <<grabVars, worldVars>>
    BY <2>1 DEF Shortcut
  <2> QED BY <2>1, <2>2, ShortcutKeeps, RequestsKeep
<1>6. CASE \E k \in Keyboards : NewKeyboard(k) \/ KeyTyped(k) \/ KeyboardGone(k)
  BY <1>6, OthersKeep
     DEF NewKeyboard, KeyTyped, KeyboardGone, worldVars, IInv, WorldOK
<1>7. CASE \E d \in Desktops : OutputsChange(d)
  BY <1>7, OthersKeep, Zenon DEF OutputsChange, IInv, WorldOK
<1> QED
  BY <1>1, <1>2, <1>3, <1>4, <1>5, <1>6, <1>7 DEF UserStep

\* The invariant is inductive.
LEMMA NextIInv == IInv /\ [Next]_vars => IInv'
<1> SUFFICES ASSUME IInv, [Next]_vars PROVE IInv'
  OBVIOUS
<1>1. CASE \E v \in Views : ClientStep(v)
  BY <1>1, ClientIInv
<1>2. CASE \E f \in {Orphan} \cup Views \X {"child"} : SurfaceGone(f)
  BY <1>2, OthersKeep DEF SurfaceGone, worldVars, IInv, WorldOK
<1>3. CASE UserStep
  BY <1>3, UserIInv
<1>4. CASE UNCHANGED vars
  BY <1>4, OthersKeep DEF vars, worldVars, IInv, WorldOK
<1> QED BY <1>1, <1>2, <1>3, <1>4 DEF Next

\* The invariant holds throughout every run of the compositor.
LEMMA AlwaysIInv == Spec => []IInv
BY InitIInv, NextIInv, PTL DEF Spec

-----------------------------------------------------------------------------
\* handle_view_destroy never frees the grabbed view when it was mapped as the
\* grab began, however many views, grabs and buttons there are.
THEOREM NoFreedGrab == Spec => []GrabOnLiveView
<1>1. IInv => GrabOnLiveView
  BY ValuesAssumption DEF IInv, GrabSound, GrabOnLiveView
<1> QED BY <1>1, AlwaysIInv, PTL

\* Every handler that maximises, restores, snaps or makes a view fullscreen
\* tells its client so, for every arrangement of outputs.
THEOREM ClientsKnowTheirState == Spec => []ClientsToldState
<1>1. IInv => ClientsToldState
  BY DEF IInv, ViewsSound, Sound, ClientsToldState, Live
<1> QED BY <1>1, AlwaysIInv, PTL

\* Unless it is snapped or made fullscreen, a maximised view can return to
\* where josh_window_toggle_maximise found it, for all geometries and outputs.
THEOREM MaximisedKeepsItsPlace == Spec => []RestoresOwnPlace
<1>1. IInv => RestoresOwnPlace
  BY DEF IInv, ViewsSound, Sound, RestoresOwnPlace, Live
<1> QED BY <1>1, AlwaysIInv, PTL
-----------------------------------------------------------------------------
\* The stack and the focus.  The tree holds every live view once; no dead
\* view has the keys; and a live one that has them, mapped or not, is active
\* and above every other mapped view: a view that lost its buffer keeps the
\* keys, and handle_view_map does not raise it again.
Once(nodes) == \A i, j \in DOMAIN nodes : nodes[i] = nodes[j] => i = j
Has(nodes, v) == \E i \in DOMAIN nodes : nodes[i] = v
Above(nodes, v, S) ==
  \A i, j \in DOMAIN nodes : (nodes[i] = v /\ nodes[j] \in S \ {v}) => j < i

StackOK ==
  /\ stack \in Seq(Views) /\ Once(stack)
  /\ \A v \in Views : views[v] # None <=> Has(stack, v)

FocusOK ==
  \A v \in Views, part \in {"main", "child"} : kfocus = <<v, part>> =>
    /\ views[v] # None
    /\ ~blind => views[v].told.activated /\ Above(stack, v, Mapped)

FocusInv == StackOK /\ FocusOK

\* Taking a node out leaves the others once, in their order.
LEMMA WithoutKeeps ==
  ASSUME NEW S, NEW nodes \in Seq(S), Once(nodes), NEW v, Has(nodes, v)
  PROVE  /\ Without(nodes, v) \in Seq(S) /\ Once(Without(nodes, v))
         /\ \A w : Has(Without(nodes, v), w) <=> Has(nodes, w) /\ w # v
         /\ \A w, M : Above(nodes, w, M) => Above(Without(nodes, v), w, M)
<1> DEFINE at == CHOOSE i \in DOMAIN nodes : nodes[i] = v
           n == Len(nodes)
           Was(i) == IF i < at THEN i ELSE i + 1
           rest == [i \in 1..(n - 1) |-> IF i < at THEN nodes[i] ELSE nodes[i + 1]]
<1>1. n \in Nat /\ DOMAIN nodes = 1..n /\ \A i \in 1..n : nodes[i] \in S
  OBVIOUS
<1>2. at \in 1..n /\ nodes[at] = v
  BY <1>1 DEF Has
<1>3. Without(nodes, v) = rest
  BY DEF Without
<1> HIDE DEF at, n
<1>4. \A i \in 1..(n - 1) : /\ Was(i) \in 1..n /\ Was(i) # at
                            /\ rest[i] = nodes[Was(i)]
  BY <1>1, <1>2
<1>5. \A i, j \in 1..(n - 1) : Was(i) < Was(j) => i < j
  BY <1>1, <1>2
<1>6. \A i, j \in 1..(n - 1) : Was(i) = Was(j) => i = j
  BY <1>1, <1>2
<1>7. \A k \in 1..n : k # at => \E i \in 1..(n - 1) : Was(i) = k
  <2> SUFFICES ASSUME NEW k \in 1..n, k # at
               PROVE  \E i \in 1..(n - 1) : Was(i) = k
    OBVIOUS
  <2> DEFINE i == IF k < at THEN k ELSE k - 1
  <2>1. i \in 1..(n - 1) /\ Was(i) = k
    BY <1>1, <1>2
  <2> QED BY <2>1
<1>8. DOMAIN rest = 1..(n - 1)
  OBVIOUS
<1>9. rest \in Seq(S)
  <2>1. n - 1 \in Nat
    BY <1>1, <1>2
  <2>2. \A i \in 1..(n - 1) : rest[i] \in S
    BY <1>1, <1>4
  <2>3. rest = [i \in 1..(n - 1) |-> rest[i]]
    OBVIOUS
  <2> HIDE DEF rest
  <2>4. rest \in [1..(n - 1) -> S]
    BY <2>2, <2>3
  <2> QED BY <2>1, <2>4
<1> HIDE DEF rest, Was
<1>10. Once(rest)
  BY <1>1, <1>4, <1>6, <1>8 DEF Once
<1>11. ASSUME NEW w PROVE Has(rest, w) <=> Has(nodes, w) /\ w # v
  <2>1. ASSUME Has(rest, w) PROVE Has(nodes, w) /\ w # v
    BY <1>1, <1>2, <1>4, <1>8, <2>1 DEF Has, Once
  <2>2. ASSUME Has(nodes, w), w # v PROVE Has(rest, w)
    BY <1>1, <1>2, <1>4, <1>7, <1>8, <2>2, Zenon DEF Has
  <2> QED BY <2>1, <2>2
<1>12. ASSUME NEW w, NEW M, Above(nodes, w, M) PROVE Above(rest, w, M)
  BY <1>1, <1>4, <1>5, <1>8, <1>12 DEF Above
<1> QED BY <1>3, <1>9, <1>10, <1>11, <1>12

\* A node put on top of others it is not among.
LEMMA OnTop ==
  ASSUME NEW S, NEW nodes \in Seq(S), Once(nodes), NEW v \in S, ~Has(nodes, v)
  PROVE  LET top == Append(nodes, v)
         IN /\ top \in Seq(S) /\ Once(top)
            /\ \A w : Has(top, w) <=> Has(nodes, w) \/ w = v
            /\ \A M : Above(top, v, M)
            /\ \A w, M : w # v /\ v \notin M /\ Above(nodes, w, M) => Above(top, w, M)
<1> DEFINE n == Len(nodes)
           top == Append(nodes, v)
<1>1. n \in Nat /\ DOMAIN nodes = 1..n
  OBVIOUS
<1>2. /\ top \in Seq(S) /\ DOMAIN top = 1..(n + 1) /\ top[n + 1] = v
      /\ \A i \in 1..n : top[i] = nodes[i]
  OBVIOUS
<1>3. \A i \in 1..(n + 1) : i \in 1..n \/ i = n + 1
  BY <1>1
<1>4. n + 1 \in 1..(n + 1) /\ 1..n \subseteq 1..(n + 1) /\ \A i \in 1..n : i < n + 1
  BY <1>1
<1> HIDE DEF n, top
<1>5. \A i \in 1..n : nodes[i] # v
  BY <1>1 DEF Has
<1>6. Once(top)
  BY <1>1, <1>2, <1>3, <1>5 DEF Once
<1>7. \A w : Has(top, w) <=> Has(nodes, w) \/ w = v
  BY <1>1, <1>2, <1>3, <1>4 DEF Has
<1>8. \A M : Above(top, v, M)
  BY <1>1, <1>2, <1>3, <1>4, <1>5 DEF Above
<1>9. ASSUME NEW w, NEW M, w # v, v \notin M, Above(nodes, w, M)
      PROVE  Above(top, w, M)
  BY <1>1, <1>2, <1>3, <1>9 DEF Above
<1> QED BY <1>2, <1>6, <1>7, <1>8, <1>9 DEF top

\* A smaller set of others, or one that gains only the view itself.
LEMMA AboveFewer ==
  ASSUME NEW nodes, NEW v, NEW M, NEW N, Above(nodes, v, M), N \subseteq M \cup {v}
  PROVE  Above(nodes, v, N)
BY DEF Above

\* The seat's names for no surface are no surface of a view.
LEMMA NoSurface ==
  ASSUME NEW v \in Views, NEW part \in {"main", "child"}
  PROVE  None # <<v, part>> /\ Orphan # <<v, part>>
BY ValuesAssumption

\* A step that raises nothing, gives the keys to no one and maps no view.
LEMMA QuietStep ==
  ASSUME FocusInv, Quieter(views, views'), UNCHANGED <<stack, blind>>,
         kfocus' \in {kfocus, None}
  PROVE  FocusInv'
<1>1. Mapped' \subseteq Mapped
  BY DEF Quieter, Mapped, Live
<1>2. StackOK'
  BY DEF FocusInv, StackOK, Quieter
<1>3. ASSUME NEW v \in Views, NEW part \in {"main", "child"}, kfocus' = <<v, part>>
      PROVE  /\ views'[v] # None
             /\ ~blind' => views'[v].told.activated /\ Above(stack', v, Mapped')
  <2>1. kfocus = <<v, part>>
    BY <1>3, NoSurface
  <2>2. views[v] # None /\ (~blind => views[v].told.activated /\ Above(stack, v, Mapped))
    BY <2>1 DEF FocusInv, FocusOK
  <2>3. views'[v] # None /\ views'[v].told.activated = views[v].told.activated
    BY <2>2 DEF Quieter
  <2>4. ~blind => Above(stack, v, Mapped')
    BY <1>1, <2>2, AboveFewer
  <2> QED BY <2>2, <2>3, <2>4
<1>4. FocusOK'
  BY <1>3 DEF FocusOK
<1> QED BY <1>2, <1>4 DEF FocusInv

LEMMA LookIsQuiet ==
  ASSUME NEW vs, NEW us, SameLook(vs, us)
  PROVE  Quieter(vs, us)
BY DEF SameLook, Quieter, LooksLike

\* focus_view, called for a view that may just have been mapped.
LEMMA FocusStep ==
  ASSUME FocusInv, NEW vs, ViewsSound(vs, own), NEW v \in Views, views[v] # None,
         NEW part, FocusView(vs, v, part),
         \A w \in Views : /\ views[w] = None <=> vs[w] = None
                          /\ views[w] # None =>
                               /\ vs[w].told.activated = views[w].told.activated
                               /\ vs[w].mapped => views[w].mapped \/ w = v
  PROVE  FocusInv'
<1>1. \A w \in Live : vs[w] # None
  BY DEF Live
<1>2. /\ ViewsSound(views', own) /\ SameLife(vs, views')
      /\ vs[v].mapped /\ kfocus # <<v, part>> => views'[v].told.activated
  BY <1>1, FocusKeeps
<1>3. Mapped' \subseteq Mapped \cup {v}
  BY <1>2, Zenon DEF Mapped, Live, SameLife
<1>4. \A w \in Views : views[w] = None <=> views'[w] = None
  BY <1>2 DEF SameLife
<1>5. CASE ~vs[v].mapped \/ kfocus = <<v, part>>
  <2>1. views' = vs /\ UNCHANGED <<stack, kfocus, blind>>
    BY <1>5 DEF FocusView
  <2>2. StackOK'
    BY <1>4, <2>1 DEF FocusInv, StackOK
  <2>3. ASSUME NEW w \in Views, NEW p \in {"main", "child"}, kfocus' = <<w, p>>
        PROVE  /\ views'[w] # None
               /\ ~blind' => views'[w].told.activated /\ Above(stack', w, Mapped')
    <3>1. views[w] # None /\ (~blind => views[w].told.activated /\ Above(stack, w, Mapped))
      BY <2>1, <2>3, Zenon DEF FocusInv, FocusOK
    <3>2. views'[w] # None /\ views'[w].told.activated = views[w].told.activated
      BY <2>1, <3>1
    <3>3. Mapped' \subseteq Mapped \cup {w}
      <4>1. CASE kfocus = <<v, part>>
        <5>1. <<v, part>> = <<w, p>>
          BY <2>1, <2>3, <4>1, Zenon
        <5>2. v = w
          BY <5>1
        <5> QED BY <1>3, <5>2
      <4>2. CASE ~vs[v].mapped
        BY <1>3, <2>1, <4>2 DEF Mapped
      <4> QED BY <1>5, <4>1, <4>2
    <3>4. ~blind => Above(stack, w, Mapped')
      BY <3>1, <3>3, AboveFewer
    <3> QED BY <2>1, <3>1, <3>2, <3>4, Zenon
  <2>4. FocusOK'
    BY <2>3 DEF FocusOK
  <2> QED BY <2>2, <2>4 DEF FocusInv
<1>6. CASE vs[v].mapped /\ kfocus # <<v, part>>
  <2> DEFINE rest == Without(stack, v)
  <2>1. /\ stack' = Append(rest, v) /\ blind' = (seatkb = None)
        /\ kfocus' = IF seatkb # None THEN <<v, part>> ELSE kfocus
    BY <1>6 DEF FocusView
  <2>2. stack \in Seq(Views) /\ Once(stack) /\ Has(stack, v)
    BY DEF FocusInv, StackOK
  <2>3. /\ rest \in Seq(Views) /\ Once(rest)
        /\ \A w : Has(rest, w) <=> Has(stack, w) /\ w # v
    BY <2>2, WithoutKeeps, Zenon
  <2> HIDE DEF rest
  <2> DEFINE top == Append(rest, v)
  <2>8. /\ top \in Seq(Views) /\ Once(top)
        /\ \A w : Has(top, w) <=> Has(rest, w) \/ w = v
        /\ \A M : Above(top, v, M)
    BY <2>3, OnTop
  <2>9. stack' = top
    BY <2>1
  <2> HIDE DEF top
  <2>4. /\ stack' \in Seq(Views) /\ Once(stack')
        /\ \A w : Has(stack', w) <=> Has(rest, w) \/ w = v
        /\ Above(stack', v, Mapped')
    BY ONLY <2>8, <2>9
  <2>5. StackOK'
    BY <1>4, <2>2, <2>3, <2>4, Zenon DEF FocusInv, StackOK
  <2>6. ASSUME NEW w \in Views, NEW p \in {"main", "child"}, kfocus' = <<w, p>>
        PROVE  /\ views'[w] # None
               /\ ~blind' => views'[w].told.activated /\ Above(stack', w, Mapped')
    <3>1. CASE seatkb # None
      <4>1. <<v, part>> = <<w, p>>
        BY <2>1, <2>6, <3>1
      <4>2. v = w
        BY <4>1
      <4>3. views'[v] # None /\ views'[v].told.activated /\ Above(stack', v, Mapped')
        BY <1>2, <1>4, <1>6, <2>4, Zenon
      <4> QED BY <4>2, <4>3, Zenon
    <3>2. CASE seatkb = None
      BY <1>4, <2>1, <2>6, <3>2, Zenon DEF FocusInv, FocusOK
    <3> QED BY <3>1, <3>2
  <2>7. FocusOK'
    BY <2>6 DEF FocusOK
  <2> QED BY <2>5, <2>7 DEF FocusInv
<1> QED BY <1>5, <1>6

\* handle_new_toplevel puts the new view on top, not mapped.
LEMMA NewToplevelFocus ==
  ASSUME IInv, FocusInv, NEW v \in Views, NewToplevel(v)
  PROVE  FocusInv'
<1>1. /\ views[v] = None /\ stack' = Append(stack, v) /\ UNCHANGED <<kfocus, blind>>
  BY DEF NewToplevel, seatVars
<1>2. /\ \A w \in Views \ {v} : views'[w] = views[w]
      /\ views'[v] # None /\ ~views'[v].mapped
  BY NewToplevelKeeps
<1>3. stack \in Seq(Views) /\ Once(stack) /\ ~Has(stack, v)
  BY <1>1 DEF FocusInv, StackOK
<1>4. /\ stack' \in Seq(Views) /\ Once(stack')
      /\ \A w : Has(stack', w) <=> Has(stack, w) \/ w = v
      /\ \A w, M : w # v /\ v \notin M /\ Above(stack, w, M) => Above(stack', w, M)
  BY <1>1, <1>3, OnTop
<1>5. StackOK'
  BY <1>2, <1>4 DEF FocusInv, StackOK
<1>6. Mapped' \subseteq Mapped /\ v \notin Mapped'
  BY <1>2 DEF Mapped, Live
<1>7. ASSUME NEW w \in Views, NEW p \in {"main", "child"}, kfocus' = <<w, p>>
      PROVE  /\ views'[w] # None
             /\ ~blind' => views'[w].told.activated /\ Above(stack', w, Mapped')
  <2>1. views[w] # None /\ (~blind => views[w].told.activated /\ Above(stack, w, Mapped))
    BY <1>1, <1>7 DEF FocusInv, FocusOK
  <2>2. w # v /\ views'[w] = views[w]
    BY <1>1, <1>2, <2>1
  <2>3. ~blind => Above(stack, w, Mapped')
    BY <1>6, <2>1, AboveFewer
  <2> QED BY <1>1, <1>4, <1>6, <2>1, <2>2, <2>3
<1>8. FocusOK'
  BY <1>7 DEF FocusOK
<1> QED BY <1>5, <1>8 DEF FocusInv

\* handle_view_map focuses the view it maps.
LEMMA MapFocus ==
  ASSUME IInv, FocusInv, NEW v \in Views, NEW size \in ClientSizes, Map(v, size)
  PROVE  FocusInv'
<1>1. views[v] # None
  BY DEF Map, Live
<1>2. PICK r \in josh_view : /\ Sound(r, own[v]) /\ r.mapped /\ r.told = views[v].told
                             /\ FocusView([views EXCEPT ![v] = r], v, "main")
  BY MapView, Zenon
<1> DEFINE vs == [views EXCEPT ![v] = r]
<1>3. ViewsSound(vs, own)
  BY <1>2, ReplaceView DEF IInv
<1>4. \A w \in Views : /\ views[w] = None <=> vs[w] = None
                       /\ views[w] # None =>
                            /\ vs[w].told.activated = views[w].told.activated
                            /\ vs[w].mapped => views[w].mapped \/ w = v
  BY <1>1, <1>2, ValuesAssumption DEF IInv, ViewsSound
<1>5. FocusView(vs, v, "main")
  BY <1>2
<1> HIDE DEF vs
<1> QED BY <1>1, <1>3, <1>4, <1>5, FocusStep

\* A button pressed over a view focuses it.
LEMMA PressFocus ==
  ASSUME IInv, FocusInv, NEW under \in Under, Press(under)
  PROVE  FocusInv'
<1>1. CASE under = None
  <2>1. UNCHANGED <<views, stack, kfocus, blind>>
    BY <1>1 DEF Press
  <2>2. Quieter(views, views')
    BY <2>1 DEF Quieter
  <2> QED BY <2>1, <2>2, QuietStep
<1>2. CASE under # None
  <2>1. under[1] \in Views /\ views[under[1]] # None
    BY <1>2 DEF Under, Mapped, Live
  <2>2. FocusView(views, under[1], under[2])
    BY <1>2 DEF Press
  <2>3. ViewsSound(views, own)
    BY DEF IInv
  <2> QED BY <2>1, <2>2, <2>3, FocusStep
<1> QED BY <1>1, <1>2

\* handle_view_destroy takes the node out of the tree, and the keys away.
LEMMA DestroyFocus ==
  ASSUME IInv, FocusInv, NEW v \in Views, NEW keeps, Destroy(v, keeps)
  PROVE  FocusInv'
<1>1. /\ views[v] # None /\ views' = [views EXCEPT ![v] = None]
      /\ stack' = Without(stack, v) /\ blind' = blind
      /\ kfocus' = IF kfocus \notin {<<v, "main">>, <<v, "child">>} THEN kfocus
                   ELSE IF keeps THEN Orphan ELSE None
  BY DEF Destroy, Live
<1>2. views'[v] = None /\ \A w \in Views \ {v} : views'[w] = views[w]
  BY <1>1 DEF IInv, ViewsSound
<1>3. stack \in Seq(Views) /\ Once(stack) /\ Has(stack, v)
  BY <1>1 DEF FocusInv, StackOK
<1>4. /\ stack' \in Seq(Views) /\ Once(stack')
      /\ \A w : Has(stack', w) <=> Has(stack, w) /\ w # v
      /\ \A w, M : Above(stack, w, M) => Above(stack', w, M)
  BY <1>1, <1>3, WithoutKeeps, Zenon
<1>5. StackOK'
  BY <1>2, <1>4, Zenon DEF FocusInv, StackOK
<1>6. Mapped' \subseteq Mapped
  BY <1>2 DEF Mapped, Live
<1>7. ASSUME NEW w \in Views, NEW p \in {"main", "child"}, kfocus' = <<w, p>>
      PROVE  /\ views'[w] # None
             /\ ~blind' => views'[w].told.activated /\ Above(stack', w, Mapped')
  <2>1. kfocus = <<w, p>> /\ w # v
    BY <1>1, <1>7, NoSurface
  <2>2. views[w] # None /\ (~blind => views[w].told.activated /\ Above(stack, w, Mapped))
    BY <2>1 DEF FocusInv, FocusOK
  <2>3. ~blind => Above(stack, w, Mapped')
    BY <1>6, <2>2, AboveFewer
  <2> QED BY <1>1, <1>2, <1>4, <2>1, <2>2, <2>3, Zenon
<1>8. FocusOK'
  BY <1>7 DEF FocusOK
<1> QED BY <1>5, <1>8 DEF FocusInv

\* Every event of a client keeps the focused view on top.
LEMMA ClientFocus ==
  ASSUME IInv, FocusInv, NEW v \in Views, ClientStep(v)
  PROVE  FocusInv'
<1>1. CASE NewToplevel(v)
  BY <1>1, NewToplevelFocus
<1>2. CASE Unmap(v)
  <2>1. UNCHANGED <<stack, kfocus, blind>>
    BY <1>2 DEF Unmap, seatVars
  <2> QED BY <1>2, <2>1, UnmapKeeps, QuietStep
<1>3. CASE \E size \in ClientSizes : Map(v, size)
  BY <1>3, MapFocus
<1>4. CASE Destroy(v, FALSE) \/ Destroy(v, TRUE)
  BY <1>4, DestroyFocus, Zenon
<1>5. CASE \E e : \E m \in {"MOVE", "RESIZE"} : Begin(v, m, e)
  <2>1. PICK e : \E m \in {"MOVE", "RESIZE"} : Begin(v, m, e)
    BY <1>5
  <2>2. PICK m \in {"MOVE", "RESIZE"} : Begin(v, m, e)
    BY <2>1
  <2>3. UNCHANGED <<stack, kfocus, blind>>
    BY <2>2, Zenon DEF Begin, seatVars
  <2>4. Quieter(views, views')
    BY <2>2, BeginKeeps, LookIsQuiet
  <2> QED BY <2>3, <2>4, QuietStep
<1>6. CASE \E r \in BOOLEAN : RequestMaximize(v, r)
  <2>1. PICK r \in BOOLEAN : RequestMaximize(v, r)
    BY <1>6
  <2>2. UNCHANGED <<stack, kfocus, blind>>
    BY <2>1 DEF RequestMaximize, seatVars
  <2>3. Quieter(views, views')
    BY <2>1, MaximizeKeeps, LookIsQuiet
  <2> QED BY <2>2, <2>3, QuietStep
<1>7. CASE \E r \in BOOLEAN : RequestFullscreen(v, r)
  <2>1. PICK r \in BOOLEAN : RequestFullscreen(v, r)
    BY <1>7
  <2>2. UNCHANGED <<stack, kfocus, blind>>
    BY <2>1, Zenon DEF RequestFullscreen, seatVars
  <2>3. Quieter(views, views')
    BY <2>1, FullscreenKeeps, LookIsQuiet
  <2> QED BY <2>2, <2>3, QuietStep
<1>8. CASE RequestMinimize(v)
  <2>1. UNCHANGED <<views, stack, kfocus, blind>>
    BY <1>8 DEF RequestMinimize, vars, seatVars
  <2>2. Quieter(views, views')
    BY <2>1 DEF Quieter
  <2> QED BY <2>1, <2>2, QuietStep
<1> QED BY <1>1, <1>2, <1>3, <1>4, <1>5, <1>6, <1>7, <1>8, Zenon DEF ClientStep

\* Every event of the user and the devices does.
LEMMA UserFocus ==
  ASSUME IInv, FocusInv, UserStep
  PROVE  FocusInv'
<1>1. CASE \E p \in Points : MotionGrabbed(p)
  <2>1. PICK p \in Points : MotionGrabbed(p)
    BY <1>1
  <2>2. UNCHANGED <<stack, kfocus, blind>>
    BY <2>1 DEF MotionGrabbed, seatVars
  <2>3. Quieter(views, views')
    BY <2>1, MotionKeeps, LookIsQuiet
  <2> QED BY <2>2, <2>3, QuietStep
<1>2. CASE \E u \in Under : Press(u)
  BY <1>2, PressFocus
<1>3. CASE Release
  <2>1. UNCHANGED <<stack, kfocus, blind>>
    BY <1>3 DEF Release
  <2>2. Quieter(views, views')
    BY <1>3, ReleaseKeeps, LookIsQuiet
  <2> QED BY <2>1, <2>2, QuietStep
<1>4. CASE \E key \in Keys : Shortcut(key)
  <2>1. PICK key \in Keys : Shortcut(key)
    BY <1>4
  <2>2. UNCHANGED <<stack, kfocus, blind>>
    BY <2>1, Zenon DEF Shortcut, seatVars
  <2>3. Quieter(views, views')
    BY <2>1, ShortcutKeeps, LookIsQuiet
  <2> QED BY <2>2, <2>3, QuietStep
<1>5. CASE \/ \E p \in Points, u \in Under : MotionFree(p, u)
           \/ \E k \in Keyboards : NewKeyboard(k) \/ KeyTyped(k) \/ KeyboardGone(k)
           \/ \E d \in Desktops : OutputsChange(d)
  <2>1. UNCHANGED <<views, stack, kfocus, blind>>
    BY <1>5, Zenon DEF MotionFree, NewKeyboard, KeyTyped, KeyboardGone, OutputsChange, seatVars
  <2>2. Quieter(views, views')
    BY <2>1 DEF Quieter
  <2> QED BY <2>1, <2>2, QuietStep
<1> QED BY <1>1, <1>2, <1>3, <1>4, <1>5 DEF UserStep

LEMMA NextFocus == IInv /\ FocusInv /\ [Next]_vars => FocusInv'
<1> SUFFICES ASSUME IInv, FocusInv, [Next]_vars PROVE FocusInv'
  OBVIOUS
<1>1. CASE \E v \in Views : ClientStep(v)
  BY <1>1, ClientFocus
<1>2. CASE \/ \E f \in {Orphan} \cup Views \X {"child"} : SurfaceGone(f)
           \/ UNCHANGED vars
  <2>1. UNCHANGED <<views, stack, blind>> /\ kfocus' \in {kfocus, None}
    BY <1>2 DEF SurfaceGone, vars, seatVars
  <2>2. Quieter(views, views')
    BY <2>1 DEF Quieter
  <2> QED BY <2>1, <2>2, QuietStep
<1>3. CASE UserStep
  BY <1>3, UserFocus
<1> QED BY <1>1, <1>2, <1>3 DEF Next

LEMMA AlwaysFocusInv == Spec => []FocusInv
<1>1. Init => FocusInv
  <2> SUFFICES ASSUME Init PROVE FocusInv
    OBVIOUS
  <2>1. StackOK
    BY DEF Init, StackOK, Once, Has
  <2>2. FocusOK
    BY NoSurface DEF Init, FocusOK
  <2> QED BY <2>1, <2>2 DEF FocusInv
<1> QED BY <1>1, AlwaysIInv, NextFocus, PTL DEF Spec

\* Safety.  While every focus change found a keyboard, the mapped view that
\* gets the keys is above the other mapped views and knows it is active.
THEOREM FocusedOnTop == Spec => []FocusedIsTopAndActive
<1>1. FocusInv => FocusedIsTopAndActive
  BY DEF FocusInv, FocusOK, FocusedIsTopAndActive, Above, Mapped, Live
<1> QED BY <1>1, AlwaysFocusInv, PTL
=============================================================================
