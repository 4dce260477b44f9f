---------------------------- MODULE MCCompositor ----------------------------
(***************************************************************************)
(* The compositor for TLC.  Two views with every geometry are too many     *)
(* states, so that a behaviour stays inside two scenes: any views, focus   *)
(* and grabs while the views have their first geometry, and any geometry   *)
(* while there is one view.                                                *)
(***************************************************************************)
EXTENDS Compositor, FiniteSets, TLC

Rect(x, y, w, h) == [x |-> x, y |-> y, width |-> w, height |-> h]
At(x, y) == [x |-> x, y |-> y]

MCFirstGeometry == Rect(2, 2, 3, 2)
MCMinSize == <<2, 1>>
SmallBox == 0..7

\* An odd width; a second desktop when outputs change.
Wide == Rect(0, 0, 7, 6)
MCDesktops == {Wide, Rect(0, 0, 3, 6)}

\* In the middle, and in the zone that maximises.
Middle == At(4, 3)
MCPoints == {Middle, At(3, 0)}

MCSizes == {<<3, 2>>}

\* The views are interchangeable.
ViewSymmetry == Permutations(Views)

FirstPlaces ==
  /\ cursor = Middle /\ desktop = Wide
  /\ \A v \in Live :
       /\ views[v].state.geometry = FirstGeometry /\ ~views[v].state.has_previous
       /\ ~views[v].fullscreen /\ views[v].told.tiled = "none"

OneView ==
  /\ Cardinality(Live) <= 1 /\ buttons <= 1 /\ grabs <= 1
  /\ keyboards = Keyboards /\ ~blind
  /\ buttons = 0 \/ desktop = Wide
  /\ {kfocus, pfocus} \cap ({Orphan} \cup Views \X {"child"}) = {}

SceneSpec == Init /\ [][Next /\ (FirstPlaces \/ OneView)']_vars
=============================================================================
