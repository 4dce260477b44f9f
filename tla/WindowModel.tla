---------------------------- MODULE WindowModel ----------------------------
(***************************************************************************)
(* The window model of the compositor (window_model.c): which snap zone a  *)
(* pointer is in, the rectangle of a zone, and how maximising and snapping *)
(* change a window.  A rectangle has x, y, width and height; a window has  *)
(* its geometry, the saved one and whether it is maximised.  The minimised *)
(* flag is only ever cleared and is left out.                              *)
(***************************************************************************)
EXTENDS Integers

josh_rect == [x : Int, y : Int, width : Int, height : Int]

josh_snap_zone == {"NONE", "MAXIMISE", "LEFT", "RIGHT"}

josh_window_state == [geometry : josh_rect, previous : josh_rect,
                      has_previous : BOOLEAN, maximised : BOOLEAN]

normalised_desktop(d) ==
  [d EXCEPT !.width = IF @ < 1 THEN 1 ELSE @,
            !.height = IF @ < 1 THEN 1 ELSE @]

\* The pointer is a record with x and y.
josh_snap_zone_for(desktop, pointer, threshold) ==
  LET b == normalised_desktop(desktop)
      edge == IF threshold < 0 THEN 0 ELSE threshold
  IN CASE pointer.y <= b.y + edge -> "MAXIMISE"
       [] pointer.y > b.y + edge /\ pointer.x <= b.x + edge -> "LEFT"
       [] /\ pointer.y > b.y + edge /\ pointer.x > b.x + edge
          /\ pointer.x >= b.x + b.width - edge -> "RIGHT"
       [] OTHER -> "NONE"

\* The rectangle of a zone; "NONE" has an empty one.
josh_snap_geometry(desktop, zone) ==
  LET b == normalised_desktop(desktop)
      left == b.width \div 2
      Positive(n) == IF n < 1 THEN 1 ELSE n
  IN CASE zone = "LEFT" -> [b EXCEPT !.width = Positive(left)]
       [] zone = "RIGHT" -> [b EXCEPT !.x = b.x + left,
                                      !.width = Positive(b.width - left)]
       [] zone = "MAXIMISE" -> b
       [] OTHER -> [b EXCEPT !.width = 0, !.height = 0]

\* The faulty variant keeps a geometry saved earlier, as snapping does.
toggle_keeping_saved(w, desktop) ==
  IF w.maximised
  THEN [w EXCEPT !.geometry = w.previous, !.maximised = FALSE]
  ELSE [geometry |-> josh_snap_geometry(desktop, "MAXIMISE"),
        previous |-> IF w.has_previous THEN w.previous ELSE w.geometry,
        has_previous |-> TRUE, maximised |-> TRUE]

josh_window_toggle_maximise(w, desktop) ==
  IF w.maximised
  THEN [w EXCEPT !.geometry = IF w.has_previous THEN w.previous ELSE @,
                 !.maximised = FALSE]
  ELSE [geometry |-> josh_snap_geometry(desktop, "MAXIMISE"),
        previous |-> w.geometry, has_previous |-> TRUE, maximised |-> TRUE]

josh_window_apply_snap(w, desktop, zone) ==
  IF zone = "NONE" THEN w
  ELSE [geometry |-> josh_snap_geometry(desktop, zone),
        previous |-> IF ~w.has_previous \/ w.maximised THEN w.geometry ELSE w.previous,
        has_previous |-> TRUE,
        maximised |-> zone = "MAXIMISE"]
=============================================================================
