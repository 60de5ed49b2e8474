------------------------------ MODULE Drawing ------------------------------
(***************************************************************************)
(* What a drawable rectangle promises, independent of how it stores its    *)
(* settings: it has a geometry, an optional fill colour, a border colour   *)
(* and width, and one opacity for fill and one for border (1.0 unless the  *)
(* caller chose another).  The caller may change the settings at any       *)
(* time; drawing leaves them as they are and either fails or yields the    *)
(* picture the settings describe: the rectangle placed with its top-left   *)
(* corner at (x, y) measured from the top of the page, a border only when  *)
(* it has a colour and a positive width.                                   *)
(***************************************************************************)
EXTENDS Integers

CONSTANTS None, Coords, Lengths, BorderWidths, Opacities, Colors, Black,
          PageHeights

VARIABLES
  shape,  \* None before the rectangle exists, else its settings
  drawn   \* None, the failure, or the last picture drawn

Opaque == 100

DrawFailed == [error |-> TRUE]

Shapes ==
  [x : Coords, y : Coords, width : Lengths, height : Lengths,
   fillColor : Colors \cup {None}, borderColor : Colors \cup {Black},
   borderWidth : BorderWidths \cup {1},
   fillOpacity : Opacities \cup {Opaque}, borderOpacity : Opacities \cup {Opaque}]

\* The picture of `s` on a page of height `ph` (PDF's origin is the
\* bottom-left corner).
Picture(s, ph) ==
  [rect |-> [x |-> s.x, y |-> ph - (s.y + s.height),
             width |-> s.width, height |-> s.height, fill |-> s.fillColor,
             border |-> IF s.borderColor = None \/ s.borderWidth <= 0 THEN None
                        ELSE [color |-> s.borderColor, width |-> s.borderWidth]],
   fillOpacity |-> s.fillOpacity, borderOpacity |-> s.borderOpacity]

Init == shape = None /\ drawn = None

\* The caller creates the rectangle or changes any of its settings.
Configure ==
  /\ shape' \in Shapes
  /\ UNCHANGED drawn

\* Drawing: the settings stay, the result is the picture or a failure.
Draw ==
  /\ shape # None
  /\ UNCHANGED shape
  /\ \E ph \in PageHeights : drawn' \in {Picture(shape, ph), DrawFailed}

Spec == Init /\ [][Configure \/ Draw]_<<shape, drawn>>

=============================================================================
