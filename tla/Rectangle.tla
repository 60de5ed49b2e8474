----------------------------- MODULE Rectangle -----------------------------
(***************************************************************************)
(* creator.Rectangle (the drawing primitive at the end of font.go): the    *)
(* rectangle's settings, its setters, and GeneratePageBlocks, which turns  *)
(* them into a draw.Rectangle on a new block.  GeneratePageBlocks writes   *)
(* the default opacities back into the rectangle before three calls that   *)
(* may each fail.                                                          *)
(*                                                                         *)
(* float64 values are integers: coordinates and lengths in points,         *)
(* opacities in hundredths (100 is 1.0).  Colours are model values; the    *)
(* Color -> PdfColorDeviceRGB conversion is a bijection, kept as the       *)
(* identity on names.                                                      *)
(***************************************************************************)
EXTENDS Integers

CONSTANTS
  None,          \* a nil *PdfColorDeviceRGB
  Coords,        \* values of x, y
  Lengths,       \* values of width and height
  BorderWidths,  \* arguments of SetBorderWidth
  Opacities,     \* arguments of SetFillOpacity / SetBorderOpacity
  Colors,        \* arguments of SetFillColor / SetBorderColor
  Black,         \* NewPdfColorDeviceRGB(0, 0, 0)
  PageHeights    \* DrawContext.PageHeight

VARIABLES
  rect,   \* the *Rectangle, or None before newRectangle
  drawn   \* what the last GeneratePageBlocks returned: None, DrawError, or
          \* the draw.Rectangle and the opacities of its graphics state

vars == <<rect, drawn>>

Opaque == 100

\* The error GeneratePageBlocks returns.
DrawError == [error |-> TRUE]

\* newRectangle: Go zero values for everything not set, a black border of
\* width 1.
NewRectangle(x, y, w, h) ==
  [x |-> x, y |-> y, width |-> w, height |-> h,
   fillColor |-> None, fillOpacityEnabled |-> FALSE, fillOpacity |-> 0,
   borderColor |-> Black, borderWidth |-> 1,
   borderOpacityEnabled |-> FALSE, borderOpacity |-> 0]

\* mutant: the border is enabled by its colour alone.
DrawRectAnyWidth(r, ph) ==
  [x |-> r.x, y |-> ph - r.y - r.height, width |-> r.width, height |-> r.height,
   fill |-> r.fillColor,
   border |-> IF r.borderColor # None
              THEN [color |-> r.borderColor, width |-> r.borderWidth]
              ELSE None]

\* The draw.Rectangle GeneratePageBlocks builds from `r` on a page of
\* height `ph`: y is flipped to the PDF origin; fill and border are enabled
\* by their colour (and a positive border width).
DrawRect(r, ph) ==
  [x |-> r.x, y |-> ph - r.y - r.height, width |-> r.width, height |-> r.height,
   fill |-> r.fillColor,
   border |-> IF r.borderColor # None /\ r.borderWidth > 0
              THEN [color |-> r.borderColor, width |-> r.borderWidth]
              ELSE None]

\* mutant: the border flag guards the fill opacity reset and vice versa.
ResetOpacitiesSwapped(r) ==
  [r EXCEPT !.fillOpacity = IF ~r.borderOpacityEnabled THEN Opaque ELSE @,
            !.borderOpacity = IF ~r.fillOpacityEnabled THEN Opaque ELSE @]

\* The writes GeneratePageBlocks makes to the rectangle itself: an opacity
\* that was never set becomes 1.0.
ResetOpacities(r) ==
  [r EXCEPT !.fillOpacity = IF ~r.fillOpacityEnabled THEN Opaque ELSE @,
            !.borderOpacity = IF ~r.borderOpacityEnabled THEN Opaque ELSE @]

-----------------------------------------------------------------------------

Init ==
  /\ rect = None
  /\ drawn = None

Create ==
  /\ rect = None
  /\ \E x, y \in Coords, w, h \in Lengths : rect' = NewRectangle(x, y, w, h)
  /\ UNCHANGED drawn

SetBorderWidth ==
  /\ rect # None
  /\ \E bw \in BorderWidths : rect' = [rect EXCEPT !.borderWidth = bw]
  /\ UNCHANGED drawn

SetBorderColor ==
  /\ rect # None
  /\ \E c \in Colors : rect' = [rect EXCEPT !.borderColor = c]
  /\ UNCHANGED drawn

SetBorderOpacity ==
  /\ rect # None
  /\ \E o \in Opacities :
       rect' = [rect EXCEPT !.borderOpacityEnabled = TRUE, !.borderOpacity = o]
  /\ UNCHANGED drawn

SetFillColor ==
  /\ rect # None
  /\ \E c \in Colors : rect' = [rect EXCEPT !.fillColor = c]
  /\ UNCHANGED drawn

SetFillOpacity ==
  /\ rect # None
  /\ \E o \in Opacities :
       rect' = [rect EXCEPT !.fillOpacityEnabled = TRUE, !.fillOpacity = o]
  /\ UNCHANGED drawn

\* GeneratePageBlocks: the opacity reset is written to the rectangle first;
\* then block.setOpacity, drawrect.Draw and block.addContentsByString run,
\* and any one of them may fail, returning the error.
GeneratePageBlocks ==
  /\ rect # None
  /\ \E ph \in PageHeights, fails \in BOOLEAN :
       LET r == ResetOpacities(rect) IN
       /\ rect' = r
       /\ drawn' = IF fails THEN DrawError
                   ELSE [rect |-> DrawRect(r, ph),
                         fillOpacity |-> r.fillOpacity,
                         borderOpacity |-> r.borderOpacity]

Next ==
  \/ Create
  \/ SetBorderWidth
  \/ SetBorderColor
  \/ SetBorderOpacity
  \/ SetFillColor
  \/ SetFillOpacity
  \/ GeneratePageBlocks

Spec == Init /\ [][Next]_vars

-----------------------------------------------------------------------------
(***************************************************************************)
(* Properties.                                                             *)
(***************************************************************************)

Settings ==
  [x : Coords, y : Coords, width : Lengths, height : Lengths,
   fillColor : Colors \cup {None}, fillOpacityEnabled : BOOLEAN,
   fillOpacity : Opacities \cup {0, Opaque},
   borderColor : Colors \cup {Black}, borderWidth : BorderWidths \cup {1},
   borderOpacityEnabled : BOOLEAN, borderOpacity : Opacities \cup {0, Opaque}]

\* The settings are within their domains, and a drawn border always has a
\* colour and a positive width.
TypeOK ==
  /\ rect = None \/ rect \in Settings
  /\ drawn = None \/ drawn = DrawError
     \/ /\ drawn.fillOpacity \in Opacities \cup {0, Opaque}
        /\ drawn.borderOpacity \in Opacities \cup {0, Opaque}
        /\ drawn.rect.border \in
             {None} \cup [color : Colors, width : {w \in BorderWidths \cup {1} : w > 0}]

\* The opacities a rectangle is drawn with, as its settings define them: the
\* one set by SetFillOpacity / SetBorderOpacity, else fully opaque.
EffectiveOpacity(r) ==
  [fill   |-> IF r.fillOpacityEnabled THEN r.fillOpacity ELSE Opaque,
   border |-> IF r.borderOpacityEnabled THEN r.borderOpacity ELSE Opaque]

\* The settings as Drawing sees them: an opacity the caller never set is 1.0.
AbstractShape ==
  IF rect = None THEN None
  ELSE [x |-> rect.x, y |-> rect.y, width |-> rect.width, height |-> rect.height,
        fillColor |-> rect.fillColor, borderColor |-> rect.borderColor,
        borderWidth |-> rect.borderWidth,
        fillOpacity |-> EffectiveOpacity(rect).fill,
        borderOpacity |-> EffectiveOpacity(rect).border]

\* Rectangle implements Drawing: GeneratePageBlocks draws the rectangle its
\* settings describe, with the opacities the caller set and fully opaque
\* where none was set (the reset that keeps Go's zero value 0.0 from
\* making it invisible), and although it writes that reset into the
\* rectangle before calls that may fail, no setting a later drawing shows
\* changes.
D == INSTANCE Drawing WITH shape <- AbstractShape
RectangleRefinesDrawing == D!Spec

=============================================================================
