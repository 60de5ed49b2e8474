\* One rectangle through every setter and GeneratePageBlocks, with each of
\* the three calls after the opacity reset allowed to fail.
CONSTANTS
  None = None
  Black = Black
  Coords = {0, 1}
  Lengths = {0, 2}
  BorderWidths = {0, 2}
  Opacities = {30, 60}
  Colors = {Red, Black}
  PageHeights = {2}
SPECIFICATION Spec
INVARIANT TypeOK
PROPERTY RectangleRefinesDrawing
