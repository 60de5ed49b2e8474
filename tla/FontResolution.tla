--------------------------- MODULE FontResolution ---------------------------
(***************************************************************************)
(* What resolving a font dictionary promises (spec sections 4.1-4.3), for  *)
(* callers that hold a few font handles.  A load either fails or yields a  *)
(* font determined by the dictionary alone: its subtype (for a composite   *)
(* font followed by its descendant's), its base name, whether its codes    *)
(* are two bytes wide, and the explicit mapping of its ToUnicode entry,    *)
(* built in the mode that code width selects.  Some defects must make the  *)
(* load fail: a value that is not a font dictionary, a missing required    *)
(* entry, an unsupported subtype, a descriptor that is not a dictionary    *)
(* or whose TrueType program does not parse, a ToUnicode entry that does   *)
(* not yield a mapping, and a composite font without a descendant or with  *)
(* a composite one.  Other defects may.                                    *)
(*                                                                         *)
(* A handle may also be duplicated, or dropped.                            *)
(***************************************************************************)
EXTENDS Naturals, Sequences

CONSTANTS
  None,
  Handles,
  DescIds,         \* the objects that are descriptor dictionaries
  CorruptTrueType, \* descriptors whose FontFile2 does not parse
  CmapStreams,     \* ToUnicode entries that yield a mapping
  CmapOf           \* CmapStreams -> the mapping

VARIABLES
  from,    \* Handles -> the dictionary the handle was loaded from, or None
  loaded   \* Handles -> None, Failed, or the resolved font

Failed == [failed |-> TRUE]

Composite == "Type0"
TwoByte == {"Type0", "CIDFontType0", "CIDFontType2"}
Supported == {"Type0", "Type1", "MMType1", "TrueType", "CIDFontType0", "CIDFontType2"}

\* The defects that make loading `d` fail; `top` is FALSE for a descendant.
RECURSIVE MustFail(_, _)
MustFail(d, top) ==
  \/ ~d.isDict
  \/ d.Type # "Font" \/ d.Subtype = None \/ d.BaseFont = None
  \/ d.Subtype \notin Supported
  \/ d.FontDescriptor # None /\ d.FontDescriptor \notin DescIds
  \/ d.FontDescriptor \in CorruptTrueType
  \/ d.ToUnicode # None /\ d.ToUnicode \notin CmapStreams
  \/ /\ d.Subtype = Composite
     /\ \/ ~top \/ d.DescendantFonts = None
        \/ MustFail(d.DescendantFonts, FALSE)

Resolved(d) ==
  [label    |-> IF d.Subtype = Composite
                THEN <<d.Subtype, d.DescendantFonts.Subtype>>
                ELSE <<d.Subtype>>,
   basefont |-> d.BaseFont,
   cid      |-> d.Subtype \in TwoByte,
   explicit |-> IF d.ToUnicode = None THEN None
                ELSE [table |-> CmapOf[d.ToUnicode],
                      simple |-> d.Subtype \notin TwoByte]]

Outcomes(d) == IF MustFail(d, TRUE) THEN {Failed} ELSE {Failed, Resolved(d)}

Others(h) ==
  \A g \in Handles \ {h} : from'[g] = from[g] /\ loaded'[g] = loaded[g]

Init ==
  /\ from = [h \in Handles |-> None]
  /\ loaded = [h \in Handles |-> None]

\* Loading into an empty handle from any dictionary.
Load(h) ==
  /\ loaded[h] = None
  /\ from'[h] # None
  /\ loaded'[h] \in Outcomes(from'[h])
  /\ Others(h)

Duplicate(h, g) ==
  /\ loaded[h] \notin {None, Failed}
  /\ loaded[g] = None
  /\ loaded' = [loaded EXCEPT ![g] = loaded[h]]
  /\ from' = [from EXCEPT ![g] = from[h]]

Drop(h) ==
  /\ loaded[h] # None
  /\ loaded' = [loaded EXCEPT ![h] = None]
  /\ from' = [from EXCEPT ![h] = None]

Next == \E h \in Handles : Load(h) \/ Drop(h) \/ \E g \in Handles : Duplicate(h, g)

Spec == Init /\ [][Next]_<<from, loaded>>

=============================================================================
