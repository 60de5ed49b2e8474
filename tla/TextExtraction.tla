--------------------------- MODULE TextExtraction ---------------------------
(***************************************************************************)
(* What decoding content-stream bytes to text promises (spec section 4.4   *)
(* and 7): codes are one byte, or for CID fonts big-endian byte pairs      *)
(* with a lone byte read as [0x00, byte] and an odd tail padded by a zero; *)
(* each code is resolved by the explicit ToUnicode table if it has it,     *)
(* else by the built-in encoding, else it becomes the missing sentinel and *)
(* is counted; numChars counts the scalars of the text.  An absent         *)
(* encoding resolves nothing.                                              *)
(*                                                                         *)
(* The only variable is the last decode: the font view it used (cid, cmap, *)
(* enc), the input bytes and the result.                                   *)
(***************************************************************************)
EXTENDS Naturals, Sequences, FiniteSets, SequencesExt

CONSTANTS None, EncTable, MissingRune

VARIABLE last

\* The character codes of `data`, read as the spec states them.
SpecCodes(data, cid) ==
  IF ~cid THEN data
  ELSE IF Len(data) = 1 THEN <<data[1]>>
  ELSE [i \in 1 .. (Len(data) + 1) \div 2 |->
          data[2 * i - 1] * 256 + (IF 2 * i <= Len(data) THEN data[2 * i] ELSE 0)]

Resolves(table, c) == table # None /\ c \in DOMAIN table

\* The text one code contributes, and whether it is a miss.
Piece(font, c) ==
  IF Resolves(font.cmap, c) THEN font.cmap[c]
  ELSE IF font.enc # None /\ Resolves(EncTable[font.enc], c)
  THEN <<EncTable[font.enc][c]>>
  ELSE <<MissingRune>>

IsMiss(font, c) ==
  ~Resolves(font.cmap, c) /\ ~(font.enc # None /\ Resolves(EncTable[font.enc], c))

SpecDecode(font, data) ==
  LET codes == SpecCodes(data, font.cid)
      text  == FlattenSeq([i \in DOMAIN codes |-> Piece(font, codes[i])])
  IN [text      |-> text,
      numChars  |-> Len(text),
      numMisses |-> Cardinality({i \in DOMAIN codes : IsMiss(font, codes[i])})]

\* A decode: the result is the one the spec gives for its font and input.
Extract ==
  /\ last' # None
  /\ last'.text = SpecDecode(last'.font, last'.data).text
  /\ last'.numChars = SpecDecode(last'.font, last'.data).numChars
  /\ last'.numMisses = SpecDecode(last'.font, last'.data).numMisses

Init == last = None

Spec == Init /\ [][Extract]_last

=============================================================================
