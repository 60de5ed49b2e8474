----------------------------- MODULE MC_PdfFont -----------------------------
(***************************************************************************)
(* Model values and input sets for checking PdfFont with TLC.              *)
(*                                                                         *)
(* Bytes are 0 and 1, so simple codes are {0, 1} and CID codes             *)
(* {0, 1, 256, 257}.  The ToUnicode table maps 1 to two scalars (it        *)
(* conflicts with both encoders, which decide the priority) and 256 to     *)
(* the empty string; StdEnc covers the simple codes, Ident covers 0 and    *)
(* 257, so every font has codes that hit, codes that fall back and codes   *)
(* that miss.                                                              *)
(***************************************************************************)
EXTENDS PdfFont, TLC

Dict(type, sub, base, fd, tu, enc, desc, rest) ==
  [isDict |-> TRUE, Type |-> type, Subtype |-> sub, BaseFont |-> base,
   FontDescriptor |-> fd, ToUnicode |-> tu, Encoding |-> enc,
   DescendantFonts |-> desc, Rest |-> rest]

NotDict ==
  [isDict |-> FALSE, Type |-> None, Subtype |-> None, BaseFont |-> None,
   FontDescriptor |-> None, ToUnicode |-> None, Encoding |-> None,
   DescendantFonts |-> None, Rest |-> "ok"]

CIDFont(sub, tu) == Dict("Font", sub, "Custom", None, tu, None, None, "ok")

\* A well-formed font of each subtype; Type0 has a CIDFontType2 descendant.
Good(sub, base) ==
  Dict("Font", sub, base, None, None, None,
       IF sub = "Type0" THEN CIDFont("CIDFontType2", None) ELSE None, "ok")

NestedType0 == Good("Type0", "Custom")

MCFontNames == {"Helvetica", "Custom"}
MCStandard14 == {"Helvetica"}

Descriptor(style, ff, ff2) ==
  [FontName |-> TRUE, Style |-> style, FontFile |-> ff, FontFile2 |-> ff2]

\* Object d1 is a sound descriptor, d2 has a corrupt Type 1 program, d3 a
\* corrupt TrueType program.
MCDescIds == {"d1", "d2", "d3"}
MCInitDoc == ("d1" :> Descriptor(TRUE, None, "ok"))
             @@ ("d2" :> Descriptor(FALSE, "bad", None))
             @@ ("d3" :> Descriptor(FALSE, None, "bad"))

\* x1 is a direct descriptor dictionary (a font's /FontDescriptor entry
\* holds the dictionary itself); n1 and n2 are the objects ToPdfObject may
\* create for it.
MCDirectDescs == "x1" :> Descriptor(TRUE, None, None)
MCNewObjs == {"n1", "n2"}

MCCmapStreams == {"tu"}
MCCmapOf == "tu" :> ((1 :> <<"x", "y">>) @@ (256 :> <<>>))
MCEncodings == {"StdEnc", "Ident"}
MCEncTable == ("StdEnc" :> ((0 :> "a") @@ (1 :> "b")))
              @@ ("Ident" :> ((0 :> "a") @@ (257 :> "c")))
MCBuiltinEnc == [n \in MCFontNames |-> "StdEnc"]

CIDEncodersPresent == {"Ident"}
CIDEncodersMaybeNil == {"Ident", None}

Bytes == {0, 1}
AllDatas == UNION {[1 .. n -> Bytes] : n \in 0 .. 3}
OneData == {<<0, 1, 1>>}

\* One font of each kind, with and without the ToUnicode table.
DecodeDicts ==
  {Dict("Font", "Type1", "Helvetica", None, "tu", None, None, "ok"),
   Dict("Font", "TrueType", "Custom", None, None, "Ident", None, "ok"),
   Dict("Font", "Type1", "Custom", "d1", "tu", None, None, "ok"),
   CIDFont("CIDFontType2", "tu"),
   Dict("Font", "Type0", "Custom", None, "tu", None,
        CIDFont("CIDFontType0", None), "ok")}

\* Every subtype and name, each with at most one entry changed.
Variations ==
  {<<"Rest", "ok">>, <<"Rest", "bad">>,
   <<"Type", None>>, <<"Type", "XObject">>, <<"Subtype", None>>,
   <<"BaseFont", None>>,
   <<"FontDescriptor", "notdict">>, <<"FontDescriptor", "d1">>,
   <<"FontDescriptor", "d2">>, <<"FontDescriptor", "d3">>,
   <<"ToUnicode", "notstream">>, <<"ToUnicode", "undecodable">>,
   <<"ToUnicode", "badcmap">>, <<"ToUnicode", "tu">>,
   <<"Encoding", "bad">>, <<"Encoding", "Ident">>,
   <<"DescendantFonts", None>>, <<"DescendantFonts", NestedType0>>,
   <<"DescendantFonts", Good("Type1", "Helvetica")>>,
   <<"DescendantFonts", CIDFont("CIDFontType2", "badcmap")>>}

LoadDicts ==
  {NotDict} \cup
  {[Good(s, b) EXCEPT ![v[1]] = v[2]] :
     s \in {"Type0", "Type1", "TrueType", "MMType1", "Type3",
            "CIDFontType0", "CIDFontType2", "Bogus"},
     b \in MCFontNames, v \in Variations}

\* A Helvetica and a Custom Type1 font sharing the descriptor object d1.
SharedDescriptorDicts ==
  {Dict("Font", "Type1", "Helvetica", "d1", "tu", None, None, "ok"),
   Dict("Font", "Type1", "Custom", "d1", None, None, None, "ok")}

\* A simple font and a composite font whose descendant have the direct
\* descriptor x1.
DirectDescriptorDicts ==
  {Dict("Font", "TrueType", "Custom", "x1", None, None, None, "ok"),
   Dict("Font", "Type0", "Custom", None, None, None,
        Dict("Font", "CIDFontType2", "Custom", "x1", None, None, None, "ok"), "ok")}

\* State constraint for the direct descriptor run: decoding and SetEncoder
\* read or change no descriptor, so the run explores loads, copies,
\* serialisation, reloads and releases only.
SerialisationOnly == out = None /\ \A h \in Handles : encSet[h] = None

\* Simple fonts that declare an encoding other than their built-in one.
DeclaredEncodingDicts ==
  {Dict("Font", "Type1", n, None, None, "Ident", None, "ok") : n \in MCFontNames}

=============================================================================
