------------------------------ MODULE PdfFont ------------------------------
(***************************************************************************)
(* The font facade of pdf/model/font.go: loading a PdfFont from a font     *)
(* dictionary (fontSkeleton, PdfFontDescriptor, ToUnicode CMap, variant    *)
(* dispatch), decoding character codes, the encoder accessors and the      *)
(* serialisation back to the document.                                    *)
(*                                                                         *)
(* A caller holds a few PdfFont handles.  The document is abstracted to    *)
(* the state that serialisation can change: the indirect FontDescriptor    *)
(* objects, keyed by object number.  Font dictionaries are inputs: the     *)
(* dictionaries of the document (FontDicts) and the ones the caller got    *)
(* back from ToPdfObject.                                                  *)
(***************************************************************************)
EXTENDS Naturals, Sequences, FiniteSets
LOCAL INSTANCE SequencesExt

CONSTANTS
  None,          \* an absent dictionary entry, a nil pointer or interface
  Handles,       \* the PdfFont values a caller holds
  FontNames,     \* values of /BaseFont
  Standard14,    \* the keys of fonts.Standard14Fonts
  DescIds,       \* object numbers of indirect /FontDescriptor objects
  InitDoc,       \* DescIds -> the descriptor dictionaries of the document
  DirectDescs,   \* direct /FontDescriptor dictionaries: a name -> its contents
  NewObjs,       \* the indirect objects ToPdfObject may create (a bound)
  CmapStreams,   \* /ToUnicode streams that decode and parse as a CMap
  CmapOf,        \* CmapStreams -> [codes -> Seq(scalars)]: the parsed CMap
  Encodings,     \* textencoding.TextEncoder values
  EncTable,      \* Encodings -> [codes -> rune]: CharcodeToRune
  BuiltinEnc,    \* FontNames -> the encoder a font uses when no /Encoding
  CIDEncoders,   \* encoders a Type0 / CID font constructor may produce
  FontDicts,     \* the font dictionaries of the document
  Datas,         \* byte strings passed to CharcodeBytesToUnicode
  MissingRune    \* the one scalar of cmap.MissingCodeString

VARIABLES
  doc,       \* DescIds \cup NewObjs -> the descriptor dictionary held by that
             \* indirect object, or None for an object not yet created
  fonts,     \* Handles -> None, or the result of the last load into it
  src,       \* Handles -> [dict, by]: what the handle was loaded from
  emitted,   \* Handles -> [dict, by]: what ToPdfObject last returned, or None
  encSet,    \* Handles -> the last encoder passed to SetEncoder, or None
  out        \* the last CharcodeBytesToUnicode call and its result

vars == <<doc, fonts, src, emitted, encSet, out>>

CIDSubtypes == {"Type0", "CIDFontType0", "CIDFontType2"}
SimpleSubtypes == {"Type1", "Type3", "MMType1", "TrueType"}

Ok(x) == [ok |-> TRUE, val |-> x]
Err(e) == [ok |-> FALSE, err |-> e]

-----------------------------------------------------------------------------
(***************************************************************************)
(* Loading.                                                                *)
(***************************************************************************)

\* newPdfFontDescriptorFromPdfObject for the /FontDescriptor entry `fd`:
\* an indirect object keeps itself as container; the passthrough entries
\* are copied; FontFile (PFB) and FontFile2 (TrueType) are parsed at once.
Objects(d) == {o \in DOMAIN d : d[o] # None}

\* The dictionary the /FontDescriptor entry `fd` resolves to.
DescDict(fd, d) == IF fd \in DOMAIN DirectDescs THEN DirectDescs[fd] ELSE d[fd]

\* A direct dictionary has no container until ToPdfObject creates one.
NewDescriptor(fd, d) ==
  IF fd \notin Objects(d) \cup DOMAIN DirectDescs THEN Err("ErrTypeError")
  ELSE IF DescDict(fd, d).FontFile = "bad" THEN Err("ErrFontFile")
  ELSE IF DescDict(fd, d).FontFile2 = "bad" THEN Err("ErrFontFile2")
  ELSE Ok([container |-> IF fd \in DOMAIN DirectDescs THEN None ELSE fd,
           val |-> DescDict(fd, d)])

\* isCIDFont
IsCIDFont(subtype) == subtype \in CIDSubtypes

\* toUnicodeToCmap: the entry must be a stream, decode, and parse as a CMap
\* in the mode chosen by isCIDFont of the subtype read so far.
ToUnicodeToCmap(tu, subtype) ==
  IF tu = "notstream" THEN Err("ErrTypeError")
  ELSE IF tu = "undecodable" THEN Err("ErrDecodeStream")
  ELSE IF tu = "badcmap" THEN Err("ErrCmap")
  ELSE Ok([table |-> CmapOf[tu], simple |-> ~IsCIDFont(subtype)])

\* The required entries of newFontSkeletonFromPdfObject, checked in source
\* order: the error of the first one that fails, or None.
HeaderError(dict) ==
  IF ~dict.isDict THEN "ErrFontNotSupported"
  ELSE IF dict.Type = None THEN "ErrRequiredAttributeMissing"
  ELSE IF dict.Type # "Font" THEN "ErrTypeError"
  ELSE IF dict.Subtype = None THEN "ErrRequiredAttributeMissing"
  ELSE IF dict.Subtype = "Type3" THEN "ErrFontNotSupported"
  ELSE IF dict.BaseFont = None THEN "ErrRequiredAttributeMissing"
  ELSE None

Skeleton(dict, desc, cmap) ==
  [subtype |-> dict.Subtype, basefont |-> dict.BaseFont,
   toUnicode |-> dict.ToUnicode, cmap |-> cmap, desc |-> desc, dict |-> dict]

OptDescriptor(dict, d) ==
  IF dict.FontDescriptor = None THEN Ok(None)
  ELSE NewDescriptor(dict.FontDescriptor, d)

\* mutant: a ToUnicode that fails to load is logged and left out.
NewFontSkeletonLenient(dict, d) ==
  IF HeaderError(dict) # None THEN Err(HeaderError(dict))
  ELSE LET desc == OptDescriptor(dict, d)
           cm   == IF dict.ToUnicode = None THEN Ok(None)
                   ELSE ToUnicodeToCmap(dict.ToUnicode, dict.Subtype)
       IN IF ~desc.ok THEN desc
          ELSE Ok(Skeleton(dict, desc.val, IF cm.ok THEN cm.val ELSE None))

\* mutant: the CMap is built before the subtype is read, so isCIDFont of
\* the empty subtype selects simple mode.
NewFontSkeletonCmapFirst(dict, d) ==
  IF HeaderError(dict) # None THEN Err(HeaderError(dict))
  ELSE LET desc == OptDescriptor(dict, d)
           cm   == IF dict.ToUnicode = None THEN Ok(None)
                   ELSE ToUnicodeToCmap(dict.ToUnicode, None)
       IN IF ~desc.ok THEN desc
          ELSE IF ~cm.ok THEN cm
          ELSE Ok(Skeleton(dict, desc.val, cm.val))

\* newFontSkeletonFromPdfObject: the required entries in order, then the
\* optional FontDescriptor and ToUnicode whose failures are fatal; the
\* CMap mode comes from the subtype already read.
NewFontSkeleton(dict, d) ==
  IF HeaderError(dict) # None THEN Err(HeaderError(dict))
  ELSE LET desc == OptDescriptor(dict, d)
           cm   == IF dict.ToUnicode = None THEN Ok(None)
                   ELSE ToUnicodeToCmap(dict.ToUnicode, dict.Subtype)
       IN IF ~desc.ok THEN desc
          ELSE IF ~cm.ok THEN cm
          ELSE Ok(Skeleton(dict, desc.val, cm.val))

\* The dictionary a standard 14 font describes itself by (ToPdfObject of
\* the fonts.Standard14Fonts entry): Type, Subtype and BaseFont only.
StdDict(name) ==
  [isDict |-> TRUE, Type |-> "Font", Subtype |-> "Type1", BaseFont |-> name,
   FontDescriptor |-> None, ToUnicode |-> None, Encoding |-> None,
   DescendantFonts |-> None, Rest |-> "ok"]

\* pdfFontSimple.addEncoding: a declared /Encoding wins over the built-in.
AddEncoding(skel) ==
  IF skel.dict.Encoding = "bad" THEN Err("ErrEncoding")
  ELSE IF skel.dict.Encoding = None THEN Ok(BuiltinEnc[skel.basefont])
  ELSE Ok(skel.dict.Encoding)

Ctx(kind, skel, enc, descendant) ==
  [kind |-> kind, skel |-> skel, enc |-> enc, descendant |-> descendant]

\* newSimpleFontFromPdfObject followed by addEncoding.
NewSimpleFont(outer, skel) ==
  IF skel.dict.Rest = "bad" THEN {Err("ErrSimpleFont")}
  ELSE LET e == AddEncoding(skel)
       IN IF ~e.ok THEN {e}
          ELSE {Ok([skel |-> outer, ctx |-> Ctx("simple", skel, e.val, None)])}

\* newPdfCIDFontType0FromPdfObject / newPdfCIDFontType2FromPdfObject
NewCIDFont(skel, kind) ==
  IF skel.dict.Rest = "bad" THEN {Err("ErrCIDFont")}
  ELSE {Ok([skel |-> skel, ctx |-> Ctx(kind, skel, e, None)]) : e \in CIDEncoders}

\* The simple-font branch of newPdfFontFromPdfObject: a Type1 font named
\* like a standard 14 font is rebuilt from the standard font's own
\* dictionary (the document's skeleton stays the facade's); any other
\* simple font from its own skeleton.  addEncoding runs on either.
LoadSimpleAnySubtype(skel, d) ==   \* mutant: the Subtype test dropped
  IF skel.basefont \in Standard14
  THEN LET std == NewFontSkeleton(StdDict(skel.basefont), d)
       IN IF ~std.ok THEN {std} ELSE NewSimpleFont(skel, std.val)
  ELSE NewSimpleFont(skel, skel)

LoadSimple(skel, d) ==
  IF skel.basefont \in Standard14 /\ skel.subtype = "Type1"
  THEN LET std == NewFontSkeleton(StdDict(skel.basefont), d)
       IN IF ~std.ok THEN {std} ELSE NewSimpleFont(skel, std.val)
  ELSE NewSimpleFont(skel, skel)

\* newPdfFontFromPdfObject: the set of results the load can produce (the
\* variant constructors choose the CID encoder).  The Type0 constructor
\* loads its descendant with allowType0 = FALSE.
RECURSIVE NewPdfFont(_, _, _)
NewType0Font(skel, d) ==
  IF skel.dict.DescendantFonts = None THEN {Err("ErrRequiredAttributeMissing")}
  ELSE UNION {IF ~r.ok THEN {r}
              ELSE {Ok([skel |-> skel, ctx |-> Ctx("type0", skel, e, r.val)])
                      : e \in CIDEncoders}
              : r \in NewPdfFont(skel.dict.DescendantFonts, FALSE, d)}

NewPdfFontNoGuard(dict, allowType0, d) ==   \* mutant: allowType0 ignored
  LET s == NewFontSkeleton(dict, d) IN
  IF ~s.ok THEN {s}
  ELSE LET skel == s.val IN
  CASE skel.subtype = "Type0" -> NewType0Font(skel, d)
    [] skel.subtype \in SimpleSubtypes -> LoadSimple(skel, d)
    [] skel.subtype = "CIDFontType0" -> NewCIDFont(skel, "cid0")
    [] skel.subtype = "CIDFontType2" -> NewCIDFont(skel, "cid2")
    [] OTHER -> {Err("ErrUnsupportedFontType")}

NewPdfFont(dict, allowType0, d) ==
  LET s == NewFontSkeleton(dict, d) IN
  IF ~s.ok THEN {s}
  ELSE LET skel == s.val IN
  CASE skel.subtype = "Type0" ->
         IF ~allowType0 THEN {Err("ErrCyclicType0")} ELSE NewType0Font(skel, d)
    [] skel.subtype \in SimpleSubtypes -> LoadSimple(skel, d)
    [] skel.subtype = "CIDFontType0" -> NewCIDFont(skel, "cid0")
    [] skel.subtype = "CIDFontType2" -> NewCIDFont(skel, "cid2")
    [] OTHER -> {Err("ErrUnsupportedFontType")}

\* NewStandard14Font: the context is the fonts.Standard14Fonts value itself.
NewStandard14Font(name) ==
  IF name \notin Standard14 THEN Err("ErrFontNotSupported")
  ELSE LET skel == [subtype |-> "Type1", basefont |-> name, toUnicode |-> None,
                    cmap |-> None, desc |-> None, dict |-> StdDict(name)]
       IN Ok([skel |-> skel, ctx |-> Ctx("std14", skel, BuiltinEnc[name], None)])

-----------------------------------------------------------------------------
(***************************************************************************)
(* Decoding: CharcodeBytesToUnicode.                                       *)
(***************************************************************************)

\* The charcodes loop: CID fonts read big-endian pairs, a lone byte gets a
\* leading zero, other odd lengths a trailing zero; simple fonts one per byte.
Charcodes(data, isCID) ==
  IF ~isCID THEN data
  ELSE LET d1 == IF Len(data) = 1 THEN <<0, data[1]>> ELSE data
           d2 == IF Len(d1) % 2 # 0 THEN Append(d1, 0) ELSE d1
       IN [i \in 1 .. Len(d2) \div 2 |-> d2[2 * i - 1] * 256 + d2[2 * i]]

RECURSIVE DecodeLoop(_, _, _, _, _)
\* mutant: the encoder is consulted before ToUnicode.
DecodeLoopEncoderFirst(codes, cmap, enc, strs, misses) ==
  IF codes = <<>> THEN [text |-> strs, numMisses |-> misses]
  ELSE LET c == Head(codes) IN
    IF enc # None /\ c \in DOMAIN EncTable[enc]
    THEN DecodeLoop(Tail(codes), cmap, enc, Append(strs, EncTable[enc][c]), misses)
    ELSE IF cmap # None /\ c \in DOMAIN cmap.table
    THEN DecodeLoop(Tail(codes), cmap, enc, strs \o cmap.table[c], misses)
    ELSE IF enc = None
    THEN DecodeLoop(Tail(codes), cmap, enc, strs, misses)
    ELSE DecodeLoop(Tail(codes), cmap, enc, Append(strs, MissingRune), misses + 1)

\* The loop over charcodes: ToUnicode first, then the encoder if there is
\* one; with no encoder a code the CMap misses adds nothing.
DecodeLoop(codes, cmap, enc, strs, misses) ==
  IF codes = <<>> THEN [text |-> strs, numMisses |-> misses]
  ELSE LET c == Head(codes) IN
    IF cmap # None /\ c \in DOMAIN cmap.table
    THEN DecodeLoop(Tail(codes), cmap, enc, strs \o cmap.table[c], misses)
    ELSE IF enc = None
    THEN DecodeLoop(Tail(codes), cmap, enc, strs, misses)
    ELSE IF c \in DOMAIN EncTable[enc]
    THEN DecodeLoop(Tail(codes), cmap, enc, Append(strs, EncTable[enc][c]), misses)
    ELSE DecodeLoop(Tail(codes), cmap, enc, Append(strs, MissingRune), misses + 1)

\* PdfFont.Encoder: the context's encoder.
Encoder(font) == font.ctx.enc

\* mutant: numChars is the number of charcodes, not of decoded runes.
CharcodeBytesToUnicodeCodeCount(font, data) ==
  LET codes == Charcodes(data, IsCIDFont(font.skel.subtype))
      r == DecodeLoop(codes, font.skel.cmap, Encoder(font), <<>>, 0)
  IN [text |-> r.text, numChars |-> Len(codes), numMisses |-> r.numMisses]

CharcodeBytesToUnicode(font, data) ==
  LET r == DecodeLoop(Charcodes(data, IsCIDFont(font.skel.subtype)),
                      font.skel.cmap, Encoder(font), <<>>, 0)
  IN [text |-> r.text, numChars |-> Len(r.text), numMisses |-> r.numMisses]

-----------------------------------------------------------------------------
(***************************************************************************)
(* Serialisation: ToPdfObject.                                             *)
(***************************************************************************)

\* PdfFontDescriptor.ToPdfObject: the dictionary written into the container.
\* The /Style branch sets "FontName" to FontName, so Style is never written.
DescriptorToDict(v) == [v EXCEPT !.Style = FALSE]

\* The descriptors of a font's context chain that have no container yet.
RECURSIVE Uncontained(_)
Uncontained(ctx) ==
  (IF ctx.skel.desc # None /\ ctx.skel.desc.container = None THEN 1 ELSE 0)
  + (IF ctx.descendant = None THEN 0 ELSE Uncontained(ctx.descendant.ctx))

\* PdfFontDescriptor.ToPdfObject on each descriptor of the chain: one with
\* no container gets the next new indirect object of `fresh`, kept in the
\* descriptor.  The facade's skeleton holds the same *PdfFontDescriptor as
\* the context's unless the standard 14 short-circuit built the context.
RECURSIVE Contain(_, _)
Contain(font, fresh) ==
  LET ctx   == font.ctx
      needs == ctx.skel.desc # None /\ ctx.skel.desc.container = None
      desc  == IF needs THEN [ctx.skel.desc EXCEPT !.container = Head(fresh)]
               ELSE ctx.skel.desc
      rest  == IF needs THEN Tail(fresh) ELSE fresh
  IN [font EXCEPT !.skel = IF font.skel = ctx.skel THEN [@ EXCEPT !.desc = desc] ELSE @,
                  !.ctx = [ctx EXCEPT !.skel.desc = desc,
                                      !.descendant = IF @ = None THEN None
                                                     ELSE Contain(@, rest)]]

\* The containers a context's ToPdfObject rewrites, with their new contents.
RECURSIVE DescWrites(_)
DescWrites(ctx) ==
  (IF ctx.skel.desc = None THEN {}
   ELSE {<<ctx.skel.desc.container, DescriptorToDict(ctx.skel.desc.val)>>})
  \cup (IF ctx.descendant = None THEN {} ELSE DescWrites(ctx.descendant.ctx))

\* fontSkeleton.toDict plus the variant's own entries: the variant's
\* skeleton supplies Subtype, BaseFont, FontDescriptor and ToUnicode.
RECURSIVE CtxToDict(_)
CtxToDict(ctx) ==
  IF ctx.kind = "std14" THEN StdDict(ctx.skel.basefont)
  ELSE [isDict |-> TRUE, Type |-> "Font", Subtype |-> ctx.skel.subtype,
        BaseFont |-> ctx.skel.basefont,
        FontDescriptor |-> IF ctx.skel.desc = None THEN None
                           ELSE ctx.skel.desc.container,
        ToUnicode |-> ctx.skel.toUnicode,
        Encoding |-> IF ctx.kind = "simple" THEN ctx.enc ELSE None,
        DescendantFonts |-> IF ctx.descendant = None THEN None
                            ELSE CtxToDict(ctx.descendant.ctx),
        Rest |-> "ok"]

-----------------------------------------------------------------------------
(***************************************************************************)
(* The caller's operations.                                                *)
(***************************************************************************)

Init ==
  /\ doc = InitDoc @@ [o \in NewObjs |-> None]
  /\ fonts = [h \in Handles |-> None]
  /\ src = [h \in Handles |-> None]
  /\ emitted = [h \in Handles |-> None]
  /\ encSet = [h \in Handles |-> None]
  /\ out = None

Loaded(h) == fonts[h] # None /\ fonts[h].ok

\* The context of a loaded font is a pointer (*pdfFontSimple, *pdfFontType0,
\* *pdfCIDFontType0/2): its identity is a reference, one that no live
\* PdfFont holds (which one is immaterial).  A standard 14 context is a value and has none.
FreeRefs ==
  Handles \ {fonts[g].val.ref : g \in {k \in Handles : Loaded(k)}}

WithRef(r, ref) ==
  IF r.ok THEN Ok([skel |-> r.val.skel, ctx |-> r.val.ctx, ref |-> ref]) ELSE r

\* Handle g holds a copy of the PdfFont in h that shares its context.
SharesContext(g, h) ==
  Loaded(g) /\ fonts[g].val.ref # None /\ fonts[g].val.ref = fonts[h].val.ref

\* The font dictionaries a caller can pass: the document's, and the ones
\* ToPdfObject gave back.
Inputs == {[dict |-> f, by |-> None] : f \in FontDicts}
          \cup {emitted[g] : g \in {k \in Handles : emitted[k] # None}}

\* NewPdfFontFromPdfObject (allowType0 = TRUE).
NewPdfFontFromPdfObject(h) ==
  /\ fonts[h] = None
  /\ \E o \in Inputs :
       \E r \in NewPdfFont(o.dict, TRUE, doc) :
         /\ fonts' = [fonts EXCEPT ![h] = WithRef(r, CHOOSE ref \in FreeRefs : TRUE)]
         /\ src' = [src EXCEPT ![h] = o]
  /\ UNCHANGED <<doc, emitted, encSet, out>>

LoadStandard14(h) ==
  /\ fonts[h] = None
  /\ \E name \in FontNames :
       /\ fonts' = [fonts EXCEPT ![h] = WithRef(NewStandard14Font(name), None)]
       /\ src' = [src EXCEPT ![h] = [dict |-> StdDict(name), by |-> None]]
  /\ UNCHANGED <<doc, emitted, encSet, out>>

\* What CharcodeBytesToUnicode reads of the font.
View(font) ==
  [cid  |-> IsCIDFont(font.skel.subtype),
   cmap |-> IF font.skel.cmap = None THEN None ELSE font.skel.cmap.table,
   enc  |-> Encoder(font)]

Decode(h) ==
  /\ Loaded(h)
  /\ \E data \in Datas :
       LET r == CharcodeBytesToUnicode(fonts[h].val, data) IN
       out' = [font |-> View(fonts[h].val), data |-> data, text |-> r.text,
               numChars |-> r.numChars, numMisses |-> r.numMisses]
  /\ UNCHANGED <<doc, fonts, src, emitted, encSet>>

\* SetEncoder: actualFont returns the context; a pointer context is changed
\* in place, for every PdfFont that shares it; a standard 14 context is a
\* value and the change hits a copy.
SetEncoder(h) ==
  /\ Loaded(h)
  /\ \E e \in Encodings :
       /\ encSet' = [encSet EXCEPT ![h] = e]
       /\ fonts' = [g \in Handles |->
                      IF SharesContext(g, h) THEN [fonts[g] EXCEPT !.val.ctx.enc = e]
                      ELSE fonts[g]]
  /\ UNCHANGED <<doc, src, emitted, out>>

\* The caller copies the PdfFont value (font2 := *font1): the embedded
\* fontSkeleton is copied, the context interface keeps pointing at the same
\* variant.  The copy has had the same SetEncoder calls as the original.
Copy(h, g) ==
  /\ Loaded(h)
  /\ fonts[g] = None
  /\ fonts' = [fonts EXCEPT ![g] = fonts[h]]
  /\ src' = [src EXCEPT ![g] = src[h]]
  /\ encSet' = [encSet EXCEPT ![g] = encSet[h]]
  /\ UNCHANGED <<doc, emitted, out>>

\* mutant: the descriptor is serialised through a copy of the value, so the
\* container it creates is lost.
StoredByValue(h, fresh) == fonts

\* The fonts after ToPdfObject on h: the containers created live in the
\* descriptors h, its copies and their skeletons point to.
Stored(h, fresh) ==
  [g \in Handles |-> IF g = h \/ SharesContext(g, h)
                     THEN [fonts[g] EXCEPT !.val = Contain(@, fresh)]
                     ELSE fonts[g]]

\* ToPdfObject: the context's dictionary.  Each descriptor without a
\* container gets a new indirect object (at most NewObjs are ever made);
\* every container of the chain, the document's own included, is
\* rewritten with the descriptor's dictionary.
ToPdfObject(h) ==
  /\ Loaded(h)
  /\ LET free  == {o \in NewObjs : doc[o] = None}
         fresh == SetToSeq(free)
         ctx   == Contain(fonts[h].val, fresh).ctx
         w     == DescWrites(ctx)
     IN /\ Uncontained(fonts[h].val.ctx) <= Cardinality(free)
        /\ doc' = [i \in DOMAIN doc |->
                     IF \E x \in w : x[1] = i THEN (CHOOSE x \in w : x[1] = i)[2]
                     ELSE doc[i]]
        /\ fonts' = Stored(h, fresh)
        /\ emitted' = [emitted EXCEPT ![h] = [dict |-> CtxToDict(ctx),
                                               by |-> fonts'[h].val]]
  /\ UNCHANGED <<src, encSet, out>>

\* The caller drops the PdfFont (or the error) it holds in h.
Release(h) ==
  /\ fonts[h] # None
  /\ fonts' = [fonts EXCEPT ![h] = None]
  /\ src' = [src EXCEPT ![h] = None]
  /\ encSet' = [encSet EXCEPT ![h] = None]
  /\ UNCHANGED <<doc, emitted, out>>

Next ==
  \E h \in Handles :
    \/ NewPdfFontFromPdfObject(h)
    \/ LoadStandard14(h)
    \/ Decode(h)
    \/ SetEncoder(h)
    \/ ToPdfObject(h)
    \/ Release(h)
    \/ \E g \in Handles : Copy(h, g)

Spec == Init /\ [][Next]_vars

-----------------------------------------------------------------------------
(***************************************************************************)
(* Properties.                                                             *)
(***************************************************************************)

\* PdfFont.Subtype: the outer subtype, followed for a Type0 font by its
\* descendant's Subtype (the "%s:%s" join, kept as a sequence).
RECURSIVE Label(_)
Label(font) ==
  IF font.ctx.kind = "type0"
  THEN <<font.skel.subtype>> \o Label(font.ctx.descendant)
  ELSE <<font.skel.subtype>>

Scalars ==
  {MissingRune} \cup UNION {{EncTable[e][c] : c \in DOMAIN EncTable[e]} : e \in Encodings}
  \cup UNION {UNION {{CmapOf[t][c][i] : i \in DOMAIN CmapOf[t][c]} : c \in DOMAIN CmapOf[t]}
              : t \in CmapStreams}

\* The shape of the state: every handle holds nothing, an error, or a font
\* whose encoder is an encoder or nil, and the last decode yields scalars.
TypeOK ==
  /\ doc \in [DescIds \cup NewObjs ->
               {None} \cup [FontName : BOOLEAN, Style : BOOLEAN,
                            FontFile : {None, "ok", "bad"},
                            FontFile2 : {None, "ok", "bad"}]]
  /\ \A h \in Handles :
       /\ fonts[h] = None \/ ~fonts[h].ok
          \/ /\ fonts[h].val.ctx.kind \in {"simple", "type0", "cid0", "cid2", "std14"}
             /\ Encoder(fonts[h].val) \in Encodings \cup {None}
       /\ encSet[h] \in Encodings \cup {None}
  /\ out = None
     \/ /\ out.text \in Seq(Scalars)
        /\ out.numChars = Len(out.text)
        /\ out.numMisses \in 0 .. Len(out.data)

\* CharcodeBytesToUnicode implements the text extraction the spec states:
\* code splitting, ToUnicode before encoding, sentinel and counts.
TE == INSTANCE TextExtraction WITH last <- out
DecodeRefinesSpec == TE!Spec

\* The resolved font a handle holds, as FontResolution sees it.
Resolution(h) ==
  IF fonts[h] = None THEN None
  ELSE IF ~fonts[h].ok THEN [failed |-> TRUE]
  ELSE [label    |-> Label(fonts[h].val),
        basefont |-> fonts[h].val.skel.basefont,
        cid      |-> IsCIDFont(fonts[h].val.skel.subtype),
        explicit |-> fonts[h].val.skel.cmap]

\* newPdfFontFromPdfObject implements resolution (spec sections 4.1-4.3):
\* every dispatch, including the standard 14 short-circuit and the Type0
\* guard, yields the subtype, base name, code width and explicit mapping
\* of the dictionary loaded, with the CMap parsed in the mode of that code
\* width; a dictionary the spec says cannot load never does; copies and
\* SetEncoder change none of it.
FR == INSTANCE FontResolution
        WITH DescIds <- DescIds \cup NewObjs \cup DOMAIN DirectDescs,
             CorruptTrueType <- {i \in DOMAIN InitDoc : InitDoc[i].FontFile2 = "bad"}
                                \cup {x \in DOMAIN DirectDescs :
                                       DirectDescs[x].FontFile2 = "bad"},
             from <- [h \in Handles |-> IF src[h] = None THEN None ELSE src[h].dict],
             loaded <- [h \in Handles |-> Resolution(h)]
LoadingRefinesResolution == FR!Spec

\* Round trip (spec section 8): a dictionary ToPdfObject returned loads
\* again, with the BaseFont and Subtype of the font that produced it.
RoundTripLoads ==
  \A h \in Handles :
    (src[h] # None /\ src[h].by # None /\ fonts[h] # None) =>
      /\ fonts[h].ok
      /\ Label(fonts[h].val) = Label(src[h].by)
      /\ fonts[h].val.skel.basefont = src[h].by.skel.basefont

\* The descriptor objects a font dictionary names: its own and its
\* descendant's.
DescObjects(dict) ==
  <<dict.FontDescriptor>>
  \o (IF dict.DescendantFonts = None THEN <<>> ELSE <<dict.DescendantFonts.FontDescriptor>>)

\* PdfFontDescriptor.ToPdfObject creates the container of a direct
\* descriptor on the first call and keeps it (lines 627-629): the objects a
\* ToPdfObject names are the ones the font, and every copy sharing its
\* context, names from then on, and no step of a font that stays loaded
\* takes a container away or replaces it.  So serialising a font twice, or
\* through a copy, never makes a second object for one descriptor.
SerialisedDescriptorKept ==
  [][\A h, g \in Handles :
       /\ (/\ emitted'[h] # emitted[h] /\ Loaded(h)
           /\ (g = h \/ SharesContext(g, h)'))
          => DescObjects(emitted'[h].dict) = DescObjects(CtxToDict(fonts'[g].val.ctx))
       /\ (Loaded(g) /\ Loaded(g)')
          => \A i \in DOMAIN DescObjects(CtxToDict(fonts[g].val.ctx)) :
               DescObjects(CtxToDict(fonts[g].val.ctx))[i] # None
                 => DescObjects(CtxToDict(fonts'[g].val.ctx))[i]
                      = DescObjects(CtxToDict(fonts[g].val.ctx))[i]]_vars

\* Instances are independent (spec section 5): two fonts loaded from the
\* same dictionary carry the same descriptor, whatever ToPdfObject did
\* between the two loads.
SameSourceSameDescriptor ==
  \A h, g \in Handles :
    (Loaded(h) /\ Loaded(g) /\ src[h] = src[g]) =>
      fonts[h].val.skel.desc = fonts[g].val.skel.desc

\* Round trip (spec section 8): reloading what ToPdfObject returned keeps
\* the presence of the explicit ToUnicode mapping.
RoundTripKeepsExplicitMapping ==
  \A h \in Handles :
    (src[h] # None /\ src[h].by # None /\ Loaded(h)) =>
      (fonts[h].val.skel.cmap = None) = (src[h].by.skel.cmap = None)

\* SetEncoder changes the encoding the font reports and decodes with
\* (spec section 4.5: the active variant's encoding is mutated in place).
SetEncoderTakesEffect ==
  \A h \in Handles :
    (Loaded(h) /\ encSet[h] # None) => Encoder(fonts[h].val) = encSet[h]

\* A simple font whose dictionary declares an /Encoding decodes with it
\* (spec section 4.3: in both paths the document-declared encoding is
\* selected), until SetEncoder replaces it.
DeclaredEncodingUsed ==
  \A h \in Handles :
    (/\ Loaded(h) /\ encSet[h] = None
     /\ fonts[h].val.skel.subtype \in SimpleSubtypes
     /\ src[h].dict.Encoding \in Encodings)
      => Encoder(fonts[h].val) = src[h].dict.Encoding

\* The defects spec sections 4 and 7 call fatal to loading.
RECURSIVE SpecFatal(_, _, _)
SpecFatal(dict, allowType0, d) ==
  \/ ~dict.isDict
  \/ dict.Type # "Font" \/ dict.Subtype = None \/ dict.BaseFont = None
  \/ dict.Subtype \notin {"Type0", "Type1", "TrueType", "MMType1",
                         "CIDFontType0", "CIDFontType2"}
  \/ dict.FontDescriptor # None
     /\ dict.FontDescriptor \notin Objects(d) \cup DOMAIN DirectDescs
  \/ /\ dict.FontDescriptor \in Objects(d) \cup DOMAIN DirectDescs
     /\ DescDict(dict.FontDescriptor, d).FontFile2 = "bad"
  \/ dict.ToUnicode \in {"notstream", "undecodable", "badcmap"}
  \/ dict.Rest = "bad"
  \/ dict.Subtype \in SimpleSubtypes /\ dict.Encoding = "bad"
  \/ /\ dict.Subtype = "Type0"
     /\ \/ ~allowType0 \/ dict.DescendantFonts = None
        \/ SpecFatal(dict.DescendantFonts, FALSE, d)

\* Loading fails only on a defect the spec calls fatal; a Type 1 program
\* (FontFile) is kept as an opaque reference (spec section 4.2).
LoadFailsOnlyOnSpecDefects ==
  \A h \in Handles :
    (fonts[h] # None /\ ~fonts[h].ok) => SpecFatal(src[h].dict, TRUE, doc)

=============================================================================
