# TLA+ models of the font core of unipdf (`src/pdf/model/font.go`)

This directory holds TLA+ models of the font-loading and text-decoding code
in `src/pdf/model/font.go`, plus the TLC configurations that check them. Every
definition that models code is listed in `PROJECT.json` under `map`, with the
source lines it translates.

## 1. Inventory of the system

The source file has two unrelated parts. Lines 1-735 are the font core. Lines
737-856 are the `creator.Rectangle` drawing primitive. The spec excludes it, so it is modelled from the source alone.

| Component | Source | State it keeps | Operations |
|---|---|---|---|
| PdfFont facade | `PdfFont` 20-315 | a `fontSkeleton` and a `context` (the variant behind the `fonts.Font` interface) | `NewStandard14Font`, `NewPdfFontFromPdfObject`, `CharcodeBytesToUnicode`, `ToPdfObject`, `Encoder`, `SetEncoder`, `GetGlyphCharMetrics`, `Subtype`, `BaseFont`, `ToUnicode`, `String` |
| Variant resolver | `newPdfFontFromPdfObject` 86-156 | none (builds the context) | dispatch on Subtype, the `allowType0` guard, the standard 14 short-circuit, `addEncoding` |
| Common font header | `fontSkeleton` 317-485 | basefont, subtype, raw ToUnicode, parsed CMap, descriptor, dict, objectNumber | `newFontSkeletonFromPdfObject`, `toUnicodeToCmap`, `isCIDFont`, `toDict` |
| Font descriptor | `PdfFontDescriptor` 487-735 | 25 passthrough entries, the parsed FontFile / FontFile2, the `container` indirect object | `newPdfFontDescriptorFromPdfObject`, `ToPdfObject` |
| Variant constructors | outside `src/` | widths, encoder, descendant font | simple, Type0, CIDFontType0/2 constructors (modelled from the spec) |
| Standard 14 table | outside `src/` | 14 value-typed fonts | lookup by name, `ToPdfObject`, `Encoder`, `SetEncoder` |
| CMap, text encoders, core objects | outside `src/` | tables | lookups, stream decoding (black boxes) |
| Rectangle | 737-856 | position, size, colours, opacities | setters, `GeneratePageBlocks` |

**How the parts interact.** Loading is a chain of calls:
`NewPdfFontFromPdfObject` → `newFontSkeletonFromPdfObject` →
(`newPdfFontDescriptorFromPdfObject`, `toUnicodeToCmap`) → the variant
constructor → (for Type0) `newPdfFontFromPdfObject(descendant, false)`.
Decoding reads the facade's own skeleton (`isCIDFont`, `toUnicodeCmap`) and
the context's encoder through `actualFont`. Serialisation goes the other way:
`ToPdfObject` → the context's `ToPdfObject` → `toDict` of the context's
skeleton → `PdfFontDescriptor.ToPdfObject`. That last call writes into the
`container`. For a descriptor loaded from an indirect object, the container
is the document's own object. For a direct dictionary, the first call
creates a new indirect object and keeps it in the `*PdfFontDescriptor`,
which the facade's skeleton, the context's skeleton and every copy share.

**What is hard.** The code is single-threaded and does no I/O, so there is
no concurrency to model. The hard behaviour is elsewhere:
- *Sequences of calls.* Load, serialise and load again go through shared
  state: the descriptor container aliases the document, and the Standard-14
  short-circuit makes the context's skeleton differ from the facade's.
- *Value vs pointer semantics.* `actualFont` type-switches standard 14 fonts
  as values, so `SetEncoder` changes a copy.
- *Error paths.* Each of about ten early returns either aborts the load or
  is ignored.
- *Edge cases of decoding.* The CID byte-pair splitting has odd-length
  rules, lookups follow a precedence order, a nil encoder is possible, and
  `numChars` counts runes rather than codes.

**What makes each part correct.**
- Decoder: it computes what the spec's algorithm computes (explicit table
  first, sentinel and count on a miss, rune count).
- Resolver: a loaded font has the subtype, base name, code width and
  ToUnicode table of its dictionary, with the table parsed in the mode of
  that code width. A composite font never nests another. Every defect the
  spec calls fatal makes the load fail.
- Header and descriptor: fatal defects abort the load and nothing else does.
  A round trip through `ToPdfObject` keeps the font's identity, its explicit
  mapping and its descriptor.
- Facade: `SetEncoder` takes effect. Two instances share no mutable state.

## 2. Modules

| Module | Models |
|---|---|
| `PdfFont.tla` | The facade, resolver, header and descriptor. Loading is an operator that returns the *set* of results a load can produce: each variant constructor picks an encoder, and loading a Type0 font recurses into its descendant. The caller's operations are actions over a few handles. |
| `TextExtraction.tla` | The abstract specification of decoding from spec §4.4/§7. It has one variable, `last`, the most recent decode, and its action `Extract` requires the result to equal `SpecDecode`. `SpecDecode` is written independently of the code: pairs are indexed directly, and the text is a flatten of per-code pieces. |
| `MC_PdfFont.tla` | The model values and input sets: font dictionaries, descriptor objects, CMap and encoder tables, and byte strings. It also holds `SerialisationOnly`, the state constraint of the direct-descriptor run. |
| `FontResolution.tla` | The abstract specification of loading from spec §4.1-4.3. Each handle holds the dictionary it came from and an outcome: `Failed`, or the resolved font `[label, basefont, cid, explicit]` that `Resolved(d)` computes from the dictionary alone. `MustFail(d, top)` lists the defects that must make a load fail. Any other defect may make it fail, so the spec stays silent about the error classes; the `pfb_fatal` run checks those. Its actions are `Load`, `Duplicate` and `Drop`. `PdfFont` refines it through `LoadingRefinesResolution`, and its mapping `Resolution(h)` reads the facade's skeleton and `Label`. |
| `Rectangle.tla` | `creator.Rectangle`: `newRectangle`, the five setters and `GeneratePageBlocks`. Its state is the rectangle's settings and the last result. It is independent of the font modules, which is why no module composes it with them. It refines `Drawing` through `RectangleRefinesDrawing`. Its mapping `AbstractShape` replaces each opacity and its `Enabled` flag with the opacity the rectangle is drawn with. |
| `Drawing.tla` | The abstract specification of a drawable rectangle. `shape` holds the settings, with one opacity each for fill and border, and `drawn` holds the last picture. `Configure` changes settings. `Draw` leaves them unchanged and yields either `Picture(shape, ph)` or a failure. |

**State of `PdfFont`:**
- `doc`: the indirect FontDescriptor objects, which `ToPdfObject` can change.
  Its domain also holds `NewObjs`, the objects `ToPdfObject` may create.
  These are `None` until created. The pool size is a bound: once the pool
  is used up, a serialisation that would create one more object is
  disabled.
- `fonts[h]`: what handle `h` holds: nothing, an error, or a facade
  `[skel, ctx, ref]`. `ctx.kind` is the concrete type `actualFont` switches
  on. `ctx.skel` is the context's own skeleton. `ref` is the identity of
  the context pointer. A `NewStandard14Font` context is a Go value, so its
  `ref` is `None`.
- `src[h]`: the dictionary `h` was loaded from.
- `emitted[h]`: the dictionary `ToPdfObject` last returned.
- `encSet[h]`: the last `SetEncoder` argument.
- `out`: the last decode.

**Actions of `PdfFont`:**
- `NewPdfFontFromPdfObject`: load a document dictionary, or one that
  `ToPdfObject` returned.
- `LoadStandard14`
- `Decode`: `CharcodeBytesToUnicode`.
- `SetEncoder`
- `ToPdfObject`: gives each direct descriptor of the chain without a
  container a new object (`Contain`). The new container is stored in the
  font and in every copy sharing its context (`Stored`). It then rewrites
  every container in `doc`.
- `Release`: the caller drops a handle.
- `Copy(h, g)`: the caller copies the `PdfFont` value (`f2 := *f1`). The
  copy gets its own skeleton and the same context pointer. `SetEncoder`
  changes the context of every handle with the same `ref`.

**Data abstraction.** A dictionary is a record with one field per entry the
code reads. `Rest` stands for the entries that only the variant constructor
reads. The 25 descriptor entries keep only `FontName` and `Style`, because
the serialiser treats every other entry identically. The document's
`FontFile` and `FontFile2` are `None`, `"ok"` or `"bad"`. Text is a sequence
of scalars. `Subtype()`'s `"%s:%s"` join is kept as a sequence of names.

## 3. Runs

Every run uses `MC_PdfFont.tla`, except the rectangle run, which checks `Rectangle.tla` directly.

| Run (cfg) | Expect | Checks |
|---|---|---|
| `MC_decode.cfg` | pass | `TypeOK` and `DecodeRefinesSpec`, over 5 fonts (standard-14 with ToUnicode, TrueType with declared encoding, Type1 with descriptor, CIDFontType2, Type0), all 15 byte strings over {0,1} of length ≤ 3, with SetEncoder and serialisation interleaved. 105k states. |
| `MC_load.cfg` | pass | `RoundTripLoads` and `LoadingRefinesResolution`, over 321 dictionaries: 8 subtypes × 2 names × 20 single-entry variations (missing/malformed Type, Subtype, BaseFont, descriptor, ToUnicode, Encoding, descendant, and Type0 → Type0 → CIDFontType2), plus a non-dictionary. The run then serialises and reloads. The refinement requires every defect the spec calls fatal to fail the load, a corrupt TrueType program (`d3`) included. It also covers the standard 14 short-circuit, the Type0 guard (line 99) and the CMap mode (line 479). Removing the guard, ignoring a failed ToUnicode, or parsing the CMap before the subtype is read each breaks it. 2M states, about 1.5 minutes. |
| `MC_decode_nil_encoder.cfg` | violation | `DecodeRefinesSpec` when a CID constructor leaves the encoder nil. |
| `MC_descriptor_aliasing.cfg` | violation | `SameSourceSameDescriptor`, with 2 handles. |
| `MC_std14_roundtrip.cfg` | violation | `RoundTripKeepsExplicitMapping` |
| `MC_std14_set_encoder.cfg` | violation | `SetEncoderTakesEffect` |
| `MC_declared_encoding.cfg` | violation | `DeclaredEncodingUsed` |
| `MC_pfb_fatal.cfg` | violation | `LoadFailsOnlyOnSpecDefects` |
| `MC_direct_descriptor.cfg` | pass | `SerialisedDescriptorKept` (an action property), over 2 handles, a TrueType font with the direct descriptor `x1`, and a Type0 font whose descendant has it. `NewObjs` = {n1, n2}. The objects a `ToPdfObject` names are the ones the font and each of its copies name from then on, and no step takes a container away from a font that stays loaded. Serialising twice, or through a copy, never makes a second object for one descriptor. The state constraint `SerialisationOnly` leaves out decoding and `SetEncoder`, which touch no descriptor. 253k states, under 1 minute. |
| `MC_rectangle.cfg` (`Rectangle`) | pass | `TypeOK` (which includes: no drawn border has width 0) and `RectangleRefinesDrawing`, over coordinates {0,1}, lengths {0,2}, border widths {0,2}, opacities {30,60}, two colours, and success or failure of each drawing. Every picture is the one the current settings describe, with the opacity the caller set and 1.0 where the caller set none. The reset written back before a failing call never changes what a later drawing shows. Swapping the two `Enabled` guards breaks the refinement. |

**What the violations show** (details under `findings` in `PROJECT.json`):
1. With a nil encoder, an unresolvable code disappears. No sentinel is
   appended and no miss is counted (line 201).
2. `PdfFontDescriptor.ToPdfObject` writes `FontName` where `Style` belongs
   (line 718). It also writes into the document's own indirect object
   (lines 552 and 630). So after serialising font A, loading the same
   dictionary again gives a different descriptor.
3. A Type1 font named like a standard 14 font is rebuilt from the standard
   font's skeleton (line 119). Serialising it drops the document's ToUnicode
   and FontDescriptor. The same path ignores the document's `/Encoding`.
4. `SetEncoder` on a `NewStandard14Font` font changes a copy.
5. A corrupt Type 1 program (`FontFile`) fails the whole load. The spec says
   it is kept opaque.

`PdfFont` values share their context pointer: after `f2 := *f1`,
`f1.SetEncoder(e)` changes what `f2` decodes with (line 250). This is
intended, not a finding. Every method takes a value receiver, so every call
already works on a copy, and `SetEncoder` works only because copies share
the pointer. Spec §9 calls the font a shared handle. Spec §5's independent
instances are fonts loaded separately, and those never share a context.
So no run checks this. The `Copy` action stays in the model, and the
direct-descriptor run checks that copies keep one descriptor container.

**Why the bounds are enough.**
- Bytes {0,1} with lengths 0-3 cover every case of the CID splitting: empty,
  a lone byte, an even length, and an odd length above one.
- The CMap conflicts with both encoders on code 1, so the precedence is
  exercised. It maps code 256 to the empty string, so `numChars` can differ
  from the code count.
- Each encoder misses some codes.
- The dictionary set changes one entry at a time, which reaches every early
  return of the loader.
- The nested Type0 value reaches the `allowType0` guard.
- One handle is enough for a round trip, because `emitted` outlives
  `Release`. Two handles are used where two live fonts must be compared,
  and for a font and its copy. Context references are drawn from
  `Handles`, because each live handle holds at most one.
- Rectangle: two opacities (neither 0 nor 1) tell a set opacity apart from
  the reset value, and from Go's zero value. Border widths 0 and 2 reach
  both sides of the `borderWidth > 0` guard.

**Fairness.** None is assumed. The code is synchronous: every operation is
called by the user and finishes in one step. So no liveness property is
stated, and deadlock cannot occur, because `Release` and `Load` are always
enabled on some handle.

## 4. Not modelled, and why

- The CMap grammar, the text encoders and the core object model are external
  collaborators (spec §1). They are represented as tables and records.
- The variant constructors and the Standard 14 table are not under `src/`.
  They are modelled from the spec (`spec_modelled` in the map) and reduced
  to success, failure and the encoder they produce.
- `GetGlyphCharMetrics`, `String`, `BaseFont` and `ToUnicode` only read state.
- `Rectangle.GetCoords` only reads. The content stream `draw.Rectangle.Draw`
  produces, and the graphics state `setOpacity` registers, belong to
  packages outside `src/`. Their failure is a nondeterministic choice.

## 5. Plan

Done:
1. `PdfFont` + `TextExtraction`: loading, decoding, the encoder accessors
   and serialisation. The decoding refinement. The round-trip and aliasing
   properties.
2. The CMap parse mode against the decoder's code width (line 479).
   Copies of a `PdfFont` value that share one context (line 250), as the
   `Copy` action.
3. `Rectangle`.
4. `FontResolution`, the abstract spec of loading (spec §4.1-4.3), refined
   by `PdfFont`. It replaces three narrower invariants: no nested Type0,
   the explicit mapping kept, and the CMap mode. It leaves error classes
   open, because findings 3-5 are code failures the spec calls non-fatal,
   and the `pfb_fatal` violation run shows them.
5. `Drawing`, the abstract spec of `Rectangle`, with `Rectangle` refining it.
6. Direct descriptors and the container `ToPdfObject` creates for them
   (lines 627-629), and reloading a dictionary that names such a container.

Next: nothing of `src/` remains unmodelled beyond the read-only accessors.
A larger instance of the direct-descriptor run (three handles, or a pool
of three objects) is possible, at the cost of its run time.
