\* Loading every font subtype and name with each entry made missing or
\* malformed in turn, including Type0 fonts nested three deep, then
\* serialising and reloading.
CONSTANTS
  None = None
  Handles = {h1}
  FontNames <- MCFontNames
  Standard14 <- MCStandard14
  DescIds <- MCDescIds
  InitDoc <- MCInitDoc
  DirectDescs <- MCDirectDescs
  NewObjs <- MCNewObjs
  CmapStreams <- MCCmapStreams
  CmapOf <- MCCmapOf
  Encodings <- MCEncodings
  EncTable <- MCEncTable
  BuiltinEnc <- MCBuiltinEnc
  CIDEncoders <- CIDEncodersPresent
  FontDicts <- LoadDicts
  Datas <- OneData
  MissingRune = "?"
SPECIFICATION Spec
INVARIANT RoundTripLoads
PROPERTY LoadingRefinesResolution
