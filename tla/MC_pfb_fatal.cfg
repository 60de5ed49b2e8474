\* Which load failures the spec's fatal-defect list accounts for.
CONSTANTS
  None = None
  Handles = {h1}
  FontNames <- MCFontNames
  Standard14 <- MCStandard14
  DescIds <- MCDescIds
  InitDoc <- MCInitDoc
  DirectDescs <- MCDirectDescs
  NewObjs <- MCNewObjs
  CmapStreams <- MCCmapStreams
  CmapOf <- MCCmapOf
  Encodings <- MCEncodings
  EncTable <- MCEncTable
  BuiltinEnc <- MCBuiltinEnc
  CIDEncoders <- CIDEncodersPresent
  FontDicts <- LoadDicts
  Datas <- OneData
  MissingRune = "?"
SPECIFICATION Spec
INVARIANT LoadFailsOnlyOnSpecDefects
