\* Type1 fonts that declare an /Encoding other than their built-in one.
CONSTANTS
  None = None
  Handles = {h1}
  FontNames <- MCFontNames
  Standard14 <- MCStandard14
  DescIds <- MCDescIds
  InitDoc <- MCInitDoc
  DirectDescs <- MCDirectDescs
  NewObjs <- MCNewObjs
  CmapStreams <- MCCmapStreams
  CmapOf <- MCCmapOf
  Encodings <- MCEncodings
  EncTable <- MCEncTable
  BuiltinEnc <- MCBuiltinEnc
  CIDEncoders <- CIDEncodersPresent
  FontDicts <- DeclaredEncodingDicts
  Datas <- OneData
  MissingRune = "?"
SPECIFICATION Spec
INVARIANT DeclaredEncodingUsed
