\* Two fonts loaded from one dictionary, with ToPdfObject in between.
CONSTANTS
  None = None
  Handles = {h1, h2}
  FontNames <- MCFontNames
  Standard14 <- MCStandard14
  DescIds <- MCDescIds
  InitDoc <- MCInitDoc
  DirectDescs <- MCDirectDescs
  NewObjs <- MCNewObjs
  CmapStreams <- MCCmapStreams
  CmapOf <- MCCmapOf
  Encodings <- MCEncodings
  EncTable <- MCEncTable
  BuiltinEnc <- MCBuiltinEnc
  CIDEncoders <- CIDEncodersPresent
  FontDicts <- SharedDescriptorDicts
  Datas <- OneData
  MissingRune = "?"
SPECIFICATION Spec
INVARIANT SameSourceSameDescriptor
