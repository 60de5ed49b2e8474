\* Two handles over fonts whose descriptor is a direct dictionary: loads,
\* copies, serialisation (which creates the descriptor's container) and
\* reloading what it returned.
CONSTANTS
  None = None
  Handles = {h1, h2}
  FontNames <- MCFontNames
  Standard14 <- MCStandard14
  DescIds <- MCDescIds
  InitDoc <- MCInitDoc
  DirectDescs <- MCDirectDescs
  NewObjs <- MCNewObjs
  CmapStreams <- MCCmapStreams
  CmapOf <- MCCmapOf
  Encodings <- MCEncodings
  EncTable <- MCEncTable
  BuiltinEnc <- MCBuiltinEnc
  CIDEncoders <- CIDEncodersPresent
  FontDicts <- DirectDescriptorDicts
  Datas <- OneData
  MissingRune = "?"
SPECIFICATION Spec
PROPERTY SerialisedDescriptorKept
CONSTRAINT SerialisationOnly
