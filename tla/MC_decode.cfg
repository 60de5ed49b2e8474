\* CharcodeBytesToUnicode against the text-extraction spec, every font
\* kind, every byte string of length at most 3, encoders always present.
CONSTANTS
  None = None
  Handles = {h1}
  FontNames <- MCFontNames
  Standard14 <- MCStandard14
  DescIds <- MCDescIds
  InitDoc <- MCInitDoc
  DirectDescs <- MCDirectDescs
  NewObjs <- MCNewObjs
  CmapStreams <- MCCmapStreams
  CmapOf <- MCCmapOf
  Encodings <- MCEncodings
  EncTable <- MCEncTable
  BuiltinEnc <- MCBuiltinEnc
  CIDEncoders <- CIDEncodersPresent
  FontDicts <- DecodeDicts
  Datas <- AllDatas
  MissingRune = "?"
SPECIFICATION Spec
INVARIANT TypeOK
PROPERTY DecodeRefinesSpec
