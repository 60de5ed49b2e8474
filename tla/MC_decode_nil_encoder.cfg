\* CharcodeBytesToUnicode against the text-extraction spec when a Type0 or
\* CID font constructor leaves the encoder nil.
CONSTANTS
  None = None
  Handles = {h1}
  FontNames <- MCFontNames
  Standard14 <- MCStandard14
  DescIds <- MCDescIds
  InitDoc <- MCInitDoc
  DirectDescs <- MCDirectDescs
  NewObjs <- MCNewObjs
  CmapStreams <- MCCmapStreams
  CmapOf <- MCCmapOf
  Encodings <- MCEncodings
  EncTable <- MCEncTable
  BuiltinEnc <- MCBuiltinEnc
  CIDEncoders <- CIDEncodersMaybeNil
  FontDicts <- DecodeDicts
  Datas <- AllDatas
  MissingRune = "?"
SPECIFICATION Spec

PROPERTY DecodeRefinesSpec
