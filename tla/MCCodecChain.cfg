SPECIFICATION Spec
CONSTANTS
  FrameSize = 3
  AesBlock = 3
  InBuffer = 6
  Methods = {"COPY", "SWAP2", "SWAP4", "LZ4", "BROTLI", "AES"}
  MaxChain = 3
  MaxData = 9
  ReadSizes = {1, 2, 3, 5}
INVARIANT TypeOK
INVARIANT CutsDoNotShow
INVARIANT DecodesWhatWasPushed
CHECK_DEADLOCK FALSE
