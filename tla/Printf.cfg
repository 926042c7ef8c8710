CONSTANTS
  BufferSize = 8
  Modulus <- MCModulus
  PointerDigits = 4
  SizeMax = 99
  MemorySize = 14
  Calls <- MCCalls
  HandlerFormat <- MCHandlerFormat
SPECIFICATION Spec
INVARIANTS
  TypeOKPrintf
  ConversionsReadBack
  BufSuffices
  BufferIsRespected
  ReturnsTheLength
  OutputIsNotMixed
