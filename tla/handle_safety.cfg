SPECIFICATION Spec
CONSTANTS
  Handlers = {h1, h2, h3}
  Buffers = {b1, b2, b3}
  NoHandler = NoHandler
  NoBuffer = NoBuffer
SYMMETRY HandleSymmetry
INVARIANTS
  TypeOK
  BufferExclusive
  NoStreamLeaks
PROPERTIES
  ImplementsHandleContract
