SPECIFICATION Spec
CONSTANTS
  Handlers = {h1, h2}
  Buffers = {b1, b2}
  NoHandler = NoHandler
  NoBuffer = NoBuffer
PROPERTIES
  ResponseIsOwn
