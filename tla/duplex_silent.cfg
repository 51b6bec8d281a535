SPECIFICATION SilentSpec
CONSTANTS
  MaxLines = 1
  MaxEvents = 1
  BodyQueue = 1
PROPERTIES
  ProducerEndsWithRequest
CHECK_DEADLOCK FALSE
