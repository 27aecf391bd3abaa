SPECIFICATION Spec
CONSTANTS
  program = program
  notification = notification
  processor = processor
  Threads <- ThreadSet
  Interrupts <- InterruptSet
  Sinks = 2
  RecordSize = 2
  MaxRecords = 3
INVARIANTS
  SerializedFanOut
PROPERTIES
  EverySinkAttempted
  LogReturns
\* When no more records are begun, the system has nothing left to do.
CHECK_DEADLOCK FALSE
