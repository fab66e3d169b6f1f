SPECIFICATION FairSpec
CONSTANTS
  NRows = 2
  Relays = {r1, r2}
  Operators = {op1, op2}
  EventTypeOf <- MCEventTypeOf
  PartitionKeyOf <- MCPartitionKeyOf
  Organizations = {"1"}
  KafkaOutcomes = {"ack", "lost", "late"}
  MaxAttempts = 2
  BatchSize = 2
  MaxReplays = 1
  MaxCrashes = 2
INVARIANTS NoEventLost OpenDeadLetterParksRow
PROPERTIES RequeueOnlyByReplay ImplementsDelivery EveryRowSettles
