SPECIFICATION MCSpec
CONSTANTS
  first = first
  retry = retry
  other = other
  plain = plain
  bar = bar
  k1 = k1
  NoKey = NoKey
  NoRow = NoRow
  NoEnvelope = NoEnvelope
  Envelopes = {first, retry, other, plain, bar}
  Barriers = {bar}
  Keys = {k1}
  KeyOf <- MCKeyOf
  HashOf <- MCHashOf
  Capacity = 2
  MaxFaults = 2
  MaxRestarts = 1
INVARIANTS
  AllOrNothing
  AnswerIsTrue
  BarrierMeansDrained
PROPERTY
  KeepsPromise
  QueueMoves
CHECK_DEADLOCK FALSE
