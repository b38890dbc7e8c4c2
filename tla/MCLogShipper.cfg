\* Four lines, one of which buildPayload does not escape; batches of up to two.
CONSTANTS
  l1 = l1
  l2 = l2
  l3 = l3
  l4 = l4
  Line <- MCLine
  Unescaped <- MCUnescaped
  Threshold = 2
SPECIFICATION Spec
INVARIANTS TypeOK OnePlacePerLine BlocksAreRuns
PROPERTY DeliverySpec
CHECK_DEADLOCK FALSE
