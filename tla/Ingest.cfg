SPECIFICATION Spec
CONSTANTS
  d1 = d1  d2 = d2  q1 = q1  q2 = q2
  Delivery = {d1, d2}
  Request = {q1, q2}
  RowLimit = 4
  None = None
INVARIANTS
  TypeOK
  OneRowPerDelivery
  HonestAnswer
PROPERTIES
  NoCompounding
  RecordedIsSettled
