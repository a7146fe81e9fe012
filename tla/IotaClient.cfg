SPECIFICATION Spec
CONSTANTS
  start = start
  w = w
  q = q
  b1 = b1
  b2 = b2
  b3 = b3
  i = i
  j = j
  brake = brake
  car = car
  bus = bus
  None = None
  Calls = {start, w, q}
  Others = {b1, b2, b3}
  BlockOf <- MCBlockOf
  Ops <- MCOps
INVARIANTS TypeOK AnswersComplete NotFoundIsTrue WritesAreFound
PROPERTY CallsEnd
