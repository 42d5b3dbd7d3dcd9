SPECIFICATION Spec
PROPERTY StaysAliveForStreams
CHECK_DEADLOCK FALSE
CONSTANTS
  r1 = r1
  r2 = r2
  q1 = q1
  q2 = q2
  q3 = q3
  Rooms = {r1, r2}
  Requests = {q1, q2, q3}
