SPECIFICATION Spec
CONSTANTS
  Request = {r1}
INVARIANTS AuthServed
