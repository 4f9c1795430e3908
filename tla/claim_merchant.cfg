CONSTANTS
  ann = ann
  ben = ben
  p1 = p1
  p2 = p2
  None = None
  Ids = {ann, ben}
  Registered = {ann, ben}
  Passwords = {p1, p2}
  Initial <- MCInitial
  Seeded = {ben}
  Requests = {h1}
  Faults = {}
SPECIFICATION Spec
INVARIANTS SeededCanLogIn
