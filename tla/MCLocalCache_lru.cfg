SPECIFICATION Spec
CONSTANTS
  u1 = u1  u2 = u2  a = a  b = b  c = c  big = big
  Key = {a, b, c, big}
  Client = {u1, u2}
  SizeOf <- Sizes
  MaxBytes = 2
  None = None
SYMMETRY Symmetry
INVARIANTS Accounted RecentSurvives
PROPERTY ImplementsLru
