\* Reads and writes with failures and power loss between any two operations.
SPECIFICATION StateSpec
CONSTANTS
  a = a
  b = b
  x = x
  y = y
  empty = empty
  short = short
  long = long
  t1 = t1
  t2 = t2
  None = None
  Dir = Dir
  Torn = Torn
  Nodes <- MCNodes
  Above <- MCAbove
  Size <- MCSize
  Temps <- MCTemps
  Quota = 4
  NodeMax = 4
INVARIANTS
  LeftoversAccounted
  AnswersTrue
PROPERTIES
  WritesAtomic
