CONSTANTS
  c1 = c1
  c2 = c2
  x = x
  y = y
  i1 = i1
  i2 = i2
  g1 = g1
  w1 = w1
  w2 = w2
  e1 = e1
  e2 = e2
  h1 = h1
  star = star
  l1 = l1
  b1 = b1
  b2 = b2
  p1 = p1
  p2 = p2
  x1 = x1
  t80 = t80
  t90 = t90
  n1 = n1
  n2 = n2
  s1 = s1
  s2 = s2
  fix = fix
  dyn = dyn
  None = None
  Blank = Blank
  Odd = Odd
  Clients = {c1, c2}
  Names = {x, y}
  Images = {i1, i2}
  Gits = {g1}
  Words = {w1, w2}
  EnvLists = {e1, e2}
  Hosts = {h1, star}
  Wildcards = {star}
  Labels = {l1}
  Bounds = {b1, b2}
  Paths = {p1, p2}
  Execs = {x1}
  Ports = {t80, t90}
  Nodes = {n1, n2}
  Sizes = {s1, s2}
  Plans = {fix, dyn}
  PlanSize <- MCPlanSize
  Scenarios <- MCOtherHalf
  VerifyAttempts = 2
  MaxOthers = 0
SPECIFICATION Spec
CHECK_DEADLOCK FALSE
PROPERTIES
  CommandKeepsOtherHalf
