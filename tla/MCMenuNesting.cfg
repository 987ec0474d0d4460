SPECIFICATION MCSpec
CONSTANTS
  Handlers = {h1, h2}
  Readers = {c1, c2}
  Rests = {r1, r2}
  Owners = {o1, o2}
  Cats = {k1, k2, k3}
  Items = {i1}
  Groups = {g1, g2}
  Options = {p1, p2}
  Banners = {b1}
  Cuisines = {x1}
  Rated = r1
  RatedOrders = {d1, d2, d3}
  Posts = {t1, t2, t3}
  None = none
  Keep = keep
  NoOrder = noOrder
  Keys <- MCKeys
  MaxTasks = 5
  MaxChores = 5
  MaxEdits = 5
  MaxPosts = 4
SYMMETRY Symmetric
INVARIANT NestingOneLevel
CHECK_DEADLOCK FALSE
