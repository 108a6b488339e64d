SPECIFICATION SamplingSpec
CONSTANTS
    r1 = r1 r2 = r2 m1 = m1 o1 = o1 o2 = o2 o3 = o3 c1 = c1 c2 = c2 c3 = c3 root = root x1 = x1 x2 = x2 x3 = x3
    h1 = h1 h2 = h2 h3 = h3 p1 = p1 s1 = s1 s2 = s2  EmptyRoot = empty  NoSource = noSource  Self = self
    None = none  Samplers = {c1, c2}  Pruners = {p1}  Heights = {h1, h2, h3}  Coords = {x1, x2, x3}
    Roots <- SamplingRoots  SampleAmount = 2  PartialResults = TRUE  MaxCrashes = 1
INVARIANT AvailableIsSampled
SYMMETRY Symmetry
CHECK_DEADLOCK FALSE
