SPECIFICATION Spec
CONSTANTS p1 = p1 p2 = p2 p3 = p3 w1 = w1 h1 = h1 h2 = h2 v1 = v1 c1 = c1 None = None
INVARIANTS PeersSound
PROPERTY PeersProgress
CHECK_DEADLOCK FALSE
