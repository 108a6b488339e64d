SPECIFICATION ServicesSpec
CONSTANTS
    n1 = n1
    c1 = c1
    Self = self
    Peers = {n1, n2}
    Offered = {n1, n2}
    advertise = FALSE
    Limit = 2
    Callers = {}
    MaxDisconnects = 0
    Reqs = {"r1", "r2", "r3"}  IP <- RequestIP  Token <- RequestToken  Burst = 2  CacheSize = 1  MaxConns = 2
    MaxRevokes = 1  MaxRestarts = 1  Starters = {"s", "u"}
INVARIANTS TransactionsSound FibreSound ServerSound SetBounded NodeSound StoreSound
CHECK_DEADLOCK FALSE
