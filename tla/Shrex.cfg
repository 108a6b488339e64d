SPECIFICATION MCSpec
CONSTANTS
    s1 = s1  s2 = s2  r1 = r1  r2 = r2  m1 = m1  m2 = m2  o1 = o1  o2 = o2
    Heights = {1, 2}  Readers = {r1, r2}  Removers = {m1, m2}  Objects = {o1, o2}
    CacheSize = 1  Timeouts = TRUE  None = none
INVARIANTS AccessorsSound ResultIsTrue AnswersSound TimeIsShared
PROPERTY RequestsEnd
CHECK_DEADLOCK FALSE
