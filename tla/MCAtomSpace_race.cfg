\* Two tenants: stores on different mutexes construct atoms concurrently.
CONSTANTS
    t1 = t1
    t2 = t2
    T1 = T1
    T2 = T2
    n1 = n1
    n2 = n2
    None = None
    Tenants = {t1, t2}
    Types = {T1, T2}
    Names = {n1, n2}
    MaxAtoms = 4

SPECIFICATION Spec

INVARIANTS
    IndexConsistency
