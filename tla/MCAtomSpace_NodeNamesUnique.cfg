\* One tenant: does the code keep the spec's promise NodeNamesUnique?
CONSTANTS
    t1 = t1
    t2 = t2
    T1 = T1
    T2 = T2
    n1 = n1
    n2 = n2
    None = None
    Tenants = {t1}
    Types = {T1, T2}
    Names = {n1, n2}
    MaxAtoms = 4

SPECIFICATION Spec

INVARIANTS
    NodeNamesUnique
