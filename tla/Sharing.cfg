CONSTANTS
    n1 = n1
    n2 = n2
    u1 = u1
    root = root
    m1 = m1
    m2 = m2
    g1 = g1
    g2 = g2
    a = a
    b = b
    Nobody = Nobody
    Anyone = Anyone
    Nodes = {n1, n2}
    Databases = {TRUE, FALSE}
    Users = {u1, root}
    Admins = {root}
    ModelIds = {m1, m2}
    Groups = {g1, g2}
    Names = {a}
    Lists <- MCLists
    Syncs <- MCSyncs
    Claims <- MCClaims
    MaxWork = 3
SYMMETRY Symmetry
SPECIFICATION Spec
INVARIANTS LastListWins NoOrphans  
CHECK_DEADLOCK FALSE
