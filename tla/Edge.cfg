SPECIFICATION EdgeSpec
CONSTANTS
    c1 = c1
    c2 = c2
    c3 = c3
    n1 = n1
    n2 = n2
    n3 = n3
    e1 = e1
    e2 = e2
    t1 = t1
    t2 = t2
    t3 = t3
    Coord = {c1, c2, c3}
    Dn = {n1, n2, n3}
    Label <- Racks
    Unlabelled = ""
    DefaultR = 3
    Admin = {a1, a2}
    Edge = {e1, e2}
    Thread = {t1, t2, t3}
    EdgeOf <- EdgeOfThread
    TTL = 1
    Timeout = 1
    Kid <- Kids
    Secret = {1, 2}
    DefaultKid = 1
    EnvSecret = 1
    Setups <- AllSetups
INVARIANTS PlacesRegistered AtMostOnce RedirectSuffices StaleBound OwnWritesSeen OnePrimary SignerUsable
PROPERTIES KeysConverge
CHECK_DEADLOCK FALSE
