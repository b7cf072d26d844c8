SPECIFICATION Spec
CONSTANTS
    Admin = Admin
    None = None
    Absent = Absent
    Owner = Owner
    d1 = d1
    d2 = d2
    p1 = p1
    b1 = b1
    v1 = v1
    t1 = t1
    pol1 = pol1
    req1 = req1
    hol1 = hol1
    e1 = e1
    a1 = a1
    a2 = a2
    r1 = r1
    w1 = w1
    o1 = o1
    s1 = s1
    IdsOf <- Ids
    Grants <- GrantsOf
    MaxRows = 3
INVARIANTS
    TypeOK
    OffersOpen
PROPERTIES
    OnlyDeletersRemove
    HiddenStaysPut
SYMMETRY Alike
