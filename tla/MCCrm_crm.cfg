CONSTANTS
    c1 = c1
    c2 = c2
    c3 = c3
    p1 = p1
    k1 = k1
    d1 = d1
    d2 = d2
    s1 = s1
    m1 = m1
    v1 = v1
    j1 = j1
    j2 = j2
    u1 = u1
    u2 = u2
    t1 = t1
    t2 = t2
    n1 = n1
    n2 = n2
    Nil = Nil
    Keep = Keep
    Id <- MCId
    KindOf <- MCKindOf
    Casts <- MCCasts
    Job <- MCJob
    User = {u1, u2}
    Tenant = {t1, t2}
    Cui = {n1, n2}
    Registered = {n1, n2}
    VatPayers = {n1}
    Year = {2026, 2027}
    MaxCode = 2
    Requests <- MCRequests
    Accesses <- MCAccesses
    Changing <- MCChanging
SYMMETRY MCSymmetry
SPECIFICATION Spec
INVARIANTS LinksLive CodesUnique MembersOfTheFirm VatFollowsRegistry CrmInv
PROPERTIES TeamReplacedAsSet TenantIsolation
