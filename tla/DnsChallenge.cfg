SPECIFICATION Spec
CONSTANTS
    apex = apex
    wildcard = wildcard
    other = other
    n1 = n1
    n2 = n2
    NoOrder = NoOrder
    NoDomain = NoDomain
    Workers = {w1, w2}
    OrderIds = {o1, o2, o3, o4}
    Domains <- MCDomains
    Names <- MCNames
    NameOf <- MCNameOf
    Orders <- MCOrders
SYMMETRY Interchangeable
INVARIANTS
    TypeOK
    OwnRecord
    NoneForgotten
