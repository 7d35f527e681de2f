\* Two tenants and one that does not exist; two chains of any number of
\* requests each; room for an integration with two children or two of them.
CONSTANTS
    Rows = {x1, x2, x3, x4}
    Tenants = {a, b}
    Strangers = {z}
    Chains = {c1, c2}
    NULL = NULL
SPECIFICATION Spec
SYMMETRY Symmetry
INVARIANTS
    TypeOK
    HandlersRunAsTheirCaller
    SessionsHoldOwnRows
    WritesStayHome
    ChildrenFollowParents
    RefreshFindsTheRow
