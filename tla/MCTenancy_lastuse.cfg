SPECIFICATION Spec
CONSTANTS
    acme = acme
    ops = ops
    k1 = k1
    k2 = k2
    k3 = k3
    Requests = {r1, r2}
    Connections = {c1, c2}
    Tenants = {acme, ops}
    Keys = {k1, k2, k3}
    Names = {n1}
    Seeds = {w0}
    KeyTenant <- TenantOf
    KeyPrefix <- PrefixOf
    Admins = {k2}
    None = None
SYMMETRY Symmetry
PROPERTIES
    LastUseNeverGoesBack
CHECK_DEADLOCK FALSE
