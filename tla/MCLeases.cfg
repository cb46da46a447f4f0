SPECIFICATION Spec
CONSTANTS
    Clients = {c1, c2, c3}
    NoClient = NoClient
    b1 = b1
    r1 = r1
    r2 = r2
    Bindings <- MCBindings
    RunIds <- MCRunIds
    Owner <- MCOwner
    MaxTtl = 2
    MaxEpoch = 4
SYMMETRY Symmetry
INVARIANT FencingInv
PROPERTIES FencingOrder QuarantineFinal
