SPECIFICATION Spec
CONSTANTS
    Clients = {c1, c2}
    NoClient = NoClient
    f1 = f1
    f2 = f2
    v1 = v1
    v2 = v2
    Absent = Absent
    Fields <- MCFields
    Vals = {v1, v2}
    Requests <- MCRequests
    MaxRevision = 3
    MaxLost = 2
SYMMETRY Symmetry
INVARIANTS WorkspaceInv AppliedOnce
PROPERTY NoLostUpdate
CHECK_DEADLOCK FALSE
