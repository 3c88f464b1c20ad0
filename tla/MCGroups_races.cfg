CONSTANTS
    Channel = {c}
    User = {a, b}
    Call = {k1, k2}
    Demo = {a}
    MaxNow = 1
    MaxCalls = 3
    None = None
SYMMETRY Symmetry
SPECIFICATION Spec
PROPERTIES MembersLeaveByDecision AdmissionExtends AdminsHandOver
