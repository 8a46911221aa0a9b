\* Two requests at a time for each endpoint; time and edits are not bounded.
SPECIFICATION Spec
CONSTANTS
    Requests = {r1, r2}
    Endpoints = {"github", "projects", "langs", "activity"}
    Refresh = 2
    Ttl = 3
    Delay = 1
SYMMETRY RequestSymmetry
INVARIANTS
    TypeOK
    FreshAnswers
    ErrorNeedsBoth
