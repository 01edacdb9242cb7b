SPECIFICATION Spec
CONSTANTS
    Hosts = {h1, h2}
    Contexts = {c1, c2, c3}
    Detached = {c3}
    Scopes = {s1, s2}
    Tebs = {b1, b2}
    Errors = {0, 1}
    Free = Free
    Reserved = Reserved
    None = None
    MaxScopeCount = 2
    MaxReferences = 3
SYMMETRY Symmetry
INVARIANTS
    ContextsAreSafe
    TebsAreSafe
    LastErrorSurvives
