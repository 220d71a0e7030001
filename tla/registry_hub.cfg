SPECIFICATION Spec
CONSTANTS
    a1 = a1
    a2 = a2
    b1 = b1
    na = na
    nb = nb
    r1 = r1
    r2 = r2
    Sessions = {a1, a2, b1}
    Names = {na, nb}
    Provides <- ProvidesDef
    Handlers = {nb}
    Requests = {r1, r2}
    From <- FromDef
    Wants <- WantsDef
    HubMode = TRUE
    NoSession = NoSession
INVARIANTS TypeOK IndexSound UniqueNamesFound
CHECK_DEADLOCK FALSE
