SPECIFICATION Spec
CONSTANTS
    h1 = h1
    h2 = h2
    Handlers = {h1, h2}
    Passwords = {"pw1", "pw2"}
    Topics = {"users", "groups"}
    MaxCalls = 4
    MaxDeaths = 2
SYMMETRY HandlerSymmetry
INVARIANTS TypeOK CreatedIsComplete LoneCallsDoAsTheySay LoginIsRight ListIsRight
CHECK_DEADLOCK FALSE
