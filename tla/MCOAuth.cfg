SPECIFICATION MCSpec
SYMMETRY Sym
CONSTANTS
    Reqs = {p, q}
    Clients = {"c"}
    Codes = {"k"}
    Scopes = {a}
    MaxTokens = 4
    Users = {u}
    Tokens = {t, s}
    NoUser = NoUser
    NoToken = NoToken
    MaxEpoch = 1
CHECK_DEADLOCK FALSE
INVARIANTS OneExchangePerCode  OldSessionsEnd DeadStayDead
