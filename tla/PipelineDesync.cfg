SPECIFICATION SSpec
CONSTANTS
    Q = 5
    Name = {api, evil}
    CA = {ca1, ca2}
    MaxSeq = 2
    WantName = api
    TrustedCA = ca1
    MayExpire = {}
    Totals = {9, 12, 20, 21}
    Quota = 20
INVARIANT NoDesync
CHECK_DEADLOCK FALSE
