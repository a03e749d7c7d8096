SPECIFICATION SSpec
CONSTANTS
    Q = 5
    Name = {api, evil}
    CA = {ca1, ca2}
    MaxSeq = 2
    WantName = api
    TrustedCA = ca1
    MayExpire = {0, 1}
    Totals = {9, 12, 20, 21}
    Quota = 20
INVARIANTS AnsweredOnlyIfVerified AnswerReadable Lockstep KeysAgree CommitFirst
PROPERTIES ServedIsPaid Settles ImplementsApp
CHECK_DEADLOCK FALSE
