\* Six services side by side: see MCServices
SPECIFICATION ServicesSpec
CONSTANTS
    Item = {i1}
    Page = {default, page}
    DefaultPage = default
    Publisher = {w1, w2}
    NoItem = noItem
    MaxAttempts = 2
    RetryBound = 1
    StageCount = 4
    ReviewStage = 1
    ApprovalStage = 2
    PublishStage = 3
    StageAttempts <- Attempts
    Runner = {r1, r2}
    AttemptBound = 3
    Parcel = {p1, p2}
    Dispatcher = {d1, d2}
    NoDispatcher = noDispatcher
    ClaimLimit = 2
    OverrunBound = 2
    DeathBound = 1
    Owner = {o1}
    Performer = {x1}
    Visitor = {n1, n2}
    Setting = {s1, s2}
    keptSetting = s1
    n1 = n1
    n2 = n2
    Unset = unset
    ActionCount = 2
    AccidentBound = 1
    Auditor = {u1, u2}
    AuditBackends = {"sqlite", "postgres"}
    EventBound = 3
    c1 = c1
    c2 = c2
    c3 = c3
    a1 = a1
    a2 = a2
    k1 = k1
    p1 = p1
    p2 = p2
    Calls = {c1, c2, c3}
    Keys = {k1}
    Actions = {a1, a2}
    Approvals = {p1, p2}
    Key <- MCKey
    ActionOf <- MCAction
    Token <- MCToken
    Bound <- MCBound
    NoAction = noAction
    NoApproval = noApproval
INVARIANTS
    PublishingIsOwned
    PostsAreInOrder
    RunMatchesStages
    PublishedAsApproved
    DeliveredWasAccepted
    LogMatchesState
    ActedAsApproved
    ForksAreNarrow
PROPERTIES
    PublishedIsKept
    RunVerdictIsFinal
    LiveClaimIsRespected
    EveryClaimEnds
    StateEditsAreOwned
    ApprovalsSettle
    ImplementsLedger
CHECK_DEADLOCK FALSE
