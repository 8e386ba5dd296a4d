\* Notices, contracts, the slots of promo codes, the entitlements, the
\* maintenance lock and an archived file, each by itself.
CONSTANTS
    t1 = t1
    t2 = t2
    t3 = t3
    Tells <- ThreeTells
    Lease = 1
    Horizon = 3

    c1 = c1
    c2 = c2
    Callers <- TwoCallers
    BeginsUnder = {0, 1}
    MaxContracts = 3
    LastMoment = 3

    p1 = p1
    p2 = p2
    o1 = o1
    o2 = o2
    NoCode = NoCode
    NoOffer = NoOffer
    PromoCodes <- TwoCodes
    Offers <- TwoOffers
    Started <- OneOffer
    Starts <- TwoCallers
    Limit = 1
    OpeningTime = 1
    FormTime = 2
    LastStart = 1
    MaxChanges = 1

    n1 = n1
    n2 = n2
    NoTenant = NoTenant
    Tenants <- TwoTenants
    Askers <- TwoCallers
    TimeToLive = 2
    MaxEntries = 1
    MaxMutations = 1
    LastDate = 1

    m1 = m1
    m2 = m2
    Nobody = Nobody
    Processes <- OneProcess
    Operators <- OneOperator
    MaxAge = 1
    MaxWindows = 2
    LastInstant = 1

    f1 = f1
    f2 = f2
    f3 = f3
    NoFile = NoFile
    Decayed = Decayed
    Workers <- TwoCallers
    Files <- ThreeFiles
    RefusedFiles <- OneFile
    MailLease = 1
    LastHour = 3

SPECIFICATION Spec
SYMMETRY Symmetry

CHECK_DEADLOCK FALSE  \* every call and request is over, and the clocks are at their bounds

INVARIANTS
    NoticeTypeOK
    RecordedOnceReached
    ContractsTypeOK
    NoneBeside
    GovernedUntilTheEnd
    PromoTypeOK
    SlotsAreCounted
    NeverOversold
    KeptUnlessStartedLate
    EntitlementTypeOK
    AsComputedUnlessUnwatched
    MaintenanceTypeOK
    KnownInTime
    OneFileAsIssued

PROPERTIES
    TakenOnOnceStale
    RecordedOnce
    EndsByItsUnlock
    LetsThroughInTime
    MailedAsTold
