CONSTANTS
    c1 = c1
    c2 = c2
    Callers = {c1, c2}
    MaxMishaps = 1

    ada = ada
    t1 = t1
    t2 = t2
    s1 = s1
    s2 = s2
    Lecturers = {ada}
    Tabs = {t1, t2}
    OwnerOf <- MCOwnerOf
    Secretaries = {s1, s2}
    Sentences = {"no friday", "no evening"}
    SecretaryText = "edited"
    Atomics = {"friday", "late"}
    BlockAtomics = {"friday"}
    HardAtomics = {"friday"}
    RuleLists <- MCRuleLists
    FirstRows <- MCFirstRows
    Budgets <- MCBudgets
    MaxFailures = 1
    Gone = Gone

    Days = {1, 2, 3, 4, 5, 6}
    Friday = 6
    StartHour = 8
    EndRegular = 20
    EndFriday = 15
    NoSlot = NoSlot
    a = a
    b = b
    Texts = {a, b}
    AbsoluteTexts = {a}
    Atomizations <- MCAtomizations
    Inversions <- MCInversions
    Answers <- MCAnswers

    w1 = w1
    w2 = w2
    Clients = {w1, w2}

    ua = ua
    ub = ub
    h1 = h1
    h2 = h2
    q1 = q1
    q2 = q2
    q3 = q3
    d1 = d1
    Users = {ua, ub}
    Chats = {h1, h2}
    NoChat = NoChat
    Mailed = {ua}
    Messages = {q1, q2, q3, d1}
    Envelope <- MCEnvelope
    NoticeBudgets <- MCNoticeBudgets
    r1 = r1
    r2 = r2
    StartRequests = {r1, r2}
    TTL = 1
    MaxBreakdowns = 1
SPECIFICATION PartsSpec
SYMMETRY Symmetry
INVARIANTS
    TypeOK
    RunsAccounted
    SolvedRunIsStored
    StoreTypeOK
    SavedIsKept
    OriginalIsTheLecturers
    SolvedLooksFair
    PagesAgree
    EditorAcceptsPreview
    UnavailableIsKept
    OverlapIsRecorded
    TellsEveryStage
    LateJoinerHearsCurrent
    SessionForgotten
    ShownLinkWorks
    LinkOpensOnce
    RepeatsNeedACrash
    FinishedWasTried
PROPERTIES
    CompletedIsFinal
    AnnouncesStages
CHECK_DEADLOCK FALSE
