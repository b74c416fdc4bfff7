SPECIFICATION Spec
CONSTANTS
    b1 = b1 b2 = b2 p1 = p1 p2 = p2 wrong = wrong t1 = t1 k1 = k1 r1 = r1 l1 = l1 l2 = l2 c1 = c1 c2 = c2
    u1 = u1 u2 = u2 a1 = a1 a2 = a2 
    v1 = v1 v2 = v2 admin = admin guest = guest custom = custom d1 = d1 d2 = d2
    q1 = q1 q2 = q2 q3 = q3 card1 = card1 card2 = card2 code1 = code1 row1 = row1 key1 = key1 door1 = door1
    s1 = s1 au1 = au1 g1 = g1 begin = begin low = low pass = pass fail = fail end = end
    Browsers = {b1, b2} MaxRequests = 5 Passwords = {p1, p2} FirstPassword = p1 WrongPassword = wrong
    Authenticators = {t1} Passkeys = {k1} RecoveryCodes = {r1} ResetLinks = {l1, l2} ChallengeTokens = {c1, c2}
    ThrottleAttempts = 1 LockoutTime = 1 ResetTtl = 1 ChallengeTtl = 1 MaxTime = 1
    Holders = {u1, u2} Addresses = {a1, a2} SetupAddress = a1 ClaimTtl = 1 MaxEmailSteps = 5 MaxHour = 1
    Staff = {v1, v2} FirstStaff = {v1} TierRoles = {admin, guest} CustomRoles = {custom}
    AdminRole = admin GuestRole = guest Desks = {d1, d2} MaxEdits = 3
    Persons = {q1, q2, q3} PersonLevel <- LevelsOf FoldedName <- NamesOf FoldedEmail <- NamesOf
    CardIds = {card1, card2} Codes = {code1} Rows = {row1} PairKeys = {key1} Guarded = {door1} MaxMergeSteps = 4
    Learners = {u1} StepIds = {s1} Terms <- TermsM MaxTrainingSteps = 4 MaxTrainingDay = 2
    Units = {au1} MoveOn <- MoveOnM Launches = {g1} StatementIds = {begin, pass, fail, low, end} Says <- SaysM
    MasteryScore = 1 FetchTtl = 1 SessionTtl = 1 MaxStatements = 3 MaxCourseSteps = 2 MaxCourseDay = 1
INVARIANTS SecretsAreSpentOnce AccountIsGuarded AddressesKeepTheirHolders CoursesGiveDueCredit
PROPERTIES RolesStaySound MergesKeepWhatCounts TrainingIsEarned
CHECK_DEADLOCK FALSE
