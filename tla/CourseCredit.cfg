SPECIFICATION Cmi5Spec
CONSTANTS
    u1 = u1 s1 = s1 au1 = au1 g1 = g1 begin = begin low = low pass = pass fail = fail end = end
    Learners = {u1} StepIds = {s1} Terms <- TermsM MaxTrainingSteps = 2 MaxTrainingDay = 1
    Units = {au1} MoveOn <- MoveOnM Launches = {g1} StatementIds = {begin, pass, fail, low, end} Says <- SaysM
    MasteryScore = 1 FetchTtl = 1 SessionTtl = 1 MaxStatements = 3
INVARIANT CourseCreditExpires
CHECK_DEADLOCK FALSE
