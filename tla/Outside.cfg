SPECIFICATION Spec
CONSTANTS
    u1 = u1 c1 = c1 h1 = h1 ticker = ticker m1 = m1 m2 = m2 auto = auto boss = boss
    Subscribers = {u1} FirstAdmins = {u1} Customers = {c1} MaxInvoices = 1 PollLimit = 1 Hooks = {h1}
    Cycles = {ticker} MonthStarts <- Calendar DuesMonths = 1 GraceDays = 0 MaxDay = 2 StaffAmounts = {1} MaxExtras = 1
    Readers = {u1} Mailboxes = {m1, m2} FirstMailbox <- FirstM Protected = {} Reconcilers = {ticker}
    SyncEnabled = TRUE MaxReaderSteps = 3 MaxCallFailures = 1
    Kinds = {"wiki"} Editions <- EditionsM IncludeReadme = FALSE Updater <- UpdaterM Refreshers = {boss}
    Branches = {"main", "trunk"} InitialBranch = "main"
    MaxCommits = 2 MaxGitFailures = 2 MaxRefreshes = 2
PROPERTIES LedgerIsHonest MembershipSettles MailingListSettles PublishedPagesCatchUp
CHECK_DEADLOCK FALSE
