SPECIFICATION Spec
CONSTANTS
    h1 = h1 h2 = h2 x1 = x1 k1 = k1 k2 = k2 fire = fire acked = acked beat = beat w1 = w1 w2 = w2
    d1 = d1 d2 = d2 t1 = t1 t2 = t2 v1 = v1 v2 = v2 placeholder = placeholder envdb = envdb filedb = filedb
    patron = patron b1 = b1
    HookIds = {h1, h2} HeaderIds = {x1} EventTypes = {k1, k2} ClassOf <- WebhookClasses Severities = {1, 2}
    MaxAttempts = 2 AdminEvent = k1 Subscriptions <- SubscriptionsM MaxEvents = 2
    AlertTypes = {fire, acked, beat} AlertClass <- AlertClasses AckEvent = acked BeatEvent = beat
    Watchers = {w1, w2} Notice = 1 HeartbeatInterval = 1 MaxAlertTime = 7 MaxBeats = 2
    Controllers = {d1, d2} BoundTools = {t1, t2} Window = 2 MaxBroadcastClock = 4 MaxRequests = 3
    Drafts <- DraftsM Defaults <- DefaultsM SecretPool = {v1, v2} Placeholder = placeholder EnvUrl = envdb
    Schemas <- SchemasM TypeOf <- TypesM FieldValues <- ValuesM Patrons = {patron} MaxSettingsSteps = 4
    Sources = {1, 2} CalendarOf <- CalendarsM Plans <- PlansM Zones <- ZonesM Days = {1} DayLength = 2 Lookahead = 1
    MaxEventsDisplay = 2 MaxEventsInWindow = 5 MaxOccurrences = 2 CacheTime = 1 PageReaders = {b1}
    MaxBustle = 2 LastHour = 1
INVARIANTS DeliveriesAreKept AlertsAreAccountedFor ChangesGoOut AnswersAsAgreed
PROPERTIES SettingsStaySound CalendarCatchesUp
CHECK_DEADLOCK FALSE
