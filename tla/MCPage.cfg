CONSTANTS
    Slots = {s1, s2}
    MaxPerWindow = 3
    MaxTexts = 2
    MaxDialogs = 2
    Long = {2}
    MaxClicks = 1
    MaxFaults = 2
    MailFaults = TRUE
    Configured = TRUE
    Autofill = TRUE
    Tabs = {t1, t2}
    Sites = {ecampus, portal}
    Duration = 2
    MaxMoment = 4
    MaxOpened = 1
    Clients = {c1}
    Requests = {r1, r2}
    Window = 2
    Max = 2
    SweepGap = 3
    Delay = 1
    MaxTime = 9
    Letters = {"a", "b"}
    Upper <- MCUpper
    Separators = {"-", "nl"}
    newline = "nl"
    Blanks = {"nl", "nb"}
    Stems <- MCStems
    MaxLength = 3
SPECIFICATION PageSpec
INVARIANTS
    OneMailEach
    FindsWhatIsSpelled
    BucketsGoAway
PROPERTIES
    RetryHelps
    PinsAsPressed
    LimitHeld
CHECK_DEADLOCK FALSE
