\* Two tabs of one browser share its cookies and its throttle.
CONSTANTS
    Browsers = {b1}
    Tabs = {t1, t2}
    Names = {n1}
    Passwords = {p1, p2}
    None = None
    Maximum = 2
    Window = 1
    Lifetime = 2
    CookieSecure = FALSE
    MaxClock = 3
    MaxSessions = 2
    MaxRestarts = 1
SPECIFICATION Spec
SYMMETRY Symmetry
INVARIANTS
    TypeOK
    OneAccountPerName
    ThrottleWindow
    RevokedTokenLeaves
PROPERTIES
    RefusalIsDue
    AcceptedIsLive
