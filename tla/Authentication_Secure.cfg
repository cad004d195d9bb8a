\* One tab, with Secure cookies.
CONSTANTS
    Browsers = {b1}
    Tabs = {t1}
    Names = {n1}
    Passwords = {p1, p2}
    None = None
    Maximum = 2
    Window = 1
    Lifetime = 2
    CookieSecure = TRUE
    MaxClock = 3
    MaxSessions = 2
    MaxRestarts = 1
SPECIFICATION Spec
PROPERTY LogoutExpiresCookies
