SPECIFICATION Spec
CONSTANTS
    Requests = {r1, r2}
    Passwords = {p1, p2}
    Tokens = {t1}
    Choices <- MCOneChoice
    Unset = Unset
    None = None
SYMMETRY Symmetry
INVARIANTS TypeOK RegisteredCanLogIn SettingsAsAsked
PROPERTIES OnlyStaleSettingsRevert
CHECK_DEADLOCK FALSE
