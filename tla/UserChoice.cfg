SPECIFICATION Spec
CONSTANTS
    Requests = {r1, r2}
    Passwords = {p1, p2}
    Tokens = {t1}
    Choices <- MCAnyChoice
    Unset = Unset
    None = None
SYMMETRY Symmetry
INVARIANTS RegistrationChoiceHolds
CHECK_DEADLOCK FALSE
