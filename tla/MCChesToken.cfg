SPECIFICATION Spec
CONSTANTS
    Mails = {m1, m2}
    Timeout = 2
    Buffer = 4
    Lifetimes = {0, 3, 6, 7}
INVARIANTS
    CachedTokenValid
PROPERTIES
    SendsMail
