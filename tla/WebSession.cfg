\* Two logins, two changes of the password, one call; a session may be ended in
\* every way at any time, and the user suspended for good.
SPECIFICATION WebSpec
CONSTANTS
    Sess = {s1, s2}
    Change = {c1, c2}
    Call = {k1}
    MaxPwd = 2
    none = none
INVARIANTS
    OldPasswordOverlapped
    FirstPasswordIdle
PROPERTIES
    ReplacesKnown
