SPECIFICATION Spec
CONSTANTS
    Users = {u1, u2, u3}
    Sessions = {s1, s2}
    Target = 2
    NoUser = NoUser
    NoSession = NoSession
SYMMETRY Symmetry
PROPERTIES
    NoEntryAfterClose
