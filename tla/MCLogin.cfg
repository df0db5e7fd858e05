\* Three logins of two users by two clients: a client that logs in twice, a user
\* who logs in from both, logins that overtake each other and one restart.
CONSTANTS
    Elements <- TheElements
    IterationOrder <- TheOrder
    CRC32 <- TheCrc
    Users <- TheUsers
    Clients = {c1, c2}
    None = None
    MaxLogins = 3
    MaxRestarts = 1
SPECIFICATION LoginSpec
SYMMETRY ClientSymmetry
INVARIANTS
    MapsAgree
    ToldIsBound
    OneLoad
    BoundIsKnown
