\* One row, a requester who may also authorize and a second authorizer, two
\* racing POSTs, the TTL sweep, one crash.
SPECIFICATION Spec
CONSTANTS
    r1 = r1
    alice = alice
    bob = bob
    p1 = p1
    p2 = p2
    Requests = {r1}
    Users = {alice, bob}
    Authorizers = {alice, bob}
    Requesters = {alice}
    Posts = {p1, p2}
    NoUser = NoUser
    NoRequest = NoRequest
    MaxCrashes = 1
SYMMETRY Symmetry
INVARIANTS
    TypeOK
    FourEyes
    SucceededWasAnswered
PROPERTIES
    SettledIsFinal
    ImplementsFourEyes
