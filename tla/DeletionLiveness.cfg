\* Two racing POSTs by the second authorizer and no crash, under fairness.
SPECIFICATION FairSpec
CONSTANTS
    r1 = r1
    alice = alice
    bob = bob
    p1 = p1
    p2 = p2
    Requests = {r1}
    Users = {alice, bob}
    Authorizers = {bob}
    Requesters = {alice}
    Posts = {p1, p2}
    NoUser = NoUser
    NoRequest = NoRequest
    MaxCrashes = 0
PROPERTY ApprovedSettles
