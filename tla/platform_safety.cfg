\* Two services or two experiments, with two requests under way at once.
CONSTANTS
    c1 = c1
    c2 = c2
    d1 = d1
    d2 = d2
    ann = ann
    bob = bob
    p = p
    checkout = checkout
    search = search
    color = color
    size = size
    Calls = {c1, c2}
    Clients = {d1, d2}
    Emails = {ann, bob}
    Passwords = {p}
    RoleCodes = {"ADMIN", "DEVELOPER", "OWNER"}
    FlagKeys = {color}
    Inputs <- Bodies
    MaxServices = 2
    MaxKeys = 1
    MaxFlags = 2
    MaxRows = 3
    MaxUnderWay = 2
SPECIFICATION FairSpec
INVARIANTS
    TypeOK
    LoginMeetsOneAccount
    AccountsComplete
    SessionsOfUsers
    RevokedIsRefused
    NoEmptyLayer
    OneServiceThroughout
    ListedIsComplete
PROPERTIES
    AdminsCreateTheirOwn
    ImplementsCatalogue
    RequestsEnd
