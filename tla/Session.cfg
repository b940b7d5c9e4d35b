SPECIFICATION FairSession
CONSTANTS
    ada = ada
    sue = sue
    c1 = c1
    c2 = c2
    NoUser = NoUser
    NumTabs = 2
    Users <- MCUsers
    SuperAdmins <- MCAdmins
    PhotoUsers <- MCPhotos
    Slots <- MCCalls
    MaxSessions = 2
INVARIANTS
    SessionTypeOK
    TabsMatch
PROPERTY SessionsEnd
