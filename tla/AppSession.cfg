\* The bounds of the README; two attempts stand for five.
CONSTANTS
  p1 = p1  p2 = p2  a1 = a1  a2 = a2
  Phones = {p1, p2}
  Accounts = {a1, a2}
  Roles = {"buyer", "driver"}
  NoPhone = NoPhone
  NoAccount = NoAccount
  NoRole = NoRole
  Scenes <- MCScenes
  MaxAttempts = 2
  MaxCalls = 3
  MaxWrites = 1
SPECIFICATION FairSpec
INVARIANTS TypeOK PhoneShowsItsSession
PROPERTIES RoleLeadsHome RoleSetOnce
