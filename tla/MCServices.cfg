\* Usage: two workers, four calls, two billing periods, one lost key.
\* Invites: two browsers, two accounts, one of which signs up, two invites.
\* Two-factor sign-in: two tabs, three secrets.  Assignees: two members.
\* Codes: two forms, two addresses, two codes of two tries each (five in the
\* code), three verifications.  Selection: two organizations of up to two
\* projects, three acts of the user, one mishap.
CONSTANTS
  Callers = {w1, w2}
  Missing = Missing
  MaxPeriod = 1
  MaxCalls = 4
  MaxEvictions = 1
  Pages = {"first", "second"}
  Accounts = {"alice", "bob"}
  Registered = {"bob"}
  MaxInvites = 2
  MaxCrashes = 1
  MaxSecrets = 3
  Members = {"ann", "ben"}
  MaxToggles = 3
  Tabs = {t1, t2}
  Forms = {f1, f2}
  Addresses = {"alice", "bob"}
  AttemptLimit = 2
  MaxCodes = 2
  MaxTries = 3
  OrgNumbers = {1, 2}
  ProjectNumbers = {1, 2}
  SelectionActs = 3
  MaxMishaps = 1
SPECIFICATION ServicesSpec
\* a part that has done what its bounds allow rests
CHECK_DEADLOCK FALSE
INVARIANTS
  BillingRight
  DoneMeansMember
  NotLeftOut
  EnabledWasVerified
  TogglesKept
  SignInByCode
  ChoiceStays
