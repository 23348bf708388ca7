\* Two clients, up to two accounts at the start and one loss of the session; no
\* symmetry, because of the liveness property.
CONSTANTS
  MaxClients = 2
  Names = {x, y}
  Passwords = {pw1, pw2}
  MaxAccounts = 2
  MaxLosses = 1
  None = none
SPECIFICATION FairSpec
INVARIANTS
  AccountsUnique
  AnswersAreTrue
PROPERTIES
  LoginFindsOwner
  RequestEnds
\* A server without new clients rests.
CHECK_DEADLOCK FALSE
