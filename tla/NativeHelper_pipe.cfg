SPECIFICATION FairSpec
CONSTANTS
  Requests = {q, r}
  Pids = {1, 2}
  Room = 1
INVARIANTS AnswersMatch RegistryIsTold
PROPERTIES RequestsEnd
