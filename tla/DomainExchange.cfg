\* Two modern assistants and a legacy one, two domains and the empty one, and
\* two workers.
SPECIFICATION FairSpec
CONSTANTS
  Client = {c1, c2, c3}
  Legacy = {c3}
  Worker = {w1, w2}
  Domain = {d1, d2, empty}
  Empty = empty
  None = none
INVARIANTS
  TypeOK
  CacheIsCoherent
  RunsWithOwnDomain
PROPERTIES
  RequestsAreHandled
