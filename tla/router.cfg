CONSTANTS
  c1 = c1 c2 = c2 c3 = c3 s1 = s1 s2 = s2 k = k
  Calls = {c1, c2, c3}
  Sessions = {s1, s2}
  ClientTokens = {k}
  NoToken = NoToken
  SessionOf <- MCSessionOf
  TokenOf <- MCTokenOf
  CleanupDelay = 2
  MaxGap = 1
  MaxProgress = 1
  Logs = {l1}
SPECIFICATION FairSpec
INVARIANTS TypeOK RightClient NothingLost NoOrphans LogsHeard
PROPERTIES KeepsPromise NothingLeaks EveryReportIsSent
