\* Three runs over two items; three attempts at one; a belt over two issues.
CONSTANTS
  Count = 2
  MaxRuns = 3
  MaxSteps = 1
  MaxChanges = 1
  MaxAttempts = 3
  Legacy = {TRUE, FALSE}
  t1 = t1
  i1 = i1
  Targets = {t1, t2}
  MaxPosts = 2
  MaxClock = 3
  MaxKills = 1
  Overlap = 1
  Horizon = 2
  MaxSkew = 1
  Page = 1
  Issues = {i1, i2}
  MaxMarkers = 2
  MaxSessions = 2
  MaxDeaths = 2
SPECIFICATION UnattendedSpec
CHECK_DEADLOCK FALSE
INVARIANTS UnattendedTypesOK PushRecorded NotRedoneUnasked OneOpenPr OnlyGreenPushed
INVARIANTS SkippedWasJudged FirstPushVisible ProposedWasGreen AttemptsKept PostsDelivered OffersTold
PROPERTY QueuedStays
