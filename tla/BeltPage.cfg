\* Two posts on one issue and a page that holds one; no kill, and clocks agree.
CONSTANTS
  Targets = {t1}
  MaxPosts = 2
  MaxClock = 4
  MaxKills = 0
  Overlap = 1
  Horizon = 2
  MaxSkew = 0
  Page = 1
SPECIFICATION BeltSpec
CHECK_DEADLOCK FALSE
INVARIANT PostsReachLane
