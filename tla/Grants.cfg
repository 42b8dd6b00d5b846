\* Two terminals and two runners, over two actions and two commits.
CONSTANTS
  Issues = {i1}
  Actions = {a1, a2}
  Shas = {s1, s2}
  Nonces = {n1, n2}
  Minters = {m1, m2}
  Consumers = {c1, c2}
  Ttls = {1}
  MaxTime = 1
  None = None
SPECIFICATION GrantsSpec
SYMMETRY Symmetry
VIEW View
CHECK_DEADLOCK FALSE
INVARIANTS TypeOK OneGrantPerApproval RefusedMintMadeNothing GrantSpentOnce
PROPERTIES LiveGrantOnlySpent RefusalJustified ContractSpec
