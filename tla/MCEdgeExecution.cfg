SPECIFICATION Spec
CONSTANTS
  p1 = p1
  p2 = p2
  p3 = p3
  f2 = f2
  a = a
  x = x
  Self = Self
  Zero = Zero
  Digests = {p1, p2, p3, f2}
  last_executed <- MCParent
  EpochAfter <- MCEpochAfter
  CommitteeAfter <- MCCommittees
  Chain = {p1, p2, p3}
  Nodes = {a, x, Self}
  Diverged = {x}
  Forged <- MCForged
  MaxTimeouts = 1
  MaxRequests = 1
  MaxRestarts = 1
INVARIANTS FollowsChain EdgeInv StoreFollowsEpoch
CHECK_DEADLOCK FALSE
