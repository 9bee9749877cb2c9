CONSTANTS
  Posts = {p, q}
  WebPosts = {w}
  NoInput = NoInput
SPECIFICATION FairSpec
INVARIANTS ExactlyOnePlace AgentUnderGuard SuspendedHasCheckpoint DoneDrainsAll
PROPERTIES StopEndsTurn
