SPECIFICATION Spec
CONSTANTS
  Base = {btc, x}
  Core = {btc}
  Meme = {}
  Seeds = {btc, x}
  Tier1Size = 1
  Grace = 2
  None = None
INVARIANTS
  TypeOK
  PromotionsKept
  FeedMatchesWatchlist
  TableMatchesMemory
  TransitionsLogged
  ChangesResolve
PROPERTY
  GraceIsFull
