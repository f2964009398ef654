SPECIFICATION ListingSpec
CONSTANTS
  Blobs = {blob1, blob2}
  Pages = {page}
  Cards = {card1, card2}
  Shas <- MCShas
  FeedPlans <- MCFeedPlans
  Acls = {"open", "closed"}
  TreeCap = 1
  CardCap = 2
  Batch = 1
  Window = 1
  MaxRetries = 1
  MaxMoves = 1  MaxOutages = 2  MaxListings = 2
  blob1 = blob1  blob2 = blob2  page = page  card1 = card1  card2 = card2
  sha1 = sha1  sha2 = sha2
INVARIANT AclFollowsConfig
SYMMETRY FeedSymmetry
CHECK_DEADLOCK FALSE
