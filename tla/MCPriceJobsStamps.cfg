CONSTANTS
  bitcoin = bitcoin
  wrapped = wrapped
  other = other
  Coins <- MCCoins
  Listings <- MCListings
  Answers <- MCAnswers
  Batch = 2
  Life = 2
  MaxStamps = 2
  MaxFaults = 0
SPECIFICATION Spec
SYMMETRY Symmetry
INVARIANT StampedWhenPriced
