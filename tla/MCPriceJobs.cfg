CONSTANTS
  bitcoin = bitcoin
  wrapped = wrapped
  other = other
  Coins <- MCCoins
  Listings <- MCListings
  Answers <- MCAnswers
  Batch = 2
  Life = 2
  MaxStamps = 4
  MaxFaults = 1
SPECIFICATION Spec
SYMMETRY Symmetry
INVARIANTS RotationBound StampsBacked
