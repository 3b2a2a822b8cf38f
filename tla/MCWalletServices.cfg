SPECIFICATION ServicesSpec
CONSTANTS
  None = None
  W = W
  O = O
  V = V
  WT = WT
  OT = OT
  WN = WN
  OX = OX
  WX = WX
  WQ = WQ
  Q = Q
  M = M
  N = N
  Mints = {M, N, Q}
  Verified = {M}
  SideLegMin = 5
  Wallets = {W, O}
  Accounts <- AllAccounts
  StartLedger <- Ledger
  Instructions <- SomeInstructions
  Fee = 1
  Rent = 2
  MaxInstrs = 3
  o1 = o1
  o2 = o2
  p1 = p1
  p2 = p2
  Owners = {o1, o2}
  Asking = {o1}
  Positions = {p1, p2}
  OwnerOf <- OwnersOfStakes
  DayLength = 2
  LastTick = 3
  HistoryDays = 2
  MaxRises = 1
  MaxStakeTxs = 1
  MaxUnread = 1
  a1 = a1
  Stakes = {a1}
  Authorities <- Listed2
  RewardEpochs = 2
  LastEpoch = 6
  NoEpoch = NoEpoch
  Nothing = Nothing
  Unset = Unset
  Holdings <- SomeHoldings
  Limit = 2
  DasLimit = 2
  DuplicateNameMinCount = 2
  MaxPages = 2
  People = {W, O}
  Nobody = Nobody
  Kinds <- AllKinds
  Addresses <- SomeAddresses
  ExtendChunkSize = 2
  MaxHandovers = 2
  Batches <- SomeBatches
  MaxEventsPerBatch = 4
  MaxEventsPerRequest = 2
  TicksOfDay = 4
  TicksOfHour = 2
  LastInstant = 3
  MaxSends = 2
  BtcChain <- SomeChain
  FirstMined = 4
  ChainPage = 2
  FirstAnswer <- SomeFirstAnswers
  BtcSizes = {0, 1, 3}
  MinPageSize = 2
  MaxPageSize = 5
  MaxHostFailures = 2
  MaxReopened = 1
  stockMint = stockMint
  steadyMint = steadyMint
  communityMint = communityMint
  goneMint = goneMint
  oddMint = oddMint
  HeldMints = {stockMint, steadyMint, communityMint, goneMint, oddMint}
  MintOf <- SomeMints
  Multipliers = {1, 2}
  ShortTtl = 2
  MaxMintsPerBatch = 1
  LastClock = 4
  MaxSettings = 1
  MaxLookups = 2
  MaxLookupFailures = 1
INVARIANTS
  LegsExact
  CounterpartyTrue
  HiddenLosesNothing
  CalmHistoryExact
  StakesAsOnChain
  HoldingsShown
  TableAsBuilt
  BuiltDoesWhatWasAsked
  BatchAccounted
  AddressAsOnChain
  BalanceAsHeld
CHECK_DEADLOCK FALSE
