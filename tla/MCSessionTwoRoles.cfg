SPECIFICATION FairSpec
CONSTANTS
  buyer = buyer
  agent = agent
  d1 = d1
  d2 = d2
  Signers = {buyer}
  Docs = {d1}
  Step <- BuyerFirst
  Of <- OneBuyer
  Slots = {s1}
  MaxSends = 1
  MaxHandoffs = 0
  MaxSubmits = 1
  MaxCrashes = 0
CHECK_DEADLOCK FALSE
PROPERTY
  PacketFinalizes
