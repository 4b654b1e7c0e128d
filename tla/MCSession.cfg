SPECIFICATION FairSpec
CONSTANTS
  buyer = buyer
  agent = agent
  d1 = d1
  d2 = d2
  Signers = {buyer, agent}
  Docs = {d1, d2}
  Step <- BuyerFirst
  Of <- Packet
  Slots = {s1, s2}
  MaxSends = 1
  MaxHandoffs = 1
  MaxSubmits = 3
  MaxCrashes = 1
CHECK_DEADLOCK FALSE
INVARIANTS
  FinalizedOnlySigned
  InRoutingOrder
  OneSeesTheEnd
PROPERTIES
  PacketFinalizes
