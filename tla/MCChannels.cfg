SPECIFICATION Spec
CONSTANTS
  RegionNames = {"EU868", "EU433", "CN779", "RU864", "KR920", "IN865", "AS923", "CN470", "US915", "AU915"}
  FullRegions = {"EU868", "AU915", "CN470"}
  Parameters <- MCParameters
  InitialRates = {0, 3, 5}
  Frequencies <- MCFrequencies
  LinkADRReqs <- MCLinkADRReqs
  NewChannelReqs <- MCNewChannelReqs
  DLChannelReqs <- MCDLChannelReqs
  CFLists <- MCCFLists
  Offsets <- MCOffsets
  MaxChannels = 8
  Draws <- MCDraws
INVARIANTS
  TypeOK
  ReservedIntact
  ChannelsExist
  Rx1Decodable
PROPERTIES
  SwitchPicksUsable
CHECK_DEADLOCK FALSE
