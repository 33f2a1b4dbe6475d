SPECIFICATION FairSpec
CONSTANTS
  Senders = {s, t}
  MaxSends = 2
  Lengths = {2, 4, 5}
  HeaderSize = 2
  SizeMod = 4
  Capacity = 3
  Nobody = Nobody
INVARIANT TypeOK
PROPERTIES
  ImplementsChannel
  Delivered
  SendsReturn
