SPECIFICATION FairSpec
CONSTANTS
  SeqMod = 2
  Packets = {0, 1}
  Capacity = 2
  QueueCap = 1
  MaskBits = 2
  NackStarts = {0, 3}
  Streams = {{2}, {0, 2}, {0, 1, 2}}
  NoLayer = NoLayer
  NoPacket = NoPacket
INVARIANTS NackPairsNameTheMissing GetFindsTheWindow
PROPERTIES BufferIsWindow LossNeverRaisesLayer FlowsOn SwitchesComplete
CHECK_DEADLOCK FALSE
