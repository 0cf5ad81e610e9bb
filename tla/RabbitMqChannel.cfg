SPECIFICATION ChannelSpec
CONSTANTS
  Channels = {c1, c2}
  Messages = {m1, m2}
  Consuming = {c1}
  Getting = {c2}
  MaxTag <- MCMaxTag
  MaxLate = 1
INVARIANTS
  OnlySettledMessagesVanish
  EveryDeliveryHasAnOwner
  YieldsInOrder
PROPERTIES
  CancelledConsumersEnd
CHECK_DEADLOCK FALSE
