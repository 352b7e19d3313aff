SPECIFICATION Spec
CONSTANTS
  Wishes <- MCWishes
  UpMessages <- MCUpMessages
  DownMessages <- MCDownMessages
  Cuts = {1}
  MaxCuts = 2
  MaxMessages = 2
  MaxPings = 1
INVARIANT MessagesAgree
INVARIANT SameServer
INVARIANT LinksAsAsked
CHECK_DEADLOCK FALSE
