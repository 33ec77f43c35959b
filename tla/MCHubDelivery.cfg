SPECIFICATION FairSpec
CONSTANTS
  Client = {c1}
  Emitter = {e1, e2}
  SendCap = 2
  Rounds = 2
  None = None
INVARIANTS DeliveredInOrder
PROPERTIES AcceptedDelivered BroadcastCompletes DeadClientsLeave
