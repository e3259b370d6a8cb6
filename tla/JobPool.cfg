\* Three submissions over two slots, one retained record: queueing, eviction
\* and every interleaving of two clients with the workers.
SPECIFICATION FairSpec
CONSTANTS
  Clients = {c1, c2}
  MaxJobs = 3
  MaxConcurrent = 2
  MaxRetained = 1
  Nobody = Nobody
INVARIANTS
  SlotAccounting
  OneOwner
  FifoAdmission
  NoIdleSlot
  NoLostWakeup
PROPERTIES
  ImplementsService
  WaiterReturns
  ServesEveryJob
