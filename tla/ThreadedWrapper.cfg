CONSTANTS
  c1 = c1
  c2 = c2
  Clients = {c1, c2}
  Owner = Owner
  Worker = Worker
  NoThread = NoThread
  MaxCalls = 1
  MaxNested = 2
SPECIFICATION FairSpec
INVARIANTS
  TypeOK SyncTaskCallerBlocked AsyncInOrder ReturnsAfterOwnRun
  DestroyedAfterDrain
PROPERTIES
  SyncAfterEarlierAsync TasksSeeLiveMember ImplementsPromise
  CallReturns SubmittedExecuted DestructorReturns
