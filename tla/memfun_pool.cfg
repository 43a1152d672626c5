SPECIFICATION Spec
CONSTANTS
  t1 = t1
  t2 = t2
  t3 = t3
  Threads = {t1, t2, t3}
  NoThread = NoThread
  NumActors = 2
  Prio <- MixedPrio
  Requests = {"ok", "bad"}
  Noise = {"abort", "timeout"}
  MaxNoise = 1
INVARIANTS
  TypeOK
  ActorExclusive
  EmployFindsActor
  TokensConserved
  WaitedForOwnTransfer
  FreeActorAtRest
  QuietPoolIsExact
PROPERTY ServiceUntilTwice
CHECK_DEADLOCK FALSE
