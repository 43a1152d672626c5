SPECIFICATION Spec
CONSTANTS
  t1 = t1
  t2 = t2
  t3 = t3
  Threads = {t1, t2, t3}
  NoThread = NoThread
  NumActors = 2
  Prio <- EqualPrio
  Requests = {"ok"}
  Noise = {"abort", "timeout"}
  MaxNoise = 1
INVARIANT WaitIsDone
