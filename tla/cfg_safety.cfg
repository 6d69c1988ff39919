CONSTANTS
  NIL = NIL
  Actor = {a1}
  Message = {m1, m2}
  PoolCell = {p1, p2, p3, p4, p5, p6, p7, p8, p9, p10, p11}
  Delay = {1, 3}
  Budget = {1, 3}
  q_limit = 1
  TICK_FREQ = 2
  CLOCK_STEP_SIZE = 2
  INT_MAX = 1
  MaxMessages = 3
  MaxSecond = 1
SPECIFICATION FairSpec
INVARIANTS QueuesExact PoolExact MessageCountExact
PROPERTIES EventStable ImplementsPump RunReturns AllHandled
