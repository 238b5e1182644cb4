\* Three threads on a budget of one fact, five facts in all.
SPECIFICATION ClientSpec
CONSTANTS
  Sources = {"UserUtterance"}
  Levels = {"None", "L1Project"}
  Affects = {"neutral_baseline"}
  Capacities = {1}
  Thresholds = {1}
  CounterMax = 1
  MaxDraws = 5
  MaxTicks = 5
  MaxVerdicts = 1
  Threads = {t1, t2, t3}
  Lengths = {0, 2}
  Budget = 1
INVARIANT BoundedMemory
PROPERTY PressureIsRelieved
CHECK_DEADLOCK FALSE
