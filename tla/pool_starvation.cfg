\* Two connections in quick succession, one prewarmed worker.
SPECIFICATION PoolFairSpec
CONSTANTS
  Conns = {c1, c2}
  Workers = {w1, w2, w3}
  Prewarm = 1
  MaxIdle = 2
  Stop = Stop
CHECK_DEADLOCK FALSE
PROPERTIES
  EveryConnectionServed
