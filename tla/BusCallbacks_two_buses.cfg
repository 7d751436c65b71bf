SPECIFICATION Spec
CONSTANTS
  Buses = {b1, b2}
  Threads = {c1, w1}
  c1 = c1
  Consumer <- OneConsumer
  MaxCallbacks = 1
  MaxIds = 1
  CrossBus = TRUE
INVARIANT StateEncoding
