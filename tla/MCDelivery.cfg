CONSTANTS
  Events <- MCEvents
  Epochs <- MCEpochs
  Latencies <- MCLatencies
  MaxCount = 2
SPECIFICATION DeliverySpec
INVARIANTS
  FactsTellHistories
CHECK_DEADLOCK FALSE
