\* One packet of the ack path may be dropped; no data packet is.
CONSTANTS
  NumPkts2 = 4
  Rates = {1, 2}
  FwdLoss = 0
  RevLoss = 1
  QLimit = 3
  MaxOutRefs = 2
  MaxRetransmits = 2
  RtoAfterDrain = TRUE
  Fid = 1
  NoRate = NoRate
SPECIFICATION Spec
PROPERTY FlowFinishes
