\* The base flow: a rate change during the last send lets the sender
\* send a second FIN, which the receiver counts.
CONSTANTS
  NumPkts2 = 4
  Rates = {1, 2}
  FwdLoss = 1
  RevLoss = 0
  QLimit = 3
  MaxOutRefs = 2
  MaxRetransmits = 2
  RtoAfterDrain = TRUE
  Fid = 1
  NoRate = NoRate
SPECIFICATION Spec
INVARIANT ReceiverNeverOvercounts
