\* One flow of two packets; the router moves between two rates; one packet
\* of the data path may be dropped, and rto waits for the data packets and their acks to drain.
CONSTANTS
  NumPkts2 = 4
  Rates = {1, 2}
  FwdLoss = 1
  RevLoss = 0
  QLimit = 3
  MaxOutRefs = 2
  MaxRetransmits = 2
  RtoAfterDrain = TRUE
  Fid = 1
  NoRate = NoRate
SPECIFICATION Spec
INVARIANTS TypeOK RefsAccounted
PROPERTY FlowFinishes
