CONSTANTS
  MaxHeader = 2
  MaxFile = 3
  SplitHeader = FALSE
  READ_BUFFER_SIZE = 11
  Clients <- MCClients
SPECIFICATION HCSpec
INVARIANTS HCTypeOK ParsesAsWhole HWTypeOK SentInOrder
PROPERTIES PatientServed WholeResponse WriteReturns
