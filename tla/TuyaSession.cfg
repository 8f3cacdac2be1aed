SPECIFICATION Spec
CONSTANTS
  Nonces = {n1, n2}
  NoNonce = NoNonce
  Garbage = Garbage
  Splits = TRUE
  MaxQueue = 3
INVARIANTS TypeOK KeyAgreement FrameKeys SequenceOrder CommandOnce ReportsReadable
PROPERTIES LinkKeepsKey ImplementsLink
