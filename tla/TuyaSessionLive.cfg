\* Sockets that outlive the path, split frames: linked or hanging in the end
SPECIFICATION FairSpec
CONSTANTS
  Nonces = {n1, n2}
  NoNonce = NoNonce
  Garbage = Garbage
  Splits = TRUE
  MaxQueue = 2
PROPERTIES NothingRefused StableLinks StableLinksOrHangs
