SPECIFICATION Spec
CONSTANTS
  Symbols = {42, 46, 50, 53}
  MaxText = 8
  Wrap = 8
  HexBytes = {0, 175, 249}
  MaxBytes = 4
  HexWrap = 8
  FirstYear = 1970
  LastYear = 2101
  Texts = {t1, t2}
  Letters = {x, y}
  MAX_STRING_LENGTH = 2
  Nul = Nul
  Beyond = Beyond
  Objects = {o1, o2}
  Names = {n1, n2}
  Places = {p1, p2}
  Null = Null
  NaN = NaN
  Noise = Noise
  Primes = {7, 11, 19, 23}
INVARIANTS SameVerdict FailureDialsNoHost AcceptsAddresses CountsDays
           StringsSay TypedReadBack PointsComeBack
PROPERTIES BytesComeBack
CHECK_DEADLOCK FALSE
