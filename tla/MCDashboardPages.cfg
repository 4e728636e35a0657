SPECIFICATION PagesSpec
CONSTANTS
  ab = ab
  b = b
  w1 = w1
  w2 = w2
  demo = demo
  rec = rec
  dots = dots
  v1 = v1
  v2 = v2
  v1upper = v1upper
  blank = blank
  malformed = malformed
  k1 = k1
  k2 = k2
  i1 = i1
  i2 = i2
  Sessions = {ab, b}
  WebRuns = {w1, w2}
  OtherIds = {dots}
  ValidIds = {ab, b, w1, w2, demo, rec}
  Tails <- MCTails
  Demo <- MCDemo
  Recordings <- MCRecordings
  None = None
  Answers <- MCAnswers
  MaxRequests = 2
  CleanPreview = 0
  Vaults = {v1, v2}
  Blank = Blank
  Malformed = Malformed
  Reads <- MCReads
  Texts <- MCTexts
  MaxVaults = 2
  KeysConfigured = TRUE
  MaxStarts = 2
  Refusals = {429}
  Keys = {k1, k2}
  Identities = {i1, i2}
  Unset = Unset
  Receipts <- MCReceipts
  Cards <- MCCards
  Example <- Genuine
  Pins <- MCPins
  Mistyped = Mistyped
  NoReceipt = NoReceipt
  Nothing = Nothing
  Registries <- MCRegistries
  Checks = {1, 2}
  MaxChanges = 1
  Beside <- MCBeside
SYMMETRY MCSymmetry
INVARIANTS
  KeptRunsAreServed
  WorstIsShown
  PurchaseInHistory
  VerifiedMeansAnchored
