SPECIFICATION ServicesSpec
CONSTANTS
  a1 = a1
  r1 = r1
  Apps = {a1}
  Runs = {r1}
  Answers = {"gap", "first", "second"}
  Gap = "gap"
  Nothing = Nothing
  Reruns = {"submit"}
  Overlapping = FALSE
  MaxSent = 2
  n1 = n1
  c1 = c1
  w1 = w1
  w2 = w2
  Notes = {n1}
  Chans = {c1}
  Workers = {w1, w2}
  y1 = y1
  Presses = {y1}
  Nowhere = Nowhere
  MaxAttempts = 2
  BreakerFailures = 1
  k1 = k1
  k2 = k2
  l1 = l1
  l2 = l2
  l3 = l3
  e1 = e1
  e2 = e2
  h1 = h1
  h3 = h3
  Cases = {k1, k2}
  Listings = {l1, l2, l3}
  Pages <- MCPages
  Posting <- MCPosting
  Employer <- MCEmployer
  Url <- MCUrl
  Wanted <- MCWanted
  DedupLimit = 1
  Marked = {l2}
  NoListing = NoListing
  x1 = x1
  sum = sum
  skl = skl
  cv = cv
  in = in
  out = out
  far = far
  Entries = {x1, sum, skl, cv}
  SummaryEntry = sum
  SkillEntry = skl
  CvText = cv
  DeviceModels = {in}
  Models = {in, out, far}
  Sentences <- MCSentences
  MaxVersions = 2
  MaxSwitches = 1
  NoModel = NoModel
  u1 = u1
  u2 = u2
  byhand = byhand
  x = x
  b = b
  Uploads = {u1, u2}
  Bytes <- MCBytes
  Mined = {u1}
  Wordings = {x}
  Says <- MCSays
  ByHand = byhand
  p1 = p1
  s1 = s1
  s2 = s2
  t1 = t1
  t2 = t2
  i1 = i1
  q1 = q1
  q2 = q2
  g1 = g1
  g2 = g2
  Configs = {p1}
  Servers = {s1, s2}
  Tabs = {t1, t2}
  NoConfig = NoConfig
  NoKey = NoKey
  Unchecked = Unchecked
  MaxVersion = 2
  Logins = {i1}
  Requests = {q1, q2}
  Guessers = {g1, g2}
  MaxTokens = 1
  IdleTime = 2
  Lifetime = 3
  LoginLimit = 2
  NoLogin = NoLogin
  MaxTime = 4
  o1 = o1
  o2 = o2
  o3 = o3
  o4 = o4
  o5 = o5
  o6 = o6
  Listed <- MCListed
  Size = 2
  Finds <- MCFinds
  Readable = {o1, o2, o3, o4, o6}
  ConfigPages = 0
  MaxRequests = 5
  MaxJobs = 4
  cat = cat
  own1 = own1
  own2 = own2
  v1 = v1
  CatalogKeys = {cat}
  CustomKeys = {own1, own2}
  Browsers = {v1}
  MaxCustom = 1
  NoSource = NoSource
  ch = ch
  m1 = m1
  m2 = m2
  srch = srch
  Chats = {ch}
  Turns = {m1, m2}
  ChatModels = {in, out}
  Named = {out}
  WorkTools = {srch}
  MaxSteps = 1
INVARIANTS
  ServicesTypeOK
  NothingSentIsForgotten
  SendsWhatWasApproved
  DuplicateHasCause
  UsedButtonDecided
  OnePerPosting
  ReadMeansMatched
  SharedAsApproved
  OneDraftPerRun
  GuessesBounded
  ReadingIsComplete
  OffStaysOff
  ConsentBeforeOnline
PROPERTIES
  SyncKeepsStatus
  ReviewedStays
  DocumentsHaveFiles
  KeyStaysWithItsServer
  SignedOutStaysOut
CHECK_DEADLOCK FALSE
