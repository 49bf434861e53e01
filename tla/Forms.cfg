SPECIFICATION FormsSpec
CONSTANTS
  s1 = s1
  sk1 = sk1
  p1 = p1
  b1 = b1
  b2 = b2
  b3 = b3
  None = None
  Session = Session
  Slugs <- MCSlugs
  Secrets <- MCSecrets
  Patterns <- MCPatterns
  Browsers <- MCBrowsers
  KeyBrowsers <- MCKeyBrowsers
  Limits <- MCLimits
  MaxKeys = 2
  MaxLogins = 2
SYMMETRY MCSymmetry
INVARIANTS RowsInOrder IdsInOrder
PROPERTIES KeysAreAskedFor SavedAsShown DeletedStaysDeleted AdminKeyLeft
