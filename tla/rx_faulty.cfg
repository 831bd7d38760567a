SPECIFICATION Spec
CONSTANTS
  s1 = s1
  s2 = s2
  m1 = m1
  m2 = m2
  m3 = m3
  e1 = e1
  Signals = {s1}
  Memos = {m1, m2}
  Effects = {e1}
  Values <- Bits
  Zero = 0
  Fns <- FaultyFns
  Does <- DoesNext
  FnsOf <- FaultyOver
  Uses <- UsedBy
  Writable = {s1, m1, m2}
  Rewritable = {}
  MaxLinks = 3
  MaxGets = 1
  None = None
  Cleanup = Cleanup
INVARIANTS LinksMutual CleanReplays
