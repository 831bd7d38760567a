SPECIFICATION Spec
CONSTANTS
  s1 = s1
  s2 = s2
  m1 = m1
  m2 = m2
  m3 = m3
  e1 = e1
  Signals = {s1, s2}
  Memos = {m1, m2, m3}
  Effects = {e1}
  Values <- Bits
  Zero = 0
  Fns <- CoreFns
  Does <- DoesNext
  FnsOf <- FnsOver
  Uses <- UsedBy
  Writable = {s1, s2}
  Rewritable = {m2}
  MaxLinks = 4
  MaxGets = 2
  None = None
  Cleanup = Cleanup
INVARIANT TypeOK
PROPERTIES ReadFresh NoNeedlessRun OncePerCall
