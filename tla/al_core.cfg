SPECIFICATION Spec
CONSTANTS
  s1 = s1  s2 = s2  c1 = c1  c2 = c2  c3 = c3  e1 = e1
  i1 = i1  i2 = i2  i3 = i3  p1 = p1
  Signals = {s1, s2}
  Computeds = {c1, c2}
  Effects = {e1}
  Inners = {}
  Scopes = {}
  Values <- Bits
  Zero = 0
  Fns <- CoreFns
  Does <- DoesNext
  FnsOf <- CoreOver
  Uses <- UsedBy
  Batches = {}
  MaxBatch = 1
  MaxUnpaired = 1
  None = None
INVARIANTS TypeOK EffectsSeen
PROPERTIES ReadFresh NoNeedlessRun OncePerCall
