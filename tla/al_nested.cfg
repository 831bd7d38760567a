SPECIFICATION Spec
CONSTANTS
  s1 = s1  s2 = s2  c1 = c1  c2 = c2  c3 = c3  e1 = e1
  i1 = i1  i2 = i2  i3 = i3  p1 = p1
  Signals = {s1, s2}
  Computeds = {c1, c2}
  Effects = {e1}
  Inners = {i1, i2, i3}
  Scopes = {p1}
  Values <- Bits
  Zero = 0
  Fns <- NestedFns
  Does <- DoesNext
  FnsOf <- NestedOver
  Uses <- UsedBy
  Batches <- NestedBatches
  MaxBatch = 0
  MaxUnpaired = 0
  None = None
INVARIANTS EffectsSeen WellLinked ContextBack
PROPERTIES DeadStayDead
