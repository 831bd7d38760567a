SPECIFICATION Spec
CONSTANTS
  Goroutines = {g1}
  Signals = {s1, s2}
  Computeds = {c1, c2}
  Effects = {e1, e2}
  Values <- Bits
  Zero = 0
  Getters = {Nand}
  Apply <- NandOf
  Wirings <- Pairs
  MaxNested = 1
  Nests = FALSE
  Restructures = FALSE
  ReadsComputeds = FALSE
  Faulty = {}
  VersionModulus = 64
  MaxVersion = 3
  None = None
SYMMETRY Alike
INVARIANTS EffectsSeen CleanFresh NoSelfDeadlock
PROPERTIES SumTells FirstCallFresh StoppedStaysStopped
