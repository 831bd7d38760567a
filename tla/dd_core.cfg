SPECIFICATION Spec
CONSTANTS
  Goroutines = {g1}
  Signals = {s1}
  Computeds = {c1, c2}
  Effects = {e1}
  Values <- Bits
  Zero = 0
  Getters = {Nand}
  Apply <- NandOf
  Wirings <- Pairs
  MaxRemove = 1
  Faulty = {}
  SignalOverlaps = FALSE
  None = None
SYMMETRY Alike
INVARIANTS Settled NoFalseCycle Consistent RegistryExact
PROPERTIES Promise NoWastedCall StoppedStaysStopped
