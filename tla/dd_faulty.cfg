SPECIFICATION FairSpec
CONSTANTS
  Goroutines = {g1}
  Signals = {s1}
  Computeds = {c1, c2}
  Effects = {}
  Values <- Bits
  Zero = 0
  Getters = {Nand}
  Apply <- NandOf
  Wirings <- Diamonds
  MaxRemove = 2
  Faulty = {c1}
  SignalOverlaps = FALSE
  None = None
INVARIANTS TypeOK PanicContained
PROPERTY LockReleased
