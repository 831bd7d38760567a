SPECIFICATION Spec
CONSTANTS
  Goroutines = {g1, g2}
  Signals = {s1}
  Computeds = {}
  Effects = {e1}
  Values <- Bits
  Zero = 0
  Getters = {Nand}
  Apply <- NandOf
  Wirings <- Singles
  MaxNested = 0
  Nests = FALSE
  Restructures = FALSE
  ReadsComputeds = FALSE
  Faulty = {}
  VersionModulus = 64
  MaxVersion = 3
  None = None
INVARIANT Exclusive
