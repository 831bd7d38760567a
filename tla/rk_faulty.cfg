SPECIFICATION FairSpec
CONSTANTS
  Goroutines = {g1}
  Signals = {s1, s2}
  Computeds = {c1}
  Effects = {e1, e2}
  Values <- Bits
  Zero = 0
  Getters = {Nand}
  Apply <- NandOf
  Wirings <- Singles
  MaxNested = 1
  Nests = FALSE
  Restructures = FALSE
  ReadsComputeds = TRUE
  Faulty = {c1, e1}
  VersionModulus = 3
  MaxVersion = 2
  None = None
INVARIANTS TypeOK NoLeakedLock
PROPERTY CallsReturn
