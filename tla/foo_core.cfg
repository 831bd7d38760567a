SPECIFICATION Spec
CONSTANTS
  s1 = s1
  s2 = s2
  c1 = c1
  c2 = c2
  e1 = e1
  e2 = e2
  Signals = {s1, s2}
  Computeds = {c1, c2}
  Effects = {e1, e2}
  Values <- Bits
  Initials = {1}
  Zero = 0
  Getters = {Nand}
  Apply <- NandOf
  Wirings <- Chosen
  Level <- TwoLevels
  Orderly = TRUE
  StopsHead = TRUE
  Faulty = {c1, e2}
  MaxNested = 1
  VersionModulus = 64
  MaxVersion <- Twice
  None = None
INVARIANTS TypeOK NoSelfDeadlock UpToDate
