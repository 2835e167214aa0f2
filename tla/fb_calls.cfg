SPECIFICATION Spec
CONSTANTS
  i1 = i1
  i2 = i2
  i3 = i3
  Inode = {i1, i2, i3}
  NoFile = NoFile
  Value = {"short", "long"}
  Foreign = Foreign
  Nothing = Nothing
  Size <- SizeOf
  MaxForeign = 1
  Limits <- LimitsOf
  Starts = 1
SYMMETRY Files
INVARIANTS UsageIsHonest WritesAreAtomic
PROPERTY ReadYourWrites
CHECK_DEADLOCK FALSE
