SPECIFICATION Spec
CHECK_DEADLOCK FALSE
CONSTANTS
  a = a
  b = b
  Missing = Missing
  Unreadable = Unreadable
  NoDirectory = NoDirectory
  Absent = Absent
  NotInt = NotInt
  Blank = Blank
  Directories <- MCDirectories
INVARIANTS
  VerdictIsExact
  LoaderGap
