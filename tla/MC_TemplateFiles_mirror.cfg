\* One dashboard, two files, store writes that may fail, a file that may
\* become unreadable, two directory changes, two process starts.
CONSTANTS
  f1 = f1  f2 = f2  c1 = c1  c2 = c2  broken = broken
  Absent = Absent
  Files <- MCFiles
  Contents <- MCContents
  Unreadable <- MCUnreadable
  StoreMayFail = TRUE
  MaxEdits = 2
  MaxRestarts = 2
SPECIFICATION LiveSpec
PROPERTY MirrorConverges
CHECK_DEADLOCK FALSE
