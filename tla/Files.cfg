CONSTANTS
  Process = {p1}
  Ino = {i1, i2}
  NoIno = NoIno
  Name = {"/a", "b"}
  Absolute = {"/a"}
  Dirfd = {"fd3"}
  HiddenName = {"/n"}
  epoch = 2
  Second = 2
  Programs = {{"bind"}, {"creat truncates"}}
  MaxFiles <- MostFiles
  MaxTime = 4
SYMMETRY InodesInterchangeable
SPECIFICATION MCSpec
INVARIANTS CreatedLooksNewer Inv ListingComplete HostOrderHidden
PROPERTY HostInodesDoNotShow
CHECK_DEADLOCK FALSE
