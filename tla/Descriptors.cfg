CONSTANTS
  Task = {t1, t2}
  ThirdTask = t3
  Desc = {d1, d2, d3}
  OnlyDesc = d0
  NoDesc = NoDesc
  MaxFd = 2
  Behaviours = {}
SYMMETRY NamesInterchangeable
SPECIFICATION MCSpec
INVARIANTS OrdinaryStatusAsAsked  
CHECK_DEADLOCK FALSE
