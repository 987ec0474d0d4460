SPECIFICATION FairSpec
CONSTANTS
  Tasks = {t1}
  OrderIds = {o1}
  Drivers = {d1,d2}
  NoDriver = noDriver
  MaxConfirms = 1
PROPERTIES RequeuedIsReassigned
