SPECIFICATION Spec
CONSTANTS
  Tasks = {t1, t2}
  OrderIds = {o1}
  Drivers = {d1,d2}
  NoDriver = noDriver
  MaxConfirms = 1
SYMMETRY Symmetry
PROPERTIES AcceptedKeepsDriver
