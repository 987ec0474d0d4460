SPECIFICATION FairSpec
CONSTANTS
  Tasks = {t1, t2}
  OrderIds = {o1}
  Drivers = {d1}
  NoDriver = noDriver
  MaxConfirms = 1
INVARIANTS DeliveryInv StationsAreVisited
PROPERTIES OffersEnd
