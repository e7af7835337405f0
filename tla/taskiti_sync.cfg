SPECIFICATION Spec
CONSTANTS
  Task = {t1}
  Device = {d1, d2}
  Content = {open, done}
  Completed = {done}
  MaxClock = 2
  MaxVersion = 3
CONSTRAINT Undisturbed
INVARIANTS DeliveryInv Delivered
PROPERTY VersionsGrow
SYMMETRY Symmetry
