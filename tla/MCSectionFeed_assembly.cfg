CONSTANTS
  MaxSection = 7
  Counts = {4, 6}
  Sections <- SomeSections
  Filters <- SomeFilters
  CCs = 3
  Damaged = {3}
  MaxSections = 3
  MaxFaults = 2
SPECIFICATION Spec
INVARIANTS
  TypeOK
  OnlyWholeSections
  WholeSectionsDelivered
  OnceInOrder
