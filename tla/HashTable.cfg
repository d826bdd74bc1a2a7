SPECIFICATION Spec
CONSTANTS
  Slots = 4
  Names = {n1, n2, n3}
  MaxNames = 5
  None = None
PROPERTIES
  SearchIsProbe
  SearchesEnd
