SPECIFICATION Spec
CONSTANTS
  FirstIds = {1}
  MaxNew = 20
  IdSpace = 16
  Requested = 5
  MaxCap = 8
PROPERTIES IdsAreFutures
