SPECIFICATION Spec
CONSTANTS
  n1 = n1 n2 = n2
  Tip = 1
  Nodes = {n1, n2}
  None = None Foreign = Foreign
  MaxRestarts = 1 MaxClears = 1
PROPERTY SuppressedNeverWrites
