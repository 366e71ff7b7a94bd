SPECIFICATION Spec
CONSTANTS
  Refs = {r1, r2, r3, r4, r5}
  Callbacks = {"object", "default"}
  ItemKinds = {"page"}
  MaxItems = 2
  MaxHeld = 1
SYMMETRY Symmetry
INVARIANT
  GroupsHoldTheirPages
