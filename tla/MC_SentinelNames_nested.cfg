\* Products a and a-a share the sentinels.
CONSTANTS
  Dash = "-"
  None = None
  Products <- NestedProducts
  GroupsOf <- NestedGroups
SPECIFICATION Spec
PROPERTY ProductIsolation
