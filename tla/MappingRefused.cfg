SPECIFICATION Spec
CONSTANTS
  Kinds = {"mapping"}
  Rejected = {1}
  EmptyBody = {}
  None = None
  MaxVersion = 2
  MaxFaults = 0
PROPERTY NeverStuck
