SPECIFICATION Spec
CONSTANTS
  Hps = {0, 120, 199, 200, 359, 400}
  Base = 1
  Step = 1
  Max = 3
  MaxVisits = 3
PROPERTIES
  AllowanceOnlyGrows
