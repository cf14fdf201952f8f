SPECIFICATION Spec
CONSTANTS
  Plugin = {p1, p2}
  None = None
INVARIANTS
  ParametersKeepTheirMeaning
