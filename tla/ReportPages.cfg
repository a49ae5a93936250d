SPECIFICATION Spec
CONSTANTS
  None = None
  Followed = {"sync", "sheet", "layout", "panels", "format", "routes", "applier", "float", "eval", "consol", "catalog", "desks", "tasks", "picks"}
INVARIANTS PagesTyped EditsSurvive SignsAreTrue FormulasMean
PROPERTIES StepsStayInBounds
CHECK_DEADLOCK FALSE
