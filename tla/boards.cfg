SPECIFICATION Spec
CONSTANTS
  Callers = {t, c}
  Tabs = {t}
  BoardIds = {b1, b2}
  Widgets = {w}
  Names = {n}
  Intervals = {30}
  MaxBoards = 1
  MaxPolls = 2
  MaxForms = 2
  None = None
INVARIANTS BoardsSound  FailedMeansGone
PROPERTIES FormsAnswered
CHECK_DEADLOCK FALSE
