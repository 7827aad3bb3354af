\* Three connections for two slots; two WTPs, for the commands to all.
SPECIFICATION Spec
CONSTANTS
  Apps = {app1, app2, app3}
  None = None
  MAX_APPS_CONNECTED_TO_AC = 2
  CW_MAX_WTP = 2
SYMMETRY Symmetry
INVARIANTS
  TypeOK
  TableConsistent
  CommandsAndWaiters
PROPERTIES
  AnswerGoesHome
