SPECIFICATION Spec
CONSTANTS
  r1 = r1
  r2 = r2
  None = None
  Requests <- MCRequests
  Chars <- MCChars
  Fold <- MCFold
  Classes <- MCClasses
  Roles <- MCRoles
  CLASS_ROLES <- MCClassRoles
  DefaultRole <- MCDefaultRole
  Profile <- MCProfile
  MaxCharacters = 2
PROPERTIES EditsSurvive AnomaliesNeedCompany ImportIsComplete RequestsEnd
CHECK_DEADLOCK FALSE
