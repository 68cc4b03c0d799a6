SPECIFICATION SessionSpec
CONSTANTS
  Users = {u1}
  Staff = {}
  RoleNames = {"Agent"}
  Grants = {{}}
  MaxChanges = 2
  MaxAnswers = 1
  Nobody = Nobody
  NoRole = NoRole
PROPERTIES
  SafeOnEveryLoad
CHECK_DEADLOCK FALSE
