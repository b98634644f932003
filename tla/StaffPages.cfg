SPECIFICATION Spec
CONSTANTS
  StaffRoles = {"super_admin", "org_admin", "scholarship_manager"}
  Accounts = {1, 2}
  Me = 2
  PageSize = 1
  MaxRequests = 2
  MaxChanges = 1
  MaxPage = 2
INVARIANTS
  TypeOK
  ShownIsStored
  PageExists
  GatesMatchRoutes
