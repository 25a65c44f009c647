SPECIFICATION FairSpec
CONSTANTS
  door = door
  c1 = c1
  c2 = c2
  Plugin = Plugin
  Lists <- SomeLists
  Systems <- OneSystem
  Departments <- FirstDepartment
  Authorized <- SecondPerson
  Open = 1
  MaxPending = 1
  MaxFound = 1
INVARIANT AccessIsListed
INVARIANT EmployeesAreUsers
PROPERTY DoorStaysOpen
PROPERTY EventuallyListed
