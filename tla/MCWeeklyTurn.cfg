CONSTANTS
  Backlog <- MCBacklog
  WorkingDays = 7
  DaysPerWeek = 2
  HoursPerDay = 1
  Budget = 4
  CostPerDay = 1
  MaxHires = 1
  OvertimeHours <- MCOvertimeHours
  ReservedHours <- MCReservedHours
SPECIFICATION FairSpec
INVARIANTS
  TypeOK
  StateValid
  TasksConserved
  CompletedIsClean
  FreshWorkWaits
  CalendarExact
PROPERTIES
  AcceptedStays
  RunEnds
