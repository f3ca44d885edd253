SPECIFICATION RecordSpec
CONSTANTS
  MaxU32 = 31
  MaxU64 = 1023
  Overflow = Overflow
  Unset = Unset
  Garbage = Garbage
  Absent = Absent
  ScheduleTile <- MCTile
  ScheduleBlock <- MCBlock
  DefaultShape <- MCDefault
  Ops <- MCOps
  Targets <- MCTargets
  Devices <- MCDevices
  Settings <- MCSettings
INVARIANTS
  WorkgroupCountExact
  PlannedRunGoesThrough
  LaunchMeetsRequirements
  ResultDescribesRun
  CountersOfWholeDevice
CHECK_DEADLOCK FALSE
