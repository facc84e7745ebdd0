SPECIFICATION Spec
CONSTANTS
  Zones <- MCZones
  Instants <- MCInstants
  Step = 60
  Starts = {600, 4830}
  Weekdays = {0, 3}
  Times = {0, 150, 720, 1410}
  Days = {0, 3, 7}
  Hours = {4, 24, 48}
  ExpirationOptions = {4, 24}
  MaxAdvanceDays = 3
  RecurringMaxDays = 6
  Null = Null
INVARIANTS ActiveExactly WindowLength
