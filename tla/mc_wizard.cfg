\* One write at a time, its lock expiring under it; two writes a draft and a day, two days.
CONSTANTS
  n1 = n1
  uz = uz
  ru = ru
  Names = {n1}
  Tongues = {uz, ru}
  Spoken = uz
  Writers = {1}
  MaxWrites = 2
  DailyWrites = 2
  LastDay = 1
  None = None
  Faults = {"lock", "crash", "store"}
SPECIFICATION FairSpec
PROPERTIES AgreedWords PressingOnArrives
