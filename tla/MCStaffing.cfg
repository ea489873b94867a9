SPECIFICATION FairSpec
CONSTANTS
  Talents = {t1, t2}
  Packages = {1, 2}
  Rounds = 1
  Written <- McWritten
  Callers = {c1}
INVARIANTS
  PackagesMatchSeats
  AnnouncedOnce
PROPERTIES
  StartsStaffedAndSigned
  OffersAnsweredFor
CHECK_DEADLOCK FALSE
