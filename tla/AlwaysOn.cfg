CONSTANTS
  t1 = t1
  t2 = t2
  Traveller = {t1, t2}
  MaxWorlds = 3
  Kinds = {"ramsgate", "training"}
  WatchdogOn = TRUE
  Reservation = 1
  MaxTime = 1
SPECIFICATION Spec
INVARIANT WorldsSound
PROPERTIES TravelAnswered ServedCrashReplaced ReservationKept DyingNeverAnswered
CHECK_DEADLOCK FALSE
