\* A new tenant, the events of Stripe and the expiry of trials, all fair.
SPECIFICATION FairSpec
CONSTANTS
  Processes = {p1}
  Paid = {core}
  Core = core
  NoPlan = NoPlan
  Statuses = {"active"}
  MaxEvents = 1
  MaxCrashes = 0
PROPERTIES
  TrialEnds
CHECK_DEADLOCK FALSE
