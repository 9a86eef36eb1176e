SPECIFICATION TipSpec
CONSTANTS
  Tips <- SmallTips
  Profiles <- SavedProfiles
  Absent = absent
  MaxRecipients = 4
CHECK_DEADLOCK FALSE
INVARIANTS NeverOverTip NothingKeptBack
