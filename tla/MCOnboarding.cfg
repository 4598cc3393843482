SPECIFICATION FairSpec
CONSTANTS
    Dues = {1, 2}
    Reminders = {1, 2}
    MaxPostponements = 1
    StartRoles = {"employee"}
    RoleMoves <- Promotions
    Budgets <- Mixes
CHECK_DEADLOCK FALSE
INVARIANTS TypeOK ChecksHold ProactiveFollowsChoice
PROPERTIES NoReminderAfterChoice ButtonsNeedNewerIntro TrackFollowsRole ReminderSettles
