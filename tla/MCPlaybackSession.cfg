\* The screen may stop changing and the process may abort: a session may stop.
CONSTANT Plans <- MCPlans
SPECIFICATION FairSpec
INVARIANTS TypeOK ChecksHold DestroyedIsQuiet
PROPERTIES SentInOrder DestroyIsAnswered
CHECK_DEADLOCK FALSE
