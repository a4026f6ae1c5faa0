CONSTANT Plans <- MCDormant
SPECIFICATION FairSpec
PROPERTY ReadIsUnblocked
CHECK_DEADLOCK FALSE
