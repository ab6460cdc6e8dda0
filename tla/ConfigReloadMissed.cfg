SPECIFICATION FairSpec
CONSTANT MaxSaves = 1
CHECK_DEADLOCK FALSE
PROPERTY ChangesAreReloaded
