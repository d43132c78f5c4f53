SPECIFICATION Spec
CONSTANTS
    MaxWaiting = 1
    MaxPushes = 1
INVARIANTS TypeOK WaitingIsResumable
PROPERTIES OnlyCancelOrphans OnlyEventsHide
