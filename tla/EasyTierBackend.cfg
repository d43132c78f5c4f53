SPECIFICATION FairSpec
CONSTANT Codes = {r1, r2, r3}
INVARIANTS TypeOK NothingLeaks LeaveStopsListening MemberOwnsItsPath
PROPERTIES KeepsContract CallsEnd
