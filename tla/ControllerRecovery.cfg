SPECIFICATION FairSpec
CONSTANTS
    MaxWaiting = 1
    MaxPushes = 1
PROPERTY LeftRoomStaysClosed
