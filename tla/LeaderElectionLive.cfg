SPECIFICATION FairSpec
CONSTANTS
    Participant = {p1, p2}
    Waiters = {p1, p2}
    Lossy = {p1}
CONSTRAINT WaitersAlone
INVARIANT ElectedIsFirst
PROPERTIES NoLeaderAfterError CloseEnds KeyIsReleased SomebodyLeads
CHECK_DEADLOCK FALSE
