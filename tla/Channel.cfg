SPECIFICATION FairSpec
CONSTANT Messages = {m1, m2, m3}
INVARIANTS IInv DisconnectedOnce NothingLeft
PROPERTIES FuturesDecided PeerLossNoticed ImplementsOutcome
CHECK_DEADLOCK FALSE
