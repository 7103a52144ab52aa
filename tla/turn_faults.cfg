SPECIFICATION Spec
CONSTANTS
 p1=p1 p2=p2 p3=p3 p4=p4 self=self peer=peer
 Parents={p1,p2}
 Channels={self}
 ChannelOf <- OneChannel
 ChildCount <- Mixed
 Dual={p2}
 Controllers={x1}
 Operations={"cancel","close"}
 MaxOperations=1
 Faults={"created"}
 Aborts={"submitter","child"}
 None=None
CHECK_DEADLOCK FALSE
INVARIANTS TypeOK ClosedExactlyWhenComplete LateChildrenAreInterrupted
PROPERTIES LateCallbackRule CancelDrainsGeneration CloseLeavesNothing ImplementsLedger
