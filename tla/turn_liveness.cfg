SPECIFICATION FairSpec
CONSTANTS
 p1=p1 p2=p2 p3=p3 p4=p4 self=self peer=peer
 Parents={p1,p2}
 Channels={self}
 ChannelOf <- OneChannel
 ChildCount <- Mixed
 Dual={}
 Controllers={x1,x2}
 Operations={"cancel","close"}
 MaxOperations=2
 Faults={"admitted"}
 Aborts={}
 None=None
CHECK_DEADLOCK FALSE
INVARIANTS IInv
PROPERTIES  EveryTurnCloses EveryOperationReturns
