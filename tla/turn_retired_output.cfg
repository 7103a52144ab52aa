SPECIFICATION Spec
CONSTANTS
 p1=p1 p2=p2 p3=p3 p4=p4 self=self peer=peer
 Parents={p1,p2,p3}
 Channels={self}
 ChannelOf <- OneChannel
 ChildCount <- Singles
 Dual={}
 Controllers={x1}
 Operations={"cancel"}
 MaxOperations=1
 Faults={}
 Aborts={}
 None=None
CHECK_DEADLOCK FALSE

PROPERTY RetiredTurnsPublishNothing
