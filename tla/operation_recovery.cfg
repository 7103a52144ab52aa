SPECIFICATION Spec
CONSTANTS
 r1=r1 r2=r2 s1=s1
 Requests={r1,r2}
 Scheduled={s1}
 MaxRequests=2
 MaxAttempts=3
 MaxFaults=1
 MaxCleanups=1
CHECK_DEADLOCK FALSE
SYMMETRY Symmetric
INVARIANTS TypeOK AcknowledgedOwnsEntitlement ActiveIsAcknowledged  
PROPERTIES AcknowledgementIsFinal FailedOnlyActivates
