SPECIFICATION Spec
CONSTANTS
 r1=r1 r2=r2 s1=s1
 Requests={r1}
 Scheduled={s1}
 MaxRequests=1
 MaxAttempts=2
 MaxFaults=1
 MaxCleanups=2
CHECK_DEADLOCK FALSE
PROPERTIES FoundKeyIsDeleted
