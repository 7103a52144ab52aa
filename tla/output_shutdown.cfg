SPECIFICATION Spec
CONSTANTS
 e1=e1 e2=e2 m1=m1 s1=s1 s2=s2 w1=w1 w2=w2 w3=w3 x1=x1 x2=x2
 Publishers={w1}
 Events={e1}
 Sinks={s1,s2}
 Messages={m1}
 Controllers={x1,x2}
 MaxPublications=2
 MaxCalls=3
 Faults={"flush","bridge","bridgeEnds","typing","backlog","adapter"}
 Aborts={"publisher"}
 None=None
CHECK_DEADLOCK FALSE
SYMMETRY Symmetric
INVARIANTS InFlightExact ClosedMeansReleased ReleaseInv
PROPERTIES QuietOnceClosing
