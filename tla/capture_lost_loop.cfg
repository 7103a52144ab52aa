SPECIFICATION Spec
CONSTANTS
 c1=c1 c2=c2 c3=c3 f1=f1 f2=f2 s1=s1 s2=s2 s3=s3 x1=x1
 Calls={c1,c2}
 Kinds={"on","off"}
 Configs={f1}
 Sources={s1,s2}
 Failures={}
 Faults={"loop"}
 None=None
CHECK_DEADLOCK FALSE
INVARIANT LoopLossIsContained
