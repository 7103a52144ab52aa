SPECIFICATION Spec
CONSTANTS
 c1=c1 c2=c2 c3=c3 f1=f1 f2=f2 s1=s1 s2=s2 s3=s3 x1=x1
 Calls={c1,c2,c3}
 Kinds={"on","off","restart","prepare","suspend","close","shutdown"}
 Configs={f1,f2}
 Sources={s1,s2,s3}
 Failures={}
 Faults={"source","release","build","open","admission"}
 None=None
CHECK_DEADLOCK FALSE
SYMMETRY Symmetric
INVARIANTS CaptureTypeOK  
