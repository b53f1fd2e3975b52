SPECIFICATION Spec
CONSTANTS
    Files = {fa, fb}
    Threads = {t1}
    MaxLen = 3
    CacheSize = 2
    MaxRead = 2
    Changes = {"other", "write", "truncate"}
    MaxChanges = 2
    NoFile = nofile
INVARIANTS
    
    CopyStaysInCache
    
