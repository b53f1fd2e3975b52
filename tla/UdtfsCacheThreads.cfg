SPECIFICATION Spec
CONSTANTS
    Files = {fa}
    Threads = {t1, t2}
    MaxLen = 3
    CacheSize = 2
    MaxRead = 1
    Changes = {}
    MaxChanges = 0
    NoFile = nofile
INVARIANT CopyStaysInCache
