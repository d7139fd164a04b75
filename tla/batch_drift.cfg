SPECIFICATION Spec
CONSTANTS
    Items = {i1, i2}
    Sessions = {t1, t2}
INVARIANT CacheCannotDrift
