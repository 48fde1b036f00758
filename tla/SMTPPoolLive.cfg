SPECIFICATION FairSpec
CONSTANTS
    w1 = w1
    w2 = w2
    w3 = w3
    w4 = w4
    k1 = k1
    k2 = k2
    s1 = s1
    s2 = s2
    s3 = s3
    Workers = {w1, w2, w3}
    Keys = {k1, k2}
    Sessions = {s1, s2}
    None = None
    MaxConnections = 2
    MaxConnectionsKey = 1
    MaxIdle = 1
    MaxIdleKey = 1
    MaxDeliveries = 2
PROPERTIES Drained WaitersServed
