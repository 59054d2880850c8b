SPECIFICATION FairSpec
CONSTANTS
    i1 = i1  i1b = i1b
    w1 = w1  w2 = w2
    Item = {i1, i1b}
    Key = {"k1"}
    KeyOf <- MCKeyOf
    Worker = {w1, w2}
    NoItem = NoItem
    NoToken = NoToken
    NoLease = NoLease
    MaxTokens = 2
    MaxFaults = 1
PROPERTIES
    ExpiredRedelivered
