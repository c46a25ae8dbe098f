\* Two shards, keys on which ranges and GetShard agree; three writes, so that a
\* shard can hold two files and a MemTable while the other is written too.
CONSTANTS
    MaxCode = 15
    ShardNum = 2
    Key <- AgreeingKey
    Bound <- AgreeingBound
    MaxMem = 2
    MaxWrite = 3
    MaxFile = 3
SPECIFICATION FairSpec
INVARIANTS
    TypeOK
    QueryAnswers
PROPERTIES
    QueryReturns
