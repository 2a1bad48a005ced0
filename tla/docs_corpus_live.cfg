\* One search at a time, the loads it abandons, and one slot for the two keys.
CONSTANTS
    s1 = s1
    Queries = {q1}
    Manifest = Manifest
    Shards = {s1}
    NoShard = NoShard
    Results <- OneShardResults
    MaxShardsPerQuery = 1
    ShardConcurrency = 1
    MaxConsecutiveTimeouts = 1
    Watched = s1
SPECIFICATION FairSpec
PROPERTIES SearchEnds LoadEnds
