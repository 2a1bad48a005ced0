\* Two searches of the same shard, and one slot for the two keys.
CONSTANTS
    s1 = s1
    Queries = {q1, q2}
    Manifest = Manifest
    Shards = {s1}
    NoShard = NoShard
    Results <- OneShardResults
    MaxShardsPerQuery = 1
    ShardConcurrency = 1
    MaxConsecutiveTimeouts = 2
    Watched = Manifest
SPECIFICATION Spec
SYMMETRY QuerySymmetry
INVARIANTS TypeOK SlotsAccountedFor
PROPERTIES CorpusImplementsCache ValueNeverReplacedByFailure StallForgiven
