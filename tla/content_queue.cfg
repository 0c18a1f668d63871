SPECIFICATION ContentFairSpec
CONSTANTS
    Posts = {a, b}
    Flushes = {f1, f2}
    MaxRestarts = 2
    Overlap = FALSE
    NoPost = NoPost
PROPERTIES  QueueDrains
