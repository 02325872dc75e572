CONSTANTS
    Benchmarks <- MCBenchmarks
    Platforms <- MCPlatforms
    None = None
SPECIFICATION RegSpec
INVARIANT
    CallbacksAsDeclared
CHECK_DEADLOCK FALSE
