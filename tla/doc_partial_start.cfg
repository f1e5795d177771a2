SPECIFICATION Spec
CONSTANTS
    Calls = {c1}
    Probes = {}
    Paths <- MCPaths
INVARIANT
    PartialStartReleases
