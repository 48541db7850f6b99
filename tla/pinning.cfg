SPECIFICATION Spec
CONSTANTS
    Hosts = {h1, h2}
    Roots = {net, other}
    Interfaces = {1, 2}
    None = None
INVARIANTS
    ContactIsPinned
    OnlyNamedRoots
