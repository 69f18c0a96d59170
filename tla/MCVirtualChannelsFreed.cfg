SPECIFICATION Spec
CONSTANTS
    Rigs = {r1, r2}
    Sessions = {s1, s2}
    Bookmarks = {b1}
    Freqs = {f1, f2}
    Workers = {h1, h2}
    MaxChannels = 2
    MaxIds = 4
    Budgets <- MCBudgets
    None = None
SYMMETRY Symmetry
CHECK_DEADLOCK FALSE
INVARIANT FreedOnDisconnect
