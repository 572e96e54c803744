\* Deadlock is checked: a session can always begin.
\* Sessions over one run directory, crashes, resumes and a replaced file.
SPECIFICATION Spec
CONSTANTS
    f = f
    g = g
    h = h
    NoFile = NoFile
    Probe = {f, g, h}
    Gaps = {g}
    Synthesized = {f}
    Planned = 1
    MaxProbes = 6
    MaxIterations = 3
    MaxEdits = 1
INVARIANT TypeOK
INVARIANT ProbesWithinBudget
INVARIANT FollowUpsBound
