\* Two models and a task, with one call beside load(); and three calls to the
\* agent, with a step that fails and a restart; and three calls about one or two
\* perspectives, with a restart.
CONSTANTS
    Models  = {m1, m2}
    Kept    = m1
    Second  = {"none", "bare", "whole"}
    Tasks   = {t1}
    Calls   = {c1}
    Local   = {m1}
    MaxFailures = 1
    NoModel = NoModel
    Clients = {a1, a2, a3}
    Passphrases = {p, q}
    NoAgent  = NoAgent
    Failures = 1
    Restarts = 1
    Requests = {r1, r2, r3}
    Foreign  = Foreign
    NoUrl    = NoUrl
    MaxPerspectives = 2
    MaxReboots = 1

SPECIFICATION ExecutorSpec
INVARIANTS
    TypesOK
    ThreadsAsStored
    UpdatesKept
    ProfilePublished
    HandlesKept
PROPERTIES
    ModelsEventuallyOver
CHECK_DEADLOCK FALSE
