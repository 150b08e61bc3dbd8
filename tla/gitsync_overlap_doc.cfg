SPECIFICATION FairSpec
CONSTANTS
    a1 = a1
    a2 = a2
    a3 = a3
    Files <- RepoFiles
    Blobs = {b1, b2}
    None = None
    Agents = {a1, a2, a3}
    Initial = {a1, a3}
    Labels <- AgentLabels
    Syncs = {poll, now}
    Forced = {now}
    Overlap = TRUE
    Providers = {"github"}
    MaxCommits = 1
    MaxFaults = 0
PROPERTY PollsDistribute
