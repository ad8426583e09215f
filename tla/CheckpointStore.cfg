\* Kills, power losses and retries on a disk that keeps the order of directory
\* changes; power losses alone on one that does not.
CONSTANTS
    Values = {v1, v2}
    Length = 3
    Manifest = Manifest
    Torn = Torn
    MaxKills = 3
    MaxKillsUnordered = 0
    MaxPowerLosses = 2
    MaxDiscards = 1
SPECIFICATION FairSpec
CHECK_DEADLOCK FALSE
INVARIANTS ChainIsLoadable
PROPERTIES ImplementsCommitLog AllGetPublished
