SPECIFICATION FairSpec
CONSTANTS
    Disk = {sda, nvme0n1}
    Nvme = {nvme0n1}
    MaxPart = 2
    Unknown = Unknown
INVARIANTS
    TypeOK
    StartIsFree
    UnderstoodIsElsewhere
PROPERTIES
    StartedEnds
