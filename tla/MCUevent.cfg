CONSTANTS
    Plat <- MCPlat
    Present <- MCPresent
    Caps <- MCCaps
    Noise <- MCNoise
    QueueMax <- MCQueueMax
    MaxChanges <- MCMaxChanges
    MaxNoise <- MCMaxNoise
SPECIFICATION Spec
\* The thread blocks in recv once the kernel sends nothing more.
CHECK_DEADLOCK FALSE
INVARIANTS
    TypeOK
PROPERTIES
    StatusFollowsSysfs
