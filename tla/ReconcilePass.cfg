CONSTANTS
    a = a
    b = b
    c = c
    t1 = t1
    t2 = t2
    t3 = t3
    skills = skills
    agents = agents
    s1 = s1
    s2 = s2
    Invalid = Invalid
    None = None
    Names <- MCNames
    Targets <- MCTargets
    Folders <- MCFolders
    Stacks <- MCStacks
    Inside <- MCInside
    Configs <- MCConfigs
    Real <- MCReal
    Contended <- OtherSkillsDir
    Blocked <- AgentsDir
    Missing <- MissingStack
    Leftovers <- TwoDirs
    Intruders <- AsideDir
    MaxEvents = 3
SPECIFICATION Spec
INVARIANTS
    TypeOK
    PassInv
    SettleInv
    OwnMountsAccounted
    WantedIsMounted
    NothingElseMounted
    StraysAreOthers
    FailsAlone
PROPERTIES
    LeaveAlone
    Implements
