CONSTANTS
    a = a
    b = b
    c = c
    t1 = t1
    t2 = t2
    t3 = t3
    skills = skills
    agents = agents
    s1 = s1
    s2 = s2
    Invalid = Invalid
    None = None
    Names <- MCNames
    Targets <- MCTargets
    Folders <- MCFolders
    Stacks <- MCStacks
    Inside <- MCInside
    Configs <- MCConfigsHeals
    Real <- MCReal
    Contended <- SkillsDir
    Blocked = {}
    Missing = {}
    Leftovers <- AgentsDir
    Intruders = {}
    MaxEvents = 2
SPECIFICATION FairSpec
PROPERTIES
    Heals
