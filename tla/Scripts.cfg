SPECIFICATION ScriptsSpec
CONSTANTS
    N = 2
    Sources = {s, t}
    Caches = {later, older}
    Formats = {1, 2}
    VersionOf <- MCVersionOf
    Absent = Absent
    MaxEvents = 3
    later = later
    older = older
    plain = plain
    derived = derived
    broken = broken
    i1 = i1
    i2 = i2
    none = none
    ScriptTexts <- MCTexts
    Compilable <- MCCompilable
    Inherits <- MCInherits
    StaticInit <- MCStaticInit
    Instances <- MCInstances
    NoInstance <- none
    MaxGenerations = 3
    MaxCallDepth = 2
INVARIANTS
    PSTypeOK
    HitsAreForTheirSource
    OuterInstancesKeepTheirGeneration
    AttachedInstancesAreWhole
    UsableClassesAreInitialized
PROPERTIES
    ColdIsAbsent
    LoadIsAllOrNothing
    InstancesFailForTheirOwnFault
