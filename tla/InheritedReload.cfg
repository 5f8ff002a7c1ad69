CONSTANTS
    plain = plain
    derived = derived
    broken = broken
    i1 = i1
    i2 = i2
    none = none
    ScriptTexts <- MCTexts
    Compilable <- MCCompilable
    Inherits <- MCInherits
    StaticInit <- MCStaticInit
    Instances <- MCInstances
    NoInstance <- none
    MaxGenerations = 3
    MaxCallDepth = 2
SPECIFICATION ScriptSpec
INVARIANT
    LiveInstancesKeepTheirFunctions
