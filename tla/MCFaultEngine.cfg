\* Three calls share the generator, and the upstream answers each with the same body.
CONSTANTS
    c1 = c1
    c2 = c2
    c3 = c3
    Calls = {c1, c2, c3}
    Generators <- MCGenerators
    RollOf <- MCRollOf
    AfterRoll <- MCAfterRoll
    PickOf <- MCPickOf
    AfterPick <- MCAfterPick
    Resolution = 4
    MaxScenarios = 3
    Configs <- MCConfigs
    Bodies <- MCBodies
    Absent = Absent
    Scalar = Scalar
    Undecided = Undecided
    Nobody = Nobody
    NoFault = NoFault
    NoAnswer = NoAnswer
SPECIFICATION Spec
INVARIANTS FaultsBite
PROPERTIES ImplementsPlan
CHECK_DEADLOCK FALSE
