SPECIFICATION Spec
CONSTANTS
    FirstYear = 2000
    LastYear = 2037
    Zones = {"NA", "EU", "AU", "AU2", "AU3"}
INVARIANTS
    NorthAmericaRule
    EuropeRule
    AustraliaRule
