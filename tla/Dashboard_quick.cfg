\* Two quick actions, the trunk, the menu and the cover.
SPECIFICATION FairSpec
CONSTANTS
    Toggles = {"locked", "isClimateOn"}
INVARIANTS
    TypeOK
    OneStatusRequest
    AtRestShowsCar
PROPERTIES
    ComesToRest
