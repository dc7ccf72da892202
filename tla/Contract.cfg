\* Doubles of three bits, orders of up to two items.
CONSTANTS
    Safe <- MCSafe
    MaxQuantity = 3
    Rounded <- MCRounded
    Bodies <- MCBodies
    Foreign <- MCForeign
SPECIFICATION Spec
CHECK_DEADLOCK FALSE
INVARIANTS
    MoneyIsExact
    OwnEventsAreUnderstood
