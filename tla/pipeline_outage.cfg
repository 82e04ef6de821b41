SPECIFICATION Spec
CONSTANTS
    Interactions = {i1, i2}
    Routes <- MCRoutes
    Modules <- MCModules
    Unavailable <- MCUnavailable
    CooldownKeys <- MCKeys
    Window = 2
INVARIANT OutageAnswered
