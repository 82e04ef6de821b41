SPECIFICATION MCFairSpec
CONSTANTS
    Directory <- MCDirectory
    Snowflakes <- MCSnowflakes
    ColorOf <- MCColorOf
    Decimals <- MCDecimals
    NumberTexts <- MCNumberTexts
    Amounts <- MCAmounts
    TypedTexts <- MCTypedTexts
    PickedEntities = 1
    Scenarios <- MCScenarios
    Rounds <- MCRounds
    MaxClicks = 2
    MaxClients = 2
    MaxOutside = 1
    Totals = {0, 5}
    PageSize = 2
    Openings <- MCOpenings
    MaxPages = 3
    Flips <- MCFlips
    Uncounted = Uncounted
INVARIANTS
    PagesSound
    RendersSound
    AnswersItsOwnModal
PROPERTIES
    LayoutSound
    RoundTripFaithful
    UntouchedMembersKept
    RoundsSettle
