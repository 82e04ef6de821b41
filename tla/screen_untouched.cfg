SPECIFICATION MCSpec
CONSTANTS
    Directory <- MCDirectory
    Snowflakes <- MCSnowflakes
    ColorOf <- MCColorOf
    Decimals <- MCDecimals
    NumberTexts <- MCNumberTexts
    Amounts <- MCAmounts
    TypedTexts <- MCTypedTexts
    PickedEntities = 1
    Scenarios <- UntouchedScenarios
    Rounds <- MCOneRound
    MaxClicks = 2
    MaxClients = 1
    MaxOutside = 0
    Totals = {}
    PageSize = 2
    Openings = {1}
    MaxPages = 0
    Flips = {1}
    Uncounted = Uncounted
PROPERTY UntouchedKeepsStored
