CONSTANTS
    Temperature = {2, 3, 6}
    Neutral = 6
    Near = 2
    MaxStartups = 2
    MaxCommands = 2
    MaxChanges = 2
SPECIFICATION LiveSpec
INVARIANTS
    ToldIsShown
PROPERTIES
    FilterTakenOffFirst
    NightLightSettles
