\* Three generations: a preview after a preview, an apply after either, and
\* one more to show what the second left behind.
CONSTANTS
    None = None
    MaxGeneration = 3
    MaxOperation = 2
    MaxDisturbance = 2
SPECIFICATION LiveSpec
INVARIANTS
    PreviewIsSafe
    ToldIsTrue
PROPERTIES
    PreviewEnds
    ActsOnWhatWasShown
    ClientConverges
CHECK_DEADLOCK FALSE
