SPECIFICATION Spec
CONSTANTS
    Cols = 2
    TextRows = 3
    VgaRows = 6
    Char = {"a"}
    Strings <- SomeStrings
    Numbers <- SomeNumbers
    Interruptible = FALSE
    MaxText = 7
INVARIANTS ScreenShowsText 
