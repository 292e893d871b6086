SPECIFICATION BitmapSpec
CONSTANTS
    W = 3
    NInteger = 2
INVARIANT EmptyIsSeen
