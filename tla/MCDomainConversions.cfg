\* Heights and rounds -1, 0, 1 (-1 refused by the bounded integers); two
\* block ids and two committees, so a swap or a mix-up changes the value.
CONSTANTS
    NONE = NONE
    Bad = Bad
    Heights <- MCHeights
    Ids = {"id1", "id2"}
    Committees = {"sc1", "sc2"}
SPECIFICATION Spec
INVARIANTS ConversionsRoundTrip
\* One conversion per input.
CHECK_DEADLOCK FALSE
