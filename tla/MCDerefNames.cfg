CONSTANTS
    Documents <- MCSettling
    Members <- MCMembers
    Literals <- MCLiterals
    Containers <- MCContainers
    Entry = "entry"
    Here = "here"
    Nowhere = "nowhere"
SPECIFICATION DerefSpec
INVARIANT NamesAreNoKeywords
