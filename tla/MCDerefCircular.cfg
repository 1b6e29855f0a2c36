CONSTANTS
    Documents <- MCDocuments
    Members <- MCMembers
    Literals <- MCLiterals
    Containers <- MCContainers
    Entry = "entry"
    Here = "here"
    Nowhere = "nowhere"
SPECIFICATION DerefSpec
INVARIANT NoInfiniteRecursion
