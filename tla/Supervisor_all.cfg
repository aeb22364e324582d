SPECIFICATION Spec
CONSTANTS
    Asks <- MCAsks
    MaxDeaths = 2
INVARIANT Understood
PROPERTIES StopsWhenAsked ReturnsOnlyAfterQuit ServesUnlessDeaf CarriesUnlessHung
