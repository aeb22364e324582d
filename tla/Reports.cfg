SPECIFICATION Spec
CONSTANTS
    Hashed = {"#b"}
    Bare = {"0", "1", "12.5", "-"}
    Numbers = {"0", "1", "12.5"}
    Id = 1
    ReportPaths = {"/data.json", "/other"}
    DataPaths = {"/data.json"}
    RegisterFiles <- MCRegisterFiles
    Clocks <- MCClocks
    ExceptionCodes = {2}
    Strays = {4}
    Portions = {3}
    MaxLate = 1
    MaxChanges = 1
    MaxFaults = 1
    Tables <- MCTables
    Names <- MCNames
    MaxRecords = 2
    Deadly = {0}
    Segments <- MCSegments
    Weight <- MCWeight
    MaxWeight = 6
INVARIANTS TypeOK NotTorn RequestsAccepted NoUseAfterFree FindsWhatIsThere JsonWhereThereIs NothingLost ServicesSendJson
PROPERTIES GoodRequestServed QuitReturns
