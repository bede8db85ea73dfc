SPECIFICATION MCSpec
CONSTANTS
    Tokens <- MCTokens
    Texts <- MCTexts
    RoleTables <- MCRoleTables
    Conn = "c1"
    MaxText = 4
    MaxList = 3
    Callers = {r1, r2}
    MaxOpen = 2
    Tabs = {1, 2}
    Size = 1
    Names = {"a", "b"}
    Full = {"a"}
    MaxCalls = 2
INVARIANTS GateInv RunsWhatIsPermitted OperatorsMatch PluginInv WholeOrSql
PROPERTY CallsReturn
CHECK_DEADLOCK FALSE
