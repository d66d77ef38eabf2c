SPECIFICATION PagedListsSpec
CONSTANTS
    Jobs <- MCJobs
    Users = {u1}
    Tags = {g1}
    PageLimits = {0, 1, 2}
    SortKeys = {"joblength", "StartTime", "NumNodes"}
    SearchLimit = 2
    NoList = NoList
    NoPage = NoPage
    MaxVisits = 2
INVARIANTS
    PagedListsInv
    LeafingShowsAll
PROPERTIES
    PageSurvivesReload
