SPECIFICATION Spec
CONSTANTS
    Request = {r1, r2}
    Folders <- OneAccount
    All = "all"
    Filter <- MCFilter
    Source = {TRUE, FALSE}
    MaxTime = 2
INVARIANTS OkMeansRefreshed NotFoundIsCertain FailuresStayLocal OneFailureTime
SYMMETRY Symmetry
