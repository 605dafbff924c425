SPECIFICATION RoutedSpec
CONSTANTS
    Users = {u1}
    Names = {a, b}
    Uploads = {t1}
    Deletes = {d1, d2}
    Choices = {c1}
    Pods = {p1, p2}
    MaxFaults = 1
    None = None
    Here = {t1, d1}
    ThisPod = p1
INVARIANTS ListedWhenTold
PROPERTIES SelectionIsChosen EveryUploadSettles
CHECK_DEADLOCK FALSE
