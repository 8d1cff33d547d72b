SPECIFICATION Spec
CONSTANTS
    Handler = {h1, h2}
    Rung = {r1, r2}
    NoRung = NoRung
    Unset = Unset
    Empty = Empty
    Bad = Bad
    IndexLimit = 3
    StartClients = 1
    AddCounts = {1}
    MaxAdds = 2
    MaxWindows = 2
INVARIANT RequestAddReturns
