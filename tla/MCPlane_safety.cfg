SPECIFICATION Spec
CONSTANTS
    Handler = {h1, h2}
    Rung = {r1}
    NoRung = NoRung
    Unset = Unset
    Empty = Empty
    Bad = Bad
    IndexLimit = 4
    StartClients = 1
    AddCounts = {1, 2}
    MaxAdds = 3
    MaxWindows = 1
SYMMETRY HandlerSymmetry
INVARIANTS TypeOK IndicesUnique BusyIsOneAdd UsedExact AddsJoined
