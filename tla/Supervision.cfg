SPECIFICATION Spec
CONSTANTS
    Processes = {x1, x2}
    Objects = {y1, y2}
    Slots = {z1, z2}
    Nil = Nil
SYMMETRY Symmetry
INVARIANTS
    QueueIsSafe
    MaintenanceIsTrue
    ControlIsTrue
    MigrationIsSafe
    ElectionIsSafe
    GroupIsTrue
    BootstrapIsSafe
    RepairIsSafe
    StatusIsTrue
    HostIsSafe
    InspectionIsTrue
    ResourceIsTrue
    ScopeIsSafe
    CustodyIsSafe
    NextIsFirst
PROPERTIES
    RowsLeaveForCause
CHECK_DEADLOCK FALSE
