SPECIFICATION SpecParts
CONSTANTS
    Event = {e1, e2}
    Process = {p1, p2}
    NoLog = NoLog
    Pieces = 2
    MaxLines = 3
    MaxCrashes = 2
    Files = {f1, f2}
    Rules <- RulesGiven
    Label <- LabelGiven
    MaxPeople = 1
    MaxStops = 2
    Groups <- GroupsGiven
    TagOf <- TagGiven
    Supers <- SupersGiven
    FieldType <- FieldTypeGiven
    Value <- ValueGiven
    Folder <- FolderGiven
    Marker <- MarkerGiven
    Proposal = "mine"
    TableNames = {"runs", "cans"}
    MinRows <- MinGiven
    MaxRows <- MaxGiven
    Unset = Unset
    Given <- ParamsGiven
    Rows <- RowsGiven
    Thread = {t1, t2}
    MaxPushes = 2
    WaysTaken <- WaysGiven
    Entered = {1, 2}
    FileChoices = {g1}
    OutputChoices = {o1, o2}
    NotGiven = NotGiven
    MaxTableRows = 2
    MaxSubmitted = 2
    Field <- FieldGiven
    Texts <- TextsGiven
    Numbers = {1, 2}
    Seconds = {1, 2}
    Zones <- ZonesGiven
    UNSET = UNSET
    NoValue = NoValue
    MaxElements = 2
INVARIANTS PhasesAgree ErrorsLocated StateAsRequest EditorShowsRow GivesBack
PROPERTIES ImplementsLog SettledOnce EachSettled ChangesKept SelectionStays OutcomeShown
CHECK_DEADLOCK FALSE
