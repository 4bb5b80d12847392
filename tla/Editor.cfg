CONSTANTS
    Types = {"manifest", "log"}
    Size <- MCSize
    Projects = {p, q}
    NoProject = NoProject
    MaxVersion = 1
    MaxSaid = 2
    MaxStarts = 2
    ShellProjects = {p, q}
    NoShellProject = NoProject
    NoDocument = NoDocument
    Assets = {scene}
    MaxEditors = 4
    Clients = {c, d}
    AssetIds = {"material", "texture", "shader"}
    Loads <- MCLoads
    Keeps <- MCKeeps
    Named = {"shader"}
    Nothing = Nothing
    MaxObjects = 5
    RecordsOf <- MCRecords
    MaxRecords = 3
    MaxHistory = 2
    MaxSelected = 1
    MenuCommands <- MCMenuCommands
    Placed <- MCPlaced
    Categories <- MCCategories
    Schemas <- MCSchemas
    NoUuid = NoUuid
    NoLogical = NoLogical
    Roots = {"Empty", "Numbers", "Angles", "Marks", "Places", "Parts"}
    Entered <- MCEntered
    NoObject = NoObject
    MaxItems = 3
    WindowSizes = {1, 2}
    ContentSizes = {1, 2}
    NoTexture = NoTexture
    Meshes = {"mesh"}
    GridVertices = 3
    MaxVertsPerChunk = 2
    MaxScreens = 3
SPECIFICATION EditorSpec
SYMMETRY Interchangeable
INVARIANT LinkRight
INVARIANT DocumentsRight
INVARIANT HandlesLive
INVARIANT BrowserRight
INVARIANT MenuOrdered
INVARIANT GridRight
INVARIANT PicturesRight
INVARIANT ScreenRight
