CONSTANTS
    root = root
    dir = dir
    header = header
    shader = shader
    Paths <- MCPaths
    Root = root
    Folders <- MCFolders
    Parent <- MCParent
    Includes <- MCIncludes
    Silent <- MCSilent
    Unmapped = {header}
    ListOrder <- MCListOrder
    c1 = c1
    c2 = c2
    Contents = {c1, c2}
    Bad = Bad
    Absent = Absent
    Folder = Folder
    u1 = u1
    u2 = u2
    u3 = u3
    u4 = u4
    u5 = u5
    u6 = u6
    u7 = u7
    Uuids = {u1, u2, u3, u4, u5}
    FirstMeta <- MCFirstMeta
    NoUuid = NoUuid
    NoRow = NoRow
    NoManifest = NoManifest
    Assumed = {"metas", "between"}
    MaxChanges = 2
    MaxRequests = 0
    MaxCrashes = 1
    MaxTogether = 3
SPECIFICATION FairSpec
INVARIANT Tracked
INVARIANT ManifestCurrent
PROPERTY ForgetsOnlyDeleted
PROPERTY SettlesAgain
CHECK_DEADLOCK FALSE
