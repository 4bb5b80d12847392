------------------------------- MODULE MCEditor -------------------------------
(***************************************************************************)
(* Seven parts of the editor that share nothing in their models, explored    *)
(* in one run: a behaviour is one of `subject` alone, while the rest stays *)
(* as it is.                                                               *)
(***************************************************************************)
EXTENDS ReconLink, Shell, AssetLoader, AssetBrowser, Menu, PropertyGrid, Rendering

VARIABLE subject

\* A log message is longer than the start of any message; one about the
\* manifest has an empty object for a body.
MCSize == [t \in Types |-> IF t = "log" THEN 5 ELSE 1]

\* A material loads its two shaders, here the same one, and a texture, which it
\* keeps.
MCLoads == [id \in AssetIds |-> IF id = "material" THEN <<"shader", "shader", "texture">> ELSE <<>>]
MCKeeps == [id \in AssetIds |-> IF id = "material" THEN {"texture"} ELSE {}]

ARecord(path, kind, output) == [path |-> path, kind |-> kind, output |-> output]
MCRecords ==
    {ARecord(<<"c">>, "folder", FALSE), ARecord(<<"a", "w">>, "file", FALSE),
     ARecord(<<"a", "b", "z">>, "file", FALSE), ARecord(<<"a", "w">>, "file", TRUE)}

APlace(menu, title, group, priority) ==
    [menu |-> menu, title |-> title, group |-> group, priority |-> priority]
MCPlaced ==
    [quit |-> APlace(<<1>>, 1, 9, 1000), open |-> APlace(<<1>>, 2, 3, 100),
     about |-> APlace(<<3>>, 3, 0, 1000), logs |-> APlace(<<2>>, 1, 3, 100),
     grid |-> APlace(<<2, 3>>, 1, 0, 1000), reset |-> APlace(<<2>>, 2, 3, 100)]
MCMenuCommands == DOMAIN MCPlaced
MCCategories == <<1>> :> 1 @@ <<2>> :> 5 @@ <<2, 3>> :> 5

\* Objects with an array of scalars, of structures and of pointers, fields under
\* other names, hidden and flattened ones, and each primitive that has an editor.
ASchema(primitive, element, fields, values) ==
    [primitive |-> primitive, element |-> element, fields |-> fields, values |-> values]
Scalar(primitive) == ASchema(primitive, "", <<>>, <<>>)
ArrayOf(element) == ASchema("Array", element, <<>>, <<>>)
Struct(fields) == ASchema("Object", "", fields, <<>>)
AField(name, json, schema, annotations) ==
    [name |-> name, json |-> json, schema |-> schema, annotations |-> annotations]
PlainField(name, schema) == AField(name, "", schema, {})
MCSchemas ==
    [bool |-> Scalar("Bool"), float |-> Scalar("Number"), vec3 |-> Scalar("Vec3"),
     uuid |-> Scalar("Uuid"), asset |-> Scalar("AssetRef"),
     severity |-> ASchema("Enum", "", <<>>, <<[name |-> "Info", value |-> 0], [name |-> "Error", value |-> 1]>>),
     Euler |-> Struct(<<PlainField("yaw", "float")>>),
     box |-> ASchema("Pointer", "Euler", <<>>, <<>>),
     inner |-> Struct(<<AField("level", "severity", "severity", {}), AField("secret", "", "bool", {"Hidden"})>>),
     floats |-> ArrayOf("float"), boxes |-> ArrayOf("box"), inners |-> ArrayOf("inner"),
     Empty |-> Struct(<<>>),
     Numbers |-> Struct(<<AField("numbers", "values", "floats", {})>>),
     Angles |-> Struct(<<PlainField("angle", "Euler"), PlainField("pointer", "box")>>),
     Marks |-> Struct(<<PlainField("enabled", "bool"), AField("inner", "", "inner", {"Flatten"}), PlainField("mesh", "asset")>>),
     Places |-> Struct(<<AField("id", "uuid", "uuid", {}), PlainField("position", "vec3"), PlainField("boxes", "boxes")>>),
     Parts |-> Struct(<<PlainField("parts", "inners")>>)]
MCEntered ==
    [bool |-> BOOLEAN, float |-> {0, 1}, vec3 |-> {<<0, 0, 0>>, <<0, 1, 0>>}, uuid |-> {"u"}, severity |-> {0, 1},
     asset |-> {[uuid |-> "u", logical |-> NoLogical], [uuid |-> "u", logical |-> "part"]},
     Euler |-> {[yaw |-> 0], [yaw |-> 1]}]

EditorInit ==
    /\ subject \in {"link", "shell", "loader", "browser", "menu", "grid", "rendering"}
    /\ LinkInit /\ ShellInit /\ LoaderInit /\ BrowserInit /\ MenuInit /\ GridInit /\ RenderInit
    /\ subject # "link" => disk = [n \in Projects |-> Missing]
    /\ subject # "shell" => shellProject = NoShellProject
    /\ subject # "loader" => records = {}
    /\ subject # "grid" => root = "Empty"
    /\ subject # "rendering" => window = 1

\* The program ends when the user quits.
ShellStep == ShellNext \/ (phase = "stopped" /\ UNCHANGED shellVars)

EditorNext ==
    /\ UNCHANGED subject
    /\ \/ subject = "link" /\ LinkNext
          /\ UNCHANGED <<shellVars, loaderVars, browserVars, menuVars, gridVars, renderVars>>
       \/ subject = "shell" /\ ShellStep
          /\ UNCHANGED <<linkVars, loaderVars, browserVars, menuVars, gridVars, renderVars>>
       \/ subject = "loader" /\ LoaderNext
          /\ UNCHANGED <<linkVars, shellVars, browserVars, menuVars, gridVars, renderVars>>
       \/ subject = "browser" /\ BrowserNext
          /\ UNCHANGED <<linkVars, shellVars, loaderVars, menuVars, gridVars, renderVars>>
       \/ subject = "menu" /\ MenuNext
          /\ UNCHANGED <<linkVars, shellVars, loaderVars, browserVars, gridVars, renderVars>>
       \/ subject = "grid" /\ GridNext
          /\ UNCHANGED <<linkVars, shellVars, loaderVars, browserVars, menuVars, renderVars>>
       \/ subject = "rendering" /\ RenderNext
          /\ UNCHANGED <<linkVars, shellVars, loaderVars, browserVars, menuVars, gridVars>>

EditorSpec ==
    EditorInit /\ [][EditorNext]_<<subject, linkVars, shellVars, loaderVars, browserVars, menuVars, gridVars, renderVars>>

\* The projects are alike, and so are the clients of the loader.
Interchangeable == Permutations(Projects) \cup Permutations(Clients)
=============================================================================
