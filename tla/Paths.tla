--------------------------------- MODULE Paths ---------------------------------
(***************************************************************************)
(* libruntime's functions on paths.  A path is a sequence of characters, of   *)
(* which the functions tell apart the two separators, the dot and the rest.  *)
(***************************************************************************)
EXTENDS Naturals, Sequences, SequencesExt, FiniteSetsExt

CONSTANTS
    Letters,        \* the characters that are neither separators nor dots
    MaxPath         \* bound: characters of a path

VARIABLES path, separator

pathVars == <<path, separator>>

Separators == {"/", "\\"}

PathInit == path = <<>> /\ separator \in Separators

\* Any path can be asked about.
Extend ==
    /\ Len(path) < MaxPath
    /\ \E ch \in Separators \cup {"."} \cup Letters : path' = Append(path, ch)
    /\ UNCHANGED separator

PathNext == Extend \/ UNCHANGED pathVars

PathSpec == PathInit /\ [][PathNext]_pathVars

-----------------------------------------------------------------------------
(* Names and extensions *)

\* find_last_of, 0 for npos.
LastOf(p, chars) == Max({0} \cup {i \in DOMAIN p : p[i] \in chars})
First(p, count) == SubSeq(p, 1, count)
After(p, count) == SubSeq(p, count + 1, Len(p))

Extension(p) ==
    LET at == LastOf(p, Separators \cup {"."})
    IN IF at # 0 /\ p[at] = "." THEN After(p, at - 1) ELSE <<>>

WithoutExtension(p) == First(p, Len(p) - Len(Extension(p)))

ChangeExtension(p, extension) == WithoutExtension(p) \o extension

Filename(p) == After(p, LastOf(p, Separators))

Filebasename(p) == Filename(WithoutExtension(p))

Parent(p) ==
    LET at == LastOf(p, Separators)
    IN IF p = <<>> THEN p
       ELSE IF at = 0 THEN <<"/">>
       ELSE First(p, Max({1, at - 1}))

IsParentOf(folder, filename) ==
    /\ Len(filename) > Len(folder)
    /\ IsPrefix(folder, filename)
    /\ filename[Len(folder) + 1] \in Separators

Join(components) ==
    FoldLeft(LAMBDA joined, component :
                 IF component = <<>> \/ joined = <<>> THEN joined \o component
                 ELSE Append(joined, separator) \o component,
             <<>>, components)

-----------------------------------------------------------------------------
(* Normal form, a character at a time *)

\* In isNormalized only the slash ends a part of dots.
CheckedPart(part, ch) ==
    CASE part = "Rejected" -> "Rejected"
      [] part \in {"Empty", "Slash"} /\ ch \in Separators ->
             IF part = "Slash" THEN "Rejected" ELSE "Slash"
      [] part \in {"Empty", "Slash"} /\ ch = "." -> "Dot"
      [] part = "Component" /\ ch \in Separators -> "Slash"
      [] part \in {"Dot", "DotDot"} /\ ch = "/" -> "Rejected"
      [] part = "Dot" /\ ch = "." -> "DotDot"
      [] OTHER -> "Component"

IsNormalized(p) == p = <<>> \/ FoldLeft(CheckedPart, "Empty", p) = "Component"

\* popPath: the last part goes, with the separator before it, if there is one.
Popped(result) ==
    LET at == LastOf(result, {separator}) IN IF at = 0 THEN result ELSE First(result, at - 1)

\* What has been written, and the part that is being read.
Emit(done, part, chars) == [part |-> part, result |-> done.result \o chars]

ReadDots(done, ch, dots) ==
    IF ch \in Separators
    THEN [part |-> "Slash", result |-> IF Len(dots) = 2 THEN Popped(done.result) ELSE done.result]
    ELSE IF ch = "." /\ Len(dots) = 1 THEN Emit(done, "DotDot", <<>>)
    ELSE Emit(done, "Component", Append(dots, ch))

ReadChar_Fault(done, ch) ==
    CASE done.part \in {"Empty", "Slash", "Component"} /\ ch \in Separators -> Emit(done, "Slash", <<>>)
      [] done.part \in {"Empty", "Slash"} /\ ch = "." -> Emit(done, "Dot", <<>>)
      [] done.part \in {"Empty", "Component"} -> Emit(done, "Component", <<ch>>)
      [] done.part = "Slash" ->
             Emit(done, "Component", IF done.result = <<>> THEN <<ch>> ELSE <<separator, ch>>)
      [] done.part = "Dot" -> ReadDots(done, ch, <<".">>)
      [] done.part = "DotDot" -> ReadDots(done, ch, <<".", ".">>)
ReadChar(done, ch) ==
    CASE done.part \in {"Empty", "Slash", "Component"} /\ ch \in Separators -> Emit(done, "Slash", <<>>)
      [] done.part \in {"Empty", "Slash"} /\ ch = "." -> Emit(done, "Dot", <<>>)
      [] done.part \in {"Empty", "Component"} -> Emit(done, "Component", <<ch>>)
      [] done.part = "Slash" ->
             Emit(done, "Component",
                   IF done.result # <<>> /\ Last(done.result) = separator THEN <<ch>> ELSE <<separator, ch>>)
      [] done.part = "Dot" -> ReadDots(done, ch, <<".">>)
      [] done.part = "DotDot" -> ReadDots(done, ch, <<".", ".">>)

Normalize(p) ==
    LET done == FoldLeft(ReadChar, [part |-> "Empty", result |-> <<>>], p)
        result == IF done.part = "DotDot" THEN Popped(done.result) ELSE done.result
    IN IF p = <<>> THEN p ELSE IF result = <<>> THEN <<separator>> ELSE result

-----------------------------------------------------------------------------
(* The reference: a path is the list of its parts *)

Parts(p) ==
    FoldLeft(LAMBDA parts, ch :
                 IF ch \in Separators THEN Append(parts, <<>>)
                 ELSE [parts EXCEPT ![Len(parts)] = Append(@, ch)],
             <<<<>>>>, p)

IsName(part) == part \notin {<<>>, <<".">>, <<".", ".">>}

\* No file is hidden: its name or a folder's starts with a dot.
NothingHidden(p) == \A part \in Range(Parts(p)) : IsName(part) => Head(part) # "."

\* Each name is kept, save those that a later double dot takes back.
Resolved(parts) ==
    FoldLeft(LAMBDA kept, part :
                 IF IsName(part) THEN Append(kept, part)
                 ELSE IF part = <<".", ".">> /\ kept # <<>> THEN Front(kept)
                 ELSE kept,
             <<>>, parts)

Rooted(names) == FlattenSeq([i \in DOMAIN names |-> <<separator>> \o names[i]])

\* What path.h:55-60 says that normalize returns: the names that are left, each after
\* a separator, and one separator if none is.
Resolution(p) ==
    IF Resolved(Parts(p)) = <<>> THEN <<separator>> ELSE Rooted(Resolved(Parts(p)))

\* The path begins with a separator or with dots; a path that begins with a name is
\* relative, and normalize leaves it so.
AtRoot(p) == p # <<>> /\ ~IsName(Head(Parts(p)))
NoDoubleDot(p) == <<".", ".">> \notin Range(Parts(p))

\* normalize does what path.h:55-60 says to a path that begins at the root and has no
\* hidden file (NamesKept is about those), and to a relative path without double dots
\* save for the leading slash.  The header promises more than the code does, and the
\* repository's tests ask for the code's answers: the empty path stays empty, a
\* relative path gets no slash, a double dot does not take back the name it starts
\* with, and isNormalized is false of the root alone.  What normalize returns for any
\* path is normal but for that, and stays as it is; name, extension and parent make
\* up the path again, so that a folder is the parent of what is in it and the name of
\* a file's .meta leads back to the file.
PathsRight ==
    /\ AtRoot(path) /\ NothingHidden(path) => Normalize(path) = Resolution(path)
    /\ path # <<>> /\ ~AtRoot(path) /\ NothingHidden(path) /\ NoDoubleDot(path) =>
           <<separator>> \o Normalize(path) = Resolution(path)
    /\ Normalize(Normalize(path)) = Normalize(path)
    /\ separator = "/" => IsNormalized(Normalize(path)) \/ Normalize(path) = <<"/">>
    /\ Filename(path) = Filebasename(path) \o Extension(path)
    /\ \A ch \in Letters : ChangeExtension(path \o <<".", ch>>, <<>>) = path
    /\ LastOf(path, Separators) > 1 =>
           /\ IsParentOf(Parent(path), path)
           /\ Join(<<Parent(path), Filename(path)>>)
                  = (IF Filename(path) = <<>> THEN Parent(path)
                     ELSE [path EXCEPT ![LastOf(path, Separators)] = separator])

\* What path.h says of normalize: it only strips and condenses slashes and resolves
\* the dots, so that the names of a path from the root stay as they are.
NamesKept == AtRoot(path) => Normalize(path) = Resolution(path)
=============================================================================
