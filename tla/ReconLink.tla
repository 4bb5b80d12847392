------------------------------ MODULE ReconLink ------------------------------
(***************************************************************************)
(* The editor's link to the importer: opening a project loads its manifest *)
(* and starts an importer process for it, whose messages arrive through a  *)
(* pipe in chunks of any size; closing the project kills the process and   *)
(* drops the pipe. The decoder (ReconProtocol) belongs to the client and   *)
(* outlives the process, with whatever it has not consumed.                *)
(*                                                                         *)
(* The importer writes the manifest of its project in place and then says  *)
(* so; it may be killed at any moment. The editor reads the file when it   *)
(* opens the project, on the user's request and when it hears of a change. *)
(***************************************************************************)
EXTENDS ReconProtocol, ResourceManifest

CONSTANTS Projects,
          NoProject,
          MaxVersion,   \* bounds how often the manifests are written
          MaxSaid,      \* bounds how many messages a process sends
          MaxStarts     \* bounds how often a project is opened

ASSUME LinkAssumption ==
    /\ NoProject \notin Projects
    /\ {"manifest", "log"} = Types

VARIABLES project,      \* the project that is open
          manifest,     \* the manifest the asset loader is bound to
          decoder,      \* the client's decoder
          pipe,         \* what the process has written and the editor has not read
          disk,         \* disk[p]: the manifest file of p, <<>> before there is one
          writing,      \* the process has begun to write the manifest
          announce,     \* the process has yet to say that it has written it
          version,      \* the last version written
          said,         \* the messages of this process
          cut,          \* how the decoder was left when this process started
          starts        \* how many projects have been opened

linkVars ==
    <<project, manifest, decoder, pipe, disk, writing, announce, version, said, cut, starts>>

NoManifest == [of |-> NoProject, records |-> <<>>]
Missing == <<Line("missing", 0)>>
IsOpen == project # NoProject

\* Whether a decoder is inside a message, and the bytes its body still misses.
CutOf(d) ==
    [clean |-> AtBoundary(d),
     owed |-> IF d.state = "body" THEN d.length - Len(d.buffer) ELSE 0]

LinkInit ==
    /\ project = NoProject
    /\ manifest = NoManifest
    /\ decoder = NewDecoder
    /\ pipe = <<>>
    /\ disk \in [Projects -> {Missing, ManifestText(0)}]
    /\ writing = FALSE
    /\ announce = FALSE
    /\ version = 0
    /\ said = <<>>
    /\ cut = CutOf(NewDecoder)
    /\ starts = 0

-----------------------------------------------------------------------------
(***************************************************************************)
(* The editor.                                                             *)
(***************************************************************************)
\* Binds the manifest of p, as far as it can be read; one that is not there
\* leaves the manifest that is bound.
LoadManifest(p) ==
    manifest' = IF disk[p] = Missing THEN manifest ELSE [of |-> p, records |-> Records(disk[p])]

\* The client makes two new pipes and spawns the process; the decoder stays.
\* The importer announces the manifest it finds before it looks for changes.
StartClient ==
    /\ pipe' = <<>>
    /\ writing' = FALSE
    /\ announce' = TRUE
    /\ said' = <<>>
    /\ cut' = CutOf(decoder)
    /\ decoder' = [decoder EXCEPT !.heard = <<>>]

OpenProject(p) ==
    /\ ~IsOpen
    /\ starts < MaxStarts
    /\ starts' = starts + 1
    /\ project' = p
    /\ LoadManifest(p)
    /\ StartClient
    /\ UNCHANGED <<disk, version>>

\* The pipe is closed with what it holds and the process is killed.
StopClient ==
    /\ pipe' = <<>>
    /\ writing' = FALSE
    /\ announce' = FALSE

CloseProject ==
    /\ IsOpen
    /\ StopClient
    /\ project' = NoProject
    /\ UNCHANGED <<manifest, decoder, disk, version, said, cut, starts>>

\* One read callback: the chunk is decoded, and for each message about the
\* manifest in it the manifest is loaded.
Poll(n) ==
    /\ n \in 1..Len(pipe)
    /\ decoder' = Receive(decoder, SubSeq(pipe, 1, n))
    /\ pipe' = SubSeq(pipe, n + 1, Len(pipe))
    /\ LET news == SubSeq(decoder'.heard, Len(decoder.heard) + 1, Len(decoder'.heard))
       IN IF "manifest" \in Range(news) THEN LoadManifest(project) ELSE UNCHANGED manifest
    /\ UNCHANGED <<project, disk, writing, announce, version, said, cut, starts>>

\* The user asks for an import: besides the request, the manifest is loaded.
ImportResources ==
    /\ IsOpen
    /\ LoadManifest(project)
    /\ UNCHANGED <<project, decoder, pipe, disk, writing, announce, version, said, cut, starts>>

-----------------------------------------------------------------------------
(***************************************************************************)
(* The importer process of the open project.                               *)
(***************************************************************************)
Send(t) ==
    /\ Len(said) < MaxSaid
    /\ said' = Append(said, t)
    /\ pipe' = pipe \o Encode(t)

SendLog ==
    /\ IsOpen
    /\ Send("log")
    /\ UNCHANGED <<project, manifest, decoder, disk, writing, announce, version, cut, starts>>

SendManifest ==
    /\ IsOpen /\ announce /\ ~writing
    /\ announce' = FALSE
    /\ Send("manifest")
    /\ UNCHANGED <<project, manifest, decoder, disk, writing, version, cut, starts>>

\* The file is truncated and filled piece by piece: until it is complete a
\* reader, or the next process if this one is killed, finds a part of it.
BeginWrite ==
    /\ IsOpen /\ ~announce /\ ~writing
    /\ version < MaxVersion
    /\ version' = version + 1
    /\ writing' = TRUE
    /\ \E part \in Torn(ManifestText(version')) : disk' = [disk EXCEPT ![project] = part]
    /\ UNCHANGED <<project, manifest, decoder, pipe, announce, said, cut, starts>>

EndWrite ==
    /\ IsOpen /\ writing
    /\ writing' = FALSE
    /\ announce' = TRUE
    /\ disk' = [disk EXCEPT ![project] = ManifestText(version)]
    /\ UNCHANGED <<project, manifest, decoder, pipe, version, said, cut, starts>>

Importer == SendLog \/ SendManifest \/ BeginWrite \/ EndWrite

\* A frame in which nothing happens.
Idle == UNCHANGED linkVars

LinkNext ==
    \/ \E p \in Projects : OpenProject(p)
    \/ CloseProject
    \/ \E n \in 1..Len(pipe) : Poll(n)
    \/ ImportResources
    \/ Importer
    \/ Idle

LinkSpec == LinkInit /\ [][LinkNext]_linkVars

-----------------------------------------------------------------------------
(***************************************************************************)
(* Properties                                                              *)
(***************************************************************************)
\* Everything the process has said has been read.
Quiet == IsOpen /\ pipe = <<>> /\ ~writing /\ ~announce

\* When the importer has nothing left to say and all of it has been read, the
\* editor is bound to the manifest that is on disk, whatever part of it it read
\* while it was written, and never to that of another project: provided that
\* the last process was not cut off inside a message.
FreshManifest ==
    Quiet /\ cut.clean /\ disk[project] # Missing =>
        manifest = [of |-> project, records |-> Records(disk[project])]

\* The number of messages that the first n bytes of what was said reach into.
Reached(n) ==
    LET Sent(k) == Len(FlattenSeq([i \in 1..k |-> Encode(said[i])]))
    IN Cardinality({k \in DOMAIN said : Sent(k - 1) < n})

\* A message that was cut off by the end of its process spoils the messages of
\* the next one that its missing bytes are taken from, and at least the first;
\* from then on what is said is heard, in order and as the type it is. A
\* decoder that was left at a boundary spoils none.
Resynchronised ==
    IsOpen /\ pipe = <<>> =>
        LET spoilt == IF cut.clean THEN 0 ELSE Max({1, Reached(cut.owed)})
            Rest(s, k) == SubSeq(s, k + 1, Len(s))
        IN \E k, j \in 0..spoilt : Rest(said, k) = Rest(decoder.heard, j)

\* Whatever an importer that is killed leaves in the pipe, the decoder and the
\* file, the editor hears the next one and loads what it has written.
LinkRight == FreshManifest /\ Resynchronised
=============================================================================
