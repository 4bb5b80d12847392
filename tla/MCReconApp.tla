------------------------------ MODULE MCReconApp ------------------------------
EXTENDS ReconApp, TLC

\* A folder with a file in it that a shader outside it includes, and nothing
\* else; the shader is listed first or last.
CONSTANTS root, dir, header, shader, u1, u2, u3, u4, u5, u6, u7

MCPaths == {root, dir, header, shader}
MCFolders == {root, dir}
MCParent == root :> root @@ dir :> root @@ header :> dir @@ shader :> root
MCIncludes == root :> {} @@ dir :> {} @@ header :> {} @@ shader :> {header}
MCSilent == {header}
MCFirstMeta == root :> u1 @@ dir :> u2 @@ header :> u3 @@ shader :> u4
MCListOrder == <<shader, dir, header>>

\* Contents are only compared with each other.
Symmetry == Permutations(Contents)

\* Nothing reads the manifest: where no property speaks of it, states that
\* differ only in it count as one.
WithoutManifest == <<tables, source, meta, unnoticed, cas, events, program, spent>>
=============================================================================
