---------------------------- MODULE MCSceneEditor ----------------------------
\* The scene editor with small documents; bodies are interchangeable addresses.
EXTENDS SceneEditor, TLC

CONSTANTS b1, b2, b3

Symmetry == Permutations(Bodies)

\* Of the preview's storages only what they have for the entities in the
\* document is ever looked at again, and of that a body's nothing.
Seen ==
    [i \in Indices(ents) |->
        LET e == ents[i].previewId IN
        IF Contains(pStorage["Transform"], e) THEN <<Get(pStorage["Transform"], e)>> ELSE <<>>]

View == <<spaceVars, docVars, pNextId, Seen, saveVars, stage, game, playing, made>>
=============================================================================
