--------------------------- MODULE ResourceManifest ---------------------------
(***************************************************************************)
(* The manifest the importer writes for a project and the editor reads:    *)
(* a text of lines, of which the parser takes the records. A file that is  *)
(* cut off, because it is read or because its writer is killed while it is *)
(* being written, ends in a line that misses columns.                      *)
(***************************************************************************)
EXTENDS Naturals, Sequences, FiniteSetsExt

Line(kind, v) == [kind |-> kind, version |-> v]

\* The text of a manifest of the given version.
ManifestText(v) ==
    <<Line("header", 0), Line("record", v)>>

\* What a reader may see of a text while it is being written: some whole lines,
\* and a line that is cut, in the last column of a row (the name, which a row
\* can do without) or before it.
Torn(text) ==
    LET Prefix(n) == SubSeq(text, 1, n)
        Cut(n) == {Line("cut", 0)} \cup
                  IF text[n + 1].kind = "record" THEN {Line("nameless", text[n + 1].version)} ELSE {}
    IN UNION {{Prefix(n)} \cup {Append(Prefix(n), line) : line \in Cut(n)} : n \in 0..(Len(text) - 1)}

\* The first line the parser gives up at: a header or a row that has not all
\* the columns, and a row that comes before the header that names them.
GivesUpAt(text) ==
    LET bad == {i \in DOMAIN text :
                  \/ text[i].kind = "cut"
                  \/ text[i].kind = "record" /\ \A j \in 1..i : text[j].kind # "header"}
    IN IF bad = {} THEN Len(text) + 1 ELSE Min(bad)

\* The records the parser has taken when it returns, with success or without.
Records(text) ==
    SelectSeq(SubSeq(text, 1, GivesUpAt(text) - 1),
              LAMBDA line : line.kind \in {"record", "nameless"})
=============================================================================
