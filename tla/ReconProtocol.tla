---------------------------- MODULE ReconProtocol ----------------------------
(***************************************************************************)
(* The framing of the messages between the editor and the importer         *)
(* (libpotato_recon): each message is a type line, a length line, an empty *)
(* line, the body and a newline, and the receiver decodes whatever chunks  *)
(* the pipe happens to deliver, keeping what it has not consumed.          *)
(*                                                                         *)
(* A stream is a sequence of symbols: the name and the value of a header   *)
(* line are a symbol each, so that a chunk may end inside a line, and a    *)
(* body is as many symbols as its length announces.                        *)
(***************************************************************************)
EXTENDS Naturals, Sequences, SequencesExt

CONSTANTS Types,    \* the types of message
          Size      \* Size[t]: the length of the body of a message of type t

ASSUME SizeAssumption == Size \in [Types -> Nat \ {0}]

Symbol(kind, text, n) == [kind |-> kind, text |-> text, n |-> n]
NL == Symbol("newline", "", 0)
TypeName == Symbol("type-name", "", 0)
LengthName == Symbol("length-name", "", 0)

Body(t) == [i \in 1..Size[t] |-> Symbol("body", t, i)]

\* What the sender writes for a message of type t.
Encode(t) ==
    <<TypeName, Symbol("type", t, 0), NL, LengthName, Symbol("length", "", Size[t]), NL, NL>>
        \o Body(t) \o <<NL>>

(***************************************************************************)
(* The decoder: its state, the bytes it has not consumed, the type and the *)
(* length of the last header lines it read, and the messages it has handed *)
(* to the handlers so far.                                                 *)
(***************************************************************************)
NewDecoder == [state |-> "ready", buffer |-> <<>>, type |-> "", length |-> 0, heard |-> <<>>]

AtBoundary(d) == d.state = "ready" /\ d.buffer = <<>>

Consume(d, n) == [d EXCEPT !.buffer = SubSeq(@, n + 1, Len(@))]

\* The position of the first newline, 0 when the line is not complete.
LineEnd(bytes) ==
    IF NL \in Range(bytes) THEN SelectInSeq(bytes, LAMBDA b : b = NL) ELSE 0

\* A header line gives the type or the length; any other line is skipped. A
\* type line that has more than the one name on it names no type there is, and
\* a length that does not start with a number leaves the length as it was.
HeaderLine(d, line) ==
    CASE line[1] = TypeName ->
           [d EXCEPT !.type = IF Len(line) = 2 /\ line[2].kind = "type" THEN line[2].text ELSE "unknown"]
      [] line[1] = LengthName /\ Len(line) > 1 /\ line[2].kind = "length" ->
           [d EXCEPT !.length = line[2].n]
      [] OTHER -> d

\* A body is handed on when it is one JSON object and its type has a handler.
Handled(d, body) ==
    IF /\ d.type \in Types
       /\ \E t \in Types : Len(body) = Size[t] /\ \A i \in DOMAIN body : body[i] = Body(t)[i]
    THEN Append(d.heard, d.type)
    ELSE d.heard

Ready(d) ==
    IF Head(d.buffer) = NL THEN Consume(d, 1) ELSE [d EXCEPT !.state = "header"]

Header_Fault(d) ==    \* the empty line is taken for the start of the body
    IF Head(d.buffer) = NL
    THEN [d EXCEPT !.state = IF d.length > 0 THEN "body" ELSE "ready"]
    ELSE LET end == LineEnd(d.buffer) IN HeaderLine(Consume(d, end), SubSeq(d.buffer, 1, end - 1))

Header(d) ==
    IF Head(d.buffer) = NL
    THEN [Consume(d, 1) EXCEPT !.state = IF d.length > 0 THEN "body" ELSE "ready"]
    ELSE LET end == LineEnd(d.buffer) IN HeaderLine(Consume(d, end), SubSeq(d.buffer, 1, end - 1))

WholeBody(d) ==
    [Consume(d, d.length) EXCEPT
        !.heard = Handled(d, SubSeq(d.buffer, 1, d.length)),
        !.type = "", !.length = 0, !.state = "ready"]

\* There is nothing to decode, or no whole line or body of it.
Starved(d) ==
    \/ d.buffer = <<>>
    \/ d.state = "header" /\ LineEnd(d.buffer) = 0
    \/ d.state = "body" /\ Len(d.buffer) < d.length

RECURSIVE Decode(_)
Decode(d) ==
    IF Starved(d) THEN d
    ELSE Decode(CASE d.state = "ready" -> Ready(d)
                  [] d.state = "header" -> Header(d)
                  [] d.state = "body" -> WholeBody(d))

\* The callback of the pipe: the chunk joins what was left over.
Receive(d, chunk) == Decode([d EXCEPT !.buffer = @ \o chunk])
=============================================================================
