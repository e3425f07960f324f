-------------------------------- MODULE Sse --------------------------------
(***************************************************************************)
(* The event streams of chat and completions: how the gateway frames what  *)
(* it sends, and what a client that parses server-sent events by the       *)
(* standard makes of it.                                                   *)
(*                                                                         *)
(* A body is a sequence of tokens, where it may be cut: the two halves of  *)
(* the field name with its colon, the end of a line, and pieces of data.   *)
(***************************************************************************)
EXTENDS Naturals, Sequences, SequencesExt

Field == <<"da", "ta:">>

\* b"data: " + chunk + b"\n\n"
Framed(chunk) == Field \o chunk \o <<"\n", "\n">>

(***************************************************************************)
(* The client: the line it is reading, the data lines of the event it is   *)
(* reading, and the events it has dispatched, each as its data lines.      *)
(***************************************************************************)
NewParser == [line |-> << >>, data |-> << >>, events |-> << >>]

\* A line that is no data field is ignored.
DataIn(line) == IF IsPrefix(Field, line) THEN <<SubSeq(line, 3, Len(line))>> ELSE << >>

EndOfLine(p) == [p EXCEPT !.data = @ \o DataIn(p.line), !.line = << >>]

\* An empty line ends an event, if there is one.
Dispatch(p) ==
    [p EXCEPT !.data = << >>,
              !.events = IF p.data = << >> THEN @ ELSE Append(@, p.data)]

ReadToken(p, token) ==
    IF token # "\n" THEN [p EXCEPT !.line = Append(@, token)]
    ELSE IF p.line # << >> THEN EndOfLine(p) ELSE Dispatch(p)

\* From p on, token by token.
Parse(p, tokens) ==
    LET After[i \in 0 .. Len(tokens)] ==
          IF i = 0 THEN p ELSE ReadToken(After[i - 1], tokens[i])
    IN  After[Len(tokens)]

=============================================================================
