------------------------------- MODULE JsonText -------------------------------
(***************************************************************************)
(* What a JSON reader makes of a text: the reference JsonWriter is held to. *)
(* A text is a sequence of tokens: <<"{">>, <<"}">>, <<"[">>, <<"]">>,       *)
(* <<",">>, <<"name", n>>, <<"value", v>> and <<"newline", indent>>.         *)
(*                                                                          *)
(* The reader is an automaton over the tokens. `open` holds the objects and *)
(* arrays it is in, each with the name it stands under; `names` and `found` *)
(* collect every named entry, and the value of those that have one, by path;*)
(* `split` tells whether an array went over more than one line.             *)
(***************************************************************************)
EXTENDS Integers, SequencesExt

\* What may come next.
Start == "a document"
FirstOrEnd == "an entry or the end"
Entry == "an entry"
CommaOrEnd == "a comma or the end"
NamedValue == "the value of a name"
End == "nothing"

Reader == [valid |-> TRUE, want |-> Start, open |-> <<>>, name |-> "",
           names |-> {}, found |-> {}, split |-> FALSE]

Invalid(r) == [r EXCEPT !.valid = FALSE]
In(r, bracket) == r.open # <<>> /\ Last(r.open).bracket = bracket
\* The path of an entry of this name, below the root.
Path(r, name) == Append([k \in 1 .. Len(r.open) - 1 |-> r.open[k + 1].name], name)

TakesValue(r) ==
    \/ r.want = NamedValue
    \/ In(r, "[") /\ r.want \in {FirstOrEnd, Entry}

ReadName(r, name) ==
    IF In(r, "{") /\ r.want \in {FirstOrEnd, Entry} /\ Path(r, name) \notin r.names
    THEN [r EXCEPT !.want = NamedValue, !.name = name, !.names = @ \cup {Path(r, name)}]
    ELSE Invalid(r)

ReadValue(r, value) ==
    IF TakesValue(r)
    THEN [r EXCEPT !.want = CommaOrEnd,
                   !.found = IF In(r, "{") THEN @ \cup {<<Path(r, r.name), value>>} ELSE @]
    ELSE Invalid(r)

ReadOpen(r, bracket) ==
    IF TakesValue(r) \/ (r.want = Start /\ bracket = "{")
    THEN [r EXCEPT !.want = FirstOrEnd,
                   !.open = Append(@, [bracket |-> bracket, name |-> r.name])]
    ELSE Invalid(r)

ReadClose(r, bracket) ==
    IF In(r, bracket) /\ r.want \in {FirstOrEnd, CommaOrEnd}
    THEN [r EXCEPT !.want = IF Len(r.open) = 1 THEN End ELSE CommaOrEnd,
                   !.open = Front(@)]
    ELSE Invalid(r)

ReadComma(r) == IF r.want = CommaOrEnd THEN [r EXCEPT !.want = Entry] ELSE Invalid(r)

ReadToken(r, token) ==
    IF ~r.valid THEN r
    ELSE CASE token[1] = "newline" -> [r EXCEPT !.split = @ \/ In(r, "[")]
           [] token[1] = "name"    -> ReadName(r, token[2])
           [] token[1] = "value"   -> ReadValue(r, token[2])
           [] token[1] \in {"{", "["} -> ReadOpen(r, token[1])
           [] token[1] = "}"       -> ReadClose(r, "{")
           [] token[1] = "]"       -> ReadClose(r, "[")
           [] token[1] = ","       -> ReadComma(r)

\* Stretch by stretch: the time TLC takes for a fold grows with the cube of its length.
Stretch == 12
ReadStretch(text, r, k) ==
    IF r.valid
    THEN FoldLeft(ReadToken, r, SubSeq(text, Stretch * (k - 1) + 1, Min({Stretch * k, Len(text)})))
    ELSE r
Read(text) ==
    FoldLeft(LAMBDA r, k : ReadStretch(text, r, k), Reader,
             [k \in 1 .. (Len(text) + Stretch - 1) \div Stretch |-> k])

\* One whole document, no name twice in an object.
IsDocument(text) == Read(text).valid /\ Read(text).want = End
===============================================================================
