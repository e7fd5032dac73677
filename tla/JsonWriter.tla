------------------------------ MODULE JsonWriter ------------------------------
(***************************************************************************)
(* bench::JsonWriter (include/shared/json_writer.h and                      *)
(* src/shared/json_writer.cc): operators from a writer to a writer. The text*)
(* is a sequence of tokens (JsonText). How a string is escaped and a number *)
(* printed is left out; where a comma and a line break go is not.           *)
(*                                                                          *)
(* A structure mistake fails an assertion: the process aborts, and nothing  *)
(* the writer would do after that matters.                                  *)
(***************************************************************************)
EXTENDS Integers, SequencesExt

NewWriter(pretty) == [out |-> <<>>, stack |-> <<>>, pretty |-> pretty, aborted |-> FALSE]

Aborted(w) == [w EXCEPT !.aborted = TRUE]
Put(w, token) == [w EXCEPT !.out = Append(@, token)]
Top(w) == Last(w.stack)
InArray(w) == w.stack # <<>> /\ Top(w).is_array
InObject(w) == w.stack # <<>> /\ ~Top(w).is_array

Compact(w) == ~w.pretty \/ (w.stack # <<>> /\ Top(w).compact)
NewlineIndent(w) == Put(w, <<"newline", Len(w.stack)>>)
Indent(w) == IF Compact(w) THEN w ELSE NewlineIndent(w)

\* Deviation: the frame is not marked as having an entry.
NextEntryUnmarked(w) == Indent(IF Top(w).empty THEN w ELSE Put(w, <<",">>))
\* What precedes any entry.
NextEntry(w) ==
    LET separated == IF Top(w).empty THEN w ELSE Put(w, <<",">>)
    IN  Indent([separated EXCEPT !.stack[Len(w.stack)].empty = FALSE])

Separator(w) == IF InArray(w) THEN NextEntry(w) ELSE Aborted(w)
SeparatorFor(w, key) == IF InObject(w) THEN Put(NextEntry(w), <<"name", key>>) ELSE Aborted(w)

\* A frame is compact if it was asked to be, or is inside one that is.
Open(w, bracket, compact) ==
    [Put(w, <<bracket>>) EXCEPT
        !.stack = Append(@, [is_array |-> bracket = "[", compact |-> Compact(w) \/ compact,
                             empty |-> TRUE])]

BeginRoot(w) == Open(IF w.stack = <<>> THEN w ELSE Separator(w), "{", FALSE)
BeginObject(w, key) == Open(SeparatorFor(w, key), "{", FALSE)
BeginArray(w, compact) == Open(Separator(w), "[", compact)
BeginNamedArray(w, key, compact) == Open(SeparatorFor(w, key), "[", compact)

\* Deviation: whether the frame is compact is read after the pop, of its parent.
CloseLikeTheParent(w, bracket) ==
    LET popped == [w EXCEPT !.stack = Front(@)]
    IN  Put(IF Top(w).empty \/ Compact(popped) THEN popped ELSE NewlineIndent(popped),
            <<bracket>>)
\* The closing bracket belongs to the frame being closed, not to its parent.
Close(w, bracket) ==
    LET popped == [w EXCEPT !.stack = Front(@)]
    IN  Put(IF Top(w).empty \/ Compact(w) THEN popped ELSE NewlineIndent(popped),
            <<bracket>>)

EndObject(w) ==
    IF ~InObject(w) THEN Aborted(w)
    ELSE LET closed == Close(w, "}")
         IN  IF closed.stack = <<>> /\ closed.pretty THEN NewlineIndent(closed) ELSE closed

EndArray(w) == IF InArray(w) THEN Close(w, "]") ELSE Aborted(w)

NaN == <<"double", "nan">>
Null == <<"null", "null">>
\* A double that is not finite has no JSON token and is written as null.
WrittenValue(v) == IF v = NaN THEN Null ELSE v

Field(w, key, v) == Put(SeparatorFor(w, key), <<"value", WrittenValue(v)>>)
Value(w, v) == Put(Separator(w), <<"value", WrittenValue(v)>>)

\* The destructor's assertion.
Destroyed(w) == IF w.stack = <<>> THEN w ELSE Aborted(w)

\* A call by its name and arguments.
Call(w, call) ==
    CASE call[1] = "BeginRoot"       -> BeginRoot(w)
      [] call[1] = "BeginObject"     -> BeginObject(w, call[2])
      [] call[1] = "EndObject"       -> EndObject(w)
      [] call[1] = "BeginArray"      -> BeginArray(w, call[2])
      [] call[1] = "BeginNamedArray" -> BeginNamedArray(w, call[2], call[3])
      [] call[1] = "EndArray"        -> EndArray(w)
      [] call[1] = "Field"           -> Field(w, call[2], call[3])
      [] call[1] = "Value"           -> Value(w, call[2])
      [] call[1] = "Die"             -> Aborted(w)
===============================================================================
