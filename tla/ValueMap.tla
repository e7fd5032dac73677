------------------------------- MODULE ValueMap -------------------------------
(***************************************************************************)
(* bench::ValueMap (include/shared/value_map.h, src/shared/value_map.cc): a *)
(* sequence of typed entries in the order they were registered, as operators*)
(* from a map to a map. A key is a pair <<section, leaf>>, the section being *)
(* what stands before the dot and "" where there is none.                   *)
(*                                                                          *)
(* An argument is a record: an option (`dash`) with a key, perhaps with the *)
(* prefix no-, perhaps with a text after an equals sign; or a bare text.    *)
(***************************************************************************)
EXTENDS Integers, SequencesExt

CONSTANTS Numerals,     \* the texts that spell a number in range, and the number
          MinusFirst,   \* the texts whose first character is a minus sign
          UIntModulus   \* 2^64 in the program

ASSUME ValueMapAssumption ==
    /\ UIntModulus \in Nat \ {0}
    /\ \A text \in DOMAIN Numerals : Numerals[text] \in -UIntModulus .. UIntModulus - 1

TrueTexts == {"1", "true", "yes", "on"}
FalseTexts == {"0", "false", "no", "off"}

TypeOf(entry) == entry.value[1]
Find(map, key) == {k \in DOMAIN map : map[k].key = key}
Has(map, key) == Find(map, key) # {}
At(map, key) == CHOOSE k \in Find(map, key) : TRUE
Get(map, key) == map[At(map, key)].value[2]

\* A key registered again keeps its place and takes the new value. That the type is the
\* same is an assertion of the code (Die); the programs never break it.
Register(map, key, value, fixed) ==
    IF Has(map, key) THEN [map EXCEPT ![At(map, key)].value = value]
    ELSE Append(map, [key |-> key, value |-> value, fixed |-> fixed])
Add(map, key, type, v) == Register(map, key, <<type, v>>, FALSE)
AddFixed(map, key, type, v) == Register(map, key, <<type, v>>, TRUE)

----
(* ApplyOption and ParseArgs                                                *)

\* The text another option would take this argument for. What an option spells is
\* neither a number nor a truth value.
TextOf(argument) == IF argument.dash THEN "--" ELSE argument.text

IsNumber(text) == text \in DOMAIN Numerals
\* strtoull wraps a negative number. Only a minus that comes first is refused before.
Valid(type, text) ==
    CASE type = "bool"   -> text \in TrueTexts \cup FalseTexts
      [] type = "int"    -> IsNumber(text)
      [] type = "uint"   -> IsNumber(text) /\ text \notin MinusFirst
      [] type = "string" -> TRUE
Converted(type, text) ==
    CASE type = "bool"   -> text \in TrueTexts
      [] type = "int"    -> Numerals[text]
      [] type = "uint"   -> Numerals[text] % UIntModulus
      [] type = "string" -> text

Outcome(answer, map, consumed) == [answer |-> answer, map |-> map, consumed |-> consumed]

\* Deviation: a text that is a valid truth value loses the no-.
SettingUnnegated(type, argument, text) == Converted(type, text)
\* The value a text gives the entry.
Setting(type, argument, text) ==
    IF type = "bool" THEN Converted(type, text) # argument.no ELSE Converted(type, text)

\* A number that is refused for its range or its tail has been stored by then; the
\* program ends without reading it, and the model keeps the map as it was.
ApplyOption(map, argument, rest) ==
    LET unknown == Outcome("unknown", map, FALSE)
        refused == Outcome("refused", map, FALSE)
        entry   == map[At(map, argument.key)]
        type    == TypeOf(entry)
        text    == IF argument.inline THEN argument.text ELSE TextOf(Head(rest))
        set(v)  == [map EXCEPT ![At(map, argument.key)].value = <<type, v>>]
    IN  CASE ~Has(map, argument.key)                    -> unknown
          [] entry.fixed                                -> refused
          [] ~argument.inline /\ type = "bool"          -> Outcome("applied", set(~argument.no), FALSE)
          [] ~argument.inline /\ rest = <<>>            -> refused
          [] argument.no /\ type # "bool"               -> refused
          [] ~Valid(type, text)                         -> refused
          [] OTHER -> Outcome("applied", set(Setting(type, argument, text)), ~argument.inline)

HelpRequested(argv) == \E k \in DOMAIN argv : ~argv[k].dash /\ argv[k].text = "-h"

----
(* WriteJson and WriteFlatFields, as the calls they make on a JsonWriter    *)

Section(entry) == entry.key[1]
FieldOf(entry) == <<"Field", entry.key[2], entry.value>>

\* Deviation: the section of the last run of keys is left open.
CloseSectionOnlyToOpenAnother(state) == state.calls
CloseSection(state) ==
    IF state.section = "" THEN state.calls ELSE Append(state.calls, <<"EndObject">>)

\* One turn of the loop. A section that has been closed cannot be opened again.
WriteEntry(state, entry) ==
    LET section == Section(entry)
        entered == IF section = state.section THEN state.calls
                   ELSE CloseSection(state)
                        \o (CASE section = ""              -> <<>>
                              [] section \in state.closed  -> <<<<"Die">>>>
                              [] OTHER                     -> <<<<"BeginObject", section>>>>)
    IN  [calls   |-> Append(entered, FieldOf(entry)),
         section |-> section,
         closed  |-> IF section = state.section THEN state.closed
                     ELSE (state.closed \cup {state.section}) \ {""}]

WriteMap(map) ==
    CloseSection(FoldLeft(WriteEntry, [calls |-> <<>>, section |-> "", closed |-> {}], map))

\* Deviation: the section is dropped rather than joined by an underscore.
FlatNameOfLeaf(prefix, key) == prefix \o key[2]
\* The prefix and the key, with the dot replaced.
FlatName(prefix, key) ==
    prefix \o (IF key[1] = "" THEN key[2] ELSE key[1] \o "_" \o key[2])

WriteFlatFields(map, prefix) ==
    [k \in DOMAIN map |-> <<"Field", FlatName(prefix, map[k].key), map[k].value>>]
===============================================================================
