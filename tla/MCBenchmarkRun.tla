--------------------------- MODULE MCBenchmarkRun ---------------------------
(* Instances of BenchmarkRun for TLC. *)
EXTENDS BenchmarkRun

Option(no, key, inline, text) ==
    [dash |-> TRUE, no |-> no, key |-> key, inline |-> inline, text |-> text]
Given(key, text) == Option(FALSE, key, TRUE, text)
Bare(key) == Option(FALSE, key, FALSE, "")
Word(text) == [dash |-> FALSE, no |-> FALSE, key |-> <<"", "">>, inline |-> FALSE, text |-> text]

MCNumerals == ("3" :> 3) @@ ("-1" :> -1) @@ (" -1" :> -1) @@ ("1" :> 1) @@ ("0" :> 0)
MCMinusFirst == {"-1"}

MCArguments ==
    {Bare(Key("input")), Option(TRUE, Key("input"), TRUE, "file"),
     Given(Key("recv_batch"), "0"), Bare(Key("rx_cpu")),
     Bare(Lob("max_locates")), Given(<<"ring", "capacity">>, "3"),
     Bare(Key("stdout_json")), Option(TRUE, Key("stdout_json"), TRUE, "no"),
     Given(Key("out_dir"), ""), Given(Key("index"), ""),
     Word("3"), Word("-1"), Word(" -1"), Word("-h")}
===============================================================================
