----------------------------- MODULE BenchmarkRun -----------------------------
(***************************************************************************)
(* main of the three programs (src/offline/offline_lob.cc,                  *)
(* src/sender/sender.cc, src/receiver/receiver.cc): from the command line   *)
(* through the setup of the run to the texts Emit writes. What a run does   *)
(* between setup and figures is left to the other modules; here it is one   *)
(* step with every outcome it can have.                                     *)
(*                                                                          *)
(* The maps keep one key of each kind the code tells apart: every type, with*)
(* and without a section, fixed and settable.                               *)
(***************************************************************************)
EXTENDS RunDocument, JsonText

CONSTANTS Arguments,      \* the arguments a command line is made of
          MaxArguments,   \* bound: length of a command line
          RingCapacity    \* kRingCapacity

VARIABLES benchmark,      \* which program this is
          argv,
          next,           \* ParseArgs' i
          config, output, \* the two ValueMaps
          result,         \* the RunResult
          setup,          \* how many of the run's setup steps are done
          held,           \* the socket, file and mapping the run holds
          phase,          \* where main is
          ok,             \* Emit's answer so far
          written,        \* the texts, by destination: a JsonWriter each
          exit            \* the exit code, once it is known

vars == <<benchmark, argv, next, config, output, result, setup, held, phase, ok, written, exit>>
resources == <<setup, held>>

Benchmarks == {"offline_lob", "sender", "receiver"}
Destinations == {"file", "index", "stdout"}

Key(leaf) == <<"", leaf>>
Lob(leaf) == <<"lob", leaf>>

OfflineConfig ==
    Add(Add(Add(<<>>, Key("input"), "string", ""),
            Key("cpu"), "int", 0),
        Lob("max_locates"), "uint", 10000)
SenderConfig ==
    Add(Add(Add(<<>>, Key("port"), "int", 12345),
            Key("input"), "string", ""),
        Key("end_of_session_repeats"), "uint", 100)
ReceiverConfig ==
    AddFixed(Add(Add(Add(Add(<<>>, Key("rx_cpu"), "int", 2),
                         Key("parse_cpu"), "int", 3),
                     Key("recv_batch"), "uint", 32),
                 Lob("max_locates"), "uint", 10000),
             <<"ring", "capacity">>, "uint", RingCapacity)
Config == [b \in Benchmarks |-> CASE b = "offline_lob" -> OfflineConfig
                                  [] b = "sender"      -> SenderConfig
                                  [] b = "receiver"    -> ReceiverConfig]

DefaultOutputOptions ==
    Add(Add(Add(Add(<<>>, Key("out_dir"), "string", "results"),
                Key("out"), "string", ""),
            Key("index"), "string", "index.jsonl"),
        Key("stdout_json"), "bool", FALSE)

Init ==
    /\ benchmark \in Benchmarks
    /\ argv \in SeqOf(Arguments, MaxArguments)
    /\ next = 1
    /\ config = Config[benchmark]
    /\ output = DefaultOutputOptions
    /\ result = NewResult(benchmark, <<>>)
    /\ setup = 0
    /\ held = {}
    /\ phase = "help"
    /\ ok = TRUE
    /\ written = <<>>
    /\ exit = "none"

----
(* The command line                                                         *)

Exit(code) == phase' = "exited" /\ exit' = code

PrintHelp ==
    /\ phase = "help"
    /\ HelpRequested(argv)
    /\ Exit("success")
    /\ UNCHANGED <<resources, benchmark, argv, next, config, output, result, ok, written>>

StartParsing ==
    /\ phase = "help"
    /\ ~HelpRequested(argv)
    /\ phase' = "parse"
    /\ UNCHANGED <<resources, benchmark, argv, next, config, output, result, ok, written, exit>>

Parsing == phase = "parse" /\ next <= Len(argv)
Rest == SubSeq(argv, next + 1, Len(argv))
OnConfig == ApplyOption(config, argv[next], Rest)
\* Only asked when the first map does not have the key.
OnOutput == ApplyOption(output, argv[next], Rest)

Advance(outcome) == next' = next + (IF outcome.consumed THEN 2 ELSE 1)

ApplyToConfig ==
    /\ Parsing
    /\ argv[next].dash
    /\ OnConfig.answer = "applied"
    /\ config' = OnConfig.map
    /\ Advance(OnConfig)
    /\ UNCHANGED <<resources, benchmark, argv, output, result, phase, ok, written, exit>>

ApplyToOutput ==
    /\ Parsing
    /\ argv[next].dash
    /\ OnConfig.answer = "unknown"
    /\ OnOutput.answer = "applied"
    /\ output' = OnOutput.map
    /\ Advance(OnOutput)
    /\ UNCHANGED <<resources, benchmark, argv, config, result, phase, ok, written, exit>>

\* An argument that is no option, that no map knows, or that one refuses.
RefuseArgument ==
    /\ Parsing
    /\ \/ ~argv[next].dash
       \/ OnConfig.answer = "refused"
       \/ OnConfig.answer = "unknown" /\ OnOutput.answer # "applied"
    /\ Exit("failure")
    /\ UNCHANGED <<resources, benchmark, argv, next, config, output, result, ok, written>>

StartRun ==
    /\ phase = "parse"
    /\ next > Len(argv)
    /\ result' = NewResult(benchmark, config)
    /\ phase' = "run"
    /\ UNCHANGED <<resources, benchmark, argv, next, config, output, ok, written, exit>>

----
(* The run                                                                  *)

\* A run ends by returning EXIT_FAILURE where it called Fail, EXIT_SUCCESS elsewhere, with
\* what it has not released still held.
RunEnds(r, still_held) ==
    /\ result' = Finish(r)
    /\ exit' = IF r.status = "ok" THEN "success" ELSE "failure"
    /\ phase' = "emit"
    /\ setup' = 0
    /\ held' = still_held
    /\ UNCHANGED <<benchmark, argv, next, config, output, ok, written>>

ReplaysAFile == benchmark \in {"offline_lob", "sender"}
SettingsAllowARun ==
    IF ReplaysAFile THEN Get(config, Key("input")) # ""
    ELSE Get(config, Key("recv_batch")) \in 1 .. RingCapacity

RefuseSettings ==
    /\ phase = "run"
    /\ ~SettingsAllowARun
    /\ RunEnds(Fail(result, "settings"), held)

Metric(r, name, type, v) == [r EXCEPT !.metrics = Add(@, Key(name), type, v)]
Noted(r, readable) == SetInputFile(r, Get(config, Key("input")), readable)
Pinned(r) ==
    CASE benchmark = "offline_lob" -> AddPinnedCpu(r, Get(config, Key("cpu")))
      [] benchmark = "receiver" ->
           AddPinnedCpu(AddPinnedCpu(r, Get(config, Key("parse_cpu"))), Get(config, Key("rx_cpu")))

\* What a run does before its loop, in order. Calls that fail alike are one step: "rcvbuf" is
\* both setsockopts before the buffer size is read back, "address" the multicast address with
\* what is set for it (the sender's TTL; the receiver's O_NONBLOCK, bind and membership).
SetupSteps ==
    CASE benchmark = "offline_lob" -> <<"open", "fstat", "mmap", "book", "pin">>
      [] benchmark = "sender"      -> <<"socket", "address", "open", "fstat", "mmap">>
      [] benchmark = "receiver"    ->
           <<"socket", "rcvbuf", "rcvbuf_applied", "address", "ring", "pin", "book">>

SettingUp == phase = "run" /\ SettingsAllowARun /\ setup < Len(SetupSteps)
Step == SetupSteps[setup + 1]
SetUp == phase = "run" /\ SettingsAllowARun /\ setup = Len(SetupSteps)

Acquired == CASE Step = "socket" -> {"socket"} [] Step = "open" -> {"file"}
              [] Step = "mmap" -> {"mapping"} [] OTHER -> {}

\* The input is described once fstat has answered; the receiver reads its buffer size back
\* only if the kernel lets it.
Recorded ==
    CASE Step = "fstat"          -> {Noted(result, readable) : readable \in BOOLEAN}
      [] Step = "rcvbuf_applied" -> {result, Metric(result, "rcvbuf_bytes_applied", "int", 1)}
      [] Step = "pin"            -> {Pinned(result)}
      [] OTHER                   -> {result}

TakeSetupStep ==
    /\ SettingUp
    /\ result' \in Recorded
    /\ held' = held \cup Acquired
    /\ setup' = setup + 1
    /\ UNCHANGED <<benchmark, argv, next, config, output, phase, ok, written, exit>>

\* Deviation: the sender closes its file alone where it has both.
ClosedForgettingTheSocket(step) == IF step \in {"fstat", "mmap"} THEN {"file"} ELSE {"socket"}
\* What the path that returns from a failed step closes.
Closed(step) ==
    IF step \in {"fstat", "mmap"} THEN {"file", "socket"} ELSE {"socket"}

FailInSetup ==
    /\ SettingUp
    /\ Step \notin {"rcvbuf_applied", "pin", "book"}
    /\ RunEnds(Fail(result, "setup"), held \ Closed(Step))

\* pin_to_cpu ends the process, and no one catches what the book's constructor throws: main
\* does not get as far as Emit. The receiver's RX thread pins itself once it runs.
DieInSetup ==
    /\ \/ SettingUp /\ Step \in {"pin", "book"}
       \/ SetUp /\ benchmark = "receiver"
    /\ Exit("failure")
    /\ UNCHANGED <<resources, benchmark, argv, next, config, output, result, ok, written>>

\* A send failed: the sender closes its socket and returns with no figures.
FailToSend ==
    /\ SetUp
    /\ benchmark = "sender"
    /\ RunEnds(Fail(result, "send"), held \ {"socket"})

FinishSending ==
    /\ SetUp
    /\ benchmark = "sender"
    /\ RunEnds(Metric(Metric(result, "elapsed_ns", "int", 1), "messages_sent", "uint", 1),
               held \ {"mapping", "file", "socket"})

Named(name, buckets) == [name |-> name, buckets |-> buckets]
\* One message type, and all of them together; end to end for the receiver alone.
Histograms(r, buckets) ==
    [r EXCEPT !.histograms = <<Named("overall", buckets)>> \o
                  (IF benchmark = "receiver" THEN <<Named("end_to_end", buckets)>> ELSE <<>>),
              !.message_type_histograms = IF buckets = <<>> THEN <<>> ELSE <<Named("A", buckets)>>]

\* The receiver reports a run without packets, then a parse error over it; the replay an
\* exception. A duration of nothing makes the replay's throughput a NaN.
Measured(r, messages, throughput, buckets) ==
    Histograms(Metric(Metric([r EXCEPT !.ns_per_cycle = "number"],
                             "total_messages", "uint", messages),
                      "throughput_msgs_s", "double", throughput), buckets)

Complain(r, nothing_received, error) ==
    LET told == IF nothing_received THEN Fail(r, "no packets received") ELSE r
    IN  IF error THEN Fail(told, "aborted") ELSE told

FinishReplay ==
    /\ SetUp
    /\ benchmark = "offline_lob"
    /\ \E error \in BOOLEAN, throughput \in {"number", "nan"},
          buckets \in {<<>>, <<<<3, 1>>, <<5, 2>>>>} :
           RunEnds(Measured(Complain(result, FALSE, error), 1, throughput, buckets),
                   held \ {"mapping", "file"})

FinishReceiving ==
    /\ SetUp
    /\ benchmark = "receiver"
    /\ \E nothing \in BOOLEAN, error \in BOOLEAN, buckets \in {<<>>, <<<<3, 1>>, <<5, 2>>>>} :
           /\ nothing => ~error /\ buckets = <<>>
           /\ RunEnds(Measured(Complain(result, nothing, error), IF nothing THEN 0 ELSE 1,
                               "number", buckets),
                      held \ {"socket"})

----
(* Emit. How a file comes to hold its text is ResultStore's subject.        *)

\* The destinations in the order they are written, those that are switched on.
Wanted(destination) ==
    CASE destination = "file"   -> Get(output, Key("out")) # "" \/ Get(output, Key("out_dir")) # ""
      [] destination = "index"  -> Get(output, Key("index")) # ""
      [] destination = "stdout" -> Get(output, Key("stdout_json"))

Pretty(destination) == destination = "file"
Text(destination) ==
    Written(Pretty(destination),
            IF destination = "index" THEN WriteIndexJson(result) ELSE WriteJson(result))

\* Deviation: a stream that is opened to append is not looked at again.
CheckedIfRenamed(destination) == destination = "file"
\* After the last write to a file its stream is tested. std::cout is not.
Checked(destination) == destination \in {"file", "index"}

\* A destination that is switched on gets its text, or a write to it fails.
Turn(destination, phase_after) ==
    /\ phase' = phase_after
    /\ \/ /\ Wanted(destination)
          /\ written' = Append(written, <<destination, Text(destination)>>)
          /\ UNCHANGED ok
       \/ /\ Wanted(destination)
          /\ ok' = (ok /\ ~Checked(destination))
          /\ UNCHANGED written
       \/ ~Wanted(destination) /\ UNCHANGED <<written, ok>>
    /\ UNCHANGED <<resources, benchmark, argv, next, config, output, result, exit>>

EmitFile == phase = "emit" /\ Turn("file", "index")
EmitIndex == phase = "index" /\ Turn("index", "stdout")
EmitStdout == phase = "stdout" /\ Turn("stdout", "return")

ExitCode == IF ok THEN exit ELSE "failure"

Return ==
    /\ phase = "return"
    /\ Exit(ExitCode)
    /\ UNCHANGED <<resources, benchmark, argv, next, config, output, result, ok, written>>

\* The process has ended.
Exited == phase = "exited" /\ UNCHANGED vars

Next ==
    \/ PrintHelp \/ StartParsing \/ ApplyToConfig \/ ApplyToOutput \/ RefuseArgument \/ StartRun
    \/ RefuseSettings \/ TakeSetupStep \/ FailInSetup \/ DieInSetup
    \/ FailToSend \/ FinishSending \/ FinishReplay \/ FinishReceiving
    \/ EmitFile \/ EmitIndex \/ EmitStdout \/ Return
    \/ Exited

Spec == Init /\ [][Next]_vars

----
(* Properties                                                               *)

\* On every path out of a run, at whichever call it failed, what it had opened by then is
\* closed before main goes on, with one exception: after a failed sendto the sender's file and
\* its mapping are left for the end of the process.
NothingIsLeftOpen ==
    phase \in {"emit", "index", "stdout", "return"} =>
        held = (IF result.error = "send" THEN {"file", "mapping"} ELSE {})

\* The texts of a run, read when the last of them has been written.
Texts(destinations) ==
    IF phase # "return" THEN {}
    ELSE {Read(written[k][2].out) : k \in {j \in DOMAIN written : written[j][1] \in destinations}}
Documents == Texts({"file", "stdout"})

\* Whatever the run came to, and with whatever sections, histograms and undefined figures,
\* the calls WriteJson and WriteIndexJson make fail no assertion of the writer, and what
\* is written is one JSON object with no name twice.
EveryTextIsADocument ==
    /\ \A k \in DOMAIN written : ~written[k][2].aborted
    /\ \A r \in Texts(Destinations) : r.valid /\ r.want = End

\* The index is a file of one line a run, stdout_json one line; a bucket array keeps to its
\* line also in the document that is laid out for reading.
OneLinePerRun ==
    /\ \A k \in DOMAIN written :
          written[k][1] # "file" => \A token \in Range(written[k][2].out) : token[1] # "newline"
    /\ \A r \in Texts({"file"}) : ~r.split

PathOf(key) == IF key[1] = "" THEN <<key[2]>> ELSE key
EntriesUnder(prefix, map) == {<<prefix \o PathOf(entry.key), entry.value>> : entry \in Range(map)}

\* offline_lob.cc: the map a run reads is the one that is recorded, so "the recorded
\* configuration cannot drift from the one that ran": read back from the document it is,
\* key by key and in its sections, the map the run had, and nothing else is in it.
RecordedConfigurationIsTheOneThatRan ==
    \A r \in Documents :
        {f \in r.found : f[1][1] = "config"} = EntriesUnder(<<"config">>, config)

Sections == [config |-> "cfg_", metrics |-> "m_", host |-> "host_", input |-> "input_"]
FlatPath(path) == IF Len(path) = 2 THEN path[2] ELSE path[2] \o "_" \o path[3]

\* The index line says of a run what its document says: every entry of the four maps is
\* there under its flat name with the same value, and status and identity are the same.
IndexAgreesWithTheDocument ==
    \A document \in Documents, line \in Texts({"index"}) : \A f \in document.found :
        /\ f[1][1] \in DOMAIN Sections => <<<<Sections[f[1][1]] \o FlatPath(f[1])>>, f[2]>> \in line.found
        /\ f[1] \in {<<"run_id">>, <<"status">>, <<"error">>} => f \in line.found

WrittenTo == {written[k][1] : k \in DOMAIN written}
\* The document and the index line are where they are wanted.
OnRecord == \A d \in {"file", "index"} : Wanted(d) => d \in WrittenTo

\* A program succeeds only if it printed its help or its run was good and is on record; one
\* that dies in its setup, or ends a run that failed, does not pass for a good one, and
\* neither does a good run that is not on record. Every text of a failed run says "error"
\* and why, and the document of a good one has no error field. Excepted is
\* stdout: run_result.h says that Emit "returns false ... if any write failed", but the write
\* to std::cout is not tested, so success says nothing of a text that was wanted there.
FailuresAreRecorded ==
    /\ (phase = "exited" /\ exit = "success") =>
           HelpRequested(argv) \/ (result.status = "ok" /\ OnRecord)
    /\ phase = "return" => (ExitCode = "success" <=> result.status = "ok" /\ OnRecord)
    /\ \A r \in Texts(Destinations) :
          <<<<"status">>, Str(IF exit = "success" THEN "ok" ELSE "error")>> \in r.found
    /\ \A r \in Documents : (exit = "failure") <=> \E f \in r.found : f[1] = <<"error">> /\ f[2] # Str("")

(* What a command line asks for, without following ParseArgs.               *)
Defaults == Config[benchmark] \o DefaultOutputOptions
TypeOfKey(key) == TypeOf(Defaults[At(Defaults, key)])
IsOption(k) == k \in DOMAIN argv /\ argv[k].dash /\ Has(Defaults, argv[k].key)
WantsText(k) == IsOption(k) /\ ~argv[k].inline /\ TypeOfKey(argv[k].key) # "bool"
\* An argument is a value if the one before it wants a text and is not a value itself.
IsValue[k \in 0 .. Len(argv)] == IF k = 0 THEN FALSE ELSE WantsText(k - 1) /\ ~IsValue[k - 1]
Spelled(k) == IF argv[k].inline THEN argv[k].text
              ELSE IF WantsText(k) THEN TextOf(argv[k + 1]) ELSE "yes"
\* Blanks before a minus sign hide it from the test for negative numbers.
HiddenMinus(text) == text \in DOMAIN Numerals \ MinusFirst /\ Numerals[text] < 0
Readable(type, text) ==
    \/ type = "string"
    \/ type = "bool" /\ text \in TrueTexts \cup FalseTexts
    \/ type = "int" /\ text \in DOMAIN Numerals
    \/ type = "uint" /\ text \in DOMAIN Numerals /\ (Numerals[text] >= 0 \/ HiddenMinus(text))
Settings == {k \in DOMAIN argv : ~IsValue[k]}
LegalCommandLine ==
    \A k \in Settings :
        /\ IsOption(k)
        /\ ~Defaults[At(Defaults, argv[k].key)].fixed
        /\ WantsText(k) => k < Len(argv)
        /\ Readable(TypeOfKey(argv[k].key), Spelled(k))
        /\ argv[k].no => TypeOfKey(argv[k].key) = "bool"
Meant(type, k) ==
    CASE type = "bool"   -> IF argv[k].no THEN Spelled(k) \in FalseTexts ELSE Spelled(k) \in TrueTexts
      [] type = "string" -> Spelled(k)
      [] OTHER           -> Numerals[Spelled(k)]
\* However options repeat, take the next argument or their own text, swallow an argument
\* that looks like an option, or are spread over two maps: a run starts only on a legal
\* command line, is refused only on another, and each setting is what its last option says
\* or its default. Excepted is an unsigned option given a minus sign behind blanks.
SettingsTakeEffect ==
    /\ phase = "run" =>
          /\ LegalCommandLine
          /\ \A entry \in Range(config \o output) :
                LET setters == {k \in Settings : argv[k].key = entry.key}
                    last    == Max(setters)
                IN  IF setters = {} THEN entry \in Range(Defaults)
                    ELSE \/ entry.value[2] = Meant(TypeOf(entry), last)
                         \/ TypeOf(entry) = "uint" /\ HiddenMinus(Spelled(last))
    /\ (phase = "exited" /\ exit = "failure" /\ result.config = <<>>) => ~LegalCommandLine
===============================================================================
