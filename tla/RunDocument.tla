------------------------------ MODULE RunDocument ------------------------------
(***************************************************************************)
(* What a bench::RunResult (include/shared/run_result.h,                    *)
(* src/shared/run_result.cc) holds, and the calls WriteJson and             *)
(* WriteIndexJson make on a JsonWriter, part by part. Texts that describe   *)
(* the host, the build and the time are single values.                      *)
(***************************************************************************)
EXTENDS ValueMap, JsonWriter

Str(v) == <<"string", v>>
UInt(v) == <<"uint", v>>
Double(v) == <<"double", v>>
Bool(v) == <<"bool", v>>

Host == FoldLeft(LAMBDA host, name : Add(host, <<"", name>>, "string", name), <<>>,
                 <<"hostname", "machine_type", "cpu_model", "kernel_release", "thp_enabled">>)

NewResult(benchmark, config) ==
    [benchmark |-> benchmark, config |-> config, status |-> "ok", error |-> "",
     ns_per_cycle |-> "zero", has_input |-> FALSE, pinned_cpus |-> <<>>,
     host |-> Host, input |-> <<>>, metrics |-> <<>>,
     histograms |-> <<>>, message_type_histograms |-> <<>>]

Fail(result, message) == [result EXCEPT !.status = "error", !.error = message]

AddPinnedCpu(result, cpu) ==
    IF Contains(result.pinned_cpus, cpu) THEN result
    ELSE [result EXCEPT !.pinned_cpus = Append(@, cpu)]

\* The file may be gone again by the time it is described.
InputFields(path, readable) ==
    LET named == Add(<<>>, <<"", "path">>, "string", path)
    IN  IF readable
        THEN Add(Add(Add(named, <<"", "bytes">>, "uint", 1), <<"", "modified_at">>, "string", "time"),
                 <<"", "fingerprint">>, "string", "hash")
        ELSE Add(named, <<"", "stat_error">>, "string", "gone")
SetInputFile(result, path, readable) ==
    [result EXCEPT !.has_input = TRUE, !.input = InputFields(path, readable)]

\* The governor of each pinned CPU, in a section of the host's own.
Finish(result) ==
    [result EXCEPT !.host =
        FoldLeft(LAMBDA host, cpu : Add(host, <<"governor", "cpu" \o ToString(cpu)>>, "string", "governor"),
                 @, result.pinned_cpus)]

----
F(key, value) == <<"Field", key, value>>
ObjectEnd == <<"EndObject">>
Object(key, calls) == <<<<"BeginObject", key>>>> \o calls \o <<ObjectEnd>>

WriteBuildJson ==
    Object("build", <<F("git_sha", Str("sha")), F("git_dirty", Bool(FALSE)),
                      F("config", Str("release")), F("assertions", Bool(FALSE))>>)

WriteHostJson(result) == Object("host", WriteMap(result.host))

\* Buckets that hold nothing are left out.
WriteBuckets(buckets) ==
    <<<<"BeginNamedArray", "buckets", TRUE>>>>
    \o FlattenSeq([k \in DOMAIN buckets |->
           <<<<"BeginArray", TRUE>>, <<"Value", UInt(buckets[k][1])>>,
             <<"Value", UInt(buckets[k][2])>>, <<"EndArray">>>>])
    \o <<<<"EndArray">>>>

SummaryNames == <<"mean", "p50", "p99", "max">>

WriteHistogramJson(histogram) ==
    Object(histogram.name,
        <<F("samples", UInt(Len(histogram.buckets))), F("clipped", UInt(0))>>
        \o Object("summary_ns", [k \in DOMAIN SummaryNames |-> F(SummaryNames[k], Double("number"))])
        \o WriteBuckets(histogram.buckets))

WriteHistograms(histograms) ==
    FlattenSeq([k \in DOMAIN histograms |-> WriteHistogramJson(histograms[k])])

ErrorField(result) == IF result.error = "" THEN <<>> ELSE <<F("error", Str(result.error))>>

WriteJson(result) ==
    <<<<<<"BeginRoot">>, F("schema_version", UInt(1)), F("run_id", Str("id")),
        F("benchmark", Str(result.benchmark)), F("status", Str(result.status))>>,
      ErrorField(result),
      <<F("started_at", Str("time")), F("duration_s", Double("number"))>>,
      WriteBuildJson,
      WriteHostJson(result),
      IF result.has_input THEN Object("input", WriteMap(result.input)) ELSE <<>>,
      Object("config", WriteMap(result.config)),
      Object("timing", <<F("ns_per_cycle", Double(result.ns_per_cycle)),
                         F("ns_per_cycle_end", Double(result.ns_per_cycle)),
                         F("ns_per_cycle_drift", Double("zero"))>>),
      Object("metrics", WriteMap(result.metrics)),
      Object("histograms", WriteHistograms(result.histograms)),
      Object("message_type_histograms", WriteHistograms(result.message_type_histograms)),
      <<ObjectEnd>>>>

IndexedHistogram(histogram) ==
    LET Name(leaf) == "h_" \o histogram.name \o "_" \o leaf
    IN  <<F(Name("samples"), UInt(Len(histogram.buckets))), F(Name("clipped"), UInt(0))>>
        \o [k \in DOMAIN SummaryNames |-> F(Name(SummaryNames[k] \o "_ns"), Double("number"))]

WriteIndexJson(result) ==
    <<<<<<"BeginRoot">>, F("run_id", Str("id")), F("benchmark", Str(result.benchmark)),
        F("status", Str(result.status)), F("error", Str(result.error)),
        F("started_at", Str("time")), F("duration_s", Double("number")),
        F("git_sha", Str("sha")), F("git_dirty", Bool(FALSE)), F("build_config", Str("release")),
        F("ns_per_cycle", Double(result.ns_per_cycle))>>,
      WriteFlatFields(result.host, "host_"),
      IF result.has_input THEN WriteFlatFields(result.input, "input_") ELSE <<>>,
      WriteFlatFields(result.metrics, "m_"),
      WriteFlatFields(result.config, "cfg_"),
      FlattenSeq([k \in DOMAIN result.histograms |-> IndexedHistogram(result.histograms[k])]),
      <<ObjectEnd>>>>

Calls(w, calls) == IF w.aborted THEN w ELSE FoldLeft(Call, w, calls)
\* A writer for the text, the calls part by part, the writer's end.
Written(pretty, parts) == Destroyed(FoldLeft(Calls, NewWriter(pretty), parts))
===============================================================================
