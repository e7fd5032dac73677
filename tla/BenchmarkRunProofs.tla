-------------------------- MODULE BenchmarkRunProofs --------------------------
(***************************************************************************)
(* What a run opens it has closed when main goes on to Emit, for every      *)
(* command line and every setting, whichever call of the setup fails and    *)
(* whatever a completed run measured.                                       *)
(***************************************************************************)
EXTENDS BenchmarkRun, TLAPS

\* What the first n setup steps open, program by program.
HeldAfter(n) ==
    CASE benchmark = "offline_lob" ->
           IF n = 0 THEN {} ELSE IF n \in 1 .. 2 THEN {"file"} ELSE {"file", "mapping"}
      [] benchmark = "sender" ->
           IF n = 0 THEN {} ELSE IF n \in 1 .. 2 THEN {"socket"}
           ELSE IF n \in 3 .. 4 THEN {"socket", "file"} ELSE {"socket", "file", "mapping"}
      [] benchmark = "receiver" ->
           IF n = 0 THEN {} ELSE {"socket"}

\* A result that can be asked for its status and its error.
IsResult(r) == {"status", "error"} \subseteq DOMAIN r

\* Nothing is held before the setup, what it opened so far during it, and no setup begins
\* under settings that allow no run.
RunInv ==
    /\ benchmark \in Benchmarks
    /\ IsResult(result)
    /\ setup \in 0 .. 7
    /\ phase \in {"help", "parse", "run"} => result.error = ""
    /\ phase \in {"help", "parse"} => setup = 0
    /\ phase = "run" =>
          /\ setup <= Len(SetupSteps)
          /\ setup > 0 => SettingsAllowARun
    /\ phase \in {"help", "parse", "run"} => held = HeldAfter(setup)
    /\ NothingIsLeftOpen

----
(* Results. Only Fail touches the error.                                    *)

\* A new result has no error.
LEMMA NewResultHasNoError ==
    ASSUME NEW b, NEW map
    PROVE  IsResult(NewResult(b, map)) /\ NewResult(b, map).error = ""
  BY DEF NewResult, IsResult

\* Fail leaves its message.
LEMMA FailLeavesItsMessage ==
    ASSUME NEW r, IsResult(r), NEW message
    PROVE  IsResult(Fail(r, message)) /\ Fail(r, message).error = message
  BY DEF Fail, IsResult

\* Finish describes the host.
LEMMA FinishKeepsTheError ==
    ASSUME NEW r, IsResult(r)
    PROVE  IsResult(Finish(r)) /\ Finish(r).error = r.error
<1>1. PICK host : Finish(r) = [r EXCEPT !.host = host]
  BY DEF Finish
<1> QED
  BY <1>1 DEF IsResult

\* A metric is added to the others.
LEMMA MetricKeepsTheError ==
    ASSUME NEW r, IsResult(r), NEW name, NEW type, NEW v
    PROVE  IsResult(Metric(r, name, type, v)) /\ Metric(r, name, type, v).error = r.error
<1>1. PICK metrics : Metric(r, name, type, v) = [r EXCEPT !.metrics = metrics]
  BY DEF Metric
<1> QED
  BY <1>1 DEF IsResult

\* What a setup step records is no error.
LEMMA RecordedHasNoError ==
    ASSUME IsResult(result), benchmark \in Benchmarks, NEW r \in Recorded,
           Step = "pin" => benchmark \in {"offline_lob", "receiver"}
    PROVE  IsResult(r) /\ r.error = result.error
<1>1. ASSUME NEW s, IsResult(s), NEW cpu
      PROVE  IsResult(AddPinnedCpu(s, cpu)) /\ AddPinnedCpu(s, cpu).error = s.error
  BY <1>1 DEF AddPinnedCpu, IsResult
<1>2. CASE Step = "fstat"
  <2>1. PICK readable \in BOOLEAN : r = Noted(result, readable)
    BY <1>2 DEF Recorded
  <2>2. PICK input : r = [[result EXCEPT !.has_input = TRUE] EXCEPT !.input = input]
    BY <2>1 DEF Noted, SetInputFile
  <2>3. /\ IsResult([result EXCEPT !.has_input = TRUE])
        /\ [result EXCEPT !.has_input = TRUE].error = result.error
    BY DEF IsResult
  <2> QED
    BY <2>2, <2>3 DEF IsResult
<1>3. CASE Step = "rcvbuf_applied"
  BY <1>3, MetricKeepsTheError DEF Recorded
<1>4. CASE Step = "pin"
  <2>1. r = Pinned(result)
    BY <1>4 DEF Recorded
  <2>2. CASE benchmark = "offline_lob"
    BY <1>1, <2>1, <2>2 DEF Pinned
  <2>3. CASE benchmark = "receiver"
    BY <1>1, <2>1, <2>3 DEF Pinned
  <2> QED
    BY <1>4, <2>2, <2>3
<1>5. CASE Step \notin {"fstat", "rcvbuf_applied", "pin"}
  BY <1>5 DEF Recorded
<1> QED
  BY <1>2, <1>3, <1>4, <1>5

\* A run that ends with nothing open, or with the two a failed send leaves open.
LEMMA RunEndsClosed ==
    ASSUME RunInv, NEW r, IsResult(r), NEW still_held, RunEnds(r, still_held),
           still_held = IF r.error = "send" THEN {"file", "mapping"} ELSE {}
    PROVE  RunInv'
<1>1. /\ result' = Finish(r) /\ phase' = "emit" /\ setup' = 0 /\ held' = still_held
      /\ benchmark' = benchmark
  BY DEF RunEnds
<1>2. IsResult(result') /\ result'.error = r.error
  BY <1>1, FinishKeepsTheError
<1>3. NothingIsLeftOpen'
  BY <1>1, <1>2 DEF NothingIsLeftOpen
<1>4. phase' \notin {"help", "parse", "run"} /\ setup' \in 0 .. 7
  BY <1>1
<1>5. benchmark' \in Benchmarks
  BY <1>1 DEF RunInv, Benchmarks
<1> QED
  BY <1>2, <1>3, <1>4, <1>5, Zenon DEF RunInv

----
(* The setup                                                                *)

\* Each step adds what it opens, and the way out of a step that fails closes all there is.
LEMMA SetupOfTheReplay ==
    ASSUME benchmark = "offline_lob"
    PROVE  /\ Len(SetupSteps) = 5
           /\ setup \in 0 .. 4 =>
                     /\ HeldAfter(setup) \cup Acquired = HeldAfter(setup + 1)
                     /\ Step \notin {"rcvbuf_applied", "pin", "book"} =>
                           HeldAfter(setup) \ Closed(Step) = {}
<1>1. SetupSteps = <<"open", "fstat", "mmap", "book", "pin">>
  BY DEF SetupSteps
<1>2. ASSUME setup \in 0 .. 4
      PROVE  /\ HeldAfter(setup) \cup Acquired = HeldAfter(setup + 1)
             /\ Step \notin {"rcvbuf_applied", "pin", "book"} =>
                   HeldAfter(setup) \ Closed(Step) = {}
  <2>1. CASE setup = 0
    BY <1>1, <2>1 DEF HeldAfter, Acquired, Step, Closed
  <2>2. CASE setup = 1
    BY <1>1, <2>2 DEF HeldAfter, Acquired, Step, Closed
  <2>3. CASE setup = 2
    BY <1>1, <2>3 DEF HeldAfter, Acquired, Step, Closed
  <2>4. CASE setup = 3
    BY <1>1, <2>4 DEF HeldAfter, Acquired, Step, Closed
  <2>5. CASE setup = 4
    BY <1>1, <2>5 DEF HeldAfter, Acquired, Step, Closed
  <2> QED
    BY <1>2, <2>1, <2>2, <2>3, <2>4, <2>5
<1> QED
  BY <1>1, <1>2

\* The sender has a socket and a file to close.
LEMMA SetupOfTheSender ==
    ASSUME benchmark = "sender"
    PROVE  /\ Len(SetupSteps) = 5
           /\ setup \in 0 .. 4 =>
                     /\ HeldAfter(setup) \cup Acquired = HeldAfter(setup + 1)
                     /\ Step # "pin"
                     /\ HeldAfter(setup) \ Closed(Step) = {}
<1>1. SetupSteps = <<"socket", "address", "open", "fstat", "mmap">>
  BY DEF SetupSteps
<1>2. ASSUME setup \in 0 .. 4
      PROVE  /\ HeldAfter(setup) \cup Acquired = HeldAfter(setup + 1)
             /\ Step # "pin"
             /\ HeldAfter(setup) \ Closed(Step) = {}
  <2>1. CASE setup = 0
    BY <1>1, <2>1 DEF HeldAfter, Acquired, Step, Closed
  <2>2. CASE setup = 1
    BY <1>1, <2>2 DEF HeldAfter, Acquired, Step, Closed
  <2>3. CASE setup = 2
    BY <1>1, <2>3 DEF HeldAfter, Acquired, Step, Closed
  <2>4. CASE setup = 3
    BY <1>1, <2>4 DEF HeldAfter, Acquired, Step, Closed
  <2>5. CASE setup = 4
    BY <1>1, <2>5 DEF HeldAfter, Acquired, Step, Closed
  <2> QED
    BY <1>2, <2>1, <2>2, <2>3, <2>4, <2>5
<1> QED
  BY <1>1, <1>2

\* The receiver has its socket.
LEMMA SetupOfTheReceiver ==
    ASSUME benchmark = "receiver"
    PROVE  /\ Len(SetupSteps) = 7
           /\ setup \in 0 .. 6 =>
                     /\ HeldAfter(setup) \cup Acquired = HeldAfter(setup + 1)
                     /\ HeldAfter(setup) \ Closed(Step) = {}
<1>1. SetupSteps =
          <<"socket", "rcvbuf", "rcvbuf_applied", "address", "ring", "pin", "book">>
  BY DEF SetupSteps
<1>2. ASSUME setup \in 0 .. 6
      PROVE  /\ HeldAfter(setup) \cup Acquired = HeldAfter(setup + 1)
             /\ HeldAfter(setup) \ Closed(Step) = {}
  <2>1. CASE setup = 0
    BY <1>1, <2>1 DEF HeldAfter, Acquired, Step, Closed
  <2>2. CASE setup # 0
    <3>1. Step \in {"rcvbuf", "rcvbuf_applied", "address", "ring", "pin", "book"}
      BY <1>1, <1>2, <2>2 DEF Step
    <3>2. Acquired = {} /\ Closed(Step) = {"socket"}
      BY <3>1 DEF Acquired, Closed
    <3> QED
      BY <1>2, <2>2, <3>2 DEF HeldAfter
  <2> QED
    BY <2>1, <2>2
<1> QED
  BY <1>1, <1>2

\* The three together, as a step of a run meets them.
LEMMA SetupSoFar ==
    ASSUME RunInv, SettingUp
    PROVE  /\ setup + 1 \in 0 .. 7 /\ setup + 1 <= Len(SetupSteps)
           /\ held \cup Acquired = HeldAfter(setup + 1)
           /\ Step = "pin" => benchmark \in {"offline_lob", "receiver"}
           /\ Step \notin {"rcvbuf_applied", "pin", "book"} => held \ Closed(Step) = {}
<1>1. /\ setup \in 0 .. 7 /\ setup < Len(SetupSteps) /\ held = HeldAfter(setup)
      /\ benchmark \in {"offline_lob", "sender", "receiver"}
  BY DEF RunInv, SettingUp, Benchmarks
<1>2. CASE benchmark = "offline_lob"
  <2>1. Len(SetupSteps) = 5
    BY <1>2, SetupOfTheReplay
  <2>2. setup \in 0 .. 4
    BY <1>1, <2>1
  <2> QED
    BY <1>1, <1>2, <2>1, <2>2, SetupOfTheReplay
<1>3. CASE benchmark = "sender"
  <2>1. Len(SetupSteps) = 5
    BY <1>3, SetupOfTheSender
  <2>2. setup \in 0 .. 4
    BY <1>1, <2>1
  <2> QED
    BY <1>1, <1>3, <2>1, <2>2, SetupOfTheSender
<1>4. CASE benchmark = "receiver"
  <2>1. Len(SetupSteps) = 7
    BY <1>4, SetupOfTheReceiver
  <2>2. setup \in 0 .. 6
    BY <1>1, <2>1
  <2> QED
    BY <1>1, <1>4, <2>1, <2>2, SetupOfTheReceiver
<1> QED
  BY <1>1, <1>2, <1>3, <1>4

\* What a completed setup holds.
LEMMA SetupComplete ==
    ASSUME RunInv, SetUp
    PROVE  /\ benchmark = "offline_lob" => held = {"file", "mapping"}
           /\ benchmark = "sender" => held = {"socket", "file", "mapping"}
           /\ benchmark = "receiver" => held = {"socket"}
<1>1. setup \in 0 .. 7 /\ setup = Len(SetupSteps) /\ held = HeldAfter(setup)
  BY DEF RunInv, SetUp
<1>2. CASE benchmark = "offline_lob"
  <2>1. Len(SetupSteps) = 5
    BY <1>2, SetupOfTheReplay
  <2>2. setup = 5 /\ held = HeldAfter(setup)
    BY <1>1, <2>1
  <2> QED
    BY <1>2, <2>2 DEF HeldAfter
<1>3. CASE benchmark = "sender"
  <2>1. Len(SetupSteps) = 5
    BY <1>3, SetupOfTheSender
  <2>2. setup = 5 /\ held = HeldAfter(setup)
    BY <1>1, <2>1
  <2> QED
    BY <1>3, <2>2 DEF HeldAfter
<1>4. CASE benchmark = "receiver"
  <2>1. Len(SetupSteps) = 7
    BY <1>4, SetupOfTheReceiver
  <2>2. setup = 7 /\ held = HeldAfter(setup)
    BY <1>1, <2>1
  <2> QED
    BY <1>4, <2>2 DEF HeldAfter
<1> QED
  BY <1>2, <1>3, <1>4

\* Neither figures nor complaints of a completed run read as a failed send.
LEMMA MeasuredIsNoFailedSend ==
    ASSUME NEW r, IsResult(r), r.error = "", NEW nothing, NEW error,
           NEW messages, NEW throughput, NEW buckets
    PROVE  LET s == Measured(Complain(r, nothing, error), messages, throughput, buckets)
           IN  IsResult(s) /\ s.error # "send"
<1> DEFINE c == Complain(r, nothing, error)
           scaled == [c EXCEPT !.ns_per_cycle = "number"]
           m == Metric(scaled, "total_messages", "uint", messages)
           t == Metric(m, "throughput_msgs_s", "double", throughput)
<1>1. IsResult(c) /\ c.error # "send"
  <2> DEFINE told == IF nothing THEN Fail(r, "no packets received") ELSE r
  <2>1. IsResult(told) /\ told.error \in {"", "no packets received"}
    BY FailLeavesItsMessage
  <2>2. c = IF error THEN Fail(told, "aborted") ELSE told
    BY DEF Complain
  <2> HIDE DEF told, c
  <2> QED
    BY <2>1, <2>2, FailLeavesItsMessage
<1> HIDE DEF c
<1>2. IsResult(scaled) /\ scaled.error = c.error
  BY <1>1 DEF IsResult
<1> HIDE DEF scaled
<1>3. IsResult(m) /\ m.error = c.error
  <2>1. PICK metrics : m = [scaled EXCEPT !.metrics = metrics]
    BY DEF Metric
  <2> HIDE DEF m
  <2> QED
    BY <1>2, <2>1 DEF IsResult
<1> HIDE DEF m
<1>4. IsResult(t) /\ t.error = c.error
  <2>1. PICK metrics : t = [m EXCEPT !.metrics = metrics]
    BY DEF Metric
  <2> HIDE DEF t
  <2> QED
    BY <1>3, <2>1 DEF IsResult
<1>5. Measured(c, messages, throughput, buckets) = Histograms(t, buckets)
  BY DEF Measured, scaled, m, t
<1> HIDE DEF t
<1>6. PICK overall, by_type :
          Histograms(t, buckets) =
              [[t EXCEPT !.histograms = overall] EXCEPT !.message_type_histograms = by_type]
  BY DEF Histograms
<1>7. IsResult([t EXCEPT !.histograms = overall]) /\ [t EXCEPT !.histograms = overall].error = t.error
  BY <1>4 DEF IsResult
<1>8. IsResult(Histograms(t, buckets)) /\ Histograms(t, buckets).error = t.error
  BY <1>6, <1>7 DEF IsResult
<1> QED
  BY <1>1, <1>4, <1>5, <1>8 DEF c

\* The two figures of a sender are no error either.
LEMMA SentIsNoFailedSend ==
    ASSUME NEW r, IsResult(r), r.error = ""
    PROVE  LET s == Metric(Metric(r, "elapsed_ns", "int", 1), "messages_sent", "uint", 1)
           IN  IsResult(s) /\ s.error = ""
<1> DEFINE e == Metric(r, "elapsed_ns", "int", 1)
           s == Metric(e, "messages_sent", "uint", 1)
<1>1. IsResult(e) /\ e.error = ""
  <2>1. PICK metrics : e = [r EXCEPT !.metrics = metrics]
    BY DEF Metric
  <2> HIDE DEF e
  <2> QED
    BY <2>1 DEF IsResult
<1> HIDE DEF e
<1>2. IsResult(s) /\ s.error = ""
  <2>1. PICK metrics : s = [e EXCEPT !.metrics = metrics]
    BY DEF Metric
  <2> HIDE DEF s
  <2> QED
    BY <1>1, <2>1 DEF IsResult
<1> QED
  BY <1>2 DEF e

----
(* The program                                                              *)

\* A step that leaves resources and result alone and does not go back into the run.
LEMMA OnwardsKeeps ==
    ASSUME RunInv, UNCHANGED <<benchmark, setup, held, result>>,
           \/ phase' = "exited"
           \/ phase = "help" /\ phase' = "parse"
           \/ phase = "parse" /\ phase' = "parse"
           \/ phase \in {"emit", "index", "stdout"} /\ phase' \in {"index", "stdout", "return"}
    PROVE  RunInv'
<1>1. HeldAfter(setup)' = HeldAfter(setup)
  BY DEF HeldAfter
<1>2. NothingIsLeftOpen'
  BY DEF RunInv, NothingIsLeftOpen
<1>3. IsResult(result)' /\ benchmark' \in Benchmarks /\ setup' \in 0 .. 7
  BY DEF RunInv, IsResult, Benchmarks
<1>4. phase' # "run"
  OBVIOUS
<1>5. phase' \in {"help", "parse"} => setup' = 0 /\ result'.error = "" /\ held' = HeldAfter(setup)
  BY DEF RunInv
<1>6. phase' \in {"help", "parse", "run"} => phase' \in {"help", "parse"}
  BY <1>4
<1> QED
  BY <1>1, <1>2, <1>3, <1>4, <1>5, <1>6, Zenon DEF RunInv

\* The inductive invariant of main.
THEOREM RunInvariant == Spec => []RunInv
<1>1. Init => RunInv
  <2> SUFFICES ASSUME Init PROVE RunInv
    OBVIOUS
  <2>1. /\ benchmark \in Benchmarks /\ setup = 0 /\ held = {} /\ phase = "help"
        /\ IsResult(result) /\ result.error = ""
    BY NewResultHasNoError DEF Init
  <2>2. HeldAfter(0) = {}
    BY <2>1 DEF HeldAfter, Benchmarks
  <2>3. NothingIsLeftOpen
    BY <2>1 DEF NothingIsLeftOpen
  <2>5. setup \in 0 .. 7
    <3>1. setup = 0
      BY <2>1
    <3> QED
      BY <3>1
  <2>6. ~(phase = "run")
    BY <2>1
  <2>4. held = HeldAfter(setup)
    BY <2>1, <2>2
  <2> QED
    BY <2>1, <2>3, <2>4, <2>5, <2>6, Zenon DEF RunInv
<1>2. RunInv /\ [Next]_vars => RunInv'
  <2> SUFFICES ASSUME RunInv, [Next]_vars PROVE RunInv'
    OBVIOUS
  <2>0. /\ IsResult(result)
        /\ phase = "run" => result.error = "" /\ held = HeldAfter(setup)
        /\ benchmark \in {"offline_lob", "sender", "receiver"}
    BY DEF RunInv, Benchmarks
  <2>1. CASE PrintHelp
    BY <2>1, OnwardsKeeps DEF PrintHelp, Exit, resources
  <2>2. CASE StartParsing
    BY <2>2, OnwardsKeeps DEF StartParsing, resources
  <2>3. CASE ApplyToConfig
    BY <2>3, OnwardsKeeps DEF ApplyToConfig, Parsing, resources
  <2>4. CASE ApplyToOutput
    BY <2>4, OnwardsKeeps DEF ApplyToOutput, Parsing, resources
  <2>5. CASE RefuseArgument
    BY <2>5, OnwardsKeeps DEF RefuseArgument, Exit, resources
  <2>6. CASE StartRun
    <3>1. /\ phase = "parse" /\ phase' = "run" /\ result' = NewResult(benchmark, config)
          /\ UNCHANGED <<benchmark, setup, held>>
      BY <2>6 DEF StartRun, resources
    <3>2. setup = 0 /\ held = HeldAfter(setup)
      BY <3>1 DEF RunInv
    <3>3. HeldAfter(setup)' = HeldAfter(setup) /\ benchmark' \in Benchmarks
      BY <3>1 DEF HeldAfter, RunInv, Benchmarks
    <3>4. IsResult(result') /\ result'.error = ""
      BY <3>1, NewResultHasNoError
    <3>5. setup' <= Len(SetupSteps') /\ setup' \in 0 .. 7 /\ ~(setup' > 0)
      <4>1. benchmark' \in {"offline_lob", "sender", "receiver"}
        BY <2>0, <3>1
      <4>2. setup' = 0
        BY <3>1, <3>2
      <4> QED
        BY <4>1, <4>2 DEF SetupSteps
    <3>6. setup' = 0 /\ held' = HeldAfter(setup)' /\ NothingIsLeftOpen'
      BY <3>1, <3>2, <3>3 DEF NothingIsLeftOpen
    <3> QED
      BY <3>1, <3>3, <3>4, <3>5, <3>6, Zenon DEF RunInv
  <2>7. CASE RefuseSettings
    <3>1. phase = "run" /\ ~SettingsAllowARun /\ RunEnds(Fail(result, "settings"), held)
      BY <2>7 DEF RefuseSettings
    <3>2. setup = 0
      <4>1. ~(setup > 0) /\ setup \in 0 .. 7
        BY <3>1, Zenon DEF RunInv
      <4> QED
        BY <4>1
    <3>3. held = {}
      BY <2>0, <3>1, <3>2 DEF HeldAfter
    <3> DEFINE f == Fail(result, "settings")
    <3>4. IsResult(f) /\ f.error = "settings"
      BY <2>0, FailLeavesItsMessage
    <3>5. RunEnds(f, held)
      BY <3>1
    <3> HIDE DEF f
    <3> QED
      BY <3>3, <3>4, <3>5, RunEndsClosed
  <2>8. CASE TakeSetupStep
    <3>1. /\ SettingUp /\ result' \in Recorded /\ held' = held \cup Acquired
          /\ setup' = setup + 1 /\ UNCHANGED <<benchmark, config, phase>> /\ phase = "run"
          /\ SettingsAllowARun
      BY <2>8 DEF TakeSetupStep, SettingUp
    <3>2. /\ setup' \in 0 .. 7 /\ setup' <= Len(SetupSteps)
          /\ held' = HeldAfter(setup + 1)
          /\ Step = "pin" => benchmark \in {"offline_lob", "receiver"}
      BY <3>1, SetupSoFar
    <3>3. IsResult(result') /\ result'.error = ""
      BY <2>0, <3>1, <3>2, RecordedHasNoError DEF Benchmarks
    <3>4. /\ HeldAfter(setup)' = HeldAfter(setup + 1)
          /\ SetupSteps' = SetupSteps /\ SettingsAllowARun'
          /\ benchmark' \in Benchmarks /\ phase' = "run"
      BY <2>0, <3>1 DEF HeldAfter, SetupSteps, SettingsAllowARun, ReplaysAFile, Benchmarks
    <3>5. NothingIsLeftOpen'
      BY <3>4 DEF NothingIsLeftOpen
    <3> QED
      BY <3>2, <3>3, <3>4, <3>5 DEF RunInv
  <2>9. CASE FailInSetup
    <3>1. /\ SettingUp /\ Step \notin {"rcvbuf_applied", "pin", "book"}
          /\ RunEnds(Fail(result, "setup"), held \ Closed(Step))
      BY <2>9 DEF FailInSetup
    <3>2. held \ Closed(Step) = {}
      BY <3>1, SetupSoFar
    <3> DEFINE f == Fail(result, "setup")
    <3>3. IsResult(f) /\ f.error = "setup"
      BY <2>0, FailLeavesItsMessage
    <3>4. RunEnds(f, held \ Closed(Step))
      BY <3>1
    <3> HIDE DEF f
    <3> QED
      BY <3>2, <3>3, <3>4, RunEndsClosed
  <2>10. CASE DieInSetup
    BY <2>10, OnwardsKeeps DEF DieInSetup, Exit, resources
  <2>11. CASE FailToSend
    <3>1. SetUp /\ benchmark = "sender" /\ RunEnds(Fail(result, "send"), held \ {"socket"})
      BY <2>11 DEF FailToSend
    <3>2. held \ {"socket"} = {"file", "mapping"}
      BY <3>1, SetupComplete
    <3> DEFINE f == Fail(result, "send")
    <3>3. IsResult(f) /\ f.error = "send"
      BY <2>0, FailLeavesItsMessage
    <3>4. RunEnds(f, held \ {"socket"})
      BY <3>1
    <3> HIDE DEF f
    <3> QED
      BY <3>2, <3>3, <3>4, RunEndsClosed
  <2>12. CASE FinishSending
    <3> DEFINE s == Metric(Metric(result, "elapsed_ns", "int", 1), "messages_sent", "uint", 1)
    <3>1. SetUp /\ benchmark = "sender" /\ RunEnds(s, held \ {"mapping", "file", "socket"})
      BY <2>12 DEF FinishSending
    <3>2. held \ {"mapping", "file", "socket"} = {}
      BY <3>1, SetupComplete
    <3>3. IsResult(s) /\ s.error = ""
      BY <2>0, <3>1, SentIsNoFailedSend DEF SetUp
    <3> HIDE DEF s
    <3> QED
      BY <3>1, <3>2, <3>3, RunEndsClosed
  <2>13. CASE FinishReplay
    <3>1. SetUp /\ benchmark = "offline_lob"
      BY <2>13 DEF FinishReplay
    <3>2. PICK error \in BOOLEAN, throughput \in {"number", "nan"},
               buckets \in {<<>>, <<<<3, 1>>, <<5, 2>>>>} :
             RunEnds(Measured(Complain(result, FALSE, error), 1, throughput, buckets),
                     held \ {"mapping", "file"})
      BY <2>13 DEF FinishReplay
    <3> DEFINE s == Measured(Complain(result, FALSE, error), 1, throughput, buckets)
    <3>3. IsResult(s) /\ s.error # "send"
      BY <2>0, <3>1, MeasuredIsNoFailedSend DEF SetUp
    <3>4. held \ {"mapping", "file"} = {}
      BY <3>1, SetupComplete
    <3>5. RunEnds(s, held \ {"mapping", "file"})
      BY <3>2
    <3> HIDE DEF s
    <3> QED
      BY <3>3, <3>4, <3>5, RunEndsClosed
  <2>14. CASE FinishReceiving
    <3>1. SetUp /\ benchmark = "receiver"
      BY <2>14 DEF FinishReceiving
    <3>2. PICK nothing \in BOOLEAN, error \in BOOLEAN,
               buckets \in {<<>>, <<<<3, 1>>, <<5, 2>>>>} :
             RunEnds(Measured(Complain(result, nothing, error), IF nothing THEN 0 ELSE 1,
                              "number", buckets),
                     held \ {"socket"})
      BY <2>14 DEF FinishReceiving
    <3> DEFINE s == Measured(Complain(result, nothing, error), IF nothing THEN 0 ELSE 1,
                             "number", buckets)
    <3>3. IsResult(s) /\ s.error # "send"
      BY <2>0, <3>1, MeasuredIsNoFailedSend DEF SetUp
    <3>4. held \ {"socket"} = {}
      BY <3>1, SetupComplete
    <3>5. RunEnds(s, held \ {"socket"})
      BY <3>2
    <3> HIDE DEF s
    <3> QED
      BY <3>3, <3>4, <3>5, RunEndsClosed
  <2>15. CASE EmitFile
    BY <2>15, OnwardsKeeps DEF EmitFile, Turn, resources
  <2>16. CASE EmitIndex
    BY <2>16, OnwardsKeeps DEF EmitIndex, Turn, resources
  <2>17. CASE EmitStdout
    BY <2>17, OnwardsKeeps DEF EmitStdout, Turn, resources
  <2>18. CASE Return
    BY <2>18, OnwardsKeeps DEF Return, Exit, resources
  <2>19. CASE UNCHANGED vars
    <3>1. /\ UNCHANGED <<benchmark, config, setup, held, result, phase>>
      BY <2>19 DEF vars
    <3> QED
      BY <3>1 DEF RunInv, NothingIsLeftOpen, HeldAfter, SetupSteps, SettingsAllowARun,
         ReplaysAFile, IsResult, Benchmarks
  <2> QED
    BY <2>1, <2>2, <2>3, <2>4, <2>5, <2>6, <2>7, <2>8, <2>9, <2>10, <2>11, <2>12, <2>13,
       <2>14, <2>15, <2>16, <2>17, <2>18, <2>19 DEF Next, Exited
<1> QED
  BY <1>1, <1>2, PTL DEF Spec

\* On every path out of a run what it opened is closed before main goes on, but for the file
\* and the mapping of a sender whose sendto failed.
THEOREM RunsCloseWhatTheyOpen == Spec => []NothingIsLeftOpen
<1>1. RunInv => NothingIsLeftOpen
  BY DEF RunInv
<1> QED
  BY <1>1, RunInvariant, PTL
===============================================================================
