----------------------------- MODULE ResultStore -----------------------------
(***************************************************************************)
(* How a run's document reaches the results directory: Emit                 *)
(* (src/shared/run_result.cc), called once at the end of every sender,      *)
(* receiver and offline run. The runs of this model share one run id: they  *)
(* are runs of one configuration started in the same second, which is when  *)
(* generated paths meet. A step is one file system call. Any call may fail  *)
(* and the process may be killed between any two.                           *)
(*                                                                          *)
(* A path names an inode, as on POSIX: truncating or writing through a path *)
(* changes what every other descriptor on that inode sees, and rename moves *)
(* the name, not the data. A document is a number of chunks, each marked    *)
(* with its run; the generated paths are 1 (no suffix), 2 ("-2"), 3 ...     *)
(***************************************************************************)
EXTENDS Integers, SequencesExt, FiniteSetsExt

CONSTANTS
    Runs,
    ExplicitRuns,       \* those given --out, the same path for all of them
    Length,             \* run -> chunks of its document
    AttemptLimit,       \* 1000, the bound of the suffix loop
    Overlap             \* whether two runs may be in Emit at the same time

ASSUME RunsAssumption == ExplicitRuns \subseteq Runs /\ Length \in [Runs -> Nat \ {0}]

\* Fewer runs of one id than suffixes: the loop's bound is not what ends it.
ASSUME AttemptAssumption ==
    IsFiniteSet(Runs) /\ AttemptLimit \in Nat /\ AttemptLimit > Cardinality(Runs)

ASSUME OverlapAssumption == Overlap \in BOOLEAN

VARIABLES
    names,          \* path -> inode
    contents,       \* inode -> what it holds
    index,          \* the lines of index.jsonl, each by its run
    phase,          \* where each run's Emit is
    path,           \* its target
    attempt,        \* its next suffix
    file,           \* the inode its stream is open on
    offset,         \* chunks it has written
    ok              \* its answer so far

store == <<names, contents, index>>
vars == <<store, phase, path, attempt, file, offset, ok>>

ExplicitPath == 0
Document(target) == <<"json", target>>
Partial(target) == <<"json.partial", target>>
Exists(name) == name \in DOMAIN names
\* The directory with the name on the inode, whatever it was on before.
Bound(directory, name, inode) ==
    [n \in DOMAIN directory \cup {name} |-> IF n = name THEN inode ELSE directory[n]]

Init ==
    /\ names = [n \in {} |-> 0]
    /\ contents = <<>>
    /\ index = <<>>
    /\ phase = [r \in Runs |-> "running"]
    /\ path = [r \in Runs |-> IF r \in ExplicitRuns THEN ExplicitPath ELSE 1]
    /\ attempt = [r \in Runs |-> 2]
    /\ file = [r \in Runs |-> 0]
    /\ offset = [r \in Runs |-> 0]
    /\ ok = [r \in Runs |-> TRUE]

----
Goto(r, where) == phase' = [phase EXCEPT ![r] = where]
Fails(r) == ok' = [ok EXCEPT ![r] = FALSE]

InEmit(r) == phase[r] \notin {"running", "returned", "killed"}

Begin(r) ==
    /\ phase[r] = "running"
    /\ Overlap \/ \A s \in Runs : ~InEmit(s)
    /\ Goto(r, IF r \in ExplicitRuns THEN "directory" ELSE "probe")
    /\ UNCHANGED <<store, path, attempt, file, offset, ok>>

\* Deviation: the generated path does not step aside.
TakenNever(r) == FALSE
\* The condition of the suffix loop.
Taken(r) == Exists(Document(path[r])) /\ attempt[r] < AttemptLimit

StepAside(r) ==
    /\ phase[r] = "probe"
    /\ Taken(r)
    /\ path' = [path EXCEPT ![r] = attempt[r]]
    /\ attempt' = [attempt EXCEPT ![r] = @ + 1]
    /\ UNCHANGED <<store, phase, file, offset, ok>>

SettleOnPath(r) ==
    /\ phase[r] = "probe"
    /\ ~Taken(r)
    /\ Goto(r, "directory")
    /\ UNCHANGED <<store, path, attempt, file, offset, ok>>

EnsureParentDirectory(r) ==
    /\ phase[r] = "directory"
    /\ Goto(r, "open")
    /\ UNCHANGED <<store, path, attempt, file, offset, ok>>

\* Deviation: what an earlier writer of the same partial left is kept.
Kept(inode) == contents[inode]
\* ios::trunc.
Truncated(inode) == <<>>

\* The stream opens on the inode the partial's name has, or on a new one.
OpenPartial(r) ==
    /\ phase[r] = "open"
    /\ LET partial == Partial(path[r])
       IN  IF Exists(partial)
           THEN /\ file' = [file EXCEPT ![r] = names[partial]]
                /\ contents' = [contents EXCEPT ![names[partial]] = Truncated(names[partial])]
                /\ UNCHANGED names
           ELSE /\ file' = [file EXCEPT ![r] = Len(contents) + 1]
                /\ contents' = Append(contents, <<>>)
                /\ names' = Bound(names, partial, Len(contents) + 1)
    /\ Goto(r, "write")
    /\ UNCHANGED <<index, path, attempt, offset, ok>>

Hole == "hole"
Chunk(r, k) == <<r, k>>
Whole(r) == [k \in 1 .. Length[r] |-> Chunk(r, k)]

\* A stream writes at its own offset; a gap below it reads as zeros.
WrittenAt(content, k, chunk) ==
    [i \in 1 .. Max({Len(content), k}) |->
        IF i = k THEN chunk ELSE IF i <= Len(content) THEN content[i] ELSE Hole]

MoreToWrite(r) == offset[r] < Length[r]

WriteChunk(r) ==
    /\ phase[r] = "write"
    /\ MoreToWrite(r)
    /\ offset' = [offset EXCEPT ![r] = @ + 1]
    /\ contents' = [contents EXCEPT ![file[r]] =
                        WrittenAt(@, offset'[r], Chunk(r, offset'[r]))]
    /\ UNCHANGED <<names, index, phase, path, attempt, file, ok>>

CloseStream(r) ==
    /\ phase[r] = "write"
    /\ offset[r] = Length[r]
    /\ Goto(r, "rename")
    /\ UNCHANGED <<store, path, attempt, file, offset, ok>>

\* Deviation: a failed write is renamed into place all the same.
AfterFailedWrite(where) == IF where = "write" THEN "rename" ELSE "index"
\* No rename after a failure: what was written of the partial stays, the index is next.
AfterFailure(where) == "index"

\* No directory, no file, or a stream that went bad at some chunk.
DocumentFails(r) ==
    /\ phase[r] \in {"directory", "open", "write"}
    /\ Fails(r)
    /\ Goto(r, AfterFailure(phase[r]))
    /\ UNCHANGED <<store, path, attempt, file, offset>>

\* rename replaces whatever the target named. A partial that is gone is an error.
Rename(r) ==
    /\ phase[r] = "rename"
    /\ Exists(Partial(path[r]))
    /\ names' = Bound([n \in DOMAIN names \ {Partial(path[r])} |-> names[n]],
                      Document(path[r]), names[Partial(path[r])])
    /\ Goto(r, "index")
    /\ UNCHANGED <<contents, index, path, attempt, file, offset, ok>>

RenameFails(r) ==
    /\ phase[r] = "rename"
    /\ Fails(r)
    /\ Goto(r, "index")
    /\ UNCHANGED <<store, path, attempt, file, offset>>

\* The line is appended whether or not there is a document.
AppendIndex(r) ==
    /\ phase[r] = "index"
    /\ index' = Append(index, r)
    /\ Goto(r, "returned")
    /\ UNCHANGED <<names, contents, path, attempt, file, offset, ok>>

\* Deviation: an index that could not be written is not reported.
FailsInSilence(r) == UNCHANGED ok
FailsOnIndex(r) == Fails(r)

AppendIndexFails(r) ==
    /\ phase[r] = "index"
    /\ FailsOnIndex(r)
    /\ Goto(r, "returned")
    /\ UNCHANGED <<store, path, attempt, file, offset>>

Killed(r) ==
    /\ InEmit(r)
    /\ Goto(r, "killed")
    /\ UNCHANGED <<store, path, attempt, file, offset, ok>>

Emit(r) ==
    \/ Begin(r)
    \/ StepAside(r)
    \/ SettleOnPath(r)
    \/ EnsureParentDirectory(r)
    \/ OpenPartial(r)
    \/ WriteChunk(r)
    \/ CloseStream(r)
    \/ DocumentFails(r)
    \/ Rename(r)
    \/ RenameFails(r)
    \/ AppendIndex(r)
    \/ AppendIndexFails(r)
    \/ Killed(r)

AllDone ==
    /\ \A r \in Runs : phase[r] \in {"returned", "killed"}
    /\ UNCHANGED vars

Next ==
    \/ \E r \in Runs : Emit(r)
    \/ AllDone

Spec == Init /\ [][Next]_vars

----
Published == {n \in DOMAIN names : n[1] = "json"}
HoldsAllOf(name, r) == Exists(name) /\ contents[names[name]] = Whole(r)

\* "Written beside the target and renamed into place, so a bucket sync or a reader never
\* sees a half-written document": whatever a path ending in .json names is all of one
\* run's document and nothing else, also after a kill in mid-write whose partial a later
\* run finds and reuses.
PublishedAreWhole ==
    \A n \in Published : \E r \in Runs : HoldsAllOf(n, r)

\* "... get a -2, -3 suffix on the filename rather than one silently overwriting the
\* other": a document once published under a generated path stays, as it was.
PublishedAreNeverOverwritten ==
    [][\A n \in Published \ {Document(ExplicitPath)} :
          /\ n \in DOMAIN names'
          /\ contents'[names'[n]] = contents[names[n]]]_vars

\* "Returns false ... if any write failed", and only then: the answer is true exactly when
\* the run left its line in the index and its document at its generated path.
AnswerIsTrue ==
    \A r \in Runs \ ExplicitRuns :
        phase[r] = "returned" =>
            (ok[r] <=> HoldsAllOf(Document(path[r]), r) /\ Contains(index, r))
===============================================================================
