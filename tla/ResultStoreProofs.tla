--------------------------- MODULE ResultStoreProofs ---------------------------
(***************************************************************************)
(* Runs that follow one another on a results directory (Overlap is FALSE):  *)
(* for every set of runs, every document length and every failure or kill,  *)
(* what is published is whole, stays as it was under a generated path, and  *)
(* Emit's answer is true.                                                   *)
(***************************************************************************)
EXTENDS ResultStore, SequenceTheorems, FiniteSetTheorems, TLAPS

Phases == {"running", "probe", "directory", "open", "write", "rename", "index",
           "returned", "killed"}

\* The first k chunks of a run's document.
Begun(r, k) == [i \in 1 .. k |-> Chunk(r, i)]

StoreTypeInv ==
    /\ contents \in Seq(Seq(Runs \X Nat))
    /\ index \in Seq(Runs)
    /\ phase \in [Runs -> Phases]
    /\ path \in [Runs -> Nat]
    /\ attempt \in [Runs -> Nat]
    /\ file \in [Runs -> Nat]
    /\ offset \in [Runs -> Nat]
    /\ ok \in [Runs -> BOOLEAN]

\* No two names share an inode, so writing one never changes another.
NamesInv ==
    /\ DOMAIN names \subseteq {"json", "json.partial"} \X Nat
    /\ names \in [DOMAIN names -> 1 .. Len(contents)]
    /\ \A m, n \in DOMAIN names : names[m] = names[n] => m = n

SerialInv == \A r, s \in Runs : InEmit(r) /\ InEmit(s) => r = s

\* Which path a run is on: every generated path it stepped aside from is taken, and the one
\* it settled on is free until it renames.
PathInv(r) ==
    /\ path[r] = ExplicitPath <=> r \in ExplicitRuns
    /\ r \in ExplicitRuns => phase[r] # "probe"
    /\ r \notin ExplicitRuns =>
          /\ attempt[r] = path[r] + 1
          /\ phase[r] = "running" => path[r] = 1
          /\ phase[r] = "probe" => \A t \in 1 .. path[r] - 1 : Exists(Document(t))
          /\ phase[r] \in {"directory", "open", "write", "rename"} => ~Exists(Document(path[r]))

\* What a run has written of its partial.
WritingInv(r) ==
    /\ phase[r] \in {"running", "probe", "directory", "open"} => offset[r] = 0
    /\ phase[r] \in {"write", "rename"} =>
          /\ Exists(Partial(path[r]))
          /\ names[Partial(path[r])] = file[r]
          /\ contents[file[r]] = Begun(r, offset[r])
          /\ offset[r] <= Length[r]
    /\ phase[r] = "rename" => offset[r] = Length[r]

\* The answer is true all along: before the index is written it is about the document alone.
AnswerInv(r) ==
    /\ phase[r] \in {"running", "probe", "directory", "open", "write", "rename"} => ok[r]
    /\ Contains(index, r) => phase[r] = "returned"
    /\ r \notin ExplicitRuns =>
          /\ phase[r] = "index" => (ok[r] <=> HoldsAllOf(Document(path[r]), r))
          /\ phase[r] = "returned" =>
                (ok[r] <=> HoldsAllOf(Document(path[r]), r) /\ Contains(index, r))

\* Every document is whole, and stands where its run, which has renamed it, put it.
DocumentsInv ==
    \A n \in Published : \E r \in Runs :
        /\ HoldsAllOf(n, r)
        /\ n[2] = path[r]
        /\ phase[r] \in {"index", "returned", "killed"}

StoreInv ==
    /\ StoreTypeInv
    /\ NamesInv
    /\ SerialInv
    /\ DocumentsInv
    /\ \A r \in Runs : PathInv(r) /\ WritingInv(r) /\ AnswerInv(r)

----
(* Names, chunks and documents                                               *)

\* Every run's document is its own: it has a chunk, and every chunk names the run.
LEMMA WholeNamesItsRun ==
    ASSUME NEW r \in Runs, NEW s \in Runs, Whole(r) = Whole(s)
    PROVE  r = s
<1>1. 1 \in 1 .. Length[r] /\ 1 \in 1 .. Length[s]
  BY RunsAssumption
<1>2. Whole(r)[1] = <<r, 1>> /\ Whole(s)[1] = <<s, 1>>
  BY <1>1 DEF Whole, Chunk
<1> QED
  BY <1>2

LEMMA WholeIsBegun ==
    ASSUME NEW r \in Runs
    PROVE  Whole(r) = Begun(r, Length[r])
BY DEF Whole, Begun

\* Names are told apart by their suffix and by their target.
LEMMA NamesDiffer ==
    ASSUME NEW a, NEW b
    PROVE  /\ Document(a) # Partial(b)
           /\ Document(a) = Document(b) => a = b
           /\ Partial(a) = Partial(b) => a = b
BY DEF Document, Partial

LEMMA NameOfADocument ==
    ASSUME NEW n \in {"json", "json.partial"} \X Nat
    PROVE  /\ n[1] = "json" => n = Document(n[2])
           /\ n = Document(n[2]) \/ n = Partial(n[2])
           /\ n[2] \in Nat
BY DEF Document, Partial

\* A stream that writes at the end of what it wrote appends the chunk.
LEMMA WritingAppends ==
    ASSUME NEW r \in Runs, NEW k \in Nat
    PROVE  WrittenAt(Begun(r, k), k + 1, Chunk(r, k + 1)) = Begun(r, k + 1)
<1>1. Len(Begun(r, k)) = k
  BY DEF Begun
<1>2. Max({k, k + 1}) = k + 1
  BY DEF Max
<1>3. \A i \in 1 .. k + 1 : i \in 1 .. k \/ i = k + 1
  OBVIOUS
<1>4. \A i \in 1 .. k : i <= k /\ i # k + 1 /\ Begun(r, k)[i] = Chunk(r, i)
  BY DEF Begun
<1>5. \A i \in 1 .. k + 1 :
        (IF i = k + 1 THEN Chunk(r, k + 1) ELSE IF i <= k THEN Begun(r, k)[i] ELSE Hole)
            = Chunk(r, i)
  BY <1>3, <1>4
<1> QED
  BY <1>1, <1>2, <1>5 DEF WrittenAt, Begun

LEMMA BegunIsASequence ==
    ASSUME NEW r \in Runs, NEW k \in Nat
    PROVE  Begun(r, k) \in Seq(Runs \X Nat)
<1>1. \A i \in 1 .. k : <<r, i>> \in Runs \X Nat
  OBVIOUS
<1>2. Begun(r, k) \in [1 .. k -> Runs \X Nat]
  BY <1>1 DEF Begun, Chunk
<1> HIDE DEF Begun
<1> QED
  BY <1>2, IsASeq

----
(* What a run's step leaves of the others                                    *)

\* While a run is in Emit no other is, and a run's step is about that run alone.
LEMMA OthersStandStill ==
    ASSUME ~Overlap, StoreInv, NEW r \in Runs, Emit(r), NEW s \in Runs, s # r
    PROVE  /\ ~InEmit(s)
           /\ phase'[s] = phase[s]
           /\ path'[s] = path[s]
           /\ attempt'[s] = attempt[s]
           /\ offset'[s] = offset[s]
           /\ ok'[s] = ok[s]
<1> USE DEF StoreInv, StoreTypeInv, Goto, Fails
<1>1. CASE Begin(r)
  BY <1>1 DEF Begin
<1>2. CASE StepAside(r)
  BY <1>2 DEF StepAside, SerialInv, InEmit
<1>3. CASE SettleOnPath(r) \/ EnsureParentDirectory(r) \/ CloseStream(r) \/ Killed(r)
  BY <1>3 DEF SettleOnPath, EnsureParentDirectory, CloseStream, Killed, SerialInv, InEmit
<1>4. CASE OpenPartial(r)
  BY <1>4 DEF OpenPartial, SerialInv, InEmit
<1>5. CASE WriteChunk(r)
  BY <1>5 DEF WriteChunk, SerialInv, InEmit
<1>6. CASE DocumentFails(r) \/ RenameFails(r)
  BY <1>6 DEF DocumentFails, RenameFails, SerialInv, InEmit
<1>7. CASE Rename(r)
  BY <1>7 DEF Rename, SerialInv, InEmit
<1>8. CASE AppendIndex(r) \/ AppendIndexFails(r)
  BY <1>8 DEF AppendIndex, AppendIndexFails, FailsOnIndex, SerialInv, InEmit
<1> QED
  BY <1>1, <1>2, <1>3, <1>4, <1>5, <1>6, <1>7, <1>8 DEF Emit

----
(* What a step does to the directory                                         *)

\* Opening leaves every other name and what it holds, and gives the run an empty inode
\* under the partial's name.
LEMMA OpenGivesAnEmptyPartial ==
    ASSUME StoreTypeInv, NamesInv, NEW r \in Runs, OpenPartial(r)
    PROVE  /\ DOMAIN names' = DOMAIN names \cup {Partial(path[r])}
           /\ contents' \in Seq(Seq(Runs \X Nat))
           /\ Len(contents') >= Len(contents)
           /\ names'[Partial(path[r])] = file'[r]
           /\ file'[r] \in 1 .. Len(contents')
           /\ contents'[file'[r]] = <<>>
           /\ \A n \in DOMAIN names : n # Partial(path[r]) =>
                 /\ names'[n] = names[n]
                 /\ names[n] # file'[r]
                 /\ contents'[names[n]] = contents[names[n]]
<1> DEFINE p == Partial(path[r])
<1>0. /\ contents \in Seq(Seq(Runs \X Nat))
      /\ file \in [Runs -> Nat]
      /\ \A n \in DOMAIN names : names[n] \in 1 .. Len(contents)
      /\ \A m, n \in DOMAIN names : names[m] = names[n] => m = n
      /\ <<>> \in Seq(Runs \X Nat)
  BY DEF StoreTypeInv, NamesInv
<1>1. CASE p \in DOMAIN names
  <2>1. /\ file' = [file EXCEPT ![r] = names[p]]
        /\ contents' = [contents EXCEPT ![names[p]] = <<>>]
        /\ names' = names
    BY <1>1 DEF OpenPartial, Exists, Truncated
  <2> HIDE DEF p
  <2>2. /\ names[p] \in 1 .. Len(contents)
        /\ file'[r] = names[p]
    BY <1>0, <1>1, <2>1
  <2>3. /\ contents' \in Seq(Seq(Runs \X Nat))
        /\ Len(contents') = Len(contents)
        /\ contents'[names[p]] = <<>>
        /\ \A i \in 1 .. Len(contents) : i # names[p] => contents'[i] = contents[i]
    BY <1>0, <2>1, <2>2
  <2>4. \A n \in DOMAIN names : n # p => names[n] \in 1 .. Len(contents) /\ names[n] # names[p]
    BY <1>0, <1>1
  <2>5. DOMAIN names' = DOMAIN names \cup {p}
    BY <1>1, <2>1
  <2> QED
    BY <2>1, <2>2, <2>3, <2>4, <2>5 DEF p
<1>2. CASE p \notin DOMAIN names
  <2>1. /\ file' = [file EXCEPT ![r] = Len(contents) + 1]
        /\ contents' = Append(contents, <<>>)
        /\ names' = Bound(names, p, Len(contents) + 1)
    BY <1>2 DEF OpenPartial, Exists
  <2> HIDE DEF p
  <2>2. /\ DOMAIN names' = DOMAIN names \cup {p}
        /\ names'[p] = Len(contents) + 1
        /\ \A n \in DOMAIN names : names'[n] = names[n]
    BY <1>2, <2>1 DEF Bound
  <2>3. /\ contents' \in Seq(Seq(Runs \X Nat))
        /\ Len(contents') = Len(contents) + 1
        /\ contents'[Len(contents) + 1] = <<>>
        /\ \A i \in 1 .. Len(contents) : contents'[i] = contents[i]
    BY <1>0, <2>1
  <2>4. file'[r] = Len(contents) + 1
    BY <1>0, <2>1
  <2>5. Len(contents) \in Nat
    BY <1>0
  <2> QED
    BY <1>0, <2>2, <2>3, <2>4, <2>5, SMTT(30) DEF p
<1> QED
  BY <1>1, <1>2

\* Writing adds the next chunk to the run's own partial and touches nothing else.
LEMMA WritingExtendsThePartial ==
    ASSUME StoreInv, NEW r \in Runs, WriteChunk(r)
    PROVE  /\ file[r] \in 1 .. Len(contents)
           /\ contents' \in Seq(Seq(Runs \X Nat))
           /\ Len(contents') = Len(contents)
           /\ offset'[r] = offset[r] + 1
           /\ contents'[file[r]] = Begun(r, offset'[r])
           /\ \A n \in DOMAIN names : n # Partial(path[r]) =>
                 contents'[names[n]] = contents[names[n]]
<1>0. /\ contents \in Seq(Seq(Runs \X Nat))
      /\ offset[r] \in Nat
      /\ offset'[r] = offset[r] + 1
      /\ \A n \in DOMAIN names : names[n] \in 1 .. Len(contents)
      /\ \A m, n \in DOMAIN names : names[m] = names[n] => m = n
  BY DEF StoreInv, StoreTypeInv, NamesInv, WriteChunk
<1>1. /\ Partial(path[r]) \in DOMAIN names
      /\ names[Partial(path[r])] = file[r]
      /\ contents[file[r]] = Begun(r, offset[r])
  BY DEF StoreInv, WritingInv, WriteChunk, Exists
<1>2. file[r] \in 1 .. Len(contents)
  BY <1>0, <1>1
<1>3. WrittenAt(contents[file[r]], offset'[r], Chunk(r, offset'[r])) = Begun(r, offset'[r])
  BY <1>0, <1>1, WritingAppends
<1>4. contents' = [contents EXCEPT ![file[r]] = Begun(r, offset'[r])]
  BY <1>3 DEF WriteChunk
<1>5. Begun(r, offset'[r]) \in Seq(Runs \X Nat)
  BY <1>0, BegunIsASequence, SMTT(30)
<1> QED
  BY <1>0, <1>1, <1>2, <1>4, <1>5

\* A rename moves the run's whole document to its target and every other name stays.
LEMMA RenamingMovesTheName ==
    ASSUME StoreInv, NEW r \in Runs, Rename(r)
    PROVE  /\ contents' = contents
           /\ DOMAIN names' = (DOMAIN names \ {Partial(path[r])}) \cup {Document(path[r])}
           /\ names'[Document(path[r])] = file[r]
           /\ file[r] \in 1 .. Len(contents)
           /\ contents[file[r]] = Whole(r)
           /\ \A n \in DOMAIN names' : n # Document(path[r]) =>
                 /\ names'[n] = names[n]
                 /\ names[n] # file[r]
<1> DEFINE p == Partial(path[r])
           d == Document(path[r])
<1>1. /\ p \in DOMAIN names
      /\ names[p] = file[r]
      /\ contents[file[r]] = Whole(r)
  BY WholeIsBegun DEF StoreInv, WritingInv, Rename, Exists
<1>2. /\ \A n \in DOMAIN names : names[n] \in 1 .. Len(contents)
      /\ \A m, n \in DOMAIN names : names[m] = names[n] => m = n
  BY DEF StoreInv, NamesInv
<1>3. /\ names' = Bound([n \in DOMAIN names \ {p} |-> names[n]], d, names[p])
      /\ contents' = contents
  BY DEF Rename
<1> HIDE DEF p, d
<1>4. /\ DOMAIN names' = (DOMAIN names \ {p}) \cup {d}
      /\ names'[d] = names[p]
      /\ \A n \in DOMAIN names' : n # d => names'[n] = names[n] /\ n # p /\ n \in DOMAIN names
  BY <1>3 DEF Bound
<1> QED
  BY <1>1, <1>2, <1>3, <1>4 DEF p, d

\* What a step may do to the documents: keep each as it is, or publish the whole of the
\* document of the run that renames, at a generated path that was free.
LEMMA DocumentsStep ==
    ASSUME StoreInv, NEW r \in Runs, Emit(r)
    PROVE  /\ \A n \in Published : n # Document(ExplicitPath) =>
                 n \in DOMAIN names' /\ contents'[names'[n]] = contents[names[n]]
           /\ \A n \in Published' :
                 \/ n \in DOMAIN names /\ contents'[names'[n]] = contents[names[n]]
                 \/ Rename(r) /\ n = Document(path[r]) /\ contents'[names'[n]] = Whole(r)
<1>0. \A n \in DOMAIN names : n[1] = "json" => n # Partial(path[r])
  BY DEF Partial
<1>1. CASE OpenPartial(r)
  <2> USE <1>1
  <2>1. StoreTypeInv /\ NamesInv
    BY DEF StoreInv
  <2>2. /\ DOMAIN names' = DOMAIN names \cup {Partial(path[r])}
        /\ \A n \in DOMAIN names : n # Partial(path[r]) =>
              names'[n] = names[n] /\ contents'[names[n]] = contents[names[n]]
    BY <2>1, OpenGivesAnEmptyPartial
  <2>3. \A n \in Published' : n \in DOMAIN names /\ n # Partial(path[r])
    BY <2>2 DEF Published, Partial
  <2> QED
    BY <1>0, <2>2, <2>3 DEF Published
<1>2. CASE WriteChunk(r)
  <2>1. names' = names
    BY <1>2 DEF WriteChunk
  <2> QED
    BY <1>0, <1>2, <2>1, WritingExtendsThePartial DEF Published
<1>3. CASE Rename(r)
  <2> USE <1>3
  <2>1. /\ contents' = contents
        /\ DOMAIN names' = (DOMAIN names \ {Partial(path[r])}) \cup {Document(path[r])}
        /\ names'[Document(path[r])] = file[r]
        /\ contents[file[r]] = Whole(r)
        /\ \A n \in DOMAIN names' : n # Document(path[r]) => names'[n] = names[n]
    BY RenamingMovesTheName
  <2>2. \A n \in Published : n # Document(ExplicitPath) => n # Document(path[r])
    BY DEF StoreInv, PathInv, Rename, Exists, Published
  <2> QED
    BY <1>0, <2>1, <2>2 DEF Published
<1>4. CASE UNCHANGED <<names, contents>>
  BY <1>4 DEF Published
<1>5. Emit(r) => OpenPartial(r) \/ WriteChunk(r) \/ Rename(r) \/ UNCHANGED <<names, contents>>
  BY DEF Emit, Begin, StepAside, SettleOnPath, EnsureParentDirectory, CloseStream, Killed,
         DocumentFails, RenameFails, AppendIndex, AppendIndexFails, store
<1> QED
  BY <1>1, <1>2, <1>3, <1>4, <1>5

\* Types and names survive every step.
LEMMA NamesStep ==
    ASSUME StoreInv, NEW r \in Runs, Emit(r)
    PROVE  StoreTypeInv' /\ NamesInv'
<1>0. StoreTypeInv /\ NamesInv
  BY DEF StoreInv
<1> USE DEF StoreTypeInv, Phases, Goto, Fails
<1>1. CASE OpenPartial(r)
  <2> USE <1>1
  <2>1. /\ DOMAIN names' = DOMAIN names \cup {Partial(path[r])}
        /\ contents' \in Seq(Seq(Runs \X Nat))
        /\ Len(contents') >= Len(contents)
        /\ names'[Partial(path[r])] = file'[r]
        /\ file'[r] \in 1 .. Len(contents')
        /\ \A n \in DOMAIN names : n # Partial(path[r]) =>
              /\ names'[n] = names[n]
              /\ names[n] # file'[r]
    BY <1>0, OpenGivesAnEmptyPartial
  <2>2. file' \in [Runs -> Nat]
    <3>1. \E i : file' = [file EXCEPT ![r] = i]
      BY DEF OpenPartial
    <3> QED
      BY <1>0, <2>1, <3>1
  <2>3. StoreTypeInv'
    BY <1>0, <2>1, <2>2 DEF OpenPartial
  <2>4. /\ \A n \in DOMAIN names : names[n] \in 1 .. Len(contents)
        /\ Len(contents) \in Nat
        /\ Len(contents') \in Nat
    BY <1>0, <2>1 DEF NamesInv
  <2>5. \A n \in DOMAIN names : names[n] \in 1 .. Len(contents')
    BY <2>1, <2>4
  <2>6. \A n \in DOMAIN names' : names'[n] \in 1 .. Len(contents')
    BY <2>1, <2>5
  <2>7. Partial(path[r]) \in {"json", "json.partial"} \X Nat
    BY <1>0 DEF Partial
  <2>8. names' = [n \in DOMAIN names' |-> names'[n]]
    <3>1. names = [n \in DOMAIN names |-> names[n]]
      BY <1>0 DEF NamesInv
    <3> QED
      BY <3>1 DEF OpenPartial, Bound
  <2>9. NamesInv'
    BY <1>0, <2>1, <2>6, <2>7, <2>8 DEF NamesInv
  <2> QED
    BY <2>3, <2>9
<1>2. CASE WriteChunk(r)
  <2>1. /\ contents' \in Seq(Seq(Runs \X Nat))
        /\ Len(contents') = Len(contents)
        /\ names' = names
    BY <1>2, WritingExtendsThePartial DEF WriteChunk
  <2> QED
    BY <1>0, <1>2, <2>1, SMTT(30) DEF WriteChunk, NamesInv
<1>3. CASE Rename(r)
  <2> USE <1>3
  <2>1. /\ contents' = contents
        /\ DOMAIN names' = (DOMAIN names \ {Partial(path[r])}) \cup {Document(path[r])}
        /\ names'[Document(path[r])] = file[r]
        /\ file[r] \in 1 .. Len(contents)
        /\ \A n \in DOMAIN names' : n # Document(path[r]) =>
              /\ names'[n] = names[n]
              /\ names[n] # file[r]
    BY RenamingMovesTheName
  <2>2. StoreTypeInv'
    BY <1>0, <2>1 DEF Rename
  <2>3. Document(path[r]) \in {"json", "json.partial"} \X Nat
    BY <1>0 DEF Document
  <2>4. names' = [n \in DOMAIN names' |-> names'[n]]
    BY DEF Rename, Bound
  <2>5. NamesInv'
    BY <1>0, <2>1, <2>3, <2>4 DEF NamesInv
  <2> QED
    BY <2>2, <2>5
<1>4. CASE AppendIndex(r)
  BY <1>0, <1>4 DEF AppendIndex, NamesInv
<1>5. CASE Begin(r) \/ SettleOnPath(r) \/ Killed(r)
  BY <1>0, <1>5 DEF Begin, SettleOnPath, Killed, NamesInv, store
<1>6. CASE EnsureParentDirectory(r) \/ CloseStream(r)
  BY <1>0, <1>6 DEF EnsureParentDirectory, CloseStream, NamesInv, store
<1>7. CASE DocumentFails(r) \/ RenameFails(r) \/ AppendIndexFails(r)
  BY <1>0, <1>7 DEF DocumentFails, RenameFails, AppendIndexFails, FailsOnIndex, AfterFailure,
                    NamesInv, store
<1>8. CASE StepAside(r)
  <2>1. /\ path' = [path EXCEPT ![r] = attempt[r]]
        /\ attempt' = [attempt EXCEPT ![r] = @ + 1]
        /\ UNCHANGED <<names, contents, index, phase, file, offset, ok>>
    BY <1>8 DEF StepAside, store
  <2>2. attempt[r] \in Nat
    BY <1>0
  <2> QED
    BY <1>0, <2>1, <2>2 DEF NamesInv
<1> QED
  BY <1>1, <1>2, <1>3, <1>4, <1>5, <1>6, <1>7, <1>8 DEF Emit

\* One run at a time stays one run at a time.
LEMMA SerialStep ==
    ASSUME ~Overlap, StoreInv, NEW r \in Runs, Emit(r)
    PROVE  SerialInv'
BY OthersStandStill DEF SerialInv, InEmit

\* A document stays whole and stays where a run that is past its rename put it.
LEMMA DocumentsStay ==
    ASSUME ~Overlap, StoreInv, NEW r \in Runs, Emit(r)
    PROVE  DocumentsInv'
<1>1. SUFFICES ASSUME NEW n \in Published'
               PROVE  \E q \in Runs : /\ HoldsAllOf(n, q)'
                                      /\ n[2] = path'[q]
                                      /\ phase'[q] \in {"index", "returned", "killed"}
  BY DEF DocumentsInv
<1>2. n \in DOMAIN names'
  BY DEF Published
<1>3. CASE n \in DOMAIN names /\ contents'[names'[n]] = contents[names[n]]
  <2>1. n \in Published
    BY <1>3 DEF Published
  <2>2. PICK q \in Runs : /\ HoldsAllOf(n, q)
                          /\ n[2] = path[q]
                          /\ phase[q] \in {"index", "returned", "killed"}
    BY <2>1 DEF StoreInv, DocumentsInv
  <2>3. HoldsAllOf(n, q)'
    BY <1>2, <1>3, <2>2 DEF HoldsAllOf, Exists, Whole
  <2>4. CASE q = r
    <3>1. phase \in [Runs -> Phases]
      BY DEF StoreInv, StoreTypeInv
    <3>2. phase[r] \in {"index", "returned", "killed"}
      BY <2>2, <2>4
    <3>3. AppendIndex(r) \/ AppendIndexFails(r) \/ Killed(r)
      BY <3>2 DEF Emit, Begin, StepAside, SettleOnPath, EnsureParentDirectory, OpenPartial,
                  WriteChunk, CloseStream, DocumentFails, Rename, RenameFails
    <3>4. path' = path /\ phase'[r] \in {"returned", "killed"}
      BY <3>1, <3>3 DEF AppendIndex, AppendIndexFails, Killed, Goto
    <3> QED
      BY <2>2, <2>3, <2>4, <3>4
  <2>5. CASE q # r
    BY <2>2, <2>3, <2>5, OthersStandStill
  <2> QED
    BY <2>4, <2>5
<1>4. CASE Rename(r) /\ n = Document(path[r]) /\ contents'[names'[n]] = Whole(r)
  <2>1. phase'[r] = "index" /\ path'[r] = path[r]
    BY <1>4 DEF Rename, Goto, StoreInv, StoreTypeInv
  <2>2. n[2] = path[r]
    BY <1>4 DEF Document
  <2>3. HoldsAllOf(n, r)'
    BY <1>2, <1>4 DEF HoldsAllOf, Exists, Whole
  <2> QED
    BY <2>1, <2>2, <2>3
<1> QED
  BY <1>3, <1>4, DocumentsStep

----
(* The suffix loop                                                           *)

\* There are more suffixes than runs, so the loop ends on a free path: if all of 1 .. m
\* are taken, each by a run of its own, and r is none of them, then m < Cardinality(Runs).
LEMMA FewerPathsThanRuns ==
    ASSUME NEW r \in Runs, NEW m \in Nat,
           NEW at \in [Runs -> Nat],
           \A t \in 1 .. m : \E s \in Runs \ {r} : at[s] = t
    PROVE  m < Cardinality(Runs)
<1> DEFINE Takers == [t \in 1 .. m |-> CHOOSE s \in Runs \ {r} : at[s] = t]
<1>1. \A t \in 1 .. m : Takers[t] \in Runs \ {r} /\ at[Takers[t]] = t
  OBVIOUS
<1> HIDE DEF Takers
<1>2. Takers \in [1 .. m -> Runs \ {r}]
  BY <1>1 DEF Takers
<1>3. Takers \in Injection(1 .. m, Runs \ {r})
  BY <1>1, <1>2 DEF Injection, IsInjective
<1>4. /\ IsFiniteSet(Runs \ {r})
      /\ Cardinality(Runs \ {r}) = Cardinality(Runs) - 1
      /\ Cardinality(Runs) \in Nat
  BY AttemptAssumption, FS_RemoveElement, FS_CardinalityType
<1>5. Cardinality(1 .. m) = m /\ IsFiniteSet(1 .. m)
  BY FS_Interval
<1>6. Cardinality(1 .. m) <= Cardinality(Runs \ {r})
  BY <1>3, <1>4, FS_Injection
<1> QED
  BY <1>4, <1>5, <1>6

LEMMA TheLoopEndsOnAFreePath ==
    ASSUME StoreInv, NEW r \in Runs, phase[r] = "probe", ~Taken(r)
    PROVE  ~Exists(Document(path[r]))
<1>1. SUFFICES ASSUME Exists(Document(path[r])) PROVE FALSE
  OBVIOUS
<1>2. /\ path \in [Runs -> Nat]
      /\ attempt[r] = path[r] + 1
      /\ \A t \in 1 .. path[r] - 1 : Exists(Document(t))
  BY DEF StoreInv, StoreTypeInv, PathInv
<1>3. ~(attempt[r] < AttemptLimit)
  BY <1>1 DEF Taken
<1>4. \A t \in 1 .. path[r] : t \in 1 .. path[r] - 1 \/ t = path[r]
  BY <1>2
<1>5. \A t \in 1 .. path[r] : Document(t) \in Published
  BY <1>1, <1>2, <1>4 DEF Exists, Published, Document
<1>6. ASSUME NEW t \in 1 .. path[r]
      PROVE  \E s \in Runs \ {r} : path[s] = t
  <2>1. PICK s \in Runs : /\ Document(t)[2] = path[s]
                          /\ phase[s] \in {"index", "returned", "killed"}
    BY <1>5 DEF StoreInv, DocumentsInv
  <2> QED
    BY <2>1 DEF Document
<1>7. path[r] < Cardinality(Runs)
  BY <1>2, <1>6, FewerPathsThanRuns
<1>8. Cardinality(Runs) \in Nat /\ AttemptLimit \in Nat /\ AttemptLimit > Cardinality(Runs)
  BY AttemptAssumption, FS_CardinalityType
<1> QED
  BY <1>2, <1>3, <1>7, <1>8

----
(* The runs' own parts of the invariant                                      *)

\* No step but a run's own rename publishes its path.
LEMMA FreeStaysFree ==
    ASSUME StoreInv, NEW r \in Runs, Emit(r), ~Rename(r),
           NEW t \in Nat, ~Exists(Document(t))
    PROVE  ~Exists(Document(t))'
BY DocumentsStep DEF Exists, Published, Document

LEMMA TakenStaysTaken ==
    ASSUME StoreInv, NEW r \in Runs, Emit(r),
           NEW t \in Nat \ {0}, Exists(Document(t))
    PROVE  Exists(Document(t))'
<1>1. Document(t) \in Published /\ Document(t) # Document(ExplicitPath)
  BY DEF Exists, Published, Document, ExplicitPath
<1> QED
  BY <1>1, DocumentsStep DEF Exists

LEMMA PathStep ==
    ASSUME ~Overlap, StoreInv, NEW r \in Runs, Emit(r), NEW s \in Runs
    PROVE  PathInv(s)'
<1>0. PathInv(s) /\ StoreTypeInv
  BY DEF StoreInv
<1> USE DEF PathInv, StoreTypeInv, Goto, Fails
<1>1. CASE s # r
  BY <1>0, <1>1, OthersStandStill DEF InEmit
<1>2. CASE s = r /\ Begin(r)
  BY <1>0, <1>2 DEF Begin
<1>3. CASE s = r /\ StepAside(r)
  <2>1. /\ Exists(Document(path[r]))
        /\ phase[r] = "probe"
        /\ r \notin ExplicitRuns
        /\ attempt[r] = path[r] + 1
        /\ path[r] \in Nat
        /\ \A t \in 1 .. path[r] - 1 : Exists(Document(t))
    BY <1>0, <1>3 DEF StepAside, Taken
  <2>2. /\ path'[r] = path[r] + 1
        /\ attempt'[r] = path[r] + 2
        /\ names' = names
        /\ phase' = phase
    BY <1>0, <1>3, <2>1 DEF StepAside, store
  <2>3. \A t \in 1 .. path'[r] - 1 : t \in 1 .. path[r] - 1 \/ t = path[r]
    BY <2>1, <2>2
  <2>4. \A t \in 1 .. path'[r] - 1 : Exists(Document(t))'
    BY <2>1, <2>2, <2>3 DEF Exists, Document
  <2> QED
    BY <1>3, <2>1, <2>2, <2>4 DEF ExplicitPath
<1>4. CASE s = r /\ SettleOnPath(r)
  <2>1. ~Exists(Document(path[r]))
    BY <1>4, TheLoopEndsOnAFreePath DEF SettleOnPath
  <2> QED
    BY <1>0, <1>4, <2>1 DEF SettleOnPath, store, Exists, Document
<1>5. CASE s = r /\ (EnsureParentDirectory(r) \/ CloseStream(r))
  BY <1>0, <1>5 DEF EnsureParentDirectory, CloseStream, store, Exists, Document
<1>6. CASE s = r /\ (OpenPartial(r) \/ WriteChunk(r))
  <2>1. /\ path' = path
        /\ attempt' = attempt
        /\ phase[r] \in {"open", "write"}
        /\ phase'[r] = "write"
    BY <1>0, <1>6 DEF OpenPartial, WriteChunk
  <2>2. ~Rename(r) /\ path[r] \in Nat
    BY <1>0, <2>1 DEF Rename
  <2>3. ~Exists(Document(path[r])) => ~Exists(Document(path[r]))'
    <3>1. PICK t \in Nat : t = path[r] /\ t = path'[r]
      BY <2>1, <2>2
    <3>2. ~Exists(Document(t)) => ~Exists(Document(t))'
      BY <2>2, FreeStaysFree
    <3> QED
      BY <3>1, <3>2 DEF Exists, Document
  <2> QED
    BY <1>0, <1>6, <2>1, <2>3
<1>7. CASE s = r /\ (DocumentFails(r) \/ Rename(r) \/ RenameFails(r))
  BY <1>0, <1>7 DEF DocumentFails, Rename, RenameFails, AfterFailure
<1>8. CASE s = r /\ (AppendIndex(r) \/ AppendIndexFails(r) \/ Killed(r))
  BY <1>0, <1>8 DEF AppendIndex, AppendIndexFails, Killed
<1> QED
  BY <1>1, <1>2, <1>3, <1>4, <1>5, <1>6, <1>7, <1>8 DEF Emit

LEMMA WritingStep ==
    ASSUME ~Overlap, StoreInv, NEW r \in Runs, Emit(r), NEW s \in Runs
    PROVE  WritingInv(s)'
<1>0. WritingInv(s) /\ StoreTypeInv /\ NamesInv
  BY DEF StoreInv
<1> USE DEF WritingInv, StoreTypeInv, Goto, Fails
<1>1. CASE s # r
  BY <1>0, <1>1, OthersStandStill DEF InEmit
<1>2. CASE s = r /\ (Begin(r) \/ StepAside(r) \/ SettleOnPath(r) \/ EnsureParentDirectory(r))
  BY <1>0, <1>2 DEF Begin, StepAside, SettleOnPath, EnsureParentDirectory
<1>3. CASE s = r /\ OpenPartial(r)
  <2>1. /\ offset'[r] = 0
        /\ path' = path
        /\ phase'[r] = "write"
    BY <1>0, <1>3 DEF OpenPartial
  <2>2. /\ DOMAIN names' = DOMAIN names \cup {Partial(path[r])}
        /\ names'[Partial(path[r])] = file'[r]
        /\ contents'[file'[r]] = <<>>
    BY <1>0, <1>3, OpenGivesAnEmptyPartial
  <2>3. Begun(r, 0) = <<>> /\ 0 <= Length[r]
    BY RunsAssumption DEF Begun
  <2> QED
    BY <1>3, <2>1, <2>2, <2>3 DEF Exists, Partial, Begun
<1>4. CASE s = r /\ WriteChunk(r)
  <2>1. /\ path' = path
        /\ names' = names
        /\ file' = file
        /\ phase' = phase
        /\ phase[r] = "write"
        /\ offset[r] \in Nat
        /\ offset[r] < Length[r]
    BY <1>0, <1>4 DEF WriteChunk, MoreToWrite
  <2>2. offset'[r] = offset[r] + 1 /\ contents'[file[r]] = Begun(r, offset'[r])
    BY <1>4, WritingExtendsThePartial
  <2>3. Length[r] \in Nat
    BY RunsAssumption
  <2>4. offset'[r] <= Length[r]
    BY <2>1, <2>2, <2>3
  <2> QED
    BY <1>0, <1>4, <2>1, <2>2, <2>4 DEF Exists, Partial, Begun
<1>5. CASE s = r /\ CloseStream(r)
  BY <1>0, <1>5 DEF CloseStream, store, Exists, Partial, Begun
<1>6. CASE s = r /\ (DocumentFails(r) \/ Rename(r) \/ RenameFails(r))
  BY <1>0, <1>6 DEF DocumentFails, Rename, RenameFails, AfterFailure
<1>7. CASE s = r /\ (AppendIndex(r) \/ AppendIndexFails(r) \/ Killed(r))
  BY <1>0, <1>7 DEF AppendIndex, AppendIndexFails, Killed
<1> QED
  BY <1>1, <1>2, <1>3, <1>4, <1>5, <1>6, <1>7 DEF Emit

\* Another run's document is there after the step exactly when it was before it.
LEMMA OthersDocumentsStand ==
    ASSUME ~Overlap, StoreInv, NEW r \in Runs, Emit(r),
           NEW s \in Runs \ ExplicitRuns, s # r
    PROVE  HoldsAllOf(Document(path[s]), s)' <=> HoldsAllOf(Document(path[s]), s)
<1>1. path[s] \in Nat \ {0}
  BY DEF StoreInv, StoreTypeInv, PathInv, ExplicitPath
<1>2. PICK t \in Nat \ {0} : t = path[s] /\ t = path'[s]
  BY <1>1, OthersStandStill
<1> DEFINE d == Document(t)
<1>3. d[1] = "json" /\ d # Document(ExplicitPath)
  BY <1>2 DEF Document, ExplicitPath
<1>4. HoldsAllOf(Document(path[s]), s)' <=> d \in DOMAIN names' /\ contents'[names'[d]] = Whole(s)
  BY <1>2 DEF HoldsAllOf, Exists, Document, Whole
<1>5. HoldsAllOf(Document(path[s]), s) <=> d \in DOMAIN names /\ contents[names[d]] = Whole(s)
  BY <1>2 DEF HoldsAllOf, Exists
<1> HIDE DEF d
<1>6. /\ \A n \in Published : n # Document(ExplicitPath) =>
            n \in DOMAIN names' /\ contents'[names'[n]] = contents[names[n]]
      /\ \A n \in Published' :
            \/ n \in DOMAIN names /\ contents'[names'[n]] = contents[names[n]]
            \/ Rename(r) /\ n = Document(path[r]) /\ contents'[names'[n]] = Whole(r)
  BY DocumentsStep
<1>7. d \in DOMAIN names => d \in DOMAIN names' /\ contents'[names'[d]] = contents[names[d]]
  BY <1>3, <1>6 DEF Published
<1>8. d \in DOMAIN names' =>
        \/ d \in DOMAIN names /\ contents'[names'[d]] = contents[names[d]]
        \/ contents'[names'[d]] = Whole(r)
  BY <1>3, <1>6 DEF Published
<1>9. Whole(r) # Whole(s)
  BY WholeNamesItsRun
<1> QED
  BY <1>4, <1>5, <1>7, <1>8, <1>9

\* A line appended for one run is no other's.
LEMMA AppendedLine ==
    ASSUME NEW lines \in Seq(Runs), NEW r \in Runs, NEW s \in Runs
    PROVE  Contains(Append(lines, r), s) <=> Contains(lines, s) \/ s = r
<1>1. /\ Len(Append(lines, r)) = Len(lines) + 1
      /\ Append(lines, r)[Len(lines) + 1] = r
      /\ \A i \in 1 .. Len(lines) : Append(lines, r)[i] = lines[i]
      /\ Len(lines) \in Nat
  OBVIOUS
<1>2. /\ \A i \in 1 .. Len(lines) + 1 : i \in 1 .. Len(lines) \/ i = Len(lines) + 1
      /\ \A i \in 1 .. Len(lines) : i \in 1 .. Len(lines) + 1
      /\ Len(lines) + 1 \in 1 .. Len(lines) + 1
  BY <1>1
<1> QED
  BY <1>1, <1>2 DEF Contains

LEMMA AnswerStep ==
    ASSUME ~Overlap, StoreInv, NEW r \in Runs, Emit(r), NEW s \in Runs
    PROVE  AnswerInv(s)'
<1>0. AnswerInv(s) /\ StoreTypeInv
  BY DEF StoreInv
<1>1. CASE s # r
  <2>1. /\ ~InEmit(s)
        /\ phase'[s] = phase[s]
        /\ ok'[s] = ok[s]
    BY <1>1, OthersStandStill
  <2>2. Contains(index', s) <=> Contains(index, s)
    <3>1. index' = index \/ index' = Append(index, r)
      BY DEF Emit, Begin, StepAside, SettleOnPath, EnsureParentDirectory, OpenPartial,
             WriteChunk, CloseStream, DocumentFails, Rename, RenameFails, AppendIndex,
             AppendIndexFails, Killed, store
    <3>2. index \in Seq(Runs)
      BY <1>0 DEF StoreTypeInv
    <3>3. Contains(Append(index, r), s) <=> Contains(index, s)
      BY <1>1, <3>2, AppendedLine
    <3> QED
      BY <3>1, <3>3 DEF Contains
  <2>3. s \notin ExplicitRuns =>
          (HoldsAllOf(Document(path[s]), s)' <=> HoldsAllOf(Document(path[s]), s))
    BY <1>1, OthersDocumentsStand
  <2>4. phase[s] \in {"running", "returned", "killed"}
    BY <2>1 DEF InEmit
  <2> QED
    BY <1>0, <2>1, <2>2, <2>3, <2>4 DEF AnswerInv
<1>2. ~Contains(index, r) \/ phase[r] = "returned"
  BY DEF StoreInv, AnswerInv
<1> USE DEF AnswerInv, StoreTypeInv, Goto, Fails
<1>3. CASE s = r /\ (Begin(r) \/ StepAside(r) \/ SettleOnPath(r) \/ EnsureParentDirectory(r))
  BY <1>0, <1>3 DEF Begin, StepAside, SettleOnPath, EnsureParentDirectory, store
<1>4. CASE s = r /\ (OpenPartial(r) \/ WriteChunk(r) \/ CloseStream(r) \/ Killed(r))
  BY <1>0, <1>4 DEF OpenPartial, WriteChunk, CloseStream, Killed, store, InEmit
<1>5. CASE s = r /\ (DocumentFails(r) \/ RenameFails(r))
  <2>1. /\ phase'[r] = "index"
        /\ ok'[r] = FALSE
        /\ path' = path
        /\ UNCHANGED <<names, contents, index>>
        /\ phase[r] \in {"directory", "open", "write", "rename"}
    BY <1>0, <1>5 DEF DocumentFails, RenameFails, AfterFailure, store
  <2>2. r \notin ExplicitRuns => ~Exists(Document(path[r]))
    BY <2>1 DEF StoreInv, PathInv
  <2>3. r \notin ExplicitRuns => ~HoldsAllOf(Document(path[r]), r)'
    BY <2>1, <2>2 DEF HoldsAllOf, Exists, Document
  <2> QED
    BY <1>0, <1>5, <2>1, <2>3
<1>6. CASE s = r /\ Rename(r)
  <2>1. /\ phase'[r] = "index"
        /\ phase[r] = "rename"
        /\ ok' = ok
        /\ path' = path
        /\ index' = index
    BY <1>0, <1>6 DEF Rename
  <2>2. HoldsAllOf(Document(path[r]), r)'
    BY <1>6, <2>1, RenamingMovesTheName DEF HoldsAllOf, Exists, Document, Whole
  <2> QED
    BY <1>0, <1>6, <2>1, <2>2
<1>7. CASE s = r /\ AppendIndex(r)
  <2>1. /\ phase'[r] = "returned"
        /\ phase[r] = "index"
        /\ UNCHANGED <<names, contents, path, ok>>
        /\ index' = Append(index, r)
    BY <1>0, <1>7 DEF AppendIndex
  <2>2. Contains(index', r)
    BY <1>0, <2>1, AppendedLine
  <2>3. HoldsAllOf(Document(path[r]), r)' <=> HoldsAllOf(Document(path[r]), r)
    BY <2>1 DEF HoldsAllOf, Exists, Document, Whole
  <2> QED
    BY <1>0, <1>7, <2>1, <2>2, <2>3
<1>8. CASE s = r /\ AppendIndexFails(r)
  <2>1. /\ phase'[r] = "returned"
        /\ phase[r] = "index"
        /\ ok'[r] = FALSE
        /\ index' = index
    BY <1>0, <1>8 DEF AppendIndexFails, FailsOnIndex, store
  <2> QED
    BY <1>0, <1>2, <1>8, <2>1
<1> QED
  BY <1>1, <1>3, <1>4, <1>5, <1>6, <1>7, <1>8 DEF Emit

----
(* The theorems                                                              *)

\* For every run, document length and number of suffixes: when runs follow one another,
\* the invariant of Emit holds whatever fails and wherever a run is killed.
THEOREM StoreInvariant ==
    ASSUME ~Overlap
    PROVE  Spec => []StoreInv
<1>1. Init => StoreInv
  <2> SUFFICES ASSUME Init PROVE StoreInv
    OBVIOUS
  <2> USE DEF Init
  <2>1. StoreTypeInv
    BY DEF StoreTypeInv, Phases, ExplicitPath
  <2>2. NamesInv
    BY DEF NamesInv
  <2>3. SerialInv
    BY DEF SerialInv, InEmit
  <2>4. DocumentsInv
    BY DEF DocumentsInv, Published
  <2>5. ASSUME NEW r \in Runs PROVE PathInv(r) /\ WritingInv(r) /\ AnswerInv(r)
    BY DEF PathInv, WritingInv, AnswerInv, ExplicitPath, Contains
  <2> QED
    BY <2>1, <2>2, <2>3, <2>4, <2>5 DEF StoreInv
<1>2. StoreInv /\ [Next]_vars => StoreInv'
  <2> SUFFICES ASSUME StoreInv, [Next]_vars PROVE StoreInv'
    OBVIOUS
  <2>1. ASSUME NEW r \in Runs, Emit(r) PROVE StoreInv'
    <3>1. \A s \in Runs : PathInv(s)'
      BY <2>1, PathStep
    <3>2. \A s \in Runs : WritingInv(s)'
      BY <2>1, WritingStep
    <3>3. \A s \in Runs : AnswerInv(s)'
      BY <2>1, AnswerStep
    <3>4. StoreTypeInv' /\ NamesInv' /\ SerialInv' /\ DocumentsInv'
      BY <2>1, NamesStep, SerialStep, DocumentsStay
    <3> QED
      BY <3>1, <3>2, <3>3, <3>4 DEF StoreInv
  <2>2. CASE UNCHANGED vars
    <3> USE <2>2 DEF vars, store, Exists, Document, Whole
    <3>1. StoreTypeInv' /\ NamesInv' /\ SerialInv'
      BY DEF StoreInv, StoreTypeInv, NamesInv, SerialInv, InEmit
    <3>2. DocumentsInv'
      BY DEF StoreInv, DocumentsInv, Published, HoldsAllOf
    <3>3. \A r \in Runs : PathInv(r)' /\ WritingInv(r)'
      BY DEF StoreInv, PathInv, WritingInv, Partial, Begun
    <3>4. \A r \in Runs : AnswerInv(r)'
      BY DEF StoreInv, AnswerInv, Contains, HoldsAllOf
    <3> QED
      BY <3>1, <3>2, <3>3, <3>4 DEF StoreInv
  <2> QED
    BY <2>1, <2>2 DEF Next, AllDone
<1> QED
  BY <1>1, <1>2, PTL DEF Spec

\* What a path ending in .json names is all of one run's document and nothing else, also
\* when a run was killed in mid-write and a later one took its partial over.
THEOREM DocumentsAreWhole ==
    ASSUME ~Overlap
    PROVE  Spec => []PublishedAreWhole
<1>1. StoreInv => PublishedAreWhole
  BY DEF StoreInv, DocumentsInv, PublishedAreWhole
<1> QED
  BY <1>1, StoreInvariant, PTL

\* A document once published under a generated path stays as it was: the suffix loop never
\* settles on a path that is taken, its bound included.
THEOREM DocumentsAreKept ==
    ASSUME ~Overlap
    PROVE  Spec => PublishedAreNeverOverwritten
<1> DEFINE KeepsDocuments == \A n \in Published \ {Document(ExplicitPath)} :
                        /\ n \in DOMAIN names'
                        /\ contents'[names'[n]] = contents[names[n]]
<1>1. StoreInv /\ [Next]_vars => [KeepsDocuments]_vars
  <2> SUFFICES ASSUME StoreInv, Next PROVE KeepsDocuments
    OBVIOUS
  <2>1. CASE \E r \in Runs : Emit(r)
    BY <2>1, DocumentsStep
  <2>2. CASE UNCHANGED vars
    BY <2>2 DEF vars, store, Published
  <2> QED
    BY <2>1, <2>2 DEF Next, AllDone
<1> QED
  BY <1>1, StoreInvariant, PTL DEF Spec, PublishedAreNeverOverwritten

\* Emit answers true exactly when the run left its line in the index and its whole document
\* at its generated path.
THEOREM AnswersAreTrue ==
    ASSUME ~Overlap
    PROVE  Spec => []AnswerIsTrue
<1>1. StoreInv => AnswerIsTrue
  BY DEF StoreInv, AnswerInv, AnswerIsTrue
<1> QED
  BY <1>1, StoreInvariant, PTL
===============================================================================
