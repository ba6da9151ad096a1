--------------------------- MODULE Outputs_proofs ---------------------------
(***************************************************************************)
(* Proofs about Outputs, for any inputs, module names, requests and number *)
(* of translations: which files found together are of one translation, and *)
(* what the references of an artifact stand for.                           *)
(***************************************************************************)
EXTENDS Outputs, SequenceTheorems, WellFoundedInduction, TLAPS

(***************************************************************************)
(* The inductive invariant, in parts.                                      *)
(***************************************************************************)
AllReferences ==
  [ kind : [Referred -> Document \union {"verified", "program"}],
    source : {"given", "empty"}, commits : {"given", "env", "git"} ]

\* One artifact's part of AllOrNothing.
Uniform(r) ==
  \/ /\ \A k \in Referred : r.kind[k] = "verified"
     /\ r.source = "given" /\ r.commits \in {"given", "env"}
  \/ \A k \in Referred : r.kind[k] \in {"none", "plain", "program"}

UniformReferences == {r \in AllReferences : Uniform(r)}

Commands ==
  [ kind : {"api", "translate", "many"}, args : Seq(Inputs), todo : Seq(Inputs),
    modules : Seq(Entry), has_error : BOOLEAN,
    refers : UniformReferences \union {NoReferences} ]

Typed ==
  /\ disk \in [Stems -> [Files -> 0 .. Torn]]
  /\ made \in Seq([errors : BOOLEAN, refers : UniformReferences])
  /\ Len(made) <= MaxTranslations
  /\ command = Idle \/ command \in Commands
  /\ writing = NotWriting \/ writing \in [n : 1 .. MaxTranslations, k : 1 .. 6]

\* What is on disk was made, and the files being written are of the newest
\* translation; a module name that is not being written has none of its files.
InOrder ==
  /\ \A s \in Stems, f \in Files : disk[s][f] <= Len(made) \/ disk[s][f] = Torn
  /\ writing # NotWriting =>
       /\ writing.n = Len(made) /\ command \in Commands /\ command.todo # << >>
       /\ \A s \in Stems, j \in 1 .. 5 :
            disk[s][FileOrder[j]] = writing.n <=> s = Stem(Path) /\ j < writing.k

Inv == Typed /\ InOrder /\ ArtifactSeals

LEMMA FilesInOrder ==
  /\ FileOrder[1] = "python" /\ FileOrder[2] = "metadata" /\ FileOrder[3] = "source_map"
  /\ FileOrder[4] = "artifact" /\ FileOrder[5] = "coverage" /\ Len(FileOrder) = 5
  /\ \A j \in 1 .. 5 : FileOrder[j] \in Files
  /\ \A f \in Files : \E j \in 1 .. 5 : f = FileOrder[j]
  /\ \A i, j \in 1 .. 5 : FileOrder[i] = FileOrder[j] => i = j
<1>1. /\ FileOrder[1] = "python" /\ FileOrder[2] = "metadata" /\ FileOrder[3] = "source_map"
      /\ FileOrder[4] = "artifact" /\ FileOrder[5] = "coverage" /\ Len(FileOrder) = 5
  BY DEF FileOrder
<1>2. \A j \in 1 .. 5 : j = 1 \/ j = 2 \/ j = 3 \/ j = 4 \/ j = 5
  OBVIOUS
<1>3. \A j \in 1 .. 5 : FileOrder[j] \in Files
  BY <1>1, <1>2 DEF Files
<1>4. \A f \in Files : \E j \in 1 .. 5 : f = FileOrder[j]
  BY <1>1 DEF Files
<1>5. \A i, j \in 1 .. 5 : FileOrder[i] = FileOrder[j] => i = j
  BY <1>1, <1>2
<1> QED BY <1>1, <1>3, <1>4, <1>5

\* An artifact that is built refers to documents of one kind.
LEMMA ReferencesUniform ==
  ASSUME NEW r \in Request, Builds(r)
  PROVE  References(r) \in UniformReferences
<1> DEFINE canonical == CanonicalInputs(r)
           commits == ProducerCommits(r, canonical)
           kind == [k \in Referred |-> IF canonical THEN "verified"
                                       ELSE IF k = "ast" THEN "program" ELSE r[k]]
<1>1. \A k \in Referred : r[k] \in Document
  BY DEF Referred, Request
<1>2. ~ canonical => \A k \in Referred : r[k] \in {"none", "plain"}
  BY <1>1 DEF CanonicalInputs, IsCanonical, Document
<1>3. commits \in {"given", "env", "git"} /\ (canonical => commits \in {"given", "env"})
  <2>1. canonical \in BOOLEAN /\ commits # "fails"
    BY DEF Builds, CanonicalInputs
  <2> HIDE DEF canonical
  <2> QED BY <2>1 DEF ProducerCommits, Request
<1>4. canonical => r.source = "given"
  BY DEF Builds, Verifies
<1>5. References(r) = [kind |-> kind, source |-> r.source, commits |-> commits]
  BY DEF References
<1>6. kind \in [Referred -> Document \union {"verified", "program"}]
  BY <1>1
<1>7. canonical => \A k \in Referred : kind[k] = "verified"
  OBVIOUS
<1>8. ~ canonical => \A k \in Referred : kind[k] \in {"none", "plain", "program"}
  BY <1>2
<1> HIDE DEF canonical, commits, kind
<1> QED BY <1>3, <1>4, <1>5, <1>6, <1>7, <1>8 DEF UniformReferences, AllReferences, Uniform, Request
-----------------------------------------------------------------------------
(* The steps.                                                              *)

LEMMA MadeTyped ==
  ASSUME Inv, NEW n \in 1 .. Len(made)
  PROVE  made[n].errors \in BOOLEAN /\ made[n].refers \in UniformReferences
<1> DEFINE Made == [errors : BOOLEAN, refers : UniformReferences]
<1>1. made \in Seq(Made)
  BY DEF Inv, Typed
<1>2. \A m \in Made : m.errors \in BOOLEAN /\ m.refers \in UniformReferences
  OBVIOUS
<1> HIDE DEF Made
<1> QED BY <1>1, <1>2

\* Steps that write no file and make nothing.
LEMMA QuietOK ==
  ASSUME Inv, UNCHANGED <<disk, made>>, command' = Idle \/ command' \in Commands,
         writing' = NotWriting
  PROVE  Inv'
BY DEF Inv, Typed, InOrder, ArtifactSeals

LEMMA CalledOK ==
  ASSUME Inv, NEW kind \in {"api", "translate", "many"}, NEW args \in Seq(Inputs),
         NEW r \in Requests, Called(kind, args, r), writing = NotWriting
  PROVE  Inv'
<1> DEFINE refers == IF Builds(r) THEN References(r) ELSE NoReferences
<1>1. refers \in UniformReferences \union {NoReferences}
  BY ReferencesUniform, OutputsAssumption DEF OutputsAssumption
<1>2. command' = [ kind |-> kind, args |-> args, todo |-> args, modules |-> << >>,
                   has_error |-> FALSE, refers |-> refers ]
  BY DEF Called
<1> HIDE DEF refers
<1>3. << >> \in Seq(Entry)
  OBVIOUS
<1>4. command' \in Commands
  BY <1>1, <1>2, <1>3 DEF Commands
<1> QED BY <1>4, QuietOK DEF Called

LEMMA EnteredOK ==
  ASSUME Inv, command \in Commands, command.todo # << >>,
         NEW n \in 0 .. MaxTranslations, NEW ok \in BOOLEAN, Entered(n, ok)
  PROVE  command' \in Commands
<1> DEFINE entry == [input |-> Path, n |-> n, ok |-> ok]
           todo == Tail(command.todo)
           has_error == HasError(ok)
           modules == Append(command.modules, entry)
           c1 == [command EXCEPT !.todo = todo]
           c2 == [c1 EXCEPT !.has_error = has_error]
           c3 == [c2 EXCEPT !.modules = modules]
<1>1. /\ command.todo \in Seq(Inputs) /\ command.modules \in Seq(Entry)
      /\ command.has_error \in BOOLEAN
  BY DEF Commands
<1>2. Path \in Inputs /\ todo \in Seq(Inputs)
  BY <1>1 DEF Path
<1>3. entry \in Entry
  BY <1>2 DEF Entry
<1> HIDE DEF entry
<1>4. modules \in Seq(Entry) /\ has_error \in BOOLEAN
  BY <1>1, <1>3 DEF HasError
<1>5. command' = c3
  BY DEF Entered, entry
<1> HIDE DEF todo, has_error, modules
<1>6. c1 \in Commands
  BY <1>2 DEF Commands
<1> HIDE DEF c1
<1>7. c2 \in Commands
  BY <1>4, <1>6 DEF Commands
<1> HIDE DEF c2
<1>8. c3 \in Commands
  BY <1>4, <1>7 DEF Commands
<1> QED BY <1>5, <1>8

LEMMA TranslateOK ==
  ASSUME Inv, NEW errors \in BOOLEAN, Translate(errors)
  PROVE  Inv'
<1> DEFINE entry == [errors |-> errors, refers |-> command.refers]
<1>1. /\ command \in Commands /\ command.todo # << >> /\ command.refers \in UniformReferences
      /\ writing = NotWriting /\ Len(made) < MaxTranslations
      /\ made' = Append(made, entry) /\ writing' = [n |-> Len(made) + 1, k |-> 1]
      /\ UNCHANGED <<disk, command>>
  BY DEF Translate, Translating, Running, Inv, Typed, Commands
<1>2. entry \in [errors : BOOLEAN, refers : UniformReferences]
  BY <1>1
<1> HIDE DEF entry
<1>3. /\ made' \in Seq([errors : BOOLEAN, refers : UniformReferences])
      /\ Len(made') = Len(made) + 1 /\ Len(made) \in Nat
  BY <1>1, <1>2 DEF Inv, Typed
<1>4. /\ writing' \in [n : 1 .. MaxTranslations, k : 1 .. 6]
      /\ writing'.n = Len(made) + 1 /\ writing'.k = 1
  BY <1>1, <1>3, OutputsAssumption DEF OutputsAssumption
<1>5. \A s \in Stems, f \in Files : disk[s][f] \in 0 .. Torn
  BY DEF Inv, Typed
<1>6. Torn \in Nat /\ Torn > MaxTranslations /\ MaxTranslations \in Nat
  BY OutputsAssumption DEF OutputsAssumption, Torn
<1>7. \A s \in Stems, f \in Files : disk[s][f] <= Len(made) \/ disk[s][f] = Torn
  BY DEF Inv, InOrder
<1>8. InOrder'
  <2>1. \A s \in Stems, f \in Files : disk[s][f] # Len(made) + 1
    BY <1>1, <1>3, <1>5, <1>6, <1>7
  <2>2. \A s \in Stems, f \in Files : disk[s][f] <= Len(made) + 1 \/ disk[s][f] = Torn
    BY <1>3, <1>5, <1>7
  <2>3. \A s \in Stems, j \in 1 .. 5 :
          disk'[s][FileOrder[j]] # writing'.n /\ ~ (j < writing'.k)
    BY <1>1, <1>4, <2>1, FilesInOrder
  <2> QED BY <1>1, <1>3, <1>4, <2>2, <2>3 DEF InOrder, Torn
<1>9. Typed' /\ ArtifactSeals'
  BY <1>1, <1>3, <1>4 DEF Inv, Typed, ArtifactSeals, Torn
<1> QED BY <1>8, <1>9 DEF Inv

\* The file at the writing position becomes c: the module's own, or torn.
LEMMA WriteToOK ==
  ASSUME Inv, writing # NotWriting, writing.k <= Len(FileOrder),
         NEW c \in {writing.n, Torn}, WriteTo(c), UNCHANGED made,
         \/ c = writing.n /\ writing' = [writing EXCEPT !.k = writing.k + 1]
              /\ UNCHANGED command
         \/ c = Torn /\ Aborted
  PROVE  Inv'
<1> DEFINE file == FileOrder[writing.k]
           stem == Stem(Path)
<1>1. /\ writing.n \in 1 .. MaxTranslations /\ writing.k \in 1 .. 5
      /\ writing.n = Len(made) /\ command \in Commands /\ command.todo # << >>
      /\ writing \in [n : 1 .. MaxTranslations, k : 1 .. 6]
  BY FilesInOrder DEF Inv, Typed, InOrder
<1>2. Torn = MaxTranslations + 1 /\ MaxTranslations \in Nat /\ Len(made) \in Nat
  BY OutputsAssumption DEF OutputsAssumption, Torn, Inv, Typed
<1>3. file \in Files /\ c \in 0 .. Torn
  BY <1>1, <1>2, FilesInOrder
<1>4. disk \in [Stems -> [Files -> 0 .. Torn]]
  BY DEF Inv, Typed
<1>5. disk' = [disk EXCEPT ![stem][file] = c]
  BY DEF WriteTo
<1>6. /\ writing' \in [n : 1 .. MaxTranslations, k : 1 .. 6] \/ writing' = NotWriting
      /\ command' = Idle \/ command' = command
      /\ writing' # NotWriting => command' = command
  BY <1>1 DEF Aborted
<1>7. \A j \in 1 .. 5 : FileOrder[j] \in Files /\ (FileOrder[j] = file <=> j = writing.k)
  BY <1>1, FilesInOrder
<1> HIDE DEF file
<1>8. /\ disk' \in [Stems -> [Files -> 0 .. Torn]]
      /\ \A s \in Stems, f \in Files :
           disk'[s][f] = IF s = stem /\ f = file THEN c ELSE disk[s][f]
  BY <1>3, <1>4, <1>5
<1>9. Typed'
  BY <1>6, <1>8 DEF Inv, Typed, Torn
<1>10. \A s \in Stems, j \in 1 .. 5 :
         disk[s][FileOrder[j]] = writing.n <=> s = stem /\ j < writing.k
  BY DEF Inv, InOrder
<1>11. \A s \in Stems, f \in Files : disk'[s][f] <= Len(made) \/ disk'[s][f] = Torn
  <2>1. \A s \in Stems, f \in Files : disk[s][f] <= Len(made) \/ disk[s][f] = Torn
    BY DEF Inv, InOrder
  <2>2. c <= Len(made) \/ c = Torn
    BY <1>1, <1>2
  <2> QED BY <1>8, <2>1, <2>2
<1>12. InOrder'
  <2>1. ASSUME writing' # NotWriting
        PROVE  \A s \in Stems, j \in 1 .. 5 :
                 disk'[s][FileOrder[j]] = writing'.n <=> s = stem /\ j < writing'.k
    <3>1. c = writing.n /\ writing'.n = writing.n /\ writing'.k = writing.k + 1
      BY <1>1, <2>1 DEF Aborted
    <3> TAKE s \in Stems, j \in 1 .. 5
    <3>2. FileOrder[j] \in Files /\ (FileOrder[j] = file <=> j = writing.k)
      BY <1>7
    <3>3. disk[s][FileOrder[j]] = writing.n <=> s = stem /\ j < writing.k
      BY <1>10
    <3>4. disk'[s][FileOrder[j]] = IF s = stem /\ j = writing.k THEN c
                                                              ELSE disk[s][FileOrder[j]]
      BY <1>8, <3>2
    <3>5. j <= writing.k <=> j = writing.k \/ j < writing.k
      BY <1>1
    <3>6. j < writing.k + 1 <=> j <= writing.k
      BY <1>1
    <3> HIDE DEF stem
    <3> QED BY <3>1, <3>3, <3>4, <3>5, <3>6
  <2>2. writing' # NotWriting => writing'.n = Len(made)
    BY <1>1 DEF Aborted
  <2> QED BY <1>1, <1>6, <1>11, <2>1, <2>2 DEF InOrder, Torn, Path
<1>13. ArtifactSeals'
  <2> SUFFICES ASSUME NEW s \in Stems
               PROVE  LET d == disk'[s]
                      IN /\ d["python"] \in 1 .. MaxTranslations /\ d["artifact"] = d["python"]
                              => d["metadata"] = d["python"] /\ d["source_map"] = d["python"]
                         /\ d["python"] \in 1 .. MaxTranslations /\ d["coverage"] = d["python"]
                              => \A f \in Files : d[f] = d["python"]
    BY DEF ArtifactSeals
  <2>1. CASE s # stem
    BY <1>8, <2>1, SMTT(30) DEF Inv, ArtifactSeals, Files
  <2>2. CASE s = stem
    <3>1. /\ disk[s]["python"] = writing.n <=> 1 < writing.k
          /\ disk[s]["metadata"] = writing.n <=> 2 < writing.k
          /\ disk[s]["source_map"] = writing.n <=> 3 < writing.k
          /\ disk[s]["artifact"] = writing.n <=> 4 < writing.k
          /\ disk[s]["coverage"] # writing.n
      BY <1>1, <1>10, <2>2, FilesInOrder
    <3>2. \A f \in Files : disk'[s][f] = IF f = file THEN c ELSE disk[s][f]
      BY <1>8, <2>2
    <3>3. /\ file = "python" <=> writing.k = 1
          /\ file = "metadata" <=> writing.k = 2
          /\ file = "source_map" <=> writing.k = 3
          /\ file = "artifact" <=> writing.k = 4
          /\ file = "coverage" <=> writing.k = 5
      BY <1>7, FilesInOrder
    <3>4. c # Torn => c = writing.n
      OBVIOUS
    <3>5. Torn \notin 1 .. MaxTranslations
      BY <1>2
    <3> QED BY <1>1, <3>1, <3>2, <3>3, <3>4, <3>5 DEF Files
  <2> QED BY <2>1, <2>2
<1> QED BY <1>9, <1>12, <1>13 DEF Inv

LEMMA StepOK ==
  ASSUME Inv, [OutputsNext]_vars
  PROVE  Inv'
<1>0. Idle \notin Commands
  <2>1. Idle.kind = "none" /\ \A c \in Commands : c.kind # "none"
    BY DEF Idle, Commands
  <2> QED BY <2>1
<1>1. CASE CallTranslateAst \/ CallTranslate \/ CallTranslateMany
  <2>1. writing = NotWriting
    BY <1>0, <1>1 DEF CallTranslateAst, CallTranslate, CallTranslateMany, Called, Inv, InOrder
  <2>2. FromCommandLine \subseteq Requests /\ \A i \in Inputs : <<i>> \in Seq(Inputs)
    BY DEF FromCommandLine
  <2>3. Queues \subseteq Seq(Inputs)
    BY OutputsAssumption DEF OutputsAssumption
  <2>4. \E kind \in {"api", "translate", "many"}, args \in Seq(Inputs), r \in Requests :
          Called(kind, args, r)
    BY <1>1, <2>2, <2>3 DEF CallTranslateAst, CallTranslate, CallTranslateMany
  <2> QED BY <2>1, <2>4, CalledOK
<1>2. CASE Refuse
  <2>1. command \in Commands /\ writing = NotWriting /\ command.todo # << >>
    BY <1>2 DEF Refuse, Translating, Running, Inv, Typed
  <2>2. 0 \in 0 .. MaxTranslations
    BY OutputsAssumption DEF OutputsAssumption
  <2>3. (command' = Idle \/ command' \in Commands) /\ writing' = NotWriting
    BY <1>2, <2>1, <2>2, EnteredOK DEF Refuse, Aborted
  <2> QED BY <1>2, <2>3, QuietOK DEF Refuse
<1>3. CASE Break
  BY <1>3, QuietOK DEF Break, Aborted
<1>4. CASE \E errors \in BOOLEAN : Translate(errors)
  BY <1>4, TranslateOK
<1>5. CASE Write
  BY <1>5, WriteToOK DEF Write
<1>6. CASE WriteRaises
  BY <1>6, QuietOK, WriteToOK DEF WriteRaises, Aborted
<1>7. CASE Written
  <2>1. /\ command \in Commands /\ command.todo # << >> /\ writing.n = Len(made)
        /\ writing.n \in 1 .. MaxTranslations
    BY <1>7 DEF Written, Inv, Typed, InOrder
  <2>2. made[writing.n].errors \in BOOLEAN
    BY <2>1, MadeTyped DEF Inv, Typed
  <2>3. writing.n \in 0 .. MaxTranslations /\ (~ made[writing.n].errors) \in BOOLEAN
    BY <2>1
  <2>4. command' \in Commands
    BY <1>7, <2>1, <2>3, EnteredOK DEF Written
  <2> QED BY <1>7, <2>4, QuietOK DEF Written
<1>8. CASE Return
  <2>1. writing = NotWriting
    BY <1>8 DEF Return, Inv, InOrder
  <2> QED BY <1>8, <2>1, QuietOK DEF Return
<1>9. CASE UNCHANGED vars
  BY <1>9 DEF vars, Inv, Typed, InOrder, ArtifactSeals, Path
<1> QED BY <1>1, <1>2, <1>3, <1>4, <1>5, <1>6, <1>7, <1>8, <1>9 DEF OutputsNext

LEMMA InitOK == OutputsInit => Inv
<1> SUFFICES ASSUME OutputsInit
             PROVE  Inv
  OBVIOUS
<1>1. /\ disk = [s \in Stems |-> [f \in Files |-> 0]] /\ made = << >>
      /\ command = Idle /\ writing = NotWriting
  BY DEF OutputsInit
<1>2. MaxTranslations \in Nat /\ Torn = MaxTranslations + 1
  BY OutputsAssumption DEF OutputsAssumption, Torn
<1>3. made \in Seq([errors : BOOLEAN, refers : UniformReferences]) /\ Len(made) = 0
  BY <1>1
<1>4. Typed
  BY <1>1, <1>2, <1>3 DEF Typed
<1>5. \A s \in Stems, f \in Files : disk[s][f] = 0
  BY <1>1
<1>6. InOrder
  BY <1>1, <1>3, <1>5 DEF InOrder
<1>7. ArtifactSeals
  BY <1>2, <1>5 DEF ArtifactSeals, Files
<1> QED BY <1>4, <1>6, <1>7 DEF Inv
-----------------------------------------------------------------------------
(* What a command has been through, and what it reports.                   *)

\* One entry for each input that the command is through with, in order; has_error
\* is set exactly if one of them is not ok.
Progressed(c) ==
  /\ Len(c.args) = Len(c.modules) + Len(c.todo)
  /\ \A j \in 1 .. Len(c.modules) : c.modules[j].input = c.args[j]
  /\ \A j \in 1 .. Len(c.todo) : c.todo[j] = c.args[Len(c.modules) + j]
  /\ c.has_error <=> \E j \in 1 .. Len(c.modules) : ~ c.modules[j].ok

\* Entry j is the last of ms that wrote files for s.
WroteFor(ms, s, j) == Stem(ms[j].input) = s /\ ms[j].n > 0
IsLatest(ms, s, j) ==
  WroteFor(ms, s, j) /\ \A i \in 1 .. Len(ms) : WroteFor(ms, s, i) => i <= j

OnDisk(d, ms, s) ==
  \A j \in 1 .. Len(ms) : IsLatest(ms, s, j) => \A f \in Files : d[s][f] = ms[j].n

\* The files of every entry are on disk until a later input of that name is written.
Through ==
  /\ command \in Commands =>
       /\ Progressed(command) /\ report = NoReport
       /\ \A s \in Stems :
            writing = NotWriting \/ s # Stem(Path) => OnDisk(disk, command.modules, s)
  /\ report # NoReport =>
       /\ Len(report.modules) \in Nat /\ Len(report.modules) = Len(report.args)
       /\ \A j \in 1 .. Len(report.modules) : report.modules[j].n \in Nat
       /\ report.ok <=> \A j \in 1 .. Len(report.modules) : report.modules[j].ok
       /\ \A s \in Stems : OnDisk(disk, report.modules, s)

LEMMA IdleIsNoCommand == Idle \notin Commands
<1>1. Idle.kind = "none" /\ \A c \in Commands : c.kind # "none"
  BY DEF Idle, Commands
<1> QED BY <1>1

LEMMA CalledThrough ==
  ASSUME Inv, NEW kind \in {"api", "translate", "many"}, NEW args \in Seq(Inputs),
         NEW r \in Requests, Called(kind, args, r)
  PROVE  Through'
<1>1. /\ command'.args = args /\ command'.todo = args /\ command'.modules = << >>
      /\ command'.has_error = FALSE /\ report' = NoReport
  BY DEF Called
<1>2. Len(args) \in Nat /\ Len(<< >>) = 0
  OBVIOUS
<1>3. Progressed(command')
  BY <1>1, <1>2 DEF Progressed
<1>4. \A s \in Stems : OnDisk(disk', command'.modules, s)
  BY <1>1, <1>2 DEF OnDisk
<1> QED BY <1>1, <1>3, <1>4 DEF Through

\* What Entered does to each field of the command.
LEMMA EnteredFields ==
  ASSUME Inv, command \in Commands, command.todo # << >>,
         NEW n \in 0 .. MaxTranslations, NEW ok \in BOOLEAN, Entered(n, ok)
  PROVE  /\ command'.args = command.args /\ command'.kind = command.kind
         /\ command'.todo = Tail(command.todo)
         /\ command'.has_error = (command.has_error \/ ~ ok)
         /\ command'.modules =
              Append(command.modules, [input |-> Path, n |-> n, ok |-> ok])
<1> DEFINE todo == Tail(command.todo)
           has_error == command.has_error \/ ~ ok
           modules == Append(command.modules, [input |-> Path, n |-> n, ok |-> ok])
<1>1. command' = [command EXCEPT !.todo = todo, !.has_error = has_error,
                                 !.modules = modules]
  BY DEF Entered, HasError
<1> HIDE DEF todo, has_error, modules
<1>2. /\ command'.args = command.args /\ command'.kind = command.kind
      /\ command'.todo = todo /\ command'.has_error = has_error
      /\ command'.modules = modules
  BY <1>1 DEF Commands
<1> QED BY <1>2 DEF todo, has_error, modules

\* A command is through with one more input: it has written the files of n, or
\* none (n = 0).
LEMMA EnteredThrough ==
  ASSUME Inv, Through, command \in Commands, command.todo # << >>,
         NEW n \in 0 .. MaxTranslations, NEW ok \in BOOLEAN, Entered(n, ok),
         UNCHANGED <<disk, report>>,
         n = 0 => writing = NotWriting,
         n # 0 => \A f \in Files : disk[Stem(Path)][f] = n
  PROVE  Through'
<1> DEFINE ms == command.modules
           entry == [input |-> Path, n |-> n, ok |-> ok]
           L == Len(ms)
           Made == Entry
<1>1. /\ ms \in Seq(Made) /\ command.todo \in Seq(Inputs) /\ command.args \in Seq(Inputs)
      /\ command.has_error \in BOOLEAN
  BY DEF Commands
<1>2. /\ command'.args = command.args /\ command'.todo = Tail(command.todo)
      /\ command'.has_error = (command.has_error \/ ~ ok)
      /\ command'.modules = Append(ms, entry)
  BY EnteredFields
<1>3. /\ entry.input = Path /\ entry.n = n /\ entry.ok = ok
      /\ n \in Nat
  BY OutputsAssumption DEF OutputsAssumption
<1>4. Path = command.todo[1]
  BY <1>1 DEF Path
<1> HIDE DEF entry, Made
<1>5. /\ L \in Nat /\ Len(command'.modules) = L + 1
      /\ \A j \in 1 .. L : command'.modules[j] = ms[j]
      /\ command'.modules[L + 1] = entry
  BY <1>1, <1>2
<1>6. /\ Len(command.todo) \in Nat \ {0}
      /\ Len(command'.todo) = Len(command.todo) - 1
      /\ \A j \in 1 .. Len(command.todo) - 1 : command'.todo[j] = command.todo[j + 1]
  BY <1>1, <1>2, HeadTailProperties
<1>7. Progressed(command)
  BY DEF Through
<1> HIDE DEF ms, L
<1>8. Progressed(command')
  <2>1. Len(command'.args) = Len(command'.modules) + Len(command'.todo)
    <3>1. Len(command.args) = L + Len(command.todo)
      BY <1>7 DEF Progressed, ms, L
    <3>2. L \in Nat /\ Len(command'.modules) = L + 1
      BY <1>5
    <3>3. Len(command.todo) \in Nat \ {0} /\ Len(command'.todo) = Len(command.todo) - 1
      BY <1>6
    <3>4. Len(command'.args) = Len(command.args)
      BY <1>2
    <3> DEFINE rest == Len(command.todo)
    <3>5. rest \in Nat \ {0} /\ L \in Nat /\ Len(command'.args) = L + rest
      BY <3>1, <3>2, <3>3, <3>4
    <3>6. Len(command'.modules) + Len(command'.todo) = (L + 1) + (rest - 1)
      BY <3>2, <3>3
    <3> HIDE DEF rest
    <3>7. (L + 1) + (rest - 1) = L + rest
      BY <3>5
    <3> QED BY <3>5, <3>6, <3>7, Zenon
  <2>2. \A j \in 1 .. Len(command'.modules) : command'.modules[j].input = command'.args[j]
    <3>1. Path = command.args[L + 1]
      BY <1>4, <1>5, <1>6, <1>7 DEF Progressed, ms, L
    <3>2. \A j \in 1 .. L : ms[j].input = command.args[j]
      BY <1>7 DEF Progressed, ms, L
    <3>3. \A j \in 1 .. L + 1 : j \in 1 .. L \/ j = L + 1
      BY <1>5
    <3> QED BY <1>2, <1>3, <1>5, <3>1, <3>2, <3>3
  <2>3. \A j \in 1 .. Len(command'.todo) :
          command'.todo[j] = command'.args[Len(command'.modules) + j]
    <3>1. \A j \in 1 .. Len(command.todo) : command.todo[j] = command.args[L + j]
      BY <1>7 DEF Progressed, ms, L
    <3> TAKE j \in 1 .. Len(command'.todo)
    <3>2. /\ j + 1 \in 1 .. Len(command.todo) /\ L + (j + 1) = (L + 1) + j
          /\ j \in 1 .. Len(command.todo) - 1
      BY <1>5, <1>6
    <3> QED BY <1>2, <1>5, <1>6, <3>1, <3>2
  <2>4. command'.has_error <=> \E j \in 1 .. Len(command'.modules) : ~ command'.modules[j].ok
    <3>1. command.has_error <=> \E j \in 1 .. L : ~ ms[j].ok
      BY <1>7 DEF Progressed, ms, L
    <3>2. \A j \in 1 .. L + 1 : j \in 1 .. L \/ j = L + 1
      BY <1>5
    <3>3. 1 .. L \subseteq 1 .. L + 1 /\ L + 1 \in 1 .. L + 1
      BY <1>5
    <3> QED BY <1>2, <1>3, <1>5, <3>1, <3>2, <3>3
  <2> QED BY <2>1, <2>2, <2>3, <2>4 DEF Progressed
<1>9. ASSUME NEW s \in Stems
      PROVE  OnDisk(disk', command'.modules, s)
  <2> SUFFICES ASSUME NEW j \in 1 .. L + 1, IsLatest(command'.modules, s, j)
               PROVE  \A f \in Files : disk[s][f] = command'.modules[j].n
    BY <1>5 DEF OnDisk
  <2>1. \A i \in 1 .. L : WroteFor(command'.modules, s, i) <=> WroteFor(ms, s, i)
    BY <1>5 DEF WroteFor
  <2>2. WroteFor(command'.modules, s, L + 1) <=> Stem(Path) = s /\ n > 0
    BY <1>3, <1>5 DEF WroteFor
  <2>3. CASE j = L + 1
    BY <1>3, <1>5, <2>2, <2>3 DEF IsLatest
  <2>4. CASE j \in 1 .. L
    <3>1. ~ (Stem(Path) = s /\ n > 0)
      BY <1>5, <2>2, <2>4 DEF IsLatest
    <3>2. IsLatest(ms, s, j)
      BY <1>5, <2>1, <2>4 DEF IsLatest, L
    <3>3. writing = NotWriting \/ s # Stem(Path)
      BY <1>3, <3>1
    <3>4. OnDisk(disk, ms, s)
      BY <3>3 DEF Through, ms
    <3> QED BY <1>5, <2>4, <3>2, <3>4 DEF OnDisk, L
  <2> QED BY <1>5, <2>3, <2>4
<1>10. report = NoReport
  BY DEF Through
<1> QED BY <1>8, <1>9, <1>10 DEF Through

\* The file being written is of the module name that is suspended.
LEMMA WriteThrough ==
  ASSUME Inv, Through, writing # NotWriting, writing.k <= Len(FileOrder), NEW c,
         disk' = disk \/ WriteTo(c), UNCHANGED report,
         \/ UNCHANGED command /\ writing' # NotWriting
         \/ Aborted
  PROVE  Through'
<1>1. command \in Commands /\ report = NoReport
  BY DEF Inv, InOrder, Through
<1>2. CASE Aborted
  BY <1>1, <1>2, IdleIsNoCommand DEF Aborted, Through
<1>3. CASE UNCHANGED command /\ writing' # NotWriting
  <2>1. \A s \in Stems : s # Stem(Path) => disk'[s] = disk[s]
    BY DEF WriteTo, Inv, Typed
  <2>2. \A s \in Stems : s # Stem(Path) => OnDisk(disk', command.modules, s)
    BY <1>1, <2>1 DEF Through, OnDisk
  <2>3. Path' = Path /\ Progressed(command)
    BY <1>1, <1>3 DEF Path, Through
  <2> QED BY <1>1, <1>3, <2>2, <2>3 DEF Through
<1> QED BY <1>2, <1>3

LEMMA ReturnThrough ==
  ASSUME Inv, Through, Return
  PROVE  Through'
<1>1. command \in Commands /\ command.todo = << >> /\ writing = NotWriting
  BY DEF Return, Running, Inv, Typed, InOrder
<1>2. /\ Progressed(command) /\ \A s \in Stems : OnDisk(disk, command.modules, s)
      /\ command' = Idle /\ disk' = disk
  BY <1>1 DEF Through, Return
<1> DEFINE Rec == [ok |-> ~ command.has_error, args |-> command.args,
                   modules |-> command.modules]
           Made == Entry
<1>3. report' = NoReport \/ report' = Rec
  BY DEF Return
<1>4. /\ command.modules \in Seq(Made) /\ command.has_error \in BOOLEAN
      /\ \A e \in Made : e.n \in Nat
  BY <1>1, OutputsAssumption DEF Commands, Entry, OutputsAssumption
<1>5. Rec.ok = (~ command.has_error) /\ Rec.args = command.args /\ Rec.modules = command.modules
  OBVIOUS
<1> HIDE DEF Rec, Made
<1>6. /\ Len(command.modules) \in Nat
      /\ \A j \in 1 .. Len(command.modules) : command.modules[j].n \in Nat
  BY <1>4
<1>7. /\ Len(command.args) = Len(command.modules)
      /\ command.has_error <=> \E j \in 1 .. Len(command.modules) : ~ command.modules[j].ok
  <2>1. Len(command.todo) = 0
    BY <1>1
  <2> QED BY <1>2, <1>6, <2>1 DEF Progressed
<1>8. CASE report' = NoReport
  BY <1>2, <1>8, IdleIsNoCommand DEF Through
<1>9. CASE report' = Rec
  <2>1. Rec.ok <=> \A j \in 1 .. Len(command.modules) : command.modules[j].ok
    BY <1>5, <1>7
  <2> QED BY <1>2, <1>5, <1>6, <1>7, <1>9, <2>1, IdleIsNoCommand DEF Through
<1> QED BY <1>3, <1>8, <1>9

LEMMA StepThrough ==
  ASSUME Inv, Through, [OutputsNext]_vars
  PROVE  Through'
<1>1. CASE CallTranslateAst \/ CallTranslate \/ CallTranslateMany
  <2>1. FromCommandLine \subseteq Requests /\ \A i \in Inputs : <<i>> \in Seq(Inputs)
    BY DEF FromCommandLine
  <2>2. Queues \subseteq Seq(Inputs)
    BY OutputsAssumption DEF OutputsAssumption
  <2>3. \E kind \in {"api", "translate", "many"}, args \in Seq(Inputs), r \in Requests :
          Called(kind, args, r)
    BY <1>1, <2>1, <2>2 DEF CallTranslateAst, CallTranslate, CallTranslateMany
  <2> QED BY <2>3, CalledThrough
<1>2. CASE Refuse
  <2>1. command \in Commands /\ writing = NotWriting /\ command.todo # << >>
    BY <1>2 DEF Refuse, Translating, Running, Inv, Typed
  <2>2. 0 \in 0 .. MaxTranslations /\ FALSE \in BOOLEAN
    BY OutputsAssumption DEF OutputsAssumption
  <2>3. CASE Entered(0, FALSE)
    <3> DEFINE zero == 0
    <3>1. zero \in 0 .. MaxTranslations /\ Entered(zero, FALSE) /\ zero = 0
      BY <2>2, <2>3
    <3>2. UNCHANGED <<disk, report>>
      BY <1>2 DEF Refuse
    <3> HIDE DEF zero
    <3> QED BY <2>1, <3>1, <3>2, EnteredThrough
  <2>4. CASE Aborted
    BY <1>2, <2>1, <2>4, IdleIsNoCommand DEF Refuse, Aborted, Through
  <2> QED BY <1>2, <2>3, <2>4 DEF Refuse
<1>3. CASE Break
  <2>1. command \in Commands
    BY <1>3 DEF Break, Translating, Running, Inv, Typed
  <2> QED BY <1>3, <2>1, IdleIsNoCommand DEF Break, Aborted, Through
<1>4. CASE \E errors \in BOOLEAN : Translate(errors)
  <2>1. UNCHANGED <<disk, command, report>> /\ writing = NotWriting
    BY <1>4 DEF Translate, Translating
  <2> QED BY <2>1 DEF Through, Path
<1>5. CASE Write
  <2>1. writing' # NotWriting
    <3>1. writing.k \in 1 .. 6 /\ writing' = [writing EXCEPT !.k = writing.k + 1]
          /\ writing \in [n : 1 .. MaxTranslations, k : 1 .. 6]
      BY <1>5 DEF Write, Inv, Typed
    <3>2. DOMAIN writing' = {"n", "k"} /\ DOMAIN NotWriting = {"n"}
      BY <3>1 DEF NotWriting
    <3> QED BY <3>2
  <2> QED BY <1>5, <2>1, WriteThrough DEF Write
<1>6. CASE WriteRaises
  BY <1>6, WriteThrough DEF WriteRaises
<1>7. CASE Written
  <2>1. /\ command \in Commands /\ command.todo # << >> /\ writing.n = Len(made)
        /\ writing.n \in 1 .. MaxTranslations /\ writing.k = 6
    BY <1>7, FilesInOrder DEF Written, Inv, Typed, InOrder
  <2>2. made[writing.n].errors \in BOOLEAN
    BY <2>1, MadeTyped DEF Inv, Typed
  <2>3. /\ writing.n \in 0 .. MaxTranslations /\ writing.n # 0
        /\ (~ made[writing.n].errors) \in BOOLEAN
    BY <2>1, <2>2
  <2>4. \A f \in Files : disk[Stem(Path)][f] = writing.n
    <3>1. Stem(Path) \in Stems
      BY <2>1, OutputsAssumption DEF OutputsAssumption, Commands, Path
    <3>2. \A j \in 1 .. 5 : disk[Stem(Path)][FileOrder[j]] = writing.n
      BY <1>7, <2>1, <3>1 DEF Written, Inv, InOrder
    <3> QED BY <3>2, FilesInOrder
  <2>5. Entered(writing.n, ~ made[writing.n].errors) /\ UNCHANGED <<disk, report>>
    BY <1>7 DEF Written
  <2> QED BY <2>1, <2>3, <2>4, <2>5, EnteredThrough
<1>8. CASE Return
  BY <1>8, ReturnThrough
<1>9. CASE UNCHANGED vars
  BY <1>9 DEF vars, Through, Path
<1> QED BY <1>1, <1>2, <1>3, <1>4, <1>5, <1>6, <1>7, <1>8, <1>9 DEF OutputsNext

\* A set of positions has a last one.
LEMMA HasLast ==
  ASSUME NEW n \in Nat, NEW S, S \subseteq 1 .. n, S # {}
  PROVE  \E j \in S : \A i \in S : i <= j
<1> DEFINE T == {n - j : j \in S}
<1>1. T \subseteq Nat /\ T # {}
  <2>1. \A j \in S : j \in Int /\ n - j \in Nat
    OBVIOUS
  <2> QED BY <2>1
<1>2. \E x \in T : \A y \in T : ~ (<<y, x>> \in OpToRel(<, Nat))
  <2> HIDE DEF T
  <2> QED BY <1>1, WFMin, NatLessThanWellFounded, Zenon
<1>3. PICK x \in T : \A y \in T : ~ (y < x)
  <2>1. \A x, y \in T : y < x => <<y, x>> \in OpToRel(<, Nat)
    BY <1>1, Zenon DEF OpToRel
  <2> QED BY <1>2, <2>1
<1>4. PICK j \in S : x = n - j
  OBVIOUS
<1>5. \A i \in S : ~ (n - i < n - j)
  BY <1>3, <1>4
<1> QED BY <1>5

\* The report's promise, from what every entry promises.
LEMMA ThroughReport ==
  ASSUME Through
  PROVE  ReportTrue
<1> SUFFICES ASSUME report # NoReport, NEW s \in Stems, LastFor(s) > 0
             PROVE  \A f \in Files : disk[s][f] = LastFor(s)
  BY DEF Through, ReportTrue
<1> DEFINE ms == report.modules
           js == {j \in 1 .. Len(ms) : Stem(ms[j].input) = s /\ ms[j].n > 0}
           last == CHOOSE j \in js : \A i \in js : i <= j
<1>1. LastFor(s) = IF js = {} THEN 0 ELSE ms[last].n
  BY DEF LastFor
<1>2. js # {}
  BY <1>1
<1>3. Len(ms) \in Nat /\ js \subseteq 1 .. Len(ms)
  BY DEF Through
<1>4. \E j \in js : \A i \in js : i <= j
  <2> HIDE DEF js, ms
  <2> QED BY <1>2, <1>3, HasLast
<1>5. last \in js /\ \A i \in js : i <= last
  <2> HIDE DEF js
  <2> QED BY <1>4
<1> HIDE DEF last
<1>6. last \in 1 .. Len(ms) /\ IsLatest(ms, s, last)
  BY <1>5 DEF IsLatest, WroteFor
<1>7. OnDisk(disk, ms, s)
  BY DEF Through
<1> QED BY <1>1, <1>2, <1>6, <1>7 DEF OnDisk

LEMMA ThroughTyped ==
  ASSUME Inv, Through
  PROVE  OutputsTypeOK
<1>1. writing = NotWriting \/ (writing.n = Len(made) /\ writing.k \in 1 .. 6)
  BY DEF Inv, Typed, InOrder
<1>2. writing # NotWriting => Running /\ command.todo # << >>
  BY IdleIsNoCommand DEF Inv, InOrder, Running
<1>3. ASSUME Running
      PROVE  /\ command.kind \in {"api", "translate", "many"}
             /\ \A j \in 1 .. Len(command.modules) :
                  /\ command.modules[j] \in Entry
                  /\ command.modules[j].input = command.args[j]
             /\ command.args = Taken(command.args, Len(command.modules)) \o command.todo
  <2> DEFINE Made == Entry
             L == Len(command.modules)
             done == SubSeq(command.args, 1, L)
  <2>1. command \in Commands /\ Progressed(command)
    BY <1>3 DEF Running, Inv, Typed, Through
  <2>2. /\ command.kind \in {"api", "translate", "many"}
        /\ command.modules \in Seq(Made) /\ command.args \in Seq(Inputs)
        /\ command.todo \in Seq(Inputs)
    BY <2>1 DEF Commands
  <2> HIDE DEF Made
  <2>3. L \in Nat /\ \A j \in 1 .. L : command.modules[j] \in Made
    BY <2>2
  <2>4. Len(command.todo) \in Nat /\ Len(command.args) = L + Len(command.todo)
    BY <2>1, <2>2 DEF Progressed
  <2> HIDE DEF L
  <2>5. \A j \in 1 .. L : command.args[j] \in Inputs
    <3>1. \A j \in 1 .. Len(command.args) : command.args[j] \in Inputs
      BY <2>2
    <3>2. 1 .. L \subseteq 1 .. Len(command.args)
      BY <2>3, <2>4
    <3> QED BY <3>1, <3>2
  <2>6. /\ done \in Seq(Inputs) /\ Len(done) = L
        /\ \A j \in 1 .. L : done[j] = command.args[j]
    BY <2>3, <2>5, SubSeqProperties
  <2> HIDE DEF done
  <2> DEFINE todo == command.todo
             joined == done \o todo
  <2>7. /\ joined \in Seq(Inputs)
        /\ Len(joined) = L + Len(todo)
        /\ \A j \in 1 .. L + Len(todo) :
             joined[j] = IF j <= L THEN done[j] ELSE todo[j - L]
    <3>1. todo \in Seq(Inputs)
      BY <2>2
    <3> HIDE DEF todo
    <3>2. /\ joined \in Seq(Inputs)
          /\ Len(joined) = Len(done) + Len(todo)
          /\ \A j \in 1 .. Len(done) + Len(todo) :
               joined[j] = IF j <= Len(done) THEN done[j] ELSE todo[j - Len(done)]
      BY <2>6, <3>1, ConcatProperties
    <3> QED BY <2>6, <3>2
  <2>8. \A j \in 1 .. Len(todo) : todo[j] = command.args[L + j]
    BY <2>1 DEF Progressed, L
  <2>9. Len(command.args) = L + Len(todo) /\ Len(todo) \in Nat
    BY <2>4
  <2> HIDE DEF todo, joined
  <2>10. \A j \in 1 .. Len(command.args) : command.args[j] = joined[j]
    <3> TAKE j \in 1 .. Len(command.args)
    <3>1. CASE j <= L
      BY <2>3, <2>6, <2>7, <2>9, <3>1
    <3>2. CASE j > L
      <4>1. j - L \in 1 .. Len(todo) /\ L + (j - L) = j
        BY <2>3, <2>9, <3>2
      <4>2. todo[j - L] = command.args[j]
        BY <2>8, <4>1
      <4>3. joined[j] = todo[j - L]
        BY <2>3, <2>7, <2>9, <3>2
      <4> QED BY <4>2, <4>3
    <3> QED BY <2>3, <2>9, <3>1, <3>2
  <2>11. command.args = joined
    BY <2>2, <2>7, <2>9, <2>10, SeqEqual
  <2> QED BY <2>1, <2>2, <2>3, <2>11 DEF Progressed, Taken, joined, todo, done, L, Made
<1> QED BY <1>1, <1>2, <1>3 DEF OutputsTypeOK, Inv, Typed
-----------------------------------------------------------------------------
(* The theorems.                                                           *)

\* The inductive invariant: what is on disk, made and being written, in every state.
THEOREM OutputsInvariant == OutputsSpec => []Inv
<1>1. OutputsInit => Inv
  BY InitOK
<1>2. Inv /\ [OutputsNext]_vars => Inv'
  BY StepOK
<1> QED BY <1>1, <1>2, PTL DEF OutputsSpec

\* Whenever module and artifact on disk are of one translation, its metadata and its
\* source map are too, whatever failed on the way (result.py, TranslationResult.write).
THEOREM FilesAreSealed == OutputsSpec => []ArtifactSeals
<1>1. Inv => ArtifactSeals
  BY DEF Inv
<1> QED BY <1>1, OutputsInvariant, PTL

\* No artifact mixes verified references with unverified ones (artifact.py,
\* build_generated_artifact_v2).
THEOREM ReferencesAllOrNothing == OutputsSpec => []AllOrNothing
<1>1. Inv => AllOrNothing
  BY MadeTyped DEF AllOrNothing, UniformReferences, Uniform
<1> QED BY <1>1, OutputsInvariant, PTL
\* A command's entries are those of the inputs that it is through with, in order, and
\* has_error and the report follow from them.
THEOREM CommandsInOrder == OutputsSpec => [](Inv /\ Through)
<1>1. OutputsInit => Inv /\ Through
  <2>1. OutputsInit => Through
    BY IdleIsNoCommand DEF OutputsInit, Through
  <2> QED BY <2>1, InitOK
<1>2. Inv /\ Through /\ [OutputsNext]_vars => Inv' /\ Through'
  BY StepOK, StepThrough
<1> QED BY <1>1, <1>2, PTL DEF OutputsSpec

\* The state is well formed, and a command has one entry for each input that it is
\* through with (cli/commands.py).
THEOREM OutputsTypeCorrect == OutputsSpec => []OutputsTypeOK
<1>1. Inv /\ Through => OutputsTypeOK
  BY ThroughTyped
<1> QED BY <1>1, CommandsInOrder, PTL

\* Whatever translate-many reports as written is on disk, and ok means that every
\* module is ok (cli/commands.py, command_translate_many).
THEOREM ReportsAreTrue == OutputsSpec => []ReportTrue
<1>1. Through => ReportTrue
  BY ThroughReport
<1> QED BY <1>1, CommandsInOrder, PTL
=============================================================================
