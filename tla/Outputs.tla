------------------------------ MODULE Outputs ------------------------------
(***************************************************************************)
(* From a translation to the files of its module: the documents that the   *)
(* generated artifact refers to (artifact.py, translate_api.py), the five  *)
(* files of a result, written one by one (result.py), and the commands     *)
(* that write them and report (cli/commands.py).  Whatever raises ends     *)
(* the command but for an AST2PythonError in translate-many.               *)
(*                                                                         *)
(* A translation is known by its number: the code, metadata, source map,   *)
(* artifact and coverage made by the n-th all are n.                       *)
(***************************************************************************)
EXTENDS Naturals, Sequences, FiniteSets

CONSTANTS
  Inputs,          \* AST files
  Stems,           \* module names
  Stem(_),         \* Path(input).stem
  Queues,          \* the argument lists of translate-many
  Requests,        \* what translate_ast is called with
  MaxTranslations  \* bound: translations

Document == {"none", "plain", "canonical", "tampered", "foreign"}
Request  == [ source : {"given", "empty"}, frontend : Document, support : Document,
              ast : Document, commits : {"given", "malformed", "absent"},
              env : {"valid", "invalid", "unset"}, git : BOOLEAN ]

ASSUME OutputsAssumption ==
  /\ MaxTranslations \in Nat
  /\ Queues \subseteq Seq(Inputs) /\ Requests \subseteq Request
  /\ \A i \in Inputs : Stem(i) \in Stems

Files == {"python", "metadata", "source_map", "artifact", "coverage"}

VARIABLES
  disk,    \* per module name and file: a translation, 0 for none, or Torn
  made,    \* the translations so far: errors among the diagnostics, references
  command, \* the command in progress, or Idle
  writing, \* the result whose files are being written, or NotWriting
  report   \* what the last translate-many printed, or NoReport

vars == <<disk, made, command, writing, report>>

Torn == MaxTranslations + 1
Idle == [kind |-> "none"]
NotWriting == [n |-> 0]
NoReport   == [ok |-> FALSE, args |-> << >>, modules |-> << >>]
-----------------------------------------------------------------------------
(* build_generated_artifact_v2.                                            *)
Referred == {"frontend", "support", "ast"}

\* Documents with the schema id of the contract; those "tampered" are invalid, a
\* "foreign" frontend artifact is valid and names another support profile.
IsCanonical(d) == d \in {"canonical", "tampered", "foreign"}

\* Mutant: canonical when all documents are.
CanonicalWhenAll(r) == \A k \in Referred : IsCanonical(r[k])

CanonicalInputs(r) == \E k \in Referred : IsCanonical(r[k])

\* resolve_producer_commits: where the commits are from, or "fails".
ProducerCommits(r, canonical) ==
  CASE r.commits = "given"                         -> "given"
    [] r.commits = "malformed"                     -> "fails"
    [] r.commits = "absent" /\ r.env = "valid"     -> "env"
    [] r.commits = "absent" /\ r.env = "invalid"   -> "fails"
    [] r.commits = "absent" /\ r.env = "unset"     ->
         IF ~ canonical /\ r.git THEN "git" ELSE "fails"

\* _verified_reference_hash of the three, and the frontend's support_profile_ref.
Verifies(r) ==
  /\ r.source = "given"
  /\ r.frontend = "canonical" /\ r.support = "canonical" /\ r.ast = "canonical"

Builds(r) ==
  LET canonical == CanonicalInputs(r)
  IN /\ ProducerCommits(r, canonical) # "fails"
     /\ canonical => Verifies(r)

\* What the references of the artifact stand for: a verified document, or the
\* digest of whatever was given.  Without canonical inputs ast_hash is the digest
\* of the program.
References(r) ==
  LET canonical == CanonicalInputs(r)
  IN [ kind    |-> [k \in Referred |-> IF canonical THEN "verified"
                                       ELSE IF k = "ast" THEN "program" ELSE r[k]],
       source  |-> r.source,
       commits |-> ProducerCommits(r, canonical) ]

NoReferences == [commits |-> "fails"]
-----------------------------------------------------------------------------
(* Commands.                                                               *)
OutputsInit ==
  /\ disk = [s \in Stems |-> [f \in Files |-> 0]]
  /\ made = << >> /\ command = Idle /\ writing = NotWriting /\ report = NoReport

\* The command line passes no documents; the commits come from the environment.
FromCommandLine ==
  {r \in Requests : r.source = "empty" /\ r.commits = "absent"
                    /\ \A k \in Referred : r[k] = "none"}

Called(kind, args, r) ==
  /\ command = Idle
  /\ command' = [ kind |-> kind, args |-> args, todo |-> args, modules |-> << >>,
                  has_error |-> FALSE,
                  refers |-> IF Builds(r) THEN References(r) ELSE NoReferences ]
  /\ report' = NoReport
  /\ UNCHANGED <<disk, made, writing>>

CallTranslateAst == \E i \in Inputs, r \in Requests : Called("api", <<i>>, r)
CallTranslate == \E i \in Inputs, r \in FromCommandLine : Called("translate", <<i>>, r)
CallTranslateMany == \E q \in Queues, r \in FromCommandLine : Called("many", q, r)

Running     == command # Idle
Translating == Running /\ command.todo # << >> /\ writing = NotWriting
Path        == Head(command.todo)

\* Mutant: the last module decides.
HasErrorLast(ok) == ~ ok

HasError(ok) == command.has_error \/ ~ ok

\* Mutant: a refused input is not reported.
EnteredWritten(n, ok) ==
  command' = [command EXCEPT
    !.todo = Tail(@), !.has_error = HasError(ok),
    !.modules = IF n = 0 THEN @ ELSE Append(@, [input |-> Path, n |-> n, ok |-> ok])]

Entered(n, ok) ==
  command' = [command EXCEPT
    !.todo = Tail(@), !.has_error = HasError(ok),
    !.modules = Append(@, [input |-> Path, n |-> n, ok |-> ok])]

\* An exception other than AST2PythonError; of a single command, any exception.
Aborted == command' = Idle /\ writing' = NotWriting

\* An AST2PythonError.
Refuse ==
  /\ Translating
  /\ IF command.kind = "many" THEN Entered(0, FALSE) /\ UNCHANGED writing ELSE Aborted
  /\ UNCHANGED <<disk, made, report>>

\* No JSON, no Python, two Generated* classes, or the artifact cannot be built.
Break ==
  /\ Translating /\ Aborted
  /\ UNCHANGED <<disk, made, report>>

\* A result, with errors that a flag has overruled or without.
Translate(errors) ==
  /\ Translating /\ Len(made) < MaxTranslations /\ command.refers # NoReferences
  /\ made' = Append(made, [errors |-> errors, refers |-> command.refers])
  /\ writing' = [n |-> Len(made) + 1, k |-> 1]
  /\ UNCHANGED <<disk, command, report>>

\* Mutant: the artifact before the metadata that it vouches for.
FileOrderArtifactFirst == <<"python", "artifact", "metadata", "source_map", "coverage">>

FileOrder == <<"python", "metadata", "source_map", "artifact", "coverage">>

WriteTo(content) ==
  disk' = [disk EXCEPT ![Stem(Path)][FileOrder[writing.k]] = content]

Write ==
  /\ writing # NotWriting /\ writing.k <= Len(FileOrder)
  /\ WriteTo(writing.n)
  /\ writing' = [writing EXCEPT !.k = @ + 1]
  /\ UNCHANGED <<made, command, report>>

\* A file cannot be opened, or is cut short; or the process is killed.
WriteRaises ==
  /\ writing # NotWriting /\ writing.k <= Len(FileOrder)
  /\ UNCHANGED disk \/ WriteTo(Torn)
  /\ Aborted
  /\ UNCHANGED <<made, report>>

Written ==
  /\ writing # NotWriting /\ writing.k > Len(FileOrder)
  /\ Entered(writing.n, ~ made[writing.n].errors)
  /\ writing' = NotWriting
  /\ UNCHANGED <<disk, made, report>>

Return ==
  /\ Running /\ command.todo = << >>
  /\ command' = Idle
  /\ report' = IF command.kind = "many"
               THEN [ ok |-> ~ command.has_error, args |-> command.args,
                      modules |-> command.modules ]
               ELSE NoReport
  /\ UNCHANGED <<disk, made, writing>>

OutputsNext ==
  \/ CallTranslateAst \/ CallTranslate \/ CallTranslateMany
  \/ Refuse \/ Break \/ (\E errors \in BOOLEAN : Translate(errors))
  \/ Write \/ WriteRaises \/ Written \/ Return

OutputsSpec == OutputsInit /\ [][OutputsNext]_vars
-----------------------------------------------------------------------------
Entry == [input : Inputs, n : 0 .. MaxTranslations, ok : BOOLEAN]

Taken(s, n) == SubSeq(s, 1, n)

\* The state is well formed, and a command has one entry for each input that it is
\* through with, in order.
OutputsTypeOK ==
  /\ disk \in [Stems -> [Files -> 0 .. Torn]]
  /\ Len(made) <= MaxTranslations
  /\ writing = NotWriting \/ (writing.n = Len(made) /\ writing.k \in 1 .. 6)
  /\ writing # NotWriting => Running /\ command.todo # << >>
  /\ Running =>
       /\ command.kind \in {"api", "translate", "many"}
       /\ \A j \in 1 .. Len(command.modules) :
            command.modules[j] \in Entry /\ command.modules[j].input = command.args[j]
       /\ command.args = Taken(command.args, Len(command.modules)) \o command.todo

\* Who finds module and artifact of one translation has its metadata and its source
\* map as well, whatever failed or was killed before: the artifact vouches for the
\* parity fields of the metadata, which it has no hash of.
ArtifactSeals ==
  \A s \in Stems :
    LET d == disk[s]
    IN /\ d["python"] \in 1 .. MaxTranslations /\ d["artifact"] = d["python"]
            => d["metadata"] = d["python"] /\ d["source_map"] = d["python"]
       /\ d["python"] \in 1 .. MaxTranslations /\ d["coverage"] = d["python"]
            => \A f \in Files : d[f] = d["python"]

\* The last entry of a report that wrote files for a module name, 0 for none.
LastFor(s) ==
  LET js == {j \in 1 .. Len(report.modules) :
               Stem(report.modules[j].input) = s /\ report.modules[j].n > 0}
  IN IF js = {} THEN 0 ELSE report.modules[CHOOSE j \in js : \A i \in js : i <= j].n

\* What translate-many reports is on disk: all files of each module it names, those
\* of the last input where several have one name; and it says ok for the whole
\* exactly if every module is.
ReportTrue ==
  report # NoReport =>
    /\ Len(report.modules) = Len(report.args)
    /\ report.ok <=> \A j \in 1 .. Len(report.modules) : report.modules[j].ok
    /\ \A s \in Stems : LastFor(s) > 0 => \A f \in Files : disk[s][f] = LastFor(s)

\* An artifact refers to verified documents throughout, with the source and commits
\* that were given for it, or to none.
AllOrNothing ==
  \A n \in 1 .. Len(made) :
    LET r == made[n].refers
    IN \/ /\ \A k \in Referred : r.kind[k] = "verified"
          /\ r.source = "given" /\ r.commits \in {"given", "env"}
       \/ \A k \in Referred : r.kind[k] \in {"none", "plain", "program"}
=============================================================================
