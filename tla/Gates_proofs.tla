---------------------------- MODULE Gates_proofs ----------------------------
(***************************************************************************)
(* Proofs about Gates, for every set of features, of policies and every    *)
(* number of programs: the type invariant, that what a result says of its  *)
(* own safety is true and, when no program has one of the three features   *)
(* that the checks do not see (Seen), that no result holds what needs a    *)
(* flag without it.                                                        *)
(***************************************************************************)
EXTENDS Gates, TLAPS

\* MCGates_FailsClosed.cfg shows that FailsClosed needs it.
Seen == Features \intersect {"tick_expression", "lookalike", "dropped_request"} = {}

(***************************************************************************)
(* The inductive invariant, in parts.                                      *)
(***************************************************************************)
Tr == [ parity_safe : BOOLEAN, unsupported_features : SUBSET Gated,
        parity_risks : SUBSET Gated, diagnostics : SUBSET Diagnostics,
        aliases : BOOLEAN ]

\* A Translator names a risk exactly when it is unsafe for parity.
TrOK(t) ==
  /\ t \in Tr /\ t.unsupported_features \subseteq t.parity_risks
  /\ t.parity_safe <=> t.parity_risks = {}

Errors(t) == {d \in t.diagnostics : d.severity = "error"}

\* Parity is given up through an open flag only, and so are imports stubbed.
GivenUp(t) ==
  /\ ~ t.parity_safe => translator.allowed # {}
  /\ t.aliases => Open("library") /\ ~ t.parity_safe

Constructed ==
  /\ programs = 0 => tr = Untouched
  /\ translator # NoTranslator =>
       /\ translator.allowed \subseteq translator.given
       /\ translator.profile = "production" => translator.allowed = {}
  /\ translator = NoTranslator => programs = 0
  /\ programs > 0 => GivenUp(tr)

\* A first program in progress leaves errors only behind open flags.
FirstClean == programs = 1 /\ pc # "idle" /\ tr.parity_safe => Errors(tr) = {}

\* What a program has passed at each stage.
Through(t, f, flag) == f \in program => Open(flag) /\ ~ t.parity_safe

FrontendDone(t) ==
  /\ Through(t, "frontend_error", "invalid_ast")
  /\ "visual_error" \in program /\ translator.policy = "error" => Open("invalid_ast")
  /\ Through(t, "metadata", "contract_mismatch")
  /\ "gate" \in program =>
       (Open("invalid_ast") \/ "metadata" \in program) /\ ~ t.parity_safe
  /\ program \intersect {"frontend_error", "metadata"} # {} => Errors(t) # {}

DeclarationDone(t) ==
  /\ Through(t, "tick", "realtime") /\ Through(t, "varip", "realtime")
  /\ program \intersect {"tick", "varip"} # {} => Errors(t) # {}

CollectDone(t) == Through(t, "import", "library")

LoweredDone(t, f) ==
  /\ f = "library_call" => t.aliases
  /\ f = "request" => Open("request") /\ ~ t.parity_safe
  /\ f = "visual" => translator.policy # "error"
  /\ f \in Reviewed => ~ translator.strict

BodyDone(t, rest) == \A f \in (program \intersect InBody) \ rest : LoweredDone(t, f)

ProgressAt(t, stage, rest) ==
  /\ stage \in {"declaration", "collect", "body"} => FrontendDone(t)
  /\ stage \in {"collect", "body"} => DeclarationDone(t)
  /\ stage = "body" => CollectDone(t)
  /\ BodyDone(t, rest)

Progress == pc # "idle" => ProgressAt(tr, pc, todo)

\* Only the programs after the one of the result add diagnostics.
ResultEarlier == Returned /\ pc # "idle" => result.n < programs

Working == GatesTypeOK /\ Constructed /\ FirstClean /\ Progress /\ ResultEarlier

\* What the last result says; what it may contain holds of the features that are seen.
Truthful ==
  /\ CodegenHonest /\ ShownErrorsAreLater
  /\ Seen => FailsClosed /\ ParityHonest
-----------------------------------------------------------------------------
(* One check: from a state to an outcome.                                  *)
Outcomes == [after : Tr, raised : BOOLEAN]

\* What an outcome keeps of the state that the action began in.
Sound(s) ==
  /\ s \in Outcomes /\ TrOK(s.after) /\ GivenUp(s.after)
  /\ tr.diagnostics \subseteq s.after.diagnostics
  /\ \A d \in s.after.diagnostics : d \in tr.diagnostics \/ d.program = programs
  /\ s.after.parity_safe => tr.parity_safe
  /\ ~ s.raised /\ s.after.parity_safe /\ programs = 1 => Errors(s.after) = {}

Later(t, u) == Errors(t) \subseteq Errors(u) /\ (u.parity_safe => t.parity_safe)
                 /\ (t.aliases => u.aliases)

LEMMA Stage ==
  ASSUME Working, pc # "idle"
  PROVE  /\ programs \in 1 .. MaxPrograms /\ MaxPrograms \in Nat
         /\ translator # NoTranslator /\ translator.allowed \subseteq Flags
         /\ tr \in Tr /\ TrOK(tr) /\ GivenUp(tr)
         /\ Sound(Passed(tr)) /\ Passed(tr).after = tr /\ ~ Passed(tr).raised
<1>1. /\ programs \in 1 .. MaxPrograms /\ MaxPrograms \in Nat
      /\ translator # NoTranslator /\ translator.allowed \subseteq Flags
  BY GatesAssumption DEF Working, GatesTypeOK, GatesAssumption
<1>2. tr \in Tr /\ TrOK(tr) /\ GivenUp(tr)
  BY <1>1 DEF Working, GatesTypeOK, Tr, TrOK, Constructed
<1>3. Passed(tr).after = tr /\ ~ Passed(tr).raised /\ Passed(tr) \in Outcomes
  BY <1>2 DEF Passed, Outcomes
<1>4. tr.parity_safe /\ programs = 1 => Errors(tr) = {}
  BY DEF Working, FirstClean
<1> QED BY <1>1, <1>2, <1>3, <1>4 DEF Sound

LEMMA DiagnosedOK ==
  ASSUME NEW t, TrOK(t), programs \in 1 .. MaxPrograms,
         NEW f \in FromFrontend \union InBody \union {"tick", "varip", "import"},
         NEW severity \in {"error", "warning"}
  PROVE  LET u == Diagnosed(t, f, severity)
         IN /\ TrOK(u) /\ u.parity_safe = t.parity_safe /\ u.aliases = t.aliases
            /\ \E d : d.severity = severity /\ d.program = programs
                      /\ u.diagnostics = t.diagnostics \union {d}
<1> DEFINE d == [of |-> f, severity |-> severity, program |-> programs]
           u == [t EXCEPT !.diagnostics = t.diagnostics \union {d}]
<1>1. d \in Diagnostics /\ d.severity = severity /\ d.program = programs
  BY DEF Diagnostics
<1> HIDE DEF d
<1>2. /\ u.diagnostics = t.diagnostics \union {d} /\ u \in Tr
      /\ u.parity_safe = t.parity_safe /\ u.aliases = t.aliases
      /\ u.parity_risks = t.parity_risks
      /\ u.unsupported_features = t.unsupported_features
  BY <1>1 DEF TrOK, Tr
<1>3. u = Diagnosed(t, f, severity)
  BY DEF Diagnosed, d
<1> HIDE DEF u
<1> QED BY <1>1, <1>2, <1>3 DEF TrOK

LEMMA CrossedOK ==
  ASSUME NEW t, TrOK(t), NEW f \in Gated, NEW recorded \in BOOLEAN
  PROVE  LET u == Crossed(t, f, recorded)
         IN /\ TrOK(u) /\ ~ u.parity_safe /\ u.diagnostics = t.diagnostics
            /\ u.aliases = t.aliases
<1> DEFINE a == t.parity_risks \union {f}
           b == t.unsupported_features \union (IF recorded THEN {f} ELSE {})
           t1 == [t EXCEPT !.parity_safe = FALSE]
           t2 == [t1 EXCEPT !.parity_risks = a]
           u == [t2 EXCEPT !.unsupported_features = b]
<1>1. a \in SUBSET Gated /\ b \in SUBSET Gated /\ b \subseteq a /\ a # {}
  BY DEF TrOK, Tr
<1> HIDE DEF a, b
<1>2. /\ t1 \in Tr /\ t1.diagnostics = t.diagnostics /\ ~ t1.parity_safe
      /\ t1.aliases = t.aliases
  BY DEF TrOK, Tr
<1> HIDE DEF t1
<1>3. /\ t2 \in Tr /\ t2.diagnostics = t.diagnostics /\ ~ t2.parity_safe
      /\ t2.aliases = t.aliases /\ t2.parity_risks = a
  BY <1>1, <1>2 DEF Tr
<1> HIDE DEF t2
<1>4. /\ u \in Tr /\ u.diagnostics = t.diagnostics /\ ~ u.parity_safe
      /\ u.aliases = t.aliases /\ u.parity_risks = a /\ u.unsupported_features = b
  BY <1>1, <1>3 DEF Tr
<1>5. u = Crossed(t, f, recorded)
  BY DEF Crossed, a, b, t1, t2
<1> HIDE DEF u
<1> QED BY <1>1, <1>4, <1>5 DEF TrOK

\* A check that an open flag lets through leaves an error and gives up parity.
LEMMA CheckedOK ==
  ASSUME Working, pc # "idle", NEW s, Sound(s), ~ s.raised,
         NEW f \in Gated \intersect (FromFrontend \union {"tick", "varip"}),
         NEW flag \in Flags, NEW recorded \in BOOLEAN
  PROVE  LET r == Checked(s.after, f, flag, recorded)
         IN /\ Sound(r) /\ Later(s.after, r.after)
            /\ ~ r.raised => Open(flag) /\ ~ r.after.parity_safe /\ Errors(r.after) # {}
<1> DEFINE t == Diagnosed(s.after, f, "error")
           u == Crossed(t, f, recorded)
<1>1. /\ TrOK(t) /\ t.parity_safe = s.after.parity_safe /\ t.aliases = s.after.aliases
      /\ \E d : d.severity = "error" /\ d.program = programs
                /\ t.diagnostics = s.after.diagnostics \union {d}
  BY Stage, DiagnosedOK DEF Sound
<1>2. TrOK(u) /\ ~ u.parity_safe /\ u.diagnostics = t.diagnostics /\ u.aliases = t.aliases
  BY <1>1, CrossedOK
<1> HIDE DEF t, u
<1>3. CASE Open(flag)
  <2>1. Checked(s.after, f, flag, recorded) = Passed(u)
    BY <1>3 DEF Checked, t, u
  <2>2. Passed(u).after = u /\ ~ Passed(u).raised /\ Passed(u) \in Outcomes
    BY <1>2 DEF Passed, Outcomes, TrOK
  <2>3. GivenUp(u)
    BY <1>1, <1>2, <1>3 DEF GivenUp, Sound, Open
  <2>4. Errors(s.after) \subseteq Errors(u) /\ Errors(u) # {}
    BY <1>1, <1>2 DEF Errors
  <2>5. Sound(Passed(u))
    BY <1>1, <1>2, <2>2, <2>3 DEF Sound
  <2> QED BY <1>1, <1>2, <1>3, <2>1, <2>2, <2>4, <2>5 DEF Later
<1>4. CASE ~ Open(flag)
  <2>1. Checked(s.after, f, flag, recorded) = Raised(t)
    BY <1>4 DEF Checked, t
  <2>2. Raised(t).after = t /\ Raised(t).raised /\ Raised(t) \in Outcomes
    BY <1>1 DEF Raised, Outcomes, TrOK
  <2>3. GivenUp(t)
    BY <1>1 DEF GivenUp, Sound
  <2>4. Sound(Raised(t))
    BY <1>1, <2>2, <2>3 DEF Sound
  <2> QED BY <1>1, <2>1, <2>2, <2>4 DEF Later, Errors
<1> QED BY <1>3, <1>4

LEMMA IfOK ==
  ASSUME Working, pc # "idle", NEW s, Sound(s), NEW condition \in BOOLEAN,
         NEW f \in Gated \intersect (FromFrontend \union {"tick", "varip"}),
         NEW flag \in Flags, NEW recorded \in BOOLEAN
  PROVE  LET r == If(s, condition, f, flag, recorded)
         IN /\ Sound(r) /\ Later(s.after, r.after) /\ (s.raised => r.raised)
            /\ ~ r.raised /\ condition =>
                 Open(flag) /\ ~ r.after.parity_safe /\ Errors(r.after) # {}
<1>1. CASE s.raised \/ ~ condition
  BY <1>1 DEF If, Later
<1>2. CASE ~ s.raised /\ condition
  <2>1. If(s, condition, f, flag, recorded) = Checked(s.after, f, flag, recorded)
    BY <1>2 DEF If
  <2> QED BY <1>2, <2>1, CheckedOK
<1>3. s.raised \in BOOLEAN
  BY DEF Sound, Outcomes
<1> QED BY <1>1, <1>2, <1>3
-----------------------------------------------------------------------------
(* The checks before lowering.                                             *)
LEMMA FrontendOK ==
  ASSUME Working, pc = "frontend"
  PROVE  LET r == FrontendChecked(tr)
         IN Sound(r) /\ Later(tr, r.after) /\ (~ r.raised => FrontendDone(r.after))
<1> DEFINE w == IF Ignored = {} THEN tr ELSE Diagnosed(tr, "visual_error", "warning")
           blocked == Blocking # {}
           d == If(Passed(w), blocked, "frontend_error", "invalid_ast", FALSE)
           mismatched == "metadata" \in program
           m == If(d, mismatched, "metadata", "contract_mismatch", FALSE)
           ungated == "gate" \in program /\ "metadata" \notin program
           r == If(m, ungated, "gate", "invalid_ast", FALSE)
<1>1. /\ Sound(Passed(w)) /\ Later(tr, w) /\ Passed(w).after = w /\ ~ Passed(w).raised
  <2>1. CASE Ignored = {}
    BY <2>1, Stage DEF Later
  <2>2. CASE Ignored # {}
    <3> DEFINE u == Diagnosed(tr, "visual_error", "warning")
    <3>1. /\ TrOK(u) /\ u.parity_safe = tr.parity_safe /\ u.aliases = tr.aliases
          /\ \E e : e.severity = "warning" /\ e.program = programs
                    /\ u.diagnostics = tr.diagnostics \union {e}
      BY Stage, DiagnosedOK DEF FromFrontend
    <3> HIDE DEF u
    <3>2. Passed(u).after = u /\ ~ Passed(u).raised /\ Passed(u) \in Outcomes
      BY <3>1 DEF Passed, Outcomes, TrOK
    <3>3. Errors(u) = Errors(tr)
      BY <3>1 DEF Errors
    <3>4. GivenUp(u)
      BY <3>1, Stage DEF GivenUp
    <3>5. Sound(Passed(u))
      BY <3>1, <3>2, <3>3, <3>4, Stage DEF Sound
    <3> QED BY <2>2, <3>1, <3>2, <3>3, <3>5 DEF Later, u
  <2> QED BY <2>1, <2>2
<1> HIDE DEF w
<1>2. Sound(d) /\ Later(w, d.after)
      /\ (~ d.raised /\ blocked => Open("invalid_ast") /\ ~ d.after.parity_safe
                                    /\ Errors(d.after) # {})
  BY <1>1, IfOK DEF Gated, FromFrontend, Flags
<1> HIDE DEF d
<1>3. Sound(m) /\ Later(d.after, m.after) /\ (d.raised => m.raised)
      /\ (~ m.raised /\ mismatched =>
            Open("contract_mismatch") /\ ~ m.after.parity_safe /\ Errors(m.after) # {})
  <2>1. mismatched \in BOOLEAN
    OBVIOUS
  <2> HIDE DEF mismatched
  <2> QED BY <1>2, <2>1, IfOK DEF Gated, FromFrontend, Flags
<1> HIDE DEF m
<1>4. Sound(r) /\ Later(m.after, r.after) /\ (m.raised => r.raised)
      /\ (~ r.raised /\ ungated =>
            Open("invalid_ast") /\ ~ r.after.parity_safe /\ Errors(r.after) # {})
  BY <1>3, IfOK DEF Gated, FromFrontend, Flags
<1>5. r = FrontendChecked(tr)
  BY DEF FrontendChecked, w, d, m
<1> HIDE DEF r
<1>6. "frontend_error" \in program \/ ("visual_error" \in program /\ translator.policy = "error")
      => blocked
  BY DEF Blocking, Ignored, ReadAsVisual
<1> HIDE DEF blocked
<1>7. Later(tr, r.after) /\ Later(d.after, r.after)
  BY <1>1, <1>2, <1>3, <1>4 DEF Later
<1>8. ~ r.raised => FrontendDone(r.after)
  BY <1>2, <1>3, <1>4, <1>6 DEF FrontendDone, Through, Later
<1> QED BY <1>4, <1>5, <1>7, <1>8

LEMMA DeclarationOK ==
  ASSUME Working, pc = "declaration"
  PROVE  LET r == DeclarationChecked(tr)
         IN Sound(r) /\ Later(tr, r.after) /\ (~ r.raised => DeclarationDone(r.after))
<1> DEFINE ticks == "tick" \in program
           varips == "varip" \in program
           d == If(Passed(tr), ticks, "tick", "realtime", TRUE)
           r == If(d, varips, "varip", "realtime", TRUE)
<1>0. ticks \in BOOLEAN /\ varips \in BOOLEAN
  OBVIOUS
<1> HIDE DEF ticks, varips
<1>1. Sound(d) /\ Later(tr, d.after)
      /\ (~ d.raised /\ ticks =>
            Open("realtime") /\ ~ d.after.parity_safe /\ Errors(d.after) # {})
  BY <1>0, Stage, IfOK DEF Gated, Flags
<1> HIDE DEF d
<1>2. Sound(r) /\ Later(d.after, r.after) /\ (d.raised => r.raised)
      /\ (~ r.raised /\ varips =>
            Open("realtime") /\ ~ r.after.parity_safe /\ Errors(r.after) # {})
  BY <1>0, <1>1, IfOK DEF Gated, Flags
<1>3. r = DeclarationChecked(tr)
  BY DEF DeclarationChecked, d, ticks, varips
<1> HIDE DEF r
<1> QED BY <1>1, <1>2, <1>3 DEF DeclarationDone, Through, Later, ticks, varips
-----------------------------------------------------------------------------
(* Collection and lowering.                                                *)
LEMMA DiagnosedOutcome ==
  ASSUME Working, pc # "idle",
         NEW f \in FromFrontend \union InBody \union {"tick", "varip", "import"}
  PROVE  /\ Sound(Passed(Diagnosed(tr, f, "warning")))
         /\ Later(tr, Passed(Diagnosed(tr, f, "warning")).after)
         /\ \A severity \in {"error", "warning"} :
              /\ Sound(Raised(Diagnosed(tr, f, severity)))
              /\ Raised(Diagnosed(tr, f, severity)).raised
              /\ Later(tr, Raised(Diagnosed(tr, f, severity)).after)
<1>1. ASSUME NEW severity \in {"error", "warning"}
      PROVE  LET u == Diagnosed(tr, f, severity)
             IN /\ Sound(Raised(u)) /\ Raised(u).raised /\ Later(tr, Raised(u).after)
                /\ severity = "warning" => Sound(Passed(u)) /\ Later(tr, Passed(u).after)
  <2> DEFINE u == Diagnosed(tr, f, severity)
  <2>1. /\ TrOK(u) /\ u.parity_safe = tr.parity_safe /\ u.aliases = tr.aliases
        /\ \E d : d.severity = severity /\ d.program = programs
                  /\ u.diagnostics = tr.diagnostics \union {d}
    BY Stage, DiagnosedOK
  <2> HIDE DEF u
  <2>2. /\ Raised(u).after = u /\ Raised(u).raised /\ Raised(u) \in Outcomes
        /\ Passed(u).after = u /\ ~ Passed(u).raised /\ Passed(u) \in Outcomes
    BY <2>1 DEF Raised, Passed, Outcomes, TrOK
  <2>3. GivenUp(u) /\ Later(tr, u)
    BY <2>1, Stage DEF GivenUp, Later, Errors
  <2>4. Sound(Raised(u))
    BY <2>1, <2>2, <2>3 DEF Sound
  <2>5. severity = "warning" => Errors(u) = Errors(tr)
    BY <2>1 DEF Errors
  <2>6. severity = "warning" => Sound(Passed(u))
    BY <2>1, <2>2, <2>3, <2>5, Stage DEF Sound
  <2> QED BY <2>2, <2>3, <2>4, <2>6 DEF u
<1> QED BY <1>1

LEMMA ImportOK ==
  ASSUME Working, pc = "collect"
  PROVE  LET r == IF "import" \in program THEN Imported(tr) ELSE Passed(tr)
         IN Sound(r) /\ Later(tr, r.after) /\ (~ r.raised => CollectDone(r.after))
<1>1. CASE "import" \notin program
  BY <1>1, Stage DEF Later, CollectDone, Through
<1>2. CASE "import" \in program /\ ~ Open("library")
  BY <1>2, DiagnosedOutcome DEF Imported
<1>3. CASE "import" \in program /\ Open("library")
  <2> DEFINE t == Crossed(tr, "import", TRUE)
             u == [t EXCEPT !.aliases = TRUE]
  <2>1. TrOK(t) /\ ~ t.parity_safe /\ t.diagnostics = tr.diagnostics
    BY Stage, CrossedOK DEF Gated
  <2> HIDE DEF t
  <2>2. TrOK(u) /\ ~ u.parity_safe /\ u.diagnostics = tr.diagnostics /\ u.aliases
    BY <2>1 DEF TrOK, Tr
  <2>3. Imported(tr) = Passed(u)
    BY <1>3 DEF Imported, t
  <2> HIDE DEF u
  <2>4. Passed(u).after = u /\ ~ Passed(u).raised /\ Passed(u) \in Outcomes
    BY <2>2 DEF Passed, Outcomes, TrOK
  <2>5. GivenUp(u) /\ Later(tr, u) /\ CollectDone(u)
    BY <1>3, <2>2 DEF GivenUp, Open, Later, Errors, CollectDone, Through
  <2>6. Sound(Passed(u))
    BY <2>2, <2>4, <2>5 DEF Sound
  <2> QED BY <1>3, <2>3, <2>4, <2>5, <2>6
<1> QED BY <1>1, <1>2, <1>3

LEMMA LoweredOK ==
  ASSUME Working, pc = "body", NEW f \in InBody
  PROVE  LET r == Lowered(tr, f)
         IN Sound(r) /\ Later(tr, r.after) /\ (~ r.raised => LoweredDone(r.after, f))
<1> DEFINE warned == Diagnosed(tr, f, "warning")
<1>1. Sound(Passed(tr)) /\ Later(tr, Passed(tr).after) /\ Passed(tr).after = tr
  BY Stage DEF Later
<1>2. Passed(warned).after = warned /\ warned.aliases = tr.aliases
      /\ warned.parity_safe = tr.parity_safe /\ TrOK(warned)
  BY Stage, DiagnosedOK DEF Passed
<1>3. CASE f \in Reviewed
  BY <1>3, DiagnosedOutcome DEF Lowered, Strictly, LoweredDone, Reviewed
<1>4. CASE f = "library_call"
  BY <1>2, <1>4, DiagnosedOutcome DEF Lowered, Unknown, LoweredDone, Reviewed
<1>5. CASE f = "request"
  <2>1. CASE ~ Open("request")
    BY <1>5, <2>1, DiagnosedOutcome DEF Lowered, Reviewed
  <2>2. CASE Open("request")
    <3> DEFINE u == Crossed(warned, f, TRUE)
    <3>1. TrOK(u) /\ ~ u.parity_safe /\ u.diagnostics = warned.diagnostics
          /\ u.aliases = tr.aliases
      BY <1>2, <1>5, CrossedOK DEF Gated
    <3>2. Lowered(tr, f) = Passed(u)
      BY <1>5, <2>2 DEF Lowered, Reviewed
    <3> HIDE DEF u
    <3>3. Passed(u).after = u /\ ~ Passed(u).raised /\ Passed(u) \in Outcomes
      BY <3>1 DEF Passed, Outcomes, TrOK
    <3>4. /\ tr.diagnostics \subseteq warned.diagnostics /\ Errors(tr) \subseteq Errors(u)
          /\ \A d \in warned.diagnostics : d \in tr.diagnostics \/ d.program = programs
      BY <1>2, <3>1, DiagnosedOutcome DEF Sound, Later, Errors
    <3>5. GivenUp(u)
      BY <2>2, <3>1, Stage DEF GivenUp, Open
    <3>6. Sound(Passed(u)) /\ Later(tr, u) /\ LoweredDone(u, f)
      BY <1>5, <2>2, <3>1, <3>3, <3>4, <3>5 DEF Sound, Later, LoweredDone, Reviewed
    <3> QED BY <3>2, <3>3, <3>6
  <2> QED BY <2>1, <2>2
<1>6. CASE f = "visual"
  BY <1>1, <1>6, DiagnosedOutcome DEF Lowered, LoweredDone, Reviewed
<1>7. CASE f = "lower_tf"
  BY <1>7, DiagnosedOutcome DEF Lowered, Reviewed
<1>8. CASE f = "unknown"
  BY <1>8, DiagnosedOutcome DEF Lowered, Unknown, Reviewed
<1>9. CASE f = "dropped_request"
  BY <1>1, <1>9 DEF Lowered, LoweredDone, Reviewed
<1> QED BY <1>3, <1>4, <1>5, <1>6, <1>7, <1>8, <1>9 DEF InBody

LEMMA DoneStays ==
  ASSUME NEW t, NEW u, Later(t, u)
  PROVE  /\ FrontendDone(t) => FrontendDone(u)
         /\ DeclarationDone(t) => DeclarationDone(u)
         /\ CollectDone(t) => CollectDone(u)
         /\ \A rest : BodyDone(t, rest) => BodyDone(u, rest)
<1>1. FrontendDone(t) => FrontendDone(u)
  BY DEF FrontendDone, Through, Later
<1>2. DeclarationDone(t) => DeclarationDone(u)
  BY DEF DeclarationDone, Through, Later
<1>3. CollectDone(t) => CollectDone(u)
  BY DEF CollectDone, Through, Later
<1>4. \A rest : BodyDone(t, rest) => BodyDone(u, rest)
  BY DEF BodyDone, LoweredDone, Later
<1> QED BY <1>1, <1>2, <1>3, <1>4
-----------------------------------------------------------------------------
(* The steps.                                                              *)
LEMMA ResultStays ==
  ASSUME Working, Truthful, UNCHANGED <<translator, result>>,
         \A d \in tr'.diagnostics :
           d \in tr.diagnostics \/ (Returned => d.program > result.n)
  PROVE  Truthful'
<1>1. Seen => FailsClosed'
  BY DEF Truthful, FailsClosed, Returned, NeedsFlag
<1>2. Seen => ParityHonest'
  BY DEF Truthful, ParityHonest, Returned
<1>3. CodegenHonest'
  BY DEF Truthful, CodegenHonest, Returned
<1>4. ShownErrorsAreLater'
  BY DEF Truthful, ShownErrorsAreLater, Returned
<1> QED BY <1>1, <1>2, <1>3, <1>4 DEF Truthful

LEMMA ContinueOK ==
  ASSUME Working, Truthful, pc # "idle", NEW s, Sound(s),
         NEW next \in {"declaration", "collect", "body"}, NEW rest, rest \subseteq todo,
         Continue(s, next, rest), ~ s.raised => ProgressAt(s.after, next, rest)
  PROVE  Working' /\ Truthful'
<1>1. /\ tr' = s.after /\ UNCHANGED <<translator, programs, result>>
      /\ IF s.raised THEN pc' = "idle" /\ program' = {} /\ todo' = {}
                     ELSE pc' = next /\ todo' = rest /\ UNCHANGED program
  BY DEF Continue
<1>2. s.raised \in BOOLEAN /\ tr' \in Tr /\ TrOK(tr')
  BY <1>1 DEF Sound, Outcomes
<1>3. GatesTypeOK'
  <2>1. program' \in SUBSET Features /\ todo' \subseteq program' \intersect InBody
    BY <1>1, <1>2 DEF Working, GatesTypeOK
  <2>2. /\ pc' \in {"idle", "frontend", "declaration", "collect", "body"}
        /\ pc' # "idle" => translator' # NoTranslator /\ programs' > 0
    BY <1>1, <1>2 DEF Working, GatesTypeOK
  <2>3. /\ tr'.parity_safe <=> tr'.parity_risks = {}
        /\ tr'.unsupported_features \subseteq tr'.parity_risks
    BY <1>2 DEF TrOK
  <2> QED BY <1>1, <1>2, <2>1, <2>2, <2>3 DEF Working, GatesTypeOK, Tr
<1>4. Constructed'
  <2>1. programs # 0 /\ translator # NoTranslator
    BY Stage
  <2>2. GivenUp(tr)'
    BY <1>1 DEF Sound, GivenUp, Open
  <2> QED BY <1>1, <2>1, <2>2 DEF Working, Constructed
<1>5. FirstClean'
  BY <1>1, <1>2 DEF Sound, FirstClean, Errors
<1>6. Progress'
  <2>1. CASE s.raised
    BY <1>1, <2>1 DEF Progress
  <2>2. CASE ~ s.raised
    <3>1. ProgressAt(tr', next, rest)
      BY <1>1, <2>2
    <3>2. (FrontendDone(tr') => FrontendDone(tr)') /\ (DeclarationDone(tr') => DeclarationDone(tr)')
      BY <1>1, <2>2 DEF FrontendDone, DeclarationDone, Through, Errors, Open
    <3>3. (CollectDone(tr') => CollectDone(tr)') /\ (BodyDone(tr', rest) => BodyDone(tr, todo)')
      BY <1>1, <2>2 DEF CollectDone, Through, Open, BodyDone, LoweredDone
    <3> QED BY <1>1, <2>2, <3>1, <3>2, <3>3 DEF Progress, ProgressAt
  <2> QED BY <1>2, <2>1, <2>2
<1>7. ResultEarlier'
  BY <1>1 DEF Working, ResultEarlier, Returned
<1>8. Truthful'
  <2>1. \A d \in tr'.diagnostics :
          d \in tr.diagnostics \/ (Returned => d.program > result.n)
    <3>1. Returned => result.n \in Nat /\ result.n < programs
      BY Stage DEF Working, GatesTypeOK, ResultEarlier, Returned
    <3> QED BY <1>1, <3>1, Stage DEF Sound
  <2> QED BY <1>1, <2>1, ResultStays
<1> QED BY <1>3, <1>4, <1>5, <1>6, <1>7, <1>8 DEF Working

LEMMA BeginOK ==
  ASSUME Working, Truthful, NEW p \in Programs, Begin(p)
  PROVE  Working' /\ Truthful'
<1>1. /\ translator # NoTranslator /\ pc = "idle" /\ programs < MaxPrograms
      /\ program' = p /\ todo' = p \intersect InBody /\ pc' = "frontend"
      /\ programs' = programs + 1 /\ UNCHANGED <<translator, tr, result>>
      /\ programs \in Nat /\ MaxPrograms \in Nat
  BY GatesAssumption DEF Begin, Working, GatesTypeOK, GatesAssumption
<1>2. result' = NoResult \/
      result' \in [ n : 1 .. programs', program : SUBSET Features, parity_safe : BOOLEAN,
                    unsafe : BOOLEAN, codegen_safe : BOOLEAN ]
  <2>1. 1 .. programs \subseteq 1 .. programs'
    BY <1>1
  <2> QED BY <1>1, <2>1 DEF Working, GatesTypeOK
<1>3. GatesTypeOK'
  <2>1. p \in SUBSET Features /\ programs' \in 0 .. MaxPrograms /\ programs' > 0
    BY <1>1 DEF Programs
  <2> QED BY <1>1, <1>2, <2>1 DEF Working, GatesTypeOK
<1>4. Untouched.parity_safe /\ ~ Untouched.aliases /\ Untouched.diagnostics = {}
  BY DEF Untouched
<1>5. Constructed'
  <2>1. GivenUp(tr)
    BY <1>1, <1>4 DEF Working, Constructed, GivenUp
  <2>2. GivenUp(tr)'
    BY <1>1, <2>1 DEF GivenUp, Open
  <2>3. programs' # 0
    BY <1>1
  <2> QED BY <1>1, <2>2, <2>3 DEF Working, Constructed
<1>6. FirstClean'
  <2>1. programs' = 1 => programs = 0
    BY <1>1
  <2> QED BY <1>1, <1>4, <2>1 DEF Working, Constructed, FirstClean, Errors
<1>7. Progress' /\ ResultEarlier'
  <2>1. BodyDone(tr, todo)'
    BY <1>1 DEF BodyDone
  <2>2. Progress'
    BY <1>1, <2>1 DEF Progress, ProgressAt
  <2>3. ResultEarlier'
    BY <1>1 DEF ResultEarlier, Working, GatesTypeOK, Returned
  <2> QED BY <2>2, <2>3
<1> QED BY <1>1, <1>3, <1>5, <1>6, <1>7, ResultStays DEF Working

\* A flag that is open was given; the production profile was given none.
LEMMA AllowedOK ==
  ASSUME NEW o \in Options, Accepted(o)
  PROVE  /\ Allowed(o) \subseteq o.flags /\ Allowed(o) \subseteq Flags
         /\ o.profile = "production" => Allowed(o) = {}
BY DEF Options, Accepted, Allowed

LEMMA ConstructOK ==
  ASSUME Working, Truthful, NEW o \in Options, Construct(o)
  PROVE  Working' /\ Truthful'
<1> DEFINE made == [ profile |-> o.profile, allowed |-> Allowed(o), strict |-> o.strict,
                     policy |-> o.policy, given |-> o.flags ]
<1>1. /\ translator' = made /\ translator = NoTranslator /\ Accepted(o)
      /\ UNCHANGED <<tr, pc, program, todo, programs, result>>
  BY DEF Construct
<1>2. /\ made \in [ profile : {"production", "diagnostic"}, allowed : SUBSET Flags,
                    strict : BOOLEAN, policy : Policies, given : SUBSET Flags ]
      /\ made.allowed \subseteq made.given
      /\ made.profile = "production" => made.allowed = {}
      /\ made # NoTranslator
  <2>1. made # NoTranslator
    <3>1. made.profile # "none" /\ NoTranslator.profile = "none"
      BY DEF Options, NoTranslator
    <3> QED BY <3>1
  <2> QED BY <1>1, <2>1, AllowedOK DEF Options
<1> HIDE DEF made
<1>3. programs = 0 /\ pc = "idle" /\ ~ Returned
  <2>1. programs = 0 /\ pc = "idle"
    BY <1>1 DEF Working, Constructed, GatesTypeOK
  <2>2. 1 .. programs = {}
    BY <2>1
  <2> QED BY <2>1, <2>2 DEF Working, GatesTypeOK, Returned
<1>4. GatesTypeOK'
  BY <1>1, <1>2, <1>3 DEF Working, GatesTypeOK
<1>5. Constructed'
  BY <1>1, <1>2, <1>3 DEF Working, Constructed
<1>6. FirstClean' /\ Progress' /\ ResultEarlier'
  BY <1>1, <1>3 DEF FirstClean, Progress, ResultEarlier
<1>7. ~ Returned'
  BY <1>1, <1>3 DEF Returned
<1>8. Truthful'
  BY <1>7 DEF Truthful, FailsClosed, ParityHonest, CodegenHonest, ShownErrorsAreLater
<1> QED BY <1>4, <1>5, <1>6, <1>8 DEF Working

\* What a program has passed, once nothing of it is left to lower.
LEMMA AllPassed ==
  ASSUME Working, pc = "body", todo = {}
  PROVE  FrontendDone(tr) /\ DeclarationDone(tr) /\ CollectDone(tr)
         /\ \A f \in program \intersect InBody : LoweredDone(tr, f)
BY DEF Working, Progress, ProgressAt, BodyDone

LEMMA FinishOK ==
  ASSUME Working, Truthful, Finish
  PROVE  Working' /\ Truthful'
<1>1. /\ pc = "body" /\ todo = {} /\ result' = Built /\ pc' = "idle" /\ program' = {}
      /\ UNCHANGED <<translator, tr, todo, programs>>
  BY DEF Finish
<1> DEFINE shown == ~ \E d \in tr.diagnostics : d.severity = "error"
           unsafe == translator.profile # "production" \/ ~ tr.parity_safe
<1>2. /\ Built.n = programs /\ Built.program = program
      /\ Built.parity_safe = tr.parity_safe /\ Built.unsafe = unsafe
      /\ Built.codegen_safe = shown
      /\ Built \in [ n : 1 .. programs, program : SUBSET Features, parity_safe : BOOLEAN,
                     unsafe : BOOLEAN, codegen_safe : BOOLEAN ]
  <2>1. programs \in 1 .. programs /\ program \in SUBSET Features
        /\ tr.parity_safe \in BOOLEAN
    BY <1>1, Stage DEF Working, GatesTypeOK
  <2>2. shown \in BOOLEAN /\ unsafe \in BOOLEAN
    OBVIOUS
  <2>3. Built = [ n |-> programs, program |-> program, parity_safe |-> tr.parity_safe,
                  unsafe |-> unsafe, codegen_safe |-> shown ]
    BY DEF Built
  <2> HIDE DEF shown, unsafe
  <2> QED BY <2>1, <2>2, <2>3
<1>3. GatesTypeOK'
  BY <1>1, <1>2 DEF Working, GatesTypeOK
<1>4. Constructed'
  <2>1. GivenUp(tr)'
    BY <1>1, Stage DEF GivenUp, Open
  <2> QED BY <1>1, <2>1 DEF Working, Constructed
<1>5. FirstClean' /\ Progress' /\ ResultEarlier'
  BY <1>1 DEF FirstClean, Progress, ResultEarlier
<1>6. /\ FrontendDone(tr) /\ DeclarationDone(tr) /\ CollectDone(tr)
      /\ \A f \in program \intersect InBody : LoweredDone(tr, f)
      /\ GivenUp(tr) /\ translator.allowed \subseteq translator.given
      /\ translator.profile = "production" => translator.allowed = {}
  BY <1>1, AllPassed, Stage DEF Working, Constructed
<1>7. Seen => program \intersect {"tick_expression", "lookalike", "dropped_request"} = {}
  BY DEF Working, GatesTypeOK, Seen
<1>8. Seen => FailsClosed'
  <2>0. SUFFICES ASSUME Seen PROVE FailsClosed'
    OBVIOUS
  <2>1. \A f \in program \intersect NeedsFlag :
          FlagOf(f) \in translator.given \/ (f = "gate" /\ "metadata" \in program)
    <3> SUFFICES ASSUME NEW f \in program, f \in NeedsFlag
                 PROVE  FlagOf(f) \in translator.allowed
                        \/ (f = "gate" /\ "metadata" \in program)
      BY <1>6
    <3>1. CASE f \in {"frontend_error", "gate"}
      BY <1>6, <3>1 DEF FrontendDone, Through, Open, FlagOf
    <3>2. CASE f = "visual_error"
      BY <1>6, <3>2 DEF FrontendDone, Open, FlagOf, NeedsFlag, Gated
    <3>3. CASE f = "metadata"
      BY <1>6, <3>3 DEF FrontendDone, Through, Open, FlagOf
    <3>4. CASE f \in {"tick", "varip"}
      BY <1>6, <3>4 DEF DeclarationDone, Through, Open, FlagOf
    <3>5. CASE f = "import"
      BY <1>6, <3>5 DEF CollectDone, Through, Open, FlagOf
    <3>6. CASE f = "library_call"
      BY <1>6, <3>6 DEF LoweredDone, GivenUp, InBody, Open, FlagOf
    <3>7. CASE f = "request"
      BY <1>6, <3>7 DEF LoweredDone, InBody, Open, FlagOf
    <3> QED BY <1>7, <2>0, <3>1, <3>2, <3>3, <3>4, <3>5, <3>6, <3>7 DEF NeedsFlag, Gated
  <2>2. translator.policy = "error" => "visual" \notin program
    BY <1>6 DEF LoweredDone, InBody
  <2>3. translator.strict => program \intersect Reviewed = {}
    BY <1>6 DEF LoweredDone, InBody
  <2> QED BY <1>1, <1>2, <2>1, <2>2, <2>3 DEF FailsClosed, NeedsFlag
<1>9. Seen => ParityHonest'
  <2>0. SUFFICES ASSUME Seen PROVE ParityHonest'
    OBVIOUS
  <2>1. tr.parity_safe => program \intersect Gated = {}
    <3> SUFFICES ASSUME tr.parity_safe, NEW f \in program, f \in Gated
                 PROVE  FALSE
      OBVIOUS
    <3>1. CASE f \in {"frontend_error", "metadata", "gate"}
      BY <1>6, <3>1 DEF FrontendDone, Through
    <3>2. CASE f \in {"tick", "varip", "import"}
      BY <1>6, <3>2 DEF DeclarationDone, CollectDone, Through
    <3>3. CASE f \in {"library_call", "request"}
      BY <1>6, <3>3 DEF LoweredDone, GivenUp, InBody
    <3> QED BY <1>7, <2>0, <3>1, <3>2, <3>3 DEF Gated
  <2>2. unsafe <=> translator.profile # "production"
    BY <1>6 DEF GivenUp
  <2> QED BY <1>1, <1>2, <2>1, <2>2 DEF ParityHonest
<1>10. CodegenHonest'
  <2>1. shown <=> Errors(tr) = {}
    BY DEF Errors
  <2>2. shown => program \intersect {"frontend_error", "metadata", "tick", "varip"} = {}
    BY <1>6, <2>1 DEF FrontendDone, DeclarationDone
  <2>3. programs = 1 /\ tr.parity_safe => shown
    BY <1>1, <2>1 DEF Working, FirstClean
  <2> QED BY <1>1, <1>2, <2>2, <2>3 DEF CodegenHonest
<1>11. ShownErrorsAreLater'
  BY <1>1, <1>2 DEF ShownErrorsAreLater
<1> QED BY <1>3, <1>4, <1>5, <1>8, <1>9, <1>10, <1>11 DEF Working, Truthful

LEMMA StaysOK ==
  ASSUME Working, Truthful,
         FinishRaises \/ UNCHANGED vars
  PROVE  Working' /\ Truthful'
<1>1. /\ UNCHANGED <<translator, tr, programs, result, todo>>
      /\ (pc' = "idle" /\ program' = {} /\ todo = {}) \/ UNCHANGED <<pc, program>>
  BY DEF FinishRaises, vars
<1>2. GatesTypeOK'
  BY <1>1 DEF Working, GatesTypeOK
<1>3. Constructed'
  BY <1>1 DEF Working, Constructed, GivenUp, Open
<1>4. FirstClean' /\ ResultEarlier'
  BY <1>1 DEF Working, FirstClean, Errors, ResultEarlier, Returned
<1>5. Progress'
  BY <1>1 DEF Working, Progress, ProgressAt, FrontendDone, DeclarationDone, CollectDone,
              Through, BodyDone, LoweredDone, Errors, Open
<1> QED BY <1>1, <1>2, <1>3, <1>4, <1>5, ResultStays DEF Working

LEMMA StepOK ==
  ASSUME Working, Truthful, [GatesNext]_vars
  PROVE  Working' /\ Truthful'
<1>1. CASE EnforceFrontendContract
  <2> DEFINE r == FrontendChecked(tr)
  <2>1. pc = "frontend" /\ Continue(r, "declaration", todo)
    BY <1>1 DEF EnforceFrontendContract
  <2>2. Sound(r) /\ Later(tr, r.after) /\ (~ r.raised => FrontendDone(r.after))
    BY <2>1, FrontendOK
  <2>3. BodyDone(tr, todo)
    BY <2>1 DEF Working, Progress, ProgressAt
  <2> HIDE DEF r
  <2>4. ~ r.raised => ProgressAt(r.after, "declaration", todo)
    BY <2>2, <2>3, DoneStays DEF ProgressAt
  <2> QED BY <2>1, <2>2, <2>4, ContinueOK
<1>2. CASE EnforceDeclaration
  <2> DEFINE r == DeclarationChecked(tr)
  <2>1. pc = "declaration" /\ Continue(r, "collect", todo)
    BY <1>2 DEF EnforceDeclaration
  <2>2. Sound(r) /\ Later(tr, r.after) /\ (~ r.raised => DeclarationDone(r.after))
    BY <2>1, DeclarationOK
  <2>3. FrontendDone(tr) /\ BodyDone(tr, todo)
    BY <2>1 DEF Working, Progress, ProgressAt
  <2> HIDE DEF r
  <2>4. ~ r.raised => ProgressAt(r.after, "collect", todo)
    BY <2>2, <2>3, DoneStays DEF ProgressAt
  <2> QED BY <2>1, <2>2, <2>4, ContinueOK
<1>3. CASE CollectGlobals
  <2> DEFINE r == IF "import" \in program THEN Imported(tr) ELSE Passed(tr)
  <2>1. pc = "collect" /\ Continue(r, "body", todo)
    BY <1>3 DEF CollectGlobals
  <2>2. Sound(r) /\ Later(tr, r.after) /\ (~ r.raised => CollectDone(r.after))
    BY <2>1, ImportOK
  <2>3. FrontendDone(tr) /\ DeclarationDone(tr) /\ BodyDone(tr, todo)
    BY <2>1 DEF Working, Progress, ProgressAt
  <2> HIDE DEF r
  <2>4. ~ r.raised => ProgressAt(r.after, "body", todo)
    BY <2>2, <2>3, DoneStays DEF ProgressAt
  <2> QED BY <2>1, <2>2, <2>4, ContinueOK
<1>4. ASSUME NEW f \in InBody, Lower(f)
      PROVE  Working' /\ Truthful'
  <2> DEFINE r == Lowered(tr, f)
             rest == todo \ {f}
  <2>1. pc = "body" /\ Continue(r, "body", rest) /\ rest \subseteq todo
    BY <1>4 DEF Lower
  <2>2. Sound(r) /\ Later(tr, r.after) /\ (~ r.raised => LoweredDone(r.after, f))
    BY <2>1, LoweredOK
  <2>3. FrontendDone(tr) /\ DeclarationDone(tr) /\ CollectDone(tr) /\ BodyDone(tr, todo)
    BY <2>1 DEF Working, Progress, ProgressAt
  <2> HIDE DEF r
  <2>4. ~ r.raised => BodyDone(r.after, rest)
    <3>1. BodyDone(r.after, todo)
      BY <2>2, <2>3, DoneStays
    <3> QED BY <2>2, <3>1 DEF BodyDone
  <2> HIDE DEF rest
  <2>5. ~ r.raised => ProgressAt(r.after, "body", rest)
    BY <2>2, <2>3, <2>4, DoneStays DEF ProgressAt
  <2> QED BY <2>1, <2>2, <2>5, ContinueOK
<1> QED BY <1>1, <1>2, <1>3, <1>4, BeginOK, ConstructOK, FinishOK, StaysOK DEF GatesNext

LEMMA InitOK == GatesInit => Working /\ Truthful
<1> SUFFICES ASSUME GatesInit
             PROVE  Working /\ Truthful
  OBVIOUS
<1>1. GatesTypeOK
  BY GatesAssumption DEF GatesInit, GatesTypeOK, Untouched, GatesAssumption
<1> QED BY <1>1 DEF GatesInit, Working, Constructed, FirstClean, Progress, ResultEarlier,
        Truthful, FailsClosed, ParityHonest, CodegenHonest, ShownErrorsAreLater, Returned
-----------------------------------------------------------------------------
(* The theorems.                                                           *)

\* The inductive invariant: what a Translator does, and what its last result says.
THEOREM GatesInvariant == GatesSpec => [](Working /\ Truthful)
<1>1. GatesInit => Working /\ Truthful
  BY InitOK
<1>2. Working /\ Truthful /\ [GatesNext]_vars => Working' /\ Truthful'
  BY StepOK
<1> QED BY <1>1, <1>2, PTL DEF GatesSpec

\* The state of a Translator is well formed, and it is unsafe for parity exactly when
\* it names a risk (translator_mixins/metadata_build.py).
THEOREM GatesTypeCorrect == GatesSpec => []GatesTypeOK
<1>1. Working /\ Truthful => GatesTypeOK
  BY DEF Working
<1> QED BY <1>1, GatesInvariant, PTL

\* No program reaches a result with a feature whose flag was not given, whatever
\* the Translator was given before (translator_parts/validation.py).
THEOREM OnlyFlagsOpen == ASSUME Seen PROVE GatesSpec => []FailsClosed
<1>1. Seen /\ Working /\ Truthful => FailsClosed
  BY DEF Truthful
<1> QED BY <1>1, GatesInvariant, PTL

\* A result that calls itself parity-safe has no feature that needs a flag, and no
\* production result is unsafe.
THEOREM ParityIsHonest == ASSUME Seen PROVE GatesSpec => []ParityHonest
<1>1. Seen /\ Working /\ Truthful => ParityHonest
  BY DEF Truthful
<1> QED BY <1>1, GatesInvariant, PTL

\* A result that calls itself safe to run passed every check before lowering.
THEOREM CodegenIsHonest == GatesSpec => []CodegenHonest
<1>1. Working /\ Truthful => CodegenHonest
  BY DEF Truthful
<1> QED BY <1>1, GatesInvariant, PTL

\* Errors in the shared list of a result safe to run belong to later programs.
THEOREM SharedErrorsAreLater == GatesSpec => []ShownErrorsAreLater
<1>1. Working /\ Truthful => ShownErrorsAreLater
  BY DEF Truthful
<1> QED BY <1>1, GatesInvariant, PTL
=============================================================================
