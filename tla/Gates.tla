------------------------------- MODULE Gates -------------------------------
(***************************************************************************)
(* What a Translator lets through and what it says about it: the flags of  *)
(* its construction (translator.py, profiles.py), the checks before        *)
(* lowering (translator_parts/validation.py), the features refused or      *)
(* stubbed while the body is lowered, and the safety fields of the result  *)
(* (translator_mixins/metadata_build.py).  A Translator may be given       *)
(* several programs, whether or not the one before was refused.            *)
(*                                                                         *)
(* A program is the set of its features that some check is about:          *)
(*   frontend_error, visual_error  ERROR diagnostics of Pine2AST           *)
(*   lookalike        one of the runtime contract that is not visual but   *)
(*                    spells a visual builtin                              *)
(*   metadata, gate   producer metadata mismatched; a gate not "pass"      *)
(*   tick             calc_on_every_tick is the literal true               *)
(*   tick_expression  calc_on_every_tick is true by another expression     *)
(*   varip, import, library_call, visual                                   *)
(*   request          a request.* call without lowering                    *)
(*   dropped_request  one in an else-if of an if-expression                *)
(*   security         a nested request.security, or one that captures      *)
(*   strategy_api     a strategy call outside the supported set            *)
(*   lower_tf         an unsafe request.security_lower_tf                  *)
(*   unknown          a call nobody lowers                                 *)
(*   unrendered       a module that is no Python, or a bad artifact        *)
(***************************************************************************)
EXTENDS Naturals, FiniteSets

CONSTANTS
  Features,    \* the features that programs have
  Policies,    \* visual policies: a subset of {"drop", "record", "error"}
  MaxPrograms, \* bound: programs of a Translator
  MaxFeatures  \* bound: features of the first, one less in each later one

ASSUME GatesAssumption ==
  /\ MaxPrograms \in Nat /\ MaxFeatures \in Nat
  /\ Policies \subseteq {"drop", "record", "error"}
  /\ \A f \in Features : f \in STRING

Flags == {"invalid_ast", "contract_mismatch", "realtime", "library", "request"}

FromFrontend == {"frontend_error", "visual_error", "lookalike", "metadata", "gate"}
Reviewed     == {"security", "strategy_api"}
InBody       == Reviewed \union
                {"library_call", "request", "dropped_request", "visual", "lower_tf",
                 "unknown"}

VARIABLES
  translator, \* its options, or NoTranslator
  tr,         \* parity_safe, unsupported_features, parity_risks, diagnostics, aliases
  pc,         \* what translate_program does next
  program,    \* the features of the program being translated
  todo,       \* those in its body that are still to be lowered
  programs,   \* how many programs the Translator was given
  result      \* the last result returned, or NoResult

vars == <<translator, tr, pc, program, todo, programs, result>>

NoTranslator == [profile |-> "none"]
NoResult     == [n |-> 0]

Options == [ profile : {"production", "diagnostic"}, flags : SUBSET Flags,
             strict : BOOLEAN, policy : Policies ]
-----------------------------------------------------------------------------
(* Construction.                                                           *)
\* CompileProfile.from_options: production takes no flag.
Accepted(o) == o.profile = "production" => o.flags = {}

\* Mutant: the profile's one allow_invalid_ast opens all the flags behind it.
AllowedByProfile(o) ==
  LET invalid == {"invalid_ast", "contract_mismatch", "realtime"}
  IN o.flags \union (IF o.flags \intersect invalid = {} THEN {} ELSE invalid)

\* The flags that are open: of the three that the profile sums up as
\* allow_invalid_ast, the Translator's own flag must be set as well.
Allowed(o) ==
  LET invalid == {"invalid_ast", "contract_mismatch", "realtime"}
      profile == o.flags \intersect invalid # {}
  IN {f \in o.flags : f \in invalid => profile}

Untouched ==
  [ parity_safe |-> TRUE, unsupported_features |-> {}, parity_risks |-> {},
    diagnostics |-> {}, aliases |-> FALSE ]

GatesInit ==
  /\ translator = NoTranslator /\ tr = Untouched
  /\ pc = "idle" /\ program = {} /\ todo = {}
  /\ programs = 0 /\ result = NoResult

Construct(o) ==
  /\ translator = NoTranslator /\ Accepted(o)
  /\ translator' = [ profile |-> o.profile, allowed |-> Allowed(o),
                     strict |-> o.strict, policy |-> o.policy,
                     given |-> o.flags ] \* history
  /\ UNCHANGED <<tr, pc, program, todo, programs, result>>

Programs == {p \in SUBSET Features : Cardinality(p) <= MaxFeatures}

Begin(p) ==
  /\ translator # NoTranslator /\ pc = "idle"
  /\ programs < MaxPrograms /\ programs + Cardinality(p) <= MaxFeatures
  /\ program' = p /\ todo' = p \intersect InBody /\ pc' = "frontend"
  /\ programs' = programs + 1
  /\ UNCHANGED <<translator, tr, result>>
-----------------------------------------------------------------------------
(* Checks, from a translator's state to the next; Raised ends the program. *)
Open(flag) == flag \in translator.allowed

Diagnosed(t, f, severity) ==
  [t EXCEPT !.diagnostics = @ \union
     {[of |-> f, severity |-> severity, program |-> programs]}]

\* Mutant: what is let through by a flag is not recorded as a risk.
CrossedUnrecorded(t, f, recorded) ==
  [t EXCEPT !.parity_safe = FALSE,
            !.unsupported_features = @ \union (IF recorded THEN {f} ELSE {})]

\* A check that a flag has opened.
Crossed(t, f, recorded) ==
  [t EXCEPT !.parity_safe = FALSE,
            !.parity_risks = @ \union {f},
            !.unsupported_features = @ \union (IF recorded THEN {f} ELSE {})]

Raised(t) == [after |-> t, raised |-> TRUE]
Passed(t) == [after |-> t, raised |-> FALSE]

\* Mutant: an override turns the error into a warning.
CheckedSoftly(s, f, flag, recorded) ==
  IF Open(flag) THEN Passed(Crossed(Diagnosed(s, f, "warning"), f, recorded))
                ELSE Raised(Diagnosed(s, f, "error"))

\* The ERROR diagnostic of a check, then its flag or an exception.
Checked(s, f, flag, recorded) ==
  IF Open(flag) THEN Passed(Crossed(Diagnosed(s, f, "error"), f, recorded))
                ELSE Raised(Diagnosed(s, f, "error"))

If(s, condition, f, flag, recorded) ==
  IF s.raised \/ ~ condition THEN s ELSE Checked(s.after, f, flag, recorded)

\* Which ERROR diagnostics of Pine2AST the visual policy makes a warning.
ReadAsVisual == program \intersect {"visual_error", "lookalike"}
Ignored == IF translator.policy = "error" THEN {} ELSE ReadAsVisual
Blocking == (program \intersect {"frontend_error", "visual_error", "lookalike"}) \ Ignored

FrontendChecked(t) ==
  LET w == IF Ignored = {} THEN t ELSE Diagnosed(t, "visual_error", "warning")
      d == If(Passed(w), Blocking # {}, "frontend_error", "invalid_ast", FALSE)
      m == If(d, "metadata" \in program, "metadata", "contract_mismatch", FALSE)
  IN If(m, "gate" \in program /\ "metadata" \notin program, "gate", "invalid_ast", FALSE)

DeclarationChecked(t) ==
  If(If(Passed(t), "tick" \in program, "tick", "realtime", TRUE),
     "varip" \in program, "varip", "realtime", TRUE)

\* Mutant: an import is stubbed without a word about parity.
ImportedSilently(t) ==
  IF Open("library") THEN Passed([t EXCEPT !.aliases = TRUE])
                     ELSE Raised(Diagnosed(t, "import", "error"))

\* An import leaves no diagnostic when it is let through.
Imported(t) ==
  IF Open("library") THEN Passed([Crossed(t, "import", TRUE) EXCEPT !.aliases = TRUE])
                     ELSE Raised(Diagnosed(t, "import", "error"))

Strictly(t, f) ==
  IF translator.strict THEN Raised(Diagnosed(t, f, "error"))
                       ELSE Passed(Diagnosed(t, f, "warning"))

Unknown(t, f) ==
  Raised(Diagnosed(t, f, IF translator.strict THEN "error" ELSE "warning"))

\* One call of the body.  The branches of an if-expression other than then and
\* else are never lowered.
Lowered(t, f) ==
  CASE f \in Reviewed -> Strictly(t, f)
    [] f = "library_call" ->
         IF t.aliases THEN Passed(Diagnosed(t, f, "warning")) ELSE Unknown(t, f)
    [] f = "request" ->
         IF Open("request") THEN Passed(Crossed(Diagnosed(t, f, "warning"), f, TRUE))
                            ELSE Raised(Diagnosed(t, f, "error"))
    [] f = "visual" ->
         IF translator.policy = "error" THEN Raised(Diagnosed(t, f, "error"))
                                        ELSE Passed(t)
    [] f = "lower_tf" -> Raised(Diagnosed(t, f, "error"))
    [] f = "unknown" -> Unknown(t, f)
    [] f = "dropped_request" -> Passed(t)
-----------------------------------------------------------------------------
(* translate_program.                                                      *)
Continue(s, next, rest) ==
  /\ tr' = s.after
  /\ IF s.raised THEN pc' = "idle" /\ program' = {} /\ todo' = {}
                 ELSE pc' = next /\ todo' = rest /\ UNCHANGED program
  /\ UNCHANGED <<translator, programs, result>>

EnforceFrontendContract ==
  /\ pc = "frontend"
  /\ Continue(FrontendChecked(tr), "declaration", todo)

EnforceDeclaration ==
  /\ pc = "declaration"
  /\ Continue(DeclarationChecked(tr), "collect", todo)

CollectGlobals ==
  /\ pc = "collect"
  /\ Continue(IF "import" \in program THEN Imported(tr) ELSE Passed(tr), "body", todo)

Lower(f) ==
  /\ pc = "body" /\ f \in todo
  /\ Continue(Lowered(tr, f), "body", todo \ {f})

\* Mutant: one safety field for the other.
BuiltByParity ==
  [ n |-> programs, program |-> program, parity_safe |-> tr.parity_safe,
    unsafe |-> translator.profile # "production" \/ ~ tr.parity_safe,
    codegen_safe |-> tr.parity_safe ]

\* build_metadata.  The result's diagnostics are the Translator's own list.
Built ==
  [ n |-> programs, program |-> program, parity_safe |-> tr.parity_safe,
    unsafe |-> translator.profile # "production" \/ ~ tr.parity_safe,
    codegen_safe |-> ~ \E d \in tr.diagnostics : d.severity = "error" ]

Finish ==
  /\ pc = "body" /\ todo = {} /\ "unrendered" \notin program
  /\ result' = Built /\ pc' = "idle" /\ program' = {}
  /\ UNCHANGED <<translator, tr, todo, programs>>

\* Parsing the module, or building the artifact, fails.
FinishRaises ==
  /\ pc = "body" /\ todo = {} /\ "unrendered" \in program
  /\ pc' = "idle" /\ program' = {}
  /\ UNCHANGED <<translator, tr, todo, programs, result>>

GatesNext ==
  \/ \E o \in Options : Construct(o)
  \/ \E p \in Programs : Begin(p)
  \/ EnforceFrontendContract \/ EnforceDeclaration \/ CollectGlobals
  \/ \E f \in InBody : Lower(f)
  \/ Finish \/ FinishRaises

GatesSpec == GatesInit /\ [][GatesNext]_vars
-----------------------------------------------------------------------------
Diagnostics == [of : FromFrontend \union InBody \union {"tick", "varip", "import"},
                severity : {"error", "warning"}, program : 1 .. MaxPrograms]

Gated == {"frontend_error", "lookalike", "metadata", "gate", "tick", "tick_expression",
          "varip", "import", "library_call", "request", "dropped_request"}

\* The state is well formed, and a Translator is unsafe for parity exactly when
\* it names a risk.
GatesTypeOK ==
  /\ translator = NoTranslator \/
     translator \in [ profile : {"production", "diagnostic"}, allowed : SUBSET Flags,
                      strict : BOOLEAN, policy : Policies, given : SUBSET Flags ]
  /\ tr \in [ parity_safe : BOOLEAN, unsupported_features : SUBSET Gated,
              parity_risks : SUBSET Gated, diagnostics : SUBSET Diagnostics,
              aliases : BOOLEAN ]
  /\ tr.parity_safe <=> tr.parity_risks = {}
  /\ tr.unsupported_features \subseteq tr.parity_risks
  /\ pc \in {"idle", "frontend", "declaration", "collect", "body"}
  /\ program \in SUBSET Features /\ todo \subseteq program \intersect InBody
  /\ programs \in 0 .. MaxPrograms
  /\ pc # "idle" => translator # NoTranslator /\ programs > 0
  /\ result = NoResult \/
     result \in [ n : 1 .. programs, program : SUBSET Features, parity_safe : BOOLEAN,
                  unsafe : BOOLEAN, codegen_safe : BOOLEAN ]

FlagOf(f) ==
  CASE f \in {"frontend_error", "visual_error", "lookalike", "gate"} -> "invalid_ast"
    [] f = "metadata"                             -> "contract_mismatch"
    [] f \in {"tick", "tick_expression", "varip"} -> "realtime"
    [] f \in {"import", "library_call"}           -> "library"
    [] f \in {"request", "dropped_request"}       -> "request"

Returned == result # NoResult

\* What no result may contain without the flag of its own.
NeedsFlag == Gated \union (IF translator.policy = "error" THEN {"visual_error"} ELSE {})

\* Nothing that needs a flag reaches a result without it (README.md:38, "Fails closed
\* for unsupported parity-sensitive behavior unless an explicit compatibility flag
\* is provided"), whatever other flags are set and whatever the Translator
\* translated before; only the producer's gates are not looked at once mismatched
\* metadata was let through.  A visual policy of "error" and strict let nothing pass.
FailsClosed ==
  Returned =>
    /\ \A f \in result.program \intersect NeedsFlag :
         FlagOf(f) \in translator.given \/ (f = "gate" /\ "metadata" \in result.program)
    /\ translator.policy = "error" => "visual" \notin result.program
    /\ translator.strict => result.program \intersect Reviewed = {}

\* A result that calls itself parity-safe has none of the features that need a
\* flag, and no production result is unsafe.
ParityHonest ==
  Returned =>
    /\ result.parity_safe => result.program \intersect Gated = {}
    /\ result.unsafe <=> translator.profile # "production"

\* A result that calls itself safe to run passed every check before lowering; and
\* the first program of a Translator is so if it is parity-safe.
CodegenHonest ==
  Returned =>
    /\ result.codegen_safe =>
         result.program \intersect {"frontend_error", "metadata", "tick", "varip"} = {}
    /\ result.n = 1 /\ result.parity_safe => result.codegen_safe

\* A result shares its list of diagnostics with the Translator: an error in the
\* list of a result that calls itself safe to run belongs to a later program.
ShownErrorsAreLater ==
  Returned /\ result.codegen_safe =>
    \A d \in tr.diagnostics : d.severity = "error" => d.program > result.n
=============================================================================
