------------------------------ MODULE Lowering ------------------------------
(***************************************************************************)
(* Statement lowering: TranslatorStatementMixin and the function           *)
(* declarations of TranslatorDeclarationMixin writing through CodeEmitter, *)
(* over the context of module Context.                                     *)
(*                                                                         *)
(* The Pine program is not fixed: each action lowers the next piece of an  *)
(* arbitrary program, and a structure is lowered by one action where the   *)
(* handler opens its block and one where it closes it, with the statements *)
(* of the block in between (`frames' is the stack of handlers that are     *)
(* running).  Of a line of Python only its place in the block structure is *)
(* kept, and of the text so far what Python's grammar still needs to know  *)
(* of it (`out.py').  `homes' is the reference: for every Pine variable in *)
(* scope, the Python cell its declaration writes.                          *)
(***************************************************************************)
EXTENDS Context, FiniteSets, SequencesExt

CONSTANTS
  BuiltinNames,   \* names that an expression takes for a builtin (close, hl2, hour,
                  \* group, strategy, ...) whatever the program declares
  MaxFrames,      \* bound: nesting of structures, _process_bar or def included
  HoistPlaces,    \* statement positions whose expression may need a temporary
                  \* series: a subset of {"simple", "if", "elif", "loop"}
  NamesReused,    \* whether a local may take a name that some enclosing scope
                  \* of the context has
  EmptyElseIf,    \* whether the block of an else-if may be empty
  Retranslates    \* whether one Translator is used for a second program

ASSUME LoweringAssumption ==
  /\ BuiltinNames \subseteq Names
  /\ MaxFrames \in Nat \ {0}
  /\ HoistPlaces \subseteq {"simple", "if", "elif", "loop"}
  /\ {NamesReused, EmptyElseIf, Retranslates} \subseteq BOOLEAN

VARIABLES
  frames,  \* running handlers, innermost last
  lazy,    \* _lazy_branch_depth
  out,     \* the CodeEmitter: its indentation, and its lines as Python sees them
  homes,   \* per open Pine scope, the cell of each variable declared in it
  phase    \* start, collect, functions, body, done, raised

vars == <<ctx, frames, lazy, out, homes, phase>>

BranchKinds == {"if", "elif", "else", "case", "leaf"}
FrameKinds  == BranchKinds \union {"for", "while", "def", "bar"}
Frame == [kind : FrameKinds, empty : BOOLEAN, var : BOOLEAN]

Top == frames[Len(frames)]

\* Which handlers enter a lexical scope around their block: a switch case that
\* is a bare expression (a leaf) and _process_bar do not.
OwnsScope(kind) == kind \notin {"leaf", "bar"}
-----------------------------------------------------------------------------
(* Python's grammar of blocks, as far as lowering can get it wrong.  The   *)
(* stack holds, for each open block, what its last statement was: "none"   *)
(* right after a header, "chain" for an if or elif that may be continued.  *)
Headers == {"if", "elif", "else", "block"}
LineOps == Headers \union {"simple"}
LastStatements == {"none", "chain", "other"}

EmptyModule == [blocks |-> <<"other">>, ok |-> TRUE]

LineAllowed(py, indent, op) ==
  /\ indent + 1 <= Len(py.blocks)
  /\ Last(py.blocks) = "none" => indent + 1 = Len(py.blocks)
  /\ op \in {"elif", "else"} => py.blocks[indent + 1] = "chain"

WithLine(py, indent, op) ==
  IF ~ py.ok \/ ~ LineAllowed(py, indent, op)
  THEN [py EXCEPT !.ok = FALSE]
  ELSE [ blocks |->
           Append(SubSeq(py.blocks, 1, indent),
                  IF op \in {"if", "elif"} THEN "chain" ELSE "other")
           \o (IF op \in Headers THEN <<"none">> ELSE << >>),
         ok |-> TRUE ]

(* CodeEmitter: line(), indent() and dedent().  A simple line stands for one *)
(* simple statement or for several in a row, which leave the same blocks.    *)
Line(o, op) == [o EXCEPT !.py = WithLine(@, o.indent, op)]
Indented(o) == [o EXCEPT !.indent = @ + 1]
Dedented(o) == [o EXCEPT !.indent = IF @ = 0 THEN 0 ELSE @ - 1]

Simple(o)     == Line(o, "simple")
Opened(o, op) == Indented(Line(o, op))
Block(o, op)  == Dedented(Simple(Opened(o, op)))

\* _translate_series_source_argument writes the two lines of a temporary series
\* when it meets a computed source, which is while the text of the statement
\* is being put together, so before the statement's own line.
Hoisted(o, hoists) == IF hoists THEN Simple(o) ELSE o
MayHoist(place) == IF place \in HoistPlaces THEN BOOLEAN ELSE {FALSE}
-----------------------------------------------------------------------------
(* Cells.  A series variable lives in an attribute of the generated object *)
(* and any other variable in a Python local.                               *)
Cells  == {"self", "local"} \X PyNames
NoCell == <<"none", Guard>>
NoHomes == [n \in Names |-> NoCell]

\* The cell that _emit_reassignment and the end of _emit_tuple_declaration write,
\* and that _translate_identifier reads once it has resolved the name.
CellOf(info) == <<IF info.series THEN "self" ELSE "local", info.py>>

\* _translate_identifier: the names of builtins become a value of the runtime, or
\* a constant, before any variable is looked up.
BuiltinValue == <<"builtin", Guard>>

ReadCell(c, n) ==
  IF n \in BuiltinNames THEN BuiltinValue ELSE CellOf(c.heap[Resolve(c, n)])

\* The cell that the line of _emit_var_declaration writes: in a local scope a
\* Python local, whatever the variable it resolved to.
DeclaredCell(c, info) ==
  IF Depth(c) = 1 THEN <<"self", info.py>> ELSE <<"local", info.py>>

IsVisible(n) == \E d \in 1 .. Len(homes) : homes[d][n] # NoCell

Home(n) ==
  LET d == CHOOSE d \in 1 .. Len(homes) :
             /\ homes[d][n] # NoCell
             /\ \A e \in d + 1 .. Len(homes) : homes[e][n] = NoCell
  IN homes[d][n]

\* Mutant: whatever is declared is a series.
IsSeriesAlways(c) == TRUE

\* _resolve_or_declare_var: is_series is what tells a global from a local.
IsSeriesHere(c) == Depth(c) = 1
ResolvedOrDeclared(c, n, kind) ==
  IF Resolve(c, n) # 0 THEN c ELSE Declared(c, n, kind, IsSeriesHere(c))

MayResolve(c, n, kind) ==
  Resolve(c, n) = 0 => Len(c.heap) < MaxDecls /\ CanReserve(c, Preferred(n, kind))

\* Lists of names (parameters, targets of tuples and loops) have two of them, or
\* one: <<n, n>> stands for the list of n alone, as a declaration changes nothing
\* the second time.  No program reaches the ordinal at which naming.py raises.
NameLists == Names \X Names

DeclaredBoth(c, ns, kind) ==
  Declared(Declared(c, ns[1], kind, FALSE), ns[2], kind, FALSE)

MayDeclareBoth(c, ns, kind) ==
  /\ Len(c.heap) + Cardinality(ToSet(ns)) <= MaxDecls
  /\ CanReserve(c, Preferred(ns[1], kind))
  /\ ns[1] # ns[2] =>
       CanReserve(Declared(c, ns[1], kind, FALSE), Preferred(ns[2], kind))

\* The cells of the names of a list.
HomesOf(c, ns) ==
  [n \in Names |-> IF n \in ToSet(ns) THEN CellOf(c.heap[Resolve(c, n)]) ELSE NoCell]

\* Pine lets a name be declared once per scope.  Without NamesReused it is also
\* new to the scopes around it.
MayDeclareLocal(n) ==
  /\ homes[Len(homes)][n] = NoCell
  /\ Resolve(ctx, n) # 0 => NamesReused
-----------------------------------------------------------------------------
(* Opening and closing the block of a handler.                             *)
Framed(kind) == [kind |-> kind, empty |-> TRUE, var |-> FALSE]

\* The running handler has lowered one more statement of its block.
Noted(isVar) ==
  [frames EXCEPT ![Len(frames)].empty = FALSE, ![Len(frames)].var = isVar]

LazyFrames == {k \in 1 .. Len(frames) : frames[k].kind \in BranchKinds}

\* Mutant: an empty else has no "pass" either.
ClosesWithLineElse(f) ==
  IF f.empty THEN f.kind \notin {"elif", "else", "leaf"} ELSE f.kind = "def" /\ f.var

\* What a handler writes at the end of its block: "pass" when no statement was
\* there, but for an else-if; a function returns its last variable, or None.
ClosesWithLine(f) ==
  IF f.empty THEN f.kind \notin {"elif", "leaf"} ELSE f.kind = "def" /\ f.var

Closed(o, f) == Dedented(IF ClosesWithLine(f) THEN Simple(o) ELSE o)

\* Mutant: a loop does not leave its scope.
LeftInLoop(c, kind) == IF kind \in BranchKinds \ {"leaf"} THEN Exited(c) ELSE c

\* The context once the handler of a frame has left its scope.
Left(c, kind) == IF OwnsScope(kind) THEN Exited(c) ELSE c
LeftHomes(h, kind) == IF OwnsScope(kind) THEN Front(h) ELSE h

MayClose ==
  /\ frames # << >>
  /\ Top.kind = "elif" /\ Top.empty => EmptyElseIf
  /\ Top.kind = "case" => ~ Top.empty

\* A statement may start: in the block of a running handler.
AtStatement == frames # << >> /\ Top.kind # "leaf"
MayNest == AtStatement /\ Len(frames) < MaxFrames
-----------------------------------------------------------------------------
LoweringInit ==
  /\ ContextInit
  /\ frames = << >>
  /\ lazy = 0
  /\ out = [indent |-> 0, py |-> EmptyModule]
  /\ homes = << NoHomes >>
  /\ phase = "start"

\* collect_globals: every top-level declaration, before any line is written.
CollectGlobal(n, kind) ==
  /\ phase \in {"start", "collect"}
  /\ homes[1][n] = NoCell
  /\ CanDeclare(n, kind)
  /\ ctx' = Declared(ctx, n, kind, TRUE)
  /\ homes' = [homes EXCEPT ![1][n] = CellOf(ctx'.heap[Resolve(ctx', n)])]
  /\ phase' = "collect"
  /\ UNCHANGED <<frames, lazy, out>>

\* _emit_function_declaration: the def line, then a scope with the parameters.
\* (Parameters of one snake_case spelling are the subject of ArgumentsDistinct.)
BeginFunction(params) ==
  /\ phase \in {"start", "collect", "functions"} /\ frames = << >>
  /\ Depth(ctx) < MaxScopes
  /\ LET e == Entered(ctx, "function")
     IN IF params = << >>
        THEN ctx' = e /\ homes' = Append(homes, NoHomes)
        ELSE /\ MayDeclareBoth(e, params, "param")
             /\ params[1] # params[2] => Snake(params[1]) # Snake(params[2])
             /\ ctx' = DeclaredBoth(e, params, "param")
             /\ homes' = Append(homes, HomesOf(ctx', params))
  /\ out' = Opened(out, "block")
  /\ frames' = << Framed("def") >>
  /\ phase' = "functions"
  /\ UNCHANGED lazy

\* A function without statements returns its expression.
EndFunction(hoists) ==
  /\ frames # << >> /\ Top.kind = "def"
  /\ hoists => Top.empty
  /\ out' = Closed(Hoisted(out, hoists), Top)
  /\ ctx' = Left(ctx, "def")
  /\ homes' = LeftHomes(homes, "def")
  /\ frames' = << >>
  /\ UNCHANGED <<lazy, phase>>

\* _emit_process_bar: its first lines create the series on the first bar.  What
\* a statement of the body may name are the globals declared above it.
BeginProcessBar ==
  /\ phase \in {"start", "collect", "functions"} /\ frames = << >>
  /\ out' = Block(Opened(out, "block"), "if")
  /\ frames' = << [Framed("bar") EXCEPT !.empty = FALSE] >>
  /\ homes' = << NoHomes >>
  /\ phase' = "body"
  /\ UNCHANGED <<ctx, lazy>>

\* The end of _process_bar, then _init_series: pass when there is no series.
EndModule ==
  /\ phase = "body" /\ Len(frames) = 1
  /\ out' = Block(Dedented(out), "block")
  /\ frames' = << >>
  /\ phase' = "done"
  /\ UNCHANGED <<ctx, lazy, homes>>

\* A top-level declaration: set_current on every bar, or once behind
\* _var_initialized (var), or through the runtime's varip state.  An input was
\* set in __init__ and writes nothing.
GlobalLines(o, kind) ==
  CASE kind = "input" -> o
    [] kind = "var"   -> Block(o, "if")
    [] kind = "varip" -> Block(Block(o, "if"), "else")
    [] OTHER          -> Simple(o)

EmitGlobalDeclaration(n, hoists) ==
  /\ AtStatement /\ Top.kind = "bar"
  /\ Resolve(ctx, n) # 0 /\ homes[1][n] = NoCell
  /\ LET info == ctx.heap[Resolve(ctx, n)]
     IN /\ info.kind = "input" => ~ hoists
        /\ out' = IF Depth(ctx) = 1 THEN GlobalLines(Hoisted(out, hoists), info.kind)
                                    ELSE Simple(Hoisted(out, hoists))
        /\ homes' = [homes EXCEPT ![1][n] = DeclaredCell(ctx, info)]
  /\ frames' = Noted(TRUE)
  /\ UNCHANGED <<ctx, lazy, phase>>

\* _emit_var_declaration in a body.
EmitLocalDeclaration(n, kind, hoists) ==
  /\ AtStatement /\ Top.kind # "bar" /\ kind # "input"
  /\ MayDeclareLocal(n)
  /\ MayResolve(ctx, n, kind)
  /\ ctx' = ResolvedOrDeclared(ctx, n, kind)
  /\ homes' = [homes EXCEPT ![Len(homes)][n] =
                 DeclaredCell(ctx', ctx'.heap[Resolve(ctx', n)])]
  /\ out' = Simple(Hoisted(out, hoists))
  /\ frames' = Noted(TRUE)
  /\ UNCHANGED <<lazy, phase>>

\* An expression, a reassignment, break or continue: one line.
EmitSimple(hoists) ==
  /\ AtStatement
  /\ out' = Simple(Hoisted(out, hoists))
  /\ frames' = Noted(FALSE)
  /\ UNCHANGED <<ctx, lazy, homes, phase>>

\* _emit_tuple_declaration: every target is resolved or declared, the value is
\* unpacked into temporaries (a request.security result behind a test for na)
\* and each target is written where it is read.
Unpacked(o, guarded) == IF guarded THEN Block(Block(Simple(o), "if"), "else") ELSE Simple(o)

EmitTuple(targets, guarded, hoists) ==
  /\ AtStatement
  /\ \A n \in ToSet(targets) :
        IF Top.kind = "bar"
        THEN Resolve(ctx, n) # 0 /\ homes[1][n] = NoCell
        ELSE MayDeclareLocal(n)
  /\ MayResolve(ctx, targets[1], "normal")
  /\ LET first == ResolvedOrDeclared(ctx, targets[1], "normal")
     IN /\ MayResolve(first, targets[2], "normal")
        /\ ctx' = ResolvedOrDeclared(first, targets[2], "normal")
  /\ homes' = [homes EXCEPT ![Len(homes)] =
                 [n \in Names |-> IF n \in ToSet(targets)
                                  THEN CellOf(ctx'.heap[Resolve(ctx', n)])
                                  ELSE @[n]]]
  /\ out' = Simple(Unpacked(Hoisted(out, hoists), guarded))
  /\ frames' = Noted(FALSE)
  /\ UNCHANGED <<lazy, phase>>

\* The block of a branch: indented, in a lexical scope, one branch deeper.  The
\* first argument is the stack of handlers under it.
Branch(under, c, h, kind, l) ==
  /\ frames' = Append(under, Framed(kind))
  /\ ctx' = IF OwnsScope(kind) THEN Entered(c, "block") ELSE c
  /\ homes' = IF OwnsScope(kind) THEN Append(h, NoHomes) ELSE h
  /\ lazy' = l + 1

\* _emit_if, up to the then block.
BeginIf(hoists) ==
  /\ MayNest /\ Depth(ctx) < MaxScopes
  /\ out' = Opened(Hoisted(out, hoists), "if")
  /\ Branch(Noted(FALSE), ctx, homes, "if", lazy)
  /\ UNCHANGED phase

\* The then block or an else-if closes and the condition of the next else-if is
\* put together.
ElseIf(hoists) ==
  /\ MayClose /\ Top.kind \in {"if", "elif"}
  /\ out' = Opened(Hoisted(Closed(out, Top), hoists), "elif")
  /\ Branch(Front(frames), Left(ctx, Top.kind), LeftHomes(homes, Top.kind),
            "elif", lazy - 1)
  /\ UNCHANGED phase

Else ==
  /\ MayClose /\ Top.kind \in {"if", "elif"}
  /\ out' = Opened(Closed(out, Top), "else")
  /\ Branch(Front(frames), Left(ctx, Top.kind), LeftHomes(homes, Top.kind),
            "else", lazy - 1)
  /\ UNCHANGED phase

\* A case of _emit_switch: statements in a scope of their own, or one expression
\* (or "pass"), which is written at once.
CaseOpened(o, op, kind) == IF kind = "leaf" THEN Simple(Opened(o, op)) ELSE Opened(o, op)

BeginSwitch(kind, hoists) ==
  /\ MayNest /\ Depth(ctx) < MaxScopes
  /\ out' = CaseOpened(Hoisted(out, hoists), "if", kind)
  /\ Branch(Noted(FALSE), ctx, homes, kind, lazy)
  /\ UNCHANGED phase

\* The next case, whose text repeats the subject: the subject is translated
\* once more.
NextCase(kind, hoists) ==
  /\ MayClose /\ Top.kind \in {"case", "leaf"}
  /\ out' = CaseOpened(Hoisted(Closed(out, Top), hoists), "elif", kind)
  /\ Branch(Front(frames), Left(ctx, Top.kind), LeftHomes(homes, Top.kind),
            kind, lazy - 1)
  /\ UNCHANGED phase

\* The default case is the last one and has no condition.  One that is a bare
\* expression is a block of one statement here: the scope it would not enter
\* stays empty.
DefaultCase ==
  /\ MayClose /\ Top.kind \in {"case", "leaf"}
  /\ out' = Opened(Closed(out, Top), "else")
  /\ Branch(Front(frames), Left(ctx, Top.kind), LeftHomes(homes, Top.kind),
            "else", lazy - 1)
  /\ UNCHANGED phase

\* The end of an if or of a switch.
EndBranches ==
  /\ MayClose /\ Top.kind \in BranchKinds
  /\ out' = Closed(out, Top)
  /\ ctx' = Left(ctx, Top.kind)
  /\ homes' = LeftHomes(homes, Top.kind)
  /\ lazy' = lazy - 1
  /\ frames' = Front(frames)
  /\ UNCHANGED phase

\* _emit_for_range and _emit_for_in: a scope with the loop variables.
BeginFor(targets, hoists) ==
  /\ MayNest /\ Depth(ctx) < MaxScopes
  /\ \A n \in ToSet(targets) : Resolve(ctx, n) # 0 => NamesReused
  /\ MayDeclareBoth(Entered(ctx, "loop"), targets, "loop")
  /\ ctx' = DeclaredBoth(Entered(ctx, "loop"), targets, "loop")
  /\ homes' = Append(homes, HomesOf(ctx', targets))
  /\ out' = Opened(Hoisted(out, hoists), "block")
  /\ frames' = Append(Noted(FALSE), Framed("for"))
  /\ UNCHANGED <<lazy, phase>>

\* _emit_while: a counter, the loop, and the guard against running forever.
BeginWhile(hoists) ==
  /\ MayNest /\ Depth(ctx) < MaxScopes
  /\ CanReserve(ctx, Guard)
  /\ ctx' = Entered(GuardReserved(ctx), "loop")
  /\ homes' = Append(homes, NoHomes)
  /\ out' = Block(Simple(Opened(Hoisted(Simple(out), hoists), "block")), "if")
  /\ frames' = Append(Noted(FALSE), Framed("while"))
  /\ UNCHANGED <<lazy, phase>>

EndLoop ==
  /\ MayClose /\ Top.kind \in {"for", "while"}
  /\ out' = Closed(out, Top)
  /\ ctx' = Left(ctx, Top.kind)
  /\ homes' = LeftHomes(homes, Top.kind)
  /\ frames' = Front(frames)
  /\ UNCHANGED <<lazy, phase>>

\* Mutants: the branch depth is not restored, or restored by every handler.
UnwoundNot(l) == l
UnwoundEvery(l) == l - Len(frames)

\* A statement or expression that is not supported raises out of every running
\* handler.  Only the branch depth is restored on the way (try/finally).
Unwound(l) == l - Cardinality(LazyFrames)

Raise ==
  /\ phase \in {"collect", "functions", "body"}
  /\ lazy' = Unwound(lazy)
  /\ frames' = << >>
  /\ phase' = "raised"
  /\ UNCHANGED <<ctx, out, homes>>

\* translate_program on the same Translator: of the state here nothing is reset.
\* (The indentation left by an error is the bound on how often.)
TranslateAgain ==
  /\ Retranslates /\ phase \in {"raised", "done"}
  /\ out.indent < MaxFrames
  /\ phase' = "start"
  /\ homes' = << NoHomes >>
  /\ UNCHANGED <<ctx, frames, lazy, out>>

LowerStructure ==
  \/ \E h \in MayHoist("if") :
        \/ BeginIf(h)
        \/ \E kind \in {"case", "leaf"} : BeginSwitch(kind, h)
  \/ \E h \in MayHoist("elif") :
        \/ ElseIf(h)
        \/ \E kind \in {"case", "leaf"} : NextCase(kind, h)
  \/ Else \/ DefaultCase \/ EndBranches
  \/ \E h \in MayHoist("loop") :
        \/ BeginWhile(h)
        \/ \E ns \in NameLists : BeginFor(ns, h)
  \/ EndLoop

LowerStatement ==
  \E h \in MayHoist("simple") :
     \/ EmitSimple(h)
     \/ \E n \in Names : EmitGlobalDeclaration(n, h)
     \/ \E n \in Names, kind \in Kinds : EmitLocalDeclaration(n, kind, h)
     \/ \E ns \in NameLists, g \in BOOLEAN : EmitTuple(ns, g, h)

LowerModule ==
  \/ \E n \in Names, kind \in Kinds : CollectGlobal(n, kind)
  \/ \E ns \in NameLists \union {<< >>} : BeginFunction(ns)
  \/ \E h \in MayHoist("simple") : EndFunction(h)
  \/ BeginProcessBar \/ EndModule
  \/ Raise \/ TranslateAgain

LoweringNext == LowerModule \/ LowerStatement \/ LowerStructure

LoweringSpec == LoweringInit /\ [][LoweringNext]_vars
-----------------------------------------------------------------------------
LoweringTypeOK ==
  /\ ContextTypeOK
  /\ frames \in Seq(Frame) /\ Len(frames) <= MaxFrames
  /\ lazy \in Nat
  /\ out.indent \in Nat /\ out.py.ok \in BOOLEAN
  /\ out.py.blocks \in Seq(LastStatements)
  /\ homes \in Seq([Names -> Cells \union {NoCell}])
  /\ phase \in {"start", "collect", "functions", "body", "done", "raised"}

\* Every line follows the ones before it in Python's block structure: a header
\* is followed by its block, and an elif or else by nothing but the chain it
\* continues (ast.parse in artifact.py is the first to look).
WellFormedPython == out.py.ok

\* Whatever handlers are running, and whatever ran before them, the emitter's
\* indentation, the scope stack and the branch depth are the ones of those
\* handlers: no path through a handler forgets a dedent, an exit_scope or an
\* _exit_lazy_branch.
Balanced ==
  phase # "raised" =>
    /\ out.indent = Len(frames)
    /\ Depth(ctx) = 1 + Cardinality({k \in 1 .. Len(frames) : OwnsScope(frames[k].kind)})
    /\ Len(homes) = Depth(ctx)
    /\ lazy = Cardinality(LazyFrames)

\* An error raised under any nesting of branches leaves the branch depth as it
\* was before the program: a later ta.highest is not lowered as if it stood in
\* a branch.
BranchDepthRestored == phase \in {"raised", "done", "start"} => lazy = 0

\* A reassignment of a visible Pine variable, wherever the lowering stands, writes
\* the cell that the variable's declaration writes, and a read reads it, unless
\* the variable has the name of a builtin.
ReadsReachHome ==
  \A n \in Names :
     IsVisible(n) =>
       /\ Resolve(ctx, n) # 0
       /\ CellOf(ctx.heap[Resolve(ctx, n)]) = Home(n)
       /\ ReadCell(ctx, n) \in {Home(n)} \union
                               (IF n \in BuiltinNames THEN {BuiltinValue} ELSE {})

\* In Pine a variable hides the builtin of its name; _translate_identifier reads
\* the builtin (expressions.py:225-249).
HidesBuiltin ==
  \A n \in BuiltinNames : IsVisible(n) => ReadCell(ctx, n) = Home(n)

\* Two Pine variables in scope together never share a cell.
HomesDistinct ==
  \A d, e \in 1 .. Len(homes), n, m \in Names :
     /\ <<d, n>> # <<e, m>>
     /\ homes[d][n] # NoCell /\ homes[e][m] # NoCell
     => homes[d][n] # homes[e][m]

\* A translation starts from the state of a new Translator.
FreshStart ==
  phase = "start" =>
    /\ ctx = EmptyContext
    /\ out = [indent |-> 0, py |-> EmptyModule]
    /\ lazy = 0
=============================================================================
