--------------------------- MODULE Context_proofs ---------------------------
(***************************************************************************)
(* Proofs about Context, for every set of identifiers, every naming        *)
(* function and every bound.                                               *)
(***************************************************************************)
EXTENDS Context, Integers, TLAPS

Context == [ scopes : Seq(Scope), used : SUBSET PyNames, heap : Seq(VarInfo),
             index : [ScopeIds \X Names -> Nat] ]

\* What each step of the component may assume of a context: ContextTypeOK with
\* the context as a parameter, so that the operators can be reasoned about one
\* at a time.
Typed(c) ==
  /\ c \in Context
  /\ Len(c.scopes) \in 1 .. MaxScopes + 1
  /\ \A d \in 1 .. Len(c.scopes), n \in Names :
        c.scopes[d].vars[n] \in 0 .. Len(c.heap)

\* A reservation returns a name of the base that was not handed out before.
LEMMA ReservedFresh ==
  ASSUME NEW c, NEW base \in Bases, CanReserve(c, base)
  PROVE  /\ Reserved(c, base) \in PyNames
         /\ Reserved(c, base) \notin c.used
         /\ \E k \in 1 .. MaxOrdinal : Reserved(c, base) = Candidate(base, k)
         /\ Candidate(base, 1) \in c.used \union {Reserved(c, base)}
<1> DEFINE K == CHOOSE k \in 1 .. MaxOrdinal : IsLeastFree(c.used, base, k)
<1>1. K \in 1 .. MaxOrdinal /\ IsLeastFree(c.used, base, K)
  BY DEF CanReserve
<1>2. Reserved(c, base) = Candidate(base, K)
  BY DEF Reserved
<1>3. Candidate(base, K) \in PyNames /\ Candidate(base, K) \notin c.used
  BY <1>1, ContextAssumption DEF ContextAssumption, IsLeastFree, IsFree
<1>4. Candidate(base, 1) \in c.used \union {Candidate(base, K)}
  <2>1. K = 1 \/ 1 < K
    BY <1>1, ContextAssumption DEF ContextAssumption
  <2> HIDE DEF K
  <2>2. CASE K = 1
    BY <2>2
  <2>3. CASE 1 < K
    BY <1>1, <2>3, ContextAssumption DEF IsLeastFree, ContextAssumption
  <2> QED BY <2>1, <2>2, <2>3
<1> HIDE DEF K
<1> QED BY <1>1, <1>2, <1>3, <1>4

LEMMA PreferredIsBase ==
  ASSUME NEW n \in Names, NEW kind
  PROVE  Preferred(n, kind) \in Bases
BY DEF Preferred, Bases

\* enter_scope pushes one scope without variables.
LEMMA EnteredTyped ==
  ASSUME NEW c, Typed(c), Depth(c) <= MaxScopes, NEW kind \in ScopeKinds
  PROVE  /\ Typed(Entered(c, kind))
         /\ Entered(c, kind).scopes =
              Append(c.scopes, [id |-> ScopeId(c, kind), vars |-> NoVars])
         /\ Entered(c, kind).used = c.used
         /\ Entered(c, kind).heap = c.heap
         /\ Entered(c, kind).index = c.index
<1> DEFINE s == [id |-> ScopeId(c, kind), vars |-> NoVars]
<1>1. s \in Scope
  BY ContextAssumption
     DEF Scope, ScopeId, ScopeIds, NoVars, Typed, Depth, ContextAssumption
<1>2. Entered(c, kind) = [scopes |-> Append(c.scopes, s), used |-> c.used,
                          heap |-> c.heap, index |-> c.index]
  BY DEF Entered, WithScopes
<1>3. \A n \in Names : s.vars[n] = 0
  BY DEF NoVars
<1> HIDE DEF s
<1>4. Append(c.scopes, s) \in Seq(Scope)
  BY <1>1 DEF Typed, Context
<1>5. Len(Append(c.scopes, s)) = Len(c.scopes) + 1
  BY <1>1 DEF Typed, Context
<1>6. \A d \in 1 .. Len(c.scopes) + 1, n \in Names :
        Append(c.scopes, s)[d].vars[n] \in 0 .. Len(c.heap)
  <2>1. /\ Len(c.heap) \in Nat
        /\ \A d \in 1 .. Len(c.scopes) : Append(c.scopes, s)[d] = c.scopes[d]
        /\ Append(c.scopes, s)[Len(c.scopes) + 1] = s
        /\ Len(c.scopes) \in Nat
    BY <1>1 DEF Typed, Context
  <2> TAKE d \in 1 .. Len(c.scopes) + 1, n \in Names
  <2>2. CASE d \in 1 .. Len(c.scopes)
    BY <2>1, <2>2 DEF Typed
  <2>3. CASE d = Len(c.scopes) + 1
    BY <1>3, <2>1, <2>3
  <2> QED BY <2>1, <2>2, <2>3
<1>7. Entered(c, kind) \in Context
  BY <1>2, <1>4 DEF Typed, Context
<1>8. Len(c.scopes) + 1 \in 1 .. MaxScopes + 1
  BY ContextAssumption DEF Typed, Context, Depth, ContextAssumption
<1>9. Typed(Entered(c, kind))
  BY <1>2, <1>5, <1>6, <1>7, <1>8 DEF Typed
<1> QED BY <1>2, <1>9 DEF s

LEMMA ExitedTyped ==
  ASSUME NEW c, Typed(c), Depth(c) > 1
  PROVE  /\ Typed(Exited(c))
         /\ Exited(c).scopes = SubSeq(c.scopes, 1, Len(c.scopes) - 1)
         /\ Len(Exited(c).scopes) = Len(c.scopes) - 1
         /\ Exited(c).used = c.used
         /\ Exited(c).heap = c.heap
         /\ Exited(c).index = c.index
<1> DEFINE t == SubSeq(c.scopes, 1, Len(c.scopes) - 1)
<1>1. Exited(c) = [scopes |-> t, used |-> c.used,
                   heap |-> c.heap, index |-> c.index]
  BY DEF Exited, WithScopes, Depth
<1>2. t \in Seq(Scope) /\ Len(t) = Len(c.scopes) - 1
      /\ \A d \in 1 .. Len(t) : t[d] = c.scopes[d]
  BY DEF Typed, Context, Depth
<1> HIDE DEF t
<1>3. Typed(Exited(c))
  <2>1. Exited(c) \in Context
    BY <1>1, <1>2 DEF Typed, Context
  <2>2. Len(t) \in 1 .. MaxScopes + 1
    BY <1>2, ContextAssumption DEF Typed, Depth, ContextAssumption
  <2>3. \A d \in 1 .. Len(t), n \in Names : t[d].vars[n] \in 0 .. Len(c.heap)
    BY <1>2 DEF Typed, Context, Depth
  <2> QED BY <1>1, <2>1, <2>2, <2>3 DEF Typed
<1> QED BY <1>1, <1>2, <1>3 DEF t

LEMMA GuardTyped ==
  ASSUME NEW c, Typed(c), CanReserve(c, Guard)
  PROVE  /\ Typed(GuardReserved(c))
         /\ GuardReserved(c).scopes = c.scopes
         /\ c.used \subseteq GuardReserved(c).used
         /\ GuardReserved(c).heap = c.heap
         /\ GuardReserved(c).index = c.index
<1>1. Reserved(c, Guard) \in PyNames
  BY ReservedFresh DEF Bases
<1>2. GuardReserved(c) = [scopes |-> c.scopes,
                          used |-> c.used \union {Reserved(c, Guard)},
                          heap |-> c.heap, index |-> c.index]
  BY DEF GuardReserved
<1> QED BY <1>1, <1>2 DEF Typed, Context

\* declare_var of a name the current scope does not have yet.
LEMMA DeclaredTyped ==
  ASSUME NEW c, Typed(c), NEW n \in Names, NEW kind \in DeclKinds,
         NEW series \in BOOLEAN, CanReserve(c, Preferred(n, kind)),
         CurrentScope(c).vars[n] = 0
  PROVE  /\ Typed(Declared(c, n, kind, series))
         /\ NewInfo(c, n, kind, series) \in VarInfo
<1> DEFINE i == Len(c.heap) + 1
           cur == CurrentScope(c)
           s == [id |-> cur.id, vars |-> [cur.vars EXCEPT ![n] = i]]
           info == NewInfo(c, n, kind, series)
           py == Reserved(c, Preferred(n, kind))
<1>1. py \in PyNames
  BY ReservedFresh, PreferredIsBase
<1>2. cur \in Scope /\ Depth(c) \in 1 .. Len(c.scopes)
  BY DEF Typed, Context, CurrentScope, Depth
<1>3. info \in VarInfo
  BY <1>1, <1>2, ContextAssumption
     DEF NewInfo, EmittedName, VarInfo, Scope, ContextAssumption
<1>4. i \in Nat /\ s \in Scope
  BY <1>2 DEF Scope, Typed, Context
<1>5. Declared(c, n, kind, series) =
        [ scopes |-> [c.scopes EXCEPT ![Depth(c)] = s],
          used   |-> c.used \union {py},
          heap   |-> Append(c.heap, info),
          index  |-> [c.index EXCEPT ![<<cur.id, n>>] = i] ]
  BY DEF Declared, CurrentScope
<1>6. \A m \in Names : s.vars[m] \in 0 .. i
  BY <1>2, <1>4 DEF Typed, Context, Scope, CurrentScope
<1> HIDE DEF cur, s, info, py
<1>7. /\ [c.scopes EXCEPT ![Depth(c)] = s] \in Seq(Scope)
      /\ Len([c.scopes EXCEPT ![Depth(c)] = s]) = Len(c.scopes)
  BY <1>2, <1>4 DEF Typed, Context
<1>8. Append(c.heap, info) \in Seq(VarInfo) /\ Len(Append(c.heap, info)) = i
  BY <1>3 DEF Typed, Context
<1>9. [c.index EXCEPT ![<<cur.id, n>>] = i] \in [ScopeIds \X Names -> Nat]
  BY <1>4 DEF Typed, Context
<1>10. \A d \in 1 .. Len(c.scopes), m \in Names :
         [c.scopes EXCEPT ![Depth(c)] = s][d].vars[m] \in 0 .. i
  <2>1. \A d \in 1 .. Len(c.scopes) :
          [c.scopes EXCEPT ![Depth(c)] = s][d] =
             IF d = Depth(c) THEN s ELSE c.scopes[d]
    BY <1>2 DEF Typed, Context
  <2>2. \A k \in 0 .. Len(c.heap) : k \in 0 .. i
    BY <1>4 DEF Typed, Context
  <2> QED BY <1>6, <2>1, <2>2 DEF Typed
<1>11. Declared(c, n, kind, series) \in Context
  BY <1>1, <1>5, <1>7, <1>8, <1>9 DEF Typed, Context
<1>12. Typed(Declared(c, n, kind, series))
  BY <1>5, <1>7, <1>8, <1>10, <1>11 DEF Typed
<1> QED BY <1>3, <1>5, <1>12 DEF cur, s, info, py

-----------------------------------------------------------------------------
\* The parts of ContextNext, each with what it leaves of the context.  Every
\* step enters a scope, leaves one, reserves a guard or declares a name.
LEMMA TypedIsTypeOK == ContextTypeOK <=> Typed(ctx)
BY DEF ContextTypeOK, Typed, Context

\* What a declaration may be: the four callers of declare_var.
IsDeclaration(c, c2, n, kind, series) ==
  /\ n \in Names /\ kind \in DeclKinds /\ series \in BOOLEAN
  /\ CanReserve(c, Preferred(n, kind))
  /\ CurrentScope(c).vars[n] = 0
  /\ c2 = Declared(c, n, kind, series)

\* A loop declares its variable in the scope it has just entered.
LEMMA EnterLoopDeclares ==
  ASSUME Typed(ctx), NEW n \in Names, EnterLoop(n)
  PROVE  /\ Depth(ctx) <= MaxScopes
         /\ IsDeclaration(Entered(ctx, "loop"), ctx', n, "loop", FALSE)
<1>0. Depth(ctx) \in Nat /\ Depth(ctx) >= 1 /\ MaxScopes \in Nat
  BY ContextAssumption DEF Typed, Context, Depth, ContextAssumption
<1>1. Depth(ctx) <= MaxScopes
  BY <1>0 DEF EnterLoop
<1>2. CanReserve(Entered(ctx, "loop"), Preferred(n, "loop"))
  BY DEF EnterLoop, CanDeclare, CanReserve, Entered, WithScopes
<1>3. CurrentScope(Entered(ctx, "loop")).vars[n] = 0
  <2>1. Entered(ctx, "loop").scopes =
          Append(ctx.scopes, [id |-> ScopeId(ctx, "loop"), vars |-> NoVars])
    BY DEF Entered, WithScopes
  <2> DEFINE s == [id |-> ScopeId(ctx, "loop"), vars |-> NoVars]
  <2>2. s \in Scope
    <3>1. ScopeId(ctx, "loop") \in ScopeIds
      BY <1>0, <1>1 DEF ScopeId, ScopeIds, ScopeKinds
    <3> QED BY <3>1 DEF Scope, NoVars
  <2>3. s.vars[n] = 0
    BY DEF NoVars
  <2> HIDE DEF s
  <2>4. CurrentScope(Entered(ctx, "loop")) = s
    BY <2>1, <2>2 DEF CurrentScope, Depth, Typed, Context, s
  <2> QED BY <2>3, <2>4
<1>4. ctx' = Declared(Entered(ctx, "loop"), n, "loop", FALSE)
  BY DEF EnterLoop
<1> QED BY <1>1, <1>2, <1>3, <1>4 DEF IsDeclaration, DeclKinds

\* A step is one of five changes of the context; the last one is a scope pushed
\* for a loop, in which the loop variable is declared in the same step.
LEMMA StepForms ==
  ASSUME Typed(ctx), [ContextNext]_ctx
  PROVE  \/ ctx' = ctx
         \/ \E kind \in ScopeKinds \ {"global"} :
               Depth(ctx) <= MaxScopes /\ ctx' = Entered(ctx, kind)
         \/ Depth(ctx) > 1 /\ ctx' = Exited(ctx)
         \/ /\ Depth(ctx) <= MaxScopes /\ CanReserve(ctx, Guard)
            /\ ctx' = Entered(GuardReserved(ctx), "loop")
         \/ \E n \in Names, kind \in DeclKinds, series \in BOOLEAN :
               IsDeclaration(ctx, ctx', n, kind, series)
         \/ \E n \in Names :
               /\ Depth(ctx) <= MaxScopes
               /\ IsDeclaration(Entered(ctx, "loop"), ctx', n, "loop", FALSE)
<1>1. Depth(ctx) \in Nat /\ Depth(ctx) >= 1 /\ MaxScopes \in Nat
  BY ContextAssumption DEF Typed, Context, Depth, ContextAssumption
<1>2. \A n \in Names, kind \in DeclKinds, series \in BOOLEAN :
        CanDeclare(n, kind) /\ ctx' = Declared(ctx, n, kind, series)
        => ctx' = ctx \/ IsDeclaration(ctx, ctx', n, kind, series)
  BY DEF IsDeclaration, CanDeclare, Declared
<1>3. CASE UNCHANGED ctx
  BY <1>3
<1>4. EnterBlock => Depth(ctx) <= MaxScopes /\ ctx' = Entered(ctx, "block")
  BY <1>1 DEF EnterBlock
<1>5. EnterFunction => Depth(ctx) <= MaxScopes /\ ctx' = Entered(ctx, "function")
  BY <1>1 DEF EnterFunction
<1>6. EnterWhile => /\ Depth(ctx) <= MaxScopes /\ CanReserve(ctx, Guard)
                    /\ ctx' = Entered(GuardReserved(ctx), "loop")
  BY <1>1 DEF EnterWhile
<1>7. CASE ExitScope
  BY <1>7 DEF ExitScope
<1>8. ASSUME NEW n \in Names, DeclareParam(n)
      PROVE  ctx' = ctx \/ IsDeclaration(ctx, ctx', n, "param", FALSE)
  BY <1>2, <1>8 DEF DeclareParam, DeclKinds
<1>9. ASSUME NEW n \in Names, EnterLoop(n)
      PROVE  /\ Depth(ctx) <= MaxScopes
             /\ IsDeclaration(Entered(ctx, "loop"), ctx', n, "loop", FALSE)
  BY <1>9, EnterLoopDeclares
<1>10. ASSUME NEW n \in Names, NEW kind \in Kinds,
              DeclareGlobal(n, kind) \/ DeclareLocal(n, kind)
       PROVE  ctx' = ctx \/ \E series \in BOOLEAN :
                              IsDeclaration(ctx, ctx', n, kind, series)
  <2>1. kind \in DeclKinds
    BY ContextAssumption DEF ContextAssumption, DeclKinds
  <2> QED BY <1>2, <1>10, <2>1 DEF DeclareGlobal, DeclareLocal
<1>11. Kinds \subseteq DeclKinds
  BY ContextAssumption DEF ContextAssumption, DeclKinds
<1>12. {"block", "function"} \subseteq ScopeKinds \ {"global"}
       /\ {"param", "loop"} \subseteq DeclKinds
  BY DEF ScopeKinds, DeclKinds
<1> QED BY <1>3, <1>4, <1>5, <1>6, <1>7, <1>8, <1>9, <1>10, <1>11, <1>12
     DEF ContextNext
-----------------------------------------------------------------------------
LEMMA InitTyped == ContextInit => Typed(ctx)
<1> DEFINE s == [id |-> GlobalId, vars |-> NoVars]
<1>1. s \in Scope
  BY ContextAssumption
     DEF Scope, GlobalId, ScopeIds, ScopeKinds, NoVars, ContextAssumption
<1>2. \A n \in Names : s.vars[n] = 0
  BY DEF NoVars
<1> HIDE DEF s
<1>3. << s >> \in Seq(Scope) /\ Len(<< s >>) = 1 /\ << s >>[1] = s
  BY <1>1
<1>4. EmptyContext = [scopes |-> << s >>, used |-> {}, heap |-> << >>,
                      index |-> [k \in ScopeIds \X Names |-> 0]]
  BY DEF EmptyContext, s
<1>5. << >> \in Seq(VarInfo) /\ Len(<< >>) = 0
  OBVIOUS
<1> QED BY <1>2, <1>3, <1>4, <1>5, ContextAssumption
     DEF ContextInit, Typed, Context, ContextAssumption

LEMMA DeclarationTyped ==
  ASSUME NEW c, Typed(c), NEW c2, NEW n, NEW kind, NEW series,
         IsDeclaration(c, c2, n, kind, series)
  PROVE  Typed(c2)
BY DeclaredTyped DEF IsDeclaration

LEMMA StepTyped ==
  ASSUME Typed(ctx), [ContextNext]_ctx
  PROVE  Typed(ctx')
<1>1. CASE ctx' = ctx
  BY <1>1
<1>2. ASSUME NEW kind \in ScopeKinds, Depth(ctx) <= MaxScopes,
             ctx' = Entered(ctx, kind)
      PROVE  Typed(ctx')
  BY <1>2, EnteredTyped
<1>3. CASE Depth(ctx) > 1 /\ ctx' = Exited(ctx)
  BY <1>3, ExitedTyped
<1>4. CASE /\ Depth(ctx) <= MaxScopes /\ CanReserve(ctx, Guard)
           /\ ctx' = Entered(GuardReserved(ctx), "loop")
  <2>1. Typed(GuardReserved(ctx)) /\ Depth(GuardReserved(ctx)) = Depth(ctx)
    BY <1>4, GuardTyped DEF Depth
  <2> QED BY <1>4, <2>1, EnteredTyped DEF ScopeKinds
<1>5. ASSUME NEW n \in Names, NEW kind \in DeclKinds, NEW series \in BOOLEAN,
             IsDeclaration(ctx, ctx', n, kind, series)
      PROVE  Typed(ctx')
  BY <1>5, DeclarationTyped
<1>6. ASSUME NEW n \in Names, Depth(ctx) <= MaxScopes,
             IsDeclaration(Entered(ctx, "loop"), ctx', n, "loop", FALSE)
      PROVE  Typed(ctx')
  BY <1>6, EnteredTyped, DeclarationTyped DEF ScopeKinds
<1> QED BY <1>1, <1>2, <1>3, <1>4, <1>5, <1>6, StepForms

\* Type correctness of the context, whatever the program and the naming.
THEOREM ContextTypeCorrect == ContextSpec => []ContextTypeOK
<1>1. ContextInit => Typed(ctx)
  BY InitTyped
<1>2. Typed(ctx) /\ [ContextNext]_ctx => Typed(ctx)'
  BY StepTyped DEF Typed, Context
<1>3. Typed(ctx) => ContextTypeOK
  BY TypedIsTypeOK
<1> QED BY <1>1, <1>2, <1>3, PTL DEF ContextSpec
-----------------------------------------------------------------------------
(***************************************************************************)
(* Unique names.  UniqueNames alone is not inductive: the new name differs *)
(* from the old ones because it was not handed out, so the invariant adds  *)
(* that every name a VariableInfo holds was.                               *)
(***************************************************************************)
NamesInv(c) ==
  /\ \A i \in 1 .. Len(c.heap) :
        c.heap[i].kind # "param" => c.heap[i].py \in c.used
  /\ \A i, j \in 1 .. Len(c.heap) :
        i # j /\ c.heap[i].kind # "param" /\ c.heap[j].kind # "param"
        => c.heap[i].py # c.heap[j].py

LEMMA NewHeap ==
  ASSUME NEW c, Typed(c), NEW c2, NEW n, NEW kind, NEW series,
         IsDeclaration(c, c2, n, kind, series)
  PROVE  /\ Len(c.heap) \in Nat
         /\ Len(c2.heap) = Len(c.heap) + 1
         /\ \A i \in 1 .. Len(c.heap) : c2.heap[i] = c.heap[i]
         /\ c2.heap[Len(c.heap) + 1] = NewInfo(c, n, kind, series)
         /\ c2.used = c.used \union {Reserved(c, Preferred(n, kind))}
<1>1. /\ NewInfo(c, n, kind, series) \in VarInfo
      /\ c2.heap = Append(c.heap, NewInfo(c, n, kind, series))
      /\ c2.used = c.used \union {Reserved(c, Preferred(n, kind))}
  <2>1. /\ n \in Names /\ kind \in DeclKinds /\ series \in BOOLEAN
        /\ CanReserve(c, Preferred(n, kind))
        /\ CurrentScope(c).vars[n] = 0
        /\ c2 = Declared(c, n, kind, series)
    BY DEF IsDeclaration
  <2>2. NewInfo(c, n, kind, series) \in VarInfo
    BY <2>1, DeclaredTyped
  <2>3. /\ c2.used = c.used \union {Reserved(c, Preferred(n, kind))}
        /\ c2.heap = Append(c.heap, NewInfo(c, n, kind, series))
    BY <2>1 DEF Declared
  <2> QED BY <2>2, <2>3
<1> QED BY <1>1 DEF Typed, Context

LEMMA DeclarationNames ==
  ASSUME NEW c, Typed(c), NamesInv(c), NEW c2, NEW n, NEW kind, NEW series,
         IsDeclaration(c, c2, n, kind, series)
  PROVE  NamesInv(c2)
<1> DEFINE L == Len(c.heap)
           new == NewInfo(c, n, kind, series)
           py == Reserved(c, Preferred(n, kind))
<1>1. py \notin c.used
  BY ReservedFresh, PreferredIsBase DEF IsDeclaration
<1>2. new.kind = kind /\ (kind # "param" => new.py = py)
  BY DEF NewInfo, EmittedName
<1> HIDE DEF new, py
<1>3. /\ L \in Nat /\ Len(c2.heap) = L + 1
      /\ \A i \in 1 .. L : c2.heap[i] = c.heap[i]
      /\ c2.heap[L + 1] = new
      /\ c2.used = c.used \union {py}
  BY NewHeap DEF new, py
<1> HIDE DEF L
<1>4. \A i \in 1 .. L + 1 : i \in 1 .. L \/ i = L + 1
  BY <1>3
<1>5. \A i \in 1 .. L : c.heap[i].kind # "param" => c.heap[i].py \in c.used
  BY DEF NamesInv, L
<1>6. \A i \in 1 .. L + 1 : c2.heap[i].kind # "param" => c2.heap[i].py \in c2.used
  BY <1>2, <1>3, <1>4, <1>5
<1>7. ASSUME NEW i \in 1 .. L + 1, NEW j \in 1 .. L + 1, i # j,
             c2.heap[i].kind # "param", c2.heap[j].kind # "param"
      PROVE  c2.heap[i].py # c2.heap[j].py
  <2>1. CASE i \in 1 .. L /\ j \in 1 .. L
    BY <1>3, <1>7, <2>1 DEF NamesInv, L
  <2>2. CASE i \in 1 .. L /\ j = L + 1
    BY <1>1, <1>2, <1>3, <1>5, <1>7, <2>2
  <2>3. CASE i = L + 1 /\ j \in 1 .. L
    BY <1>1, <1>2, <1>3, <1>5, <1>7, <2>3
  <2> QED BY <1>4, <1>7, <2>1, <2>2, <2>3
<1> QED BY <1>3, <1>6, <1>7 DEF NamesInv

LEMMA StepNames ==
  ASSUME Typed(ctx), NamesInv(ctx), [ContextNext]_ctx
  PROVE  NamesInv(ctx')
<1>1. ASSUME NEW c2, c2.heap = ctx.heap, ctx.used \subseteq c2.used
      PROVE  NamesInv(c2)
  BY <1>1 DEF NamesInv
<1>2. ASSUME NEW kind \in ScopeKinds, Depth(ctx) <= MaxScopes
      PROVE  NamesInv(Entered(ctx, kind))
  BY <1>1, <1>2, EnteredTyped
<1>3. CASE ctx' = ctx
  BY <1>3
<1>4. CASE Depth(ctx) > 1 /\ ctx' = Exited(ctx)
  BY <1>1, <1>4, ExitedTyped
<1>5. CASE /\ Depth(ctx) <= MaxScopes /\ CanReserve(ctx, Guard)
           /\ ctx' = Entered(GuardReserved(ctx), "loop")
  <2>1. /\ Typed(GuardReserved(ctx))
        /\ Depth(GuardReserved(ctx)) = Depth(ctx)
        /\ GuardReserved(ctx).heap = ctx.heap
        /\ ctx.used \subseteq GuardReserved(ctx).used
    BY <1>5, GuardTyped DEF Depth
  <2>2. /\ ctx'.heap = GuardReserved(ctx).heap
        /\ ctx'.used = GuardReserved(ctx).used
    BY <1>5, <2>1, EnteredTyped DEF ScopeKinds
  <2> QED BY <1>1, <2>1, <2>2
<1>6. ASSUME NEW n \in Names, NEW kind \in DeclKinds, NEW series \in BOOLEAN,
             IsDeclaration(ctx, ctx', n, kind, series)
      PROVE  NamesInv(ctx')
  BY <1>6, DeclarationNames
<1>7. ASSUME NEW n \in Names, Depth(ctx) <= MaxScopes,
             IsDeclaration(Entered(ctx, "loop"), ctx', n, "loop", FALSE)
      PROVE  NamesInv(ctx')
  BY <1>2, <1>7, EnteredTyped, DeclarationNames DEF ScopeKinds
<1> QED BY <1>2, <1>3, <1>4, <1>5, <1>6, <1>7, StepForms

\* A Python name belongs to one variable of the program for good
\* (NamingRegistry.reserve, naming.py), whatever the naming functions are.
THEOREM NamesAreUnique == ContextSpec => []UniqueNames
<1>1. ContextInit => Typed(ctx) /\ NamesInv(ctx)
  <2>1. ContextInit => ctx.heap = << >>
    BY DEF ContextInit, EmptyContext
  <2> QED BY <2>1, InitTyped DEF NamesInv
<1>2. /\ Typed(ctx) /\ NamesInv(ctx) /\ [ContextNext]_ctx
      => Typed(ctx)' /\ NamesInv(ctx)'
  <2>1. Typed(ctx)' <=> Typed(ctx')
    BY DEF Typed, Context
  <2>2. NamesInv(ctx)' <=> NamesInv(ctx')
    BY DEF NamesInv
  <2> QED BY <2>1, <2>2, StepTyped, StepNames
<1>3. NamesInv(ctx) => UniqueNames
  BY DEF NamesInv, UniqueNames
<1> QED BY <1>1, <1>2, <1>3, PTL DEF ContextSpec
-----------------------------------------------------------------------------
(***************************************************************************)
(* Metadata keys.  Scope ids repeat over time, but the depth in an id is   *)
(* the position on the stack, so that two scopes open together differ and  *)
(* the declaration of a name writes no key of another open scope.          *)
(***************************************************************************)
KeyOK(c, scope, n) ==
  scope.vars[n] # 0 =>
     /\ c.heap[scope.vars[n]].scope = scope.id
     /\ c.heap[scope.vars[n]].pine = n
     /\ c.index[<<scope.id, n>>] = scope.vars[n]

IndexInv(c) ==
  \A d \in 1 .. Len(c.scopes) :
     /\ c.scopes[d].id[2] = d - 1
     /\ \A n \in Names : KeyOK(c, c.scopes[d], n)

LEMMA NewScopes ==
  ASSUME NEW c, Typed(c), NEW c2, NEW n, NEW kind, NEW series,
         IsDeclaration(c, c2, n, kind, series)
  PROVE  /\ Len(c.scopes) \in Nat /\ Len(c2.scopes) = Len(c.scopes)
         /\ \A d \in 1 .. Len(c.scopes) :
              /\ c2.scopes[d].id = c.scopes[d].id
              /\ \A m \in Names :
                   c2.scopes[d].vars[m] =
                     IF d = Len(c.scopes) /\ m = n THEN Len(c.heap) + 1
                     ELSE c.scopes[d].vars[m]
         /\ \A id \in ScopeIds, m \in Names :
              c2.index[<<id, m>>] =
                IF id = c.scopes[Len(c.scopes)].id /\ m = n
                THEN Len(c.heap) + 1 ELSE c.index[<<id, m>>]
         /\ \A d \in 1 .. Len(c.scopes) : c.scopes[d] \in Scope
<1>1. /\ n \in Names
      /\ CurrentScope(c).vars[n] = 0
      /\ c2 = Declared(c, n, kind, series)
  BY DEF IsDeclaration
<1> DEFINE i == Len(c.heap) + 1
           cur == c.scopes[Len(c.scopes)]
           s == [id |-> cur.id, vars |-> [cur.vars EXCEPT ![n] = i]]
<1>2. /\ c2.scopes = [c.scopes EXCEPT ![Len(c.scopes)] = s]
      /\ c2.index = [c.index EXCEPT ![<<cur.id, n>>] = i]
  BY <1>1 DEF Declared, CurrentScope, Depth
<1>3. /\ Len(c.scopes) \in Nat
      /\ \A d \in 1 .. Len(c.scopes) : c.scopes[d] \in Scope
      /\ cur \in Scope
  BY DEF Typed, Context
<1>4. /\ s.id = cur.id
      /\ \A m \in Names : s.vars[m] = IF m = n THEN i ELSE cur.vars[m]
  BY <1>1, <1>3 DEF Scope
<1> HIDE DEF s
<1>5. /\ Len(c2.scopes) = Len(c.scopes)
      /\ \A d \in 1 .. Len(c.scopes) :
           c2.scopes[d] = IF d = Len(c.scopes) THEN s ELSE c.scopes[d]
  BY <1>2, <1>3 DEF Typed, Context
<1>6. \A id \in ScopeIds, m \in Names :
        c2.index[<<id, m>>] =
          IF id = cur.id /\ m = n THEN i ELSE c.index[<<id, m>>]
  BY <1>1, <1>2, <1>3 DEF Typed, Context
<1>7. \A d \in 1 .. Len(c.scopes) :
        /\ c2.scopes[d].id = c.scopes[d].id
        /\ \A m \in Names :
             c2.scopes[d].vars[m] =
               IF d = Len(c.scopes) /\ m = n THEN i ELSE c.scopes[d].vars[m]
  <2> TAKE d \in 1 .. Len(c.scopes)
  <2>1. CASE d = Len(c.scopes)
    BY <1>4, <1>5, <2>1
  <2>2. CASE d # Len(c.scopes)
    BY <1>5, <2>2
  <2> QED BY <2>1, <2>2
<1> QED BY <1>3, <1>5, <1>6, <1>7

LEMMA DeclarationIndex ==
  ASSUME NEW c, Typed(c), IndexInv(c), NEW c2, NEW n, NEW kind, NEW series,
         IsDeclaration(c, c2, n, kind, series)
  PROVE  IndexInv(c2)
<1> DEFINE L == Len(c.heap)
           D == Len(c.scopes)
<1>1. /\ L \in Nat /\ Len(c2.heap) = L + 1
      /\ \A i \in 1 .. L : c2.heap[i] = c.heap[i]
      /\ c2.heap[L + 1] = NewInfo(c, n, kind, series)
  BY NewHeap
<1>2. NewInfo(c, n, kind, series).scope = c.scopes[D].id
      /\ NewInfo(c, n, kind, series).pine = n
  BY DEF NewInfo, CurrentScope, Depth
<1>3. /\ D \in Nat /\ Len(c2.scopes) = D /\ D >= 1
      /\ \A d \in 1 .. D :
           /\ c2.scopes[d].id = c.scopes[d].id
           /\ \A m \in Names :
                c2.scopes[d].vars[m] =
                  IF d = D /\ m = n THEN L + 1 ELSE c.scopes[d].vars[m]
      /\ \A id \in ScopeIds, m \in Names :
           c2.index[<<id, m>>] =
             IF id = c.scopes[D].id /\ m = n THEN L + 1 ELSE c.index[<<id, m>>]
      /\ \A d \in 1 .. D : c.scopes[d] \in Scope
  BY NewScopes DEF Typed
<1>4. \A d \in 1 .. D, m \in Names : c.scopes[d].vars[m] \in 0 .. L
  BY DEF Typed
<1> HIDE DEF L, D
<1>5. \A d \in 1 .. D : c.scopes[d].id \in ScopeIds /\ c.scopes[d].id[2] = d - 1
  BY <1>3 DEF IndexInv, Scope, D
<1>6. ASSUME NEW d \in 1 .. D, NEW m \in Names, c2.scopes[d].vars[m] # 0
      PROVE  KeyOK(c2, c2.scopes[d], m)
  <2>1. CASE d = D /\ m = n
    BY <1>1, <1>2, <1>3, <1>5, <2>1 DEF KeyOK
  <2>2. CASE ~ (d = D /\ m = n)
    <3>1. c2.scopes[d].vars[m] = c.scopes[d].vars[m]
      BY <1>3, <2>2
    <3>2. c.scopes[d].vars[m] \in 1 .. L
      BY <1>1, <1>4, <1>6, <3>1
    <3>3. KeyOK(c, c.scopes[d], m)
      BY DEF IndexInv, D
    <3>4. D \in 1 .. D
      BY <1>3
    <3>5. c.scopes[d].id = c.scopes[D].id => d = D
      <4>1. c.scopes[d].id[2] = d - 1 /\ c.scopes[D].id[2] = D - 1
        BY <1>5, <3>4
      <4>2. D \in Int /\ d \in Int
        BY <1>3
      <4> QED BY <4>1, <4>2
    <3>6. c2.index[<<c2.scopes[d].id, m>>] = c.index[<<c.scopes[d].id, m>>]
      BY <1>3, <1>5, <2>2, <3>5
    <3>7. c2.heap[c.scopes[d].vars[m]] = c.heap[c.scopes[d].vars[m]]
          /\ c2.scopes[d].id = c.scopes[d].id
      BY <1>1, <1>3, <3>2
    <3> QED BY <1>6, <3>1, <3>3, <3>6, <3>7 DEF KeyOK
  <2> QED BY <2>1, <2>2
<1> QED BY <1>3, <1>5, <1>6 DEF IndexInv, KeyOK

LEMMA EnteredIndex ==
  ASSUME NEW c, Typed(c), IndexInv(c), Depth(c) <= MaxScopes,
         NEW kind \in ScopeKinds
  PROVE  IndexInv(Entered(c, kind))
<1> DEFINE s == [id |-> ScopeId(c, kind), vars |-> NoVars]
<1>1. s.id[2] = Len(c.scopes) /\ \A n \in Names : s.vars[n] = 0
  BY DEF ScopeId, NoVars, Depth
<1>2. /\ Entered(c, kind).scopes = Append(c.scopes, s)
      /\ Entered(c, kind).heap = c.heap
      /\ Entered(c, kind).index = c.index
  BY DEF Entered, WithScopes
<1> HIDE DEF s
<1>3. /\ Len(c.scopes) \in Nat
      /\ Len(Append(c.scopes, s)) = Len(c.scopes) + 1
      /\ \A d \in 1 .. Len(c.scopes) : Append(c.scopes, s)[d] = c.scopes[d]
      /\ Append(c.scopes, s)[Len(c.scopes) + 1] = s
  BY DEF Typed, Context
<1>4. \A scope, n : KeyOK(Entered(c, kind), scope, n) <=> KeyOK(c, scope, n)
  BY <1>2 DEF KeyOK
<1>5. ASSUME NEW d \in 1 .. Len(c.scopes) + 1
      PROVE  /\ Append(c.scopes, s)[d].id[2] = d - 1
             /\ \A n \in Names : KeyOK(c, Append(c.scopes, s)[d], n)
  <2>1. CASE d \in 1 .. Len(c.scopes)
    BY <1>3, <2>1 DEF IndexInv
  <2>2. CASE d = Len(c.scopes) + 1
    BY <1>1, <1>3, <2>2 DEF KeyOK
  <2> QED BY <1>3, <2>1, <2>2
<1> QED BY <1>2, <1>3, <1>4, <1>5 DEF IndexInv

LEMMA StepIndex ==
  ASSUME Typed(ctx), IndexInv(ctx), [ContextNext]_ctx
  PROVE  IndexInv(ctx')
<1>1. CASE ctx' = ctx
  BY <1>1
<1>2. CASE Depth(ctx) > 1 /\ ctx' = Exited(ctx)
  <2>1. /\ ctx'.scopes = SubSeq(ctx.scopes, 1, Len(ctx.scopes) - 1)
        /\ Len(ctx'.scopes) = Len(ctx.scopes) - 1
        /\ ctx'.heap = ctx.heap /\ ctx'.index = ctx.index
    BY <1>2, ExitedTyped
  <2>2. \A d \in 1 .. Len(ctx.scopes) - 1 : ctx'.scopes[d] = ctx.scopes[d]
    BY <1>2, <2>1 DEF Typed, Context, Depth
  <2>3. Len(ctx.scopes) \in Nat
    BY DEF Typed, Context
  <2>4. \A scope, n : KeyOK(ctx', scope, n) <=> KeyOK(ctx, scope, n)
    BY <2>1 DEF KeyOK
  <2>5. ASSUME NEW d \in 1 .. Len(ctx.scopes) - 1
        PROVE  /\ ctx.scopes[d].id[2] = d - 1
               /\ \A n \in Names : KeyOK(ctx, ctx.scopes[d], n)
    <3>1. d \in 1 .. Len(ctx.scopes)
      BY <2>3
    <3> QED BY <3>1 DEF IndexInv
  <2>6. ASSUME NEW d \in 1 .. Len(ctx'.scopes)
        PROVE  /\ ctx'.scopes[d].id[2] = d - 1
               /\ \A n \in Names : KeyOK(ctx', ctx'.scopes[d], n)
    <3>1. d \in 1 .. Len(ctx.scopes) - 1 /\ ctx'.scopes[d] = ctx.scopes[d]
      BY <2>1, <2>2, <2>6
    <3> QED BY <2>4, <2>5, <3>1
  <2> QED BY <2>6 DEF IndexInv
<1>3. CASE /\ Depth(ctx) <= MaxScopes /\ CanReserve(ctx, Guard)
           /\ ctx' = Entered(GuardReserved(ctx), "loop")
  <2>1. /\ Typed(GuardReserved(ctx))
        /\ Depth(GuardReserved(ctx)) = Depth(ctx)
        /\ IndexInv(GuardReserved(ctx))
    <3>1. /\ Typed(GuardReserved(ctx))
          /\ GuardReserved(ctx).scopes = ctx.scopes
          /\ GuardReserved(ctx).heap = ctx.heap
          /\ GuardReserved(ctx).index = ctx.index
      BY <1>3, GuardTyped
    <3>2. \A scope, n : KeyOK(GuardReserved(ctx), scope, n) <=> KeyOK(ctx, scope, n)
      BY <3>1 DEF KeyOK
    <3> QED BY <3>1, <3>2 DEF Depth, IndexInv
  <2> QED BY <1>3, <2>1, EnteredIndex DEF ScopeKinds
<1>4. ASSUME NEW kind \in ScopeKinds, Depth(ctx) <= MaxScopes
      PROVE  IndexInv(Entered(ctx, kind))
  BY <1>4, EnteredIndex
<1>5. ASSUME NEW n \in Names, NEW kind \in DeclKinds, NEW series \in BOOLEAN,
             IsDeclaration(ctx, ctx', n, kind, series)
      PROVE  IndexInv(ctx')
  BY <1>5, DeclarationIndex
<1>6. ASSUME NEW n \in Names, Depth(ctx) <= MaxScopes,
             IsDeclaration(Entered(ctx, "loop"), ctx', n, "loop", FALSE)
      PROVE  IndexInv(ctx')
  BY <1>4, <1>6, EnteredTyped, DeclarationIndex DEF ScopeKinds
<1> QED BY <1>1, <1>2, <1>3, <1>4, <1>5, <1>6, StepForms

\* The metadata key of a visible variable leads to that variable, although
\* enter_scope (context.py) gives the same id to scopes opened at different
\* times.
THEOREM KeysStayCurrent == ContextSpec => []IndexCurrent
<1>1. ContextInit => Typed(ctx) /\ IndexInv(ctx)
  <2>1. ContextInit => /\ Len(ctx.scopes) = 1
                       /\ ctx.scopes[1].id[2] = 0
                       /\ \A n \in Names : ctx.scopes[1].vars[n] = 0
    BY DEF ContextInit, EmptyContext, GlobalId, NoVars
  <2> QED BY <2>1, InitTyped DEF IndexInv, KeyOK
<1>2. /\ Typed(ctx) /\ IndexInv(ctx) /\ [ContextNext]_ctx
      => Typed(ctx)' /\ IndexInv(ctx)'
  <2>1. Typed(ctx)' <=> Typed(ctx')
    BY DEF Typed, Context
  <2>2. IndexInv(ctx)' <=> IndexInv(ctx')
    BY DEF IndexInv
  <2> QED BY <2>1, <2>2, StepTyped, StepIndex
<1>3. Typed(ctx) /\ IndexInv(ctx) => IndexCurrent
  <2> SUFFICES ASSUME Typed(ctx), IndexInv(ctx), NEW i \in Live(ctx)
               PROVE  ctx.index[<<ctx.heap[i].scope, ctx.heap[i].pine>>] = i
    BY DEF IndexCurrent
  <2>1. PICK d \in 1 .. Len(ctx.scopes), n \in Names : ctx.scopes[d].vars[n] = i
    BY DEF Live, IsLive, Depth
  <2>2. i # 0
    BY DEF Live
  <2>3. KeyOK(ctx, ctx.scopes[d], n)
    BY DEF IndexInv
  <2> QED BY <2>1, <2>2, <2>3 DEF KeyOK
<1> QED BY <1>1, <1>2, <1>3, PTL DEF ContextSpec
-----------------------------------------------------------------------------
(***************************************************************************)
(* Visible locals.  A parameter carries a name that was not reserved for   *)
(* it.  A later local differs from it because the base of the parameter is *)
(* used, or because no candidate is an escaped word's spelling; an earlier *)
(* one is never visible with it, for parameters come first in a function,  *)
(* which stands directly in the module, whose variables are all series.    *)
(***************************************************************************)
ArgumentName(c, info) ==
  /\ info.py = Snake(info.pine)
  /\ Base(info.pine) = Snake(info.pine) => info.py \in c.used

ReservedName(info) ==
  \E b \in Bases, k \in 1 .. MaxOrdinal : info.py = Candidate(b, k)

InfoOK(c, info) ==
  IF info.kind = "param" THEN ArgumentName(c, info) ELSE ReservedName(info)

Apart(f, g) ==
  f.kind = "param" /\ g.kind # "param" /\ ~ g.series => f.py # g.py

StackOK(c) ==
  /\ \A d \in 1 .. Len(c.scopes) : c.scopes[d].id[1] = "function" => d = 2
  /\ \A n \in Names : c.scopes[1].vars[n] # 0 => c.heap[c.scopes[1].vars[n]].series

LiveInv(c) ==
  /\ StackOK(c)
  /\ \A i \in 1 .. Len(c.heap) : InfoOK(c, c.heap[i])
  /\ \A i, j \in Live(c) : Apart(c.heap[i], c.heap[j])

LEMMA DeclarationLive ==
  ASSUME NEW c, Typed(c), LiveInv(c), NEW c2, NEW n, NEW kind, NEW series,
         IsDeclaration(c, c2, n, kind, series),
         kind = "param" =>
           \A j \in Live(c) : c.heap[j].kind = "param" \/ c.heap[j].series,
         Len(c.scopes) = 1 => series
  PROVE  LiveInv(c2)
<1> DEFINE L == Len(c.heap)
           D == Len(c.scopes)
           new == NewInfo(c, n, kind, series)
           b == Preferred(n, kind)
           py == Reserved(c, b)
<1>1. /\ L \in Nat /\ Len(c2.heap) = L + 1
      /\ \A i \in 1 .. L : c2.heap[i] = c.heap[i]
      /\ c2.heap[L + 1] = new
      /\ c2.used = c.used \union {py}
  BY NewHeap
<1>2. /\ D \in Nat /\ D >= 1 /\ Len(c2.scopes) = D
      /\ \A d \in 1 .. D :
           /\ c2.scopes[d].id = c.scopes[d].id
           /\ \A m \in Names :
                /\ c2.scopes[d].vars[m] =
                     IF d = D /\ m = n THEN L + 1 ELSE c.scopes[d].vars[m]
                /\ c.scopes[d].vars[m] \in 0 .. L
  BY NewScopes DEF Typed
<1>3. n \in Names /\ b \in Bases /\ CanReserve(c, b)
  BY PreferredIsBase DEF IsDeclaration
<1>4. /\ py \notin c.used
      /\ \E k \in 1 .. MaxOrdinal : py = Candidate(b, k)
      /\ Candidate(b, 1) \in c.used \union {py}
  BY <1>3, ReservedFresh
<1>5. /\ new.kind = kind /\ new.pine = n /\ new.series = series
      /\ kind = "param" => new.py = Snake(n) /\ b = Base(n)
      /\ kind # "param" => new.py = py
  BY DEF NewInfo, EmittedName, Preferred
<1> HIDE DEF L, D, new, b, py
<1>6. InfoOK(c2, new)
  <2>1. CASE kind = "param"
    <3>1. Base(n) = Snake(n) => Snake(n) \in c2.used
      BY <1>1, <1>3, <1>4, <1>5, <2>1, ContextAssumption DEF ContextAssumption
    <3> QED BY <1>5, <2>1, <3>1 DEF InfoOK, ArgumentName
  <2>2. CASE kind # "param"
    BY <1>3, <1>4, <1>5, <2>2 DEF InfoOK, ReservedName
  <2> QED BY <2>1, <2>2
<1>7. \A i \in 1 .. L + 1 : InfoOK(c2, c2.heap[i])
  <2>1. \A i \in 1 .. L : InfoOK(c, c.heap[i])
    BY DEF LiveInv, L
  <2>2. \A i \in 1 .. L : InfoOK(c2, c.heap[i])
    BY <1>1, <2>1 DEF InfoOK, ArgumentName
  <2> SUFFICES ASSUME NEW i \in 1 .. L + 1 PROVE InfoOK(c2, c2.heap[i])
    OBVIOUS
  <2>3. CASE i \in 1 .. L
    BY <1>1, <2>2, <2>3
  <2>4. CASE i = L + 1
    BY <1>1, <1>6, <2>4
  <2> QED BY <1>1, <2>3, <2>4
<1>8. StackOK(c2)
  <2>1. \A d \in 1 .. D : c2.scopes[d].id[1] = "function" => d = 2
    BY <1>2 DEF LiveInv, StackOK, D
  <2>2. ASSUME NEW m \in Names, c2.scopes[1].vars[m] # 0
        PROVE  c2.heap[c2.scopes[1].vars[m]].series
    <3>1. 1 \in 1 .. D
      BY <1>2
    <3>2. CASE 1 = D /\ m = n
      <4>1. c2.scopes[1].vars[m] = L + 1 /\ series
        BY <1>2, <3>1, <3>2 DEF D
      <4> QED BY <1>1, <1>5, <4>1
    <3>3. CASE ~ (1 = D /\ m = n)
      <4>1. c2.scopes[1].vars[m] = c.scopes[1].vars[m] /\ c.scopes[1].vars[m] \in 1 .. L
        BY <1>1, <1>2, <2>2, <3>1, <3>3
      <4>2. c.heap[c.scopes[1].vars[m]].series
        BY <1>1, <4>1 DEF LiveInv, StackOK
      <4> QED BY <1>1, <4>1, <4>2
    <3> QED BY <3>2, <3>3
  <2> QED BY <1>2, <2>1, <2>2 DEF StackOK
<1>9. \A i \in Live(c2) : i # L + 1 =>
        i \in Live(c) /\ i \in 1 .. L /\ c2.heap[i] = c.heap[i]
  <2> SUFFICES ASSUME NEW i \in Live(c2), i # L + 1
               PROVE  i \in Live(c) /\ i \in 1 .. L /\ c2.heap[i] = c.heap[i]
    OBVIOUS
  <2>1. i \in 1 .. L
    BY <1>1 DEF Live
  <2>2. PICK d \in 1 .. D, m \in Names : c2.scopes[d].vars[m] = i
    BY <1>2 DEF Live, IsLive, Depth
  <2>3. c.scopes[d].vars[m] = i
    BY <1>2, <2>2
  <2> QED BY <1>1, <2>1, <2>3 DEF Live, IsLive, Depth, L, D
<1>10. ASSUME NEW i \in Live(c2), NEW j \in Live(c2)
       PROVE  Apart(c2.heap[i], c2.heap[j])
  <2>1. CASE i # L + 1 /\ j # L + 1
    BY <1>9, <2>1 DEF LiveInv
  <2>2. CASE i = L + 1 /\ j = L + 1
    BY <2>2 DEF Apart
  <2>3. CASE i = L + 1 /\ j # L + 1
    BY <1>1, <1>5, <1>9, <2>3 DEF Apart
  <2>4. CASE i # L + 1 /\ j = L + 1
    <3> SUFFICES ASSUME c.heap[i].kind = "param", kind # "param"
                 PROVE  c.heap[i].py # py
      BY <1>1, <1>5, <1>9, <2>4 DEF Apart
    <3>1. i \in 1 .. L /\ c.heap[i] \in VarInfo
      BY <1>9, <2>4 DEF Typed, Context, L
    <3>2. ArgumentName(c, c.heap[i]) /\ c.heap[i].pine \in Names
      BY <3>1 DEF LiveInv, InfoOK, VarInfo, L
    <3>3. CASE Base(c.heap[i].pine) = Snake(c.heap[i].pine)
      BY <1>4, <3>2, <3>3 DEF ArgumentName
    <3>4. CASE Base(c.heap[i].pine) # Snake(c.heap[i].pine)
      BY <1>3, <1>4, <3>2, <3>4, ContextAssumption DEF ArgumentName, ContextAssumption
    <3> QED BY <3>3, <3>4
  <2> QED BY <2>1, <2>2, <2>3, <2>4
<1> QED BY <1>1, <1>7, <1>8, <1>10 DEF LiveInv

\* Nothing is live in a scope that was just entered.
LEMMA EnteredLive ==
  ASSUME NEW c, Typed(c), LiveInv(c), Depth(c) <= MaxScopes,
         NEW kind \in ScopeKinds, kind = "function" => Depth(c) = 1
  PROVE  LiveInv(Entered(c, kind))
<1> DEFINE s == [id |-> ScopeId(c, kind), vars |-> NoVars]
           D == Len(c.scopes)
           e == Entered(c, kind)
<1>1. s.id[1] = kind /\ \A n \in Names : s.vars[n] = 0
  BY DEF ScopeId, NoVars
<1>2. e.scopes = Append(c.scopes, s) /\ e.heap = c.heap /\ e.used = c.used
  BY EnteredTyped
<1> HIDE DEF s, e
<1>3. /\ D \in Nat /\ D >= 1 /\ Len(e.scopes) = D + 1
      /\ \A d \in 1 .. D : e.scopes[d] = c.scopes[d]
      /\ e.scopes[D + 1] = s
  BY <1>2 DEF Typed, Context
<1>4. kind = "function" => D = 1
  BY DEF Depth
<1> HIDE DEF D
<1>5. StackOK(e)
  <2>1. ASSUME NEW d \in 1 .. D + 1, e.scopes[d].id[1] = "function"
        PROVE  d = 2
    <3>1. CASE d \in 1 .. D
      BY <1>3, <2>1, <3>1 DEF LiveInv, StackOK, D
    <3>2. CASE d = D + 1
      BY <1>1, <1>3, <1>4, <2>1, <3>2
    <3> QED BY <1>3, <3>1, <3>2
  <2>2. e.scopes[1] = c.scopes[1]
    BY <1>3
  <2> QED BY <1>2, <1>3, <2>1, <2>2 DEF StackOK, LiveInv
<1>6. ASSUME NEW i \in Live(e) PROVE i \in Live(c)
  <2>1. PICK d \in 1 .. D + 1, n \in Names : e.scopes[d].vars[n] = i
    BY <1>3 DEF Live, IsLive, Depth
  <2>2. i \in 1 .. Len(c.heap) /\ Len(c.heap) \in Nat
    BY <1>2 DEF Live, Typed, Context
  <2>3. CASE d \in 1 .. D
    BY <1>3, <2>1, <2>2, <2>3 DEF Live, IsLive, Depth, D
  <2>4. CASE d = D + 1
    BY <1>1, <1>3, <2>1, <2>2, <2>4
  <2> QED BY <1>3, <2>3, <2>4
<1> QED BY <1>2, <1>5, <1>6 DEF LiveInv, InfoOK, ArgumentName, e

\* A parameter is declared while nothing but parameters and series is live.
LEMMA ParamsFirst ==
  ASSUME Typed(ctx), LiveInv(ctx), NEW n \in Names, DeclareParam(n)
  PROVE  /\ Len(ctx.scopes) = 2
         /\ \A j \in Live(ctx) : ctx.heap[j].kind = "param" \/ ctx.heap[j].series
<1> DEFINE D == Len(ctx.scopes)
<1>1. D \in Nat /\ D \in 1 .. D
  BY DEF Typed, Context
<1>2. D = 2
  BY <1>1 DEF DeclareParam, CurrentScope, Depth, LiveInv, StackOK
<1>3. ASSUME NEW j \in Live(ctx)
      PROVE  ctx.heap[j].kind = "param" \/ ctx.heap[j].series
  <2>1. PICK d \in 1 .. 2, m \in Names : ctx.scopes[d].vars[m] = j
    BY <1>2 DEF Live, IsLive, Depth
  <2>2. j # 0
    BY DEF Live
  <2>3. CASE d = 1
    BY <2>1, <2>2, <2>3 DEF LiveInv, StackOK
  <2>4. CASE d = 2
    BY <1>2, <2>1, <2>2, <2>4 DEF DeclareParam, CurrentScope, Depth
  <2> QED BY <2>3, <2>4
<1> QED BY <1>2, <1>3

LEMMA StepLive ==
  ASSUME Typed(ctx), LiveInv(ctx), [ContextNext]_ctx
  PROVE  LiveInv(ctx')
<1> DEFINE D == Len(ctx.scopes)
<1>1. D \in Nat /\ D >= 1 /\ MaxScopes \in Nat /\ Depth(ctx) = D
  BY ContextAssumption DEF Typed, Context, Depth, ContextAssumption
<1>2. CASE UNCHANGED ctx
  BY <1>2
<1>3. CASE EnterBlock
  BY <1>1, <1>3, EnteredLive DEF EnterBlock, ScopeKinds
<1>4. CASE EnterFunction
  BY <1>1, <1>4, EnteredLive DEF EnterFunction, ScopeKinds
<1>5. CASE EnterWhile
  <2> DEFINE g == GuardReserved(ctx)
  <2>1. /\ Typed(g) /\ g.scopes = ctx.scopes /\ g.heap = ctx.heap
        /\ ctx.used \subseteq g.used
    BY <1>5, GuardTyped DEF EnterWhile
  <2>2. ctx' = Entered(g, "loop") /\ Depth(g) <= MaxScopes
    BY <1>1, <1>5, <2>1 DEF EnterWhile, Depth
  <2> HIDE DEF g
  <2>3. LiveInv(g)
    BY <2>1 DEF LiveInv, StackOK, InfoOK, ArgumentName, Live, IsLive, Depth
  <2> QED BY <2>1, <2>2, <2>3, EnteredLive DEF ScopeKinds
<1>6. CASE ExitScope
  <2>1. /\ Len(ctx'.scopes) = D - 1 /\ D > 1
        /\ ctx'.scopes = SubSeq(ctx.scopes, 1, D - 1)
        /\ ctx'.heap = ctx.heap /\ ctx'.used = ctx.used
    BY <1>1, <1>6, ExitedTyped DEF ExitScope
  <2>2. \A d \in 1 .. D - 1 : ctx'.scopes[d] = ctx.scopes[d] /\ d \in 1 .. D
    BY <1>1, <2>1 DEF Typed, Context
  <2>3. 1 \in 1 .. D - 1
    BY <1>1, <2>1
  <2>4. StackOK(ctx')
    BY <2>1, <2>2, <2>3 DEF LiveInv, StackOK
  <2>5. ASSUME NEW i \in Live(ctx') PROVE i \in Live(ctx)
    <3>1. PICK d \in 1 .. D - 1, n \in Names : ctx'.scopes[d].vars[n] = i
      BY <2>1 DEF Live, IsLive, Depth
    <3>2. d \in 1 .. D /\ ctx.scopes[d].vars[n] = i
      BY <2>2, <3>1
    <3> QED BY <2>1, <3>2 DEF Live, IsLive, Depth
  <2> QED BY <2>1, <2>4, <2>5 DEF LiveInv, InfoOK, ArgumentName
<1>7. \A n \in Names, kind \in DeclKinds, series \in BOOLEAN :
        CanDeclare(n, kind) /\ ctx' = Declared(ctx, n, kind, series)
        => ctx' = ctx \/ IsDeclaration(ctx, ctx', n, kind, series)
  BY DEF IsDeclaration, CanDeclare, Declared
<1>8. ASSUME NEW n \in Names, DeclareParam(n) PROVE LiveInv(ctx')
  <2>1. ctx' = ctx \/ IsDeclaration(ctx, ctx', n, "param", FALSE)
    BY <1>7, <1>8 DEF DeclareParam, DeclKinds
  <2>2. /\ D # 1
        /\ \A j \in Live(ctx) : ctx.heap[j].kind = "param" \/ ctx.heap[j].series
    BY <1>8, ParamsFirst
  <2>3. CASE IsDeclaration(ctx, ctx', n, "param", FALSE)
    BY <2>2, <2>3, DeclarationLive
  <2> QED BY <2>1, <2>3
<1>9. ASSUME NEW n \in Names, NEW kind \in Kinds,
              DeclareGlobal(n, kind) \/ DeclareLocal(n, kind)
       PROVE  LiveInv(ctx')
  <2>1. kind \in DeclKinds /\ kind # "param"
    BY ContextAssumption DEF ContextAssumption, DeclKinds
  <2>2. CASE DeclareGlobal(n, kind)
    <3>1. ctx' = ctx \/ IsDeclaration(ctx, ctx', n, kind, TRUE)
      BY <1>7, <2>1, <2>2 DEF DeclareGlobal
    <3>2. CASE IsDeclaration(ctx, ctx', n, kind, TRUE)
      BY <2>1, <3>2, DeclarationLive
    <3> QED BY <3>1, <3>2
  <2>3. CASE DeclareLocal(n, kind)
    <3>1. D # 1
      <4>1. Depth(ctx) > 1
        BY <2>3, Zenon DEF DeclareLocal
      <4> HIDE DEF D
      <4> QED BY <1>1, <4>1
    <3>2. ctx' = ctx \/ IsDeclaration(ctx, ctx', n, kind, FALSE)
      BY <1>7, <2>1, <2>3 DEF DeclareLocal
    <3>3. CASE IsDeclaration(ctx, ctx', n, kind, FALSE)
      BY <2>1, <3>1, <3>3, DeclarationLive
    <3> QED BY <3>2, <3>3
  <2> QED BY <1>9, <2>2, <2>3
<1>10. ASSUME NEW n \in Names, EnterLoop(n) PROVE LiveInv(ctx')
  <2> DEFINE e == Entered(ctx, "loop")
  <2>1. D <= MaxScopes /\ IsDeclaration(e, ctx', n, "loop", FALSE)
    BY <1>1, <1>10, EnterLoopDeclares
  <2>2. /\ e.scopes = Append(ctx.scopes, [id |-> ScopeId(ctx, "loop"), vars |-> NoVars])
        /\ Typed(e)
    BY <1>1, <2>1, EnteredTyped DEF ScopeKinds
  <2>3. LiveInv(e)
    BY <1>1, <2>1, EnteredLive DEF ScopeKinds
  <2>4. Len(e.scopes) = D + 1
    BY <2>2 DEF Typed, Context
  <2>5. Len(e.scopes) # 1
    <3> HIDE DEF D, e
    <3> QED BY <1>1, <2>4
  <2> QED BY <2>1, <2>2, <2>3, <2>5, DeclarationLive
<1> QED
  BY <1>2, <1>3, <1>4, <1>5, <1>6, <1>8, <1>9, <1>10 DEF ContextNext

\* Two locals that are visible together have different names, but for two
\* parameters of one spelling (declarations.py, NamingRegistry.reserve).
THEOREM LocalsStayDistinct == ContextSpec => []LiveLocalsDistinct
<1>1. ContextInit => Typed(ctx) /\ NamesInv(ctx) /\ LiveInv(ctx)
  <2> SUFFICES ASSUME ContextInit PROVE LiveInv(ctx) /\ NamesInv(ctx)
    BY InitTyped
  <2>1. /\ Len(ctx.scopes) = 1 /\ ctx.scopes[1].id[1] = "global"
        /\ \A n \in Names : ctx.scopes[1].vars[n] = 0
        /\ Len(ctx.heap) = 0
    BY DEF ContextInit, EmptyContext, GlobalId, NoVars
  <2>2. StackOK(ctx)
    BY <2>1 DEF StackOK
  <2> QED BY <2>1, <2>2 DEF LiveInv, NamesInv, Live
<1>2. /\ Typed(ctx) /\ NamesInv(ctx) /\ LiveInv(ctx) /\ [ContextNext]_ctx
      => Typed(ctx)' /\ NamesInv(ctx)' /\ LiveInv(ctx)'
  <2>1. Typed(ctx)' <=> Typed(ctx')
    BY DEF Typed, Context
  <2>2. NamesInv(ctx)' <=> NamesInv(ctx')
    BY DEF NamesInv
  <2>3. LiveInv(ctx)' <=> LiveInv(ctx')
    BY DEF LiveInv, StackOK, InfoOK, ArgumentName, ReservedName, Apart, Live, IsLive,
           Depth, Bases
  <2> QED BY <2>1, <2>2, <2>3, StepTyped, StepNames, StepLive
<1>3. Typed(ctx) /\ NamesInv(ctx) /\ LiveInv(ctx) => LiveLocalsDistinct
  <2> SUFFICES ASSUME Typed(ctx), NamesInv(ctx), LiveInv(ctx),
                      NEW i \in Live(ctx), NEW j \in Live(ctx), i # j,
                      ~ ctx.heap[i].series, ~ ctx.heap[j].series,
                      ctx.heap[i].py = ctx.heap[j].py
               PROVE  /\ ctx.heap[i].kind = "param" /\ ctx.heap[j].kind = "param"
                      /\ Snake(ctx.heap[i].pine) = Snake(ctx.heap[j].pine)
    BY DEF LiveLocalsDistinct
  <2>1. i \in 1 .. Len(ctx.heap) /\ j \in 1 .. Len(ctx.heap)
    BY DEF Live
  <2>2. ctx.heap[i].kind = "param" \/ ctx.heap[j].kind = "param"
    BY <2>1 DEF NamesInv
  <2>3. ctx.heap[i].kind = "param" /\ ctx.heap[j].kind = "param"
    BY <2>2 DEF LiveInv, Apart
  <2> QED BY <2>1, <2>3 DEF LiveInv, InfoOK, ArgumentName
<1> QED BY <1>1, <1>2, <1>3, PTL DEF ContextSpec
=============================================================================
