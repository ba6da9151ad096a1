---------------------------- MODULE Homes_proofs ----------------------------
(***************************************************************************)
(* Proofs about Lowering: every read and reassignment of a variable in     *)
(* scope uses the cell of its declaration, and no two variables in scope   *)
(* share one, for every naming and every program that gives a local no     *)
(* name of a scope around it.  (MCLowering_ReadsReachHome.cfg shows what   *)
(* the others meet.)                                                       *)
(***************************************************************************)
EXTENDS Lowering_proofs

(***************************************************************************)
(* Contexts.  To what Context_proofs says of names, keys and arguments,    *)
(* lowering adds that a parameter is never a series and that the           *)
(* parameters in scope have different spellings.                           *)
(***************************************************************************)
SeriesDeclared(c) ==
  \A i \in 1 .. Len(c.heap) : c.heap[i].series => c.heap[i].kind # "param"

ParamsApart(c) ==
  \A i, j \in Live(c) :
     i # j /\ c.heap[i].kind = "param" /\ c.heap[j].kind = "param"
     => Snake(c.heap[i].pine) # Snake(c.heap[j].pine)

Scoped(c) ==
  Sound(c) /\ IndexInv(c) /\ LiveInv(c) /\ SeriesDeclared(c) /\ ParamsApart(c)

\* Only what was in scope before stays in scope.
LEMMA FewerLive ==
  ASSUME NEW c, NEW c2, c2.heap = c.heap, \A i \in Live(c2) : i \in Live(c),
         SeriesDeclared(c), ParamsApart(c)
  PROVE  SeriesDeclared(c2) /\ ParamsApart(c2)
BY DEF SeriesDeclared, ParamsApart

LEMMA EnteredScoped ==
  ASSUME NEW c, Scoped(c), Len(c.scopes) <= MaxScopes, NEW kind \in ScopeKinds,
         kind = "function" => Len(c.scopes) = 1
  PROVE  /\ Scoped(Entered(c, kind))
         /\ \A i \in Live(Entered(c, kind)) : i \in Live(c)
<1> DEFINE s == [id |-> ScopeId(c, kind), vars |-> NoVars]
           D == Len(c.scopes)
           e == Entered(c, kind)
<1>1. /\ Typed(c) /\ NamesInv(c) /\ IndexInv(c) /\ LiveInv(c)
      /\ SeriesDeclared(c) /\ ParamsApart(c) /\ Depth(c) = D
  BY DEF Scoped, Sound, Depth
<1>2. Sound(e)
  BY <1>1, EnteredSound DEF Sound
<1>3. IndexInv(e) /\ LiveInv(e)
  BY <1>1, EnteredIndex, EnteredLive
<1>4. e.scopes = Append(c.scopes, s) /\ e.heap = c.heap
  BY <1>1, EnteredTyped
<1>5. \A n \in Names : s.vars[n] = 0
  BY DEF NoVars
<1> HIDE DEF s, e
<1>6. /\ D \in Nat /\ Len(e.scopes) = D + 1 /\ e.scopes[D + 1] = s
      /\ \A d \in 1 .. D : e.scopes[d] = c.scopes[d]
  BY <1>1, <1>4 DEF Typed, Context
<1>7. ASSUME NEW i \in Live(e) PROVE i \in Live(c)
  <2>1. PICK d \in 1 .. D + 1, n \in Names : e.scopes[d].vars[n] = i
    BY <1>6 DEF Live, IsLive, Depth
  <2>2. i \in 1 .. Len(c.heap) /\ i # 0
    BY <1>4 DEF Live
  <2>3. d \in 1 .. D
    <3> HIDE DEF D
    <3> QED BY <1>5, <1>6, <2>1, <2>2
  <2>4. c.scopes[d].vars[n] = i
    BY <1>6, <2>1, <2>3
  <2> QED BY <2>2, <2>3, <2>4 DEF Live, IsLive, Depth
<1>8. SeriesDeclared(e) /\ ParamsApart(e)
  BY <1>1, <1>4, <1>7, FewerLive
<1> QED BY <1>2, <1>3, <1>7, <1>8 DEF Scoped, e

LEMMA GuardScoped ==
  ASSUME NEW c, Scoped(c), CanReserve(c, Guard)
  PROVE  Scoped(GuardReserved(c))
<1> DEFINE g == GuardReserved(c)
<1>1. /\ Typed(c) /\ IndexInv(c) /\ LiveInv(c) /\ SeriesDeclared(c) /\ ParamsApart(c)
  BY DEF Scoped, Sound
<1>2. Sound(g)
  BY GuardSound DEF Scoped
<1>3. g.scopes = c.scopes /\ g.heap = c.heap /\ g.index = c.index /\ c.used \subseteq g.used
  BY <1>1, GuardTyped
<1> HIDE DEF g
<1>4. IndexInv(g)
  <2>1. \A scope, n : KeyOK(g, scope, n) <=> KeyOK(c, scope, n)
    BY <1>3 DEF KeyOK
  <2> QED BY <1>1, <1>3, <2>1 DEF IndexInv
<1>5. LiveInv(g)
  BY <1>1, <1>3 DEF LiveInv, StackOK, InfoOK, ArgumentName, Live, IsLive, Depth
<1>6. Live(g) = Live(c)
  BY <1>3 DEF Live, IsLive, Depth
<1>7. SeriesDeclared(g)
  BY <1>1, <1>3 DEF SeriesDeclared
<1>8. ParamsApart(g)
  BY <1>1, <1>3, <1>6 DEF ParamsApart
<1> QED BY <1>2, <1>4, <1>5, <1>7, <1>8 DEF Scoped, g

LEMMA ExitedScoped ==
  ASSUME NEW c, Scoped(c), Len(c.scopes) > 1
  PROVE  Scoped(Exited(c))
<1> DEFINE x == Exited(c)
           D == Len(c.scopes)
<1>1. /\ Typed(c) /\ NamesInv(c) /\ IndexInv(c) /\ LiveInv(c)
      /\ SeriesDeclared(c) /\ ParamsApart(c) /\ Depth(c) = D /\ D \in Nat
  BY DEF Scoped, Sound, Depth, Typed, Context
<1>2. /\ Typed(x) /\ x.scopes = SubSeq(c.scopes, 1, D - 1) /\ Len(x.scopes) = D - 1
      /\ x.used = c.used /\ x.heap = c.heap /\ x.index = c.index
  BY <1>1, ExitedTyped
<1> HIDE DEF x
<1>3. \A d \in 1 .. D - 1 : x.scopes[d] = c.scopes[d] /\ d \in 1 .. D
  BY <1>1, <1>2 DEF Typed, Context
<1>4. NamesInv(x)
  BY <1>1, <1>2 DEF NamesInv
<1>5. IndexInv(x)
  <2>1. \A scope, n : KeyOK(x, scope, n) <=> KeyOK(c, scope, n)
    BY <1>2 DEF KeyOK
  <2>2. ASSUME NEW d \in 1 .. Len(x.scopes)
        PROVE  x.scopes[d].id[2] = d - 1 /\ \A n \in Names : KeyOK(x, x.scopes[d], n)
    <3>1. d \in 1 .. D /\ x.scopes[d] = c.scopes[d]
      BY <1>2, <1>3
    <3>2. c.scopes[d].id[2] = d - 1 /\ \A n \in Names : KeyOK(c, c.scopes[d], n)
      BY <1>1, <3>1 DEF IndexInv
    <3> QED BY <2>1, <3>1, <3>2
  <2> QED BY <2>2 DEF IndexInv
<1>6. ASSUME NEW i \in Live(x) PROVE i \in Live(c)
  <2>1. PICK d \in 1 .. D - 1, n \in Names : x.scopes[d].vars[n] = i
    BY <1>2 DEF Live, IsLive, Depth
  <2>2. d \in 1 .. D /\ c.scopes[d].vars[n] = i
    BY <1>3, <2>1
  <2> QED BY <1>2, <2>2 DEF Live, IsLive, Depth
<1>7. LiveInv(x)
  <2>1. 1 \in 1 .. D - 1
    BY <1>1
  <2>2. StackOK(x)
    BY <1>1, <1>2, <1>3, <2>1 DEF LiveInv, StackOK
  <2> QED BY <1>1, <1>2, <1>6, <2>2 DEF LiveInv, InfoOK, ArgumentName
<1>8. SeriesDeclared(x) /\ ParamsApart(x)
  BY <1>1, <1>2, <1>6, FewerLive
<1> QED BY <1>2, <1>4, <1>5, <1>7, <1>8 DEF Scoped, Sound, x

\* What is in scope after a declaration.
LEMMA DeclarationAdds ==
  ASSUME NEW c, Typed(c), NEW c2, NEW n, NEW kind, NEW series,
         IsDeclaration(c, c2, n, kind, series)
  PROVE  \A i \in Live(c2) :
           \/ i = Len(c.heap) + 1
           \/ i \in Live(c) /\ i \in 1 .. Len(c.heap) /\ c2.heap[i] = c.heap[i]
<1> DEFINE L == Len(c.heap)
           D == Len(c.scopes)
<1>1. L \in Nat /\ Len(c2.heap) = L + 1 /\ \A i \in 1 .. L : c2.heap[i] = c.heap[i]
  BY NewHeap
<1>2. /\ D \in Nat /\ Len(c2.scopes) = D
      /\ \A d \in 1 .. D, m \in Names :
           c2.scopes[d].vars[m] = IF d = D /\ m = n THEN L + 1 ELSE c.scopes[d].vars[m]
  BY NewScopes
<1> HIDE DEF L, D
<1> SUFFICES ASSUME NEW i \in Live(c2), i # L + 1
             PROVE  i \in Live(c) /\ i \in 1 .. L /\ c2.heap[i] = c.heap[i]
  BY DEF L
<1>3. i \in 1 .. L
  BY <1>1 DEF Live
<1>4. PICK d \in 1 .. D, m \in Names : c2.scopes[d].vars[m] = i
  BY <1>2 DEF Live, IsLive, Depth
<1>5. c.scopes[d].vars[m] = i
  BY <1>2, <1>4
<1> QED BY <1>1, <1>3, <1>5 DEF Live, IsLive, Depth, L, D

LEMMA DeclarationInfo ==
  ASSUME NEW c, Typed(c), NEW c2, NEW n, NEW kind, NEW series,
         IsDeclaration(c, c2, n, kind, series)
  PROVE  /\ c2.heap[Len(c.heap) + 1].kind = kind
         /\ c2.heap[Len(c.heap) + 1].pine = n
         /\ c2.heap[Len(c.heap) + 1].series <=> series
         /\ c2.scopes[Len(c.scopes)].vars[n] = Len(c.heap) + 1
<1>1. c2.heap[Len(c.heap) + 1] = NewInfo(c, n, kind, series)
  BY NewHeap
<1>2. /\ NewInfo(c, n, kind, series).kind = kind
      /\ NewInfo(c, n, kind, series).pine = n
      /\ NewInfo(c, n, kind, series).series = series
  BY DEF NewInfo
<1>3. c2.scopes[Len(c.scopes)].vars[n] = Len(c.heap) + 1
  <2>1. Len(c.scopes) \in 1 .. Len(c.scopes) /\ n \in Names
    BY DEF Typed, Context, IsDeclaration
  <2> QED BY <2>1, NewScopes
<1> QED BY <1>1, <1>2, <1>3

LEMMA DeclarationScoped ==
  ASSUME NEW c, Scoped(c), NEW c2, NEW n, NEW kind, NEW series,
         IsDeclaration(c, c2, n, kind, series),
         Len(c.scopes) = 1 => series,
         kind = "param" =>
           /\ ~ series
           /\ \A j \in Live(c) : \/ c.heap[j].series
                                 \/ c.heap[j].kind = "param" /\ Snake(c.heap[j].pine) # Snake(n)
  PROVE  Scoped(c2)
<1> DEFINE L == Len(c.heap)
           new == NewInfo(c, n, kind, series)
<1>1. Typed(c) /\ NamesInv(c) /\ IndexInv(c) /\ LiveInv(c) /\ SeriesDeclared(c) /\ ParamsApart(c)
  BY DEF Scoped, Sound
<1>2. Typed(c2) /\ NamesInv(c2) /\ IndexInv(c2)
  BY <1>1, DeclarationTyped, DeclarationNames, DeclarationIndex
<1>3. LiveInv(c2)
  <2>1. kind = "param" => \A j \in Live(c) : c.heap[j].kind = "param" \/ c.heap[j].series
    OBVIOUS
  <2> QED BY <1>1, <2>1, DeclarationLive
<1>4. /\ L \in Nat /\ Len(c2.heap) = L + 1 /\ c2.heap[L + 1] = new
      /\ \A i \in 1 .. L : c2.heap[i] = c.heap[i]
  BY <1>1, NewHeap
<1>5. new.kind = kind /\ new.pine = n /\ new.series = series
  BY DEF NewInfo
<1>6. \A i \in Live(c2) :
        i = L + 1 \/ (i \in Live(c) /\ i \in 1 .. L /\ c2.heap[i] = c.heap[i])
  BY <1>1, DeclarationAdds
<1> HIDE DEF L, new
<1>7. SeriesDeclared(c2)
  <2> SUFFICES ASSUME NEW i \in 1 .. L + 1, c2.heap[i].series PROVE c2.heap[i].kind # "param"
    BY <1>4 DEF SeriesDeclared
  <2>1. CASE i \in 1 .. L
    BY <1>1, <1>4, <2>1 DEF SeriesDeclared, L
  <2>2. CASE i = L + 1
    BY <1>4, <1>5, <2>2
  <2> QED BY <1>4, <2>1, <2>2
<1>8. \A i \in Live(c) : c.heap[i].series => c.heap[i].kind # "param"
  BY <1>1 DEF Live, SeriesDeclared
<1>9. ParamsApart(c2)
  <2> SUFFICES ASSUME NEW i \in Live(c2), NEW j \in Live(c2), i # j,
                      c2.heap[i].kind = "param", c2.heap[j].kind = "param"
               PROVE  Snake(c2.heap[i].pine) # Snake(c2.heap[j].pine)
    BY DEF ParamsApart
  <2>1. CASE i # L + 1 /\ j # L + 1
    BY <1>1, <1>6, <2>1 DEF ParamsApart
  <2>2. CASE i = L + 1 /\ j # L + 1
    BY <1>4, <1>5, <1>6, <1>8, <2>2
  <2>3. CASE i # L + 1 /\ j = L + 1
    BY <1>4, <1>5, <1>6, <1>8, <2>3
  <2> QED BY <2>1, <2>2, <2>3
<1> QED BY <1>2, <1>3, <1>7, <1>9 DEF Scoped, Sound
-----------------------------------------------------------------------------
(***************************************************************************)
(* Cells.  A variable that has a home is declared in the scope of that     *)
(* home, under a VariableInfo whose cell is the home; and what a scope     *)
(* other than the module's declares has a home (collect_globals declares   *)
(* the module's variables before the lines that give them one).            *)
(***************************************************************************)
PlacedAt(c, h, d, n) ==
  /\ h[d][n] # NoCell => /\ c.scopes[d].vars[n] # 0
                         /\ h[d][n] = CellOf(c.heap[c.scopes[d].vars[n]])
  /\ d > 1 /\ c.scopes[d].vars[n] # 0 => h[d][n] # NoCell

Placed(c, h) ==
  /\ h \in Seq(HomeTable) /\ Len(h) = Len(c.scopes)
  /\ \A d \in 1 .. Len(c.scopes), n \in Names : PlacedAt(c, h, d, n)

LEMMA CellIsSomewhere ==
  ASSUME NEW info
  PROVE  CellOf(info) # NoCell
BY DEF CellOf, NoCell

\* Names declared in the current scope get the cells of their VariableInfo.
LEMMA PlacedGrown ==
  ASSUME NEW c, Typed(c), NEW h, Placed(c, h), NEW c2, NEW N, Grown(c, c2, N),
         NEW h2 \in Seq(HomeTable), Len(h2) = Len(h),
         \A d \in 1 .. Len(h) : d # Len(h) => h2[d] = h[d],
         \A m \in Names : m \notin N => h2[Len(h)][m] = h[Len(h)][m],
         \A m \in Names : m \in N =>
           /\ c2.scopes[Len(h)].vars[m] # 0
           /\ h2[Len(h)][m] = CellOf(c2.heap[c2.scopes[Len(h)].vars[m]])
  PROVE  Placed(c2, h2)
<1> DEFINE D == Len(h)
           L == Len(c.heap)
<1>1. /\ D = Len(c.scopes) /\ D \in Nat /\ Len(c2.scopes) = D /\ Len(h2) = D
      /\ \A d \in 1 .. D, n \in Names : PlacedAt(c, h, d, n)
      /\ \A d \in 1 .. D, n \in Names : c.scopes[d].vars[n] \in 0 .. L
      /\ L \in Nat /\ \A i \in 1 .. L : c2.heap[i] = c.heap[i]
  BY DEF Placed, Grown, Typed, Context
<1>2. \A d \in 1 .. D, m \in Names :
        d # D \/ m \notin N => c2.scopes[d].vars[m] = c.scopes[d].vars[m]
  BY <1>1 DEF Grown
<1> HIDE DEF D, L
<1>3. ASSUME NEW d \in 1 .. D, NEW n \in Names
      PROVE  PlacedAt(c2, h2, d, n)
  <2>1. CASE d = D /\ n \in N
    <3>1. /\ c2.scopes[d].vars[n] # 0
          /\ h2[d][n] = CellOf(c2.heap[c2.scopes[d].vars[n]])
      BY <2>1 DEF D
    <3>2. h2[d][n] # NoCell
      BY <3>1, CellIsSomewhere
    <3> QED BY <3>1, <3>2 DEF PlacedAt
  <2>2. CASE ~ (d = D /\ n \in N)
    <3>1. h2[d][n] = h[d][n] /\ c2.scopes[d].vars[n] = c.scopes[d].vars[n]
      BY <1>2, <2>2 DEF D
    <3>2. c.scopes[d].vars[n] # 0 =>
            c2.heap[c.scopes[d].vars[n]] = c.heap[c.scopes[d].vars[n]]
      BY <1>1
    <3>3. PlacedAt(c, h, d, n)
      BY <1>1
    <3> QED BY <3>1, <3>2, <3>3 DEF PlacedAt
  <2> QED BY <2>1, <2>2
<1>4. Len(h2) = Len(c2.scopes) /\ \A d \in 1 .. Len(c2.scopes), n \in Names : PlacedAt(c2, h2, d, n)
  BY <1>1, <1>3
<1> QED BY <1>4 DEF Placed

\* The scope of a block starts without variables and without homes.
LEMMA PlacedEntered ==
  ASSUME NEW c, Typed(c), NEW h, Placed(c, h), Depth(c) <= MaxScopes, NEW kind \in ScopeKinds
  PROVE  Placed(Entered(c, kind), Append(h, NoHomes))
<1> DEFINE s == [id |-> ScopeId(c, kind), vars |-> NoVars]
           D == Len(c.scopes)
           e == Entered(c, kind)
           g == Append(h, NoHomes)
<1>1. e.scopes = Append(c.scopes, s) /\ e.heap = c.heap
  BY EnteredTyped
<1>2. \A n \in Names : s.vars[n] = 0
  BY DEF NoVars
<1>3. h \in Seq(HomeTable) /\ Len(h) = D /\ \A d \in 1 .. D, n \in Names : PlacedAt(c, h, d, n)
  BY DEF Placed
<1>4. \A n \in Names : NoHomes[n] = NoCell
  BY DEF NoHomes
<1> HIDE DEF s, e
<1>5. /\ D \in Nat /\ Len(e.scopes) = D + 1 /\ e.scopes[D + 1] = s
      /\ \A d \in 1 .. D : e.scopes[d] = c.scopes[d]
  BY <1>1 DEF Typed, Context
<1>6. /\ g \in Seq(HomeTable) /\ Len(g) = D + 1 /\ g[D + 1] = NoHomes
      /\ \A d \in 1 .. D : g[d] = h[d]
  <2> HIDE DEF HomeTable, NoHomes
  <2> QED BY <1>3, NoTable
<1> HIDE DEF g, D
<1>7. ASSUME NEW d \in 1 .. D + 1, NEW n \in Names PROVE PlacedAt(e, g, d, n)
  <2>1. CASE d \in 1 .. D
    <3>1. PlacedAt(c, h, d, n)
      BY <1>3, <2>1
    <3> QED BY <1>1, <1>5, <1>6, <2>1, <3>1 DEF PlacedAt
  <2>2. CASE d = D + 1
    <3>1. g[d][n] = NoCell /\ e.scopes[d].vars[n] = 0
      BY <1>2, <1>4, <1>5, <1>6, <2>2
    <3> QED BY <3>1 DEF PlacedAt
  <2> QED BY <1>5, <2>1, <2>2
<1> QED BY <1>5, <1>6, <1>7 DEF Placed, e, g

LEMMA PlacedExited ==
  ASSUME NEW c, Typed(c), NEW h, Placed(c, h), Depth(c) > 1
  PROVE  Placed(Exited(c), Front(h))
<1> DEFINE D == Len(c.scopes)
           x == Exited(c)
           g == Front(h)
<1>1. /\ x.scopes = SubSeq(c.scopes, 1, D - 1) /\ Len(x.scopes) = D - 1 /\ x.heap = c.heap
  BY ExitedTyped
<1>2. D \in Nat /\ D > 1 /\ \A d \in 1 .. D - 1 : x.scopes[d] = c.scopes[d] /\ d \in 1 .. D
  BY <1>1 DEF Typed, Context, Depth
<1>3. h \in Seq(HomeTable) /\ Len(h) = D /\ \A d \in 1 .. D, n \in Names : PlacedAt(c, h, d, n)
  BY DEF Placed
<1>4. g \in Seq(HomeTable) /\ Len(g) = D - 1 /\ \A d \in 1 .. D - 1 : g[d] = h[d]
  <2> HIDE DEF HomeTable
  <2>1. g = SubSeq(h, 1, D - 1)
    BY <1>3 DEF Front
  <2> QED BY <1>2, <1>3, <2>1
<1> HIDE DEF g, D, x
<1>5. ASSUME NEW d \in 1 .. D - 1, NEW n \in Names PROVE PlacedAt(x, g, d, n)
  <2>1. PlacedAt(c, h, d, n) /\ x.scopes[d] = c.scopes[d] /\ g[d] = h[d]
    BY <1>2, <1>3, <1>4
  <2> QED BY <1>1, <2>1 DEF PlacedAt
<1> QED BY <1>1, <1>4, <1>5 DEF Placed, x, g
-----------------------------------------------------------------------------
(***************************************************************************)
(* The declarations that lowering makes.                                   *)
(***************************************************************************)
LEMMA DeclaredScoped ==
  ASSUME NEW c, Scoped(c), NEW n \in Names, NEW kind \in DeclKinds, kind # "param",
         NEW series \in BOOLEAN, Len(c.scopes) = 1 => series,
         CurrentScope(c).vars[n] = 0 => CanReserve(c, Preferred(n, kind))
  PROVE  Scoped(Declared(c, n, kind, series))
<1> DEFINE c2 == Declared(c, n, kind, series)
<1>1. CASE CurrentScope(c).vars[n] # 0
  BY <1>1 DEF Declared
<1>2. CASE CurrentScope(c).vars[n] = 0
  <2>1. IsDeclaration(c, c2, n, kind, series)
    BY <1>2 DEF IsDeclaration
  <2> HIDE DEF c2
  <2>2. Scoped(c2)
    BY <2>1, DeclarationScoped
  <2> QED BY <2>2 DEF c2
<1> QED BY <1>1, <1>2

\* Declaring the second name of a list is possible, or it is the first one again.
LEMMA SecondOfList ==
  ASSUME NEW c, Sound(c), NEW ns \in NameLists, NEW kind \in DeclKinds,
         MayDeclareBoth(c, ns, kind)
  PROVE  LET one == Declared(c, ns[1], kind, FALSE)
         IN /\ Grown(c, one, {ns[1]}) /\ CurrentScope(one).vars[ns[1]] # 0
            /\ CurrentScope(one).vars[ns[2]] = 0 =>
                 ns[1] # ns[2] /\ CanReserve(one, Preferred(ns[2], kind))
            /\ CanReserve(c, Preferred(ns[1], kind))
<1> DEFINE one == Declared(c, ns[1], kind, FALSE)
<1>1. ns[1] \in Names /\ CanReserve(c, Preferred(ns[1], kind))
  BY DEF NameLists, MayDeclareBoth
<1>2. Grown(c, one, {ns[1]}) /\ CurrentScope(one).vars[ns[1]] # 0
  BY <1>1, DeclaredGrown
<1>3. ASSUME CurrentScope(one).vars[ns[2]] = 0
      PROVE  ns[1] # ns[2] /\ CanReserve(one, Preferred(ns[2], kind))
  <2>1. ns[1] # ns[2]
    BY <1>2, <1>3
  <2> QED BY <2>1 DEF MayDeclareBoth
<1> QED BY <1>1, <1>2, <1>3

LEMMA LoopScoped ==
  ASSUME NEW c, Scoped(c), Len(c.scopes) > 1, NEW ns \in NameLists,
         MayDeclareBoth(c, ns, "loop")
  PROVE  Scoped(DeclaredBoth(c, ns, "loop"))
<1> DEFINE one == Declared(c, ns[1], "loop", FALSE)
           two == Declared(one, ns[2], "loop", FALSE)
<1>1. ns[1] \in Names /\ ns[2] \in Names /\ "loop" \in DeclKinds /\ Sound(c)
  BY DEF NameLists, DeclKinds, Scoped
<1>2. /\ Grown(c, one, {ns[1]})
      /\ CurrentScope(one).vars[ns[2]] = 0 => CanReserve(one, Preferred(ns[2], "loop"))
      /\ CanReserve(c, Preferred(ns[1], "loop"))
  BY <1>1, SecondOfList
<1>3. Len(c.scopes) # 1
  BY <1>1 DEF Sound, Typed
<1>4. Scoped(one)
  BY <1>1, <1>2, <1>3, DeclaredScoped
<1>5. DeclaredBoth(c, ns, "loop") = two
  BY DEF DeclaredBoth
<1> HIDE DEF one
<1>6. Len(one.scopes) # 1
  BY <1>2, <1>3 DEF Grown
<1>7. Scoped(two)
  BY <1>1, <1>2, <1>4, <1>6, DeclaredScoped
<1> QED BY <1>5, <1>7

\* What is in scope while the parameters are declared.
OnlyParams(c, N) ==
  \A j \in Live(c) :
     \/ c.heap[j].series
     \/ c.heap[j].kind = "param" /\ c.heap[j].pine \in N

LEMMA ParamScoped ==
  ASSUME NEW c, Scoped(c), Len(c.scopes) = 2, NEW n \in Names, NEW N,
         CurrentScope(c).vars[n] = 0 => n \notin N /\ CanReserve(c, Preferred(n, "param")),
         \A m \in N : m # n => Snake(m) # Snake(n),
         OnlyParams(c, N)
  PROVE  LET c2 == Declared(c, n, "param", FALSE)
         IN Scoped(c2) /\ OnlyParams(c2, N \union {n})
<1> DEFINE c2 == Declared(c, n, "param", FALSE)
<1>1. CASE CurrentScope(c).vars[n] # 0
  <2>1. c2 = c
    BY <1>1 DEF Declared
  <2> HIDE DEF c2
  <2>2. Scoped(c2) /\ OnlyParams(c2, N \union {n})
    BY <2>1 DEF OnlyParams
  <2> QED BY <2>2 DEF c2
<1>2. CASE CurrentScope(c).vars[n] = 0
  <2>1. IsDeclaration(c, c2, n, "param", FALSE)
    BY <1>2 DEF IsDeclaration, DeclKinds
  <2>2. n \notin N
    BY <1>2
  <2> HIDE DEF c2
  <2>3. Scoped(c2)
    <3>1. /\ Len(c.scopes) = 1 => FALSE
          /\ \A j \in Live(c) :
               \/ c.heap[j].series
               \/ c.heap[j].kind = "param" /\ Snake(c.heap[j].pine) # Snake(n)
      BY <2>2 DEF OnlyParams
    <3> QED BY <2>1, <3>1, DeclarationScoped
  <2>4. Typed(c)
    BY DEF Scoped, Sound
  <2>5. c2.heap[Len(c.heap) + 1].kind = "param" /\ c2.heap[Len(c.heap) + 1].pine = n
    <3> DEFINE series == FALSE
    <3>1. IsDeclaration(c, c2, n, "param", series)
      BY <2>1
    <3> HIDE DEF series
    <3>2. c2.heap[Len(c.heap) + 1] = NewInfo(c, n, "param", series)
      BY <2>4, <3>1, NewHeap
    <3> QED BY <3>2 DEF NewInfo
  <2>6. \A i \in Live(c2) :
          \/ i = Len(c.heap) + 1
          \/ i \in Live(c) /\ i \in 1 .. Len(c.heap) /\ c2.heap[i] = c.heap[i]
    BY <2>1, <2>4, DeclarationAdds
  <2>7. OnlyParams(c2, N \union {n})
    BY <2>5, <2>6 DEF OnlyParams
  <2> QED BY <2>3, <2>7 DEF c2
<1> QED BY <1>1, <1>2

LEMMA ParamsScoped ==
  ASSUME NEW c, Scoped(c), Len(c.scopes) = 2, \A j \in Live(c) : c.heap[j].series,
         NEW ns \in NameLists, MayDeclareBoth(c, ns, "param"),
         ns[1] # ns[2] => Snake(ns[1]) # Snake(ns[2])
  PROVE  Scoped(DeclaredBoth(c, ns, "param"))
<1> DEFINE one == Declared(c, ns[1], "param", FALSE)
           two == Declared(one, ns[2], "param", FALSE)
<1>1. ns[1] \in Names /\ ns[2] \in Names /\ "param" \in DeclKinds /\ Sound(c)
  BY DEF NameLists, DeclKinds, Scoped
<1>2. /\ Grown(c, one, {ns[1]}) /\ CurrentScope(one).vars[ns[1]] # 0
      /\ CurrentScope(one).vars[ns[2]] = 0 =>
           ns[1] # ns[2] /\ CanReserve(one, Preferred(ns[2], "param"))
      /\ CanReserve(c, Preferred(ns[1], "param"))
  BY <1>1, SecondOfList
<1>3. OnlyParams(c, {})
  BY DEF OnlyParams
<1>4. Scoped(one) /\ OnlyParams(one, {} \union {ns[1]})
  BY <1>1, <1>2, <1>3, ParamScoped
<1>5. DeclaredBoth(c, ns, "param") = two
  BY DEF DeclaredBoth
<1> HIDE DEF one
<1>6. Len(one.scopes) = 2 /\ {} \union {ns[1]} = {ns[1]}
  BY <1>2 DEF Grown
<1>7. /\ \A m \in {ns[1]} : m # ns[2] => Snake(m) # Snake(ns[2])
      /\ ns[1] # ns[2] => ns[2] \notin {ns[1]}
  OBVIOUS
<1>8. CurrentScope(one).vars[ns[2]] = 0 =>
        ns[2] \notin {ns[1]} /\ CanReserve(one, Preferred(ns[2], "param"))
  BY <1>2, <1>7, Zenon
<1> QED BY <1>1, <1>4, <1>5, <1>6, <1>7, <1>8, ParamScoped
-----------------------------------------------------------------------------
(***************************************************************************)
(* Every action keeps the homes, when the Translator lowers one program    *)
(* and no local has the name of a variable around it.                      *)
(***************************************************************************)
HomesInv == Scoped(ctx) /\ Placed(ctx, homes)
HomesAfter == Scoped(ctx') /\ Placed(ctx', homes')

FreshNames == ~ Retranslates /\ ~ NamesReused

LEMMA RunningScopes ==
  ASSUME HandlersInv, frames # << >>
  PROVE  /\ Top.kind \in OwnKinds => Len(ctx.scopes) > 1
         /\ Top.kind \notin {"leaf", "bar"} => Top.kind \in OwnKinds
         /\ ~ Retranslates /\ Top.kind = "bar" => Len(ctx.scopes) = 1
         /\ Top.kind # "bar" => Len(ctx.scopes) - OneIf(Top.kind \in OwnKinds) <= MaxScopes
<1>1. /\ Stacked(frames) /\ Deep(frames, lazy, Len(homes), Len(ctx.scopes), out.indent)
      /\ Len(ctx.scopes) \in 1 .. MaxScopes + 1 /\ Top.kind \in FrameKinds
  BY Running
<1>2. /\ Top.kind \in OwnKinds => Len(ctx.scopes) > 1
      /\ Top.kind # "bar" => Len(ctx.scopes) - OneIf(Top.kind \in OwnKinds) <= MaxScopes
  <2>1. Len(ctx.scopes) <= MaxScopes + 1 /\ Top.kind = frames[Len(frames)].kind
    BY <1>1, ContextAssumption DEF Top
  <2> QED BY <1>1, <2>1, StackPop
<1>3. ASSUME ~ Retranslates, Top.kind = "bar" PROVE Len(ctx.scopes) = 1
  <2>1. OneIf(Top.kind \in OwnKinds) = 0
    BY <1>3 DEF OneIf, OwnKinds
  <2>2. Len(ctx.scopes) = 1 + OneIf(Top.kind \in OwnKinds)
    BY <1>3, EndRootHandlers
  <2> QED BY <2>1, <2>2
<1> QED BY <1>1, <1>2, <1>3 DEF OwnKinds

LEMMA SameHomes ==
  ASSUME HomesInv, ctx' = ctx, homes' = homes
  PROVE  HomesAfter
BY DEF HomesInv, HomesAfter

\* The state that a handler leaves, and the block of a branch.
LEMMA LeftHomesKept ==
  ASSUME HandlersInv, HomesInv, frames # << >>, Top.kind # "bar"
  PROVE  /\ Scoped(Left(ctx, Top.kind))
         /\ Placed(Left(ctx, Top.kind), LeftHomes(homes, Top.kind))
         /\ Len(Left(ctx, Top.kind).scopes) <= MaxScopes
<1>1. /\ Top.kind \in OwnKinds => Len(ctx.scopes) > 1
      /\ Len(ctx.scopes) - OneIf(Top.kind \in OwnKinds) <= MaxScopes
      /\ Top.kind \in FrameKinds
  BY RunningScopes, Running
<1>2. OwnsScope(Top.kind) <=> Top.kind \in OwnKinds
  BY <1>1 DEF OwnsScope, OwnKinds
<1>3. Scoped(ctx) /\ Placed(ctx, homes) /\ Typed(ctx) /\ Depth(ctx) = Len(ctx.scopes)
      /\ Len(ctx.scopes) \in Nat
  BY DEF HomesInv, Scoped, Sound, Depth, Typed, Context
<1>4. CASE Top.kind \in OwnKinds
  <2>1. Left(ctx, Top.kind) = Exited(ctx) /\ LeftHomes(homes, Top.kind) = Front(homes)
    BY <1>2, <1>4 DEF Left, LeftHomes
  <2>2. Len(Exited(ctx).scopes) = Len(ctx.scopes) - 1
    BY <1>1, <1>3, <1>4, ExitedTyped
  <2>3. Len(ctx.scopes) - 1 <= MaxScopes
    BY <1>1, <1>4 DEF OneIf
  <2> QED BY <1>1, <1>3, <1>4, <2>1, <2>2, <2>3, ExitedScoped, PlacedExited
<1>5. CASE Top.kind \notin OwnKinds
  <2>1. Left(ctx, Top.kind) = ctx /\ LeftHomes(homes, Top.kind) = homes
    BY <1>2, <1>5 DEF Left, LeftHomes
  <2>2. Len(ctx.scopes) - 0 <= MaxScopes
    BY <1>1, <1>5 DEF OneIf
  <2> QED BY <1>3, <2>1, <2>2
<1> QED BY <1>4, <1>5

LEMMA EnteredHomes ==
  ASSUME NEW c, Scoped(c), NEW h, Placed(c, h), Len(c.scopes) <= MaxScopes,
         NEW kind \in {"block", "loop"}
  PROVE  /\ Scoped(Entered(c, kind)) /\ Placed(Entered(c, kind), Append(h, NoHomes))
         /\ Len(Entered(c, kind).scopes) > 1
<1>1. kind \in ScopeKinds /\ kind # "function" /\ Typed(c) /\ Sound(c) /\ Depth(c) = Len(c.scopes)
      /\ Len(c.scopes) \in Nat \ {0}
  BY DEF ScopeKinds, Scoped, Sound, Depth, Typed, Context
<1>2. Len(Entered(c, kind).scopes) = Len(c.scopes) + 1
  BY <1>1, EnteredSound
<1>3. Len(c.scopes) + 1 > 1
  BY <1>1
<1> QED BY <1>1, <1>2, <1>3, EnteredScoped, PlacedEntered

LEMMA BranchHomes ==
  ASSUME NEW under, NEW c, Scoped(c), NEW h, Placed(c, h), Len(c.scopes) <= MaxScopes,
         NEW kind, NEW l, Branch(under, c, h, kind, l)
  PROVE  HomesAfter
<1>1. CASE OwnsScope(kind)
  <2>1. ctx' = Entered(c, "block") /\ homes' = Append(h, NoHomes)
    BY <1>1 DEF Branch
  <2> QED BY <2>1, EnteredHomes DEF HomesAfter
<1>2. CASE ~ OwnsScope(kind)
  <2>1. ctx' = c /\ homes' = h
    BY <1>2 DEF Branch
  <2> QED BY <2>1 DEF HomesAfter
<1> QED BY <1>1, <1>2

LEMMA BranchBeginsHomes ==
  ASSUME HandlersInv, HomesInv, (\E h \in BOOLEAN : BeginIf(h))
         \/ (\E kind \in {"case", "leaf"}, h \in BOOLEAN : BeginSwitch(kind, h))
  PROVE  HomesAfter
<1>1. \E kind : Depth(ctx) < MaxScopes /\ Branch(Noted(FALSE), ctx, homes, kind, lazy)
  BY DEF BeginIf, BeginSwitch
<1>2. Len(ctx.scopes) <= MaxScopes
  BY <1>1, ContextAssumption DEF Depth, HomesInv, Scoped, Sound, Typed
<1>3. Scoped(ctx) /\ Placed(ctx, homes)
  BY DEF HomesInv
<1> DEFINE under == Noted(FALSE)
<1>4. \E kind : Branch(under, ctx, homes, kind, lazy)
  BY <1>1
<1> HIDE DEF under
<1> QED BY <1>2, <1>3, <1>4, BranchHomes

LEMMA BranchFollowsHomes ==
  ASSUME HandlersInv, HomesInv,
         \/ \E h \in BOOLEAN : ElseIf(h)
         \/ \E kind \in {"case", "leaf"}, h \in BOOLEAN : NextCase(kind, h)
         \/ Else \/ DefaultCase
  PROVE  HomesAfter
<1> DEFINE c == Left(ctx, Top.kind)
           h == LeftHomes(homes, Top.kind)
<1>1. frames # << >> /\ Top.kind # "bar" /\ \E kind : Branch(Front(frames), c, h, kind, lazy - 1)
  BY DEF ElseIf, NextCase, Else, DefaultCase, MayClose
<1>2. Scoped(c) /\ Placed(c, h) /\ Len(c.scopes) <= MaxScopes
  BY <1>1, LeftHomesKept
<1> HIDE DEF c, h
<1> QED BY <1>1, <1>2, BranchHomes

LEMMA EndHomes ==
  ASSUME HandlersInv, HomesInv, EndBranches \/ EndLoop \/ (\E h \in BOOLEAN : EndFunction(h))
  PROVE  HomesAfter
<1>1. /\ frames # << >> /\ Top.kind # "bar"
      /\ ctx' = Left(ctx, Top.kind) /\ homes' = LeftHomes(homes, Top.kind)
  BY DEF BranchKinds, EndBranches, EndLoop, EndFunction, MayClose
<1> QED BY <1>1, LeftHomesKept DEF HomesAfter

\* The lists of names.
LEMMA ListPlaced ==
  ASSUME NEW e, Scoped(e), NEW h, NEW ns \in NameLists, NEW kind \in DeclKinds,
         Placed(e, Append(h, NoHomes)), h \in Seq(HomeTable), MayDeclareBoth(e, ns, kind),
         NEW c2, c2 = DeclaredBoth(e, ns, kind)
  PROVE  Placed(c2, Append(h, HomesOf(c2, ns)))
<1> DEFINE N == {ns[1], ns[2]}
           g == Append(h, NoHomes)
           g2 == Append(h, HomesOf(c2, ns))
<1>1. /\ ToSet(ns) = N /\ Sound(e) /\ Typed(e)
      /\ Grown(e, c2, N) /\ \A n \in N : CurrentScope(c2).vars[n] # 0
  BY ListMembers, BothGrown DEF Scoped, Sound
<1>2. \A n \in N : n \in Names
  BY ListMembers
<1> HIDE DEF N
<1>3. Sound(c2) /\ Typed(c2)
  BY <1>1 DEF Grown, Sound
<1>4. \A n \in N : Resolve(c2, n) = CurrentScope(c2).vars[n]
  BY <1>1, <1>2, <1>3, ResolveTop
<1>5. HomesOf(c2, ns) \in HomeTable
  BY <1>1, <1>3, <1>4, TableOf
<1> DEFINE t == HomesOf(c2, ns)
           D == Len(h) + 1
<1>6. \A n \in Names : t[n] = IF n \in N THEN CellOf(c2.heap[Resolve(c2, n)]) ELSE NoCell
  BY <1>1 DEF HomesOf
<1>7. \A n \in Names : NoHomes[n] = NoCell
  BY DEF NoHomes
<1> HIDE DEF t
<1>8. /\ g2 \in Seq(HomeTable) /\ Len(g2) = D /\ g2[D] = t /\ g[D] = NoHomes /\ Len(g) = D
      /\ \A d \in 1 .. D : d # D => g2[d] = g[d]
  <2>1. t \in HomeTable /\ NoHomes \in HomeTable
    BY <1>5, NoTable DEF t
  <2>2. g2 = Append(h, t)
    BY DEF t
  <2> HIDE DEF HomeTable, NoHomes, g2
  <2> QED BY <2>1, <2>2
<1> HIDE DEF g, g2, D
<1>9. D = Len(c2.scopes) /\ CurrentScope(c2) = c2.scopes[D]
  BY <1>1, <1>8 DEF Grown, Placed, g, CurrentScope, Depth
<1>10. \A m \in Names : m \notin N => g2[D][m] = g[D][m]
  BY <1>6, <1>7, <1>8
<1>11. \A m \in Names : m \in N =>
         c2.scopes[D].vars[m] # 0 /\ g2[D][m] = CellOf(c2.heap[c2.scopes[D].vars[m]])
  BY <1>1, <1>4, <1>6, <1>8, <1>9
<1>12. Placed(e, g)
  BY DEF g
<1>13. Placed(c2, g2)
  BY <1>1, <1>8, <1>10, <1>11, <1>12, PlacedGrown
<1> QED BY <1>13 DEF g2, t

LEMMA BeginForHomes ==
  ASSUME HandlersInv, HomesInv, NEW ns \in NameLists, NEW h \in BOOLEAN, BeginFor(ns, h)
  PROVE  HomesAfter
<1> DEFINE e == Entered(ctx, "loop")
<1>1. /\ frames # << >> /\ Depth(ctx) < MaxScopes /\ MayDeclareBoth(e, ns, "loop")
      /\ ctx' = DeclaredBoth(e, ns, "loop") /\ homes' = Append(homes, HomesOf(ctx', ns))
  BY DEF BeginFor, MayNest, AtStatement
<1>2. Scoped(ctx) /\ Placed(ctx, homes) /\ homes \in Seq(HomeTable)
  BY DEF HomesInv, Placed
<1>3. Len(ctx.scopes) <= MaxScopes
  BY <1>1, <1>2, ContextAssumption DEF Depth, Scoped, Sound, Typed
<1>4. Scoped(e) /\ Placed(e, Append(homes, NoHomes)) /\ Len(e.scopes) > 1
  BY <1>2, <1>3, EnteredHomes
<1>5. "loop" \in DeclKinds
  BY DEF DeclKinds
<1> HIDE DEF e
<1>6. Scoped(ctx')
  BY <1>1, <1>4, LoopScoped
<1>7. Placed(ctx', homes')
  BY <1>1, <1>2, <1>4, <1>5, ListPlaced
<1> QED BY <1>6, <1>7 DEF HomesAfter

LEMMA BeginWhileHomes ==
  ASSUME HandlersInv, HomesInv, NEW h \in BOOLEAN, BeginWhile(h)
  PROVE  HomesAfter
<1> DEFINE g == GuardReserved(ctx)
<1>1. /\ Depth(ctx) < MaxScopes /\ CanReserve(ctx, Guard)
      /\ ctx' = Entered(g, "loop") /\ homes' = Append(homes, NoHomes)
  BY DEF BeginWhile
<1>2. Scoped(ctx) /\ Placed(ctx, homes) /\ Typed(ctx)
  BY DEF HomesInv, Scoped, Sound
<1>3. Len(ctx.scopes) <= MaxScopes
  BY <1>1, <1>2, ContextAssumption DEF Depth, Typed
<1>4. Scoped(g) /\ g.scopes = ctx.scopes /\ g.heap = ctx.heap
  BY <1>1, <1>2, GuardScoped, GuardTyped
<1> HIDE DEF g
<1>5. Placed(g, homes)
  BY <1>2, <1>4 DEF Placed, PlacedAt
<1> QED BY <1>1, <1>3, <1>4, <1>5, EnteredHomes DEF HomesAfter

\* The variables of the module are series.
LEMMA GlobalsAreSeries ==
  ASSUME NEW c, Scoped(c), Len(c.scopes) = 1, NEW i \in Live(c)
  PROVE  c.heap[i].series
<1>1. PICK d \in 1 .. 1, n \in Names : c.scopes[d].vars[n] = i
  BY DEF Live, IsLive, Depth
<1>2. d = 1 /\ i # 0
  BY DEF Live
<1> QED BY <1>1, <1>2 DEF Scoped, LiveInv, StackOK

LEMMA BeginFunctionHomes ==
  ASSUME FreshNames, HandlersInv, HomesInv, NEW ns \in NameLists \union {<< >>}, BeginFunction(ns)
  PROVE  HomesAfter
<1> DEFINE e == Entered(ctx, "function")
<1>1. phase # "raised" /\ frames = << >> /\ Depth(ctx) < MaxScopes
  BY DEF BeginFunction
<1>2. /\ Scoped(ctx) /\ Placed(ctx, homes) /\ Sound(ctx) /\ Typed(ctx)
      /\ homes \in Seq(HomeTable) /\ Len(ctx.scopes) = 1
  BY <1>1, Resting DEF FreshNames, HomesInv, Scoped, Sound, Placed
<1>3. Len(ctx.scopes) <= MaxScopes /\ Depth(ctx) = Len(ctx.scopes) /\ "function" \in ScopeKinds
  BY <1>1, <1>2, ContextAssumption DEF Depth, ScopeKinds
<1>4. /\ Scoped(e) /\ Placed(e, Append(homes, NoHomes)) /\ e.heap = ctx.heap
      /\ Len(e.scopes) = 2 /\ \A i \in Live(e) : i \in Live(ctx)
  <2>1. Len(e.scopes) = Len(ctx.scopes) + 1
    BY <1>2, <1>3, EnteredSound
  <2>2. Scoped(e) /\ \A i \in Live(e) : i \in Live(ctx)
    BY <1>2, <1>3, EnteredScoped
  <2>3. Placed(e, Append(homes, NoHomes))
    BY <1>2, <1>3, PlacedEntered
  <2>4. e.heap = ctx.heap
    BY <1>2, <1>3, EnteredTyped
  <2> HIDE DEF e
  <2>5. Len(e.scopes) = 2
    BY <1>2, <2>1
  <2> QED BY <2>2, <2>3, <2>4, <2>5
<1> HIDE DEF e
<1>5. CASE ns = << >>
  <2>1. ctx' = e /\ homes' = Append(homes, NoHomes)
    BY <1>5 DEF BeginFunction, e
  <2> QED BY <1>4, <2>1 DEF HomesAfter
<1>6. CASE ns # << >>
  <2>1. /\ MayDeclareBoth(e, ns, "param") /\ ctx' = DeclaredBoth(e, ns, "param")
        /\ homes' = Append(homes, HomesOf(ctx', ns))
        /\ ns[1] # ns[2] => Snake(ns[1]) # Snake(ns[2])
    BY <1>6 DEF BeginFunction, e
  <2>2. ns \in NameLists /\ "param" \in DeclKinds
    BY <1>6 DEF DeclKinds
  <2>3. \A j \in Live(e) : e.heap[j].series
    BY <1>2, <1>4, GlobalsAreSeries
  <2>4. Scoped(ctx')
    BY <1>4, <2>1, <2>2, <2>3, ParamsScoped
  <2>5. Placed(ctx', homes')
    BY <1>2, <1>4, <2>1, <2>2, ListPlaced
  <2> QED BY <2>4, <2>5 DEF HomesAfter
<1> QED BY <1>5, <1>6

LEMMA BeginBarHomes ==
  ASSUME FreshNames, HandlersInv, HomesInv, BeginProcessBar
  PROVE  HomesAfter
<1>1. phase # "raised" /\ frames = << >> /\ ctx' = ctx /\ homes' = <<NoHomes>>
  BY DEF BeginProcessBar
<1>2. Scoped(ctx) /\ Len(ctx.scopes) = 1
  BY <1>1, Resting DEF FreshNames, HomesInv
<1>3. homes' \in Seq(HomeTable) /\ Len(homes') = 1 /\ homes'[1] = NoHomes
  <2> HIDE DEF HomeTable
  <2> QED BY <1>1, NoTable
<1>4. \A n \in Names : NoHomes[n] = NoCell
  BY DEF NoHomes
<1>5. ASSUME NEW d \in 1 .. 1, NEW n \in Names PROVE PlacedAt(ctx, homes', d, n)
  <2>1. d = 1 /\ ~ (d > 1)
    OBVIOUS
  <2> QED BY <1>3, <1>4, <2>1 DEF PlacedAt
<1>6. Placed(ctx, homes')
  BY <1>2, <1>3, <1>5 DEF Placed
<1> QED BY <1>1, <1>2, <1>6 DEF HomesAfter

\* One cell written in the innermost table.
LEMMA CellSet ==
  ASSUME NEW c, Sound(c), NEW h, Placed(c, h), NEW c2, NEW n \in Names, Grown(c, c2, {n}),
         c2.scopes[Len(h)].vars[n] # 0
  PROVE  Placed(c2, [h EXCEPT ![Len(h)][n] = CellOf(c2.heap[c2.scopes[Len(h)].vars[n]])])
<1> DEFINE h2 == [h EXCEPT ![Len(h)][n] = CellOf(c2.heap[c2.scopes[Len(h)].vars[n]])]
           D == Len(h)
           i == c2.scopes[D].vars[n]
           x == CellOf(c2.heap[i])
           t == [h[D] EXCEPT ![n] = x]
<1>1. h \in Seq(HomeTable) /\ D = Len(c.scopes) /\ D \in 1 .. D /\ Typed(c)
  BY DEF Placed, Sound, Typed, Context
<1>2. Typed(c2) /\ Len(c2.scopes) = D
  BY <1>1 DEF Grown, Sound
<1>3. x \in Cells
  <2>1. i \in 1 .. Len(c2.heap) /\ c2.heap \in Seq(VarInfo)
    <3>1. i \in 0 .. Len(c2.heap) /\ c2.heap \in Seq(VarInfo)
      BY <1>1, <1>2 DEF Typed, Context
    <3>2. Len(c2.heap) \in Nat
      <4> HIDE DEF VarInfo
      <4> QED BY <3>1
    <3> HIDE DEF i, VarInfo
    <3> QED BY <3>1, <3>2 DEF i
  <2>2. c2.heap[i] \in VarInfo
    <3> HIDE DEF i, VarInfo
    <3> QED BY <2>1
  <2> HIDE DEF i
  <2> QED BY <2>2 DEF VarInfo, CellOf, Cells
<1> HIDE DEF x
<1>4. h2 = [h EXCEPT ![D][n] = x]
  BY DEF x
<1>5. h2 \in Seq(HomeTable) /\ Len(h2) = D
  BY <1>1, <1>3, <1>4, TableSet
<1>6. h[D] \in HomeTable
  <2> HIDE DEF HomeTable
  <2> QED BY <1>1
<1>7. h2 = [h EXCEPT ![D] = t]
  BY <1>4
<1>8. \A m \in Names : t[m] = IF m = n THEN x ELSE h[D][m]
  BY <1>6 DEF HomeTable
<1> HIDE DEF t
<1>9. h2[D] = t /\ \A d \in 1 .. D : d # D => h2[d] = h[d]
  <2> HIDE DEF HomeTable, D
  <2> QED BY <1>1, <1>7 DEF D
<1> HIDE DEF D, h2
<1>10. \A m \in Names : m \notin {n} => h2[D][m] = h[D][m]
  BY <1>8, <1>9
<1>11. \A m \in Names : m \in {n} =>
         c2.scopes[D].vars[m] # 0 /\ h2[D][m] = CellOf(c2.heap[c2.scopes[D].vars[m]])
  BY <1>8, <1>9 DEF x, i, D
<1> DEFINE N == {n}
<1>12. Grown(c, c2, N)
  OBVIOUS
<1> HIDE DEF N, HomeTable, i
<1>13. Placed(c2, h2)
  BY <1>1, <1>5, <1>9, <1>10, <1>11, <1>12, PlacedGrown DEF D, N
<1> QED BY <1>13 DEF h2

LEMMA CellHome ==
  ASSUME NEW c, Sound(c), NEW h, Placed(c, h), NEW c2, NEW n \in Names, Grown(c, c2, {n}),
         CurrentScope(c2).vars[n] # 0, NEW x, x = CellOf(c2.heap[Resolve(c2, n)])
  PROVE  Placed(c2, [h EXCEPT ![Len(h)][n] = x])
<1>1. Typed(c2) /\ Len(c2.scopes) = Len(h)
  BY DEF Grown, Sound, Placed
<1>2. Resolve(c2, n) = CurrentScope(c2).vars[n]
  BY <1>1, ResolveTop
<1>3. CurrentScope(c2).vars[n] = c2.scopes[Len(h)].vars[n]
  BY <1>1 DEF CurrentScope, Depth
<1> DEFINE y == CellOf(c2.heap[c2.scopes[Len(h)].vars[n]])
<1>4. Placed(c2, [h EXCEPT ![Len(h)][n] = y])
  BY <1>3, CellSet
<1>5. x = y
  BY <1>2, <1>3
<1> HIDE DEF y
<1> QED BY <1>4, <1>5

\* A global that is in scope, and a local that is declared.
LEMMA GlobalCell ==
  ASSUME NEW c, Scoped(c), Len(c.scopes) = 1, NEW n \in Names, Resolve(c, n) # 0
  PROVE  /\ CurrentScope(c).vars[n] # 0
         /\ DeclaredCell(c, c.heap[Resolve(c, n)]) = CellOf(c.heap[Resolve(c, n)])
<1>1. Typed(c) /\ Depth(c) = 1
  BY DEF Scoped, Sound, Depth
<1>2. CurrentScope(c).vars[n] # 0
  <2>1. ASSUME c.scopes[1].vars[n] = 0 PROVE FALSE
    <3>1. DeclaringDepths(c, n) = {}
      BY <1>1, <2>1 DEF DeclaringDepths
    <3> QED BY <3>1 DEF Resolve
  <2> QED BY <1>1, <2>1 DEF CurrentScope
<1>3. Resolve(c, n) = c.scopes[1].vars[n]
  BY <1>1, <1>2, ResolveTop DEF CurrentScope
<1>4. c.heap[Resolve(c, n)].series
  <2>1. 1 \in 1 .. Len(c.scopes) /\ c.scopes[1].vars[n] # 0
    BY <1>1, <1>2 DEF CurrentScope
  <2> QED BY <1>3, <2>1 DEF Scoped, LiveInv, StackOK
<1> QED BY <1>1, <1>2, <1>4 DEF DeclaredCell, CellOf

LEMMA LocalCell ==
  ASSUME NEW c, Scoped(c), Len(c.scopes) > 1, NEW n \in Names, NEW kind \in DeclKinds,
         kind # "param", Resolve(c, n) = 0, MayResolve(c, n, kind)
  PROVE  LET c2 == ResolvedOrDeclared(c, n, kind)
         IN /\ Scoped(c2) /\ Grown(c, c2, {n}) /\ CurrentScope(c2).vars[n] # 0
            /\ Len(c2.scopes) > 1
            /\ DeclaredCell(c2, c2.heap[Resolve(c2, n)]) = CellOf(c2.heap[Resolve(c2, n)])
<1> DEFINE s == IsSeriesHere(c)
           c2 == Declared(c, n, kind, s)
<1>1. Typed(c) /\ Sound(c) /\ CanReserve(c, Preferred(n, kind)) /\ Len(c.scopes) \in Nat
  BY DEF Scoped, Sound, MayResolve, Typed, Context
<1>2. s \in BOOLEAN /\ ~ s /\ (Len(c.scopes) = 1 => s)
  <2>1. Len(c.scopes) # 1
    <3> DEFINE D == Len(c.scopes)
    <3>1. D \in Nat /\ D > 1
      BY <1>1
    <3> HIDE DEF D
    <3>2. D # 1
      BY <3>1
    <3> QED BY <3>2 DEF D
  <2>2. Depth(c) # 1
    BY <2>1 DEF Depth
  <2>3. s \in BOOLEAN /\ ~ s
    BY <2>2 DEF IsSeriesHere
  <2> QED BY <2>1, <2>3
<1>3. CurrentScope(c).vars[n] = 0
  <2>1. Len(c.scopes) \in 1 .. Len(c.scopes)
    BY <1>1 DEF Typed, Context
  <2> QED BY <1>1, <2>1, ResolveFinds DEF CurrentScope, Depth
<1> HIDE DEF s
<1>4. Scoped(c2)
  BY <1>1, <1>2, DeclaredScoped
<1>5. Grown(c, c2, {n}) /\ CurrentScope(c2).vars[n] # 0
  BY <1>1, <1>2, DeclaredGrown
<1>6. IsDeclaration(c, c2, n, kind, s)
  BY <1>1, <1>2, <1>3 DEF IsDeclaration
<1>7. ResolvedOrDeclared(c, n, kind) = c2
  BY DEF ResolvedOrDeclared, s
<1> HIDE DEF c2
<1>8. ~ c2.heap[Len(c.heap) + 1].series /\ c2.scopes[Len(c.scopes)].vars[n] = Len(c.heap) + 1
  BY <1>1, <1>2, <1>6, DeclarationInfo
<1>9. Len(c2.scopes) = Len(c.scopes) /\ Typed(c2)
  BY <1>5 DEF Grown, Sound
<1>10. Resolve(c2, n) = Len(c.heap) + 1
  <2>1. Resolve(c2, n) = CurrentScope(c2).vars[n]
    BY <1>5, <1>9, ResolveTop
  <2> QED BY <1>8, <1>9, <2>1 DEF CurrentScope, Depth
<1>11. DeclaredCell(c2, c2.heap[Resolve(c2, n)]) = CellOf(c2.heap[Resolve(c2, n)])
  <2>1. Depth(c2) # 1
    <3>1. Len(c2.scopes) # 1
      BY <1>1, <1>9
    <3> QED BY <3>1 DEF Depth
  <2> QED BY <1>8, <1>10, <2>1 DEF DeclaredCell, CellOf
<1>12. Len(c2.scopes) > 1
  BY <1>9
<1> QED BY <1>4, <1>5, <1>7, <1>11, <1>12

LEMMA CollectHomes ==
  ASSUME FreshNames, HandlersInv, HomesInv, NEW n \in Names, NEW kind \in Kinds,
         CollectGlobal(n, kind)
  PROVE  HomesAfter
<1> DEFINE s == TRUE
           c == Declared(ctx, n, kind, s)
           x == CellOf(ctx'.heap[Resolve(ctx', n)])
<1>1. /\ phase \in {"start", "collect"} /\ CanReserve(ctx, Preferred(n, kind))
      /\ ctx' = c /\ homes' = [homes EXCEPT ![1][n] = x]
  BY DEF CollectGlobal, CanDeclare
<1>2. frames = << >> /\ phase # "raised"
  BY <1>1 DEF HandlersInv, Handlers, Rooted
<1>3. Sound(ctx) /\ Len(homes) = 1 /\ Scoped(ctx) /\ Placed(ctx, homes) /\ Len(ctx.scopes) = 1
  BY <1>2, Resting DEF FreshNames, HomesInv
<1>4. kind \in DeclKinds /\ kind # "param"
  BY ContextAssumption DEF DeclKinds
<1>5. s \in BOOLEAN /\ (Len(ctx.scopes) = 1 => s)
  OBVIOUS
<1> HIDE DEF s
<1>6. Scoped(c)
  BY <1>1, <1>3, <1>4, <1>5, DeclaredScoped
<1>7. Grown(ctx, c, {n}) /\ CurrentScope(c).vars[n] # 0
  BY <1>1, <1>3, <1>4, <1>5, DeclaredGrown
<1> HIDE DEF c
<1>8. Grown(ctx, ctx', {n}) /\ CurrentScope(ctx').vars[n] # 0 /\ Scoped(ctx')
  BY <1>1, <1>6, <1>7
<1>9. x = CellOf(ctx'.heap[Resolve(ctx', n)])
  OBVIOUS
<1> HIDE DEF x
<1>10. Placed(ctx', [homes EXCEPT ![Len(homes)][n] = x])
  BY <1>3, <1>8, <1>9, CellHome
<1> QED BY <1>1, <1>3, <1>8, <1>10 DEF HomesAfter

LEMMA EmitGlobalHomes ==
  ASSUME FreshNames, HandlersInv, HomesInv, NEW n \in Names, NEW h \in BOOLEAN,
         EmitGlobalDeclaration(n, h)
  PROVE  HomesAfter
<1> DEFINE x == DeclaredCell(ctx, ctx.heap[Resolve(ctx, n)])
<1>1. /\ frames # << >> /\ Top.kind = "bar" /\ Resolve(ctx, n) # 0
      /\ ctx' = ctx /\ homes' = [homes EXCEPT ![1][n] = x]
  BY DEF EmitGlobalDeclaration, AtStatement
<1>2. Scoped(ctx) /\ Placed(ctx, homes) /\ Sound(ctx) /\ Len(ctx.scopes) = 1 /\ Len(homes) = 1
  BY <1>1, RunningScopes DEF FreshNames, HomesInv, Scoped, Placed
<1>3. CurrentScope(ctx).vars[n] # 0 /\ x = CellOf(ctx.heap[Resolve(ctx, n)])
  BY <1>1, <1>2, GlobalCell
<1>4. Grown(ctx, ctx, {n})
  BY <1>2, GrownSame
<1> HIDE DEF x
<1>5. Placed(ctx, [homes EXCEPT ![Len(homes)][n] = x])
  BY <1>2, <1>3, <1>4, CellHome
<1> QED BY <1>1, <1>2, <1>5 DEF HomesAfter

LEMMA EmitLocalHomes ==
  ASSUME FreshNames, HandlersInv, HomesInv, NEW n \in Names, NEW kind \in Kinds,
         NEW h \in BOOLEAN, EmitLocalDeclaration(n, kind, h)
  PROVE  HomesAfter
<1> DEFINE c == ResolvedOrDeclared(ctx, n, kind)
           x == DeclaredCell(ctx', ctx'.heap[Resolve(ctx', n)])
<1>1. /\ frames # << >> /\ Top.kind \notin {"leaf", "bar"} /\ MayResolve(ctx, n, kind)
      /\ Resolve(ctx, n) = 0
      /\ ctx' = c /\ homes' = [homes EXCEPT ![Len(homes)][n] = x]
  BY DEF EmitLocalDeclaration, AtStatement, MayDeclareLocal, FreshNames
<1>2. Scoped(ctx) /\ Placed(ctx, homes) /\ Sound(ctx) /\ Len(ctx.scopes) > 1
  BY <1>1, RunningScopes DEF HomesInv, Scoped
<1>3. kind \in DeclKinds /\ kind # "param"
  BY ContextAssumption DEF DeclKinds
<1>4. /\ Scoped(c) /\ Grown(ctx, c, {n}) /\ CurrentScope(c).vars[n] # 0
      /\ DeclaredCell(c, c.heap[Resolve(c, n)]) = CellOf(c.heap[Resolve(c, n)])
  BY <1>1, <1>2, <1>3, LocalCell
<1> HIDE DEF c
<1>5. /\ Scoped(ctx') /\ Grown(ctx, ctx', {n}) /\ CurrentScope(ctx').vars[n] # 0
      /\ x = CellOf(ctx'.heap[Resolve(ctx', n)])
  BY <1>1, <1>4
<1> HIDE DEF x
<1>6. Placed(ctx', [homes EXCEPT ![Len(homes)][n] = x])
  BY <1>2, <1>5, CellHome
<1> QED BY <1>1, <1>5, <1>6 DEF HomesAfter

\* The cells of a tuple written in the innermost table.
WithTuple(c, ns, h) ==
  [h EXCEPT ![Len(h)] = [n \in Names |-> IF n \in ToSet(ns)
                                         THEN CellOf(c.heap[Resolve(c, n)])
                                         ELSE h[Len(h)][n]]]

LEMMA TupleCells ==
  ASSUME NEW c, Sound(c), NEW h, Placed(c, h), NEW c2, NEW ns \in NameLists,
         Grown(c, c2, {ns[1], ns[2]}),
         \A n \in {ns[1], ns[2]} : CurrentScope(c2).vars[n] # 0
  PROVE  Placed(c2, WithTuple(c2, ns, h))
<1> DEFINE N == {ns[1], ns[2]}
           D == Len(h)
           t == [n \in Names |-> IF n \in ToSet(ns)
                                 THEN CellOf(c2.heap[Resolve(c2, n)])
                                 ELSE h[Len(h)][n]]
           h2 == [h EXCEPT ![Len(h)] = t]
<1>1. /\ h \in Seq(HomeTable) /\ D = Len(c.scopes) /\ Typed(c) /\ Typed(c2)
      /\ Len(c2.scopes) = D /\ D \in 1 .. D
  BY DEF Placed, Grown, Sound, Typed, Context
<1>2. ToSet(ns) = N /\ N \subseteq Names
  BY ListMembers
<1>3. Grown(c, c2, N) /\ \A n \in N : CurrentScope(c2).vars[n] # 0
  OBVIOUS
<1> HIDE DEF N
<1>4. \A n \in N : /\ Resolve(c2, n) = CurrentScope(c2).vars[n]
                   /\ Resolve(c2, n) # 0
  BY <1>1, <1>2, <1>3, ResolveTop
<1>5. \A n \in N : CellOf(c2.heap[Resolve(c2, n)]) \in Cells
  BY <1>2, <1>3, <1>4, CellTyped DEF Grown
<1>6. t \in HomeTable
  <2>1. h[D] \in HomeTable
    <3> HIDE DEF HomeTable
    <3> QED BY <1>1
  <2> QED BY <1>2, <1>5, <2>1 DEF HomeTable
<1>7. \A n \in Names : t[n] = IF n \in N THEN CellOf(c2.heap[Resolve(c2, n)]) ELSE h[D][n]
  BY <1>2
<1> HIDE DEF t
<1>8. /\ h2 \in Seq(HomeTable) /\ Len(h2) = D /\ h2[D] = t
      /\ \A d \in 1 .. D : d # D => h2[d] = h[d]
  <2>1. h2 \in Seq(HomeTable) /\ Len(h2) = D
    <3> HIDE DEF HomeTable
    <3> QED BY <1>1, <1>6, ExceptSeq
  <2>2. h2[D] = t /\ \A d \in 1 .. D : d # D => h2[d] = h[d]
    <3> HIDE DEF HomeTable
    <3> QED BY <1>1, <1>6
  <2> QED BY <2>1, <2>2
<1> HIDE DEF h2, D
<1>9. CurrentScope(c2) = c2.scopes[D]
  BY <1>1 DEF CurrentScope, Depth
<1>10. \A m \in Names : m \notin N => h2[D][m] = h[D][m]
  BY <1>7, <1>8
<1>11. \A m \in Names : m \in N =>
         c2.scopes[D].vars[m] # 0 /\ h2[D][m] = CellOf(c2.heap[c2.scopes[D].vars[m]])
  BY <1>3, <1>4, <1>7, <1>8, <1>9
<1> HIDE DEF HomeTable
<1>12. Placed(c2, h2)
  BY <1>1, <1>3, <1>8, <1>10, <1>11, PlacedGrown DEF D
<1> QED BY <1>12 DEF h2, t, WithTuple

\* Two locals, or one named twice.
LEMMA LocalsCells ==
  ASSUME NEW c, Scoped(c), Len(c.scopes) > 1, NEW a \in Names, NEW b \in Names,
         NEW kind \in DeclKinds, kind # "param", Resolve(c, a) = 0, Resolve(c, b) = 0,
         MayResolve(c, a, kind),
         NEW one, one = ResolvedOrDeclared(c, a, kind), MayResolve(one, b, kind),
         NEW two, two = ResolvedOrDeclared(one, b, kind)
  PROVE  /\ Scoped(two) /\ Grown(c, two, {a, b})
         /\ \A n \in {a, b} : CurrentScope(two).vars[n] # 0
<1>1. /\ Scoped(one) /\ Grown(c, one, {a}) /\ CurrentScope(one).vars[a] # 0
      /\ Len(one.scopes) > 1
  BY LocalCell
<1>2. Typed(c) /\ Typed(one) /\ Sound(c) /\ Sound(one)
  BY <1>1 DEF Scoped, Sound
<1>3. CASE a = b
  <2>1. Resolve(one, b) # 0
    BY <1>1, <1>2, <1>3, ResolveTop
  <2>2. two = one /\ {a, b} = {a}
    BY <1>3, <2>1 DEF ResolvedOrDeclared
  <2> QED BY <1>1, <2>2
<1>4. CASE a # b
  <2>1. \A d \in 1 .. Len(c.scopes) : c.scopes[d].vars[b] = 0
    BY <1>2, ResolveFinds
  <2>2. \A d \in 1 .. Len(one.scopes) : one.scopes[d].vars[b] = 0
    BY <1>1, <1>4, <2>1 DEF Grown
  <2>3. DeclaringDepths(one, b) = {}
    BY <2>2 DEF DeclaringDepths, Depth
  <2>4. Resolve(one, b) = 0
    BY <2>3 DEF Resolve
  <2>5. Scoped(two) /\ Grown(one, two, {b}) /\ CurrentScope(two).vars[b] # 0
    BY <1>1, <2>4, LocalCell
  <2>6. CurrentScope(two).vars[a] # 0
    <3>1. /\ Len(two.scopes) = Len(one.scopes)
          /\ Len(one.scopes) \in 1 .. Len(one.scopes)
      BY <1>2, <2>5 DEF Grown, Typed, Context
    <3> QED BY <1>1, <2>5, <3>1 DEF Grown, CurrentScope, Depth
  <2>7. {a, b} = {a} \union {b}
    OBVIOUS
  <2>8. Grown(c, two, {a} \union {b})
    BY <1>1, <1>2, <2>5, GrownMore
  <2> QED BY <2>5, <2>6, <2>7, <2>8
<1> QED BY <1>3, <1>4

LEMMA TuplePlaced ==
  ASSUME NEW c, Scoped(c), NEW h, Placed(c, h), NEW ns \in NameLists,
         \/ Len(c.scopes) = 1 /\ Resolve(c, ns[1]) # 0 /\ Resolve(c, ns[2]) # 0
         \/ Len(c.scopes) > 1 /\ Resolve(c, ns[1]) = 0 /\ Resolve(c, ns[2]) = 0,
         MayResolve(c, ns[1], "normal"),
         NEW one, one = ResolvedOrDeclared(c, ns[1], "normal"), MayResolve(one, ns[2], "normal"),
         NEW c2, c2 = ResolvedOrDeclared(one, ns[2], "normal")
  PROVE  Scoped(c2) /\ Placed(c2, WithTuple(c2, ns, h))
<1> DEFINE a == ns[1]
           b == ns[2]
           k == "normal"
<1>1. a \in Names /\ b \in Names /\ k \in DeclKinds /\ k # "param"
  BY ListMembers DEF DeclKinds
<1>2. Sound(c)
  BY DEF Scoped
<1>3. /\ MayResolve(c, a, k) /\ one = ResolvedOrDeclared(c, a, k)
      /\ MayResolve(one, b, k) /\ c2 = ResolvedOrDeclared(one, b, k)
  OBVIOUS
<1>4. \/ Len(c.scopes) = 1 /\ Resolve(c, a) # 0 /\ Resolve(c, b) # 0
      \/ Len(c.scopes) > 1 /\ Resolve(c, a) = 0 /\ Resolve(c, b) = 0
  OBVIOUS
<1> HIDE DEF a, b, k
<1>5. /\ Scoped(c2) /\ Grown(c, c2, {a, b})
      /\ \A n \in {a, b} : CurrentScope(c2).vars[n] # 0
  <2>1. CASE Len(c.scopes) = 1 /\ Resolve(c, a) # 0 /\ Resolve(c, b) # 0
    <3>1. c2 = c
      BY <1>3, <2>1 DEF ResolvedOrDeclared
    <3>2. \A n \in {a, b} : CurrentScope(c).vars[n] # 0
      BY <1>1, <2>1, GlobalCell
    <3>3. Grown(c, c, {a, b})
      BY <1>2, GrownSame
    <3> QED BY <3>1, <3>2, <3>3
  <2>2. CASE Len(c.scopes) > 1 /\ Resolve(c, a) = 0 /\ Resolve(c, b) = 0
    BY <1>1, <1>3, <2>2, LocalsCells
  <2> QED BY <1>4, <2>1, <2>2
<1>6. /\ Grown(c, c2, {ns[1], ns[2]})
      /\ \A n \in {ns[1], ns[2]} : CurrentScope(c2).vars[n] # 0
  BY <1>5 DEF a, b
<1> QED BY <1>2, <1>5, <1>6, TupleCells

LEMMA EmitTupleHomes ==
  ASSUME FreshNames, HandlersInv, HomesInv, NEW ns \in NameLists, NEW g \in BOOLEAN,
         NEW h \in BOOLEAN, EmitTuple(ns, g, h)
  PROVE  HomesAfter
<1> DEFINE first == ResolvedOrDeclared(ctx, ns[1], "normal")
<1>1. /\ frames # << >> /\ Top.kind # "leaf" /\ MayResolve(ctx, ns[1], "normal")
      /\ MayResolve(first, ns[2], "normal")
      /\ ctx' = ResolvedOrDeclared(first, ns[2], "normal")
      /\ homes' = WithTuple(ctx', ns, homes)
  BY DEF EmitTuple, AtStatement, WithTuple
<1>2. ToSet(ns) = {ns[1], ns[2]}
  BY ListMembers
<1>3. /\ Top.kind = "bar" => Resolve(ctx, ns[1]) # 0 /\ Resolve(ctx, ns[2]) # 0
      /\ Top.kind # "bar" => Resolve(ctx, ns[1]) = 0 /\ Resolve(ctx, ns[2]) = 0
  BY <1>2 DEF EmitTuple, MayDeclareLocal, FreshNames
<1>4. Scoped(ctx) /\ Placed(ctx, homes)
  BY DEF HomesInv
<1>5. /\ Top.kind = "bar" => Len(ctx.scopes) = 1
      /\ Top.kind # "bar" => Len(ctx.scopes) > 1
  BY <1>1, RunningScopes DEF FreshNames
<1>6. \/ Len(ctx.scopes) = 1 /\ Resolve(ctx, ns[1]) # 0 /\ Resolve(ctx, ns[2]) # 0
      \/ Len(ctx.scopes) > 1 /\ Resolve(ctx, ns[1]) = 0 /\ Resolve(ctx, ns[2]) = 0
  BY <1>3, <1>5, Zenon
<1>7. Scoped(ctx') /\ Placed(ctx', WithTuple(ctx', ns, homes))
  BY <1>1, <1>4, <1>6, TuplePlaced
<1> QED BY <1>1, <1>7 DEF HomesAfter
-----------------------------------------------------------------------------
(***************************************************************************)
(* The invariant holds always.                                             *)
(***************************************************************************)
LEMMA ActionHomes ==
  ASSUME FreshNames, HandlersInv, HomesInv, LoweringNext
  PROVE  HomesAfter
<1>1. CASE LowerModule
  <2>1. CASE \E n \in Names, kind \in Kinds : CollectGlobal(n, kind)
    BY <2>1, CollectHomes
  <2>2. CASE \E ns \in NameLists \union {<< >>} : BeginFunction(ns)
    BY <2>2, BeginFunctionHomes
  <2>3. CASE \E h \in MayHoist("simple") : EndFunction(h)
    BY <2>3, HoistsAreFlags, EndHomes
  <2>4. CASE BeginProcessBar
    BY <2>4, BeginBarHomes
  <2>5. CASE EndModule \/ Raise
    BY <2>5, SameHomes DEF EndModule, Raise
  <2>6. CASE TranslateAgain
    BY <2>6 DEF TranslateAgain, FreshNames
  <2> QED BY <1>1, <2>1, <2>2, <2>3, <2>4, <2>5, <2>6 DEF LowerModule
<1>2. CASE LowerStatement
  <2>1. PICK h \in MayHoist("simple") :
          \/ EmitSimple(h)
          \/ \E n \in Names : EmitGlobalDeclaration(n, h)
          \/ \E n \in Names, kind \in Kinds : EmitLocalDeclaration(n, kind, h)
          \/ \E ns \in NameLists, g \in BOOLEAN : EmitTuple(ns, g, h)
    BY <1>2 DEF LowerStatement
  <2>2. h \in BOOLEAN
    BY HoistsAreFlags
  <2>3. CASE EmitSimple(h)
    BY <2>3, SameHomes DEF EmitSimple
  <2>4. CASE \E n \in Names : EmitGlobalDeclaration(n, h)
    BY <2>2, <2>4, EmitGlobalHomes
  <2>5. CASE \E n \in Names, kind \in Kinds : EmitLocalDeclaration(n, kind, h)
    BY <2>2, <2>5, EmitLocalHomes
  <2>6. CASE \E ns \in NameLists, g \in BOOLEAN : EmitTuple(ns, g, h)
    BY <2>2, <2>6, EmitTupleHomes
  <2> QED BY <2>1, <2>3, <2>4, <2>5, <2>6
<1>3. CASE LowerStructure
  <2>1. CASE \E h \in MayHoist("if") : BeginIf(h) \/ \E kind \in {"case", "leaf"} : BeginSwitch(kind, h)
    BY <2>1, HoistsAreFlags, BranchBeginsHomes
  <2>2. CASE \E h \in MayHoist("elif") : ElseIf(h) \/ \E kind \in {"case", "leaf"} : NextCase(kind, h)
    BY <2>2, HoistsAreFlags, BranchFollowsHomes
  <2>3. CASE Else \/ DefaultCase
    BY <2>3, BranchFollowsHomes
  <2>4. CASE EndBranches \/ EndLoop
    BY <2>4, EndHomes
  <2>5. CASE \E h \in MayHoist("loop") : BeginWhile(h) \/ \E ns \in NameLists : BeginFor(ns, h)
    BY <2>5, HoistsAreFlags, BeginWhileHomes, BeginForHomes
  <2> QED BY <1>3, <2>1, <2>2, <2>3, <2>4, <2>5 DEF LowerStructure
<1> QED BY <1>1, <1>2, <1>3 DEF LoweringNext

LEMMA HomesPrimed == HomesAfter => HomesInv'
<1>1. Typed(ctx)' <=> Typed(ctx')
  BY DEF Typed, Context
<1>2. NamesInv(ctx)' <=> NamesInv(ctx')
  BY DEF NamesInv
<1>3. IndexInv(ctx)' <=> IndexInv(ctx')
  BY DEF IndexInv
<1>4. LiveInv(ctx)' <=> LiveInv(ctx')
  BY DEF LiveInv, StackOK, InfoOK, ArgumentName, ReservedName, Apart, Live, IsLive,
         Depth, Bases
<1>5. SeriesDeclared(ctx)' <=> SeriesDeclared(ctx')
  BY DEF SeriesDeclared
<1>6. ParamsApart(ctx)' <=> ParamsApart(ctx')
  BY DEF ParamsApart, Live, IsLive, Depth
<1>7. Scoped(ctx)' <=> Scoped(ctx')
  BY <1>1, <1>2, <1>3, <1>4, <1>5, <1>6 DEF Scoped, Sound
<1>8. Placed(ctx, homes)' <=> Placed(ctx', homes')
  BY DEF Placed
<1> QED BY <1>7, <1>8 DEF HomesInv, HomesAfter

LEMMA StepHomes ==
  ASSUME FreshNames
  PROVE  HandlersInv /\ HomesInv /\ [LoweringNext]_vars => HandlersInv' /\ HomesInv'
<1>1. CASE LoweringNext
  BY <1>1, ActionHomes, HomesPrimed, StepHandlers
<1>2. CASE UNCHANGED vars
  BY <1>2, SameHomes, HomesPrimed, StepHandlers DEF vars
<1> QED BY <1>1, <1>2

LEMMA InitHomes == LoweringInit => HomesInv
<1> SUFFICES ASSUME LoweringInit PROVE HomesInv
  OBVIOUS
<1>1. ContextInit /\ homes = <<NoHomes>> /\ Typed(ctx) /\ NamesInv(ctx)
  BY InitHandlers DEF LoweringInit, HandlersInv, Handlers, Sound
<1>2. /\ Len(ctx.scopes) = 1 /\ ctx.scopes[1].id[1] = "global" /\ ctx.scopes[1].id[2] = 0
      /\ \A n \in Names : ctx.scopes[1].vars[n] = 0
      /\ Len(ctx.heap) = 0
  BY <1>1 DEF ContextInit, EmptyContext, GlobalId, NoVars
<1>3. IndexInv(ctx)
  BY <1>2 DEF IndexInv, KeyOK
<1>4. Live(ctx) = {}
  BY <1>2 DEF Live
<1>5. LiveInv(ctx)
  <2>1. StackOK(ctx)
    BY <1>2 DEF StackOK
  <2> QED BY <1>2, <1>4, <2>1 DEF LiveInv
<1>6. SeriesDeclared(ctx) /\ ParamsApart(ctx)
  BY <1>2, <1>4 DEF SeriesDeclared, ParamsApart
<1>7. homes \in Seq(HomeTable) /\ Len(homes) = 1 /\ homes[1] = NoHomes
  <2> HIDE DEF HomeTable
  <2> QED BY <1>1, NoTable
<1>8. \A n \in Names : NoHomes[n] = NoCell
  BY DEF NoHomes
<1>9. ASSUME NEW d \in 1 .. 1, NEW n \in Names PROVE PlacedAt(ctx, homes, d, n)
  <2>1. d = 1 /\ ~ (d > 1)
    OBVIOUS
  <2> QED BY <1>7, <1>8, <2>1 DEF PlacedAt
<1>10. Placed(ctx, homes)
  BY <1>2, <1>7, <1>9 DEF Placed
<1> QED BY <1>1, <1>3, <1>5, <1>6, <1>10 DEF HomesInv, Scoped, Sound

LEMMA AlwaysHomes ==
  ASSUME FreshNames
  PROVE  LoweringSpec => []HomesInv
BY InitHandlers, InitHomes, StepHomes, PTL DEF LoweringSpec

\* The innermost table with a cell for the name is the one of the scope where
\* resolve_var finds it.
LEMMA HomeIsResolved ==
  ASSUME HomesInv, NEW n \in Names, IsVisible(n)
  PROVE  Resolve(ctx, n) # 0 /\ CellOf(ctx.heap[Resolve(ctx, n)]) = Home(n)
<1> DEFINE D == Len(homes)
           S == {d \in 1 .. D : homes[d][n] # NoCell}
           IsLast(d) == /\ homes[d][n] # NoCell
                        /\ \A e \in d + 1 .. D : homes[e][n] = NoCell
           last == CHOOSE d \in 1 .. D : IsLast(d)
<1>1. /\ Typed(ctx) /\ D = Len(ctx.scopes) /\ D \in Nat
      /\ \A d \in 1 .. D, m \in Names : PlacedAt(ctx, homes, d, m)
  BY DEF HomesInv, Scoped, Sound, Placed, Typed, Context
<1>2. S # {} /\ S \subseteq 1 .. D
  BY DEF IsVisible
<1> HIDE DEF D
<1>3. PICK j \in S : \A i \in S : i <= j
  <2> HIDE DEF S
  <2> QED BY <1>1, <1>2, LastPosition
<1>4. j \in 1 .. D /\ IsLast(j)
  <2>1. ASSUME NEW e \in j + 1 .. D PROVE homes[e][n] = NoCell
    <3>1. e \in 1 .. D /\ ~ (e <= j)
      BY <1>1, <1>3, <2>1
    <3> QED BY <1>3, <3>1
  <2> QED BY <1>3, <2>1
<1>5. last \in 1 .. D /\ IsLast(last)
  <2> HIDE DEF IsLast
  <2> QED BY <1>4
<1>6. Home(n) = homes[last][n]
  BY DEF Home, D
<1> HIDE DEF last
<1>7. /\ ctx.scopes[last].vars[n] # 0
      /\ homes[last][n] = CellOf(ctx.heap[ctx.scopes[last].vars[n]])
  BY <1>1, <1>5 DEF PlacedAt
<1>8. ASSUME NEW e \in 1 .. D, last < e PROVE ctx.scopes[e].vars[n] = 0
  <2>1. e \in last + 1 .. D /\ e > 1
    BY <1>1, <1>5, <1>8
  <2>2. homes[e][n] = NoCell /\ PlacedAt(ctx, homes, e, n)
    BY <1>1, <1>5, <2>1
  <2> QED BY <2>1, <2>2 DEF PlacedAt
<1>9. Resolve(ctx, n) = ctx.scopes[last].vars[n]
  BY <1>1, <1>5, <1>7, <1>8, ResolveFinds
<1> QED BY <1>6, <1>7, <1>9

\* Wherever the lowering stands, a reassignment of a variable in scope writes the
\* cell that its declaration writes, and a read of it reads that cell unless the
\* variable has the name of a builtin, when the Translator lowers one program and
\* no local takes a name of a scope around it (_translate_identifier and
\* _emit_reassignment against _emit_var_declaration).
THEOREM ReadsAlwaysReachHome ==
  ASSUME FreshNames
  PROVE  LoweringSpec => []ReadsReachHome
<1>1. HomesInv => ReadsReachHome
  BY HomeIsResolved DEF ReadsReachHome, ReadCell
<1> QED BY <1>1, AlwaysHomes, PTL

LEMMA HomesApart ==
  ASSUME HomesInv, NEW d \in 1 .. Len(homes), NEW e \in 1 .. Len(homes),
         NEW n \in Names, NEW m \in Names, <<d, n>> # <<e, m>>,
         homes[d][n] # NoCell, homes[e][m] # NoCell
  PROVE  homes[d][n] # homes[e][m]
<1> DEFINE i == ctx.scopes[d].vars[n]
           j == ctx.scopes[e].vars[m]
           f == ctx.heap[i]
           g == ctx.heap[j]
<1>1. /\ Typed(ctx) /\ NamesInv(ctx) /\ IndexInv(ctx) /\ LiveInv(ctx)
      /\ SeriesDeclared(ctx) /\ ParamsApart(ctx) /\ Len(homes) = Len(ctx.scopes)
  BY DEF HomesInv, Scoped, Sound, Placed
<1>2. PlacedAt(ctx, homes, d, n) /\ PlacedAt(ctx, homes, e, m)
  BY <1>1 DEF HomesInv, Placed
<1>3. i # 0 /\ j # 0 /\ homes[d][n] = CellOf(f) /\ homes[e][m] = CellOf(g)
  BY <1>2 DEF PlacedAt
<1>4. i \in 1 .. Len(ctx.heap) /\ j \in 1 .. Len(ctx.heap)
  <2>1. /\ i \in 0 .. Len(ctx.heap) /\ j \in 0 .. Len(ctx.heap) /\ Len(ctx.heap) \in Nat
    BY <1>1 DEF Typed, Context
  <2> HIDE DEF i, j
  <2> QED BY <1>3, <2>1
<1>5. i \in Live(ctx) /\ j \in Live(ctx)
  BY <1>1, <1>4 DEF Live, IsLive, Depth
<1>6. i # j
  <2>1. /\ KeyOK(ctx, ctx.scopes[d], n) /\ KeyOK(ctx, ctx.scopes[e], m)
        /\ ctx.scopes[d].id[2] = d - 1 /\ ctx.scopes[e].id[2] = e - 1
    BY <1>1 DEF IndexInv
  <2>2. f.scope = ctx.scopes[d].id /\ f.pine = n /\ g.scope = ctx.scopes[e].id /\ g.pine = m
    BY <1>3, <2>1 DEF KeyOK
  <2>3. ASSUME i = j PROVE FALSE
    <3>1. n = m /\ d - 1 = e - 1
      BY <2>1, <2>2, <2>3
    <3>2. d = e
      BY <3>1
    <3> QED BY <3>1, <3>2
  <2> QED BY <2>3
<1> HIDE DEF i, j
<1>7. ASSUME CellOf(f) = CellOf(g) PROVE (f.series <=> g.series) /\ f.py = g.py
  <2>1. f.series \in BOOLEAN /\ g.series \in BOOLEAN
    <3>1. f \in VarInfo /\ g \in VarInfo
      <4>1. ctx.heap \in Seq(VarInfo)
        BY <1>1 DEF Typed, Context
      <4> HIDE DEF VarInfo
      <4> QED BY <1>4, <4>1
    <3> HIDE DEF f, g
    <3> QED BY <3>1 DEF VarInfo
  <2> HIDE DEF f, g
  <2> QED BY <1>7, <2>1 DEF CellOf
<1>8. ASSUME f.series <=> g.series, f.py = g.py PROVE FALSE
  <2>1. CASE f.kind # "param" /\ g.kind # "param"
    BY <1>1, <1>4, <1>6, <1>8, <2>1 DEF NamesInv
  <2>2. CASE f.kind = "param" \/ g.kind = "param"
    <3>1. ~ f.series /\ ~ g.series
      BY <1>1, <1>4, <1>8, <2>2 DEF SeriesDeclared
    <3>2. f.kind = "param" /\ g.kind = "param"
      BY <1>1, <1>5, <1>8, <2>2, <3>1 DEF LiveInv, Apart
    <3>3. f.py = Snake(f.pine) /\ g.py = Snake(g.pine)
      BY <1>1, <1>4, <3>2 DEF LiveInv, InfoOK, ArgumentName
    <3> QED BY <1>1, <1>5, <1>6, <1>8, <3>2, <3>3 DEF ParamsApart
  <2> QED BY <2>1, <2>2
<1> QED BY <1>3, <1>7, <1>8

\* Two variables in scope never share a Python variable or an attribute, under
\* the same condition (NamingRegistry, and the parameters that it does not
\* name).
THEOREM HomesStayDistinct ==
  ASSUME FreshNames
  PROVE  LoweringSpec => []HomesDistinct
<1>1. HomesInv => HomesDistinct
  BY HomesApart DEF HomesDistinct
<1> QED BY <1>1, AlwaysHomes, PTL
=============================================================================
