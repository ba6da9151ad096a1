-------------------------- MODULE CallSites_proofs --------------------------
(***************************************************************************)
(* Proofs about CallSites, for every number of functions, positions and    *)
(* builtins and for programs and runs of every length.                     *)
(***************************************************************************)
EXTENDS CallSites, Integers, SequenceTheorems, TLAPS

(***************************************************************************)
(* The inductive invariant.  A call is well formed when a user call calls  *)
(* an earlier function and every number in its id or site is one the       *)
(* counters have passed; two calls differ in the numbers they got, unless  *)
(* they have no position or read the history of a local variable.          *)
(***************************************************************************)
CallOK(c, ids, fs, ts) ==
  /\ c.kind = "state" =>
       /\ c.id \in Ids /\ c.site = NoSite
       /\ c.id[1] = "located" => c.id[4] <= ids[<<c.id[2], c.id[3]>>]
       /\ c.id[1] = "temp" => c.id[2] <= ts
       /\ c.id[1] = "local" /\ c.id[2] = "function" => c.in # Body
  /\ c.kind # "state" => c.callee \in Functions /\ c.callee < c.in
  /\ c.kind = "function" =>
       c.site \in Sites /\ c.site[1] = c.callee /\ c.site[2] <= fs[c.callee]
  /\ c.kind = "method" => c.site = NoSite

Distinct(c, d) ==
  /\ c.kind = "state" /\ d.kind = "state" /\ c.id = d.id =>
       \/ c.id[1] = "hash"
       \/ c.id[1] = "local" /\ (c.id[2] = "block" => c.in = d.in)
  /\ c.kind = "function" /\ d.kind = "function" => c.site # d.site

TranslatorOK ==
  /\ owner \in Bodies
  /\ counts \in [Locations \X Builtins -> 0 .. Len(code)]
  /\ sites \in [Functions -> 0 .. Len(code)]
  /\ temps \in 0 .. Len(code)
  /\ code \in Seq(Call) /\ Len(code) <= MaxCalls

CodeOK ==
  /\ \A i \in 1 .. Len(code) : CallOK(code[i], counts, sites, temps)
  /\ \A i, j \in 1 .. Len(code) : i # j => Distinct(code[i], code[j])

\* A call goes to an earlier function, so that the k-th call in progress leaves
\* at most Body - k functions to call.
RunOK ==
  /\ running \in BOOLEAN
  /\ path \in Seq(1 .. Len(code))
  /\ \A k \in 1 .. Len(path) :
       /\ code[path[k]].kind # "state"
       /\ code[path[k]].callee + k <= Body
  /\ ~ running => path = << >>
  /\ states \in [Keys -> 0 .. MaxEvaluations]

IInv == TranslatorOK /\ CodeOK /\ RunOK

LEMMA Sizes == LastFunction \in Nat /\ MaxCalls \in Nat /\ MaxEvaluations \in Nat
BY CallSitesAssumption DEF CallSitesAssumption

LEMMA InitOK == CallSitesInit => IInv
<1> SUFFICES ASSUME CallSitesInit PROVE IInv
  OBVIOUS
<1> USE Sizes DEF CallSitesInit
<1>1. code \in Seq(Call) /\ Len(code) = 0
  BY EmptySeq
<1>2. path \in Seq(1 .. Len(code)) /\ Len(path) = 0
  BY EmptySeq
<1>3. TranslatorOK
  BY <1>1 DEF TranslatorOK, Bodies, Body
<1>4. CodeOK
  BY <1>1 DEF CodeOK
<1>5. states \in [Keys -> 0 .. MaxEvaluations]
  OBVIOUS
<1>6. path = << >> /\ running = FALSE
  OBVIOUS
<1> HIDE DEF CallSitesInit
<1>7. running \in BOOLEAN
  BY <1>6
<1>8. \A k \in 1 .. Len(path) : FALSE
  BY <1>2
<1>9. RunOK
  BY ONLY <1>2, <1>5, <1>6, <1>7, <1>8, Zenon DEF RunOK
<1> QED BY <1>3, <1>4, <1>9 DEF IInv
-----------------------------------------------------------------------------
(* Steps of the translator.                                                *)
NewCall(kind, callee, id, site) ==
  [in |-> owner, kind |-> kind, callee |-> callee, id |-> id, site |-> site]

\* A call that is rendered is put behind the others.
LEMMA RenderedCode ==
  ASSUME TranslatorOK, NEW kind \in Kinds, NEW callee \in Functions \union {Body},
         NEW id \in Ids \union {NoId}, NEW site \in Sites \union {NoSite},
         Rendered(kind, callee, id, site)
  PROVE  /\ NewCall(kind, callee, id, site) \in Call
         /\ code' \in Seq(Call) /\ Len(code) \in Nat
         /\ Len(code') = Len(code) + 1 /\ Len(code') <= MaxCalls
         /\ \A i \in 1 .. Len(code) : code'[i] = code[i] /\ code[i] \in Call
         /\ code'[Len(code) + 1] = NewCall(kind, callee, id, site)
<1>1. NewCall(kind, callee, id, site) \in Call
  BY DEF NewCall, Call, TranslatorOK
<1>2. code' = Append(code, NewCall(kind, callee, id, site))
  BY DEF Rendered, NewCall
<1> HIDE DEF NewCall
<1>3. Len(code) < MaxCalls /\ code \in Seq(Call)
  BY DEF Rendered, TranslatorOK
<1> QED BY <1>1, <1>2, <1>3, Sizes

\* What is left to show of each rendering step: the counters stay in range, what
\* they have passed they have still passed, and the new call got new numbers.
LEMMA RenderedBesides ==
  ASSUME IInv, NEW kind \in Kinds, NEW callee \in Functions \union {Body},
         NEW id \in Ids \union {NoId}, NEW site \in Sites \union {NoSite},
         Rendered(kind, callee, id, site),
         counts' \in [Locations \X Builtins -> 0 .. Len(code) + 1],
         sites' \in [Functions -> 0 .. Len(code) + 1],
         temps' \in 0 .. Len(code) + 1,
         \A i \in 1 .. Len(code) :
           /\ CallOK(code[i], counts', sites', temps')
           /\ Distinct(code[i], NewCall(kind, callee, id, site))
           /\ Distinct(NewCall(kind, callee, id, site), code[i]),
         CallOK(NewCall(kind, callee, id, site), counts', sites', temps')
  PROVE  IInv'
<1> DEFINE new == NewCall(kind, callee, id, site)
           L == Len(code)
<1>1. /\ new \in Call
      /\ code' \in Seq(Call) /\ L \in Nat
      /\ Len(code') = L + 1 /\ Len(code') <= MaxCalls
      /\ \A i \in 1 .. L : code'[i] = code[i] /\ code[i] \in Call
      /\ code'[L + 1] = new
  BY RenderedCode DEF IInv
<1>2. TranslatorOK'
  BY <1>1 DEF TranslatorOK, IInv, Rendered
<1>3. ~ running /\ running' = running /\ path' = path /\ states' = states
  BY DEF Rendered
<1>4. path' = << >> /\ Len(path') = 0 /\ path' \in Seq(1 .. Len(code'))
  BY <1>3, EmptySeq DEF IInv, RunOK
<1>5. RunOK'
  BY <1>3, <1>4 DEF RunOK, IInv
<1>6. \A i, j \in 1 .. L : i # j => Distinct(code[i], code[j])
  BY DEF IInv, CodeOK
<1>7. /\ CallOK(new, counts', sites', temps')
      /\ \A i \in 1 .. L : /\ CallOK(code[i], counts', sites', temps')
                           /\ Distinct(code[i], new) /\ Distinct(new, code[i])
  OBVIOUS
<1> HIDE DEF new, L
<1>8. \A i \in 1 .. L + 1 : CallOK(code'[i], counts', sites', temps')
  BY <1>1, <1>7
<1>9. \A i, j \in 1 .. L + 1 : i # j => Distinct(code'[i], code'[j])
  <2> SUFFICES ASSUME NEW i \in 1 .. L + 1, NEW j \in 1 .. L + 1, i # j
               PROVE  Distinct(code'[i], code'[j])
    OBVIOUS
  <2>1. CASE i \in 1 .. L /\ j \in 1 .. L
    BY <1>1, <1>6, <2>1
  <2>2. CASE i \in 1 .. L /\ j = L + 1
    BY <1>1, <1>7, <2>2
  <2>3. CASE i = L + 1 /\ j \in 1 .. L
    BY <1>1, <1>7, <2>3
  <2> QED BY <1>1, <2>1, <2>2, <2>3
<1>10. CodeOK'
  BY <1>1, <1>8, <1>9 DEF CodeOK
<1> QED BY <1>2, <1>5, <1>10 DEF IInv

\* The same where the calls rendered before are known by their form only.
LEMMA RenderedOK ==
  ASSUME IInv, NEW kind \in Kinds, NEW callee \in Functions \union {Body},
         NEW id \in Ids \union {NoId}, NEW site \in Sites \union {NoSite},
         Rendered(kind, callee, id, site),
         counts' \in [Locations \X Builtins -> 0 .. Len(code) + 1],
         sites' \in [Functions -> 0 .. Len(code) + 1],
         temps' \in 0 .. Len(code) + 1,
         \A c \in Call : CallOK(c, counts, sites, temps) =>
           /\ CallOK(c, counts', sites', temps')
           /\ Distinct(c, NewCall(kind, callee, id, site))
           /\ Distinct(NewCall(kind, callee, id, site), c),
         CallOK(NewCall(kind, callee, id, site), counts', sites', temps')
  PROVE  IInv'
<1>1. \A i \in 1 .. Len(code) : code[i] \in Call /\ CallOK(code[i], counts, sites, temps)
  BY RenderedCode DEF IInv, CodeOK
<1>2. \A i \in 1 .. Len(code) :
        /\ CallOK(code[i], counts', sites', temps')
        /\ Distinct(code[i], NewCall(kind, callee, id, site))
        /\ Distinct(NewCall(kind, callee, id, site), code[i])
  BY <1>1
<1> QED BY <1>2, RenderedBesides

LEMMA StatefulOK ==
  ASSUME IInv, NEW loc \in Locations, NEW b \in Builtins, RenderStateful(loc, b)
  PROVE  IInv'
<1> DEFINE n == counts[<<loc, b>>] + 1
           id == <<"located", loc, b, n>>
           new == NewCall("state", Body, id, NoSite)
<1>1. Rendered("state", Body, id, NoSite)
  BY DEF RenderStateful, Ordinal
<1>2. /\ counts' = [counts EXCEPT ![<<loc, b>>] = @ + 1]
      /\ sites' = sites /\ temps' = temps
  BY DEF RenderStateful
<1>3. counts \in [Locations \X Builtins -> 0 .. Len(code)]
  BY DEF IInv, TranslatorOK
<1>4. Len(code) \in Nat /\ Len(code) < MaxCalls
  BY <1>1 DEF IInv, TranslatorOK, Rendered
<1>5. /\ \A l \in Locations, c \in Builtins :
           /\ counts[<<l, c>>] \in 0 .. Len(code)
           /\ counts'[<<l, c>>] =
                IF l = loc /\ c = b THEN n ELSE counts[<<l, c>>]
      /\ counts' \in [Locations \X Builtins -> 0 .. Len(code) + 1]
  BY <1>2, <1>3, <1>4
<1>6. sites' \in [Functions -> 0 .. Len(code) + 1] /\ temps' \in 0 .. Len(code) + 1
  BY <1>2, <1>4 DEF IInv, TranslatorOK
<1>7. n \in 1 .. MaxCalls
  BY <1>4, <1>5, Sizes
<1>8. id \in Ids
  BY <1>7 DEF Ids
<1> HIDE DEF n
<1>9. CallOK(new, counts', sites', temps')
  BY <1>5, <1>7, <1>8 DEF CallOK, NewCall
<1>10. ASSUME NEW c \in Call, CallOK(c, counts, sites, temps)
       PROVE  /\ CallOK(c, counts', sites', temps')
              /\ Distinct(c, new) /\ Distinct(new, c)
  <2>1. c.kind = "state" /\ c.id[1] = "located" =>
          c.id[2] \in Locations /\ c.id[3] \in Builtins /\ c.id[4] \in 1 .. MaxCalls
    BY <1>10 DEF CallOK, Ids, LocalIds
  <2>2. c.kind = "state" /\ c.id[1] = "located" =>
          c.id[4] <= counts[<<c.id[2], c.id[3]>>]
    BY <1>10 DEF CallOK
  <2>3. \A l \in Locations, k \in Builtins : counts[<<l, k>>] <= counts'[<<l, k>>]
    <3> SUFFICES ASSUME NEW l \in Locations, NEW k \in Builtins
                 PROVE  counts[<<l, k>>] <= counts'[<<l, k>>]
      OBVIOUS
    <3>1. CASE l = loc /\ k = b
      BY <1>4, <1>5, <3>1 DEF n
    <3>2. CASE ~ (l = loc /\ k = b)
      BY <1>4, <1>5, <3>2
    <3> QED BY <3>1, <3>2
  <2>4. c.kind = "state" /\ c.id[1] = "located" =>
          c.id[4] <= counts'[<<c.id[2], c.id[3]>>]
    <3> SUFFICES ASSUME c.kind = "state", c.id[1] = "located"
                 PROVE  c.id[4] <= counts'[<<c.id[2], c.id[3]>>]
      OBVIOUS
    <3> DEFINE old == counts[<<c.id[2], c.id[3]>>]
               now == counts'[<<c.id[2], c.id[3]>>]
    <3>1. old \in Nat /\ now \in Nat /\ old <= now
      BY <1>4, <1>5, <2>1, <2>3
    <3>2. c.id[4] <= old /\ c.id[4] \in Nat
      BY <2>1, <2>2, Sizes
    <3> HIDE DEF old, now
    <3>3. c.id[4] <= now
      BY <3>1, <3>2
    <3> QED BY <3>3 DEF now
  <2>5. CallOK(c, counts', sites', temps')
    BY <1>2, <1>10, <2>4 DEF CallOK
  <2>6. c.kind = "state" => c.id # id
    <3> SUFFICES ASSUME c.kind = "state", c.id = id PROVE FALSE
      OBVIOUS
    <3>1. c.id[1] = "located" /\ c.id[2] = loc /\ c.id[3] = b /\ c.id[4] = n
      OBVIOUS
    <3>2. n <= counts[<<loc, b>>]
      BY <2>2, <3>1
    <3> QED BY <1>4, <1>5, <3>2 DEF n
  <2> QED BY <2>5, <2>6 DEF Distinct, NewCall
<1> QED
  BY <1>1, <1>5, <1>6, <1>8, <1>9, <1>10, RenderedOK DEF Kinds

LEMMA UnlocatedOK ==
  ASSUME IInv, NEW b \in Builtins, RenderUnlocated(b)
  PROVE  IInv'
<1> DEFINE id == <<"hash", b>>
           new == NewCall("state", Body, id, NoSite)
<1>1. Rendered("state", Body, id, NoSite)
  BY DEF RenderUnlocated
<1>2. counts' = counts /\ sites' = sites /\ temps' = temps
  BY DEF RenderUnlocated
<1>3. Len(code) \in Nat
  BY DEF IInv, TranslatorOK
<1>4. /\ counts' \in [Locations \X Builtins -> 0 .. Len(code) + 1]
      /\ sites' \in [Functions -> 0 .. Len(code) + 1]
      /\ temps' \in 0 .. Len(code) + 1
  BY <1>2, <1>3 DEF IInv, TranslatorOK
<1>5. id \in Ids
  BY DEF Ids
<1>6. CallOK(new, counts', sites', temps')
  BY <1>5 DEF CallOK, NewCall
<1>7. ASSUME NEW c \in Call, CallOK(c, counts, sites, temps)
      PROVE  /\ CallOK(c, counts', sites', temps')
             /\ Distinct(c, new) /\ Distinct(new, c)
  BY <1>2, <1>7 DEF Distinct, NewCall
<1> QED
  BY <1>1, <1>4, <1>5, <1>6, <1>7, RenderedOK DEF Kinds

LEMMA TemporaryOK ==
  ASSUME IInv, RenderTemporary
  PROVE  IInv'
<1> DEFINE id == <<"temp", temps + 1>>
           new == NewCall("state", Body, id, NoSite)
<1>1. Rendered("state", Body, id, NoSite)
  BY DEF RenderTemporary
<1>2. counts' = counts /\ sites' = sites /\ temps' = temps + 1
  BY DEF RenderTemporary
<1>3. Len(code) \in Nat /\ Len(code) < MaxCalls /\ temps \in 0 .. Len(code)
  BY <1>1 DEF IInv, TranslatorOK, Rendered
<1>4. /\ counts' \in [Locations \X Builtins -> 0 .. Len(code) + 1]
      /\ sites' \in [Functions -> 0 .. Len(code) + 1]
      /\ temps' \in 0 .. Len(code) + 1
  BY <1>2, <1>3 DEF IInv, TranslatorOK
<1>5. id \in Ids
  BY <1>3, Sizes DEF Ids
<1>6. CallOK(new, counts', sites', temps')
  BY <1>2, <1>3, <1>5 DEF CallOK, NewCall
<1>7. ASSUME NEW c \in Call, CallOK(c, counts, sites, temps)
      PROVE  /\ CallOK(c, counts', sites', temps')
             /\ Distinct(c, new) /\ Distinct(new, c)
  <2>1. c.kind = "state" /\ c.id[1] = "temp" => c.id[2] \in 1 .. MaxCalls
    BY <1>7 DEF CallOK, Ids, LocalIds
  <2>2. c.kind = "state" /\ c.id[1] = "temp" => c.id[2] <= temps
    BY <1>7 DEF CallOK
  <2>3. CallOK(c, counts', sites', temps')
    BY <1>2, <1>3, <1>7, <2>1, <2>2, Sizes DEF CallOK
  <2>4. c.kind = "state" => c.id # id
    BY <1>3, <2>1, <2>2, Sizes
  <2> QED BY <2>3, <2>4 DEF Distinct, NewCall
<1> QED
  BY <1>1, <1>4, <1>5, <1>6, <1>7, RenderedOK DEF Kinds

\* A block's variable is read in the body that declares it only.
LEMMA LocalHistoryOK ==
  ASSUME IInv, NEW scope \in {"function", "block"}, NEW name \in Locals,
         RenderLocalHistory(scope, name)
  PROVE  IInv'
<1> DEFINE id == <<"local", scope, name>>
           new == NewCall("state", Body, id, NoSite)
<1>1. /\ Rendered("state", Body, id, NoSite)
      /\ scope = "function" => owner # Body
      /\ scope = "block" => \A i \in 1 .. Len(code) : code[i].id = id => code[i].in = owner
      /\ counts' = counts /\ sites' = sites /\ temps' = temps
  BY DEF RenderLocalHistory
<1>2. Len(code) \in Nat
  BY DEF IInv, TranslatorOK
<1>3. /\ counts' \in [Locations \X Builtins -> 0 .. Len(code) + 1]
      /\ sites' \in [Functions -> 0 .. Len(code) + 1]
      /\ temps' \in 0 .. Len(code) + 1
  BY <1>1, <1>2 DEF IInv, TranslatorOK
<1>4. id \in Ids /\ id[1] = "local" /\ id[2] = scope
  BY DEF Ids, LocalIds
<1>5. CallOK(new, counts', sites', temps')
  BY <1>1, <1>4 DEF CallOK, NewCall
<1>6. ASSUME NEW i \in 1 .. Len(code)
      PROVE  /\ CallOK(code[i], counts', sites', temps')
             /\ Distinct(code[i], new) /\ Distinct(new, code[i])
  <2>1. CallOK(code[i], counts', sites', temps')
    BY <1>1 DEF IInv, CodeOK
  <2>2. new.kind = "state" /\ new.id = id /\ new.in = owner
    BY DEF NewCall
  <2>3. code[i].id = id /\ id[2] = "block" => code[i].in = owner
    BY <1>1, <1>4
  <2> HIDE DEF new, id
  <2> QED BY <1>4, <2>1, <2>2, <2>3 DEF Distinct
<1> HIDE DEF id
<1> QED
  BY <1>1, <1>3, <1>4, <1>5, <1>6, RenderedBesides DEF Kinds

LEMMA FunctionCallOK ==
  ASSUME IInv, NEW f \in Functions, RenderFunctionCall(f)
  PROVE  IInv'
<1> DEFINE site == <<f, sites[f] + 1>>
           new == NewCall("function", f, NoId, site)
<1>1. Rendered("function", f, NoId, site)
  BY DEF RenderFunctionCall, Site
<1>2. /\ counts' = counts /\ temps' = temps
      /\ sites' = [sites EXCEPT ![f] = @ + 1]
      /\ f < owner
  BY DEF RenderFunctionCall
<1>3. Len(code) \in Nat /\ Len(code) < MaxCalls
  BY <1>1 DEF IInv, TranslatorOK, Rendered
<1>4. /\ \A g \in Functions :
           /\ sites[g] \in 0 .. Len(code)
           /\ sites'[g] = IF g = f THEN sites[f] + 1 ELSE sites[g]
      /\ sites' \in [Functions -> 0 .. Len(code) + 1]
  BY <1>2, <1>3 DEF IInv, TranslatorOK
<1>5. /\ counts' \in [Locations \X Builtins -> 0 .. Len(code) + 1]
      /\ temps' \in 0 .. Len(code) + 1
  BY <1>2, <1>3 DEF IInv, TranslatorOK
<1>6. site \in Sites
  BY <1>3, <1>4, Sizes DEF Sites
<1>7. CallOK(new, counts', sites', temps')
  BY <1>2, <1>4, <1>6 DEF CallOK, NewCall
<1>8. ASSUME NEW c \in Call, CallOK(c, counts, sites, temps)
      PROVE  /\ CallOK(c, counts', sites', temps')
             /\ Distinct(c, new) /\ Distinct(new, c)
  <2>1. c.kind = "function" =>
          /\ c.callee \in Functions /\ c.site[1] = c.callee
          /\ c.site[2] \in 1 .. MaxCalls /\ c.site[2] <= sites[c.callee]
    BY <1>8 DEF CallOK, Sites
  <2>2. c.kind = "function" => c.site[2] <= sites'[c.callee]
    BY <1>4, <2>1, Sizes, <1>3
  <2>3. CallOK(c, counts', sites', temps')
    BY <1>2, <1>8, <2>2 DEF CallOK
  <2>4. c.kind = "function" => c.site # site
    BY <1>3, <1>4, <2>1, Sizes
  <2> QED BY <2>3, <2>4 DEF Distinct, NewCall
<1> QED
  BY <1>1, <1>4, <1>5, <1>6, <1>7, <1>8, RenderedOK DEF Kinds

LEMMA MethodCallOK ==
  ASSUME IInv, NEW f \in Functions, RenderMethodCall(f)
  PROVE  IInv'
<1> DEFINE new == NewCall("method", f, NoId, NoSite)
<1>1. Rendered("method", f, NoId, NoSite)
  BY DEF RenderMethodCall
<1>2. counts' = counts /\ sites' = sites /\ temps' = temps /\ f < owner
  BY DEF RenderMethodCall
<1>3. Len(code) \in Nat
  BY DEF IInv, TranslatorOK
<1>4. /\ counts' \in [Locations \X Builtins -> 0 .. Len(code) + 1]
      /\ sites' \in [Functions -> 0 .. Len(code) + 1]
      /\ temps' \in 0 .. Len(code) + 1
  BY <1>2, <1>3 DEF IInv, TranslatorOK
<1>5. CallOK(new, counts', sites', temps')
  BY <1>2 DEF CallOK, NewCall
<1>6. ASSUME NEW c \in Call, CallOK(c, counts, sites, temps)
      PROVE  /\ CallOK(c, counts', sites', temps')
             /\ Distinct(c, new) /\ Distinct(new, c)
  BY <1>2, <1>6 DEF Distinct, NewCall
<1> QED
  BY <1>1, <1>4, <1>5, <1>6, RenderedOK DEF Kinds

LEMMA NextBodyOK == IInv /\ NextBody => IInv'
<1> SUFFICES ASSUME IInv, NextBody PROVE IInv'
  OBVIOUS
<1>1. owner' \in Bodies
  BY Sizes DEF NextBody, IInv, TranslatorOK, Bodies, Body
<1>2. UNCHANGED <<counts, sites, temps, code, running, path, states>>
  BY DEF NextBody
<1> QED BY <1>1, <1>2 DEF IInv, TranslatorOK, CodeOK, RunOK

LEMMA StartOK == IInv /\ Run => IInv'
<1> SUFFICES ASSUME IInv, Run PROVE IInv'
  OBVIOUS
<1>1. UNCHANGED <<translator, path, states>> /\ running' = TRUE
  BY DEF Run
<1> QED BY <1>1 DEF translator, IInv, TranslatorOK, CodeOK, RunOK
-----------------------------------------------------------------------------
(* Steps of the generated code: `code' and the counters stay.              *)
LEMMA CallTyped ==
  ASSUME IInv, NEW i \in 1 .. Len(code)
  PROVE  /\ code[i] \in Call /\ CallOK(code[i], counts, sites, temps)
         /\ code[i].in \in 1 .. Body /\ code[i].callee \in 1 .. Body
         /\ Body = LastFunction + 1
<1>1. code[i] \in Call
  BY ElementOfSeq DEF IInv, TranslatorOK
<1> QED BY <1>1, Sizes DEF IInv, CodeOK, Call, Bodies, Functions, Body

LEMMA EnterOK ==
  ASSUME IInv, NEW i \in 1 .. Len(code), Enter(i)
  PROVE  IInv'
<1> DEFINE L == Len(path)
<1>1. /\ UNCHANGED <<owner, counts, sites, temps, code, running, states>>
      /\ path' = Append(path, i) /\ running
      /\ code[i].in = Reached(path) /\ code[i].kind \in {"function", "method"}
  BY DEF Enter, IsUserCall, translator
<1>2. path \in Seq(1 .. Len(code)) /\ L \in Nat
  BY DEF IInv, RunOK
<1>3. /\ path' \in Seq(1 .. Len(code)) /\ Len(path') = L + 1
      /\ \A k \in 1 .. L : path'[k] = path[k]
      /\ path'[L + 1] = i
  BY <1>1, <1>2
<1>4. /\ code[i].callee \in 1 .. Body /\ code[i].callee < code[i].in
      /\ Body \in Nat
  <2>1. code[i].callee \in 1 .. Body /\ Body \in Nat
    BY CallTyped, Sizes
  <2>2. code[i].kind # "state" /\ CallOK(code[i], counts, sites, temps)
    BY <1>1, CallTyped
  <2>3. code[i].callee < code[i].in
    BY <2>2, Zenon DEF CallOK
  <2> QED BY <2>1, <2>3
<1>5. code[i].in + L <= Body
  <2>1. CASE path = << >>
    BY <1>1, <2>1, <1>4 DEF Reached
  <2>2. CASE path # << >>
    <3>1. L \in 1 .. L
      BY <1>2, <2>2, EmptySeq
    <3>2. code[i].in = code[path[L]].callee
      BY <1>1, <2>2 DEF Reached
    <3> QED BY <3>1, <3>2 DEF IInv, RunOK
  <2> QED BY <2>1, <2>2
<1>6. code[i].callee + L + 1 <= Body
  <2>1. code[i].in \in 1 .. Body
    BY CallTyped
  <2> QED BY <1>2, <1>4, <1>5, <2>1
<1>7. \A k \in 1 .. L + 1 : /\ code[path'[k]].kind # "state"
                            /\ code[path'[k]].callee + k <= Body
  <2> SUFFICES ASSUME NEW k \in 1 .. L + 1
               PROVE  /\ code[path'[k]].kind # "state"
                      /\ code[path'[k]].callee + k <= Body
    OBVIOUS
  <2>1. CASE k \in 1 .. L
    BY <1>3, <2>1 DEF IInv, RunOK
  <2>2. CASE k = L + 1
    BY <1>1, <1>2, <1>3, <1>4, <1>6, <2>2
  <2> QED BY <1>2, <2>1, <2>2
<1>8. RunOK'
  <2>1. Len(code') = Len(code) /\ code' = code /\ running' = running /\ states' = states
    BY <1>1
  <2>2. running /\ running \in BOOLEAN /\ states \in [Keys -> 0 .. MaxEvaluations]
    BY <1>1 DEF IInv, RunOK
  <2> QED BY <1>3, <1>7, <2>1, <2>2 DEF RunOK
<1> QED BY <1>1, <1>8 DEF IInv, TranslatorOK, CodeOK

LEMMA ReturnOK == IInv /\ Return => IInv'
<1> SUFFICES ASSUME IInv, Return PROVE IInv'
  OBVIOUS
<1> DEFINE L == Len(path)
<1>1. /\ UNCHANGED <<owner, counts, sites, temps, code, running, states>>
      /\ path' = SubSeq(path, 1, L - 1) /\ running /\ path # << >>
  BY DEF Return, translator
<1>2. path \in Seq(1 .. Len(code)) /\ L \in Nat \ {0}
  BY <1>1, EmptySeq DEF IInv, RunOK
<1>3. /\ path' \in Seq(1 .. Len(code)) /\ Len(path') = L - 1
      /\ \A k \in 1 .. L - 1 : path'[k] = path[k]
  <2>1. \A k \in 1 .. L - 1 : path[k] \in 1 .. Len(code)
    BY <1>2
  <2>2. 1 \in Int /\ L - 1 \in Int
    BY <1>2
  <2> HIDE DEF L
  <2>3. /\ SubSeq(path, 1, L - 1) \in Seq(1 .. Len(code))
        /\ Len(SubSeq(path, 1, L - 1)) = IF 1 <= L - 1 THEN L - 1 - 1 + 1 ELSE 0
        /\ \A k \in 1 .. L - 1 - 1 + 1 :
              SubSeq(path, 1, L - 1)[k] = path[1 + k - 1]
    BY <2>1, <2>2, SubSeqProperties
  <2> QED BY <1>1, <1>2, <2>3
<1>4. \A k \in 1 .. L - 1 : /\ code[path'[k]].kind # "state"
                            /\ code[path'[k]].callee + k <= Body
  BY <1>2, <1>3 DEF IInv, RunOK
<1>5. RunOK'
  <2>1. Len(code') = Len(code) /\ code' = code /\ running' = running /\ states' = states
    BY <1>1
  <2>2. running /\ running \in BOOLEAN /\ states \in [Keys -> 0 .. MaxEvaluations]
    BY <1>1 DEF IInv, RunOK
  <2> QED BY <1>3, <1>4, <2>1, <2>2 DEF RunOK
<1> QED BY <1>1, <1>5 DEF IInv, TranslatorOK, CodeOK

LEMMA EvaluateOK ==
  ASSUME IInv, NEW i \in 1 .. Len(code), Evaluate(i)
  PROVE  IInv'
<1> DEFINE key == StateKey(Append(path, i))
<1>1. /\ UNCHANGED <<owner, counts, sites, temps, code, running, path>>
      /\ states' = [states EXCEPT ![key] = @ + 1] /\ states[key] < MaxEvaluations
  BY DEF Evaluate, translator
<1> HIDE DEF key
<1>2. states \in [Keys -> 0 .. MaxEvaluations]
  BY DEF IInv, RunOK
<1>3. states' \in [Keys -> 0 .. MaxEvaluations]
  <2>1. CASE key \in Keys
    BY <1>1, <1>2, <2>1, Sizes
  <2>2. CASE key \notin Keys
    BY <1>1, <1>2, <2>2
  <2> QED BY <2>1, <2>2
<1> QED BY <1>1, <1>3 DEF IInv, TranslatorOK, CodeOK, RunOK

LEMMA StepOK == IInv /\ [CallSitesNext]_vars => IInv'
<1> SUFFICES ASSUME IInv, [CallSitesNext]_vars PROVE IInv'
  OBVIOUS
<1>1. CASE UNCHANGED vars
  BY <1>1 DEF vars, IInv, TranslatorOK, CodeOK, RunOK
<1>2. CASE CallSitesNext
  BY <1>2, NextBodyOK, StartOK, ReturnOK, TemporaryOK, StatefulOK, UnlocatedOK,
     LocalHistoryOK, FunctionCallOK, MethodCallOK, EnterOK, EvaluateOK DEF CallSitesNext
<1> QED BY <1>1, <1>2

LEMMA Inductive == CallSitesSpec => []IInv
BY InitOK, StepOK, PTL DEF CallSitesSpec
-----------------------------------------------------------------------------
\* Every id, call-site id and counter is what the translator makes it, and the
\* calls in progress never nest deeper than there are functions.
THEOREM CallSitesTypeCorrect == CallSitesSpec => []CallSitesTypeOK
<1>1. IInv => CallSitesTypeOK
  <2> SUFFICES ASSUME IInv PROVE CallSitesTypeOK
    OBVIOUS
  <2>1. /\ owner \in Bodies /\ code \in Seq(Call) /\ Len(code) <= MaxCalls
        /\ Len(code) \in Nat
        /\ counts \in [Locations \X Builtins -> 0 .. Len(code)]
        /\ sites \in [Functions -> 0 .. Len(code)]
        /\ temps \in 0 .. Len(code)
    BY DEF IInv, TranslatorOK
  <2>2. 0 .. Len(code) \subseteq 0 .. MaxCalls /\ 1 .. Len(code) \subseteq 1 .. MaxCalls
    BY <2>1, Sizes
  <2>3. counts \in [Locations \X Builtins -> 0 .. MaxCalls]
    BY <2>1, <2>2
  <2>4. sites \in [Functions -> 0 .. MaxCalls] /\ temps \in 0 .. MaxCalls
    BY <2>1, <2>2
  <2>5. path \in Seq(1 .. MaxCalls)
    BY <2>2, SeqMonotonic DEF IInv, RunOK
  <2>6. Len(path) <= LastFunction
    <3>1. CASE path = << >>
      BY <3>1, Sizes
    <3>2. CASE path # << >>
      <4>1. Len(path) \in 1 .. Len(path)
        BY <2>5, <3>2, EmptySeq
      <4>2. path[Len(path)] \in 1 .. Len(code)
        BY <4>1, ElementOfSeq DEF IInv, RunOK
      <4>3. code[path[Len(path)]].callee \in 1 .. Body /\ Body = LastFunction + 1
        BY <4>2, CallTyped
      <4>4. code[path[Len(path)]].callee + Len(path) <= Body
        BY <4>1 DEF IInv, RunOK
      <4> QED BY <4>1, <4>3, <4>4, Sizes
    <3> QED BY <3>1, <3>2
  <2> QED BY <2>1, <2>3, <2>4, <2>5, <2>6 DEF CallSitesTypeOK, IInv, RunOK
<1> QED BY <1>1, Inductive, PTL
-----------------------------------------------------------------------------
(* What a chain of calls consists of, and the key of its state.            *)
LEMMA PathTyped ==
  ASSUME NEW p \in CallPaths
  PROVE  /\ Len(p) \in Nat \ {0} /\ p \in [1 .. Len(p) -> 1 .. Len(code)]
         /\ p \in Seq(1 .. MaxCalls)
<1>1. PICK n \in 1 .. LastFunction + 1 : p \in [1 .. n -> 1 .. MaxCalls]
  BY DEF CallPaths, Paths
<1>2. n \in Nat \ {0}
  BY Sizes
<1>3. p \in Seq(1 .. MaxCalls)
  BY <1>1, <1>2, SeqDef
<1>4. Len(p) = n
  BY <1>1, <1>2, <1>3, LenProperties
<1>5. \A k \in 1 .. Len(p) : p[k] \in 1 .. Len(code)
  BY DEF CallPaths, IsCallPath
<1> QED BY <1>1, <1>2, <1>3, <1>4, <1>5

\* Every call but the first is in the body of the function called before it.
LEMMA PathStep ==
  ASSUME IInv, NEW p \in CallPaths, NEW k \in 2 .. Len(p)
  PROVE  /\ code[p[k]].in # Body
         /\ k - 1 \in 1 .. Len(p)
         /\ code[p[k - 1]].kind \in {"function", "method"}
         /\ code[p[k]].in = code[p[k - 1]].callee
         /\ CallSiteId(SubSeq(p, 1, k - 1)) = code[p[k - 1]].site
<1> DEFINE s == SubSeq(p, 1, k - 1)
<1>1. Len(p) \in Nat \ {0} /\ p \in Seq(1 .. MaxCalls)
  BY PathTyped
<1>2. k - 1 \in 1 .. Len(p) /\ k - 1 < Len(p) /\ k \in 1 .. Len(p) /\ k \in Int
  BY <1>1
<1>3. \A j \in 1 .. k - 1 : p[j] \in 1 .. MaxCalls
  <2>1. \A j \in 1 .. k - 1 : j \in 1 .. Len(p)
    BY <1>1, <1>2
  <2> QED BY <1>1, <2>1, ElementOfSeq
<1>4. /\ s \in Seq(1 .. MaxCalls)
      /\ Len(s) = IF 1 <= k - 1 THEN k - 1 - 1 + 1 ELSE 0
      /\ \A j \in 1 .. k - 1 - 1 + 1 : s[j] = p[1 + j - 1]
  BY <1>2, <1>3, SubSeqProperties
<1>5. \A j \in 1 .. Len(p) : /\ p[j] \in 1 .. Len(code)
                             /\ code[p[j]].in = Reached(SubSeq(p, 1, j - 1))
                             /\ IsUserCall(p[j]) <=> j < Len(p)
  BY DEF CallPaths, IsCallPath
<1>6. code[p[k]].in = Reached(s)
  BY <1>2, <1>5
<1> HIDE DEF s
<1>7. Len(s) = k - 1 /\ s[k - 1] = p[k - 1] /\ s # << >>
  <2>1. Len(s) = k - 1 /\ s[k - 1] = p[k - 1]
    BY <1>2, <1>4
  <2> QED BY <1>2, <2>1
<1>8. /\ code[p[k - 1]].kind \in {"function", "method"}
      /\ p[k - 1] \in 1 .. Len(code)
  BY <1>2, <1>5 DEF IsUserCall
<1>9. Reached(s) = code[p[k - 1]].callee /\ CallSiteId(s) = code[p[k - 1]].site
  BY <1>7 DEF Reached, CallSiteId
<1>10. code[p[k - 1]].callee \in Functions
  <2>1. code[p[k - 1]].kind # "state"
    BY <1>8
  <2> QED BY <1>8, <2>1, CallTyped, Zenon DEF CallOK
<1>11. code[p[k]].in # Body
  BY <1>6, <1>9, <1>10, Sizes DEF Functions, Body
<1> QED BY <1>2, <1>6, <1>8, <1>9, <1>11 DEF s

LEMMA PathEnd ==
  ASSUME IInv, NEW p \in CallPaths
  PROVE  /\ p[Len(p)] \in 1 .. Len(code)
         /\ code[p[Len(p)]].kind = "state"
         /\ Len(p) = 1 \/ Len(p) > 1
         /\ Len(p) = 1 => code[p[Len(p)]].in = Body
         /\ Len(p) > 1 =>
              /\ Len(p) # 1
              /\ InnerCall(p) \in 1 .. Len(code)
              /\ code[InnerCall(p)].kind \in {"function", "method"}
              /\ code[p[Len(p)]].in # Body
              /\ code[p[Len(p)]].in = code[InnerCall(p)].callee
         /\ StateKey(p) =
              IF Len(p) = 1 \/ IsTemporary(p)
              THEN <<NoSite, code[p[Len(p)]].id>>
              ELSE <<code[InnerCall(p)].site, code[p[Len(p)]].id>>
<1> DEFINE L == Len(p)
<1>1. L \in Nat \ {0} /\ p \in [1 .. L -> 1 .. Len(code)]
  BY PathTyped
<1>2. L \in 1 .. L
  BY <1>1
<1>3. /\ p[L] \in 1 .. Len(code)
      /\ code[p[L]].in = Reached(SubSeq(p, 1, L - 1)) /\ ~ IsUserCall(p[L])
  BY <1>1, <1>2 DEF CallPaths, IsCallPath
<1>4. code[p[L]].kind = "state"
  <2>1. code[p[L]] \in Call
    BY <1>3, CallTyped
  <2> QED BY <1>3, <2>1 DEF Call, Kinds, IsUserCall
<1>5. CASE L = 1
  <2>1. SubSeq(p, 1, L - 1) = << >>
    BY <1>5, SubSeqEmpty
  <2>2. code[p[L]].in = Body
    BY <1>3, <2>1 DEF Reached
  <2>3. StateKey(p) = <<NoSite, code[p[L]].id>>
    BY <2>2 DEF StateKey
  <2> QED BY <1>3, <1>4, <1>5, <2>2, <2>3
<1>6. CASE L > 1
  <2>1. L \in 2 .. L /\ L # 1
    BY <1>1, <1>6
  <2>2. /\ code[p[L]].in # Body
        /\ code[p[L]].in = code[InnerCall(p)].callee
        /\ L - 1 \in 1 .. L
        /\ code[InnerCall(p)].kind \in {"function", "method"}
        /\ CallSiteId(SubSeq(p, 1, L - 1)) = code[InnerCall(p)].site
    BY <2>1, PathStep DEF InnerCall
  <2>3. StateKey(p) = IF IsTemporary(p)
                      THEN <<NoSite, code[p[L]].id>>
                      ELSE <<code[InnerCall(p)].site, code[p[L]].id>>
    BY <2>2 DEF StateKey, IsTemporary
  <2>4. InnerCall(p) \in 1 .. Len(code)
    BY <1>1, <2>2 DEF InnerCall
  <2> QED BY <1>3, <1>4, <1>6, <2>1, <2>2, <2>3, <2>4
<1>7. L = 1 \/ L > 1
  BY <1>1
<1> QED BY <1>5, <1>6, <1>7

\* Chains with one key end in calls with one id.
LEMMA SameId ==
  ASSUME IInv, NEW p \in CallPaths, NEW q \in CallPaths, StateKey(p) = StateKey(q)
  PROVE  /\ p[Len(p)] \in 1 .. Len(code) /\ q[Len(q)] \in 1 .. Len(code)
         /\ code[p[Len(p)]].kind = "state" /\ code[q[Len(q)]].kind = "state"
         /\ code[p[Len(p)]].id = code[q[Len(q)]].id
         /\ CallOK(code[p[Len(p)]], counts, sites, temps)
         /\ CallOK(code[q[Len(q)]], counts, sites, temps)
         /\ p[Len(p)] # q[Len(q)] => Distinct(code[p[Len(p)]], code[q[Len(q)]])
<1>1. p[Len(p)] \in 1 .. Len(code) /\ q[Len(q)] \in 1 .. Len(code)
  BY PathEnd, Zenon
<1>2. code[p[Len(p)]].kind = "state" /\ code[q[Len(q)]].kind = "state"
  BY PathEnd, Zenon
<1>3. code[p[Len(p)]].id = code[q[Len(q)]].id
  BY PathEnd
<1> QED BY <1>1, <1>2, <1>3 DEF IInv, CodeOK

\* Two functions are entered by one call, or both without a call-site id.
LEMMA SameSite ==
  ASSUME IInv, NEW p \in CallPaths, NEW q \in CallPaths, StateKey(p) = StateKey(q),
         ~ IsTemporary(p), Len(p) > 1, Len(q) > 1
  PROVE  \/ InnerCall(p) = InnerCall(q)
         \/ CalledAsMethod(p) /\ CalledAsMethod(q)
<1> DEFINE k == InnerCall(p)
           l == InnerCall(q)
<1>1. ~ IsTemporary(q)
  BY SameId DEF IsTemporary
<1>2. /\ k \in 1 .. Len(code) /\ l \in 1 .. Len(code)
      /\ code[k].kind \in {"function", "method"}
      /\ code[l].kind \in {"function", "method"}
  BY PathEnd
<1>3. code[k].site = code[l].site
  BY <1>1, PathEnd
<1>4. /\ CallOK(code[k], counts, sites, temps)
      /\ CallOK(code[l], counts, sites, temps)
      /\ k # l => Distinct(code[k], code[l])
  BY <1>2 DEF IInv, CodeOK
<1>5. NoSite \notin Sites
  BY DEF NoSite, Sites, Functions
<1> HIDE DEF k, l
<1>6. \/ k = l
      \/ code[k].kind = "method" /\ code[l].kind = "method"
  BY <1>2, <1>3, <1>4, <1>5 DEF CallOK, Distinct
<1> QED BY <1>6 DEF CalledAsMethod, k, l

\* One call has one id, and one variable too.
LEMMA SameSubjectId ==
  ASSUME NEW p, NEW q, SameSubject(p, q)
  PROVE  /\ code[p[Len(p)]].in = code[q[Len(q)]].in
         /\ code[p[Len(p)]].id = code[q[Len(q)]].id
<1> DEFINE i == p[Len(p)]
           j == q[Len(q)]
<1>1. Subject(i) = Subject(j)
  BY DEF SameSubject
<1> HIDE DEF i, j
<1>2. code[i].in = code[j].in /\ code[i].id = code[j].id
  BY <1>1 DEF Subject
<1> QED BY <1>2 DEF i, j

LEMMA SharingOK == IInv => SharedForAReason
<1> SUFFICES ASSUME IInv, NEW p \in CallPaths, NEW q \in CallPaths,
                    StateKey(p) = StateKey(q), ~ (IsUnlocated(p) /\ IsUnlocated(q)),
                    ~ (/\ IsLocal(p) /\ IsLocal(q)
                       /\ CalledAsMethod(p) /\ CalledAsMethod(q))
             PROVE  /\ SameSubject(p, q)
                    /\ \/ IsTemporary(p)
                       \/ CalledAsMethod(p) /\ CalledAsMethod(q)
                       \/ SameInnerCall(p, q)
  BY DEF SharedForAReason
<1> DEFINE i == p[Len(p)]
           j == q[Len(q)]
<1>1. /\ i \in 1 .. Len(code) /\ j \in 1 .. Len(code)
      /\ code[i].kind = "state" /\ code[j].kind = "state"
      /\ code[i].id = code[j].id
      /\ CallOK(code[i], counts, sites, temps) /\ CallOK(code[j], counts, sites, temps)
      /\ i # j => Distinct(code[i], code[j])
  BY SameId
<1>2. /\ Len(p) = 1 <=> code[i].in = Body
      /\ Len(q) = 1 <=> code[j].in = Body
      /\ Len(p) # 1 => Len(p) > 1
      /\ Len(q) # 1 => Len(q) > 1
  BY PathEnd, Zenon
<1>3. SameSubject(p, q)
  <2>1. CASE i = j
    BY <2>1 DEF SameSubject
  <2>2. CASE i # j
    <3>1. /\ code[i].id[1] = "local"
          /\ code[i].id[2] = "block" => code[i].in = code[j].in
      <4>1. ~ (code[i].id[1] = "hash" /\ code[j].id[1] = "hash")
        BY DEF IsUnlocated
      <4> HIDE DEF i, j
      <4> QED BY <1>1, <2>2, <4>1 DEF Distinct
    <3>2. code[i].in = code[j].in
      <4>1. CASE code[i].id[2] = "block"
        BY <3>1, <4>1
      <4>2. CASE code[i].id[2] = "function"
        <5>1. code[i].in # Body /\ code[j].in # Body
          <6> HIDE DEF i, j
          <6> QED BY <1>1, <3>1, <4>2 DEF CallOK
        <5>2. Len(p) > 1 /\ Len(q) > 1
          BY <1>2, <5>1
        <5>3. ~ IsTemporary(p) /\ IsLocal(p) /\ IsLocal(q)
          <6>1. code[i].id[1] = "local" /\ code[j].id[1] = "local"
            BY <1>1, <3>1
          <6> QED BY <6>1 DEF IsTemporary, IsLocal
        <5>4. InnerCall(p) = InnerCall(q)
          BY <5>2, <5>3, SameSite
        <5> QED BY <5>2, <5>4, PathEnd
      <4>3. code[i].id[2] \in {"block", "function"}
        <5> HIDE DEF i, j
        <5> QED BY <1>1, <3>1 DEF CallOK, Ids, LocalIds
      <4> QED BY <4>1, <4>2, <4>3
    <3>3. Subject(i) = Subject(j)
      <4> HIDE DEF i, j
      <4> QED BY <1>1, <3>1, <3>2 DEF Subject
    <3> QED BY <3>3 DEF SameSubject
  <2> QED BY <2>1, <2>2
<1>4. SUFFICES ASSUME ~ IsTemporary(p)
               PROVE  \/ CalledAsMethod(p) /\ CalledAsMethod(q)
                      \/ SameInnerCall(p, q)
  BY <1>3
<1>5. Len(p) = 1 <=> Len(q) = 1
  BY <1>2, <1>3, SameSubjectId
<1>6. CASE Len(p) = 1
  BY <1>5, <1>6 DEF SameInnerCall
<1>7. CASE Len(p) # 1
  BY <1>2, <1>4, <1>5, <1>7, SameSite DEF SameInnerCall
<1> QED BY <1>6, <1>7

\* Whatever programs do, the states of state_id_py_expr (state.py) are shared by
\* two chains of calls for one of the named reasons only: the ordinals of
\* state_id_for_call and the call-site ids of call_dispatch.py never repeat.
THEOREM SharingHasAReason == CallSitesSpec => []SharedForAReason
BY SharingOK, Inductive, PTL
-----------------------------------------------------------------------------
(* Programs that call functions from the body of the script only.          *)
PlainCall(c) ==
  /\ c.kind = "state" => c.id[1] \in {"located", "local"}
  /\ c.kind # "method"
  /\ c.kind = "function" => c.in = Body

Plain == \A i \in 1 .. Len(code) : PlainCall(code[i])

LEMMA RenderedPlain ==
  ASSUME IInv, Plain, NEW kind \in Kinds, NEW callee \in Functions \union {Body},
         NEW id \in Ids \union {NoId}, NEW site \in Sites \union {NoSite},
         Rendered(kind, callee, id, site),
         PlainCall(NewCall(kind, callee, id, site))
  PROVE  Plain'
<1> DEFINE new == NewCall(kind, callee, id, site)
           L == Len(code)
<1>1. /\ L \in Nat /\ Len(code') = L + 1
      /\ \A i \in 1 .. L : code'[i] = code[i]
      /\ code'[L + 1] = new
  BY RenderedCode DEF IInv
<1>2. \A i \in 1 .. L : PlainCall(code[i])
  BY DEF Plain
<1>3. PlainCall(new)
  OBVIOUS
<1> HIDE DEF new, L
<1>4. \A i \in 1 .. L + 1 : PlainCall(code'[i])
  <2> SUFFICES ASSUME NEW i \in 1 .. L + 1 PROVE PlainCall(code'[i])
    OBVIOUS
  <2>1. CASE i \in 1 .. L
    BY <1>1, <1>2, <2>1
  <2>2. CASE i = L + 1
    BY <1>1, <1>3, <2>2
  <2> QED BY <1>1, <2>1, <2>2
<1> QED BY <1>1, <1>4 DEF Plain, PlainCall

LEMMA StepPlain ==
  ASSUME Uses = {}, IInv, Plain, [CallSitesNext]_vars
  PROVE  Plain'
<1>1. ASSUME code' = code PROVE Plain'
  BY <1>1 DEF Plain, PlainCall
<1>2. CASE UNCHANGED vars
  BY <1>1, <1>2 DEF vars
<1>3. CASE NextBody \/ Run \/ Return
  BY <1>1, <1>3 DEF NextBody, Run, Return, translator
<1>4. ASSUME NEW i \in 1 .. Len(code), Enter(i) \/ Evaluate(i)
      PROVE  Plain'
  BY <1>1, <1>4 DEF Enter, Evaluate, translator
<1>5. ASSUME NEW loc \in Locations, NEW b \in Builtins, RenderStateful(loc, b)
      PROVE  Plain'
  <2> DEFINE id == <<"located", loc, b, Ordinal(loc, b)>>
  <2>1. Rendered("state", Body, id, NoSite)
    BY <1>5 DEF RenderStateful
  <2>2. id \in Ids
    <3>1. counts[<<loc, b>>] \in 0 .. Len(code) /\ Len(code) \in Nat
      BY DEF IInv, TranslatorOK
    <3>2. Len(code) < MaxCalls
      BY <2>1 DEF Rendered
    <3>3. Ordinal(loc, b) \in 1 .. MaxCalls
      BY <3>1, <3>2, Sizes DEF Ordinal
    <3> QED BY <3>3 DEF Ids
  <2>3. PlainCall(NewCall("state", Body, id, NoSite))
    BY DEF PlainCall, NewCall
  <2> QED BY <2>1, <2>2, <2>3, RenderedPlain DEF Kinds
<1>8. ASSUME NEW scope \in {"function", "block"}, NEW name \in Locals,
             RenderLocalHistory(scope, name)
      PROVE  Plain'
  <2> DEFINE id == <<"local", scope, name>>
  <2>1. Rendered("state", Body, id, NoSite)
    BY <1>8 DEF RenderLocalHistory
  <2>2. id \in Ids
    BY DEF Ids, LocalIds
  <2>3. PlainCall(NewCall("state", Body, id, NoSite))
    BY DEF PlainCall, NewCall
  <2> QED BY <2>1, <2>2, <2>3, RenderedPlain DEF Kinds
<1>6. ASSUME NEW f \in Functions, RenderFunctionCall(f)
      PROVE  Plain'
  <2>1. Rendered("function", f, NoId, Site(f)) /\ owner = Body
    BY <1>6 DEF RenderFunctionCall
  <2>2. Site(f) \in Sites
    <3>1. sites[f] \in 0 .. Len(code) /\ Len(code) \in Nat
      BY DEF IInv, TranslatorOK
    <3>2. Len(code) < MaxCalls
      BY <2>1 DEF Rendered
    <3> QED BY <3>1, <3>2, Sizes DEF Site, Sites
  <2>3. PlainCall(NewCall("function", f, NoId, Site(f)))
    BY <2>1 DEF PlainCall, NewCall
  <2> QED BY <2>1, <2>2, <2>3, RenderedPlain DEF Kinds
<1>7. /\ ~ RenderTemporary
      /\ \A b \in Builtins : ~ RenderUnlocated(b)
      /\ \A f \in Functions : ~ RenderMethodCall(f)
  BY DEF RenderTemporary, RenderUnlocated, RenderMethodCall
<1> QED BY <1>2, <1>3, <1>4, <1>5, <1>6, <1>7, <1>8 DEF CallSitesNext

LEMMA PlainIsolated == IInv /\ Plain => Isolated
<1> SUFFICES ASSUME IInv, Plain, NEW p \in CallPaths, NEW q \in CallPaths,
                    StateKey(p) = StateKey(q)
             PROVE  HistoryOf(p) = HistoryOf(q)
  BY DEF Isolated
<1>1. ASSUME NEW r \in CallPaths
      PROVE  /\ ~ IsUnlocated(r) /\ ~ IsTemporary(r) /\ ~ CalledAsMethod(r)
             /\ Len(r) \in 1 .. 2 /\ r \in [1 .. Len(r) -> 1 .. Len(code)]
  <2>1. r[Len(r)] \in 1 .. Len(code) /\ code[r[Len(r)]].kind = "state"
    BY PathEnd, Zenon
  <2>2. code[r[Len(r)]].id[1] \in {"located", "local"}
    BY <2>1 DEF Plain, PlainCall
  <2>3. ~ CalledAsMethod(r)
    BY PathEnd DEF CalledAsMethod, Plain, PlainCall
  <2>4. Len(r) \in Nat \ {0} /\ r \in [1 .. Len(r) -> 1 .. Len(code)]
    BY PathTyped, Zenon
  <2>5. ~ Len(r) > 2
    <3> SUFFICES ASSUME Len(r) > 2 PROVE FALSE
      OBVIOUS
    <3>1. /\ Len(r) \in 2 .. Len(r) /\ Len(r) - 1 \in 2 .. Len(r)
          /\ Len(r) - 1 \in 1 .. Len(r)
      BY <2>4
    <3>2. code[r[Len(r) - 1]].kind \in {"function", "method"}
      BY <3>1, PathStep
    <3>3. code[r[Len(r) - 1]].in # Body
      BY <3>1, PathStep
    <3>4. PlainCall(code[r[Len(r) - 1]])
      BY <2>4, <3>1 DEF Plain
    <3> QED BY <3>2, <3>3, <3>4 DEF PlainCall
  <2> QED BY <2>2, <2>3, <2>4, <2>5 DEF IsUnlocated, IsTemporary
<1>2. SameSubject(p, q) /\ SameInnerCall(p, q)
  BY <1>1, SharingOK DEF SharedForAReason
<1>3. SUFFICES SubSeq(p, 1, Len(p) - 1) = SubSeq(q, 1, Len(q) - 1)
  BY <1>2 DEF HistoryOf, SameSubject
<1>4. p \in Seq(1 .. MaxCalls) /\ q \in Seq(1 .. MaxCalls)
  BY PathTyped
<1>5. CASE Len(p) = 1
  <2>1. Len(q) = 1
    BY <1>2, <1>5 DEF SameInnerCall
  <2> QED BY <1>5, <2>1, SubSeqEmpty
<1>6. CASE Len(p) = 2
  <2>1. Len(q) > 1 /\ p[1] = q[Len(q) - 1]
    BY <1>2, <1>6 DEF SameInnerCall, InnerCall
  <2>3. Len(q) = 2
    <3> DEFINE n == Len(q)
    <3>1. n \in 1 .. 2 /\ n > 1
      BY <1>1, <2>1
    <3> HIDE DEF n
    <3>2. n = 2
      BY <3>1
    <3> QED BY <3>2 DEF n
  <2>2. ASSUME NEW r \in Seq(1 .. MaxCalls), Len(r) = 2
        PROVE  SubSeq(r, 1, Len(r) - 1) = << r[1] >>
    <3> DEFINE s == SubSeq(r, 1, 1)
    <3>1. r[1] \in 1 .. MaxCalls
      <4>1. 1 \in 1 .. Len(r)
        BY <2>2
      <4> QED BY <4>1, ElementOfSeq
    <3>2. s \in Seq(1 .. MaxCalls) /\ Len(s) = 1 /\ s[1] = r[1]
      BY <2>2, <3>1, SubSeqProperties
    <3>3. << r[1] >> \in Seq(1 .. MaxCalls) /\ Len(<< r[1] >>) = 1
      BY <3>1
    <3> HIDE DEF s
    <3>4. s = << r[1] >>
      BY <3>2, <3>3, SeqEqual
    <3> QED BY <2>2, <3>4 DEF s
  <2> QED BY <1>4, <1>6, <2>1, <2>2, <2>3
<1> QED BY <1>1, <1>5, <1>6

\* When functions are called from the body of the script only, each call site
\* has its own isolated stateful series, as state.py says, and the references to
\* a local variable's history, which have one id (expressions.py:387), reach one
\* state in each invocation and never that of another variable.
THEOREM FlatProgramsIsolated ==
  ASSUME Uses = {}
  PROVE  CallSitesSpec => []Isolated
<1>1. CallSitesInit => Plain
  BY DEF CallSitesInit, Plain
<1>2. IInv /\ Plain /\ [CallSitesNext]_vars => Plain'
  BY StepPlain
<1> QED BY <1>1, <1>2, PlainIsolated, Inductive, PTL DEF CallSitesSpec
-----------------------------------------------------------------------------
(* Such programs implement PineStates: nothing is evaluated before the     *)
(* program runs, the calls in progress form a chain, so that an evaluation *)
(* is a step of one chain, and isolation keeps the other histories.        *)
Caller(p, k) == IF k = 1 THEN Body ELSE code[p[k - 1]].callee

Chained == \A k \in 1 .. Len(path) : code[path[k]].in = Caller(path, k)

Quiet == ~ running => \A k \in Keys : states[k] = 0

LEMMA ReachedPrefix ==
  ASSUME NEW S, NEW p \in Seq(S), NEW k \in 1 .. Len(p) + 1
  PROVE  Reached(SubSeq(p, 1, k - 1)) = Caller(p, k)
<1> DEFINE s == SubSeq(p, 1, k - 1)
<1>1. Len(p) \in Nat /\ 1 \in Int /\ k - 1 \in Int /\ k \in Nat
  OBVIOUS
<1>2. \A j \in 1 .. k - 1 : p[j] \in S
  <2>1. \A j \in 1 .. k - 1 : j \in 1 .. Len(p)
    BY <1>1
  <2> QED BY <2>1, ElementOfSeq
<1>3. CASE k = 1
  BY <1>3, SubSeqEmpty DEF Reached, Caller
<1>4. CASE k # 1
  <2>1. /\ Len(s) = IF 1 <= k - 1 THEN k - 1 - 1 + 1 ELSE 0
        /\ \A j \in 1 .. k - 1 - 1 + 1 : s[j] = p[1 + j - 1]
    BY <1>1, <1>2, SubSeqProperties
  <2> HIDE DEF s
  <2>2. Len(s) = k - 1 /\ s[k - 1] = p[k - 1]
    BY <1>1, <1>4, <2>1
  <2>3. s # << >>
    BY <1>1, <1>4, <2>2
  <2> QED BY <1>4, <2>2, <2>3 DEF Reached, Caller, s
<1> QED BY <1>3, <1>4

LEMMA ChainedStep == IInv /\ Chained /\ [CallSitesNext]_vars => Chained'
<1> SUFFICES ASSUME IInv, Chained, [CallSitesNext]_vars PROVE Chained'
  OBVIOUS
<1> DEFINE L == Len(path)
<1>1. path \in Seq(1 .. Len(code)) /\ L \in Nat
  BY DEF IInv, RunOK
<1>2. ASSUME ~ running, path' = path PROVE Chained'
  <2>1. path' = << >> /\ Len(path') = 0
    BY <1>2, EmptySeq DEF IInv, RunOK
  <2> QED BY <2>1 DEF Chained
<1>3. ASSUME code' = code, path' = path PROVE Chained'
  BY <1>3 DEF Chained, Caller
<1>4. ASSUME NEW i \in 1 .. Len(code), Enter(i)
      PROVE  Chained'
  <2>1. code' = code /\ path' = Append(path, i) /\ code[i].in = Reached(path)
    BY <1>4 DEF Enter, translator
  <2>2. /\ Len(path') = L + 1 /\ path'[L + 1] = i
        /\ \A k \in 1 .. L : path'[k] = path[k]
    BY <1>1, <2>1
  <2>3. code[i].in = IF L = 0 THEN Body ELSE code[path[L]].callee
    BY <1>1, <2>1, EmptySeq DEF Reached
  <2>4. ASSUME NEW k \in 1 .. L + 1
        PROVE  code[path'[k]].in = IF k = 1 THEN Body ELSE code[path'[k - 1]].callee
    <3>1. CASE k \in 1 .. L
      <4>1. code[path[k]].in = IF k = 1 THEN Body ELSE code[path[k - 1]].callee
        BY <3>1 DEF Chained, Caller
      <4>2. k = 1 \/ k - 1 \in 1 .. L
        BY <1>1
      <4> QED BY <2>2, <3>1, <4>1, <4>2
    <3>2. CASE k = L + 1
      <4>1. k = 1 <=> L = 0
        BY <1>1, <3>2
      <4>2. L # 0 => k - 1 = L /\ L \in 1 .. L
        BY <1>1, <3>2
      <4> HIDE DEF L
      <4> QED BY <2>2, <2>3, <3>2, <4>1, <4>2
    <3> QED BY <1>1, <3>1, <3>2
  <2> QED BY <2>1, <2>2, <2>4 DEF Chained, Caller
<1>5. CASE Return
  <2>1. code' = code /\ path' = SubSeq(path, 1, L - 1) /\ path # << >>
    BY <1>5 DEF Return, translator
  <2>2. L \in Nat \ {0}
    BY <1>1, <2>1, EmptySeq
  <2>3. Len(path') = L - 1 /\ \A k \in 1 .. L - 1 : path'[k] = path[k]
    <3>1. \A k \in 1 .. L - 1 : path[k] \in 1 .. Len(code)
      BY <1>1
    <3>2. 1 \in Int /\ L - 1 \in Int
      BY <1>1
    <3> HIDE DEF L
    <3>3. /\ Len(SubSeq(path, 1, L - 1)) = IF 1 <= L - 1 THEN L - 1 - 1 + 1 ELSE 0
          /\ \A k \in 1 .. L - 1 - 1 + 1 :
                SubSeq(path, 1, L - 1)[k] = path[1 + k - 1]
      BY <3>1, <3>2, SubSeqProperties
    <3> QED BY <2>1, <2>2, <3>3
  <2>4. ASSUME NEW k \in 1 .. L - 1
        PROVE  code[path'[k]].in = IF k = 1 THEN Body ELSE code[path'[k - 1]].callee
    <3>1. k \in 1 .. L /\ (k = 1 \/ k - 1 \in 1 .. L - 1)
      BY <2>2
    <3>2. code[path[k]].in = IF k = 1 THEN Body ELSE code[path[k - 1]].callee
      BY <3>1 DEF Chained, Caller
    <3> HIDE DEF L
    <3> QED BY <2>3, <3>1, <3>2
  <2> QED BY <2>1, <2>3, <2>4 DEF Chained, Caller
<1>6. ASSUME NEW i, Evaluate(i) PROVE Chained'
  BY <1>3, <1>6 DEF Evaluate, translator
<1>7. CASE UNCHANGED vars
  BY <1>3, <1>7 DEF vars
<1>8. CASE NextBody \/ Run
  BY <1>3, <1>8 DEF NextBody, Run, translator
<1>9. ASSUME NEW kind, NEW callee, NEW id, NEW site, Rendered(kind, callee, id, site)
      PROVE  Chained'
  BY <1>2, <1>9 DEF Rendered
<1> QED
  BY <1>4, <1>5, <1>6, <1>7, <1>8, <1>9 DEF CallSitesNext, RenderTemporary,
     RenderStateful, RenderUnlocated, RenderLocalHistory, RenderFunctionCall,
     RenderMethodCall

\* Only Evaluate writes a state, and it needs a running program.
LEMMA QuietStep == Quiet /\ [CallSitesNext]_vars => Quiet'
<1> SUFFICES ASSUME Quiet, [CallSitesNext]_vars PROVE Quiet'
  OBVIOUS
<1>1. ASSUME states' = states, running' = running \/ running' = TRUE
      PROVE  Quiet'
  BY <1>1 DEF Quiet, Keys
<1>2. ASSUME running, running' = running PROVE Quiet'
  BY <1>2 DEF Quiet
<1>3. CASE UNCHANGED vars
  BY <1>1, <1>3 DEF vars
<1>4. CASE NextBody \/ Run \/ Return
  BY <1>1, <1>4 DEF NextBody, Run, Return
<1>5. ASSUME NEW kind, NEW callee, NEW id, NEW site, Rendered(kind, callee, id, site)
      PROVE  Quiet'
  BY <1>1, <1>5 DEF Rendered
<1>6. ASSUME NEW i, Enter(i) \/ Evaluate(i) PROVE Quiet'
  BY <1>2, <1>6 DEF Enter, Evaluate
<1> QED
  BY <1>3, <1>4, <1>5, <1>6 DEF CallSitesNext, RenderTemporary,
     RenderStateful, RenderUnlocated, RenderLocalHistory, RenderFunctionCall,
     RenderMethodCall

LEMMA KeyTyped ==
  ASSUME IInv, NEW p \in CallPaths
  PROVE  StateKey(p) \in Keys
<1> DEFINE i == p[Len(p)]
           j == InnerCall(p)
<1>1. i \in 1 .. Len(code) /\ code[i].kind = "state"
  BY PathEnd, Zenon
<1>2. code[i].id \in Ids
  BY <1>1, CallTyped, Zenon DEF CallOK
<1>3. Len(p) # 1 => code[j].site \in Sites \union {NoSite}
  BY PathEnd, CallTyped DEF Call
<1>4. \/ StateKey(p) = <<NoSite, code[i].id>>
      \/ Len(p) # 1 /\ StateKey(p) = <<code[j].site, code[i].id>>
  BY PathEnd
<1> HIDE DEF i, j
<1> QED BY <1>2, <1>3, <1>4 DEF Keys

\* What Evaluate(i) evaluates is the stateful call at the end of a chain.
LEMMA EvaluatedPath ==
  ASSUME IInv, Chained, NEW i \in 1 .. Len(code), Evaluate(i)
  PROVE  Append(path, i) \in CallPaths
<1> DEFINE p == Append(path, i)
           L == Len(path)
<1>1. /\ path \in Seq(1 .. Len(code)) /\ L \in Nat
      /\ code[i].in = Reached(path) /\ code[i].kind = "state"
  BY DEF IInv, RunOK, Evaluate
<1>2. /\ p \in Seq(1 .. Len(code)) /\ Len(p) = L + 1 /\ p[L + 1] = i
      /\ \A k \in 1 .. L : p[k] = path[k]
  BY <1>1
<1> HIDE DEF p
<1>3. L <= LastFunction
  <2>1. CASE L = 0
    BY <2>1, Sizes
  <2>2. CASE L # 0
    <3>1. L \in 1 .. L
      BY <1>1, <2>2
    <3>2. path[L] \in 1 .. Len(code) /\ code[path[L]].callee + L <= Body
      BY <1>1, <3>1 DEF IInv, RunOK
    <3>3. code[path[L]].callee \in 1 .. Body /\ Body = LastFunction + 1
      BY <3>2, CallTyped
    <3> QED BY <1>1, <3>2, <3>3, Sizes
  <2> QED BY <2>1, <2>2
<1>4. p \in Paths
  <2>1. L + 1 \in 1 .. LastFunction + 1
    BY <1>1, <1>3, Sizes
  <2>2. Len(code) \in Nat /\ Len(code) <= MaxCalls
    BY DEF IInv, TranslatorOK
  <2>3. p \in [1 .. L + 1 -> 1 .. Len(code)]
    BY <1>2, LenProperties
  <2>4. p \in [1 .. L + 1 -> 1 .. MaxCalls]
    BY <2>2, <2>3, Sizes
  <2> QED BY <2>1, <2>4 DEF Paths
<1>5. ASSUME NEW k \in 1 .. L + 1
      PROVE  /\ p[k] \in 1 .. Len(code)
             /\ code[p[k]].in = Reached(SubSeq(p, 1, k - 1))
             /\ IsUserCall(p[k]) <=> k < L + 1
  <2>1. p[k] \in 1 .. Len(code)
    BY <1>2, ElementOfSeq
  <2>2. Reached(SubSeq(p, 1, k - 1)) = Caller(p, k)
    <3>1. k \in 1 .. Len(p) + 1
      BY <1>1, <1>2
    <3> QED BY <1>2, <3>1, ReachedPrefix
  <2>3. CASE k \in 1 .. L
    <3>1. p[k] = path[k] /\ (k = 1 \/ p[k - 1] = path[k - 1])
      <4>1. k = 1 \/ k - 1 \in 1 .. L
        BY <1>1, <2>3
      <4> HIDE DEF L
      <4> QED BY <1>2, <2>3, <4>1
    <3>2. code[path[k]].in = Caller(path, k) /\ code[path[k]].kind # "state"
      BY <2>3 DEF Chained, IInv, RunOK
    <3>3. IsUserCall(p[k])
      <4>1. code[p[k]] \in Call
        BY <2>1, CallTyped
      <4> QED BY <3>1, <3>2, <4>1 DEF Call, Kinds, IsUserCall
    <3>4. k < L + 1
      BY <1>1, <2>3
    <3> QED BY <2>1, <2>2, <3>1, <3>2, <3>3, <3>4 DEF Caller
  <2>4. CASE k = L + 1
    <3>1. L = 0 <=> path = << >>
      BY <1>1, EmptySeq
    <3>2. Caller(p, k) = Reached(path)
      BY <1>1, <1>2, <2>4, <3>1 DEF Caller, Reached
    <3>3. ~ IsUserCall(p[k]) /\ ~ k < L + 1
      BY <1>1, <1>2, <2>4 DEF IsUserCall
    <3> QED BY <1>1, <1>2, <2>1, <2>2, <2>4, <3>2, <3>3
  <2> QED BY <1>1, <2>3, <2>4
<1> QED BY <1>2, <1>4, <1>5 DEF CallPaths, IsCallPath, p

\* The history of a chain depends on what its key depends on.
LEMMA SameHistorySameKey ==
  ASSUME NEW p, NEW q, HistoryOf(p) = HistoryOf(q)
  PROVE  StateKey(p) = StateKey(q)
<1>1. SubSeq(p, 1, Len(p) - 1) = SubSeq(q, 1, Len(q) - 1) /\ SameSubject(p, q)
  BY DEF HistoryOf, SameSubject
<1>2. /\ code[p[Len(p)]].in = code[q[Len(q)]].in
      /\ code[p[Len(p)]].id = code[q[Len(q)]].id
  BY <1>1, SameSubjectId
<1> QED BY <1>1, <1>2 DEF StateKey

\* A chain is its history's calls and the call or reference read last.
LEMMA HistoryTyped ==
  ASSUME IInv, NEW p \in CallPaths
  PROVE  /\ HistoryOf(p) \in Histories
         /\ HistoryOf(p)[1] = SubSeq(p, 1, Len(p) - 1)
         /\ Append(HistoryOf(p)[1], p[Len(p)]) = p
         /\ p[Len(p)] \in Readers(HistoryOf(p))
<1> DEFINE L == Len(p)
           i == p[L]
           s == SubSeq(p, 1, L - 1)
<1>1. PICK n \in 1 .. LastFunction + 1 : p \in [1 .. n -> 1 .. MaxCalls]
  BY DEF CallPaths, Paths
<1>2. /\ n \in Nat /\ L \in Nat \ {0} /\ p \in Seq(1 .. MaxCalls) /\ L = n
      /\ p \in [1 .. L -> 1 .. Len(code)]
  <2>1. n \in Nat
    BY Sizes
  <2> QED BY <1>1, <2>1, PathTyped, LenProperties
<1>3. \A k \in 1 .. L - 1 : p[k] \in 1 .. MaxCalls
  BY <1>1, <1>2
<1>4. /\ s \in Seq(1 .. MaxCalls)
      /\ Len(s) = IF 1 <= L - 1 THEN L - 1 - 1 + 1 ELSE 0
      /\ \A k \in 1 .. L - 1 - 1 + 1 : s[k] = p[1 + k - 1]
  BY <1>2, <1>3, SubSeqProperties
<1>5. Len(s) = L - 1 /\ (\A k \in 1 .. L - 1 : s[k] = p[k]) /\ L - 1 \in 0 .. LastFunction
  <2> HIDE DEF s
  <2> QED BY <1>1, <1>2, <1>4, Sizes
<1>6. s \in [1 .. L - 1 -> 1 .. MaxCalls]
  BY <1>4, <1>5, LenProperties
<1>7. i \in 1 .. Len(code) /\ code[i].kind = "state" /\ i \in 1 .. MaxCalls
  <2>1. i \in 1 .. Len(code) /\ code[i].kind = "state"
    BY PathEnd, Zenon
  <2>2. Len(code) \in Nat /\ Len(code) <= MaxCalls
    BY DEF IInv, TranslatorOK
  <2> HIDE DEF i
  <2> QED BY <2>1, <2>2, Sizes
<1>8. Append(s, i) = p
  <2> HIDE DEF s
  <2>1. /\ Append(s, i) \in Seq(1 .. MaxCalls) /\ Len(Append(s, i)) = L
        /\ Append(s, i)[L] = i
        /\ \A k \in 1 .. L - 1 : Append(s, i)[k] = p[k]
    BY <1>2, <1>4, <1>5, <1>7
  <2>2. \A k \in 1 .. L : Append(s, i)[k] = p[k]
    BY <1>2, <2>1
  <2> QED BY <1>2, <2>1, <2>2, SeqEqual
<1>9. Subject(i) \in ({"call"} \X (1 .. MaxCalls))
                       \union ({"variable"} \X Bodies \X LocalIds)
  <2>1. code[i] \in Call /\ code[i].id \in Ids
    BY <1>7, CallTyped, Zenon DEF CallOK
  <2> HIDE DEF i
  <2>2. code[i].in \in Bodies
    BY <2>1 DEF Call
  <2>3. code[i].id[1] = "local" => code[i].id \in LocalIds
    BY <2>1 DEF Ids
  <2> QED BY <1>7, <2>2, <2>3 DEF Subject
<1>10. HistoryOf(p) \in Histories
  BY <1>5, <1>6, <1>9 DEF HistoryOf, Histories
<1>11. IsCallPath(Append(s, i))
  BY <1>8 DEF CallPaths
<1>12. HistoryOf(p)[1] = s /\ HistoryOf(p)[2] = Subject(i)
  BY DEF HistoryOf
<1> HIDE DEF s, i
<1>13. i \in Readers(HistoryOf(p))
  BY <1>7, <1>11, <1>12 DEF Readers
<1> QED BY <1>8, <1>10, <1>12, <1>13 DEF s, i

\* What a reader of a history stands for: a chain that leads to the history.
LEMMA ReaderChain ==
  ASSUME IInv, NEW h \in Histories, NEW i \in Readers(h)
  PROVE  Append(h[1], i) \in CallPaths /\ HistoryOf(Append(h[1], i)) = h
<1> DEFINE p == Append(h[1], i)
<1>1. PICK n \in 0 .. LastFunction : h[1] \in [1 .. n -> 1 .. MaxCalls]
  BY DEF Histories
<1>2. /\ i \in 1 .. Len(code) /\ Subject(i) = h[2] /\ IsCallPath(p)
      /\ h = <<h[1], h[2]>>
  BY DEF Readers, Histories
<1>3. n \in Nat /\ n + 1 \in 1 .. LastFunction + 1 /\ i \in 1 .. MaxCalls
  <2>1. Len(code) \in Nat /\ Len(code) <= MaxCalls
    BY DEF IInv, TranslatorOK
  <2> QED BY <1>2, <2>1, Sizes
<1>4. h[1] \in Seq(1 .. MaxCalls) /\ Len(h[1]) = n
  <2> DEFINE f == h[1]
  <2>1. f \in [1 .. n -> 1 .. MaxCalls]
    BY <1>1
  <2> HIDE DEF f
  <2>2. f \in Seq(1 .. MaxCalls)
    BY <1>3, <2>1, SeqDef
  <2>3. Len(f) = n
    BY <1>3, <2>1, <2>2, LenProperties
  <2> QED BY <2>2, <2>3 DEF f
<1>5. /\ p \in Seq(1 .. MaxCalls) /\ Len(p) = n + 1 /\ p[n + 1] = i
      /\ \A k \in 1 .. n : p[k] = h[1][k]
  BY <1>3, <1>4
<1> HIDE DEF p
<1>6. p \in [1 .. n + 1 -> 1 .. MaxCalls]
  BY <1>3, <1>5, LenProperties
<1>7. p \in CallPaths
  BY <1>2, <1>3, <1>6 DEF CallPaths, Paths
<1>8. SubSeq(p, 1, Len(p) - 1) = h[1]
  <2>1. Len(p) - 1 = n /\ n \in Int /\ 1 \in Int
    BY <1>3, <1>5
  <2>2. \A k \in 1 .. n : p[k] \in 1 .. MaxCalls
    BY <1>1, <1>5
  <2>3. /\ SubSeq(p, 1, n) \in Seq(1 .. MaxCalls)
        /\ Len(SubSeq(p, 1, n)) = IF 1 <= n THEN n - 1 + 1 ELSE 0
        /\ \A k \in 1 .. n - 1 + 1 : SubSeq(p, 1, n)[k] = p[1 + k - 1]
    BY <2>1, <2>2, SubSeqProperties
  <2> DEFINE s == SubSeq(p, 1, n)
  <2> HIDE DEF s
  <2>4. Len(s) = n /\ \A k \in 1 .. n : s[k] = h[1][k]
    BY <1>3, <1>5, <2>3 DEF s
  <2>5. s = h[1]
    BY <1>4, <2>3, <2>4, SeqEqual DEF s
  <2> QED BY <2>1, <2>5 DEF s
<1> QED BY <1>2, <1>5, <1>7, <1>8 DEF HistoryOf, p

\* A history has the value that any chain leading to it reads.
ValuesRead ==
  \A h \in Histories :
    /\ \A p \in CallPaths : HistoryOf(p) = h => History[h] = states[StateKey(p)]
    /\ (\A p \in CallPaths : HistoryOf(p) # h) => History[h] = 0

LEMMA HistoryValue == IInv => ValuesRead
<1> SUFFICES ASSUME IInv, NEW h \in Histories
    PROVE  /\ \A p \in CallPaths : HistoryOf(p) = h => History[h] = states[StateKey(p)]
           /\ (\A p \in CallPaths : HistoryOf(p) # h) => History[h] = 0
  BY DEF ValuesRead
<1>1. History[h] = IF Readers(h) = {} THEN 0
                   ELSE states[StateKey(Append(h[1], CHOOSE i \in Readers(h) : TRUE))]
  BY DEF History
<1>2. ASSUME NEW p \in CallPaths, HistoryOf(p) = h
      PROVE  History[h] = states[StateKey(p)]
  <2> DEFINE r == CHOOSE i \in Readers(h) : TRUE
  <2>1. Readers(h) # {}
    BY <1>2, HistoryTyped
  <2>2. r \in Readers(h)
    BY <2>1
  <2> HIDE DEF r
  <2>3. HistoryOf(Append(h[1], r)) = HistoryOf(p)
    BY <1>2, <2>2, ReaderChain
  <2>4. StateKey(Append(h[1], r)) = StateKey(p)
    BY <2>3, SameHistorySameKey
  <2> QED BY <1>1, <2>1, <2>4 DEF r
<1>3. ASSUME \A p \in CallPaths : HistoryOf(p) # h
      PROVE  History[h] = 0
  <2>1. Readers(h) = {}
    BY <1>3, ReaderChain
  <2> QED BY <1>1, <2>1
<1> QED BY <1>2, <1>3

Untouched == History = [h \in Histories |-> 0]

LEMMA QuietUntouched == IInv /\ Quiet /\ ~ running => Untouched
<1> SUFFICES ASSUME IInv, Quiet, ~ running PROVE Untouched
  OBVIOUS
<1>1. ASSUME NEW h \in Histories PROVE History[h] = 0
  <2>1. CASE \A p \in CallPaths : HistoryOf(p) # h
    BY <2>1, HistoryValue DEF ValuesRead
  <2>2. CASE \E p \in CallPaths : HistoryOf(p) = h
    <3>1. PICK p \in CallPaths : HistoryOf(p) = h
      BY <2>2
    <3>2. states[StateKey(p)] = 0
      BY KeyTyped DEF Quiet
    <3> QED BY <3>1, <3>2, HistoryValue DEF ValuesRead
  <2> QED BY <2>1, <2>2
<1> QED BY <1>1 DEF Untouched, History

LEMMA HistoryStep ==
  ASSUME IInv, IInv', Chained, Quiet, Quiet', Isolated, [CallSitesNext]_vars
  PROVE  [Pine!Next]_History
<1>1. ASSUME code' = code, NEW p
      PROVE  StateKey(p)' = StateKey(p) /\ HistoryOf(p)' = HistoryOf(p)
  BY <1>1 DEF StateKey, CallSiteId, HistoryOf, Subject
<1>2. ASSUME code' = code PROVE CallPaths' = CallPaths
  BY <1>2 DEF CallPaths, Paths, IsCallPath, Reached, IsUserCall
<1>3. ASSUME code' = code, states' = states PROVE History' = History
  BY <1>3 DEF History, Readers, Subject, IsCallPath, StateKey, Reached, CallSiteId,
     IsUserCall, Histories
<1>4. ASSUME ~ running, ~ running' PROVE History' = History
  <2>1. (IInv /\ Quiet /\ ~ running)' => Untouched'
    BY QuietUntouched, PTL
  <2>2. Untouched /\ Untouched'
    BY <1>4, <2>1, QuietUntouched
  <2> QED BY <2>2 DEF Untouched, Histories
<1>5. ValuesRead /\ ValuesRead'
  <2>1. IInv' => ValuesRead'
    BY HistoryValue, PTL
  <2> QED BY <2>1, HistoryValue
<1>6. ASSUME NEW i \in 1 .. Len(code), Evaluate(i)
      PROVE  Pine!Next
  <2> DEFINE p == Append(path, i)
             key == StateKey(p)
             h == HistoryOf(p)
  <2>1. code' = code /\ states' = [states EXCEPT ![key] = @ + 1]
    BY <1>6 DEF Evaluate, translator
  <2>2. p \in CallPaths /\ key \in Keys
    BY <1>6, EvaluatedPath, KeyTyped
  <2>3. h \in Histories
    BY <2>2, HistoryTyped
  <2>4. states \in [Keys -> 0 .. MaxEvaluations]
    BY DEF IInv, RunOK
  <2> HIDE DEF p
  <2>5. History'[h] = History[h] + 1
    <3>1. History[h] = states[key]
      BY <2>2, <2>3, HistoryValue DEF ValuesRead
    <3>2. History'[h] = states'[key]
      BY <1>1, <1>2, <1>5, <2>1, <2>2, <2>3 DEF ValuesRead
    <3> HIDE DEF key, h
    <3> QED BY <2>1, <2>2, <2>4, <3>1, <3>2
  <2>6. ASSUME NEW g \in Histories \ {h} PROVE History'[g] = History[g]
    <3>1. CASE \E q \in CallPaths : HistoryOf(q) = g
      <4>1. PICK q \in CallPaths : HistoryOf(q) = g
        BY <3>1
      <4>2. StateKey(q) \in Keys /\ StateKey(q) # key
        BY <2>2, <2>6, <4>1, KeyTyped DEF Isolated
      <4>3. History[g] = states[StateKey(q)]
        BY <2>6, <4>1, HistoryValue DEF ValuesRead
      <4>4. History'[g] = states'[StateKey(q)]
        BY <1>1, <1>2, <1>5, <2>1, <2>6, <4>1 DEF ValuesRead
      <4> HIDE DEF key
      <4> QED BY <2>1, <2>4, <4>2, <4>3, <4>4
    <3>2. CASE \A q \in CallPaths : HistoryOf(q) # g
      <4>1. History[g] = 0
        BY <2>6, <3>2, HistoryValue DEF ValuesRead
      <4>2. History'[g] = 0
        BY <1>1, <1>2, <1>5, <2>1, <2>6, <3>2 DEF ValuesRead
      <4> QED BY <4>1, <4>2
    <3> QED BY <3>1, <3>2
  <2>7. Pine!Evaluate(h)
    BY <2>5, <2>6 DEF Pine!Evaluate
  <2> QED BY <2>3, <2>7 DEF Pine!Next
<1>7. CASE UNCHANGED vars
  BY <1>3, <1>7 DEF vars
<1>8. CASE NextBody \/ Run \/ Return
  BY <1>3, <1>8 DEF NextBody, Run, Return, translator
<1>9. ASSUME NEW i, Enter(i) PROVE History' = History
  BY <1>3, <1>9 DEF Enter, translator
<1>10. ASSUME NEW kind, NEW callee, NEW id, NEW site, Rendered(kind, callee, id, site)
      PROVE  History' = History
  BY <1>4, <1>10 DEF Rendered
<1> QED
  BY <1>6, <1>7, <1>8, <1>9, <1>10 DEF CallSitesNext, RenderTemporary,
     RenderStateful, RenderUnlocated, RenderLocalHistory, RenderFunctionCall,
     RenderMethodCall

\* The run-time states of such a program implement Pine's: every evaluation of a
\* stateful call, or of a reference to a local variable's history, extends the
\* history its own chain of calls leads to and no other
\* (state.py: each call site gets its own isolated stateful series).
THEOREM FlatProgramsKeepHistories ==
  ASSUME Uses = {}
  PROVE  CallSitesSpec => KeepsHistories
<1>1. CallSitesInit => Chained /\ Quiet
  <2> SUFFICES ASSUME CallSitesInit PROVE Chained /\ Quiet
    OBVIOUS
  <2>1. Len(path) = 0
    BY EmptySeq DEF CallSitesInit
  <2> QED BY <2>1 DEF CallSitesInit, Chained, Quiet
<1>2. CallSitesInit => Pine!Init
  BY <1>1, InitOK, QuietUntouched DEF CallSitesInit, Untouched, Pine!Init
<1>3. IInv /\ IInv' /\ Chained /\ Quiet /\ Quiet' /\ Isolated /\ [CallSitesNext]_vars
      => [Pine!Next]_History
  BY HistoryStep
<1> QED
  BY <1>1, <1>2, <1>3, ChainedStep, QuietStep, Inductive, FlatProgramsIsolated,
     PTL DEF CallSitesSpec, KeepsHistories, Pine!Spec
=============================================================================
