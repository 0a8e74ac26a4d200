---------------------------- MODULE StartupProofs ----------------------------
(***************************************************************************)
(* Proofs about Startup, for every set of threads and modules and every    *)
(* number of providers, faults and later imports.                          *)
(***************************************************************************)
EXTENDS Startup, TLAPS

Pcs    == {"idle", "import", "inject", "clean", "has"}
Stages == {"none", "importing", "made", "ready", "gone", "collected"}

TypeOK ==
  /\ app \in [excluded : SUBSET Modules, hidden : SUBSET Modules]
  /\ made \in 0 .. MaxProviders /\ instance \in 0 .. made
  /\ stage \in [Provider -> Stages]
  /\ todo \in [Provider -> SUBSET Modules] /\ missed \in [Provider -> SUBSET Modules]
  /\ bound \in [Provider -> SUBSET [module : Modules, version : Nat]]
  /\ loaded \in SUBSET Modules /\ version \in [Modules -> Nat]
  /\ pc \in [Threads -> Pcs] /\ own \in [Threads -> 0 .. made]
  /\ overlapped \in BOOLEAN /\ withdrawn \in SUBSET Threads /\ late \in SUBSET Provider

(* A provider belongs to the one thread that makes it until it is ready or *)
(* given up.                                                               *)
OwnInv ==
  /\ \A t \in Threads : own[t] # NoProvider <=> StartingUp(t)
  /\ \A t, u \in Threads : own[t] = own[u] /\ own[t] # NoProvider => t = u
  /\ \A t \in Threads :
       /\ pc[t] = "import" => stage[own[t]] = "importing"
       /\ pc[t] = "inject" => stage[own[t]] = "made" /\ todo[own[t]] = {}
       /\ pc[t] = "clean"  => stage[own[t]] \in {"importing", "made"}

(* Without overlap one thread at a time starts up, and until it is through *)
(* no container is there but its own.                                      *)
AloneInv == ~overlapped =>
  \A t \in Threads : StartingUp(t) =>
    /\ \A u \in Threads : StartingUp(u) => u = t
    /\ instance \in {NoProvider, own[t]}
    /\ pc[t] = "import" => instance = NoProvider
    /\ pc[t] = "inject" /\ t \notin withdrawn => instance = own[t]

(* A provider that is not late has no other startup beside it.             *)
LateInv ==
  /\ \A t, u \in Threads : StartingUp(t) /\ StartingUp(u) /\ own[t] \notin late => u = t
  /\ instance # NoProvider /\ instance \notin late =>
       \A t \in Threads : StartingUp(t) => own[t] = instance

(* What it has come to, it has loaded, but for what it cannot know.        *)
Spared(p) == app.excluded \cup app.hidden \cup missed[p]

LoadedInv ==
  /\ \A m \in loaded : version[m] > 0
  /\ \A t \in Threads : pc[t] \in {"import", "inject"} /\ own[t] \notin late =>
       Modules \subseteq loaded \cup Spared(own[t]) \cup todo[own[t]]
  /\ instance # NoProvider /\ instance \notin late /\ stage[instance] = "ready" =>
       Modules \subseteq loaded \cup Spared(instance)

ReadyInv == TypeOK /\ OwnInv /\ AloneInv /\ ReadyUnlessOverlapped
BoundInv == LateInv /\ LoadedInv /\ ResolvesBound

-----------------------------------------------------------------------------
LEMMA InitReady == Init => ReadyInv
<1> SUFFICES ASSUME Init PROVE ReadyInv
  OBVIOUS
<1>1. MaxProviders \in Nat /\ 0 \in 0 .. MaxProviders
  BY BoundAssumption
<1>2. instance \in 0 .. made /\ own \in [Threads -> 0 .. made]
  BY DEF Init, NoProvider
<1>3. TypeOK
  BY <1>1, <1>2 DEF Init, TypeOK, Pcs, Stages
<1> QED
  BY <1>3 DEF Init, ReadyInv, OwnInv, AloneInv, ReadyUnlessOverlapped, StartingUp, NoProvider

LEMMA InitBound == Init => BoundInv
  BY DEF Init, BoundInv, LateInv, LoadedInv, ResolvesBound, StartingUp, NoProvider

(* A provider that is not there yet has no owner and is not the instance.  *)
LEMMA ProviderShape ==
  ASSUME TypeOK
  PROVE  /\ MaxProviders \in Nat /\ made \in Nat /\ instance \in Nat
         /\ \A t \in Threads : own[t] \in Nat /\ own[t] # made + 1
         /\ \A t \in Threads : own[t] # NoProvider => own[t] \in Provider
         /\ instance # NoProvider => instance \in Provider
         /\ instance # made + 1
         /\ made < MaxProviders => made + 1 \in Provider /\ made + 1 \in 0 .. MaxProviders
  BY BoundAssumption DEF TypeOK, Provider, NoProvider

(* The provider of a thread that starts up is one that was made, and its   *)
(* own.                                                                    *)
LEMMA OwnShape ==
  ASSUME TypeOK, OwnInv, NEW t \in Threads, StartingUp(t)
  PROVE  /\ own[t] \in Provider /\ own[t] # NoProvider /\ own[t] \in 1 .. made
         /\ \A u \in Threads : u # t => own[u] # own[t]
<1>1. own[t] # NoProvider /\ own[t] \in 0 .. made
  BY DEF OwnInv, TypeOK
<1> QED
  BY <1>1, ProviderShape DEF OwnInv, NoProvider

(* Every variable keeps its type.                                          *)
LEMMA TypeStep ==
  ASSUME TypeOK, OwnInv, [Next]_vars
  PROVE  TypeOK'
<1> USE ProviderShape, BoundAssumption DEF Go, Enter, Fault, Failed, Execute, ImportRaises, DropInstance,
    providerVars, moduleVars, ghostVars, TypeOK, OwnInv,
    StartingUp, Pcs, Stages, Provider, NoProvider
<1>1. ASSUME NEW t \in Threads, UseInstance(t) PROVE TypeOK'
  BY <1>1 DEF UseInstance
<1>2. ASSUME NEW t \in Threads, MakeProvider(t) PROVE TypeOK'
  <2>1. /\ made' \in 0 .. MaxProviders /\ instance' \in 0 .. made'
        /\ own' \in [Threads -> 0 .. made'] /\ made' \in Provider
    BY <1>2 DEF MakeProvider
  <2>2. late' \in SUBSET Provider
    <3>1. \A u \in Threads : StartingUp(u) => own[u] \in Provider
      BY OwnShape
    <3>2. \/ late' = late
          \/ late' = late \cup {made'} \cup {own[u] : u \in {v \in Threads \ {t} : StartingUp(v)}}
      BY <1>2 DEF MakeProvider
    <3>3. late \subseteq Provider
      OBVIOUS
    <3>4. ASSUME NEW q \in late' PROVE q \in Provider
      <4>1. q \in late \/ q = made' \/ \E u \in Threads : StartingUp(u) /\ q = own[u]
        BY ONLY <3>2, <3>4
      <4> QED
        BY ONLY <2>1, <3>1, <3>3, <4>1
    <3> QED
      BY <3>4, Zenon
  <2>3. /\ stage' \in [Provider -> Stages] /\ todo' \in [Provider -> SUBSET Modules]
        /\ pc' \in [Threads -> Pcs] /\ overlapped' \in BOOLEAN /\ withdrawn' \in SUBSET Threads
    BY <1>2, <2>1 DEF MakeProvider
  <2>4. UNCHANGED <<app, missed, bound, loaded, version>>
    BY <1>2 DEF MakeProvider
  <2> QED
    BY <2>1, <2>2, <2>3, <2>4
<1>3. ASSUME NEW t \in Threads, Configure(t) PROVE TypeOK'
  <2>1. own[t] \in Provider /\ own[t] \in 0 .. made
    BY <1>3, OwnShape DEF Configure
  <2> QED
    BY <1>3, <2>1 DEF Configure
<1>4. ASSUME NEW t \in Threads, Inject(t) PROVE TypeOK'
  <2>1. own[t] \in Provider
    BY <1>4, OwnShape DEF Inject
  <2>2. Defined \in SUBSET [module : Modules, version : Nat]
    BY DEF Defined
  <2>3. bound' \in [Provider -> SUBSET [module : Modules, version : Nat]]
    <3>1. bound' = bound \/ bound' = [bound EXCEPT ![own[t]] = Defined]
      BY <1>4 DEF Inject
    <3>2. bound \in [Provider -> SUBSET [module : Modules, version : Nat]]
      OBVIOUS
    <3> QED
      BY ONLY <2>2, <3>1, <3>2
  <2>4. /\ stage' \in [Provider -> Stages] /\ pc' \in [Threads -> Pcs] /\ own' \in [Threads -> 0 .. made]
    <3>1. /\ stage' = stage \/ stage' = [stage EXCEPT ![own[t]] = "ready"]
          /\ pc' = [pc EXCEPT ![t] = "has"] \/ pc' = [pc EXCEPT ![t] = "clean"]
          /\ own' = own \/ own' = [own EXCEPT ![t] = NoProvider]
      BY <1>4 DEF Inject
    <3>2. stage' \in [Provider -> Stages]
      BY <3>1
    <3>3. pc' \in [Threads -> Pcs]
      BY <3>1
    <3>4. own' \in [Threads -> 0 .. made]
      <4>1. 0 \in 0 .. made
        BY ProviderShape
      <4>2. own \in [Threads -> 0 .. made]
        OBVIOUS
      <4> QED
        BY ONLY <3>1, <4>1, <4>2 DEF NoProvider
    <3> QED
      BY <3>2, <3>3, <3>4
  <2>5. UNCHANGED <<app, instance, made, todo, missed, loaded, version, overlapped, withdrawn, late>>
    BY <1>4 DEF Inject
  <2> QED
    BY <2>3, <2>4, <2>5
<1>5. ASSUME NEW t \in Threads, Clean(t) PROVE TypeOK'
  BY <1>5 DEF Clean
<1>6. ASSUME NEW t \in Threads, Cleanup(t) PROVE TypeOK'
  BY <1>6 DEF Cleanup
<1>7. ASSUME NEW t \in Threads, NEW m \in Modules, Import(t, m) PROVE TypeOK'
  <2>1. own[t] \in Provider
    BY <1>7, OwnShape DEF Import
  <2>2. todo' \in [Provider -> SUBSET Modules] /\ missed' \in [Provider -> SUBSET Modules]
    BY <1>7, <2>1 DEF Import
  <2>3. loaded' \in SUBSET Modules /\ version' \in [Modules -> Nat] /\ pc' \in [Threads -> Pcs]
    <3>1. /\ loaded' = loaded \/ loaded' = loaded \cup {m} \/ loaded' = loaded \ Modules
          /\ version' = version \/ version' = [version EXCEPT ![m] = @ + 1]
          /\ pc' = pc \/ pc' = [pc EXCEPT ![t] = "clean"]
      BY SMTT(30), <1>7 DEF Import
    <3>2. version' \in [Modules -> Nat]
      <4>1. version \in [Modules -> Nat]
        OBVIOUS
      <4>2. [version EXCEPT ![m] = @ + 1] \in [Modules -> Nat]
        BY ONLY <4>1
      <4> QED
        BY ONLY <3>1, <4>1, <4>2
    <3>3. pc' \in [Threads -> Pcs] /\ loaded' \in SUBSET Modules
      BY <3>1
    <3> QED
      BY <3>2, <3>3
  <2>4. UNCHANGED <<app, instance, made, stage, bound, own, overlapped, withdrawn, late>>
    BY <1>7 DEF Import
  <2> QED
    BY <2>2, <2>3, <2>4
<1>8. ASSUME NEW t \in Threads, NEW m \in Modules, ImportAgain(t, m) PROVE TypeOK'
  BY <1>8 DEF ImportAgain
<1>9. ASSUME NEW p \in Provider, Collect(p) PROVE TypeOK'
  <2>1. late' \in SUBSET Provider
    <3>1. late' = late \cup {q \in 1 .. made : q # p} /\ 1 .. made \subseteq Provider /\ late \subseteq Provider
      BY <1>9 DEF Collect
    <3> QED
      BY ONLY <3>1
  <2>2. stage' \in [Provider -> Stages] /\ loaded' \in SUBSET Modules
    BY <1>9 DEF Collect
  <2>3. UNCHANGED <<app, instance, made, todo, missed, bound, version, pc, own, overlapped, withdrawn>>
    BY <1>9 DEF Collect
  <2> QED
    BY <2>1, <2>2, <2>3
<1>10. CASE UNCHANGED vars
  BY <1>10 DEF vars, providerVars, moduleVars, ghostVars
<1> QED
  BY <1>1, <1>2, <1>3, <1>4, <1>5, <1>6, <1>7, <1>8, <1>9, <1>10 DEF Next

(* Only its owner moves a provider before it is ready.                     *)
LEMMA OwnStep ==
  ASSUME TypeOK, OwnInv, [Next]_vars
  PROVE  OwnInv'
<1> USE ProviderShape DEF Go, Enter, Fault, Failed, Execute, ImportRaises, DropInstance,
    providerVars, moduleVars, ghostVars, TypeOK, OwnInv,
    StartingUp, Pcs, Stages, Provider, NoProvider
<1>1. ASSUME NEW t \in Threads, UseInstance(t) PROVE OwnInv'
  BY <1>1 DEF UseInstance
<1>2. ASSUME NEW t \in Threads, MakeProvider(t) PROVE OwnInv'
  BY <1>2 DEF MakeProvider
<1>3. ASSUME NEW t \in Threads, Configure(t) PROVE OwnInv'
  <2>1. own[t] \in Provider /\ \A u \in Threads : u # t => own[u] # own[t]
    BY <1>3, OwnShape DEF Configure
  <2>2. \A u \in Threads : u # t => pc'[u] = pc[u] /\ own'[u] = own[u]
    BY <1>3 DEF Configure
  <2>3. \A q \in Provider : q # own[t] => stage'[q] = stage[q] /\ todo'[q] = todo[q]
    BY <1>3, <2>1 DEF Configure
  <2>4. \A u \in Threads : StartingUp(u) => own[u] \in Provider
    BY OwnShape
  <2>5. /\ own'[t] # NoProvider <=> pc'[t] \in {"import", "inject", "clean"}
        /\ own'[t] \in {NoProvider, own[t]}
        /\ pc'[t] # "import"
        /\ pc'[t] = "inject" => stage'[own'[t]] = "made" /\ todo'[own'[t]] = {}
        /\ pc'[t] = "clean" => stage'[own'[t]] \in {"importing", "made"}
    BY <1>3, <2>1 DEF Configure
  <2>6. \A u \in Threads : own'[u] # NoProvider <=> StartingUp(u)'
    BY ONLY <2>2, <2>5, OwnInv DEF OwnInv, StartingUp
  <2>7. \A u, v \in Threads : own'[u] = own'[v] /\ own'[u] # NoProvider => u = v
    BY <2>1, <2>2, <2>5
  <2>8. ASSUME NEW u \in Threads
        PROVE  /\ pc'[u] = "import" => stage'[own'[u]] = "importing"
               /\ pc'[u] = "inject" => stage'[own'[u]] = "made" /\ todo'[own'[u]] = {}
               /\ pc'[u] = "clean"  => stage'[own'[u]] \in {"importing", "made"}
    <3>1. CASE u = t
      BY ONLY <2>5, <3>1
    <3>2. CASE u # t
      BY ONLY <2>1, <2>2, <2>3, <2>4, <3>2, OwnInv DEF OwnInv, StartingUp
    <3> QED
      BY <3>1, <3>2
  <2> QED
    BY ONLY <2>6, <2>7, <2>8 DEF OwnInv
<1>4. ASSUME NEW t \in Threads, Inject(t) PROVE OwnInv'
  <2>1. own[t] \in Provider /\ \A u \in Threads : u # t => own[u] # own[t]
    BY <1>4, OwnShape DEF Inject
  <2>2. \A u \in Threads : u # t => pc'[u] = pc[u] /\ own'[u] = own[u]
    BY <1>4 DEF Inject
  <2>3. \A q \in Provider : q # own[t] => stage'[q] = stage[q] /\ todo'[q] = todo[q]
    BY <1>4, <2>1 DEF Inject
  <2>4. \A u \in Threads : StartingUp(u) => own[u] \in Provider
    BY OwnShape
  <2>5. /\ own'[t] # NoProvider <=> pc'[t] \in {"import", "inject", "clean"}
        /\ own'[t] \in {NoProvider, own[t]}
        /\ pc'[t] # "import"
        /\ pc'[t] = "inject" => stage'[own'[t]] = "made" /\ todo'[own'[t]] = {}
        /\ pc'[t] = "clean" => stage'[own'[t]] \in {"importing", "made"}
    BY <1>4, <2>1 DEF Inject
  <2>6. \A u \in Threads : own'[u] # NoProvider <=> StartingUp(u)'
    BY ONLY <2>2, <2>5, OwnInv DEF OwnInv, StartingUp
  <2>7. \A u, v \in Threads : own'[u] = own'[v] /\ own'[u] # NoProvider => u = v
    BY <2>1, <2>2, <2>5
  <2>8. ASSUME NEW u \in Threads
        PROVE  /\ pc'[u] = "import" => stage'[own'[u]] = "importing"
               /\ pc'[u] = "inject" => stage'[own'[u]] = "made" /\ todo'[own'[u]] = {}
               /\ pc'[u] = "clean"  => stage'[own'[u]] \in {"importing", "made"}
    <3>1. CASE u = t
      BY ONLY <2>5, <3>1
    <3>2. CASE u # t
      BY ONLY <2>1, <2>2, <2>3, <2>4, <3>2, OwnInv DEF OwnInv, StartingUp
    <3> QED
      BY <3>1, <3>2
  <2> QED
    BY ONLY <2>6, <2>7, <2>8 DEF OwnInv
<1>5. ASSUME NEW t \in Threads, Clean(t) PROVE OwnInv'
  BY <1>5 DEF Clean
<1>6. ASSUME NEW t \in Threads, Cleanup(t) PROVE OwnInv'
  BY <1>6 DEF Cleanup
<1>7. ASSUME NEW t \in Threads, NEW m \in Modules, Import(t, m) PROVE OwnInv'
  <2>1. own[t] \in Provider /\ \A u \in Threads : u # t => own[u] # own[t]
    BY <1>7, OwnShape DEF Import
  <2>2. own' = own /\ stage' = stage /\ pc[t] = "import"
    BY <1>7 DEF Import
  <2>3. \A u \in Threads : u # t => pc'[u] = pc[u]
    BY <1>7 DEF Import
  <2>4. pc'[t] \in {"import", "clean"}
    BY <1>7 DEF Import
  <2>5. \A q \in Provider : q # own[t] => todo'[q] = todo[q]
    BY <1>7, <2>1 DEF Import
  <2>6. \A u \in Threads : StartingUp(u) => own[u] \in Provider
    BY OwnShape
  <2> QED
    BY ONLY <2>1, <2>2, <2>3, <2>4, <2>5, <2>6, OwnInv DEF OwnInv, StartingUp
<1>8. ASSUME NEW t \in Threads, NEW m \in Modules, ImportAgain(t, m) PROVE OwnInv'
  BY <1>8 DEF ImportAgain
<1>9. ASSUME NEW p \in Provider, Collect(p) PROVE OwnInv'
  <2>1. \A u \in Threads : own[u] # p /\ (StartingUp(u) => own[u] \in Provider)
    BY <1>9, OwnShape DEF Collect, Garbage
  <2> QED
    BY <1>9, <2>1 DEF Collect
<1>10. CASE UNCHANGED vars
  BY <1>10 DEF vars, providerVars, moduleVars, ghostVars
<1> QED
  BY <1>1, <1>2, <1>3, <1>4, <1>5, <1>6, <1>7, <1>8, <1>9, <1>10 DEF Next

(* What another thread does meanwhile is an overlap, or its Pdi.cleanup.   *)
LEMMA AloneStep ==
  ASSUME TypeOK, OwnInv, AloneInv, [Next]_vars
  PROVE  AloneInv'
<1> USE ProviderShape DEF Go, Enter, Fault, Failed, Execute, ImportRaises, DropInstance,
    providerVars, moduleVars, ghostVars, TypeOK, OwnInv, AloneInv,
    StartingUp, Pcs, Stages, Provider, NoProvider
<1>1. ASSUME NEW t \in Threads, UseInstance(t) PROVE AloneInv'
  BY <1>1 DEF UseInstance
<1>2. ASSUME NEW t \in Threads, MakeProvider(t) PROVE AloneInv'
  <2>1. SUFFICES ASSUME ~overlapped' PROVE AloneInv'
    OBVIOUS
  <2>2. \A u \in Threads : u # t => ~StartingUp(u) /\ pc'[u] = pc[u]
    BY <1>2, <2>1 DEF MakeProvider
  <2>3. pc'[t] = "import" /\ instance' = NoProvider
    BY <1>2 DEF MakeProvider
  <2> QED
    BY <2>2, <2>3
<1>3. ASSUME NEW t \in Threads, Configure(t) PROVE AloneInv'
  BY <1>3 DEF Configure
<1>4. ASSUME NEW t \in Threads, Inject(t) PROVE AloneInv'
  BY <1>4 DEF Inject
<1>5. ASSUME NEW t \in Threads, Clean(t) PROVE AloneInv'
  BY <1>5 DEF Clean
<1>6. ASSUME NEW t \in Threads, Cleanup(t) PROVE AloneInv'
  BY <1>6 DEF Cleanup
<1>7. ASSUME NEW t \in Threads, NEW m \in Modules, Import(t, m) PROVE AloneInv'
  BY <1>7 DEF Import
<1>8. ASSUME NEW t \in Threads, NEW m \in Modules, ImportAgain(t, m) PROVE AloneInv'
  BY <1>8 DEF ImportAgain
<1>9. ASSUME NEW p \in Provider, Collect(p) PROVE AloneInv'
  BY <1>9 DEF Collect
<1>10. CASE UNCHANGED vars
  BY <1>10 DEF vars, providerVars, moduleVars, ghostVars
<1> QED
  BY <1>1, <1>2, <1>3, <1>4, <1>5, <1>6, <1>7, <1>8, <1>9, <1>10 DEF Next

(* The instance changes when a provider is configured, and when one fails  *)
(* or is cleaned up; the first needs a free place, the others leave none.  *)
LEMMA ReadyStep ==
  ASSUME TypeOK, OwnInv, AloneInv, ReadyUnlessOverlapped, [Next]_vars
  PROVE  ReadyUnlessOverlapped'
<1> USE ProviderShape DEF Go, Enter, Fault, Failed, Execute, ImportRaises, DropInstance,
    providerVars, moduleVars, ghostVars, TypeOK, OwnInv, AloneInv, ReadyUnlessOverlapped,
    StartingUp, Pcs, Stages, Provider, NoProvider
<1>1. ASSUME NEW t \in Threads, UseInstance(t) PROVE ReadyUnlessOverlapped'
  BY <1>1 DEF UseInstance
<1>2. ASSUME NEW t \in Threads, MakeProvider(t) PROVE ReadyUnlessOverlapped'
  BY <1>2 DEF MakeProvider
<1>3. ASSUME NEW t \in Threads, Configure(t) PROVE ReadyUnlessOverlapped'
  BY <1>3 DEF Configure
<1>4. ASSUME NEW t \in Threads, Inject(t) PROVE ReadyUnlessOverlapped'
  BY <1>4 DEF Inject
<1>5. ASSUME NEW t \in Threads, Clean(t) PROVE ReadyUnlessOverlapped'
  <2>1. own[t] \in Provider /\ instance' = NoProvider
    BY <1>5, OwnShape DEF Clean
  <2>2. ASSUME ~overlapped', NEW u \in Threads, pc'[u] = "has", u \notin withdrawn' PROVE FALSE
    <3>1. /\ ~overlapped /\ pc[u] = "has" /\ u \notin withdrawn /\ pc[t] = "clean"
      BY <1>5, <2>2 DEF Clean
    <3>2. instance # NoProvider /\ stage[instance] = "ready"
      BY <3>1
    <3> QED
      BY <3>1, <3>2
  <2> QED
    BY <2>1, <2>2
<1>6. ASSUME NEW t \in Threads, Cleanup(t) PROVE ReadyUnlessOverlapped'
  BY <1>6 DEF Cleanup
<1>7. ASSUME NEW t \in Threads, NEW m \in Modules, Import(t, m) PROVE ReadyUnlessOverlapped'
  BY <1>7 DEF Import
<1>8. ASSUME NEW t \in Threads, NEW m \in Modules, ImportAgain(t, m) PROVE ReadyUnlessOverlapped'
  BY <1>8 DEF ImportAgain
<1>9. ASSUME NEW p \in Provider, Collect(p) PROVE ReadyUnlessOverlapped'
  <2>1. p # instance /\ \A q \in Provider : q # p => stage'[q] = stage[q]
    BY <1>9 DEF Collect, Garbage
  <2>2. UNCHANGED <<instance, own, pc, overlapped, withdrawn>>
    BY <1>9 DEF Collect
  <2> QED
    BY <2>1, <2>2
<1>10. CASE UNCHANGED vars
  BY <1>10 DEF vars, providerVars, moduleVars, ghostVars
<1> QED
  BY <1>1, <1>2, <1>3, <1>4, <1>5, <1>6, <1>7, <1>8, <1>9, <1>10 DEF Next

(* A second startup makes both providers late, a __del__ all others.       *)
LEMMA LateStep ==
  ASSUME TypeOK, OwnInv, LateInv, [Next]_vars
  PROVE  LateInv'
<1> USE ProviderShape DEF Go, Enter, Fault, Failed, Execute, ImportRaises, DropInstance,
    providerVars, moduleVars, ghostVars, TypeOK, OwnInv, LateInv,
    StartingUp, Pcs, Stages, Provider, NoProvider
<1>1. ASSUME NEW t \in Threads, UseInstance(t) PROVE LateInv'
  BY <1>1 DEF UseInstance
<1>2. ASSUME NEW t \in Threads, MakeProvider(t) PROVE LateInv'
  BY <1>2 DEF MakeProvider
<1>3. ASSUME NEW t \in Threads, Configure(t) PROVE LateInv'
  BY <1>3 DEF Configure
<1>4. ASSUME NEW t \in Threads, Inject(t) PROVE LateInv'
  BY <1>4 DEF Inject
<1>5. ASSUME NEW t \in Threads, Clean(t) PROVE LateInv'
  BY <1>5 DEF Clean
<1>6. ASSUME NEW t \in Threads, Cleanup(t) PROVE LateInv'
  BY <1>6 DEF Cleanup
<1>7. ASSUME NEW t \in Threads, NEW m \in Modules, Import(t, m) PROVE LateInv'
  BY SMTT(30), <1>7 DEF Import
<1>8. ASSUME NEW t \in Threads, NEW m \in Modules, ImportAgain(t, m) PROVE LateInv'
  BY <1>8 DEF ImportAgain
<1>9. ASSUME NEW p \in Provider, Collect(p) PROVE LateInv'
  BY <1>9 DEF Collect
<1>10. CASE UNCHANGED vars
  BY <1>10 DEF vars, providerVars, moduleVars, ghostVars
<1> QED
  BY <1>1, <1>2, <1>3, <1>4, <1>5, <1>6, <1>7, <1>8, <1>9, <1>10 DEF Next

(* Modules are taken out of sys.modules by a startup that fails and by a   *)
(* __del__, and neither happens beside a provider that is not late.        *)
LEMMA LoadedStep ==
  ASSUME TypeOK, OwnInv, LateInv, LoadedInv, [Next]_vars
  PROVE  LoadedInv'
<1> USE ProviderShape DEF Go, Enter, Fault, Failed, Execute, ImportRaises, DropInstance,
    providerVars, moduleVars, ghostVars, TypeOK, OwnInv, LateInv, LoadedInv, Spared,
    StartingUp, Pcs, Stages, Provider, NoProvider
<1>1. ASSUME NEW t \in Threads, UseInstance(t) PROVE LoadedInv'
  BY <1>1 DEF UseInstance
<1>2. ASSUME NEW t \in Threads, MakeProvider(t) PROVE LoadedInv'
  BY <1>2 DEF MakeProvider
<1>3. ASSUME NEW t \in Threads, Configure(t) PROVE LoadedInv'
  BY <1>3 DEF Configure
<1>4. ASSUME NEW t \in Threads, Inject(t) PROVE LoadedInv'
  BY <1>4 DEF Inject
<1>5. ASSUME NEW t \in Threads, Clean(t) PROVE LoadedInv'
  BY <1>5 DEF Clean
<1>6. ASSUME NEW t \in Threads, Cleanup(t) PROVE LoadedInv'
  BY <1>6 DEF Cleanup
<1>7. ASSUME NEW t \in Threads, NEW m \in Modules, Import(t, m) PROVE LoadedInv'
  <2>1. /\ own[t] \in Provider /\ \A u \in Threads : u # t => own[u] # own[t]
        /\ StartingUp(t) /\ pc[t] = "import"
    BY <1>7, OwnShape DEF Import
  <2>2. \A k \in loaded' : version'[k] > 0
    BY <1>7 DEF Import
  <2>3. instance # NoProvider /\ instance \notin late => stage[instance] # "ready"
    BY <2>1
  <2>4. ASSUME NEW u \in Threads, pc'[u] \in {"import", "inject"}, own[u] \notin late
        PROVE  Modules \subseteq loaded' \cup Spared(own[u])' \cup todo'[own[u]]
    <3>1. CASE u = t
      BY <1>7, <2>1, <2>4, <3>1 DEF Import, Existing
    <3>2. CASE u # t
      <4>1. StartingUp(u)
        BY <1>7, <2>4, <3>2 DEF Import
      <4> QED
        BY <2>1, <2>4, <3>2, <4>1
    <3> QED
      BY <3>1, <3>2
  <2>5. UNCHANGED <<own, late, instance, stage>>
    BY <1>7 DEF Import
  <2> QED
    BY <2>2, <2>3, <2>4, <2>5
<1>8. ASSUME NEW t \in Threads, NEW m \in Modules, ImportAgain(t, m) PROVE LoadedInv'
  BY <1>8 DEF ImportAgain
<1>9. ASSUME NEW p \in Provider, Collect(p) PROVE LoadedInv'
  <2>1. /\ instance # p /\ instance \in 0 .. made
        /\ \A u \in Threads : own[u] # p /\ own[u] \in 0 .. made
        /\ late' = late \cup {q \in 1 .. made : q # p}
        /\ UNCHANGED <<pc, own, instance, version>> /\ loaded' \subseteq loaded
    BY <1>9 DEF Collect, Garbage
  <2>2. instance # NoProvider => instance \in late'
    BY <2>1
  <2>3. \A u \in Threads : StartingUp(u) => own[u] \in late'
    BY <2>1
  <2> QED
    BY <2>1, <2>2, <2>3
<1>10. CASE UNCHANGED vars
  BY <1>10 DEF vars, providerVars, moduleVars, ghostVars
<1> QED
  BY <1>1, <1>2, <1>3, <1>4, <1>5, <1>6, <1>7, <1>8, <1>9, <1>10 DEF Next

(* So the running application has no module of its own to import again.    *)
LEMMA BoundStep ==
  ASSUME TypeOK, OwnInv, LateInv, LoadedInv, ResolvesBound, [Next]_vars
  PROVE  ResolvesBound'
<1> USE ProviderShape DEF Go, Enter, Fault, Failed, Execute, ImportRaises, DropInstance,
    providerVars, moduleVars, ghostVars, TypeOK, OwnInv, LateInv, LoadedInv, ResolvesBound, Spared,
    StartingUp, Pcs, Stages, Provider, NoProvider
<1>1. ASSUME NEW t \in Threads, UseInstance(t) PROVE ResolvesBound'
  BY <1>1 DEF UseInstance
<1>2. ASSUME NEW t \in Threads, MakeProvider(t) PROVE ResolvesBound'
  BY <1>2 DEF MakeProvider
<1>3. ASSUME NEW t \in Threads, Configure(t) PROVE ResolvesBound'
  BY <1>3 DEF Configure
<1>4. ASSUME NEW t \in Threads, Inject(t) PROVE ResolvesBound'
  <2>1. own[t] \in Provider /\ pc[t] = "inject" /\ StartingUp(t)
    BY <1>4, OwnShape DEF Inject
  <2>2. \A m \in loaded : [module |-> m, version |-> version[m]] \in Defined
    BY DEF Defined
  <2>3. UNCHANGED <<app, instance, missed, loaded, version, late>>
    BY <1>4 DEF Inject
  <2>4. CASE instance = own[t] /\ bound' = [bound EXCEPT ![own[t]] = Defined]
    BY <2>1, <2>2, <2>3, <2>4
  <2>5. CASE bound' = bound /\ stage' = stage
    BY <2>3, <2>5
  <2>6. CASE instance # own[t] /\ bound' = [bound EXCEPT ![own[t]] = Defined]
    <3>1. instance # NoProvider => bound'[instance] = bound[instance] /\ stage'[instance] = stage[instance]
      BY <1>4, <2>1, <2>6 DEF Inject
    <3> QED
      BY <2>3, <3>1
  <2> QED
    BY <1>4, <2>4, <2>5, <2>6 DEF Inject
<1>5. ASSUME NEW t \in Threads, Clean(t) PROVE ResolvesBound'
  BY <1>5 DEF Clean
<1>6. ASSUME NEW t \in Threads, Cleanup(t) PROVE ResolvesBound'
  BY <1>6 DEF Cleanup
<1>7. ASSUME NEW t \in Threads, NEW m \in Modules, Import(t, m) PROVE ResolvesBound'
  BY <1>7 DEF Import
<1>8. ASSUME NEW t \in Threads, NEW m \in Modules, ImportAgain(t, m) PROVE ResolvesBound'
  BY <1>8 DEF ImportAgain
<1>9. ASSUME NEW p \in Provider, Collect(p) PROVE ResolvesBound'
  BY <1>9 DEF Collect
<1>10. CASE UNCHANGED vars
  BY <1>10 DEF vars, providerVars, moduleVars, ghostVars
<1> QED
  BY <1>1, <1>2, <1>3, <1>4, <1>5, <1>6, <1>7, <1>8, <1>9, <1>10 DEF Next

-----------------------------------------------------------------------------
(* A thread that got its Pdi has a provider that is ready, as long as no   *)
(* two startups overlap and no other thread has cleaned it up, and a       *)
(* provider that is half made belongs to the thread that makes it: for     *)
(* every number of threads, failed startups and collections.               *)
THEOREM PdiIsReady == Spec => []ReadyUnlessOverlapped
<1>1. ReadyInv /\ [Next]_vars => ReadyInv'
  BY TypeStep, OwnStep, AloneStep, ReadyStep DEF ReadyInv
<1>2. ReadyInv => ReadyUnlessOverlapped
  BY DEF ReadyInv
<1> QED
  BY <1>1, <1>2, InitReady, PTL DEF Spec

(* The classes of every module a provider imported are the ones it bound,  *)
(* however often startups failed before, unless an older provider's        *)
(* __del__ or a second startup came in between.                            *)
THEOREM ModulesAreBound == Spec => []ResolvesBound
<1>1. ReadyInv /\ [Next]_vars => ReadyInv'
  BY TypeStep, OwnStep, AloneStep, ReadyStep DEF ReadyInv
<1>2. ReadyInv /\ BoundInv /\ [Next]_vars => BoundInv'
  BY LateStep, LoadedStep, BoundStep DEF ReadyInv, BoundInv
<1>3. BoundInv => ResolvesBound
  BY DEF BoundInv
<1> QED
  BY <1>1, <1>2, <1>3, InitReady, InitBound, PTL DEF Spec
=============================================================================
