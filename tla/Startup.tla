------------------------------- MODULE Startup -------------------------------
(***************************************************************************)
(* How an application comes up: Pdi makes a ServiceProvider unless the     *)
(* process-wide DependencyContainer.Instance holds one; the provider       *)
(* imports every module under the root directory, reads the configuration  *)
(* and binds the classes the imports have defined.  A failure, or          *)
(* Pdi.cleanup, drops the provider, whose __del__ runs when the garbage    *)
(* collector finds it and takes its modules out of sys.modules again.      *)
(***************************************************************************)
EXTENDS Integers, FiniteSets

CONSTANTS
  Threads,
  Modules,       \* modules under the root directory
  MaxProviders,  \* providers made
  MaxLazy,       \* imports the running application makes
  MaxFaults      \* imports, files or injections that raise

ASSUME BoundAssumption == {MaxProviders, MaxLazy, MaxFaults} \subseteq Nat

Provider == 1 .. MaxProviders
NoProvider == 0

VARIABLES
  app,        \* modules that are excluded, and modules a foreign one hides
  instance,   \* DependencyContainer.Instance
  made,       \* providers made
  stage,      \* of each provider: "none", "importing", "made", "ready" or "gone"
  todo,       \* modules its import_modules has not come to
  missed,     \* modules it could not find, and went on without
  bound,      \* classes it has bound, as [module, version]
  loaded,     \* modules in sys.modules
  version,    \* how often each module has been executed
  pc, own,    \* each thread's place, and the provider it makes
  lazy, faults,
  overlapped, \* have two startups ever run at the same time?
  withdrawn,  \* threads whose container another thread has cleaned up
  late        \* providers that saw an older one's __del__, or a second startup

providerVars == <<stage, todo, missed, bound>>
moduleVars   == <<loaded, version>>
ghostVars    == <<overlapped, withdrawn, late>>
vars == <<app, instance, made, providerVars, moduleVars, pc, own, lazy, faults, ghostVars>>

Init ==
  /\ app \in [excluded : SUBSET Modules, hidden : SUBSET Modules]
  /\ Cardinality(app.excluded) + Cardinality(app.hidden) <= 1
  /\ instance = NoProvider /\ made = 0
  /\ stage = [p \in Provider |-> "none"]
  /\ todo = [p \in Provider |-> {}] /\ missed = [p \in Provider |-> {}]
  /\ bound = [p \in Provider |-> {}]
  /\ loaded = {} /\ version = [m \in Modules |-> 0]
  /\ pc = [t \in Threads |-> "idle"] /\ own = [t \in Threads |-> NoProvider]
  /\ lazy = 0 /\ faults = 0
  /\ overlapped = FALSE /\ withdrawn = {} /\ late = {}

Go(t, place)    == pc' = [pc EXCEPT ![t] = place]
Enter(p, place) == stage' = [stage EXCEPT ![p] = place]
Fault           == faults < MaxFaults /\ faults' = faults + 1
StartingUp(t)   == pc[t] \in {"import", "inject", "clean"}

-----------------------------------------------------------------------------
(* Pdi(): a container that is there is used, whatever state it is in.      *)
UseInstance(t) ==
  /\ pc[t] = "idle" /\ instance # NoProvider
  /\ Go(t, "has") /\ withdrawn' = withdrawn \ {t}
  /\ overlapped' = (overlapped \/ \E u \in Threads : StartingUp(u))
  /\ UNCHANGED <<app, instance, made, providerVars, moduleVars, own, lazy, faults, late>>

MakeProvider(t) ==
  /\ pc[t] = "idle" /\ instance = NoProvider /\ made < MaxProviders
  /\ made' = made + 1
  /\ own' = [own EXCEPT ![t] = made']
  /\ Enter(made', "importing")
  /\ todo' = [todo EXCEPT ![made'] = Modules \ app.excluded]
  /\ Go(t, "import") /\ withdrawn' = withdrawn \ {t}
  /\ LET others == {u \in Threads \ {t} : StartingUp(u)} IN
       /\ overlapped' = (overlapped \/ others # {})
       /\ late' = IF others = {} THEN late ELSE late \cup {made'} \cup {own[u] : u \in others}
  /\ UNCHANGED <<app, instance, missed, bound, moduleVars, lazy, faults>>

(* check_module_existing: any module whose name ends alike will do.        *)
Existing(m) == m \in loaded \cup app.hidden

Execute(m) ==
  /\ loaded' = loaded \cup {m}
  /\ version' = [version EXCEPT ![m] = @ + 1]

(* import_modules: a module that is not found is tried under the address   *)
(* of the running directory; what raises ends the startup, and takes all   *)
(* modules out of sys.modules; a KeyError of the second try is swallowed.  *)
(* The mistake is to swallow whatever an import raises.                    *)
Failed(t) == Go(t, "clean") /\ loaded' = loaded \ Modules

ImportSwallows(t, m) ==
  /\ Go(t, "import") /\ UNCHANGED <<loaded, missed>>

ImportRaises(t, m) == Failed(t) /\ UNCHANGED missed

Import(t, m) ==
  LET p == own[t] IN
  /\ pc[t] = "import" /\ m \in todo[p]
  /\ todo' = [todo EXCEPT ![p] = @ \ {m}]
  /\ \/ Existing(m) /\ UNCHANGED <<missed, moduleVars, pc, faults>>
     \/ ~Existing(m) /\ Execute(m) /\ UNCHANGED <<missed, pc, faults>>
     \/ /\ ~Existing(m) /\ Fault
        /\ missed' = [missed EXCEPT ![p] = @ \cup {m}]
        /\ UNCHANGED <<moduleVars, pc>>
     \/ ~Existing(m) /\ Fault /\ ImportRaises(t, m) /\ UNCHANGED version
  /\ UNCHANGED <<app, instance, made, stage, bound, own, lazy, ghostVars>>

(* ConfigManager reads the file of the environment, or application.yml if  *)
(* no environment is set, or any other's.  The constructor is through then *)
(* and its provider is the instance, before anything is bound.             *)
Configure(t) ==
  /\ pc[t] = "import" /\ todo[own[t]] = {}
  /\ \/ /\ instance' = own[t] /\ Enter(own[t], "made") /\ Go(t, "inject")
        /\ UNCHANGED faults
     \/ Fault /\ Go(t, "clean") /\ UNCHANGED <<instance, stage>>
  /\ UNCHANGED <<app, made, todo, missed, bound, moduleVars, own, lazy, ghostVars>>

(* initialize_injection: configure binds every class that has been defined *)
(* by then, for an API after ApiProvider has made the Flask application    *)
(* and the routes of its resources.                                        *)
Defined == UNION {[module : {m}, version : 1 .. version[m]] : m \in Modules}

Inject(t) ==
  LET p == own[t] IN
  /\ pc[t] = "inject"
  /\ \/ /\ bound' = [bound EXCEPT ![p] = Defined]
        /\ Enter(p, "ready") /\ Go(t, "has") /\ own' = [own EXCEPT ![t] = NoProvider]
        /\ UNCHANGED faults
     \/ Fault /\ Go(t, "clean") /\ UNCHANGED <<bound, stage, own>>
  /\ UNCHANGED <<app, instance, made, todo, missed, moduleVars, lazy, ghostVars>>

(* initialize_service on a failure: whichever instance there is, is        *)
(* dropped.  The mistake is to drop none.                                  *)
DropNothing(t) == UNCHANGED instance
DropInstance(t) == instance' = NoProvider

Clean(t) ==
  /\ pc[t] = "clean"
  /\ DropInstance(t)
  /\ Enter(own[t], "gone") /\ own' = [own EXCEPT ![t] = NoProvider] /\ Go(t, "idle")
  /\ UNCHANGED <<app, made, todo, missed, bound, moduleVars, lazy, faults, ghostVars>>

(* Pdi.cleanup.                                                            *)
Cleanup(t) ==
  /\ pc[t] = "has"
  /\ instance' = NoProvider
  /\ Go(t, "idle")
  /\ withdrawn' = withdrawn \cup (Threads \ {t})
  /\ UNCHANGED <<app, made, providerVars, moduleVars, own, lazy, faults, overlapped, late>>

(* The provider is bound in its own injector: only the collector of cycles *)
(* gets rid of it, at any later time, and __del__ then cleans the modules. *)
Garbage(p) ==
  p \in 1 .. made /\ p # instance /\ stage[p] \notin {"none", "collected"}
    /\ \A t \in Threads : own[t] # p

Collect(p) ==
  /\ Garbage(p)
  /\ Enter(p, "collected")
  /\ loaded' = loaded \ Modules
  /\ late' = late \cup {q \in 1 .. made : q # p}
  /\ UNCHANGED <<app, instance, made, todo, missed, bound, version, pc, own, lazy,
                 faults, overlapped, withdrawn>>

(* The application imports a module again, as find_handler and import      *)
(* statements do.                                                          *)
ImportAgain(t, m) ==
  /\ pc[t] = "has" /\ lazy < MaxLazy /\ m \notin loaded
  /\ lazy' = lazy + 1
  /\ Execute(m)
  /\ UNCHANGED <<app, instance, made, providerVars, pc, own, faults, ghostVars>>

Next ==
  \/ \E t \in Threads :
       \/ UseInstance(t) \/ MakeProvider(t) \/ Configure(t) \/ Inject(t) \/ Clean(t) \/ Cleanup(t)
       \/ \E m \in Modules : Import(t, m) \/ ImportAgain(t, m)
  \/ \E p \in Provider : Collect(p)

Spec == Init /\ [][Next]_vars

-----------------------------------------------------------------------------
(* A container is never seen half made: as long as no two startups         *)
(* overlap, a thread that got its Pdi has a provider that is ready, unless *)
(* another thread has cleaned it up, and a startup that fails leaves none. *)
ReadyUnlessOverlapped ==
  /\ instance # NoProvider =>
       stage[instance] = "ready" \/ \E t \in Threads : own[t] = instance
  /\ ~overlapped =>
       \A t \in Threads :
         pc[t] = "has" /\ t \notin withdrawn =>
           instance # NoProvider /\ stage[instance] = "ready"

(* The classes of a module the provider imported are the ones it bound,    *)
(* however often startups failed before and the application imports the    *)
(* module again: a second copy of a class, which no provider knows, needs  *)
(* the late __del__ of an older provider or a startup beside this one.     *)
ResolvesBound ==
  instance # NoProvider /\ stage[instance] = "ready" /\ instance \notin late =>
    \A m \in loaded \ (app.excluded \cup app.hidden \cup missed[instance]) :
      [module |-> m, version |-> version[m]] \in bound[instance]
=============================================================================
