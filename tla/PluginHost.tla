----------------------------- MODULE PluginHost -----------------------------
(***************************************************************************)
(* The plugin loader and the two provider registries of the C++ runtime    *)
(* (core/plugin_loader.cpp, core/architecture_registry.cpp,                *)
(* core/tokenizer_registry.cpp, core/builtin_plugins.cpp), shared by the   *)
(* threads of one process.  A load holds g_plugin_mutex throughout and     *)
(* calls into the plugin, which registers providers while other threads    *)
(* look providers up; the first look-up registers the built-in providers   *)
(* under std::call_once.  A registry's own mutex covers a single step.     *)
(***************************************************************************)
EXTENDS Integers, Sequences, FiniteSets

CONSTANTS
  Thread,    \* threads of the host process
  Path,      \* path spellings a caller may pass
  Library,   \* native libraries on disk
  LibOf,     \* the library a path names
  Entry,     \* library |-> "missing", "incompatible" or "valid" descriptor
  Provides,  \* library |-> the providers its init registers, in order
  Builtins,  \* the providers registered under call_once, in order
  Name,      \* provider names
  None,
  MaxCalls   \* bound: calls the threads make between them

Registry == {"arch", "tok"}
Provider == [reg : Registry, name : Name]

ASSUME PluginAssumption ==
  /\ LibOf \in [Path -> Library]
  /\ Entry \in [Library -> {"missing", "incompatible", "valid"}]
  /\ Provides \in [Library -> Seq(Provider)]
  /\ Builtins \in Seq(Provider)
  /\ MaxCalls \in Nat
  /\ None \notin Thread

VARIABLES
  plugins,   \* g_plugins: path and outcome of every load that opened
  registry,  \* g_architectures and g_tokenizers
  once,      \* the once_flag: "new", "running" or "done"
  mutex,     \* holder of g_plugin_mutex
  pc,        \* thread |-> where its call stands
  req,       \* thread |-> its call
  step,      \* thread |-> next provider to register
  answer,    \* thread |-> return code or descriptor of its last call, once it returned
  inits,     \* path |-> times init ran for a load of that path
  calls      \* calls made so far

vars == <<plugins, registry, once, mutex, pc, req, step, answer, inits, calls>>

Descriptor == [name : Name, owner : Library \cup {"builtin"}]
LoadCall == [op : {"load"}, path : Path]
LookCall == [op : {"find"}, reg : Registry, name : Name]
ListCall == [op : {"at"}, reg : Registry, index : 1..2]
Code == [code : -5..1]

Names(reg) == {registry[reg][i].name : i \in DOMAIN registry[reg]}
Recorded == {plugins[i].path : i \in DOMAIN plugins}
Lib(t) == LibOf[req[t].path]

Init ==
  /\ plugins = <<>>
  /\ registry = [reg \in Registry |-> <<>>]
  /\ once = "new"
  /\ mutex = None
  /\ pc = [t \in Thread |-> "idle"]
  /\ req = [t \in Thread |-> None]
  /\ step = [t \in Thread |-> 1]
  /\ answer = [t \in Thread |-> None]
  /\ inits = [p \in Path |-> 0]
  /\ calls = 0

Goto(t, where) == pc' = [pc EXCEPT ![t] = where]

(***************************************************************************)
(* Registration: the first provider of a name stays, later ones are told 1.*)
(***************************************************************************)

\* Fault: a duplicate replaces the first.
RegisterReplacing(p, owner) ==
  registry' = [registry EXCEPT ![p.reg] =
    Append(SelectSeq(@, LAMBDA d : d.name # p.name), [name |-> p.name, owner |-> owner])]

Register(p, owner) ==
  registry' = [registry EXCEPT ![p.reg] =
    IF p.name \in Names(p.reg) THEN @ ELSE Append(@, [name |-> p.name, owner |-> owner])]

-----------------------------------------------------------------------------
Call(t, r) ==
  /\ pc[t] = "idle"
  /\ calls < MaxCalls
  /\ calls' = calls + 1
  /\ req' = [req EXCEPT ![t] = r]
  /\ answer' = [answer EXCEPT ![t] = None]
  /\ Goto(t, IF r.op = "load" THEN "lock" ELSE "ensure")
  /\ UNCHANGED <<plugins, registry, once, mutex, step, inits>>

\* An empty path is refused before the lock.
RefuseEmptyPath(t) ==
  /\ pc[t] = "idle"
  /\ answer' = [answer EXCEPT ![t] = [code |-> -1]]
  /\ UNCHANGED <<plugins, registry, once, mutex, pc, req, step, inits, calls>>

(***************************************************************************)
(* mercan_plugin_load_v1.                                                  *)
(***************************************************************************)
Lock(t) ==
  /\ pc[t] = "lock"
  /\ mutex = None
  /\ mutex' = t
  /\ Goto(t, "load")
  /\ UNCHANGED <<plugins, registry, once, req, step, answer, inits, calls>>

\* The lock_guard leaves scope with the return code.
Return(t, c) ==
  /\ mutex' = None
  /\ answer' = [answer EXCEPT ![t] = [code |-> c]]
  /\ step' = [step EXCEPT ![t] = 1]
  /\ Goto(t, "idle")
  /\ UNCHANGED <<registry, once, req, calls>>

\* The library stays open and its path known, whatever became of the load.
Record(t, c) == plugins' = Append(plugins, [path |-> req[t].path, code |-> c])

AlreadyLoaded(t) ==
  /\ pc[t] = "load"
  /\ req[t].path \in Recorded
  /\ Return(t, 1)
  /\ UNCHANGED <<plugins, inits>>

\* The loader cannot open the file now; a later load may try again.
OpenFails(t) ==
  /\ pc[t] = "load"
  /\ req[t].path \notin Recorded
  /\ Return(t, -2)
  /\ UNCHANGED <<plugins, inits>>

EntryMissing(t) ==
  /\ pc[t] = "load"
  /\ req[t].path \notin Recorded
  /\ Entry[Lib(t)] = "missing"
  /\ Record(t, -3)
  /\ Return(t, -3)
  /\ UNCHANGED inits

DescriptorIncompatible(t) ==
  /\ pc[t] = "load"
  /\ req[t].path \notin Recorded
  /\ Entry[Lib(t)] = "incompatible"
  /\ Record(t, -4)
  /\ Return(t, -4)
  /\ UNCHANGED inits

StartInit(t) ==
  /\ pc[t] = "load"
  /\ req[t].path \notin Recorded
  /\ Entry[Lib(t)] = "valid"
  /\ inits' = [inits EXCEPT ![req[t].path] = @ + 1]
  /\ Goto(t, "init")
  /\ UNCHANGED <<plugins, registry, once, mutex, req, step, answer, calls>>

\* The plugin's init calls back into the host, one provider at a time.
InitRegisters(t) ==
  /\ pc[t] = "init"
  /\ step[t] <= Len(Provides[Lib(t)])
  /\ Register(Provides[Lib(t)][step[t]], Lib(t))
  /\ step' = [step EXCEPT ![t] = @ + 1]
  /\ UNCHANGED <<plugins, once, mutex, pc, req, answer, inits, calls>>

\* Fault: a failed init keeps the mutex.
InitFailsLocked(t) ==
  /\ pc[t] = "init"
  /\ Record(t, -5)
  /\ answer' = [answer EXCEPT ![t] = [code |-> -5]]
  /\ Goto(t, "idle")
  /\ UNCHANGED <<registry, once, mutex, req, step, inits, calls>>

\* Init gives up, perhaps with some of its providers registered already.
InitFails(t) ==
  /\ pc[t] = "init"
  /\ Record(t, -5)
  /\ Return(t, -5)
  /\ UNCHANGED inits

InitSucceeds(t) ==
  /\ pc[t] = "init"
  /\ step[t] > Len(Provides[Lib(t)])
  /\ Record(t, 0)
  /\ Return(t, 0)
  /\ UNCHANGED inits

(***************************************************************************)
(* Look-ups: mercan_ensure_builtin_plugins, then the registry.             *)
(***************************************************************************)

\* The first thread through runs the registrations, the others wait for it.
EnsureStart(t) ==
  /\ pc[t] = "ensure"
  /\ once = "new"
  /\ once' = "running"
  /\ Goto(t, "builtins")
  /\ UNCHANGED <<plugins, registry, mutex, req, step, answer, inits, calls>>

RegisterBuiltin(t) ==
  /\ pc[t] = "builtins"
  /\ step[t] <= Len(Builtins)
  /\ Register(Builtins[step[t]], "builtin")
  /\ step' = [step EXCEPT ![t] = @ + 1]
  /\ UNCHANGED <<plugins, once, mutex, pc, req, answer, inits, calls>>

EnsureFinish(t) ==
  /\ pc[t] = "builtins"
  /\ step[t] > Len(Builtins)
  /\ once' = "done"
  /\ step' = [step EXCEPT ![t] = 1]
  /\ Goto(t, "look")
  /\ UNCHANGED <<plugins, registry, mutex, req, answer, inits, calls>>

\* Fault: a flag set before the work is done lets other threads through.
EnsureSeen(t) ==
  /\ pc[t] = "ensure"
  /\ once # "new"
  /\ Goto(t, "look")
  /\ UNCHANGED <<plugins, registry, once, mutex, req, step, answer, inits, calls>>

EnsureDone(t) ==
  /\ pc[t] = "ensure"
  /\ once = "done"
  /\ Goto(t, "look")
  /\ UNCHANGED <<plugins, registry, once, mutex, req, step, answer, inits, calls>>

FirstNamed(reg, name) ==
  CHOOSE i \in DOMAIN registry[reg] :
    registry[reg][i].name = name /\ \A j \in 1..(i - 1) : registry[reg][j].name # name

\* What the registries hold for a look-up by name or by position.
Resolve(r) ==
  IF r.op = "at"
  THEN IF r.index \in DOMAIN registry[r.reg] THEN registry[r.reg][r.index] ELSE None
  ELSE IF r.name \in Names(r.reg)
       THEN registry[r.reg][FirstNamed(r.reg, r.name)]
       ELSE None

Look(t) ==
  /\ pc[t] = "look"
  /\ answer' = [answer EXCEPT ![t] = Resolve(req[t])]
  /\ Goto(t, "idle")
  /\ UNCHANGED <<plugins, registry, once, mutex, req, step, inits, calls>>

Progress(t) ==
  \/ Lock(t)
  \/ AlreadyLoaded(t)
  \/ OpenFails(t)
  \/ EntryMissing(t)
  \/ DescriptorIncompatible(t)
  \/ StartInit(t)
  \/ InitRegisters(t)
  \/ InitFails(t)
  \/ InitSucceeds(t)
  \/ EnsureStart(t)
  \/ RegisterBuiltin(t)
  \/ EnsureFinish(t)
  \/ EnsureDone(t)
  \/ Look(t)

Next == \E t \in Thread :
  \/ \E r \in LoadCall \cup LookCall \cup ListCall : Call(t, r)
  \/ RefuseEmptyPath(t)
  \/ Progress(t)

Spec == Init /\ [][Next]_vars

\* A thread inside a call runs on; what the caller does next is its own affair.
FairSpec == Spec /\ \A t \in Thread : WF_vars(Progress(t))

-----------------------------------------------------------------------------
(***************************************************************************)
(* Properties.                                                             *)
(***************************************************************************)

\* Every variable stays within its type.
TypeOK ==
  /\ plugins \in Seq([path : Path, code : {0, -3, -4, -5}])
  /\ registry \in [Registry -> Seq(Descriptor)]
  /\ once \in {"new", "running", "done"}
  /\ mutex \in Thread \cup {None}
  /\ pc \in [Thread -> {"idle", "lock", "load", "init", "ensure", "builtins", "look"}]
  /\ req \in [Thread -> LoadCall \cup LookCall \cup ListCall \cup {None}]
  /\ step \in [Thread -> Nat \ {0}]
  /\ answer \in [Thread -> Code \cup Descriptor \cup {None}]
  /\ inits \in [Path -> Nat]
  /\ calls \in 0..MaxCalls

\* No registry ever holds two providers of one name, although plugins and the
\* built-ins register from different threads under different locks.
UniqueNames ==
  \A reg \in Registry : Cardinality(Names(reg)) = Len(registry[reg])

\* A provider handed out by name or by index stays where it is for the life of
\* the process: models keep the descriptor pointer, listings count first and
\* index later, with no lock in between.
RegistryAppendOnly ==
  [][\A reg \in Registry : \A i \in DOMAIN registry[reg] :
       i \in DOMAIN registry'[reg] /\ registry'[reg][i] = registry[reg][i]]_vars

\* Whichever threads load a path, and whether or not its init succeeds, the
\* plugin's init runs at most once for it.
InitOncePerPath == \A p \in Path : inits[p] <= 1

\* Once a load has returned 0, every provider the plugin registers resolves.
LoadedIsRegistered ==
  \A i \in DOMAIN plugins : plugins[i].code = 0 =>
    \A j \in DOMAIN Provides[LibOf[plugins[i].path]] :
      LET p == Provides[LibOf[plugins[i].path]][j] IN p.name \in Names(p.reg)

\* No look-up is answered before the built-in providers are registered, even
\* while another thread is still registering them.
BuiltinsBeforeLookup ==
  \A t \in Thread : pc[t] = "look" =>
    \A j \in DOMAIN Builtins : Builtins[j].name \in Names(Builtins[j].reg)

\* Every load and every look-up returns: the plugin mutex and the once_flag
\* never wait for each other.
CallsReturn == \A t \in Thread : pc[t] # "idle" ~> pc[t] = "idle"

\* Whatever two threads load and look up meanwhile, a registry holds one
\* provider of each name, a plugin is initialised once for its path, and what a
\* load or the built-ins promised to register is found.
RegistriesAnswer ==
  TypeOK /\ UniqueNames /\ InitOncePerPath /\ LoadedIsRegistered /\ BuiltinsBeforeLookup

\* A caller told that a plugin is loaded already may rely on it.  In no run: an
\* init that failed is remembered too, so that a second load returns 1.
AlreadyLoadedIsLoaded ==
  \A t \in Thread :
    pc[t] = "idle" /\ answer[t] = [code |-> 1] =>
      \E i \in DOMAIN plugins : plugins[i] = [path |-> req[t].path, code |-> 0]
=============================================================================
