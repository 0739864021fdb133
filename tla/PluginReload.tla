---------------------------- MODULE PluginReload ----------------------------
(***************************************************************************)
(* plugin/registry.rs, loader.rs, manifest.rs, bundle.rs and watcher.rs:   *)
(* the plugin registry and the thread that reloads it from a directory.  A *)
(* bundle is the version its manifest had, 1 for a built-in plugin.  With  *)
(* built-ins the thread removes and replaces plugins one lock at a time,   *)
(* without them it replaces the whole map at once.                         *)
(***************************************************************************)
EXTENDS Naturals, FiniteSets

CONSTANTS
    Plugins,         \* plugin names
    Builtins,        \* the ones registered by the program itself
    Manifests,       \* paths of plugin.toml files
    MaxPluginEdits   \* bound: edits of manifests

ASSUME PluginAssumption == MaxPluginEdits \in Nat

NoPlugin == 0
BuiltIn  == 1
Bundles  == 2..MaxPluginEdits + 2

\* A file: missing, unusable (load_manifest fails), or a named bundle.
Missing == [name |-> "missing", version |-> 0]
Broken  == [name |-> "broken", version |-> 0]
Files   == [name : Plugins, version : Bundles] \cup {Missing, Broken}

VARIABLES
    files,       \* the plugin directory
    pluginEdits, \* edits so far
    builtins,    \* include_builtins
    wakeups,     \* messages waiting in the watcher's channel
    thread,      \* "starting", "waiting", "removing", "replacing"
    local,       \* local_names
    next,        \* the bundles being applied: name -> version
    todo,        \* names still to be removed or replaced
    plugins,     \* the registry: name -> bundle, NoPlugin for none
    early        \* history: something was edited before the first scan

pluginVars == <<files, pluginEdits, builtins, wakeups, thread, local, next,
                todo, plugins, early>>

----------------------------------------------------------------------------
(* load_dir: one bad manifest or one name used twice fails all of it *)

Present == {f \in Manifests : files[f] # Missing}
LoadOk  == /\ \A f \in Present : files[f] # Broken
           /\ \A f, g \in Present : files[f].name = files[g].name => f = g

LoadedNames == {files[f].name : f \in Present}
Loaded == [n \in LoadedNames |->
             (CHOOSE v \in Bundles : \E f \in Present : files[f] = [name |-> n, version |-> v])]

----------------------------------------------------------------------------
PluginInit ==
    /\ files \in [Manifests -> [name : Plugins, version : {2}] \cup {Missing}]
    /\ LoadOk
    /\ pluginEdits = 0
    /\ builtins \in BOOLEAN
    /\ wakeups = 0
    /\ thread = "starting"
    /\ local = {}
    /\ next = <<>>
    /\ todo = {}
    /\ plugins = [n \in Plugins |-> IF n \in LoadedNames THEN Loaded[n]
                                    ELSE IF n \in Builtins /\ builtins THEN BuiltIn ELSE NoPlugin]
    /\ early = FALSE

\* A manifest is written, broken or removed; the directory is watched before
\* the thread starts, so every edit sends a message.
EditManifest(f, file) ==
    /\ pluginEdits < MaxPluginEdits /\ files[f] # file
    /\ file \in {Missing, Broken} \/ file.version = pluginEdits + 3
    /\ pluginEdits' = pluginEdits + 1
    /\ files' = [files EXCEPT ![f] = file]
    /\ wakeups' = wakeups + 1
    /\ early' = (early \/ thread = "starting")
    /\ UNCHANGED <<builtins, thread, local, next, todo, plugins>>

\* The thread first reads the names it will answer for.
FirstScan ==
    /\ thread = "starting"
    /\ thread' = "waiting"
    /\ local' = IF LoadOk THEN LoadedNames ELSE {}
    /\ UNCHANGED <<files, pluginEdits, builtins, wakeups, next, todo, plugins, early>>

LoadFails ==
    /\ thread = "waiting" /\ wakeups > 0 /\ ~LoadOk
    /\ wakeups' = wakeups - 1
    /\ UNCHANGED <<files, pluginEdits, builtins, thread, local, next, todo, plugins, early>>

\* replace_all: the new map replaces the old one under the write lock.
ReplaceWholeMap ==
    /\ thread = "waiting" /\ wakeups > 0 /\ LoadOk /\ ~builtins
    /\ wakeups' = wakeups - 1
    /\ plugins' = [n \in Plugins |-> IF n \in LoadedNames THEN Loaded[n] ELSE NoPlugin]
    /\ UNCHANGED <<files, pluginEdits, builtins, thread, local, next, todo, early>>

\* Mutant of LoadBundles: everything local is removed before it is replaced.
LoadBundlesClears ==
    /\ thread = "waiting" /\ wakeups > 0 /\ LoadOk /\ builtins
    /\ wakeups' = wakeups - 1
    /\ thread' = "removing"
    /\ next' = Loaded
    /\ todo' = local
    /\ UNCHANGED <<files, pluginEdits, builtins, local, plugins, early>>

LoadBundles ==
    /\ thread = "waiting" /\ wakeups > 0 /\ LoadOk /\ builtins
    /\ wakeups' = wakeups - 1
    /\ thread' = "removing"
    /\ next' = Loaded
    /\ todo' = local \ LoadedNames
    /\ UNCHANGED <<files, pluginEdits, builtins, local, plugins, early>>

RemoveOne(n) ==
    /\ thread = "removing" /\ n \in todo
    /\ plugins' = [plugins EXCEPT ![n] = NoPlugin]
    /\ todo' = todo \ {n}
    /\ UNCHANGED <<files, pluginEdits, builtins, wakeups, thread, local, next, early>>

AllRemoved ==
    /\ thread = "removing" /\ todo = {}
    /\ thread' = "replacing"
    /\ todo' = DOMAIN next
    /\ UNCHANGED <<files, pluginEdits, builtins, wakeups, local, next, plugins, early>>

ReplaceOne(n) ==
    /\ thread = "replacing" /\ n \in todo
    /\ plugins' = [plugins EXCEPT ![n] = next[n]]
    /\ todo' = todo \ {n}
    /\ UNCHANGED <<files, pluginEdits, builtins, wakeups, thread, local, next, early>>

\* Mutant of AllReplaced: the names to answer for are not updated.
AllReplacedForgets ==
    /\ thread = "replacing" /\ todo = {}
    /\ thread' = "waiting"
    /\ next' = <<>>
    /\ UNCHANGED <<files, pluginEdits, builtins, wakeups, local, todo, plugins, early>>

AllReplaced ==
    /\ thread = "replacing" /\ todo = {}
    /\ thread' = "waiting"
    /\ local' = DOMAIN next
    /\ next' = <<>>
    /\ UNCHANGED <<files, pluginEdits, builtins, wakeups, todo, plugins, early>>

Watcher ==
    \/ FirstScan
    \/ LoadFails
    \/ ReplaceWholeMap
    \/ LoadBundles
    \/ \E n \in Plugins : RemoveOne(n) \/ ReplaceOne(n)
    \/ AllRemoved
    \/ AllReplaced

PluginNext ==
    \/ \E f \in Manifests, file \in Files : EditManifest(f, file)
    \/ Watcher

----------------------------------------------------------------------------
(* Properties *)

\* No step of a reload unregisters a plugin that the directory it loaded
\* contains: such a plugin can be looked up at every moment, in its old or
\* its new version.
ReloadKeepsPlugins ==
    [][\A n \in Plugins : plugins[n] # NoPlugin /\ plugins'[n] = NoPlugin =>
          n \notin (IF thread = "waiting" THEN LoadedNames ELSE DOMAIN next)]_pluginVars

\* The registry holds exactly the plugins of the directory, besides built-ins
\* no local plugin ever replaced.
Mirrors ==
    /\ \A n \in LoadedNames : plugins[n] = Loaded[n]
    /\ \A n \in Plugins \ LoadedNames : plugins[n] \in {BuiltIn, NoPlugin}

\* Once edits stop in a directory that loads, the registry becomes and stays
\* its mirror, unless a plugin was edited before the thread's first scan: a
\* name removed that early is never removed from the registry.
PluginsConverge == <>[](early \/ (LoadOk => Mirrors))
=============================================================================
