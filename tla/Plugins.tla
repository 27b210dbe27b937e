-------------------------------- MODULE Plugins --------------------------------
(***************************************************************************)
(* The plugins (bot/plugin_loader.py, bot/handlers/plugins_cmd.py): files  *)
(* that are loaded, reloaded, replaced and removed while the bot runs.     *)
(* What a load leaves behind is the callbacks its module registered with   *)
(* the client; a load ends, well or badly, and a failed install puts the   *)
(* file back that was there before.  A version of a plugin says where it   *)
(* fails; startup and shutdown are awaited, and other commands come in.    *)
(***************************************************************************)
EXTENDS Environment

CONSTANTS Manager  \* tasks of .plugins commands

Version == {"good", "good2", "badCode", "badStart"}
Absent  == "none"

VARIABLES
    file,      \* PLUGIN_INSTALL_DIR / name.py: a version or Absent
    bak,       \* name.py.bak
    shipped,   \* BUILTIN_PLUGIN_DIR holds a plugin of this name
    entry,     \* _loaded_plugins[name]: {} or one load
    hooked,    \* the loads whose callbacks the client calls
    managing,  \* the tasks: what they do, where they are, the load they work on
    loads,     \* loads begun, to tell them apart
    \* -- history, read by properties only
    kept,      \* the file as the last command that succeeded left it
    tangled    \* two commands of this plugin overlapped, or the process died in one

pluginVars == <<file, bak, shipped, entry, hooked, managing, loads, kept, tangled>>

Free == [for |-> "nothing", at |-> "idle", old |-> {}, new |-> {}, installed |-> TRUE]

PluginsInit ==
    /\ file \in {Absent, "good"} /\ bak = Absent
    /\ shipped \in BOOLEAN
    /\ entry = {} /\ hooked = {} /\ loads = 0
    /\ managing = [t \in Manager |-> Free]
    /\ kept = file /\ tangled = FALSE

Found     == file # Absent \/ shipped            \* _find_plugin: the installed one first
Source    == IF file # Absent THEN file ELSE "good"
Installed == file # Absent

Put(t, r) == managing' = [managing EXCEPT ![t] = r]
\* Only where a command awaits may another go on.
Doing(t, at) == /\ managing[t].at = at
                /\ \A p \in Manager \ {t} : managing[p].at \in {"idle", "shutdown", "startup"}
Files   == UNCHANGED <<file, bak, shipped>>

\* A command begins.
Busy(t) == \E p \in Manager \ {t} : managing[p].at # "idle"
Takes(t) == Doing(t, "idle") /\ Ordered /\ tangled' = (tangled \/ Busy(t))

-----------------------------------------------------------------------------
(* unload_plugin and load_plugin.                                          *)

\* unload_plugin: the entry is read, and its shutdown awaited.
ToUnload(t, r) == Put(t, [r EXCEPT !.at = "shutdown", !.old = entry])

\* load_plugin: a loaded one is unloaded first; one not found is no load.
ToLoad(t, r) ==
    IF ~Found THEN Put(t, [r EXCEPT !.at = "failed"])
    ELSE IF entry # {} THEN ToUnload(t, [r EXCEPT !.installed = Installed])
    ELSE Put(t, [r EXCEPT !.at = "exec", !.installed = Installed])

Forgets(t) == hooked' = hooked /\ entry' = {}   \* variant: the callbacks stay

\* After the shutdown, whatever came of it: the callbacks go, and so does the
\* entry that is there by then.
Unhook(t) == hooked' = hooked \ managing[t].old /\ entry' = {}

After == [remove |-> "delete", reload |-> "reload", install |-> "exec", load |-> "exec"]

Unloaded(t) ==
    /\ Doing(t, "shutdown")
    /\ Unhook(t)
    /\ Put(t, [managing[t] EXCEPT !.at = After[managing[t].for]])
    /\ Calm /\ Files /\ UNCHANGED <<loads, kept, tangled>>

\* A shutdown that raises: the load fails; a reload or a removal raises.
ShutdownRaises(t) ==
    /\ Doing(t, "shutdown")
    /\ Unhook(t)
    /\ Put(t, IF managing[t].for \in {"remove", "reload"} THEN Free
              ELSE [managing[t] EXCEPT !.at = "failed"])
    /\ Fault /\ Files /\ UNCHANGED <<loads, kept, tangled>>

\* The module is executed, and its entry made, before its startup is awaited.
Exec(t) ==
    /\ Doing(t, "exec")
    /\ LET l == [id |-> loads + 1, v |-> Source, installed |-> managing[t].installed]
           raises == ~Found \/ Source = "badCode"
       IN  /\ loads' = loads + 1
           /\ hooked' = IF Found THEN hooked \cup {l} ELSE hooked
           /\ entry' = IF raises THEN entry ELSE {l}
           /\ Put(t, [managing[t] EXCEPT !.at = IF raises THEN "failed" ELSE "startup", !.new = {l}])
    /\ Calm /\ Files /\ UNCHANGED <<kept, tangled>>

\* run_startup: one that raises leaves the entry and the callbacks.
Startup(t) ==
    /\ Doing(t, "startup")
    /\ Put(t, [managing[t] EXCEPT
         !.at = IF \E l \in managing[t].new : l.v = "badStart" THEN "failed" ELSE "loaded"])
    /\ Calm /\ Files /\ UNCHANGED <<entry, hooked, loads, kept, tangled>>

-----------------------------------------------------------------------------
(* The commands.                                                           *)

\* Downloaded and parsed: the old file is copied, the new one written and loaded.
Install(t, v) ==
    /\ Takes(t)
    /\ bak' = IF file # Absent THEN file ELSE bak
    /\ file' = v
    /\ Put(t, [Free EXCEPT !.for = "install", !.at = "load"])
    /\ UNCHANGED <<shipped, entry, hooked, loads, kept>>

Load(t) ==
    /\ Doing(t, "load") \/ Doing(t, "reload")
    /\ ToLoad(t, [managing[t] EXCEPT !.for = IF @ = "reload" THEN "load" ELSE @])
    /\ Calm /\ Files /\ UNCHANGED <<entry, hooked, loads, kept, tangled>>

Succeeds(t) ==
    /\ Doing(t, "loaded")
    /\ bak' = IF managing[t].for = "install" THEN Absent ELSE bak
    /\ kept' = IF managing[t].for = "install" THEN file ELSE kept
    /\ Put(t, Free)
    /\ Calm /\ UNCHANGED <<file, shipped, entry, hooked, loads, tangled>>

\* A failed install: the copy is put back and loaded, or the file is deleted.
RollBack(t) ==
    /\ Doing(t, "failed") /\ managing[t].for = "install"
    /\ file' = bak /\ bak' = Absent
    /\ Put(t, IF bak = Absent THEN Free ELSE [Free EXCEPT !.for = "load", !.at = "load"])
    /\ Calm /\ UNCHANGED <<shipped, entry, hooked, loads, kept, tangled>>

GivesUp(t) ==
    /\ Doing(t, "failed") /\ managing[t].for # "install"
    /\ Put(t, Free)
    /\ Calm /\ Files /\ UNCHANGED <<entry, hooked, loads, kept, tangled>>

\* remove_installed_plugin: a built-in one that is loaded stays.
RemovePlugin(t) ==
    /\ Takes(t)
    /\ IF entry = {} THEN Put(t, [Free EXCEPT !.for = "remove", !.at = "delete"])
       ELSE IF \A l \in entry : l.installed THEN ToUnload(t, [Free EXCEPT !.for = "remove"])
       ELSE Put(t, Free)
    /\ Files /\ UNCHANGED <<entry, hooked, loads, kept>>

Delete(t) ==
    /\ Doing(t, "delete")
    /\ file' = Absent /\ kept' = Absent
    /\ Put(t, Free)
    /\ Calm /\ UNCHANGED <<bak, shipped, entry, hooked, loads, tangled>>

ReloadUnknown(t) ==              \* variant: what is not loaded is unloaded as well
    /\ Takes(t)
    /\ ToUnload(t, [Free EXCEPT !.for = "reload"])
    /\ Files /\ UNCHANGED <<entry, hooked, loads, kept>>

Reload(t) ==
    /\ Takes(t)
    /\ IF entry = {} THEN Put(t, Free) ELSE ToUnload(t, [Free EXCEPT !.for = "reload"])
    /\ Files /\ UNCHANGED <<entry, hooked, loads, kept>>

\* The process dies, and load_all_plugins loads what it finds.
PluginsCrash ==
    /\ Fault
    /\ entry' = {} /\ hooked' = {}
    /\ tangled' = (tangled \/ \E t \in Manager : managing[t].at # "idle")
    /\ \E t \in Manager : managing' = [p \in Manager |-> IF p = t /\ Found
           THEN [Free EXCEPT !.for = "load", !.at = "load"] ELSE Free]
    /\ Files /\ UNCHANGED <<loads, kept>>

-----------------------------------------------------------------------------
\* The client calls the callbacks of one load of a plugin at most, and of none
\* that is not listed: reloads, updates, roll-backs and removals leave nothing
\* registered but what a module that raised had registered before, unless
\* commands overlapped (plugin_loader.py:140-142, 166-182).
NoStrayCallbacks == ~tangled => {l \in hooked : l.v # "badCode"} \subseteq entry

\* At rest the plugin's file is the one the last install or removal that
\* succeeded left: a failed one put everything back (plugin_loader.py:264-279).
FailedInstallUndone ==
    (~tangled /\ \A t \in Manager : managing[t].at = "idle") => file = kept /\ bak = Absent

\* What the client calls, what is listed and what is on disk are one plugin: the
\* two properties above (plugin_loader.py:136-188, 234-288).
PluginsAgree == NoStrayCallbacks /\ FailedInstallUndone

PluginsTypes ==
    /\ file \in Version \cup {Absent} /\ bak \in Version \cup {Absent}
    /\ Cardinality(entry) <= 1
    /\ \A t \in Manager : managing[t].at = "shutdown" => managing[t].old # {}
=============================================================================
