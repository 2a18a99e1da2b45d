------------------------------ MODULE Service ------------------------------
(***************************************************************************)
(* `backupkit service <verb>` and the supervisor it drives: systemd or     *)
(* launchd.  The unit definition on disk mirrors the configuration, the    *)
(* supervisor holds the definition it last read, and the daemon runs under *)
(* the one it was started with.  A verb is a sequence of tool calls, and   *)
(* between two of them the daemon can crash, be restarted by the           *)
(* supervisor, or the configuration be edited.                             *)
(*                                                                         *)
(* A configuration is what the unit is derived from: the directories of    *)
(* its destinations, keys and log, and whether it names an ssh alias.      *)
(***************************************************************************)
EXTENDS Naturals, Sequences, FiniteSets

CONSTANTS
    Path,         \* configuration files, the default one and others
    Config,       \* valid configurations
    Broken,       \* one that does not load, or that others may write
    DirOf,        \* DirOf[p]: the directory of the file p
    None,
    MaxEdits, MaxCrash, MaxTrouble, MaxReboot

ASSUME ServiceAssumption ==
    /\ Broken \notin Config /\ None \notin Config
    /\ {MaxEdits, MaxCrash, MaxTrouble, MaxReboot} \subseteq Nat

VARIABLES
    platform,     \* "linux" or "darwin"
    config,       \* what each configuration file holds
    unit,         \* the unit definition on disk
    rotate,       \* the log rotation file, on darwin
    loaded,       \* the definition the supervisor holds
    enabled,      \* started at boot, on linux
    svc,          \* "stopped", "running", or "waiting" for an automatic restart
    proc,         \* the definition and configuration the daemon was started with
    verb,         \* the verb being carried out
    trouble,      \* a tool call failed or a verb was cut short, not yet repaired
    budget        \* what the environment may still do

serviceVars == <<platform, config, unit, rotate, loaded, enabled, svc, proc, verb,
                 trouble, budget>>
files == <<unit, rotate>>
supervisor == <<loaded, enabled, svc, proc>>

linux == platform = "linux"
darwin == platform = "darwin"

-----------------------------------------------------------------------------
(***************************************************************************)
(* The unit as a function of the configuration.                            *)
(***************************************************************************)
\* Mutant: the sandbox forgets the directory of the log.
ReadWritePaths_NoLog(p, c) == c.dst \cup {c.state, DirOf[p]} \cup c.keys

\* readWritePathsOf: the roots, the state directory, the configuration's own
\* directory, those of the keys and known_hosts files, and the log's.
ReadWritePaths(p, c) == c.dst \cup {c.state, DirOf[p]} \cup c.keys \cup c.log

\* What a daemon started with configuration c of file p writes.
Needs(p, c) ==
    UNION {c.dst,           \* snapshots, markers and local locks
           {c.state},       \* reports and lock records
           c.keys,          \* .pub sidecars, a missing known_hosts
           c.log}

\* systemdUnit, launchdPlist: a plist has no sandbox, only the command line.
UnitOf(p, c) ==
    IF linux THEN [path |-> p, grants |-> ReadWritePaths(p, c), alias |-> c.alias]
    ELSE [path |-> p, grants |-> {}, alias |-> FALSE]

-----------------------------------------------------------------------------
(***************************************************************************)
(* The supervisors, external: what each tool call does when it succeeds.   *)
(***************************************************************************)
\* The daemon starts under u and reads its configuration now.
Run(u) ==
    /\ svc' = "running"
    /\ proc' = [unit |-> u, config |-> config[u.path]]

Ends == svc' = "stopped" /\ proc' = None

DaemonReload ==
    /\ loaded' = unit /\ trouble' = FALSE
    /\ UNCHANGED <<files, enabled, svc, proc>>

Enable == enabled' = TRUE /\ UNCHANGED <<files, loaded, svc, proc, trouble>>

Disable == enabled' = FALSE /\ UNCHANGED <<files, loaded, svc, proc, trouble>>

\* Known already, or read from the disk now.
Definition == IF loaded = None THEN unit ELSE loaded

SystemctlStart ==
    /\ Definition # None
    /\ loaded' = Definition
    /\ \/ svc = "running" /\ UNCHANGED <<svc, proc>>
       \/ svc # "running" /\ Run(Definition)
    /\ UNCHANGED <<files, enabled, trouble>>

SystemctlRestart ==
    /\ Definition # None
    /\ loaded' = Definition
    /\ Run(Definition)
    /\ UNCHANGED <<files, enabled, trouble>>

SystemctlStop == Ends /\ UNCHANGED <<files, loaded, enabled, trouble>>

\* A job launchd already holds is not read again.
Bootstrap ==
    /\ loaded = None /\ unit # None
    /\ loaded' = unit
    /\ Run(unit)
    /\ UNCHANGED <<files, enabled, trouble>>

Bootout ==
    /\ loaded # None
    /\ loaded' = None
    /\ Ends
    /\ UNCHANGED <<files, enabled, trouble>>

Kickstart ==
    /\ loaded # None
    /\ Run(loaded)
    /\ UNCHANGED <<files, loaded, enabled, trouble>>

\* files.remove of everything writeUnits wrote.
RemoveFiles ==
    /\ unit' = None /\ rotate' = FALSE
    /\ UNCHANGED <<supervisor, trouble>>

Does(tool) ==
    \/ tool = "daemon-reload" /\ DaemonReload
    \/ tool = "enable" /\ Enable
    \/ tool = "disable" /\ Disable
    \/ tool = "start" /\ SystemctlStart
    \/ tool = "restart" /\ SystemctlRestart
    \/ tool = "stop" /\ SystemctlStop
    \/ tool = "bootstrap" /\ Bootstrap
    \/ tool = "bootout" /\ Bootout
    \/ tool = "kickstart" /\ Kickstart
    \/ tool = "remove" /\ RemoveFiles

-----------------------------------------------------------------------------
(***************************************************************************)
(* The verbs.                                                              *)
(***************************************************************************)
isInstalled == unit # None

\* systemdActive, launchdLoaded.
Up == IF linux THEN svc = "running" ELSE loaded # None

\* writeUnits reports whether it wrote anything new.
Changed(u) == unit # u \/ (darwin /\ ~rotate)

ReloadIf(changed) == IF linux /\ changed THEN <<"daemon-reload">> ELSE <<>>

\* The tool calls a verb makes, up to the answer of its probe.
Todo(name, changed) ==
    CASE name = "install" -> IF linux THEN <<"daemon-reload", "enable">> ELSE <<>>
      [] name = "start" -> ReloadIf(changed) \o <<"probe">>
      [] name = "restart" /\ linux -> ReloadIf(changed) \o <<"restart">>
      [] OTHER -> <<"probe">>

Halt == IF linux THEN "stop" ELSE "bootout"

\* Mutant: a daemon that is up is left running.
Answered_LeavesRunning(v) ==
    CASE v.name = "start" -> IF Up THEN <<>> ELSE <<IF linux THEN "start" ELSE "bootstrap">>
      [] v.name = "restart" -> IF v.changed THEN <<"bootout", "bootstrap">> ELSE <<"kickstart">>
      [] v.name = "stop" -> IF Up THEN <<Halt>> ELSE <<>>
      [] v.name = "uninstall" ->
            IF linux THEN <<"disable", "remove", "daemon-reload">> ELSE <<"remove">>

\* And those it makes once it knows whether the daemon is up.
Answered(v) ==
    CASE v.name = "start" -> IF Up THEN <<>> ELSE <<IF linux THEN "start" ELSE "bootstrap">>
      [] v.name = "restart" -> IF v.changed THEN <<"bootout", "bootstrap">> ELSE <<"kickstart">>
      [] v.name = "stop" -> IF Up THEN <<Halt>> ELSE <<>>
      [] v.name = "uninstall" ->
            (IF Up THEN <<Halt>> ELSE <<>>)
            \o (IF linux THEN <<"disable", "remove", "daemon-reload">> ELSE <<"remove">>)

Verbs == {"install", "start", "stop", "restart", "uninstall"}
Writing == {"install", "start", "restart"}

\* A verb on its way, and what it derived from the configuration.
Unit == [path : Path, grants : {{}} \cup {ReadWritePaths(p, c) : p \in Path, c \in Config},
         alias : {FALSE} \cup {c.alias : c \in Config}]

Verb == [name : Verbs,
         todo : Seq({"probe", "daemon-reload", "enable", "disable", "start", "restart", "stop",
                     "bootstrap", "bootout", "kickstart", "remove"}),
         changed : BOOLEAN, wrote : {None} \cup [unit : Unit, config : Config], path : Path,
         sawWaiting : BOOLEAN, failed : BOOLEAN]

ASSUME NoneAssumption == None \notin Verb

Idle == verb = None

\* writeUnits, and the verb goes on: the configuration is loaded and trusted
\* before anything is written.
Writes(name, p) ==
    /\ config[p] # Broken
    /\ LET u == UnitOf(p, config[p])
       IN  /\ unit' = u
           /\ rotate' = darwin
           /\ verb' = [name |-> name, todo |-> Todo(name, Changed(u)), changed |-> Changed(u),
                       wrote |-> [unit |-> u, config |-> config[p]], path |-> p, sawWaiting |-> FALSE, failed |-> FALSE]

\* A verb on a service that is not installed, or whose configuration is not
\* fit to be read, ends where it began.
Refused(name, p) ==
    \/ name # "install" /\ ~isInstalled
    \/ name \in Writing /\ config[p] = Broken

\* serviceCommand.
Begin(name, p) ==
    /\ Idle
    /\ ~Refused(name, p)
    /\ IF name \in Writing THEN Writes(name, p)
       ELSE /\ verb' = [name |-> name, todo |-> Todo(name, FALSE), changed |-> FALSE,
                        wrote |-> None, path |-> p, sawWaiting |-> FALSE, failed |-> FALSE]
            /\ UNCHANGED files
    /\ UNCHANGED <<platform, config, supervisor, trouble, budget>>

Next1 == Head(verb.todo)
Working == ~Idle /\ verb.todo # <<>>

\* A restart of a job launchd does not hold is a start from the top.
Again ==
    /\ Working /\ Next1 = "probe"
    /\ verb.name = "restart" /\ ~Up
    /\ \/ Writes("start", verb.path)
       \/ Refused("start", verb.path) /\ verb' = None /\ UNCHANGED files
    /\ UNCHANGED <<platform, config, supervisor, trouble, budget>>

Probe ==
    /\ Working /\ Next1 = "probe"
    /\ ~(verb.name = "restart" /\ ~Up)
    /\ verb' = [verb EXCEPT !.todo = Answered(verb), !.sawWaiting = svc = "waiting"]
    /\ UNCHANGED <<platform, config, files, supervisor, trouble, budget>>

\* One tool call, done.
Tool ==
    /\ Working /\ Next1 # "probe"
    /\ Does(Next1)
    /\ verb' = [verb EXCEPT !.todo = Tail(@)]
    /\ UNCHANGED <<platform, config, budget>>

\* A call fails: action ends the verb, uninstall goes on regardless.
ToolFails ==
    /\ Working /\ Next1 \notin {"probe", "remove"}
    /\ budget.trouble > 0
    /\ verb' = IF verb.name = "uninstall" THEN [verb EXCEPT !.todo = Tail(@), !.failed = TRUE]
               ELSE None
    /\ trouble' = TRUE
    /\ budget' = [budget EXCEPT !.trouble = @ - 1]
    /\ UNCHANGED <<platform, config, files, supervisor>>

Finish ==
    /\ ~Idle /\ verb.todo = <<>>
    /\ verb' = None
    /\ UNCHANGED <<platform, config, files, supervisor, trouble, budget>>

-----------------------------------------------------------------------------
(***************************************************************************)
(* The daemon and the machine.                                             *)
(***************************************************************************)
\* The operator gives up on a verb half-way.
Interrupt ==
    /\ Working
    /\ budget.trouble > 0
    /\ verb' = None
    /\ trouble' = TRUE
    /\ budget' = [budget EXCEPT !.trouble = @ - 1]
    /\ UNCHANGED <<platform, config, files, supervisor>>

Edit(p, c) ==
    /\ budget.edit > 0
    /\ c # config[p]
    /\ config' = [config EXCEPT ![p] = c]
    /\ budget' = [budget EXCEPT !.edit = @ - 1]
    /\ UNCHANGED <<platform, files, supervisor, verb, trouble>>

\* Restart=on-failure, KeepAlive: a failed daemon comes back after 15 s, one
\* that ended well stays down.
Crash ==
    /\ svc = "running"
    /\ budget.crash > 0
    /\ svc' = "waiting" /\ proc' = None
    /\ budget' = [budget EXCEPT !.crash = @ - 1]
    /\ UNCHANGED <<platform, config, files, loaded, enabled, verb, trouble>>

Exit ==
    /\ svc = "running"
    /\ Ends
    /\ UNCHANGED <<platform, config, files, loaded, enabled, verb, trouble, budget>>

\* A definition that is gone cannot be started again.
ComesBack ==
    /\ svc = "waiting"
    /\ \/ loaded # None /\ Run(loaded)
       \/ loaded = None /\ Ends
    /\ UNCHANGED <<platform, config, files, loaded, enabled, verb, trouble, budget>>

\* Everything in memory is gone; the supervisor reads the disk.
Reboot ==
    /\ budget.reboot > 0
    /\ loaded' = unit
    /\ \/ unit # None /\ (enabled \/ darwin) /\ Run(unit)
       \/ ~(unit # None /\ (enabled \/ darwin)) /\ Ends
    /\ verb' = None
    /\ trouble' = FALSE
    /\ budget' = [budget EXCEPT !.reboot = @ - 1]
    /\ UNCHANGED <<platform, config, files, enabled>>

-----------------------------------------------------------------------------
ServiceInit ==
    /\ platform \in {"linux", "darwin"}
    /\ config \in [Path -> Config]
    /\ unit = None /\ rotate = FALSE
    /\ loaded = None /\ enabled = FALSE
    /\ svc = "stopped" /\ proc = None
    /\ verb = None
    /\ trouble = FALSE
    /\ budget = [edit |-> MaxEdits, crash |-> MaxCrash, trouble |-> MaxTrouble,
                 reboot |-> MaxReboot]

ServiceNext ==
    \/ \E name \in Verbs, p \in Path : Begin(name, p)
    \/ Again \/ Probe \/ Tool \/ ToolFails \/ Finish \/ Interrupt
    \/ \E p \in Path, c \in Config \cup {Broken} : Edit(p, c)
    \/ Crash \/ Exit \/ ComesBack \/ Reboot

ServiceSpec == ServiceInit /\ [][ServiceNext]_serviceVars

-----------------------------------------------------------------------------
\* A verb that starts the daemon starts it under the unit it has just derived,
\* so that the sandbox lets it write everything its configuration asks for.
\* Left out are verbs after one that was cut short, and launchd's kickstart.
Starting == Working /\ Next1 \in {"start", "restart", "bootstrap"} /\ svc' = "running" /\ Tool

StartsUnderWritten ==
    [][Starting /\ ~trouble /\ proc' # proc =>
        /\ proc'.unit = verb.wrote.unit
        /\ (linux /\ proc'.config = verb.wrote.config) =>
              Needs(verb.path, proc'.config) \subseteq proc'.unit.grants]_serviceVars

\* A stop that ends well leaves no daemon behind, and an uninstall that ends
\* well leaves nothing at all, whatever the daemon did between its tool calls.
\* Left out are verbs whose probe met the daemon between a crash and its
\* automatic restart.
HaltsForGood ==
    [][Finish /\ verb.name \in {"stop", "uninstall"} /\ ~verb.sawWaiting /\ ~verb.failed =>
        /\ svc = "stopped"
        /\ (verb.name = "uninstall") =>
              unit = None /\ ~rotate /\ ~enabled /\ loaded = None]_serviceVars
=============================================================================
