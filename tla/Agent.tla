------------------------------- MODULE Agent -------------------------------
(***************************************************************************)
(* The preflight of a backupkit process: the file checks, backupkit's own  *)
(* ssh-agent, and the keys of the explicit remotes in it.  The service and *)
(* another command share the agent's socket, the .pub sidecars and         *)
(* known_hosts, and neither waits for the other: every tool call and file  *)
(* operation is a step of its own.  Either may have a terminal or not.     *)
(***************************************************************************)
EXTENDS Naturals, Sequences, FiniteSets

CONSTANTS
    Service, Other,      \* the daemon (service mode), and any other command
    Groups,              \* keys, in the order of the first remote naming each
    RemotesOf,           \* RemotesOf[k]: the remotes of key k, in config order
    MaxAgents, MaxStarts, MaxFaults

ASSUME AgentAssumption ==
    /\ Service # Other
    /\ Groups \in Seq(DOMAIN RemotesOf)
    /\ {MaxAgents, MaxStarts, MaxFaults} \subseteq Nat

VARIABLES
    key,       \* key[k]: is it encrypted, what passphrase does its remote declare
    cgroup,    \* the service manager kills what a stopped service has spawned
    agents,    \* agents[i]: the process that started agent i, and the keys in it
    alive,     \* agents running
    sock,      \* the agent the socket file leads to, 0 when there is no file
    pub,       \* keys with a .pub sidecar
    hosts,     \* the known_hosts file exists
    engine,    \* the preflight of each process
    left       \* starts and faults left

agentVars == <<key, cgroup, agents, alive, sock, pub, hosts, engine, left>>

Process == {Service, Other}
Key == {Groups[i] : i \in DOMAIN Groups}
Remote == UNION {{RemotesOf[k][i] : i \in DOMAIN RemotesOf[k]} : k \in Key}
KeyOf(r) == CHOOSE k \in Key : \E i \in DOMAIN RemotesOf[k] : RemotesOf[k][i] = r
SharedBy(k) == {RemotesOf[k][i] : i \in DOMAIN RemotesOf[k]}

Off == [at |-> "off", tty |-> FALSE, todo |-> <<>>, loaded |-> {}, failures |-> {},
        agent |-> 0, disturbed |-> FALSE]

\* Its stdin is a terminal: a person started it, and not cron or a service manager.
hasTty(p) == engine[p].tty

At(p, point) == engine[p].at = point
Goto(p, point) == engine' = [engine EXCEPT ![p].at = point]

\* The preflight is rejected and its memo cleared.
Throws(p) == engine' = [engine EXCEPT ![p] = Off]

Answering == sock \in alive

-----------------------------------------------------------------------------
(***************************************************************************)
(* runPreflight                                                            *)
(***************************************************************************)
Preflight(p) ==
    /\ At(p, "off")
    /\ left.starts > 0
    /\ left' = [left EXCEPT !.starts = @ - 1]
    /\ \E tty \in BOOLEAN : engine' = [engine EXCEPT ![p].at = "gate", ![p].tty = tty]
    /\ UNCHANGED <<key, cgroup, agents, alive, sock, pub, hosts>>

\* checkFilePermissions, up to a known_hosts file that has to be made.
Gate(p) ==
    /\ At(p, "gate")
    /\ Goto(p, IF hosts THEN "refuse" ELSE "create")
    /\ UNCHANGED <<key, cgroup, agents, alive, sock, pub, hosts, left>>

\* Created exclusively: the loser of a race throws.
CreateHosts(p) ==
    /\ At(p, "create")
    /\ IF hosts THEN Throws(p) ELSE Goto(p, "refuse")
    /\ hosts' = TRUE
    /\ UNCHANGED <<key, cgroup, agents, alive, sock, pub, left>>

\* findEncryptedKeys: the first remote of the key declares a passphrase, or
\* the key cannot be read without one.
EncryptedKeys == {k \in Key : key[k].passphrase # "none" \/ key[k].encrypted}

\* loadKeys: a service takes no such key at all, and without keys there is no
\* agent.
Refuse(p) ==
    /\ At(p, "refuse")
    /\ IF p = Service /\ EncryptedKeys # {} THEN Throws(p)
       ELSE Goto(p, IF Groups = <<>> THEN "ready" ELSE "probe")
    /\ UNCHANGED <<key, cgroup, agents, alive, sock, pub, hosts, left>>

(***************************************************************************)
(* ensureAgent, loadedFingerprints                                         *)
(***************************************************************************)
ProbeAgent(p) ==
    /\ At(p, "probe")
    /\ Goto(p, IF Answering THEN "list" ELSE "rm")
    /\ UNCHANGED <<key, cgroup, agents, alive, sock, pub, hosts, left>>

RemoveSocket(p) ==
    /\ At(p, "rm")
    /\ sock' = 0
    /\ Goto(p, "spawn")
    /\ UNCHANGED <<key, cgroup, agents, alive, pub, hosts, left>>

\* ssh-agent does not bind to a name that exists.
Spawn(p) ==
    /\ At(p, "spawn")
    /\ \/ /\ sock = 0 /\ Len(agents) < MaxAgents
          /\ agents' = Append(agents, [by |-> p, keys |-> {}])
          /\ sock' = Len(agents')
          /\ alive' = alive \cup {sock'}
          /\ Goto(p, "list")
       \/ /\ sock # 0
          /\ Throws(p)
          /\ UNCHANGED <<agents, alive, sock>>
    /\ UNCHANGED <<key, cgroup, pub, hosts, left>>

List(p) ==
    /\ At(p, "list")
    /\ \/ /\ Answering
          /\ engine' = [engine EXCEPT ![p].at = "stat", ![p].todo = Groups, ![p].agent = sock,
                                      ![p].loaded = agents[sock].keys]
       \/ ~Answering /\ Throws(p)
    /\ UNCHANGED <<key, cgroup, agents, alive, sock, pub, hosts, left>>

-----------------------------------------------------------------------------
(***************************************************************************)
(* primeKey, for each key in turn                                          *)
(***************************************************************************)
Current(p) == Head(engine[p].todo)

Settle(p, failures, disturbed) ==
    LET rest == Tail(engine[p].todo)
    IN  engine' = [engine EXCEPT ![p].at = IF rest = <<>> THEN "ready" ELSE "stat",
                                 ![p].todo = rest, ![p].failures = @ \cup failures,
                                 ![p].disturbed = @ \/ disturbed]

Primed(p) == Settle(p, {}, FALSE)

\* Mutant: the verdict on a shared key reaches the first of its remotes only.
NotPrimed_First(p, disturbed) == Settle(p, {RemotesOf[Current(p)][1]}, disturbed)

\* A key that cannot be primed fails every remote that shares it, whether it is
\* the key's own fault or the disturbance of a tool or another process.
NotPrimed(p, disturbed) == Settle(p, SharedBy(Current(p)), disturbed)

\* A passphrase can be asked for, or none is needed.
Readable(p, k) == hasTty(p) \/ (key[k].passphrase = "none" /\ ~key[k].encrypted)

\* ensurePubSidecar, up to the write.
StatSidecar(p) ==
    /\ At(p, "stat")
    /\ \/ Current(p) \in pub /\ Goto(p, "add")
       \/ Current(p) \notin pub /\ Readable(p, Current(p)) /\ Goto(p, "write")
       \/ Current(p) \notin pub /\ ~Readable(p, Current(p)) /\ NotPrimed(p, FALSE)
    /\ UNCHANGED <<key, cgroup, agents, alive, sock, pub, hosts, left>>

\* writePubSidecar: exclusive, so that a file that has appeared is an error.
WriteSidecar(p) ==
    /\ At(p, "write")
    /\ IF Current(p) \in pub
       THEN NotPrimed(p, TRUE) /\ UNCHANGED pub
       ELSE Goto(p, "add") /\ pub' = pub \cup {Current(p)}
    /\ UNCHANGED <<key, cgroup, agents, alive, sock, hosts, left>>

\* file: goes through askpass, prompt and an undeclared encrypted key through
\* the terminal.
CanAdd(p, k) == key[k].passphrase = "file" \/ Readable(p, k)

\* The fingerprint is looked up among those listed at the start.
Add(p) ==
    LET k == Current(p)
    IN  /\ At(p, "add")
        /\ \/ /\ k \in engine[p].loaded
              /\ Primed(p)
              /\ UNCHANGED agents
           \/ /\ k \notin engine[p].loaded
              /\ CanAdd(p, k) /\ Answering
              /\ Primed(p)
              /\ agents' = [agents EXCEPT ![sock].keys = @ \cup {k}]
           \/ /\ k \notin engine[p].loaded
              /\ ~(CanAdd(p, k) /\ Answering)
              /\ NotPrimed(p, CanAdd(p, k))
              /\ UNCHANGED agents
        /\ UNCHANGED <<key, cgroup, alive, sock, pub, hosts, left>>

-----------------------------------------------------------------------------
(***************************************************************************)
(* The environment                                                         *)
(***************************************************************************)
Faulty == left.faults > 0 /\ left' = [left EXCEPT !.faults = @ - 1]

\* A check or a tool that fails or does not answer: fatal before the keys,
\* later the failure of one key.
StepFails(p) ==
    /\ Faulty
    /\ \/ engine[p].at \in {"gate", "refuse", "probe", "spawn", "list"} /\ Throws(p)
       \/ engine[p].at \in {"stat", "write", "add"} /\ NotPrimed(p, TRUE)
    /\ UNCHANGED <<key, cgroup, agents, alive, sock, pub, hosts>>

\* A process ends.  An agent outlives it, unless a service manager kills what
\* the service has spawned and removes the runtime directory.
Leave(p) ==
    /\ ~At(p, "off")
    /\ Throws(p)
    /\ IF p = Service /\ cgroup
       THEN /\ alive' = {i \in alive : agents[i].by # Service}
            /\ sock' = 0
       ELSE UNCHANGED <<alive, sock>>
    /\ UNCHANGED <<key, cgroup, agents, pub, hosts, left>>

AgentDies ==
    /\ Faulty
    /\ \E i \in alive : alive' = alive \ {i}
    /\ UNCHANGED <<key, cgroup, agents, sock, pub, hosts, engine>>

-----------------------------------------------------------------------------
\* Before the first start there may be an agent of an earlier process.
AgentInit ==
    /\ key \in [Key -> [encrypted : BOOLEAN, passphrase : {"none", "file", "prompt"}]]
    /\ cgroup \in BOOLEAN
    /\ agents = <<[by |-> Other, keys |-> {}]>>
    /\ alive \in SUBSET {1}
    /\ sock \in {0, 1}
    /\ pub \in SUBSET Key
    /\ hosts \in BOOLEAN
    /\ engine = [p \in Process |-> Off]
    /\ left = [starts |-> MaxStarts, faults |-> MaxFaults]

AgentNext ==
    \/ \E p \in Process :
          \/ Preflight(p) \/ Gate(p) \/ CreateHosts(p) \/ Refuse(p)
          \/ ProbeAgent(p) \/ RemoveSocket(p) \/ Spawn(p) \/ List(p)
          \/ StatSidecar(p) \/ WriteSidecar(p) \/ Add(p)
          \/ StepFails(p) \/ Leave(p)
    \/ AgentDies

AgentSpec == AgentInit /\ [][AgentNext]_agentVars

-----------------------------------------------------------------------------
\* A process that is ready finds the key of every remote it has not given up
\* on in the agent it adopted, as long as that agent answers on the socket.
\* Undisturbed, it gives up on a remote only for want of a person to ask: the
\* key needs a passphrase and there is no terminal; and a service never does,
\* it has refused to start with such a key.
ReadyIsUsable ==
    \A p \in Process : At(p, "ready") =>
        /\ (sock = engine[p].agent /\ Answering) =>
              \A r \in Remote \ engine[p].failures : KeyOf(r) \in agents[sock].keys
        /\ ~engine[p].disturbed =>
              \A r \in engine[p].failures :
                  /\ p # Service /\ ~engine[p].tty
                  /\ \E k \in EncryptedKeys : r \in SharedBy(k)
=============================================================================
