---------------------------- MODULE HostProofs ----------------------------
(***************************************************************************)
(* Proofs about Agent and Service: for any keys and remotes that share     *)
(* them, and any configuration files, edits, crashes, failures and         *)
(* reboots.                                                                *)
(***************************************************************************)
EXTENDS Service, Agent, SequenceTheorems, TLAPS

-----------------------------------------------------------------------------
(***************************************************************************)
(* The agent                                                               *)
(***************************************************************************)
Early == {"off", "gate", "create", "refuse"}
Adopting == {"probe", "rm", "spawn", "list"}
Priming == {"stat", "write", "add"}

Preflights == [at : Early \cup Adopting \cup Priming \cup {"ready"}, tty : BOOLEAN, todo : Seq(Key),
               loaded : SUBSET Key, failures : SUBSET Remote, agent : Nat,
               disturbed : BOOLEAN]

AgentTypes ==
    /\ key \in [Key -> [encrypted : BOOLEAN, passphrase : {"none", "file", "prompt"}]]
    /\ agents \in Seq([by : Process, keys : SUBSET Key])
    /\ alive \subseteq 1..Len(agents)
    /\ sock \in 0..Len(agents)
    /\ engine \in [Process -> Preflights]

\* The keys a preflight has still to prime.
Rest(p) == {engine[p].todo[i] : i \in 1..Len(engine[p].todo)}

\* Remotes a process gives up on by itself: nobody can be asked for the passphrase.
Hopeless(p, r) == /\ p # Service /\ ~engine[p].tty
                  /\ \E k \in EncryptedKeys : r \in SharedBy(k)

\* As long as the socket leads to the agent a process adopted, that agent holds
\* each key the process has been through, or the remotes of the key are given up
\* on.  A service has no key it cannot read.
Sound(p) ==
    LET e == engine[p]
    IN  /\ e.at \in Early \cup Adopting => e.failures = {} /\ e.todo = <<>> /\ e.loaded = {}
        /\ e.at \in Adopting => Groups # <<>>
        /\ e.at \in Priming => e.todo # <<>>
        /\ e.at = "ready" => e.todo = <<>>
        /\ e.agent <= Len(agents)
        /\ e.at \in Priming \cup {"ready"} /\ sock = e.agent /\ sock # 0 =>
              /\ e.loaded \subseteq agents[sock].keys
              /\ \A k \in Key : \/ k \in Rest(p) \/ SharedBy(k) \subseteq e.failures
                                \/ k \in agents[sock].keys
        /\ p = Service /\ e.at \notin Early => EncryptedKeys = {}
        /\ ~e.disturbed => \A r \in e.failures : Hopeless(p, r)

AgentInv == AgentTypes /\ \A p \in Process : Sound(p)

LEMMA FunctionIsSeq ==
  ASSUME NEW S, NEW n \in Nat, NEW f \in [1..n -> S]
  PROVE  f \in Seq(S)
  BY SeqDef

LEMMA KeysAre ==
  /\ Groups \in Seq(Key) /\ Key = {Groups[i] : i \in 1..Len(Groups)}
  /\ \A k \in Key : SharedBy(k) \in SUBSET Remote
  /\ \A r \in Remote : KeyOf(r) \in Key /\ r \in SharedBy(KeyOf(r))
  <1>1. Groups \in Seq(DOMAIN RemotesOf)
    BY AgentAssumption
  <1>2. DOMAIN Groups = 1..Len(Groups) /\ Len(Groups) \in Nat
    BY <1>1, LenProperties
  <1>3. Key = {Groups[i] : i \in 1..Len(Groups)}
    BY <1>2 DEF Key
  <1>4. Groups \in Seq(Key)
    <2>1. Groups \in [1..Len(Groups) -> Key]
      BY <1>1, <1>3, LenProperties
    <2> QED
      BY <1>2, <2>1, SeqDef
  <1>5. \A k \in Key : SharedBy(k) \in SUBSET Remote
    BY DEF SharedBy, Remote
  <1>6. ASSUME NEW r \in Remote PROVE KeyOf(r) \in Key /\ r \in SharedBy(KeyOf(r))
    <2>1. \E k \in Key : \E i \in DOMAIN RemotesOf[k] : RemotesOf[k][i] = r
      BY DEF Remote
    <2>2. KeyOf(r) \in Key /\ \E i \in DOMAIN RemotesOf[KeyOf(r)] : RemotesOf[KeyOf(r)][i] = r
      BY <2>1 DEF KeyOf
    <2> QED
      BY <2>2 DEF SharedBy
  <1> QED
    BY <1>3, <1>4, <1>5, <1>6

LEMMA OffType == Off \in Preflights
  <1>1. <<>> \in Seq(Key)
    BY EmptySeq
  <1> QED
    BY <1>1 DEF Off, Preflights, Early

LEMMA InitAgent == AgentInit => AgentInv
  <1> SUFFICES ASSUME AgentInit PROVE AgentInv
    OBVIOUS
  <1>1. /\ agents \in Seq([by : Process, keys : SUBSET Key]) /\ Len(agents) = 1
    <2>1. [by |-> Other, keys |-> {}] \in [by : Process, keys : SUBSET Key]
      BY DEF Process
    <2> QED
      BY <2>1 DEF AgentInit
  <1>2. AgentTypes
    BY <1>1, OffType DEF AgentInit, AgentTypes
  <1>3. ASSUME NEW p \in Process PROVE Sound(p)
    BY <1>1, <1>3 DEF AgentInit, Sound, Off, Early, Adopting, Priming
  <1> QED
    BY <1>2, <1>3 DEF AgentInv

\* The agents only get more, and more keys; the socket never leads back to an
\* agent it has left.
Grows ==
    /\ key' = key
    /\ Len(agents') \in Nat /\ Len(agents) <= Len(agents')
    /\ \A a \in 1..Len(agents) :
          sock' = a => sock = a /\ agents[a].keys \subseteq agents'[a].keys

LEMMA OthersSound ==
  ASSUME AgentInv, Grows, NEW q \in Process, engine'[q] = engine[q]
  PROVE  Sound(q)'
  <1> DEFINE e == engine[q]
  <1>1. e \in Preflights /\ e.agent \in Nat /\ Len(agents) \in Nat /\ e.agent <= Len(agents)
    BY LenProperties DEF AgentInv, AgentTypes, Sound, Preflights
  <1>2. Rest(q)' = Rest(q) /\ EncryptedKeys' = EncryptedKeys
    BY DEF Rest, EncryptedKeys, Grows
  <1>3. ASSUME sock' = e.agent, sock' # 0
        PROVE  sock = e.agent /\ agents[sock].keys \subseteq agents'[sock'].keys
    BY <1>1, <1>3 DEF Grows
  <1>4. e.agent <= Len(agents')
    BY <1>1 DEF Grows
  <1>5. Sound(q)
    BY DEF AgentInv
  <1>6. \A r : Hopeless(q, r)' = Hopeless(q, r)
    BY <1>2 DEF Hopeless
  <1> QED
    BY <1>2, <1>3, <1>4, <1>5, <1>6 DEF Sound

\* A step of p that leaves the agents alone, or adds to them.
LEMMA Step ==
  ASSUME AgentInv, NEW p \in Process, NEW e \in Preflights, engine' = [engine EXCEPT ![p] = e],
         Grows, agents' \in Seq([by : Process, keys : SUBSET Key]),
         alive' \subseteq 1..Len(agents'), sock' \in 0..Len(agents'), Sound(p)'
  PROVE  AgentInv'
  <1>1. AgentTypes'
    BY DEF AgentInv, AgentTypes, Grows
  <1>2. ASSUME NEW q \in Process PROVE Sound(q)'
    <2>1. CASE q # p
      <3>1. engine'[q] = engine[q]
        BY <2>1 DEF AgentInv, AgentTypes
      <3> QED
        BY <3>1, OthersSound
    <2> QED
      BY <2>1
  <1> QED
    BY <1>1, <1>2 DEF AgentInv

LEMMA GrowsWhenSame ==
  ASSUME AgentInv, UNCHANGED <<key, agents>>, sock' = sock \/ sock' = 0
  PROVE  Grows
  <1>1. Len(agents) \in Nat
    BY LenProperties DEF AgentInv, AgentTypes
  <1> QED
    BY <1>1 DEF Grows

\* The preflight begins anew.
LEMMA OffSound ==
  ASSUME AgentInv, NEW p \in Process, engine' = [engine EXCEPT ![p] = Off],
         Grows
  PROVE  Sound(p)'
  <1>1. engine'[p] = Off
    BY DEF AgentInv, AgentTypes
  <1> QED
    BY <1>1 DEF Sound, Off, Early, Adopting, Priming, Grows

\* A preflight on its way to the agent.
LEMMA GotoSound ==
  ASSUME AgentInv, NEW p \in Process, NEW point, Goto(p, point), Grows,
         \/ point \in Early /\ engine[p].at \in Early
         \/ /\ point \in Adopting \cup {"ready"} /\ engine[p].at \in Early \cup Adopting
            /\ p = Service => EncryptedKeys = {}
            /\ point \in Adopting => Groups # <<>>
            /\ point = "ready" => Groups = <<>>
  PROVE  /\ [engine[p] EXCEPT !.at = point] \in Preflights
         /\ engine' = [engine EXCEPT ![p] = [engine[p] EXCEPT !.at = point]]
         /\ Sound(p)'
  <1> DEFINE e == [engine[p] EXCEPT !.at = point]
  <1>1. e \in Preflights /\ engine[p] \in Preflights
    BY DEF AgentInv, AgentTypes, Preflights
  <1>2. engine' = [engine EXCEPT ![p] = e]
    BY DEF Goto
  <1>3. /\ e.at = point /\ e.todo = engine[p].todo /\ e.failures = engine[p].failures
        /\ e.agent = engine[p].agent /\ e.disturbed = engine[p].disturbed
        /\ e.loaded = engine[p].loaded /\ e.tty = engine[p].tty
    BY <1>1 DEF Preflights
  <1> HIDE DEF e
  <1>4. engine'[p] = e
    BY <1>2 DEF AgentInv, AgentTypes
  <1>5. Groups = <<>> => Key = {}
    BY KeysAre, EmptySeq
  <1>6. EncryptedKeys' = EncryptedKeys
    BY DEF Grows, EncryptedKeys
  <1>7. point \notin Priming /\ (point = "ready" => Groups = <<>>)
    BY DEF Early, Adopting, Priming
  <1>8. Sound(p) /\ e.agent \in Nat /\ Len(agents) \in Nat
    BY <1>1, <1>3, LenProperties DEF AgentInv, AgentTypes, Preflights
  <1>9. e.agent <= Len(agents')
    BY <1>3, <1>8 DEF Sound, Grows
  <1>10. e.failures = {} /\ e.todo = <<>> /\ e.loaded = {}
    BY <1>3, <1>8 DEF Sound
  <1>11. Sound(p)'
    BY <1>3, <1>4, <1>5, <1>6, <1>7, <1>9, <1>10 DEF Sound, Early, Adopting
  <1> QED
    BY <1>1, <1>2, <1>11 DEF e

\* A preflight among its keys, before the verdict on one of them.
LEMMA AmongSound ==
  ASSUME AgentInv, NEW p \in Process, NEW point \in Priming, Goto(p, point), Grows,
         engine[p].at \in Priming
  PROVE  /\ [engine[p] EXCEPT !.at = point] \in Preflights
         /\ engine' = [engine EXCEPT ![p] = [engine[p] EXCEPT !.at = point]]
         /\ Sound(p)'
  <1> DEFINE e == [engine[p] EXCEPT !.at = point]
             a == engine[p].agent
  <1>1. e \in Preflights /\ engine[p] \in Preflights
    BY DEF AgentInv, AgentTypes, Preflights
  <1>2. engine' = [engine EXCEPT ![p] = e]
    BY DEF Goto
  <1>3. /\ e.at = point /\ e.todo = engine[p].todo /\ e.failures = engine[p].failures
        /\ e.agent = engine[p].agent /\ e.disturbed = engine[p].disturbed
        /\ e.loaded = engine[p].loaded /\ e.tty = engine[p].tty
    BY <1>1 DEF Preflights
  <1> HIDE DEF e
  <1>4. engine'[p] = e
    BY <1>2 DEF AgentInv, AgentTypes
  <1>5. EncryptedKeys' = EncryptedKeys /\ Rest(p)' = Rest(p)
    BY <1>3, <1>4 DEF Grows, EncryptedKeys, Rest
  <1>6. Sound(p) /\ a \in Nat /\ Len(agents) \in Nat /\ a <= Len(agents)
    BY <1>1, LenProperties DEF AgentInv, AgentTypes, Preflights, Sound
  <1>7. a <= Len(agents')
    BY <1>6 DEF Grows
  <1>8. sock' = a /\ sock' # 0 => sock = a /\ agents[a].keys \subseteq agents'[a].keys
    BY <1>6 DEF Grows
  <1>9. \A r : Hopeless(p, r)' = Hopeless(p, r)
    BY <1>3, <1>4, <1>5 DEF Hopeless
  <1>10. Sound(p)'
    BY <1>3, <1>4, <1>5, <1>6, <1>7, <1>8, <1>9 DEF Sound, Early, Adopting, Priming
  <1> QED
    BY <1>1, <1>2, <1>10 DEF e

\* The verdict on a key: it is in the agent on the socket, or its remotes are
\* given up on.
LEMMA SettleSound ==
  ASSUME AgentInv, NEW p \in Process, NEW failures \in SUBSET Remote, NEW disturbed \in BOOLEAN,
         Settle(p, failures, disturbed), Grows, engine[p].at \in Priming,
         \/ SharedBy(Current(p)) \subseteq failures
         \/ sock' = engine[p].agent /\ sock' # 0 => Current(p) \in agents'[sock'].keys,
         disturbed \/ \A r \in failures : Hopeless(p, r)
  PROVE  /\ Sound(p)'
         /\ \E e \in Preflights : engine' = [engine EXCEPT ![p] = e]
  <1> DEFINE d == engine[p]
             rest == Tail(d.todo)
             e == [d EXCEPT !.at = IF rest = <<>> THEN "ready" ELSE "stat", !.todo = rest,
                            !.failures = @ \cup failures, !.disturbed = @ \/ disturbed]
             a == d.agent
  <1>1. d \in Preflights /\ d.todo \in Seq(Key) /\ d.todo # <<>>
    BY DEF AgentInv, AgentTypes, Preflights, Sound
  <1>2. /\ rest \in Seq(Key) /\ Current(p) \in Key
        /\ \A k \in Key : k \in Rest(p) => k = Current(p) \/ k \in {rest[i] : i \in 1..Len(rest)}
    <2>1. /\ Head(d.todo) = d.todo[1] /\ rest \in Seq(Key) /\ Len(rest) = Len(d.todo) - 1
          /\ Len(d.todo) \in Nat /\ Len(d.todo) >= 1
          /\ \A i \in 1..Len(rest) : rest[i] = d.todo[i + 1]
      BY <1>1, HeadTailProperties, LenProperties, EmptySeq
    <2>2. Current(p) \in Key
      BY <1>1, <2>1, ElementOfSeq DEF Current
    <2>3. ASSUME NEW i \in 1..Len(d.todo), i # 1 PROVE i - 1 \in 1..Len(rest) /\ rest[i - 1] = d.todo[i]
      <3>1. i - 1 \in 1..Len(rest) /\ (i - 1) + 1 = i
        BY <2>1, <2>3
      <3> QED
        BY <2>1, <3>1
    <2> QED
      BY <2>1, <2>2, <2>3 DEF Rest, Current
  <1> HIDE DEF rest
  <1>3. e \in Preflights
    BY <1>1, <1>2 DEF Preflights, Priming
  <1>4. /\ e.at = IF rest = <<>> THEN "ready" ELSE "stat"
        /\ e.todo = rest /\ e.failures = d.failures \cup failures
        /\ e.agent = a /\ e.disturbed = (d.disturbed \/ disturbed) /\ e.loaded = d.loaded
        /\ e.tty = d.tty
    BY <1>1 DEF Preflights
  <1>5. engine' = [engine EXCEPT ![p] = e]
    BY DEF Settle, rest
  <1> HIDE DEF e
  <1>6. engine'[p] = e
    BY <1>5 DEF AgentInv, AgentTypes
  <1>7. EncryptedKeys' = EncryptedKeys /\ Rest(p)' = {rest[i] : i \in 1..Len(rest)}
    BY <1>4, <1>6 DEF Grows, EncryptedKeys, Rest
  <1>8. Sound(p) /\ a \in Nat /\ Len(agents) \in Nat /\ a <= Len(agents)
    BY <1>1, LenProperties DEF AgentInv, AgentTypes, Preflights, Sound
  <1>9. a <= Len(agents')
    BY <1>8 DEF Grows
  <1>10. sock' = a /\ sock' # 0 => sock = a /\ agents[a].keys \subseteq agents'[a].keys
    BY <1>8 DEF Grows
  <1>11. ASSUME sock' = a, sock' # 0, NEW k \in Key
         PROVE  k \in Rest(p)' \/ SharedBy(k) \subseteq e.failures \/ k \in agents'[sock'].keys
    <2>1. CASE k = Current(p)
      BY <1>4, <1>11, <2>1
    <2>2. CASE k # Current(p)
      <3>1. k \in Rest(p) \/ SharedBy(k) \subseteq d.failures \/ k \in agents[sock].keys
        BY <1>8, <1>10, <1>11 DEF Sound
      <3> QED
        BY <1>2, <1>4, <1>7, <1>10, <1>11, <2>2, <3>1
    <2> QED
      BY <2>1, <2>2
  <1>12. ASSUME sock' = a, sock' # 0
         PROVE  e.loaded \subseteq agents'[sock'].keys
    BY <1>4, <1>8, <1>10, <1>12 DEF Sound
  <1>13. /\ p = Service => EncryptedKeys' = {}
         /\ ~e.disturbed => \A r \in e.failures : Hopeless(p, r)'
    <2>1. \A r : Hopeless(p, r)' = Hopeless(p, r)
      BY <1>4, <1>6, <1>7 DEF Hopeless
    <2> QED
      BY <1>4, <1>7, <1>8, <2>1 DEF Sound, Early, Priming
  <1>14. Sound(p)'
    BY <1>4, <1>6, <1>9, <1>11, <1>12, <1>13 DEF Sound, Early, Adopting, Priming
  <1> QED
    BY <1>3, <1>5, <1>14

\* Up to the agent.
LEMMA EarlySteps ==
  ASSUME AgentInv, NEW p \in Process,
         \/ Preflight(p) \/ Gate(p) \/ CreateHosts(p) \/ Refuse(p)
         \/ ProbeAgent(p) \/ RemoveSocket(p)
  PROVE  AgentInv'
  <1>0. /\ AgentTypes /\ Sound(p)
        /\ \A q \in Process : engine[q] \in Preflights
    BY DEF AgentInv, AgentTypes
  <1>1. Grows /\ UNCHANGED <<key, agents, alive>> /\ (sock' = sock \/ sock' = 0)
    <2>1. UNCHANGED <<key, agents, alive>> /\ (sock' = sock \/ sock' = 0)
      BY DEF Preflight, Gate, CreateHosts, Refuse, ProbeAgent, RemoveSocket
    <2> QED
      BY <2>1, GrowsWhenSame
  <1>2. /\ agents' \in Seq([by : Process, keys : SUBSET Key])
        /\ alive' \subseteq 1..Len(agents') /\ sock' \in 0..Len(agents')
    <2>1. Len(agents) \in Nat
      BY <1>0, LenProperties DEF AgentTypes
    <2> QED
      BY <1>0, <1>1, <2>1 DEF AgentTypes
  <1>3. CASE Throws(p)
    BY <1>1, <1>2, <1>3, OffType, OffSound, Step DEF Throws
  <1>4. ASSUME NEW point, Goto(p, point),
               \/ point \in Early /\ engine[p].at \in Early
               \/ /\ point \in Adopting \cup {"ready"} /\ engine[p].at \in Early \cup Adopting
                  /\ p = Service => EncryptedKeys = {}
                  /\ point \in Adopting => Groups # <<>>
                  /\ point = "ready" => Groups = <<>>
        PROVE  AgentInv'
    <2>1. /\ [engine[p] EXCEPT !.at = point] \in Preflights
          /\ engine' = [engine EXCEPT ![p] = [engine[p] EXCEPT !.at = point]]
          /\ Sound(p)'
      BY <1>1, <1>4, GotoSound
    <2> QED
      BY <1>1, <1>2, <2>1, Step
  <1>5. CASE Preflight(p)
    <2>1. PICK tty \in BOOLEAN : engine' = [engine EXCEPT ![p].at = "gate", ![p].tty = tty]
      BY <1>5 DEF Preflight
    <2> DEFINE e == [engine[p] EXCEPT !.at = "gate", !.tty = tty]
    <2>2. engine' = [engine EXCEPT ![p] = e]
      BY <2>1
    <2>3. /\ e \in Preflights /\ e.at = "gate" /\ e.todo = engine[p].todo
          /\ e.failures = engine[p].failures /\ e.loaded = engine[p].loaded
          /\ e.agent = engine[p].agent
      BY <1>0 DEF Preflights, Early
    <2> HIDE DEF e
    <2>4. engine'[p] = e
      BY <1>0, <2>2 DEF AgentTypes
    <2>5. engine[p].at = "off" /\ agents' = agents
      BY <1>5 DEF Preflight, At
    <2>6. Sound(p)'
      BY <1>0, <2>3, <2>4, <2>5 DEF Sound, Early, Adopting, Priming
    <2> QED
      BY <1>1, <1>2, <2>2, <2>3, <2>6, Step
  <1>9. CASE Gate(p)
    BY <1>4, <1>9 DEF Gate, At, Early
  <1>6. CASE CreateHosts(p)
    BY <1>3, <1>4, <1>6 DEF CreateHosts, At, Early
  <1>7. CASE Refuse(p)
    BY <1>3, <1>4, <1>7 DEF Refuse, At, Early, Adopting
  <1>8. CASE ProbeAgent(p) \/ RemoveSocket(p)
    <2>1. Groups # <<>> /\ (p = Service => EncryptedKeys = {})
      BY <1>0, <1>8 DEF ProbeAgent, RemoveSocket, At, Sound, Early, Adopting
    <2> QED
      BY <1>4, <1>8, <2>1 DEF ProbeAgent, RemoveSocket, At, Adopting
  <1> QED
    BY <1>5, <1>6, <1>7, <1>8, <1>9

LEMMA SpawnStep ==
  ASSUME AgentInv, NEW p \in Process, Spawn(p)
  PROVE  AgentInv'
  <1>0. /\ AgentTypes /\ Sound(p) /\ engine[p].at = "spawn" /\ Len(agents) \in Nat
        /\ key' = key
    BY LenProperties DEF AgentInv, AgentTypes, Spawn, At
  <1>1. CASE Throws(p) /\ UNCHANGED <<agents, alive, sock>>
    BY <1>0, <1>1, OffType, OffSound, GrowsWhenSame, Step DEF Throws, AgentTypes
  <1>2. CASE /\ agents' = Append(agents, [by |-> p, keys |-> {}])
             /\ sock' = Len(agents') /\ alive' = alive \cup {sock'}
             /\ Goto(p, "list")
    <2> DEFINE new == [by |-> p, keys |-> {}]
    <2>1. new \in [by : Process, keys : SUBSET Key]
      OBVIOUS
    <2>2. /\ agents' \in Seq([by : Process, keys : SUBSET Key])
          /\ Len(agents') = Len(agents) + 1
          /\ \A i \in 1..Len(agents) : agents'[i] = agents[i]
      BY <1>0, <1>2, <2>1, AppendProperties DEF AgentTypes
    <2>3. Grows
      BY <1>0, <1>2, <2>2 DEF Grows
    <2>4. alive' \subseteq 1..Len(agents') /\ sock' \in 0..Len(agents')
      <3>1. alive \subseteq 1..Len(agents) /\ alive' = alive \cup {Len(agents) + 1}
        BY <1>0, <1>2, <2>2 DEF AgentTypes
      <3>2. \A i \in alive : i \in 1..(Len(agents) + 1)
        BY <1>0, <3>1
      <3>3. Len(agents) + 1 \in 1..(Len(agents) + 1)
        BY <1>0
      <3>4. Len(agents') = Len(agents) + 1 /\ sock' = Len(agents')
        BY <1>2, <2>2
      <3>5. sock' \in 0..Len(agents')
        BY <1>0, <3>4
      <3> QED
        BY <3>1, <3>2, <3>3, <3>4, <3>5
    <2>5. /\ [engine[p] EXCEPT !.at = "list"] \in Preflights
          /\ engine' = [engine EXCEPT ![p] = [engine[p] EXCEPT !.at = "list"]]
          /\ Sound(p)'
      <3>1. Groups # <<>> /\ (p = Service => EncryptedKeys = {})
        BY <1>0 DEF Sound, Early, Adopting
      <3> QED
        BY <1>0, <1>2, <2>3, <3>1, GotoSound DEF Adopting
    <2> QED
      BY <2>2, <2>3, <2>4, <2>5, Step
  <1> QED
    BY <1>1, <1>2 DEF Spawn

LEMMA ListStep ==
  ASSUME AgentInv, NEW p \in Process, List(p)
  PROVE  AgentInv'
  <1>0. /\ AgentTypes /\ Sound(p) /\ engine[p].at = "list" /\ Len(agents) \in Nat
        /\ engine[p] \in Preflights /\ UNCHANGED <<key, agents, alive, sock>>
    BY LenProperties DEF AgentInv, AgentTypes, List, At
  <1>1. Grows
    BY <1>0, GrowsWhenSame
  <1>2. CASE Throws(p)
    BY <1>0, <1>1, <1>2, OffType, OffSound, Step DEF Throws, AgentTypes
  <1>3. CASE /\ Answering
             /\ engine' = [engine EXCEPT ![p].at = "stat", ![p].todo = Groups,
                                         ![p].agent = sock, ![p].loaded = agents[sock].keys]
    <2> DEFINE e == [engine[p] EXCEPT !.at = "stat", !.todo = Groups, !.agent = sock,
                                      !.loaded = agents[sock].keys]
    <2>1. sock \in 1..Len(agents) /\ agents[sock].keys \in SUBSET Key
      <3>1. sock \in 1..Len(agents)
        BY <1>0, <1>3 DEF AgentTypes, Answering
      <3>2. agents[sock] \in [by : Process, keys : SUBSET Key]
        BY <1>0, <3>1, ElementOfSeq DEF AgentTypes
      <3> QED
        BY <3>1, <3>2
    <2>2. engine' = [engine EXCEPT ![p] = e]
      BY <1>3
    <2>3. e \in Preflights
      <3>1. Groups \in Seq(Key) /\ sock \in Nat
        BY <1>0, <2>1, KeysAre
      <3> QED
        BY <1>0, <2>1, <3>1 DEF Preflights, Priming
    <2>4. /\ e.at = "stat" /\ e.todo = Groups /\ e.agent = sock /\ e.loaded = agents[sock].keys
          /\ e.failures = engine[p].failures /\ e.disturbed = engine[p].disturbed
      BY <1>0 DEF Preflights
    <2> HIDE DEF e
    <2>5. engine'[p] = e
      BY <1>0, <2>2 DEF AgentTypes
    <2>6. Rest(p)' = Key
      BY <2>4, <2>5, KeysAre DEF Rest
    <2>7. EncryptedKeys' = EncryptedKeys
      BY <1>0 DEF EncryptedKeys
    <2>8. Sound(p)'
      BY <1>0, <2>1, <2>4, <2>5, <2>6, <2>7 DEF Sound, Early, Adopting, Priming
    <2> QED
      BY <1>0, <1>1, <2>2, <2>3, <2>8, Step DEF AgentTypes
  <1> QED
    BY <1>2, <1>3 DEF List

\* A key that cannot be read needs a person, and there is none.
LEMMA Unreadable ==
  ASSUME AgentInv, NEW p \in Process, engine[p].at \in Priming, NEW k \in Key, ~Readable(p, k)
  PROVE  \A r \in SharedBy(k) : Hopeless(p, r)
  <1>1. p = Service => EncryptedKeys = {}
    BY DEF AgentInv, Sound, Early, Priming
  <1>2. ~engine[p].tty /\ k \in EncryptedKeys
    BY DEF EncryptedKeys, Readable, hasTty, AgentInv, AgentTypes
  <1> QED
    BY <1>1, <1>2 DEF Hopeless

LEMMA CurrentIs ==
  ASSUME AgentInv, NEW p \in Process, engine[p].at \in Priming
  PROVE  Current(p) \in Key /\ SharedBy(Current(p)) \in SUBSET Remote
  <1>1. engine[p].todo \in Seq(Key) /\ engine[p].todo # <<>>
    BY DEF AgentInv, AgentTypes, Preflights, Sound
  <1>2. Current(p) \in Key
    BY <1>1, HeadTailProperties DEF Current
  <1> QED
    BY <1>2, KeysAre

\* Of each key in turn.
LEMMA KeySteps ==
  ASSUME AgentInv, NEW p \in Process,
         \/ StatSidecar(p) \/ WriteSidecar(p) \/ Add(p)
         \/ engine[p].at \in Priming /\ NotPrimed(p, TRUE) /\ UNCHANGED <<key, agents, alive, sock>>
  PROVE  AgentInv'
  <1> DEFINE k == Current(p)
  <1>0. /\ AgentTypes /\ Sound(p) /\ engine[p].at \in Priming /\ Len(agents) \in Nat
        /\ engine[p] \in Preflights /\ UNCHANGED <<key, alive, sock>>
        /\ k \in Key /\ SharedBy(k) \in SUBSET Remote
        /\ ~Readable(p, k) => \A r \in SharedBy(k) : Hopeless(p, r)
    <2>1. engine[p].at \in Priming /\ UNCHANGED <<key, alive, sock>>
      BY DEF StatSidecar, WriteSidecar, Add, At, Priming
    <2> QED
      BY <2>1, CurrentIs, Unreadable, LenProperties DEF AgentInv, AgentTypes
  <1> HIDE DEF k
  <1>1. CASE UNCHANGED agents
    <2>1. Grows
      BY <1>0, <1>1, GrowsWhenSame
    <2>2. ASSUME NEW disturbed \in BOOLEAN, NotPrimed(p, disturbed), disturbed \/ ~Readable(p, k)
          PROVE  AgentInv'
      <3>1. /\ Sound(p)'
            /\ \E e \in Preflights : engine' = [engine EXCEPT ![p] = e]
        BY <1>0, <2>1, <2>2, SettleSound DEF NotPrimed, k
      <3> QED
        BY <1>0, <1>1, <2>1, <3>1, Step DEF AgentTypes
    <2>3. ASSUME NEW point \in Priming, Goto(p, point)
          PROVE  AgentInv'
      BY <1>0, <1>1, <2>1, <2>3, AmongSound, Step DEF AgentTypes
    <2>4. CASE StatSidecar(p)
      BY <1>0, <2>2, <2>3, <2>4 DEF StatSidecar, Priming, k
    <2>5. CASE WriteSidecar(p)
      BY <2>2, <2>3, <2>5 DEF WriteSidecar, Priming
    <2>6. CASE Add(p)
      <3>1. CASE k \in engine[p].loaded /\ Primed(p)
        <4>1. sock' = engine[p].agent /\ sock' # 0 => k \in agents'[sock'].keys
          BY <1>0, <1>1, <3>1 DEF Sound
        <4>2. /\ Sound(p)'
              /\ \E e \in Preflights : engine' = [engine EXCEPT ![p] = e]
          BY <1>0, <2>1, <3>1, <4>1, SettleSound DEF Primed, k
        <4> QED
          BY <1>0, <1>1, <2>1, <4>2, Step DEF AgentTypes
      <3>2. CASE k \notin engine[p].loaded /\ CanAdd(p, k) /\ Answering /\ Primed(p)
                 /\ agents' = [agents EXCEPT ![sock].keys = @ \cup {k}]
        <4>1. sock \in 1..Len(agents)
          BY <1>0, <3>2 DEF AgentTypes, Answering
        <4>2. agents[sock] \in [by : Process, keys : SUBSET Key] /\ DOMAIN agents = 1..Len(agents)
          BY <1>0, <4>1, ElementOfSeq, LenProperties DEF AgentTypes
        <4>3. k \in agents'[sock'].keys
          BY <1>0, <3>2, <4>1, <4>2
        <4>4. /\ Sound(p)'
              /\ \E e \in Preflights : engine' = [engine EXCEPT ![p] = e]
          BY <1>0, <2>1, <3>2, <4>3, SettleSound DEF Primed, k
        <4> QED
          BY <1>0, <1>1, <2>1, <4>4, Step DEF AgentTypes
      <3>3. CASE NotPrimed(p, CanAdd(p, k))
        <4>1. CanAdd(p, k) \in BOOLEAN /\ (CanAdd(p, k) \/ ~Readable(p, k))
          BY <1>0 DEF CanAdd, Readable, hasTty, AgentTypes, Preflights
        <4> QED
          BY <2>2, <3>3, <4>1
      <3> QED
        BY <2>6, <3>1, <3>2, <3>3 DEF Add, k
    <2>7. CASE NotPrimed(p, TRUE)
      BY <2>2, <2>7
    <2> QED
      BY <2>4, <2>5, <2>6, <2>7
  <1>2. CASE agents' # agents
    <2>1. /\ Add(p) /\ CanAdd(p, k) /\ Answering /\ Primed(p)
          /\ agents' = [agents EXCEPT ![sock].keys = @ \cup {k}]
      BY <1>2 DEF StatSidecar, WriteSidecar, Add, k
    <2>2. sock \in 1..Len(agents)
      BY <1>0, <2>1 DEF AgentTypes, Answering
    <2>3. /\ agents[sock] \in [by : Process, keys : SUBSET Key]
          /\ DOMAIN agents = 1..Len(agents)
          /\ agents \in [1..Len(agents) -> [by : Process, keys : SUBSET Key]]
      BY <1>0, <2>2, ElementOfSeq, LenProperties DEF AgentTypes
    <2>4. /\ agents' \in [1..Len(agents) -> [by : Process, keys : SUBSET Key]]
          /\ agents'[sock].keys = agents[sock].keys \cup {k}
          /\ \A a \in 1..Len(agents) : a # sock => agents'[a] = agents[a]
      <3> DEFINE new == [agents[sock] EXCEPT !.keys = @ \cup {k}]
      <3>1. new \in [by : Process, keys : SUBSET Key] /\ new.keys = agents[sock].keys \cup {k}
        BY <1>0, <2>3
      <3>2. agents' = [agents EXCEPT ![sock] = new]
        BY <2>1
      <3> HIDE DEF new
      <3> QED
        BY <2>2, <2>3, <3>1, <3>2
    <2>5. agents' \in Seq([by : Process, keys : SUBSET Key]) /\ Len(agents') = Len(agents)
      <3>1. agents' \in Seq([by : Process, keys : SUBSET Key])
        BY <1>0, <2>4, FunctionIsSeq
      <3>2. DOMAIN agents' = 1..Len(agents) /\ DOMAIN agents' = 1..Len(agents')
        BY <2>4, <3>1, LenProperties
      <3>3. Len(agents') \in Nat
        BY <3>1, LenProperties
      <3> QED
        BY <1>0, <3>1, <3>2, <3>3
    <2>6. Grows
      BY <1>0, <2>4, <2>5 DEF Grows
    <2>7. /\ Sound(p)'
          /\ \E e \in Preflights : engine' = [engine EXCEPT ![p] = e]
      <3>1. k \in agents'[sock'].keys
        BY <1>0, <2>4
      <3> QED
        BY <1>0, <2>1, <2>6, <3>1, SettleSound DEF Primed, k
    <2> QED
      BY <1>0, <2>5, <2>6, <2>7, Step DEF AgentTypes
  <1> QED
    BY <1>1, <1>2

LEMMA FaultSteps ==
  ASSUME AgentInv, (\E p \in Process : StepFails(p) \/ Leave(p)) \/ AgentDies
  PROVE  AgentInv'
  <1>0. /\ AgentTypes /\ Len(agents) \in Nat /\ UNCHANGED <<key, agents>>
        /\ (sock' = sock \/ sock' = 0)
        /\ alive' \subseteq alive
    BY LenProperties DEF AgentInv, AgentTypes, StepFails, Leave, AgentDies
  <1>1. Grows
    BY <1>0, GrowsWhenSame
  <1>2. /\ agents' \in Seq([by : Process, keys : SUBSET Key])
        /\ alive' \subseteq 1..Len(agents') /\ sock' \in 0..Len(agents')
    BY <1>0 DEF AgentTypes
  <1>3. ASSUME NEW p \in Process, Throws(p) PROVE AgentInv'
    BY <1>1, <1>2, <1>3, OffType, OffSound, Step DEF Throws
  <1>4. ASSUME NEW p \in Process, StepFails(p) \/ Leave(p) PROVE AgentInv'
    <2>1. CASE Throws(p)
      BY <1>3, <2>1
    <2>2. CASE ~Throws(p)
      <3>1. StepFails(p) /\ engine[p].at \in Priming /\ NotPrimed(p, TRUE)
        BY <1>4, <2>2 DEF StepFails, Leave, Priming
      <3>2. UNCHANGED <<key, agents, alive, sock>>
        BY <3>1 DEF StepFails
      <3> QED
        BY <3>1, <3>2, KeySteps
    <2> QED
      BY <2>1, <2>2
  <1>5. CASE AgentDies
    <2>1. engine' = engine
      BY <1>5 DEF AgentDies
    <2>2. \A q \in Process : Sound(q)'
      BY <1>1, <2>1, OthersSound
    <2>3. AgentTypes'
      BY <1>0, <1>2, <2>1 DEF AgentTypes
    <2> QED
      BY <2>2, <2>3 DEF AgentInv
  <1> QED
    BY <1>4, <1>5

LEMMA NextAgent == AgentInv /\ [AgentNext]_agentVars => AgentInv'
  <1> SUFFICES ASSUME AgentInv, [AgentNext]_agentVars PROVE AgentInv'
    OBVIOUS
  <1>1. CASE UNCHANGED agentVars
    BY <1>1 DEF agentVars, AgentInv, AgentTypes, Sound, Hopeless, Rest, EncryptedKeys
  <1>2. ASSUME NEW p \in Process,
               \/ Preflight(p) \/ Gate(p) \/ CreateHosts(p) \/ Refuse(p)
               \/ ProbeAgent(p) \/ RemoveSocket(p)
        PROVE  AgentInv'
    BY <1>2, EarlySteps
  <1>3. ASSUME NEW p \in Process, Spawn(p) \/ List(p) PROVE AgentInv'
    BY <1>3, SpawnStep, ListStep
  <1>4. ASSUME NEW p \in Process, StatSidecar(p) \/ WriteSidecar(p) \/ Add(p) PROVE AgentInv'
    BY <1>4, KeySteps
  <1>5. CASE (\E p \in Process : StepFails(p) \/ Leave(p)) \/ AgentDies
    BY <1>5, FaultSteps
  <1> QED
    BY <1>1, <1>2, <1>3, <1>4, <1>5 DEF AgentNext

LEMMA SoundIsUsable == AgentInv => ReadyIsUsable
  <1> SUFFICES ASSUME AgentInv, NEW p \in Process, At(p, "ready")
               PROVE  /\ (sock = engine[p].agent /\ Answering) =>
                            \A r \in Remote \ engine[p].failures : KeyOf(r) \in agents[sock].keys
                      /\ ~engine[p].disturbed =>
                            \A r \in engine[p].failures : Hopeless(p, r)
    BY DEF ReadyIsUsable, Hopeless
  <1>1. Sound(p) /\ engine[p].at = "ready" /\ engine[p].todo = <<>>
    BY DEF AgentInv, At, Sound
  <1>2. Rest(p) = {}
    BY <1>1, EmptySeq DEF Rest
  <1>3. ASSUME sock = engine[p].agent, Answering, NEW r \in Remote \ engine[p].failures
        PROVE  KeyOf(r) \in agents[sock].keys
    <2>1. sock # 0
      BY <1>3, LenProperties DEF Answering, AgentInv, AgentTypes
    <2>2. KeyOf(r) \in Key /\ r \in SharedBy(KeyOf(r))
      BY KeysAre
    <2> QED
      BY <1>1, <1>2, <1>3, <2>1, <2>2 DEF Sound
  <1> QED
    BY <1>1, <1>3 DEF Sound

\* A process that is ready finds the key of every remote it has not given up on
\* in the agent it adopted, for any keys and any remotes that share them: the
\* preflight of the other process, which lists, fills, replaces and unlinks the
\* same agent and socket in between, cannot make it report a key it lost.
THEOREM ReadyAgent == AgentSpec => []ReadyIsUsable
  <1>1. AgentSpec => []AgentInv
    BY InitAgent, NextAgent, PTL DEF AgentSpec
  <1> QED
    BY <1>1, SoundIsUsable, PTL

-----------------------------------------------------------------------------
(***************************************************************************)
(* The service                                                             *)
(***************************************************************************)
\* What a verb can have left to do.
Steps(name) ==
    CASE name = "install" ->
            IF linux THEN {<<"daemon-reload", "enable">>, <<"enable">>, <<>>} ELSE {<<>>}
      [] name = "start" ->
            IF linux THEN {<<"daemon-reload", "probe">>, <<"probe">>, <<"start">>, <<>>}
            ELSE {<<"probe">>, <<"bootstrap">>, <<>>}
      [] name = "restart" ->
            IF linux THEN {<<"daemon-reload", "restart">>, <<"restart">>, <<>>}
            ELSE {<<"probe">>, <<"bootout", "bootstrap">>, <<"bootstrap">>, <<"kickstart">>, <<>>}
      [] name = "stop" -> {<<"probe">>, <<Halt>>, <<>>}
      [] name = "uninstall" ->
            IF linux
            THEN {<<"probe">>, <<"stop", "disable", "remove", "daemon-reload">>,
                  <<"disable", "remove", "daemon-reload">>, <<"remove", "daemon-reload">>,
                  <<"daemon-reload">>, <<>>}
            ELSE {<<"probe">>, <<"bootout", "remove">>, <<"remove">>, <<>>}

ServiceTypes ==
    /\ platform \in {"linux", "darwin"}
    /\ config \in [Path -> Config \cup {Broken}]
    /\ trouble \in BOOLEAN /\ enabled \in BOOLEAN /\ rotate \in BOOLEAN
    /\ svc \in {"stopped", "running", "waiting"}
    /\ verb # None => verb \in Verb /\ verb.todo \in Steps(verb.name)

\* The unit on the disk is the one a writing verb has derived.
OnDisk == verb # None /\ verb.name \in Writing =>
    verb.wrote.unit = UnitOf(verb.path, verb.wrote.config) /\ unit = verb.wrote.unit

\* systemd holds the unit on the disk, unless a daemon-reload is on its way.
Reloading == verb # None /\ verb.todo # <<>> /\ Head(verb.todo) = "daemon-reload"
IsRead == linux /\ ~trouble => loaded \in {None, unit} \/ Reloading

\* launchd runs no job that it does not hold.
IsHeld == darwin => ~enabled /\ (svc = "running" => loaded # None)

\* What a verb that ends the daemon has got done, by what it has left to do.
Halting(v) == v # None /\ v.name \in {"stop", "uninstall"} /\ ~v.sawWaiting /\ ~v.failed
Halted ==
    Halting(verb) =>
        /\ verb.todo = <<>> \/ Head(verb.todo) \notin {"probe", Halt} =>
              svc = "stopped" /\ (darwin => loaded = None)
        /\ verb.name = "uninstall" =>
              /\ verb.todo = <<>> \/ Head(verb.todo) \in {"remove", "daemon-reload"} => ~enabled
              /\ verb.todo \in {<<"daemon-reload">>, <<>>} => unit = None /\ ~rotate
              /\ verb.todo = <<>> => loaded = None

ServiceInv == ServiceTypes /\ OnDisk /\ IsRead /\ IsHeld /\ Halted

Calls == {"probe", "daemon-reload", "enable", "disable", "start", "restart", "stop",
          "bootstrap", "bootout", "kickstart", "remove"}

LEMMA Prepended ==
  ASSUME NEW S, NEW x \in S, NEW s \in Seq(S), NEW t \in Seq(S), Len(t) = Len(s) + 1, t[1] = x,
         \A i \in 1..Len(s) : t[i + 1] = s[i]
  PROVE  <<x>> \o s = t
  <1>1. <<x>> \in Seq(S) /\ Len(<<x>>) = 1 /\ <<x>>[1] = x
    OBVIOUS
  <1>2. /\ <<x>> \o s \in Seq(S) /\ Len(<<x>> \o s) = 1 + Len(s)
        /\ \A i \in 1..(1 + Len(s)) : (<<x>> \o s)[i] =
                     IF i <= 1 THEN <<x>>[i] ELSE s[i - 1]
    BY <1>1, ConcatProperties
  <1>3. Len(s) \in Nat
    BY LenProperties
  <1>4. \A i \in 1..(1 + Len(s)) : t[i] = IF i <= 1 THEN <<x>>[i] ELSE s[i - 1]
    <2> TAKE i \in 1..(1 + Len(s))
    <2>1. i = 1 \/ (i - 1 \in 1..Len(s) /\ (i - 1) + 1 = i /\ ~(i <= 1))
      BY <1>3
    <2>2. CASE i = 1
      BY <1>1, <2>2
    <2>3. CASE i # 1
      BY <2>1, <2>3
    <2> QED
      BY <2>2, <2>3
  <1>5. \A i \in 1..Len(t) : (<<x>> \o s)[i] = t[i]
    <2>1. 1..Len(t) = 1..(1 + Len(s))
      BY <1>3
    <2> QED
      BY <1>2, <1>4, <2>1
  <1> QED
    BY <1>2, <1>3, <1>5, SeqEqual

LEMMA Pair == ASSUME NEW a, NEW b PROVE <<a>> \o <<b>> = <<a, b>>
  <1>1. <<b>> \in Seq({a, b}) /\ <<a, b>> \in Seq({a, b}) /\ Len(<<b>>) = 1 /\ Len(<<a, b>>) = 2
        /\ <<a, b>>[1] = a /\ <<a, b>>[2] = b /\ <<b>>[1] = b
    OBVIOUS
  <1> DEFINE s == <<b>>
             t == <<a, b>>
             S == {a, b}
  <1>2. s \in Seq(S) /\ t \in Seq(S) /\ a \in S /\ Len(t) = Len(s) + 1 /\ t[1] = a
    BY <1>1
  <1>3. \A i \in 1..Len(s) : t[i + 1] = s[i]
    BY <1>1
  <1> HIDE DEF s, t, S
  <1>4. <<a>> \o s = t
    BY <1>2, <1>3, Prepended
  <1> QED
    BY <1>4 DEF s, t

LEMMA Quadruple == ASSUME NEW a, NEW b, NEW c, NEW d PROVE <<a>> \o <<b, c, d>> = <<a, b, c, d>>
  <1> DEFINE s == <<b, c, d>>
             t == <<a, b, c, d>>
  <1>1. s \in Seq({a, b, c, d}) /\ t \in Seq({a, b, c, d}) /\ Len(s) = 3 /\ Len(t) = 4
        /\ s[1] = b /\ s[2] = c /\ s[3] = d /\ t[1] = a /\ t[2] = b /\ t[3] = c /\ t[4] = d
    OBVIOUS
  <1> DEFINE S == {a, b, c, d}
  <1>2. s \in Seq(S) /\ t \in Seq(S) /\ a \in S
    BY <1>1
  <1> HIDE DEF s, t, S
  <1>3. Len(t) = Len(s) + 1 /\ \A i \in 1..Len(s) : t[i + 1] = s[i]
    BY <1>1
  <1>4. <<a>> \o s = t
    BY <1>1, <1>2, <1>3, Prepended
  <1> QED
    BY <1>4 DEF s, t

LEMMA Tuples ==
  /\ \A a : <<a>> # <<>> /\ Tail(<<a>>) = <<>> /\ Head(<<a>>) = a
  /\ \A a, b : <<a, b>> # <<>> /\ Tail(<<a, b>>) = <<b>> /\ Head(<<a, b>>) = a
  /\ \A a, b, c : <<a, b, c>> # <<>> /\ Tail(<<a, b, c>>) = <<b, c>> /\ Head(<<a, b, c>>) = a
  /\ \A a, b, c, d : /\ <<a, b, c, d>> # <<>> /\ Tail(<<a, b, c, d>>) = <<b, c, d>>
                     /\ Head(<<a, b, c, d>>) = a
  OBVIOUS

LEMMA StepsAre ==
  ASSUME platform \in {"linux", "darwin"}, NEW name \in Verbs, NEW s \in Steps(name)
  PROVE  /\ s \in Seq(Calls)
         /\ s # <<>> => Tail(s) \in Steps(name) /\ Head(s) \in Calls
  <1>1. <<>> \in Seq(Calls)
    OBVIOUS
  <1>2. {"probe", "daemon-reload", "enable", "disable", "start", "restart", "stop",
         "bootstrap", "bootout", "kickstart", "remove"} = Calls
    BY DEF Calls
  <1>3. /\ "probe" \in Calls /\ "daemon-reload" \in Calls /\ "enable" \in Calls
        /\ "disable" \in Calls /\ "start" \in Calls /\ "restart" \in Calls /\ "stop" \in Calls
        /\ "bootstrap" \in Calls /\ "bootout" \in Calls /\ "kickstart" \in Calls
        /\ "remove" \in Calls
    BY <1>2
  <1> HIDE DEF Calls
  <1>4. /\ <<"bootout">> \in Seq(Calls) /\ <<"bootout">> # <<>>
        /\ Tail(<<"bootout">>) = <<>>
        /\ Head(<<"bootout">>) = "bootout" /\ "bootout" \in Calls
    BY <1>3
  <1>5. /\ <<"bootstrap">> \in Seq(Calls) /\ <<"bootstrap">> # <<>>
        /\ Tail(<<"bootstrap">>) = <<>>
        /\ Head(<<"bootstrap">>) = "bootstrap" /\ "bootstrap" \in Calls
    BY <1>3
  <1>6. /\ <<"daemon-reload">> \in Seq(Calls) /\ <<"daemon-reload">> # <<>>
        /\ Tail(<<"daemon-reload">>) = <<>>
        /\ Head(<<"daemon-reload">>) = "daemon-reload" /\ "daemon-reload" \in Calls
    BY <1>3
  <1>7. /\ <<"enable">> \in Seq(Calls) /\ <<"enable">> # <<>>
        /\ Tail(<<"enable">>) = <<>>
        /\ Head(<<"enable">>) = "enable" /\ "enable" \in Calls
    BY <1>3
  <1>8. /\ <<"kickstart">> \in Seq(Calls) /\ <<"kickstart">> # <<>>
        /\ Tail(<<"kickstart">>) = <<>>
        /\ Head(<<"kickstart">>) = "kickstart" /\ "kickstart" \in Calls
    BY <1>3
  <1>9. /\ <<"probe">> \in Seq(Calls) /\ <<"probe">> # <<>>
        /\ Tail(<<"probe">>) = <<>>
        /\ Head(<<"probe">>) = "probe" /\ "probe" \in Calls
    BY <1>3
  <1>10. /\ <<"remove">> \in Seq(Calls) /\ <<"remove">> # <<>>
        /\ Tail(<<"remove">>) = <<>>
        /\ Head(<<"remove">>) = "remove" /\ "remove" \in Calls
    BY <1>3
  <1>11. /\ <<"restart">> \in Seq(Calls) /\ <<"restart">> # <<>>
        /\ Tail(<<"restart">>) = <<>>
        /\ Head(<<"restart">>) = "restart" /\ "restart" \in Calls
    BY <1>3
  <1>12. /\ <<"start">> \in Seq(Calls) /\ <<"start">> # <<>>
        /\ Tail(<<"start">>) = <<>>
        /\ Head(<<"start">>) = "start" /\ "start" \in Calls
    BY <1>3
  <1>13. /\ <<"stop">> \in Seq(Calls) /\ <<"stop">> # <<>>
        /\ Tail(<<"stop">>) = <<>>
        /\ Head(<<"stop">>) = "stop" /\ "stop" \in Calls
    BY <1>3
  <1>14. /\ <<"bootout", "bootstrap">> \in Seq(Calls) /\ <<"bootout", "bootstrap">> # <<>>
        /\ Tail(<<"bootout", "bootstrap">>) = <<"bootstrap">>
        /\ Head(<<"bootout", "bootstrap">>) = "bootout" /\ "bootout" \in Calls
    BY <1>3
  <1>15. /\ <<"bootout", "remove">> \in Seq(Calls) /\ <<"bootout", "remove">> # <<>>
        /\ Tail(<<"bootout", "remove">>) = <<"remove">>
        /\ Head(<<"bootout", "remove">>) = "bootout" /\ "bootout" \in Calls
    BY <1>3
  <1>16. /\ <<"daemon-reload", "enable">> \in Seq(Calls) /\ <<"daemon-reload", "enable">> # <<>>
        /\ Tail(<<"daemon-reload", "enable">>) = <<"enable">>
        /\ Head(<<"daemon-reload", "enable">>) = "daemon-reload" /\ "daemon-reload" \in Calls
    BY <1>3
  <1>17. /\ <<"daemon-reload", "probe">> \in Seq(Calls) /\ <<"daemon-reload", "probe">> # <<>>
        /\ Tail(<<"daemon-reload", "probe">>) = <<"probe">>
        /\ Head(<<"daemon-reload", "probe">>) = "daemon-reload" /\ "daemon-reload" \in Calls
    BY <1>3
  <1>18. /\ <<"daemon-reload", "restart">> \in Seq(Calls) /\ <<"daemon-reload", "restart">> # <<>>
        /\ Tail(<<"daemon-reload", "restart">>) = <<"restart">>
        /\ Head(<<"daemon-reload", "restart">>) = "daemon-reload" /\ "daemon-reload" \in Calls
    BY <1>3
  <1>19. /\ <<"remove", "daemon-reload">> \in Seq(Calls) /\ <<"remove", "daemon-reload">> # <<>>
        /\ Tail(<<"remove", "daemon-reload">>) = <<"daemon-reload">>
        /\ Head(<<"remove", "daemon-reload">>) = "remove" /\ "remove" \in Calls
    BY <1>3
  <1>20. /\ <<"disable", "remove", "daemon-reload">> \in Seq(Calls) /\ <<"disable", "remove", "daemon-reload">> # <<>>
        /\ Tail(<<"disable", "remove", "daemon-reload">>) = <<"remove", "daemon-reload">>
        /\ Head(<<"disable", "remove", "daemon-reload">>) = "disable" /\ "disable" \in Calls
    BY <1>3
  <1>21. /\ <<"stop", "disable", "remove", "daemon-reload">> \in Seq(Calls) /\ <<"stop", "disable", "remove", "daemon-reload">> # <<>>
        /\ Tail(<<"stop", "disable", "remove", "daemon-reload">>) = <<"disable", "remove", "daemon-reload">>
        /\ Head(<<"stop", "disable", "remove", "daemon-reload">>) = "stop" /\ "stop" \in Calls
    BY <1>3
  <1>22. CASE name = "install" /\ linux
    <2>1. Steps(name) =
             {<<"daemon-reload", "enable">>, <<"enable">>, <<>>}
      BY <1>22 DEF Steps
    <2> QED
      BY <1>1, <1>16, <1>7, <2>1, Zenon
  <1>23. CASE name = "install" /\ ~linux
    <2>1. Steps(name) =
             {<<>>}
      BY <1>23 DEF Steps
    <2> QED
      BY <1>1, <2>1, Zenon
  <1>24. CASE name = "start" /\ linux
    <2>1. Steps(name) =
             {<<"daemon-reload", "probe">>, <<"probe">>, <<"start">>, <<>>}
      BY <1>24 DEF Steps
    <2> QED
      BY <1>1, <1>17, <1>9, <1>12, <2>1, Zenon
  <1>25. CASE name = "start" /\ ~linux
    <2>1. Steps(name) =
             {<<"probe">>, <<"bootstrap">>, <<>>}
      BY <1>25 DEF Steps
    <2> QED
      BY <1>1, <1>9, <1>5, <2>1, Zenon
  <1>26. CASE name = "restart" /\ linux
    <2>1. Steps(name) =
             {<<"daemon-reload", "restart">>, <<"restart">>, <<>>}
      BY <1>26 DEF Steps
    <2> QED
      BY <1>1, <1>18, <1>11, <2>1, Zenon
  <1>27. CASE name = "restart" /\ ~linux
    <2>1. Steps(name) =
             {<<"probe">>, <<"bootout", "bootstrap">>, <<"bootstrap">>, <<"kickstart">>, <<>>}
      BY <1>27 DEF Steps
    <2> QED
      BY <1>1, <1>9, <1>14, <1>5, <1>8, <2>1, Zenon
  <1>28. CASE name = "stop" /\ linux
    <2>1. Steps(name) =
             {<<"probe">>, <<"stop">>, <<>>}
      BY <1>28 DEF Steps, Halt
    <2> QED
      BY <1>1, <1>9, <1>13, <2>1, Zenon
  <1>29. CASE name = "stop" /\ ~linux
    <2>1. Steps(name) =
             {<<"probe">>, <<"bootout">>, <<>>}
      BY <1>29 DEF Steps, Halt
    <2> QED
      BY <1>1, <1>9, <1>4, <2>1, Zenon
  <1>30. CASE name = "uninstall" /\ linux
    <2>1. Steps(name) =
             {<<"probe">>, <<"stop", "disable", "remove", "daemon-reload">>,
              <<"disable", "remove", "daemon-reload">>, <<"remove", "daemon-reload">>,
              <<"daemon-reload">>, <<>>}
      BY <1>30 DEF Steps
    <2> QED
      BY <1>1, <1>9, <1>21, <1>20, <1>19, <1>6, <2>1, Zenon
  <1>31. CASE name = "uninstall" /\ ~linux
    <2>1. Steps(name) =
             {<<"probe">>, <<"bootout", "remove">>, <<"remove">>, <<>>}
      BY <1>31 DEF Steps
    <2> QED
      BY <1>1, <1>9, <1>15, <1>10, <2>1, Zenon
  <1> QED
    BY <1>22, <1>23, <1>24, <1>25, <1>26, <1>27, <1>28, <1>29, <1>30, <1>31 DEF Verbs

\* The calls a verb begins with.
LEMMA TodoIs ==
  ASSUME platform \in {"linux", "darwin"}, NEW name \in Verbs, NEW changed \in BOOLEAN
  PROVE  /\ Todo(name, changed) \in Steps(name)
         /\ name = "install" /\ linux => Todo(name, changed) = <<"daemon-reload", "enable">>
         /\ name \in {"stop", "uninstall"} => Todo(name, changed) = <<"probe">>
         /\ name \in Writing /\ linux /\ changed =>
               Todo(name, changed) # <<>> /\ Head(Todo(name, changed)) = "daemon-reload"
  <1>1. /\ <<"daemon-reload">> \o <<"probe">> = <<"daemon-reload", "probe">>
        /\ <<"daemon-reload">> \o <<"restart">> = <<"daemon-reload", "restart">>
    BY Pair
  <1>2. <<>> \o <<"probe">> = <<"probe">> /\ <<>> \o <<"restart">> = <<"restart">>
    OBVIOUS
  <1>3. /\ name = "start" => Todo(name, changed) = ReloadIf(changed) \o <<"probe">>
        /\ name = "restart" /\ linux => Todo(name, changed) = ReloadIf(changed) \o <<"restart">>
        /\ name = "install" => Todo(name, changed) = IF linux THEN <<"daemon-reload", "enable">>
                                                     ELSE <<>>
        /\ name \in {"stop", "uninstall"} \/ (name = "restart" /\ ~linux) =>
              Todo(name, changed) = <<"probe">>
    BY DEF Todo, Verbs
  <1>4. name = "start" => Todo(name, changed) = IF linux /\ changed
                                                THEN <<"daemon-reload", "probe">> ELSE <<"probe">>
    BY <1>1, <1>2, <1>3 DEF ReloadIf
  <1>5. name = "restart" /\ linux => Todo(name, changed) = IF changed
                                     THEN <<"daemon-reload", "restart">> ELSE <<"restart">>
    BY <1>1, <1>2, <1>3 DEF ReloadIf
  <1>6. CASE name = "install"
    BY <1>3, <1>6 DEF Steps, Writing
  <1>7. CASE name = "start"
    BY <1>4, <1>7 DEF Steps, Writing
  <1>8. CASE name = "restart"
    BY <1>3, <1>5, <1>8 DEF Steps, Writing
  <1>9. CASE name \in {"stop", "uninstall"}
    BY <1>3, <1>9 DEF Steps, Writing
  <1> QED
    BY <1>6, <1>7, <1>8, <1>9 DEF Verbs

\* And those it makes after its probe.
LEMMA AnsweredIs ==
  ASSUME platform \in {"linux", "darwin"}, NEW v, v.name \in {"start", "restart", "stop", "uninstall"},
         v.name = "restart" => ~linux
  PROVE  /\ Answered(v) \in Steps(v.name)
         /\ v.name \in {"stop", "uninstall"} =>
               /\ Answered(v) = <<>> \/ Head(Answered(v)) \notin {"probe", Halt} => ~Up
               /\ Answered(v) # <<>> => Head(Answered(v)) \notin {"daemon-reload"}
               /\ v.name = "uninstall" =>
                     /\ Answered(v) # <<>>
                     /\ Head(Answered(v)) = "remove" => ~linux
                     /\ Answered(v) # <<"daemon-reload">>
  <1>1. <<"bootout">> \o <<"remove">> = <<"bootout", "remove">> /\ <<>> \o <<"remove">> = <<"remove">>
    BY Pair
  <1>2. /\ <<>> \o <<"disable", "remove", "daemon-reload">> = <<"disable", "remove", "daemon-reload">>
        /\ <<"stop">> \o <<"disable", "remove", "daemon-reload">>
              = <<"stop", "disable", "remove", "daemon-reload">>
    BY Quadruple
  <1>3. CASE v.name \in {"start", "restart", "stop"}
    BY <1>3 DEF Answered, Steps, Halt
  <1>4. CASE v.name = "uninstall"
    <2>1. Answered(v) =
             IF linux
             THEN IF Up THEN <<"stop", "disable", "remove", "daemon-reload">>
                  ELSE <<"disable", "remove", "daemon-reload">>
             ELSE IF Up THEN <<"bootout", "remove">> ELSE <<"remove">>
      BY <1>1, <1>2, <1>4 DEF Answered, Halt
    <2> QED
      BY <1>4, <2>1 DEF Steps, Halt
  <1> QED
    BY <1>3, <1>4

\* What does not move does not change the unit or what a verb can have to do.
LEMMA SamePlatform ==
  ASSUME platform' = platform
  PROVE  /\ linux' = linux /\ darwin' = darwin /\ Halt' = Halt
         /\ \A name : Steps(name)' = Steps(name)
         /\ \A p, c : UnitOf(p, c)' = UnitOf(p, c)
  BY DEF linux, darwin, Halt, Steps, UnitOf, ReadWritePaths

LEMMA UnitIs ==
  ASSUME NEW p \in Path, NEW c \in Config
  PROVE  UnitOf(p, c) \in Unit
  <1> DEFINE g == ReadWritePaths(p, c)
             G == {{}} \cup {ReadWritePaths(q, d) : q \in Path, d \in Config}
             A == {FALSE} \cup {d.alias : d \in Config}
  <1>1. g \in G /\ {} \in G
    OBVIOUS
  <1>4. c.alias \in A /\ FALSE \in A
    BY Zenon
  <1>2. UnitOf(p, c) = IF linux THEN [path |-> p, grants |-> g, alias |-> c.alias]
                       ELSE [path |-> p, grants |-> {}, alias |-> FALSE]
    BY DEF UnitOf
  <1>3. Unit = [path : Path, grants : G, alias : A]
    BY DEF Unit
  <1> HIDE DEF g, G, A
  <1>5. [path |-> p, grants |-> g, alias |-> c.alias] \in Unit
    BY <1>1, <1>3, <1>4
  <1>6. [path |-> p, grants |-> {}, alias |-> FALSE] \in Unit
    BY <1>1, <1>3, <1>4
  <1> QED
    BY <1>2, <1>5, <1>6

\* The tool calls of a verb that ends the daemon, and what is left after each.
LEMMA EndingCalls ==
  ASSUME platform \in {"linux", "darwin"}, NEW name \in {"stop", "uninstall"},
         NEW s \in Steps(name), s # <<>>, Head(s) # "probe"
  PROVE  \/ Head(s) = Halt /\ name = "stop" /\ Tail(s) = <<>>
         \/ /\ name = "uninstall" /\ linux
            /\ \/ Head(s) = "stop" /\ Tail(s) = <<"disable", "remove", "daemon-reload">>
               \/ Head(s) = "disable" /\ Tail(s) = <<"remove", "daemon-reload">>
               \/ Head(s) = "remove" /\ Tail(s) = <<"daemon-reload">>
               \/ Head(s) = "daemon-reload" /\ Tail(s) = <<>>
         \/ /\ name = "uninstall" /\ ~linux
            /\ \/ Head(s) = "bootout" /\ Tail(s) = <<"remove">>
               \/ Head(s) = "remove" /\ Tail(s) = <<>>
  <1>1. CASE name = "stop"
    <2>1. Steps(name) = {<<"probe">>, <<Halt>>, <<>>}
      BY <1>1 DEF Steps
    <2>2. s = <<Halt>>
      <3>1. Head(<<"probe">>) = "probe"
        OBVIOUS
      <3> QED
        BY <2>1, <3>1, Zenon
    <2> QED
      BY <1>1, <2>2
  <1>2. CASE name = "uninstall" /\ linux
    <2>1. Steps(name) = {<<"probe">>, <<"stop", "disable", "remove", "daemon-reload">>,
                         <<"disable", "remove", "daemon-reload">>,
                         <<"remove", "daemon-reload">>, <<"daemon-reload">>, <<>>}
      BY <1>2 DEF Steps
    <2>2. /\ Head(<<"probe">>) = "probe"
          /\ Head(<<"stop", "disable", "remove", "daemon-reload">>) = "stop"
          /\ Tail(<<"stop", "disable", "remove", "daemon-reload">>)
                = <<"disable", "remove", "daemon-reload">>
          /\ Head(<<"disable", "remove", "daemon-reload">>) = "disable"
          /\ Tail(<<"disable", "remove", "daemon-reload">>) = <<"remove", "daemon-reload">>
          /\ Head(<<"remove", "daemon-reload">>) = "remove"
          /\ Tail(<<"remove", "daemon-reload">>) = <<"daemon-reload">>
          /\ Head(<<"daemon-reload">>) = "daemon-reload" /\ Tail(<<"daemon-reload">>) = <<>>
      OBVIOUS
    <2> QED
      BY <1>2, <2>1, <2>2, Zenon
  <1>3. CASE name = "uninstall" /\ ~linux
    <2>1. Steps(name) = {<<"probe">>, <<"bootout", "remove">>, <<"remove">>, <<>>}
      BY <1>3 DEF Steps
    <2>2. /\ Head(<<"probe">>) = "probe"
          /\ Head(<<"bootout", "remove">>) = "bootout"
          /\ Tail(<<"bootout", "remove">>) = <<"remove">>
          /\ Head(<<"remove">>) = "remove" /\ Tail(<<"remove">>) = <<>>
      OBVIOUS
    <2> QED
      BY <1>3, <2>1, <2>2, Zenon
  <1> QED
    BY <1>1, <1>2, <1>3

\* The tool calls of a verb that writes the unit.
LEMMA WritingCalls ==
  ASSUME platform \in {"linux", "darwin"}, NEW name \in Writing,
         NEW s \in Steps(name), s # <<>>
  PROVE  /\ Head(s) \in {"daemon-reload", "enable", "start", "restart"} => linux
         /\ Head(s) \in {"bootstrap", "bootout", "kickstart"} => ~linux
         /\ Head(s) \in {"probe", "daemon-reload", "enable", "start", "restart", "bootstrap",
                         "bootout", "kickstart"}
         /\ Tail(s) # <<>> => Head(Tail(s)) # "daemon-reload"
         /\ Head(s) = "probe" => name \in {"start", "restart"} /\ (name = "restart" => ~linux)
  <1>1. /\ Head(<<"probe">>) = "probe" /\ Tail(<<"probe">>) = <<>>
        /\ Head(<<"enable">>) = "enable" /\ Tail(<<"enable">>) = <<>>
        /\ Head(<<"start">>) = "start" /\ Tail(<<"start">>) = <<>>
        /\ Head(<<"restart">>) = "restart" /\ Tail(<<"restart">>) = <<>>
        /\ Head(<<"bootstrap">>) = "bootstrap" /\ Tail(<<"bootstrap">>) = <<>>
        /\ Head(<<"kickstart">>) = "kickstart" /\ Tail(<<"kickstart">>) = <<>>
    OBVIOUS
  <1>2. /\ Head(<<"daemon-reload", "enable">>) = "daemon-reload"
        /\ Tail(<<"daemon-reload", "enable">>) = <<"enable">>
        /\ Head(<<"daemon-reload", "probe">>) = "daemon-reload"
        /\ Tail(<<"daemon-reload", "probe">>) = <<"probe">>
        /\ Head(<<"daemon-reload", "restart">>) = "daemon-reload"
        /\ Tail(<<"daemon-reload", "restart">>) = <<"restart">>
        /\ Head(<<"bootout", "bootstrap">>) = "bootout"
        /\ Tail(<<"bootout", "bootstrap">>) = <<"bootstrap">>
    OBVIOUS
  <1> DEFINE Placed ==
         /\ Head(s) \in {"daemon-reload", "enable", "start", "restart"} => linux
         /\ Head(s) \in {"bootstrap", "bootout", "kickstart"} => ~linux
         /\ Head(s) \in {"probe", "daemon-reload", "enable", "start", "restart", "bootstrap",
                         "bootout", "kickstart"}
         /\ Tail(s) # <<>> => Head(Tail(s)) # "daemon-reload"
  <1>3. ASSUME linux PROVE Placed
    <2>1. \/ s = <<"daemon-reload", "enable">>
          \/ s = <<"enable">>
          \/ s = <<"daemon-reload", "probe">>
          \/ s = <<"probe">>
          \/ s = <<"start">>
          \/ s = <<"daemon-reload", "restart">>
          \/ s = <<"restart">>
      BY <1>3, Zenon DEF Steps, Writing
    <2>2. CASE s = <<"daemon-reload", "enable">>
      BY <1>2, <1>3, <2>2
    <2>3. CASE s = <<"enable">>
      BY <1>1, <1>3, <2>3
    <2>4. CASE s = <<"daemon-reload", "probe">>
      BY <1>2, <1>3, <2>4
    <2>5. CASE s = <<"probe">>
      BY <1>1, <1>3, <2>5
    <2>6. CASE s = <<"start">>
      BY <1>1, <1>3, <2>6
    <2>7. CASE s = <<"daemon-reload", "restart">>
      BY <1>2, <1>3, <2>7
    <2>8. CASE s = <<"restart">>
      BY <1>1, <1>3, <2>8
    <2> QED
      BY <2>1, <2>2, <2>3, <2>4, <2>5, <2>6, <2>7, <2>8
  <1>4. ASSUME ~linux PROVE Placed
    <2>1. \/ s = <<"probe">>
          \/ s = <<"bootstrap">>
          \/ s = <<"bootout", "bootstrap">>
          \/ s = <<"kickstart">>
      BY <1>4, Zenon DEF Steps, Writing
    <2>2. CASE s = <<"probe">>
      BY <1>1, <1>4, <2>2
    <2>3. CASE s = <<"bootstrap">>
      BY <1>1, <1>4, <2>3
    <2>4. CASE s = <<"bootout", "bootstrap">>
      BY <1>2, <1>4, <2>4
    <2>5. CASE s = <<"kickstart">>
      BY <1>1, <1>4, <2>5
    <2> QED
      BY <2>1, <2>2, <2>3, <2>4, <2>5
  <1>5. Head(s) = "probe" => name \in {"start", "restart"} /\ (name = "restart" => ~linux)
    <2>1. CASE name = "install"
      <3>1. s = <<"daemon-reload", "enable">> \/ s = <<"enable">>
        BY <2>1, Zenon DEF Steps
      <3> QED
        BY <1>1, <1>2, <3>1
    <2>2. CASE name = "restart" /\ linux
      <3>1. s = <<"daemon-reload", "restart">> \/ s = <<"restart">>
        BY <2>2, Zenon DEF Steps
      <3> QED
        BY <1>1, <1>2, <3>1
    <2> QED
      BY <2>1, <2>2 DEF Writing
  <1> QED
    BY <1>3, <1>4, <1>5

LEMMA InitService == ServiceInit => ServiceInv
  BY DEF ServiceInit, ServiceInv, ServiceTypes, OnDisk, IsRead, IsHeld, Halted, Halting

\* A verb is over.
LEMMA VerbEnds ==
  ASSUME ServiceInv, verb' = None, UNCHANGED <<platform, config, files, supervisor>>,
         trouble' = TRUE \/ (trouble' = trouble /\ ~Reloading)
  PROVE  ServiceInv'
  <1>1. linux' = linux /\ darwin' = darwin
    BY SamePlatform
  <1>2. UNCHANGED <<platform, config, unit, rotate, loaded, enabled, svc, proc>>
    BY DEF files, supervisor
  <1> QED
    BY <1>1, <1>2 DEF ServiceInv, ServiceTypes, OnDisk, IsRead, IsHeld, Halted, Halting, Reloading

\* The daemon moves, or the configuration does, while the verb waits.
LEMMA VerbWaits ==
  ASSUME ServiceInv, UNCHANGED <<platform, unit, rotate, loaded, enabled, verb, trouble>>,
         config' \in [Path -> Config \cup {Broken}], svc' \in {"stopped", "running", "waiting"},
         svc = "stopped" => svc' = "stopped",
         svc' = "running" => svc = "running" \/ loaded # None
  PROVE  ServiceInv'
  <1>1. /\ linux' = linux /\ darwin' = darwin /\ Halt' = Halt
        /\ \A name : Steps(name)' = Steps(name)
        /\ \A p, c : UnitOf(p, c)' = UnitOf(p, c)
    BY SamePlatform
  <1>2. ServiceTypes'
    BY <1>1 DEF ServiceInv, ServiceTypes
  <1>3. OnDisk'
    BY <1>1 DEF ServiceInv, OnDisk
  <1>4. IsRead'
    BY <1>1 DEF ServiceInv, IsRead, Reloading
  <1>5. IsHeld'
    BY <1>1 DEF ServiceInv, IsHeld
  <1>6. Halted'
    BY <1>1 DEF ServiceInv, Halted, Halting
  <1> QED
    BY <1>2, <1>3, <1>4, <1>5, <1>6 DEF ServiceInv

\* writeUnits.
LEMMA WritesStep ==
  ASSUME ServiceInv, NEW name \in Writing, NEW p \in Path, Writes(name, p),
         UNCHANGED <<platform, config, supervisor, trouble, budget>>,
         ~Reloading
  PROVE  ServiceInv'
  <1> DEFINE u == UnitOf(p, config[p])
             todo == Todo(name, Changed(u))
             w == [unit |-> u, config |-> config[p]]
             v == [name |-> name, todo |-> todo, changed |-> Changed(u), wrote |-> w,
                   path |-> p, sawWaiting |-> FALSE, failed |-> FALSE]
  <1>1. /\ linux' = linux /\ darwin' = darwin /\ Halt' = Halt
        /\ \A n : Steps(n)' = Steps(n)
        /\ \A q, c : UnitOf(q, c)' = UnitOf(q, c)
    BY SamePlatform
  <1>2. UNCHANGED <<platform, config, loaded, enabled, svc, trouble>>
    BY DEF supervisor
  <1>3. /\ platform \in {"linux", "darwin"} /\ config[p] \in Config /\ name \in Verbs
        /\ Changed(u) \in BOOLEAN
    BY DEF Writes, ServiceInv, ServiceTypes, Writing, Verbs, Changed
  <1>4. unit' = u /\ rotate' = darwin /\ verb' = v
    BY DEF Writes
  <1>5. /\ todo \in Steps(name) /\ todo \in Seq(Calls)
        /\ name = "install" /\ linux => todo = <<"daemon-reload", "enable">>
        /\ linux /\ Changed(u) => todo # <<>> /\ Head(todo) = "daemon-reload"
    BY <1>3, TodoIs, StepsAre
  <1>6. u \in Unit
    BY <1>3, UnitIs
  <1>7. v \in Verb
    <2>1. w \in {None} \cup [unit : Unit, config : Config]
      BY <1>3, <1>6
    <2> HIDE DEF u, todo, w
    <2> QED
      BY <1>3, <1>5, <2>1 DEF Verb, Calls
  <1>8. /\ v.name = name /\ v.todo = todo /\ v.wrote.unit = u /\ v.wrote.config = config[p]
        /\ v.path = p
    OBVIOUS
  <1> HIDE DEF u, todo, w, v
  <1>9. v # None
    BY <1>7, NoneAssumption
  <1>10. ServiceTypes'
    BY <1>1, <1>2, <1>3, <1>4, <1>5, <1>7, <1>8 DEF ServiceInv, ServiceTypes, darwin
  <1>11. OnDisk'
    BY <1>1, <1>4, <1>8 DEF OnDisk, u
  <1>12. IsRead'
    <2>1. CASE linux /\ Changed(u)
      BY <1>4, <1>5, <1>8, <1>9, <2>1 DEF IsRead, Reloading
    <2>2. CASE ~Changed(u)
      BY <1>1, <1>2, <1>4, <2>2 DEF IsRead, Changed, ServiceInv
    <2> QED
      BY <1>1, <2>1, <2>2 DEF IsRead
  <1>13. IsHeld'
    BY <1>1, <1>2 DEF IsHeld, ServiceInv
  <1>14. Halted'
    BY <1>4, <1>8 DEF Halted, Halting, Writing
  <1> QED
    BY <1>10, <1>11, <1>12, <1>13, <1>14 DEF ServiceInv

\* The record of a verb, with less to do.
LEMMA VerbAfter ==
  ASSUME ServiceTypes, ~Idle, NEW todo \in Steps(verb.name),
         NEW waiting \in BOOLEAN, NEW failed \in BOOLEAN,
         verb' = [verb EXCEPT !.todo = todo, !.sawWaiting = waiting, !.failed = failed]
  PROVE  /\ verb' \in Verb /\ verb' # None
         /\ verb'.name = verb.name /\ verb'.todo = todo /\ verb'.wrote = verb.wrote
         /\ verb'.path = verb.path /\ verb'.sawWaiting = waiting /\ verb'.failed = failed
  <1>1. verb \in Verb /\ verb.name \in Verbs /\ platform \in {"linux", "darwin"}
    BY DEF ServiceTypes, Idle, Verb
  <1>2. todo \in Seq(Calls)
    BY <1>1, StepsAre
  <1>3. verb' \in Verb
    BY <1>1, <1>2 DEF Verb, Calls
  <1>4. /\ verb'.name = verb.name /\ verb'.todo = todo /\ verb'.wrote = verb.wrote
        /\ verb'.path = verb.path /\ verb'.sawWaiting = waiting /\ verb'.failed = failed
    BY <1>1 DEF Verb
  <1> QED
    BY <1>3, <1>4, NoneAssumption

LEMMA BeginStep ==
  ASSUME ServiceInv, NEW name \in Verbs, NEW p \in Path, Begin(name, p)
  PROVE  ServiceInv'
  <1>0. /\ UNCHANGED <<platform, config, supervisor, trouble, budget>> /\ ~Reloading
        /\ platform \in {"linux", "darwin"}
    BY DEF Begin, Reloading, Idle, ServiceInv, ServiceTypes
  <1>1. CASE name \in Writing
    BY <1>0, <1>1, WritesStep DEF Begin
  <1>2. CASE name \notin Writing
    <2> DEFINE v == [name |-> name, todo |-> Todo(name, FALSE), changed |-> FALSE,
                     wrote |-> None, path |-> p, sawWaiting |-> FALSE, failed |-> FALSE]
    <2>1. verb' = v /\ UNCHANGED files /\ name \in {"stop", "uninstall"}
      BY <1>2 DEF Begin, Verbs, Writing
    <2>2. Todo(name, FALSE) = <<"probe">> /\ <<"probe">> \in Steps(name)
      BY <1>0, <2>1, TodoIs
    <2>3. v \in Verb /\ v.name = name /\ v.todo = <<"probe">>
      <3>1. <<"probe">> \in Seq(Calls)
        BY <1>0, <2>2, StepsAre
      <3> QED
        BY <2>2, <3>1 DEF Verb, Calls
    <2> HIDE DEF v
    <2>4. /\ linux' = linux /\ darwin' = darwin /\ Halt' = Halt
          /\ \A n : Steps(n)' = Steps(n)
      BY <1>0, SamePlatform
    <2>5. UNCHANGED <<platform, config, unit, rotate, loaded, enabled, svc, trouble>>
      BY <1>0, <2>1 DEF files, supervisor
    <2>6. ServiceTypes'
      BY <2>1, <2>2, <2>3, <2>4, <2>5 DEF ServiceInv, ServiceTypes
    <2>7. OnDisk'
      BY <1>2, <2>1, <2>3 DEF OnDisk
    <2>8. IsRead' /\ IsHeld'
      BY <1>0, <2>4, <2>5 DEF ServiceInv, IsRead, IsHeld
    <2>9. Halted'
      <3>1. /\ Head(<<"probe">>) = "probe" /\ <<"probe">> # <<>>
            /\ <<"probe">> # <<"daemon-reload">>
        OBVIOUS
      <3> QED
        BY <2>1, <2>3, <3>1 DEF Halted
    <2> QED
      BY <2>6, <2>7, <2>8, <2>9 DEF ServiceInv
  <1> QED
    BY <1>1, <1>2

LEMMA AgainStep ==
  ASSUME ServiceInv, Again
  PROVE  ServiceInv'
  <1>1. /\ verb \in Verb /\ verb.path \in Path /\ ~Reloading
        /\ UNCHANGED <<platform, config, supervisor, trouble, budget>>
    BY DEF ServiceInv, ServiceTypes, Again, Working, Idle, Verb, Reloading, Next1
  <1>2. CASE Writes("start", verb.path)
    BY <1>1, <1>2, WritesStep DEF Writing
  <1>3. CASE verb' = None /\ UNCHANGED files
    BY <1>1, <1>3, VerbEnds
  <1> QED
    BY <1>2, <1>3 DEF Again

LEMMA ProbeStep ==
  ASSUME ServiceInv, Probe
  PROVE  ServiceInv'
  <1> DEFINE todo == Answered(verb)
             waiting == (svc = "waiting")
  <1>1. /\ ServiceTypes /\ ~Idle /\ verb \in Verb /\ verb.name \in Verbs
        /\ platform \in {"linux", "darwin"} /\ verb.todo \in Steps(verb.name)
        /\ verb.todo # <<>> /\ Head(verb.todo) = "probe" /\ verb.failed \in BOOLEAN
    BY DEF ServiceInv, ServiceTypes, Probe, Working, Next1, Idle, Verb
  <1>2. /\ verb.name \in {"start", "restart", "stop", "uninstall"}
        /\ verb.name = "restart" => ~linux
    <2>1. CASE verb.name \in Writing
      BY <1>1, <2>1, WritingCalls
    <2> QED
      BY <1>1, <2>1 DEF Verbs, Writing
  <1>3. /\ todo \in Steps(verb.name)
        /\ verb.name \in {"stop", "uninstall"} =>
              /\ todo = <<>> \/ Head(todo) \notin {"probe", Halt} => ~Up
              /\ todo # <<>> => Head(todo) \notin {"daemon-reload"}
              /\ verb.name = "uninstall" =>
                    /\ todo # <<>>
                    /\ Head(todo) = "remove" => ~linux
                    /\ todo # <<"daemon-reload">>
    BY <1>1, <1>2, AnsweredIs
  <1>4. verb' = [verb EXCEPT !.todo = todo, !.sawWaiting = waiting, !.failed = verb.failed]
    BY <1>1 DEF Probe, Verb
  <1> HIDE DEF todo
  <1>5. /\ verb' \in Verb /\ verb' # None
        /\ verb'.name = verb.name /\ verb'.todo = todo /\ verb'.wrote = verb.wrote
        /\ verb'.path = verb.path /\ verb'.sawWaiting = waiting /\ verb'.failed = verb.failed
    BY <1>1, <1>3, <1>4, VerbAfter
  <1>6. /\ linux' = linux /\ darwin' = darwin /\ Halt' = Halt
        /\ \A n : Steps(n)' = Steps(n)
        /\ \A q, c : UnitOf(q, c)' = UnitOf(q, c)
    BY SamePlatform DEF Probe
  <1>7. UNCHANGED <<platform, config, unit, rotate, loaded, enabled, svc, trouble>>
    BY DEF Probe, files, supervisor
  <1>8. ServiceTypes'
    BY <1>3, <1>5, <1>6, <1>7 DEF ServiceInv, ServiceTypes
  <1>9. OnDisk'
    BY <1>1, <1>5, <1>6, <1>7 DEF ServiceInv, OnDisk, Idle
  <1>10. IsRead' /\ IsHeld'
    <2>1. ~Reloading
      BY <1>1 DEF Reloading
    <2> QED
      BY <1>6, <1>7, <2>1 DEF ServiceInv, IsRead, IsHeld
  <1>11. Halted'
    <2> SUFFICES ASSUME Halting(verb)', verb.name \in {"stop", "uninstall"}, svc # "waiting"
                 PROVE  /\ todo = <<>> \/ Head(todo) \notin {"probe", Halt} =>
                              svc = "stopped" /\ (darwin => loaded = None)
                        /\ verb.name = "uninstall" =>
                              /\ todo = <<>> \/ Head(todo) \in {"remove", "daemon-reload"} => ~enabled
                              /\ todo \in {<<"daemon-reload">>, <<>>} => unit = None /\ ~rotate
                              /\ todo = <<>> => loaded = None
      BY <1>5, <1>6, <1>7 DEF Halted, Halting
    <2>1. ~Up => svc = "stopped" /\ (darwin => loaded = None)
      BY <1>1 DEF ServiceInv, ServiceTypes, IsHeld, Up, linux, darwin
    <2>2. ~linux => ~enabled
      BY <1>1 DEF ServiceInv, IsHeld, linux, darwin
    <2> QED
      BY <1>3, <2>1, <2>2
  <1> QED
    BY <1>8, <1>9, <1>10, <1>11 DEF ServiceInv

\* One tool call of a verb that writes the unit.
LEMMA WritingTool ==
  ASSUME ServiceInv, Tool, verb.name \in Writing
  PROVE  ServiceInv'
  <1> DEFINE todo == Tail(verb.todo)
             tool == Head(verb.todo)
  <1>1. /\ ServiceTypes /\ ~Idle /\ verb \in Verb /\ verb.name \in Verbs
        /\ platform \in {"linux", "darwin"} /\ verb.todo \in Steps(verb.name)
        /\ verb.todo # <<>> /\ tool # "probe" /\ Does(tool)
        /\ verb.failed \in BOOLEAN /\ verb.sawWaiting \in BOOLEAN
    BY DEF ServiceInv, ServiceTypes, Tool, Working, Next1, Idle, Verb
  <1>2. /\ tool \in {"daemon-reload", "enable", "start", "restart"} => linux
        /\ tool \in {"bootstrap", "bootout", "kickstart"} => ~linux
        /\ tool \in {"probe", "daemon-reload", "enable", "start", "restart", "bootstrap",
                     "bootout", "kickstart"}
    BY <1>1, WritingCalls
  <1>3. todo \in Steps(verb.name)
    BY <1>1, StepsAre
  <1>4. verb' = [verb EXCEPT !.todo = todo, !.sawWaiting = verb.sawWaiting, !.failed = verb.failed]
    BY <1>1 DEF Tool, Verb
  <1> HIDE DEF todo, tool
  <1>5. /\ verb' \in Verb /\ verb' # None
        /\ verb'.name = verb.name /\ verb'.todo = todo /\ verb'.wrote = verb.wrote
        /\ verb'.path = verb.path
    BY <1>1, <1>3, <1>4, VerbAfter
  <1>6. /\ linux' = linux /\ darwin' = darwin /\ Halt' = Halt
        /\ \A n : Steps(n)' = Steps(n)
        /\ \A q, c : UnitOf(q, c)' = UnitOf(q, c)
    BY SamePlatform DEF Tool
  <1>7. \/ tool = "daemon-reload" /\ DaemonReload
        \/ tool = "enable" /\ Enable
        \/ tool = "start" /\ SystemctlStart
        \/ tool = "restart" /\ SystemctlRestart
        \/ tool = "bootstrap" /\ Bootstrap
        \/ tool = "bootout" /\ Bootout
        \/ tool = "kickstart" /\ Kickstart
    BY <1>1, <1>2 DEF Does
  <1>8. UNCHANGED <<platform, config, unit, rotate>>
    BY <1>7 DEF Tool, DaemonReload, Enable, SystemctlStart, SystemctlRestart, Bootstrap,
                Bootout, Kickstart, files
  <1>9. ServiceTypes'
    <2>1. trouble' \in BOOLEAN /\ enabled' \in BOOLEAN
      BY <1>1, <1>7 DEF ServiceTypes, DaemonReload, Enable, SystemctlStart, SystemctlRestart,
                        Bootstrap, Bootout, Kickstart
    <2>2. svc' \in {"stopped", "running", "waiting"}
      BY <1>1, <1>7 DEF ServiceTypes, DaemonReload, Enable, SystemctlStart, SystemctlRestart,
                        Bootstrap, Bootout, Kickstart, Run, Ends
    <2> QED
      BY <1>1, <1>3, <1>5, <1>6, <1>8, <2>1, <2>2 DEF ServiceTypes
  <1>10. OnDisk'
    BY <1>1, <1>5, <1>6, <1>8 DEF ServiceInv, OnDisk, Idle
  <1>11. IsRead'
    <2>1. CASE tool = "daemon-reload"
      BY <1>7, <1>8, <2>1 DEF IsRead, DaemonReload
    <2>2. CASE tool \in {"enable", "start", "restart"}
      <3>1. ~Reloading /\ trouble' = trouble
        BY <1>7, <2>2 DEF Reloading, tool, Enable, SystemctlStart, SystemctlRestart
      <3>2. loaded' = loaded \/ loaded' = Definition
        BY <1>7, <2>2 DEF Enable, SystemctlStart, SystemctlRestart
      <3> QED
        BY <1>6, <1>8, <3>1, <3>2 DEF ServiceInv, IsRead, Definition
    <2> QED
      BY <1>2, <1>6, <1>7, <2>1, <2>2 DEF IsRead
  <1>12. IsHeld'
    BY <1>1, <1>2, <1>6, <1>7 DEF ServiceInv, IsHeld, Bootstrap, Bootout, Kickstart, Run, Ends,
                                  linux, darwin
  <1>13. Halted'
    BY <1>5 DEF Halted, Halting, Writing
  <1> QED
    BY <1>9, <1>10, <1>11, <1>12, <1>13 DEF ServiceInv

\* One tool call of a verb that ends the daemon.
LEMMA EndingTool ==
  ASSUME ServiceInv, Tool, verb.name \in {"stop", "uninstall"}
  PROVE  ServiceInv'
  <1> DEFINE todo == Tail(verb.todo)
             tool == Head(verb.todo)
  <1>1. /\ ServiceTypes /\ ~Idle /\ verb \in Verb /\ verb.name \in Verbs
        /\ platform \in {"linux", "darwin"} /\ verb.todo \in Steps(verb.name)
        /\ verb.todo # <<>> /\ tool # "probe" /\ Does(tool)
        /\ verb.failed \in BOOLEAN /\ verb.sawWaiting \in BOOLEAN
    BY DEF ServiceInv, ServiceTypes, Tool, Working, Next1, Idle, Verb
  <1>2. \/ tool = Halt /\ verb.name = "stop" /\ todo = <<>>
        \/ /\ verb.name = "uninstall" /\ linux
           /\ \/ tool = "stop" /\ todo = <<"disable", "remove", "daemon-reload">>
              \/ tool = "disable" /\ todo = <<"remove", "daemon-reload">>
              \/ tool = "remove" /\ todo = <<"daemon-reload">>
              \/ tool = "daemon-reload" /\ todo = <<>>
        \/ /\ verb.name = "uninstall" /\ ~linux
           /\ \/ tool = "bootout" /\ todo = <<"remove">>
              \/ tool = "remove" /\ todo = <<>>
    BY <1>1, EndingCalls
  <1>3. todo \in Steps(verb.name)
    BY <1>1, StepsAre
  <1>4. verb' = [verb EXCEPT !.todo = todo, !.sawWaiting = verb.sawWaiting, !.failed = verb.failed]
    BY <1>1 DEF Tool, Verb
  <1>14. Halting(verb) /\ tool \notin {"probe", Halt} => svc = "stopped" /\ (darwin => loaded = None)
    BY <1>1 DEF ServiceInv, Halted
  <1>15. Halting(verb) /\ verb.name = "uninstall" =>
            /\ tool \in {"remove", "daemon-reload"} => ~enabled
            /\ verb.todo = <<"daemon-reload">> => unit = None /\ ~rotate
    BY <1>1 DEF ServiceInv, Halted
  <1>16. verb.name = "uninstall" /\ tool = "daemon-reload" => verb.todo = <<"daemon-reload">>
    <2>1. /\ Head(<<"probe">>) = "probe"
          /\ Head(<<"stop", "disable", "remove", "daemon-reload">>) = "stop"
          /\ Head(<<"disable", "remove", "daemon-reload">>) = "disable"
          /\ Head(<<"remove", "daemon-reload">>) = "remove"
          /\ Head(<<"bootout", "remove">>) = "bootout"
          /\ Head(<<"remove">>) = "remove"
      OBVIOUS
    <2>2. verb.name = "uninstall" =>
            verb.todo \in {<<"probe">>, <<"stop", "disable", "remove", "daemon-reload">>,
                           <<"disable", "remove", "daemon-reload">>, <<"remove", "daemon-reload">>,
                           <<"daemon-reload">>, <<"bootout", "remove">>, <<"remove">>}
      BY <1>1, Zenon DEF Steps
    <2> QED
      BY <2>1, <2>2, Zenon
  <1> HIDE DEF todo, tool
  <1>5. /\ verb' \in Verb /\ verb' # None
        /\ verb'.name = verb.name /\ verb'.todo = todo /\ verb'.wrote = verb.wrote
        /\ verb'.path = verb.path /\ verb'.sawWaiting = verb.sawWaiting
        /\ verb'.failed = verb.failed
    BY <1>1, <1>3, <1>4, VerbAfter
  <1>6. /\ linux' = linux /\ darwin' = darwin /\ Halt' = Halt
        /\ \A n : Steps(n)' = Steps(n)
    BY SamePlatform DEF Tool
  <1>7. \/ tool = "daemon-reload" /\ DaemonReload
        \/ tool = "disable" /\ Disable
        \/ tool = "stop" /\ SystemctlStop
        \/ tool = "bootout" /\ Bootout
        \/ tool = "remove" /\ RemoveFiles
    BY <1>1, <1>2 DEF Does, Halt
  <1>8. UNCHANGED <<platform, config>>
    BY DEF Tool
  <1>9. ServiceTypes'
    <2>1. trouble' \in BOOLEAN /\ enabled' \in BOOLEAN /\ rotate' \in BOOLEAN
      BY <1>1, <1>7 DEF ServiceTypes, DaemonReload, Disable, SystemctlStop, Bootout, RemoveFiles,
                        files, supervisor
    <2>2. svc' \in {"stopped", "running", "waiting"}
      BY <1>1, <1>7 DEF ServiceTypes, DaemonReload, Disable, SystemctlStop, Bootout, RemoveFiles,
                        files, supervisor, Ends
    <2> QED
      BY <1>1, <1>3, <1>5, <1>6, <1>8, <2>1, <2>2 DEF ServiceTypes
  <1>10. OnDisk'
    BY <1>5 DEF OnDisk, Writing
  <1>11. IsRead'
    <2>1. CASE tool = "daemon-reload"
      BY <1>7, <2>1 DEF IsRead, DaemonReload, files
    <2>2. CASE tool = "remove"
      <3>1. linux => todo = <<"daemon-reload">>
        BY <1>2, <2>2 DEF Halt
      <3>2. <<"daemon-reload">> # <<>> /\ Head(<<"daemon-reload">>) = "daemon-reload"
        OBVIOUS
      <3> QED
        BY <1>5, <1>6, <3>1, <3>2 DEF IsRead, Reloading
    <2>3. CASE tool \in {"disable", "stop", "bootout"}
      <3>1. ~Reloading /\ trouble' = trouble /\ unit' = unit
        BY <1>7, <2>3 DEF Reloading, tool, Disable, SystemctlStop, Bootout, files
      <3>2. loaded' = loaded \/ loaded' = None
        BY <1>7, <2>3 DEF Disable, SystemctlStop, Bootout
      <3> QED
        BY <1>6, <3>1, <3>2 DEF ServiceInv, IsRead
    <2> QED
      BY <1>7, <2>1, <2>2, <2>3
  <1>12. IsHeld'
    BY <1>1, <1>2, <1>6, <1>7 DEF ServiceInv, IsHeld, Bootout, RemoveFiles, Ends, supervisor,
                                  Halt, linux, darwin
  <1>13. Halted'
    <2>0. Halting(verb)' => Halting(verb)
      BY <1>1, <1>5 DEF Halting, Idle
    <2>1. CASE tool = Halt
      <3>1. svc' = "stopped" /\ (darwin => loaded' = None)
        BY <1>1, <1>7, <2>1 DEF Halt, SystemctlStop, Bootout, Ends, linux, darwin
      <3>2. verb.name = "uninstall" =>
               /\ todo = <<"disable", "remove", "daemon-reload">> \/ todo = <<"remove">>
               /\ linux \/ ~enabled'
        <4>1. ~linux => ~enabled'
          BY <1>1, <1>7, <2>1 DEF ServiceInv, IsHeld, Halt, Bootout, linux, darwin
        <4> QED
          BY <1>2, <2>1, <4>1 DEF Halt
      <3>3. /\ Head(<<"disable", "remove", "daemon-reload">>) = "disable"
            /\ <<"disable", "remove", "daemon-reload">> # <<>>
            /\ <<"disable", "remove", "daemon-reload">> # <<"daemon-reload">>
            /\ <<"remove">> # <<>> /\ <<"remove">> # <<"daemon-reload">>
        OBVIOUS
      <3>4. verb.name = "uninstall" /\ todo = <<"remove">> => ~linux
        <4>1. <<"remove">> # <<"disable", "remove", "daemon-reload">>
          OBVIOUS
        <4> QED
          BY <1>2, <2>1, <4>1 DEF Halt
      <3> QED
        BY <1>5, <1>6, <3>1, <3>2, <3>3, <3>4 DEF Halted
    <2>2. CASE tool = "disable"
      <3>1. /\ verb.name = "uninstall" /\ todo = <<"remove", "daemon-reload">>
            /\ enabled' = FALSE /\ UNCHANGED <<svc, loaded>>
        BY <1>2, <1>7, <2>2 DEF Halt, Disable
      <3>2. /\ <<"remove", "daemon-reload">> # <<>>
            /\ <<"remove", "daemon-reload">> # <<"daemon-reload">>
        OBVIOUS
      <3> QED
        BY <1>5, <1>6, <1>14, <2>0, <2>2, <3>1, <3>2 DEF Halted, Halt
    <2>3. CASE tool = "remove"
      <3>1. /\ verb.name = "uninstall" /\ UNCHANGED <<svc, loaded, enabled>>
            /\ unit' = None /\ rotate' = FALSE
            /\ todo = <<>> => ~linux
        <4>1. <<"daemon-reload">> # <<>>
          OBVIOUS
        <4> QED
          BY <1>2, <1>7, <2>3, <4>1 DEF Halt, RemoveFiles, supervisor
      <3>2. ~linux => darwin
        BY <1>1 DEF linux, darwin
      <3> QED
        BY <1>5, <1>6, <1>14, <1>15, <2>0, <2>3, <3>1, <3>2 DEF Halted, Halt
    <2>4. CASE tool = "daemon-reload"
      <3>1. /\ verb.name = "uninstall" /\ linux /\ UNCHANGED <<svc, enabled, unit, rotate>>
            /\ loaded' = unit
        BY <1>2, <1>7, <2>4 DEF Halt, DaemonReload, files
      <3> QED
        BY <1>5, <1>6, <1>14, <1>15, <1>16, <2>0, <2>4, <3>1 DEF Halted, Halt
    <2> QED
      BY <1>2, <1>7, <2>1, <2>2, <2>3, <2>4 DEF Halt
  <1> QED
    BY <1>9, <1>10, <1>11, <1>12, <1>13 DEF ServiceInv

LEMMA ToolFailsStep ==
  ASSUME ServiceInv, ToolFails
  PROVE  ServiceInv'
  <1>1. /\ ServiceTypes /\ ~Idle /\ verb \in Verb /\ verb.todo \in Steps(verb.name)
        /\ platform \in {"linux", "darwin"} /\ verb.todo # <<>> /\ verb.sawWaiting \in BOOLEAN
        /\ UNCHANGED <<platform, config, files, supervisor>> /\ trouble' = TRUE
    BY DEF ServiceInv, ServiceTypes, ToolFails, Working, Idle, Verb
  <1>2. CASE verb' = None
    BY <1>1, <1>2, VerbEnds
  <1>3. CASE verb' = [verb EXCEPT !.todo = Tail(@), !.failed = TRUE]
    <2> DEFINE todo == Tail(verb.todo)
    <2>1. verb.name \in Verbs
      BY <1>1 DEF Verb
    <2>2. todo \in Steps(verb.name)
      BY <1>1, <2>1, StepsAre
    <2>3. verb' = [verb EXCEPT !.todo = todo, !.sawWaiting = verb.sawWaiting, !.failed = TRUE]
      BY <1>1, <1>3 DEF Verb
    <2> HIDE DEF todo
    <2>4. /\ verb' \in Verb /\ verb'.name = verb.name /\ verb'.todo = todo
          /\ verb'.wrote = verb.wrote /\ verb'.path = verb.path /\ verb'.failed = TRUE
      BY <1>1, <2>2, <2>3, VerbAfter
    <2>5. /\ linux' = linux /\ darwin' = darwin
          /\ \A n : Steps(n)' = Steps(n)
          /\ \A q, c : UnitOf(q, c)' = UnitOf(q, c)
      BY <1>1, SamePlatform
    <2>6. UNCHANGED <<config, unit, rotate, loaded, enabled, svc>>
      BY <1>1 DEF files, supervisor
    <2>7. ServiceTypes'
      BY <1>1, <2>2, <2>4, <2>5, <2>6 DEF ServiceTypes
    <2>8. OnDisk'
      BY <1>1, <2>4, <2>5, <2>6 DEF ServiceInv, OnDisk, Idle
    <2>9. IsRead' /\ IsHeld' /\ Halted'
      BY <1>1, <2>4, <2>5, <2>6 DEF ServiceInv, IsRead, IsHeld, Halted, Halting
    <2> QED
      BY <2>7, <2>8, <2>9 DEF ServiceInv
  <1> QED
    BY <1>2, <1>3 DEF ToolFails

LEMMA EditStep ==
  ASSUME ServiceInv, NEW p \in Path, NEW c \in Config \cup {Broken}, Edit(p, c)
  PROVE  ServiceInv'
  <1>1. config' \in [Path -> Config \cup {Broken}]
    BY DEF Edit, ServiceInv, ServiceTypes
  <1>2. /\ UNCHANGED <<platform, unit, rotate, loaded, enabled, verb, trouble>>
        /\ svc' = svc /\ svc \in {"stopped", "running", "waiting"}
    BY DEF Edit, files, supervisor, ServiceInv, ServiceTypes
  <1> QED
    BY <1>1, <1>2, VerbWaits

LEMMA DaemonStep ==
  ASSUME ServiceInv, Crash \/ Exit \/ ComesBack
  PROVE  ServiceInv'
  <1>1. /\ UNCHANGED <<platform, config, unit, rotate, loaded, enabled, verb, trouble>>
        /\ config \in [Path -> Config \cup {Broken}]
    BY DEF Crash, Exit, ComesBack, files, ServiceInv, ServiceTypes
  <1>2. /\ svc' \in {"stopped", "running", "waiting"} /\ svc # "stopped"
        /\ svc' = "running" => loaded # None
    BY DEF Crash, Exit, ComesBack, Run, Ends
  <1> QED
    BY <1>1, <1>2, VerbWaits

LEMMA RebootStep ==
  ASSUME ServiceInv, Reboot
  PROVE  ServiceInv'
  <1>1. /\ verb' = None /\ trouble' = FALSE /\ loaded' = unit
        /\ UNCHANGED <<platform, config, unit, rotate, enabled>>
        /\ svc' \in {"stopped", "running"} /\ (svc' = "running" => loaded' # None)
    BY DEF Reboot, files, Run, Ends
  <1>2. linux' = linux /\ darwin' = darwin
    BY <1>1, SamePlatform
  <1> QED
    BY <1>1, <1>2 DEF ServiceInv, ServiceTypes, OnDisk, IsRead, IsHeld, Halted, Halting

LEMMA NextService == ServiceInv /\ [ServiceNext]_serviceVars => ServiceInv'
  <1> SUFFICES ASSUME ServiceInv, [ServiceNext]_serviceVars PROVE ServiceInv'
    OBVIOUS
  <1>1. ASSUME NEW name \in Verbs, NEW p \in Path, Begin(name, p) PROVE ServiceInv'
    BY <1>1, BeginStep
  <1>2. CASE Again \/ Probe
    BY <1>2, AgainStep, ProbeStep
  <1>3. CASE Tool
    <2>1. verb.name \in Writing \/ verb.name \in {"stop", "uninstall"}
      BY <1>3 DEF Tool, Working, Idle, ServiceInv, ServiceTypes, Verb, Verbs, Writing
    <2> QED
      BY <1>3, <2>1, WritingTool, EndingTool
  <1>4. CASE ToolFails
    BY <1>4, ToolFailsStep
  <1>5. CASE Finish \/ Interrupt
    <2>1. /\ verb' = None /\ UNCHANGED <<platform, config, files, supervisor>>
          /\ trouble' = TRUE \/ (trouble' = trouble /\ ~Reloading)
      BY <1>5 DEF Finish, Interrupt, Reloading
    <2> QED
      BY <2>1, VerbEnds
  <1>6. ASSUME NEW p \in Path, NEW c \in Config \cup {Broken}, Edit(p, c) PROVE ServiceInv'
    BY <1>6, EditStep
  <1>7. CASE Crash \/ Exit \/ ComesBack
    BY <1>7, DaemonStep
  <1>8. CASE Reboot
    BY <1>8, RebootStep
  <1>9. CASE UNCHANGED serviceVars
    BY <1>9, VerbWaits DEF serviceVars, ServiceInv, ServiceTypes
  <1> QED
    BY <1>1, <1>2, <1>3, <1>4, <1>5, <1>6, <1>7, <1>8, <1>9 DEF ServiceNext

LEMMA StepStarts ==
  ASSUME ServiceInv, Starting, ~trouble, proc' # proc
  PROVE  /\ proc'.unit = verb.wrote.unit
         /\ (linux /\ proc'.config = verb.wrote.config) =>
               Needs(verb.path, proc'.config) \subseteq proc'.unit.grants
  <1> DEFINE tool == Head(verb.todo)
  <1>1. /\ ServiceTypes /\ ~Idle /\ verb \in Verb /\ verb.name \in Verbs
        /\ platform \in {"linux", "darwin"} /\ verb.todo \in Steps(verb.name)
        /\ verb.todo # <<>> /\ tool \in {"start", "restart", "bootstrap"} /\ Does(tool)
    BY DEF ServiceInv, ServiceTypes, Starting, Tool, Working, Next1, Idle, Verb
  <1>2. verb.name \in Writing
    <2>1. CASE verb.name \in {"stop", "uninstall"}
      <3>1. tool # "probe"
        BY <1>1
      <3>2. tool \in {"stop", "bootout", "disable", "remove", "daemon-reload"}
        BY <1>1, <2>1, <3>1, EndingCalls DEF Halt
      <3> QED
        BY <1>1, <3>2
    <2> QED
      BY <1>1, <2>1 DEF Verbs, Writing
  <1>3. verb.wrote.unit = UnitOf(verb.path, verb.wrote.config) /\ unit = verb.wrote.unit
    BY <1>1, <1>2 DEF ServiceInv, OnDisk, Idle
  <1>4. tool \in {"start", "restart"} => linux /\ loaded \in {None, unit}
    <2>1. ~Reloading
      BY <1>1 DEF Reloading
    <2> QED
      BY <1>1, <1>2, <2>1, WritingCalls DEF ServiceInv, IsRead
  <1>5. proc'.unit = unit
    <2>1. proc' = [unit |-> unit, config |-> config[unit.path]]
      BY <1>1, <1>4 DEF Does, SystemctlStart, SystemctlRestart, Bootstrap, Run, Definition
    <2> QED
      BY <2>1
  <1>6. linux => unit.grants = ReadWritePaths(verb.path, verb.wrote.config)
    BY <1>3 DEF UnitOf
  <1>7. Needs(verb.path, verb.wrote.config) \subseteq ReadWritePaths(verb.path, verb.wrote.config)
    BY DEF Needs, ReadWritePaths
  <1> QED
    BY <1>3, <1>5, <1>6, <1>7

\* Whatever is edited, crashes or restarts between the tool calls of a verb, a
\* daemon it starts runs under the unit the verb has just derived, and the
\* sandbox of that unit covers all that the configuration it was derived from
\* lets the daemon write.
THEOREM StartedUnderItsUnit == ServiceSpec => StartsUnderWritten
  <1>1. ServiceSpec => []ServiceInv
    BY InitService, NextService, PTL DEF ServiceSpec
  <1>2. ServiceInv /\ [ServiceNext]_serviceVars =>
           [Starting /\ ~trouble /\ proc' # proc =>
              /\ proc'.unit = verb.wrote.unit
              /\ (linux /\ proc'.config = verb.wrote.config) =>
                    Needs(verb.path, proc'.config) \subseteq proc'.unit.grants]_serviceVars
    BY StepStarts
  <1> QED
    BY <1>1, <1>2, PTL DEF ServiceSpec, StartsUnderWritten

LEMMA StepFinishes ==
  ASSUME ServiceInv, Finish, verb.name \in {"stop", "uninstall"}, ~verb.sawWaiting, ~verb.failed
  PROVE  /\ svc = "stopped"
         /\ (verb.name = "uninstall") =>
               unit = None /\ ~rotate /\ ~enabled /\ loaded = None
  <1>1. Halting(verb) /\ verb.todo = <<>>
    BY DEF Finish, Halting, Idle
  <1> QED
    BY <1>1 DEF ServiceInv, Halted

\* A stop or an uninstall that ends well leaves no daemon, and an uninstall
\* nothing at all: no crash, automatic restart, exit or edit between its tool
\* calls brings the daemon, its unit or its place at boot back.
THEOREM NothingLeftBehind == ServiceSpec => HaltsForGood
  <1>1. ServiceSpec => []ServiceInv
    BY InitService, NextService, PTL DEF ServiceSpec
  <1>2. ServiceInv /\ [ServiceNext]_serviceVars =>
           [Finish /\ verb.name \in {"stop", "uninstall"} /\ ~verb.sawWaiting /\ ~verb.failed =>
              /\ svc = "stopped"
              /\ (verb.name = "uninstall") =>
                    unit = None /\ ~rotate /\ ~enabled /\ loaded = None]_serviceVars
    BY StepFinishes
  <1> QED
    BY <1>1, <1>2, PTL DEF ServiceSpec, HaltsForGood
=============================================================================
