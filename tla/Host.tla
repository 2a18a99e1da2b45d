-------------------------------- MODULE Host --------------------------------
(***************************************************************************)
(* What happens on a host before any backup runs: the configuration is     *)
(* read and merged from its files (Jsonc, Include), a service verb derives *)
(* the unit from it and the supervisor runs the daemon (Service), and the  *)
(* preflight of the daemon and of any other command readies the            *)
(* shared agent (Agent).  Each hands the next one a value, or nothing, and *)
(* shares no other state with it, so that a behaviour is about one of them *)
(* and the others do not move.                                             *)
(***************************************************************************)
EXTENDS Service, Agent, Jsonc, Include

CONSTANTS Drafts, Inclusions

VARIABLES
    part,       \* what the behaviour is about
    text,       \* a configuration file's text
    document,   \* document[f]: what the file f holds
    include     \* include[f]: the files it includes

fileVars == <<text, document, include>>
hostVars == <<part, serviceVars, agentVars, fileVars>>

Documents == {d \in [File -> UNION {DocumentsOf(f) : f \in File}] :
                 \A f \in File : d[f] \in DocumentsOf(f)}

\* A part that does not move starts in one of its initial states.
ServiceRests == platform = "linux" /\ \A p \in Path : config[p] = CHOOSE c \in Config : TRUE
AgentRests ==
    /\ \A k \in Key : key[k] = [encrypted |-> FALSE, passphrase |-> "none"]
    /\ ~cgroup /\ ~hosts /\ alive = {} /\ sock = 0 /\ pub = {}

HostInit ==
    /\ part \in {"text", "include", "service", "agent"}
    /\ ServiceInit /\ (part = "service" \/ ServiceRests)
    /\ AgentInit /\ (part = "agent" \/ AgentRests)
    /\ IF part = "text" THEN \E d \in Drafts : text \in Slips(d) ELSE text = <<>>
    /\ IF part = "include" THEN document \in Documents ELSE document = [f \in File |-> Absent]
    /\ IF part = "include" THEN include \in Inclusions ELSE include = [f \in File |-> <<>>]

HostNext ==
    \/ part = "service" /\ ServiceNext /\ UNCHANGED <<part, agentVars, fileVars>>
    \/ part = "agent" /\ AgentNext /\ UNCHANGED <<part, serviceVars, fileVars>>

HostSpec == HostInit /\ [][HostNext]_hostVars

-----------------------------------------------------------------------------
\* The parser of configuration files accepts a text exactly when it is JSON
\* with comments, trailing commas, no duplicate key and no deep nesting.
TextIsRead == part = "text" => ReadsTheGrammar(text)

\* A configuration of several files loads exactly when every inclusion can be
\* followed, and a later file wins over an earlier one (module Include).
FilesAreMerged == part = "include" => LoadsAsPromised(document, include)
=============================================================================
