------------------------------ MODULE Discovery ------------------------------
(***************************************************************************)
(* The discovery file ~/.keld/agent.json (internal/agent/agentcfg) and the *)
(* daemons that write it when they start (internal/agent/daemon/daemon.go, *)
(* Run).  A daemon is known by the number of its life: every life draws a  *)
(* new secret, while the port may be one that a former life had.  Nothing  *)
(* keeps a second daemon from being started beside the first, and nothing  *)
(* removes the file.                                                       *)
(***************************************************************************)
EXTENDS Integers

CONSTANTS Ports,
          MaxDaemons   (* bound: daemons started                           *)

Daemons == 1 .. MaxDaemons
NoFile == 0
Torn == -1

VARIABLES
  state,      (* of each daemon: none, listening, writing, serving, gone   *)
  portOf,
  agentJson,  (* no file, torn, or the daemon whose port and secret it has *)
  sole        (* history: the daemon that has had no other beside it since *)
              (* it started, 0 if there is none                            *)

discoveryVars == <<state, portOf, agentJson, sole>>

Up(n) == state[n] \in {"listening", "writing", "serving"}
-----------------------------------------------------------------------------
DiscoveryInit ==
  /\ state = [n \in Daemons |-> "none"]
  /\ portOf \in [Daemons -> Ports]
  /\ agentJson = NoFile
  /\ sole = 0

(* net.Listen on port 0: any port that is free. *)
Listen(n) ==
  /\ state[n] = "none"
  /\ n > 1 => state[n - 1] # "none"
  /\ \A m \in Daemons : Up(m) => portOf[m] # portOf[n]
  /\ state' = [state EXCEPT ![n] = "listening"]
  /\ sole' = IF \E m \in Daemons : Up(m) THEN 0 ELSE n
  /\ UNCHANGED <<portOf, agentJson>>

(* agentcfg.Write: os.WriteFile truncates the file and fills it.           *)
TruncateAgent(n) ==
  /\ state[n] = "listening"
  /\ state' = [state EXCEPT ![n] = "writing"]
  /\ agentJson' = Torn
  /\ UNCHANGED <<portOf, sole>>

(* What another daemon wrote since this one truncated the file is written  *)
(* over; of a longer text the end stays.  From here on the daemon serves:  *)
(* connections made earlier wait in the backlog of the listener.           *)
FillAgentIfNew(n) ==
  /\ state[n] = "listening"
  /\ state' = [state EXCEPT ![n] = "serving"]
  /\ agentJson' = IF agentJson = NoFile THEN n ELSE agentJson
  /\ UNCHANGED <<portOf, sole>>

FillAgent(n) ==
  /\ state[n] = "writing"
  /\ state' = [state EXCEPT ![n] = "serving"]
  /\ agentJson' \in IF agentJson = Torn THEN {n} ELSE {n, Torn}
  /\ UNCHANGED <<portOf, sole>>

(* The daemon ends: a write failed, or it was stopped or killed.           *)
Exit(n) ==
  /\ Up(n)
  /\ state' = [state EXCEPT ![n] = "gone"]
  /\ sole' = IF sole = n THEN 0 ELSE sole
  /\ UNCHANGED <<portOf, agentJson>>

(* Starts and ends, which decide who answers at a port.                    *)
DaemonComesOrGoes == \E n \in Daemons : Listen(n) \/ Exit(n)
DaemonWrites == \E n \in Daemons : TruncateAgent(n) \/ FillAgent(n)

(* The ingress handler of daemon m takes a pointer sent with the secret of *)
(* daemon n.                                                               *)
SecretMatches(m, n) == m = n

(* The daemon that answers at the port of daemon n, if any. *)
AnswersFor(n) == {m \in Daemons : state[m] = "serving" /\ portOf[m] = portOf[n]}
Takes(n) == {m \in AnswersFor(n) : SecretMatches(m, n)}
-----------------------------------------------------------------------------
DiscoveryTypeOK ==
  /\ state \in [Daemons -> {"none", "listening", "writing", "serving", "gone"}]
  /\ portOf \in [Daemons -> Ports]
  /\ agentJson \in Daemons \cup {NoFile, Torn}
  /\ sole \in Daemons \cup {0}
=============================================================================
