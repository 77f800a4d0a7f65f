------------------------------ MODULE Pairing ------------------------------
(***************************************************************************)
(* The device credential: how the agent obtains its API key by pairing     *)
(* (internal/pairing, runAgent), loses it when the server revokes it       *)
(* (handleCredentialRevoked), and shares the key file with the             *)
(* pairing-code command, which may run at any time beside it.              *)
(*                                                                         *)
(* The server and the person who types the code in are external: a code is *)
(* requested, then confirmed or expired; a confirmed pairing carries a new *)
(* key in an envelope that crypto.Open rejects when it is older than       *)
(* MaxEnvelopeAge; a key is valid until it is revoked or replaced.         *)
(***************************************************************************)
EXTENDS Integers

CONSTANTS
    MaxKeys,          \* bound: keys the server issues
    MaxCli,           \* bound: runs of pairing-code
    MaxFaults         \* bound: crashes, failed requests and writes, delays

ASSUME PairingConstants == MaxKeys \in Nat /\ MaxCli \in Nat /\ MaxFaults \in Nat

NoKey == 0

VARIABLES
    keyFile,          \* the api key file (NoKey: missing or empty)
    agent,            \* where runAgent is
    apiKey,           \* the key the agent holds in memory
    cli, cliKey,      \* the same for pairing-code
    status,           \* server: the pairing record of the node
    envelope,         \* server: is the envelope of a confirmed pairing fresh?
    validKey,         \* server: the key it accepts
    issued,           \* server: keys issued so far
    cliRuns, faults

serverVars == <<status, envelope, validKey, issued>>
agentVars == <<agent, apiKey>>
cliVars == <<cli, cliKey, cliRuns>>
vars == <<keyFile, agentVars, cliVars, serverVars, faults>>

-----------------------------------------------------------------------------
Init ==
    /\ keyFile = NoKey
    /\ agent = "down" /\ apiKey = NoKey
    /\ cli = "idle" /\ cliKey = NoKey /\ cliRuns = 0
    /\ status = "none" /\ envelope = "fresh"
    /\ validKey = NoKey /\ issued = 0
    /\ faults = 0

Fault == faults < MaxFaults /\ faults' = faults + 1

-----------------------------------------------------------------------------
(* The server and its user (external) *)

(* The code is typed in: a new key replaces the old one.                   *)
Confirm ==
    /\ status = "pending" /\ issued < MaxKeys
    /\ status' = "paired" /\ envelope' = "fresh"
    /\ issued' = issued + 1 /\ validKey' = issued + 1
    /\ UNCHANGED <<keyFile, agentVars, cliVars, faults>>

Expire ==
    /\ status = "pending" /\ Fault
    /\ status' = "expired"
    /\ UNCHANGED <<keyFile, agentVars, cliVars, envelope, validKey, issued>>

(* The envelope is not fetched for MaxEnvelopeAge, or the clocks differ.   *)
EnvelopeAges ==
    /\ status = "paired" /\ envelope = "fresh" /\ Fault
    /\ envelope' = "old"
    /\ UNCHANGED <<keyFile, agentVars, cliVars, status, validKey, issued>>

(* The device is unbound. *)
Revoke ==
    /\ validKey # NoKey /\ issued < MaxKeys
    /\ validKey' = NoKey /\ status' = "none"
    /\ UNCHANGED <<keyFile, agentVars, cliVars, envelope, issued, faults>>

-----------------------------------------------------------------------------
(* runAgent *)

AgentGoto(l) == agent' = l /\ UNCHANGED apiKey

(* Mutant: a missing key file is not told from a stored key.               *)
Start_Unpaired ==
    /\ agent = "down"
    /\ apiKey' = keyFile
    /\ agent' = "serving"
    /\ UNCHANGED <<keyFile, cliVars, serverVars, faults>>

(* launchd starts the agent, and again after every exit with an error.     *)
Start ==
    /\ agent = "down"
    /\ apiKey' = keyFile
    /\ agent' = IF keyFile = NoKey THEN "request" ELSE "serving"
    /\ UNCHANGED <<keyFile, cliVars, serverVars, faults>>

(* The error of LoadAPIKey is dropped: a key that cannot be read counts as *)
(* none.                                                                   *)
ReadFails ==
    /\ agent = "down" /\ Fault
    /\ agent' = "request" /\ apiKey' = NoKey
    /\ UNCHANGED <<keyFile, cliVars, serverVars>>

(* RequestPairingCode; the server starts a new pairing.                    *)
Request ==
    /\ agent = "request"
    /\ AgentGoto("poll")
    /\ status' = "pending"
    /\ UNCHANGED <<keyFile, cliVars, envelope, validKey, issued, faults>>

(* crypto.Open accepts the envelope. *)
Opens == envelope = "fresh"

(* One poll of RunPairing; "pending", and any other answer, polls on.      *)
PollPaired ==
    /\ agent = "poll" /\ status = "paired"
    /\ IF Opens
       THEN agent' = "store" /\ apiKey' = validKey
       ELSE AgentGoto("down")
    /\ UNCHANGED <<keyFile, cliVars, serverVars, faults>>

PollExpired ==
    /\ agent = "poll" /\ status = "expired"
    /\ AgentGoto("request")
    /\ UNCHANGED <<keyFile, cliVars, serverVars, faults>>

(* The deadline computed from ExpiresIn passes, even with a confirmed code *)
(* not yet polled: the outer loop asks again.  It always passes in the end *)
(* when the server has forgotten the code.                                 *)
Deadline ==
    /\ agent = "poll"
    /\ IF status = "none" THEN UNCHANGED faults ELSE Fault
    /\ AgentGoto("request")
    /\ UNCHANGED <<keyFile, cliVars, serverVars>>

(* Mutant: the key is kept in memory only. *)
Store_Omitted ==
    /\ agent = "store"
    /\ AgentGoto("serving")
    /\ UNCHANGED <<keyFile, cliVars, serverVars, faults>>

(* device.StoreAPIKey, cli.SetAPIKey *)
Store ==
    /\ agent = "store"
    /\ keyFile' = apiKey
    /\ AgentGoto("serving")
    /\ UNCHANGED <<cliVars, serverVars, faults>>

(* Mutant: the agent goes on after it has cleared the key file.            *)
Revoked_Stays ==
    /\ agent = "serving" /\ apiKey # validKey
    /\ keyFile' = NoKey
    /\ UNCHANGED <<agentVars, cliVars, serverVars, faults>>

(* A heartbeat is answered 40002: revokeOnce removes the key file and the  *)
(* process exits 1.5 s later.                                              *)
Revoked ==
    /\ agent = "serving" /\ apiKey # validKey
    /\ keyFile' = NoKey
    /\ AgentGoto("leaving")
    /\ UNCHANGED <<cliVars, serverVars, faults>>

(* os.Remove fails: the error is logged, and the agent exits all the same. *)
RemoveFails ==
    /\ agent = "serving" /\ apiKey # validKey
    /\ Fault
    /\ AgentGoto("leaving")
    /\ UNCHANGED <<keyFile, cliVars, serverVars>>

Leave ==
    /\ agent = "leaving"
    /\ AgentGoto("down")
    /\ UNCHANGED <<keyFile, cliVars, serverVars, faults>>

(* A kill, a request that fails for good or a failing write ends the       *)
(* process; a write may have emptied the file.                             *)
Crash ==
    /\ agent # "down" /\ Fault
    /\ AgentGoto("down")
    /\ keyFile' \in IF agent = "store" THEN {keyFile, NoKey} ELSE {keyFile}
    /\ UNCHANGED <<cliVars, serverVars>>

Agent ==
    \/ Start \/ Request \/ PollPaired \/ PollExpired \/ Deadline \/ Store
    \/ Revoked \/ Leave

-----------------------------------------------------------------------------
(* runPairingCodeCommand *)

(* A stored key, if it can be read, ends the command.                      *)
CliStart ==
    /\ cli = "idle" /\ cliRuns < MaxCli
    /\ cliRuns' = cliRuns + 1
    /\ \/ /\ cli' = IF keyFile = NoKey THEN "status" ELSE "idle"
          /\ UNCHANGED faults
       \/ cli' = "status" /\ Fault
    /\ UNCHANGED <<keyFile, agentVars, cliKey, serverVars>>

(* GetPairingStatus; a failed GET counts as no status.  A pending code is  *)
(* only shown, an envelope that does not open is an error.                 *)
CliStatus ==
    /\ cli = "status"
    /\ \/ /\ status = "paired" /\ Opens
          /\ cli' = "store" /\ cliKey' = validKey
          /\ UNCHANGED faults
       \/ /\ \/ status = "pending"
             \/ status = "paired" /\ ~Opens
          /\ cli' = "idle"
          /\ UNCHANGED <<cliKey, faults>>
       \/ /\ \/ status \in {"none", "expired"} /\ UNCHANGED faults
             \/ Fault
          /\ cli' = "request"
          /\ UNCHANGED cliKey
    /\ UNCHANGED <<keyFile, agentVars, cliRuns, serverVars>>

CliRequest ==
    /\ cli = "request"
    /\ cli' = "idle"
    /\ status' = "pending"
    /\ UNCHANGED <<keyFile, agentVars, cliKey, cliRuns, envelope, validKey,
                   issued, faults>>

CliStore ==
    /\ cli = "store"
    /\ keyFile' = cliKey
    /\ cli' = "idle"
    /\ UNCHANGED <<agentVars, cliKey, cliRuns, serverVars, faults>>

(* pairing-code is interrupted or a request or write of it fails.          *)
CliFails ==
    /\ cli # "idle" /\ Fault
    /\ cli' = "idle"
    /\ keyFile' \in IF cli = "store" THEN {keyFile, NoKey} ELSE {keyFile}
    /\ UNCHANGED <<agentVars, cliKey, cliRuns, serverVars>>

Cli == CliStart \/ CliStatus \/ CliRequest \/ CliStore

-----------------------------------------------------------------------------
Next ==
    \/ Agent \/ ReadFails \/ RemoveFails \/ Crash \/ Cli \/ CliFails
    \/ Confirm \/ Expire \/ EnvelopeAges \/ Revoke

Spec == Init /\ [][Next]_vars

(* launchd restarts the agent, its loops run on and heartbeats are sent;   *)
(* somebody types in the code that is shown.                               *)
FairSpec ==
    /\ Spec
    /\ WF_vars(Agent) /\ WF_vars(CliStatus \/ CliRequest \/ CliStore)
    /\ WF_vars(Confirm)

-----------------------------------------------------------------------------
Keys == NoKey..MaxKeys

(* Types; an agent that serves has a key, and every key has been issued.   *)
TypeOK ==
    /\ keyFile \in Keys /\ apiKey \in Keys /\ cliKey \in Keys /\ validKey \in Keys
    /\ agent \in {"down", "request", "poll", "store", "serving", "leaving"}
    /\ cli \in {"idle", "status", "request", "store"}
    /\ status \in {"none", "pending", "expired", "paired"}
    /\ envelope \in {"fresh", "old"}
    /\ issued \in Keys /\ validKey <= issued
    /\ agent = "serving" => apiKey # NoKey

(* While pairing-code is not run beside it, the key the agent serves with  *)
(* is the one it would load after a restart: neither a crash nor a failed  *)
(* write nor a revocation leaves a working agent with a lost key.          *)
KeySurvivesRestart ==
    agent = "serving" /\ apiKey = validKey /\ cliRuns = 0 => keyFile = apiKey

(* The device heals: once revocations, crashes and delays have stopped,    *)
(* the agent ends up serving with the key the server accepts, whatever     *)
(* the key file, the pairing record and pairing-code went through.  (When  *)
(* the last of the MaxKeys keys is issued the bound may be in the way.)    *)
EndsUpPaired ==
    <>[](issued < MaxKeys => agent = "serving" /\ apiKey = validKey)
=============================================================================
