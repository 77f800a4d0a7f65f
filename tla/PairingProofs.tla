---------------------------- MODULE PairingProofs ----------------------------
(***************************************************************************)
(* Proofs about the device credential: for any number of keys, runs of     *)
(* pairing-code and faults.                                                *)
(***************************************************************************)
EXTENDS Pairing, TLAPS

(* A key is on its way from the server to the key file with the agent that *)
(* polled it; the server calls a pairing confirmed only while its key is   *)
(* the valid one.                                                          *)
KeysAreReal ==
    /\ status = "paired" => validKey # NoKey
    /\ agent = "store" => apiKey # NoKey

(* pairing-code touches the key file only once it has been run, and beside *)
(* it an agent that serves does so with the key in the file.               *)
FileIsAgents ==
    /\ cliRuns = 0 => cli = "idle"
    /\ agent = "serving" /\ cliRuns = 0 => keyFile = apiKey

PairingInv ==
    /\ TypeOK
    /\ cliRuns \in Nat
    /\ KeysAreReal
    /\ FileIsAgents

-----------------------------------------------------------------------------
(* A new device satisfies the invariant.                                   *)
LEMMA InitPairing == Init => PairingInv
BY PairingConstants
   DEF Init, PairingInv, TypeOK, KeysAreReal, FileIsAgents, Keys, NoKey

(* Every step of the agent, of pairing-code and of the server preserves it.*)
LEMMA PairingStep == PairingInv /\ [Next]_vars => PairingInv'
<1> SUFFICES ASSUME PairingInv, [Next]_vars  PROVE PairingInv'
  OBVIOUS
<1> USE PairingConstants
    DEF PairingInv, Keys, NoKey, Fault, AgentGoto, agentVars, cliVars, serverVars
<1>1. CASE Start \/ ReadFails \/ Request \/ PollExpired \/ Deadline \/ Leave
  BY <1>1 DEF Start, ReadFails, Request, PollExpired, Deadline, Leave, TypeOK,
     KeysAreReal, FileIsAgents
<1>2. CASE PollPaired
  BY <1>2 DEF PollPaired, Opens, TypeOK, KeysAreReal, FileIsAgents
<1>3. CASE Store
  BY <1>3 DEF Store, TypeOK, KeysAreReal, FileIsAgents
<1>4. CASE Revoked \/ RemoveFails
  BY <1>4 DEF Revoked, RemoveFails, TypeOK, KeysAreReal, FileIsAgents
<1>5. CASE Crash
  BY <1>5 DEF Crash, TypeOK, KeysAreReal, FileIsAgents
<1>6. CASE Cli
  <2>1. CASE CliStart
    BY <2>1 DEF CliStart, TypeOK, KeysAreReal, FileIsAgents
  <2>2. CASE CliStatus
    BY <2>2 DEF CliStatus, Opens, TypeOK, KeysAreReal, FileIsAgents
  <2>3. CASE CliRequest
    BY <2>3 DEF CliRequest, TypeOK, KeysAreReal, FileIsAgents
  <2>4. CASE CliStore
    BY <2>4 DEF CliStore, TypeOK, KeysAreReal, FileIsAgents
  <2>5. QED  BY <1>6, <2>1, <2>2, <2>3, <2>4 DEF Cli
<1>7. CASE CliFails
  BY <1>7 DEF CliFails, TypeOK, KeysAreReal, FileIsAgents
<1>8. CASE Confirm \/ Expire \/ EnvelopeAges \/ Revoke
  BY <1>8 DEF Confirm, Expire, EnvelopeAges, Revoke, TypeOK, KeysAreReal,
     FileIsAgents
<1>9. CASE UNCHANGED vars
  BY <1>9 DEF vars, TypeOK, KeysAreReal, FileIsAgents
<1>10. QED
  BY <1>1, <1>2, <1>3, <1>4, <1>5, <1>6, <1>7, <1>8, <1>9 DEF Next, Agent

(* The inductive invariant of pairing.                                     *)
THEOREM PairingInvariance == Spec => []PairingInv
BY InitPairing, PairingStep, PTL DEF Spec

(* runAgent serves only with a key, and holds only keys the server issued. *)
THEOREM TypeCorrect == Spec => []TypeOK
<1>1. PairingInv => TypeOK
  BY DEF PairingInv
<1>2. QED
  BY <1>1, PairingInvariance, PTL

(* As long as pairing-code is not run beside it, an agent that works finds *)
(* the key it works with in the key file when it is started again: after a *)
(* crash, a failed write or a revocation at any point (runAgent,           *)
(* device.StoreAPIKey, handleCredentialRevoked).                           *)
THEOREM SurvivingKey == Spec => []KeySurvivesRestart
<1>1. PairingInv => KeySurvivesRestart
  BY DEF PairingInv, FileIsAgents, KeySurvivesRestart
<1>2. QED
  BY <1>1, PairingInvariance, PTL
=============================================================================
