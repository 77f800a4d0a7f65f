------------------------------ MODULE Executor ------------------------------
(***************************************************************************)
(* internal/command/executor.go: Execute, called by every handler          *)
(* goroutine of the consumer at the same time as others, and               *)
(* openclawcli.ConfigPath, which it uses.  Modelled are the commands that  *)
(* share something: the config file and its backups, the remembered config *)
(* path, and the gateway service.  The other commands are calls of the CLI *)
(* that share nothing (module Replies has what they report).               *)
(*                                                                         *)
(* A file is [body, len].  os.WriteFile truncates, then writes at offset   *)
(* 0: written over a longer text it leaves that text's end behind ("junk", *)
(* which json.Unmarshal rejects; so is an empty file).                     *)
(***************************************************************************)
EXTENDS Integers, FiniteSets

CONSTANTS
    Slot,             \* bound: goroutines inside Execute, numbered
    Content, Size,    \* config texts that are valid JSON, and their lengths
    Original,         \* those the file may hold at first
    Path,             \* paths the CLI may report for the config file
    Env,              \* values of OPENCLAW_CONFIG_PATH, None for unset
    MaxJobs,          \* bound: commands
    MaxNow,           \* bound: seconds
    MaxMoves,         \* bound: times the CLI reports another path
    MaxFaults         \* bound: crashes and failing calls

None == "none"

ASSUME ExecutorConstants ==
    /\ Slot \subseteq Nat
    /\ Size \in [Content -> Nat \ {0}] /\ "absent" \notin Content /\ "junk" \notin Content
    /\ Original \subseteq Content
    /\ Path # {} /\ None \notin Path /\ Env \subseteq Path \union {None}
    /\ MaxJobs \in Nat /\ MaxNow \in Nat /\ MaxMoves \in Nat /\ MaxFaults \in Nat

VARIABLES
    disk,             \* the config file at each path
    baks,             \* <path>.bak.<second>
    now,              \* the second
    env, cliPath,     \* OPENCLAW_CONFIG_PATH; the path "status --all" reports
    once, path,       \* configOnce ("fresh", "running", "done") and configPath
    job,              \* per goroutine: [kind, arg, pc, path, data, at]
    service,          \* ai.openclaw.gateway: "running" or "stopped"
    versions,         \* history: <<path, content>> once put in place
    overlapped,       \* history: two writes of one path were under way at once
    collided,         \* history: a backup was written over another one
    unsaved,          \* history: a backup failed, and the write went on
    stopper,          \* history: what stopped the service, None while it runs:
                      \* "stop", "restart"; "cut": a restart that did not get
                      \* to its start
    jobs, moves, faults

files == <<disk, baks>>
paths == <<env, cliPath, once, path>>
marks == <<versions, overlapped, collided, unsaved>>
svc == <<service, stopper>>
clock == <<now, moves>>
vars == <<files, paths, marks, svc, clock, job, jobs, faults>>

Absent == [body |-> "absent", len |-> 0]
Empty == [body |-> "junk", len |-> 0]
Whole(c) == [body |-> c, len |-> Size[c]]

(* The write of os.WriteFile, over what is in the file by then. *)
Over(f, d) == IF f.len > d.len THEN [body |-> "junk", len |-> f.len] ELSE d

ServiceKinds == {"start", "stop", "restart"}
ConfigKinds == {"read", "write", "refused"}
Request == {<<"write", c>> : c \in Content}
             \union {<<k, None>> : k \in {"read", "refused"} \union ServiceKinds}

Idle == [kind |-> None, arg |-> None, pc |-> "idle", path |-> None,
         data |-> Absent, at |-> 0]

-----------------------------------------------------------------------------
Init ==
    /\ \/ disk = [p \in Path |-> Absent]
       \/ \E c \in Original : disk = [p \in Path |-> Whole(c)]
    /\ baks = [p \in Path |-> [t \in 0..MaxNow |-> Absent]]
    /\ now = 0 /\ moves = 0
    /\ env \in Env /\ cliPath = CHOOSE p \in Path : TRUE
    /\ once = "fresh" /\ path = None
    /\ job = [s \in Slot |-> Idle]
    /\ service = "running" /\ stopper = None
    /\ versions = {<<p, disk[p].body>> : p \in {q \in Path : disk[q] # Absent}}
    /\ overlapped = FALSE /\ collided = FALSE /\ unsaved = FALSE
    /\ jobs = 0 /\ faults = 0

Fault == faults < MaxFaults /\ faults' = faults + 1

Busy(kinds) == {s \in Slot : job[s].kind \in kinds}

Goto(s, pc) == job' = [job EXCEPT ![s].pc = pc]

Return(s) == job' = [job EXCEPT ![s] = Idle]

(* Execute is called for a command, in a goroutine of its own. *)
Execute(s) ==
    /\ job[s].pc = "idle" /\ jobs < MaxJobs
    /\ \A r \in Slot : job[r].pc = "idle" => s <= r
    /\ jobs' = jobs + 1
    /\ \E r \in Request :
         job' = [job EXCEPT ![s].kind = r[1], ![s].arg = r[2],
                            ![s].pc = IF r[1] \in ConfigKinds THEN "path" ELSE "run"]
    /\ UNCHANGED <<files, paths, marks, svc, clock, faults>>

-----------------------------------------------------------------------------
(* ConfigPath *)

(* configOnce.Do: the first caller looks the path up, others wait for it,  *)
(* later ones take what is remembered; an empty path ends the command.     *)
Resolve(s) ==
    /\ job[s].pc = "path"
    /\ \/ /\ once = "fresh"
          /\ once' = "running"
          /\ Goto(s, "lookup")
       \/ /\ once = "done"
          /\ IF path = None THEN Return(s)
             ELSE job' = [job EXCEPT ![s].pc = "use", ![s].path = path]
          /\ UNCHANGED once
    /\ UNCHANGED <<files, env, cliPath, path, marks, svc, clock, jobs,
                   faults>>

(* Mutant: with an empty answer the lookup returns without letting go.     *)
Found_KeepsWaiters(s, p) ==
    /\ path' = p
    /\ once' = IF p = None THEN "running" ELSE "done"
    /\ job' = IF p = None THEN [job EXCEPT ![s] = Idle]
              ELSE [job EXCEPT ![s].pc = "use", ![s].path = p]

(* Mutant: the empty path is not refused.                                  *)
Found_Unchecked(s, p) ==
    /\ path' = p
    /\ once' = "done"
    /\ job' = [job EXCEPT ![s].pc = "use", ![s].path = p]

(* Its own command goes on, or ends when there is no path.                 *)
Found(s, p) ==
    /\ path' = p
    /\ once' = "done"
    /\ job' = IF p = None THEN [job EXCEPT ![s] = Idle]
              ELSE [job EXCEPT ![s].pc = "use", ![s].path = p]

(* The environment decides, else the Config row of "openclaw status --all". *)
Lookup(s) ==
    /\ job[s].pc = "lookup"
    /\ Found(s, IF env # None THEN env ELSE cliPath)
    /\ UNCHANGED <<files, env, cliPath, marks, svc, clock, jobs, faults>>

(* The CLI does not answer, or answers without a Config row: the empty path *)
(* is remembered for good.                                                 *)
LookupFails(s) ==
    /\ job[s].pc = "lookup" /\ env = None /\ Fault
    /\ Found(s, None)
    /\ UNCHANGED <<files, env, cliPath, marks, svc, clock, jobs>>

-----------------------------------------------------------------------------
(* execConfig *)

Using(s, kinds) == job[s].pc = "use" /\ job[s].kind \in kinds

(* "read", and "validate" alike, reads the file and parses it. *)
ReadConfig(s) ==
    /\ Using(s, {"read"})
    /\ Return(s)
    /\ UNCHANGED <<files, paths, marks, svc, clock, jobs,
                   faults>>

(* An unknown action, or a write without content or with invalid JSON. *)
Refuse(s) ==
    /\ Using(s, {"refused"})
    /\ Return(s)
    /\ UNCHANGED <<files, paths, marks, svc, clock, jobs, faults>>

Writing(p) ==
    {s \in Busy({"write"}) : job[s].path = p /\ job[s].pc \notin {"path", "lookup", "use"}}

(* "write" reads the old file and names its backup by the second. *)
ReadOld(s) ==
    LET p == job[s].path IN
    /\ Using(s, {"write"})
    /\ overlapped' = (overlapped \/ Writing(p) # {})
    /\ job' = [job EXCEPT ![s].data = disk[p], ![s].at = now,
                          ![s].pc = IF disk[p] = Absent THEN "open" ELSE "backup"]
    /\ UNCHANGED <<files, paths, versions, collided, unsaved,
                   svc, clock, jobs, faults>>

(* A file that cannot be read is not backed up. *)
ReadOldFails(s) ==
    /\ Using(s, {"write"}) /\ Fault
    /\ overlapped' = (overlapped \/ Writing(job[s].path) # {})
    /\ unsaved' = TRUE
    /\ Goto(s, "open")
    /\ UNCHANGED <<files, paths, versions, collided, svc,
                   clock, jobs>>

(* os.WriteFile(backupPath, data), in two steps. *)
BackupOpen(s) ==
    LET p == job[s].path
        t == job[s].at IN
    /\ job[s].pc = "backup"
    /\ collided' = (collided \/ baks[p][t] # Absent)
    /\ baks' = [baks EXCEPT ![p][t] = Empty]
    /\ Goto(s, "copy")
    /\ UNCHANGED <<disk, paths, versions, overlapped, unsaved, svc, clock, jobs,
                   faults>>

BackupWrite(s) ==
    LET p == job[s].path
        t == job[s].at IN
    /\ job[s].pc = "copy"
    /\ baks' = [baks EXCEPT ![p][t] = Over(@, job[s].data)]
    /\ Goto(s, "open")
    /\ UNCHANGED <<disk, paths, marks, svc, clock, jobs, faults>>

(* The error of the backup is dropped. *)
BackupFails(s) ==
    /\ job[s].pc \in {"backup", "copy"} /\ Fault
    /\ unsaved' = TRUE
    /\ Goto(s, "open")
    /\ UNCHANGED <<files, paths, versions, overlapped, collided, svc, clock, jobs>>

(* os.WriteFile(configPath, formatted), in two steps. *)
ConfigOpen(s) ==
    /\ job[s].pc = "open"
    /\ disk' = [disk EXCEPT ![job[s].path] = Empty]
    /\ Goto(s, "store")
    /\ UNCHANGED <<baks, paths, marks, svc, clock, jobs, faults>>

(* Mutant: the backup is made after the new text is in place.              *)
ConfigWrite_ThenBackup(s) ==
    LET p == job[s].path
        c == job[s].arg IN
    /\ job[s].pc = "store"
    /\ disk' = [disk EXCEPT ![p] = Over(@, Whole(c))]
    /\ baks' = [baks EXCEPT ![p][job[s].at] = Over(disk[p], Whole(c))]
    /\ versions' = versions \union {<<p, c>>}
    /\ Return(s)
    /\ UNCHANGED <<paths, overlapped, collided, unsaved, svc, clock, jobs, faults>>

ConfigWrite(s) ==
    LET p == job[s].path
        c == job[s].arg IN
    /\ job[s].pc = "store"
    /\ disk' = [disk EXCEPT ![p] = Over(@, Whole(c))]
    /\ versions' = versions \union {<<p, c>>}
    /\ Return(s)
    /\ UNCHANGED <<baks, paths, overlapped, collided, unsaved, svc, clock, jobs,
                   faults>>

(* MkdirAll, the open or the write fails: the file stays as it is by then. *)
ConfigFails(s) ==
    /\ job[s].pc \in {"open", "store"} /\ Fault
    /\ Return(s)
    /\ UNCHANGED <<files, paths, marks, svc, clock, jobs>>

-----------------------------------------------------------------------------
(* execLaunchctl, execRestart *)

LaunchCtl(s) ==
    /\ job[s].pc = "run"
    /\ \/ job[s].kind = "start" /\ service' = "running" /\ stopper' = None
       \/ job[s].kind = "stop" /\ service' = "stopped" /\ stopper' = "stop"
    /\ Return(s)
    /\ UNCHANGED <<files, paths, marks, clock, jobs, faults>>

(* launchctl stop, its error dropped; then two seconds of sleep. *)
RestartStop(s) ==
    /\ job[s].pc = "run" /\ job[s].kind = "restart"
    /\ \/ service' = "stopped" /\ stopper' = "restart" /\ UNCHANGED faults
       \/ Fault /\ UNCHANGED svc
    /\ Goto(s, "sleep")
    /\ UNCHANGED <<files, paths, marks, clock, jobs>>

(* Mutant: the start is left to another service command under way, which   *)
(* may well fail.                                                          *)
RestartStart_LeftToOther(s) ==
    /\ job[s].pc = "sleep"
    /\ IF Busy(ServiceKinds) = {s} THEN service' = "running" /\ stopper' = None
       ELSE UNCHANGED svc
    /\ Return(s)
    /\ UNCHANGED <<files, paths, marks, clock, jobs, faults>>

RestartStart(s) ==
    /\ job[s].pc = "sleep"
    /\ service' = "running" /\ stopper' = None
    /\ Return(s)
    /\ UNCHANGED <<files, paths, marks, clock, jobs, faults>>

(* A restart ends before its start: what it stopped stays stopped.         *)
CutShort == stopper' = IF stopper = "restart" THEN "cut" ELSE stopper

(* launchctl start or stop fails: status 3, the service as it was. *)
LaunchFails(s) ==
    /\ \/ job[s].pc = "run" /\ job[s].kind \in {"start", "stop"} /\ UNCHANGED stopper
       \/ job[s].pc = "sleep" /\ CutShort
    /\ Fault
    /\ Return(s)
    /\ UNCHANGED <<files, paths, marks, service, clock, jobs>>

-----------------------------------------------------------------------------
(* The process dies; the files stay. *)
Crash ==
    /\ Fault
    /\ job' = [s \in Slot |-> Idle]
    /\ once' = "fresh" /\ path' = None
    /\ CutShort
    /\ UNCHANGED <<files, env, cliPath, marks, service, clock, jobs>>

Tick ==
    /\ now < MaxNow
    /\ now' = now + 1
    /\ UNCHANGED <<files, paths, marks, svc, moves, job, jobs, faults>>

(* OpenClaw is set up to use another config file; this matters only where  *)
(* the environment does not decide.                                        *)
MoveConfig ==
    /\ moves < MaxMoves /\ env = None
    /\ moves' = moves + 1
    /\ cliPath' \in Path \ {cliPath}
    /\ UNCHANGED <<files, env, once, path, marks, svc, now, job, jobs,
                   faults>>

Step(s) ==
    \/ Resolve(s) \/ Lookup(s)
    \/ ReadConfig(s) \/ Refuse(s)
    \/ ReadOld(s) \/ BackupOpen(s) \/ BackupWrite(s) \/ ConfigOpen(s) \/ ConfigWrite(s)
    \/ LaunchCtl(s) \/ RestartStop(s) \/ RestartStart(s)

Failure(s) ==
    \/ LookupFails(s) \/ ReadOldFails(s) \/ BackupFails(s) \/ ConfigFails(s)
    \/ LaunchFails(s)

Next ==
    \/ \E s \in Slot : Execute(s) \/ Step(s) \/ Failure(s)
    \/ Crash \/ Tick \/ MoveConfig

Spec == Init /\ [][Next]_vars

(* A goroutine runs on; a CLI call ends with its context's timeout.  That  *)
(* launchctl ends is assumed: it is run without one (execLaunchctl).       *)
FairSpec == Spec /\ \A s \in Slot : WF_vars(Step(s))

-----------------------------------------------------------------------------
File == [body : Content \union {"absent", "junk"}, len : Nat]

(* Types; and the commands of a process that use a config file use one and *)
(* the same, wherever OpenClaw keeps it by then (ConfigPath).              *)
TypeOK ==
    /\ disk \in [Path -> File] /\ baks \in [Path -> [0..MaxNow -> File]]
    /\ now \in 0..MaxNow
    /\ once \in {"fresh", "running", "done"}
    /\ env \in Env /\ cliPath \in Path /\ path \in Path \union {None}
    /\ job \in [Slot -> [kind : ConfigKinds \union ServiceKinds \union {None},
                         arg : Content \union {None},
                         pc : {"idle", "run", "path", "lookup", "use", "backup",
                               "copy", "open", "store", "sleep"},
                         path : Path \union {None}, data : File, at : 0..MaxNow]]
    /\ \A s \in Slot :
         job[s].pc \in {"use", "backup", "copy", "open", "store"} => path \in Path /\ job[s].path = path
    /\ service \in {"running", "stopped"}
    /\ versions \subseteq Path \X Content
    /\ overlapped \in BOOLEAN /\ collided \in BOOLEAN /\ unsaved \in BOOLEAN
    /\ stopper \in {None, "stop", "restart", "cut"}
    /\ jobs \in Nat /\ moves \in Nat /\ faults \in Nat

Holds(f, c) == f.body = c

(* No text that was ever the config file is lost, at any moment of any     *)
(* write, whatever crashes and whatever write of the config fails: it is   *)
(* whole in the file or in a backup.  Three things break this, and nothing *)
(* else: writes that overlap, two backups within one second, which share a *)
(* name, and a backup whose error was dropped.                             *)
EveryVersionKept ==
    ~overlapped /\ ~collided /\ ~unsaved =>
      \A v \in versions :
        \/ Holds(disk[v[1]], v[2])
        \/ \E t \in 0..MaxNow : Holds(baks[v[1]][t], v[2])

(* However service commands overlap, a restart does not leave the gateway  *)
(* stopped (execRestart): a stopped one was stopped by a stop, by a restart *)
(* that failed or died before its start, or a start is still to come.      *)
RestartComesBack ==
    service = "stopped" =>
      \/ stopper \in {"stop", "cut"}
      \/ stopper = "restart" /\ \E s \in Slot : job[s].pc = "sleep"

(* Every command returns: nobody waits for ever for the goroutine that     *)
(* looks the config path up.                                               *)
EveryCommandReturns == \A s \in Slot : job[s].pc # "idle" ~> job[s].pc = "idle"
=============================================================================
