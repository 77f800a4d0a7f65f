--------------------------- MODULE ExecutorProofs ---------------------------
(***************************************************************************)
(* Proofs about Execute: for any number of goroutines, any texts and paths *)
(* of the config file, and any number of commands and faults.              *)
(***************************************************************************)
EXTENDS Executor, TLAPS

UsePcs == {"use", "backup", "copy", "open", "store"}
WritePcs == {"backup", "copy", "open", "store"}
Pcs == {"idle", "run", "path", "lookup", "use", "backup", "copy", "open", "store",
        "sleep"}
Kinds == ConfigKinds \union ServiceKinds \union {None}
Job == [kind : Kinds, arg : Content \union {None}, pc : Pcs,
        path : Path \union {None}, data : File, at : 0..MaxNow]

(* Where a goroutine is fits the kind of its command.                      *)
KindFits ==
    \A s \in Slot :
      /\ job[s].pc = "idle" => job[s].kind = None
      /\ job[s].pc \in {"run", "sleep"} <=> job[s].kind \in ServiceKinds
      /\ job[s].pc = "sleep" => job[s].kind = "restart"
      /\ job[s].pc \in WritePcs => job[s].kind = "write"
      /\ job[s].kind = "write" => job[s].arg \in Content

(* configOnce: one goroutine looks the path up, and before it is found     *)
(* nobody uses it.                                                         *)
LookedUpOnce ==
    /\ \A s \in Slot : job[s].pc = "lookup" => once = "running"
    /\ \A s \in Slot : job[s].pc \in UsePcs => once = "done"
    /\ \A r, s \in Slot : job[r].pc = "lookup" /\ job[s].pc = "lookup" => r = s

CoreInv ==
    /\ TypeOK
    /\ KindFits
    /\ LookedUpOnce

(* A write under way is the only one, works on the file as it found it,    *)
(* and does not truncate it before all that it ever held is backed up.     *)
Disturbed == overlapped \/ collided \/ unsaved

OneWriter ==
    ~overlapped =>
      \A r, s \in Slot : job[r].pc \in WritePcs /\ job[s].pc \in WritePcs => r = s

BackedUp(p) ==
    \A v \in versions : v[1] = p => \E t \in 0..MaxNow : Holds(baks[p][t], v[2])

WriterIsSafe ==
    ~Disturbed => \A s \in Slot :
      /\ job[s].pc \in {"backup", "copy"} => job[s].data = disk[job[s].path]
      /\ job[s].pc = "copy" => baks[job[s].path][job[s].at] = Empty
      /\ job[s].pc \in {"open", "store"} => BackedUp(job[s].path)
      /\ job[s].pc = "store" => disk[job[s].path] = Empty

VersionInv ==
    /\ OneWriter
    /\ WriterIsSafe
    /\ EveryVersionKept

-----------------------------------------------------------------------------
(* The parts of the type invariant: goroutines, files, flags, the rest.    *)
JobsOK ==
    /\ job \in [Slot -> Job]
    /\ \A s \in Slot : job[s].pc \in UsePcs => path \in Path /\ job[s].path = path

FilesOK ==
    /\ disk \in [Path -> File] /\ baks \in [Path -> [0..MaxNow -> File]]
    /\ versions \subseteq Path \X Content

FlagsOK == overlapped \in BOOLEAN /\ collided \in BOOLEAN /\ unsaved \in BOOLEAN

RestOK ==
    /\ now \in 0..MaxNow
    /\ once \in {"fresh", "running", "done"}
    /\ env \in Env /\ cliPath \in Path /\ path \in Path \union {None}
    /\ service \in {"running", "stopped"}
    /\ stopper \in {None, "stop", "restart", "cut"}
    /\ jobs \in Nat /\ moves \in Nat /\ faults \in Nat

(* Together they are the type invariant.                                   *)
LEMMA TypeParts == TypeOK <=> JobsOK /\ FilesOK /\ FlagsOK /\ RestOK
BY DEF TypeOK, JobsOK, FilesOK, FlagsOK, RestOK, Job, Kinds, Pcs, UsePcs

(* A goroutine goes on to its next step and keeps what it has.             *)
LEMMA JobGoto ==
    ASSUME job \in [Slot -> Job], NEW s \in Slot, NEW l \in Pcs, Goto(s, l)
    PROVE  /\ job' \in [Slot -> Job]
           /\ job'[s].pc = l
           /\ job'[s].kind = job[s].kind /\ job'[s].arg = job[s].arg
           /\ job'[s].path = job[s].path /\ job'[s].data = job[s].data
           /\ job'[s].at = job[s].at
           /\ \A r \in Slot : r # s => job'[r] = job[r]
<1>1. job[s] \in Job
  OBVIOUS
<1>2. [job[s] EXCEPT !.pc = l] \in Job
  BY <1>1 DEF Job
<1>3. QED
  BY <1>1, <1>2 DEF Goto, Job

(* A goroutine that is not in Execute is one of the type.                  *)
LEMMA IdleJob == Idle \in Job
BY ExecutorConstants DEF Idle, Job, Kinds, Pcs, File, Absent

(* A goroutine returns from Execute.                                       *)
LEMMA JobReturn ==
    ASSUME job \in [Slot -> Job], NEW s \in Slot, Return(s)
    PROVE  /\ job' \in [Slot -> Job]
           /\ job'[s] = Idle /\ job'[s].pc = "idle" /\ job'[s].kind = None
           /\ \A r \in Slot : r # s => job'[r] = job[r]
BY IdleJob DEF Return, Idle

(* The file a write leaves is a file.                                      *)
LEMMA OverFile ==
    ASSUME NEW f \in File, NEW d \in File
    PROVE  Over(f, d) \in File /\ (f = Empty => Over(f, d) = d)
BY DEF Over, File, Empty

(* So are no file, an empty one and a whole text.                          *)
LEMMA Files ==
    /\ Absent \in File /\ Empty \in File
    /\ \A c \in Content : Whole(c) \in File /\ Whole(c).body = c
BY ExecutorConstants DEF Absent, Empty, Whole, File

-----------------------------------------------------------------------------
(* Before the first command the core invariant holds.                      *)
LEMMA InitCore == Init => CoreInv
<1> SUFFICES ASSUME Init  PROVE CoreInv
  OBVIOUS
<1> USE ExecutorConstants DEF Init
<1>1. job \in [Slot -> Job] /\ \A s \in Slot : job[s].pc = "idle" /\ job[s].kind = None
  BY IdleJob DEF Idle
<1>2. disk \in [Path -> File]
      /\ \A p \in Path : disk[p] = Absent \/ disk[p].body \in Content
  BY Files
<1>3. versions \subseteq Path \X Content
  BY <1>2
<1>4. baks \in [Path -> [0..MaxNow -> File]]
  BY Files
<1>5. overlapped \in BOOLEAN /\ collided \in BOOLEAN /\ unsaved \in BOOLEAN
  BY Zenon
<1>6. cliPath \in Path /\ env \in Env /\ path = None /\ now = 0 /\ once = "fresh"
      /\ service = "running" /\ stopper = None /\ jobs = 0 /\ moves = 0 /\ faults = 0
  OBVIOUS
<1>7. TypeOK
  <2> HIDE DEF Init
  <2>1. QED
    BY <1>1, <1>2, <1>3, <1>4, <1>5, <1>6 DEF TypeOK, Job, Kinds, Pcs
<1>8. KindFits /\ LookedUpOnce
  BY <1>1 DEF KindFits, LookedUpOnce, UsePcs, WritePcs, ServiceKinds, None
<1>9. QED  BY <1>7, <1>8 DEF CoreInv

(* A goroutine that returns, or goes on with a write, disturbs no other.   *)
LEMMA JobMoves ==
    ASSUME CoreInv, NEW s \in Slot, UNCHANGED <<once, path>>,
           \/ Return(s)
           \/ /\ job[s].pc \in UsePcs /\ job[s].kind = "write"
              /\ \E l \in WritePcs : Goto(s, l)
           \/ job[s].pc = "run" /\ job[s].kind = "restart" /\ Goto(s, "sleep")
    PROVE  JobsOK' /\ KindFits' /\ LookedUpOnce'
<1>1. JobsOK /\ KindFits /\ LookedUpOnce
  BY TypeParts DEF CoreInv
<1> USE ExecutorConstants
    DEF JobsOK, KindFits, LookedUpOnce, UsePcs, WritePcs, ServiceKinds, None
<1>2. CASE Return(s)
  <2>1. job' \in [Slot -> Job] /\ job'[s].pc = "idle" /\ job'[s].kind = None
        /\ \A r \in Slot : r # s => job'[r] = job[r]
    BY <1>1, <1>2, JobReturn
  <2>2. QED  BY <1>1, <2>1
<1>3. ASSUME job[s].pc \in UsePcs, job[s].kind = "write", NEW l \in WritePcs, Goto(s, l)
      PROVE  JobsOK' /\ KindFits' /\ LookedUpOnce'
  <2>1. l \in Pcs
    BY DEF Pcs
  <2>2. /\ job' \in [Slot -> Job] /\ job'[s].pc = l /\ job'[s].kind = job[s].kind
        /\ job'[s].arg = job[s].arg /\ job'[s].path = job[s].path
        /\ \A r \in Slot : r # s => job'[r] = job[r]
    BY <1>1, <1>3, <2>1, JobGoto
  <2>3. JobsOK'
    BY <1>1, <1>3, <2>2
  <2>4. KindFits'
    BY <1>1, <1>3, <2>2
  <2>5. LookedUpOnce'
    BY <1>1, <1>3, <2>2
  <2>6. QED  BY <2>3, <2>4, <2>5
<1>4. CASE job[s].pc = "run" /\ job[s].kind = "restart" /\ Goto(s, "sleep")
  <2>1. "sleep" \in Pcs
    BY DEF Pcs
  <2>2. /\ job' \in [Slot -> Job] /\ job'[s].pc = "sleep"
        /\ job'[s].kind = job[s].kind /\ job'[s].arg = job[s].arg
        /\ \A r \in Slot : r # s => job'[r] = job[r]
    BY <1>1, <1>4, <2>1, JobGoto
  <2>3. JobsOK' /\ LookedUpOnce'
    BY <1>1, <1>4, <2>2
  <2>4. KindFits'
    BY <1>1, <1>4, <2>2
  <2>5. QED  BY <2>3, <2>4
<1>5. QED  BY <1>2, <1>3, <1>4

(* A command arrives.                                                      *)
LEMMA CoreExecute == ASSUME CoreInv, NEW s \in Slot, Execute(s)  PROVE CoreInv'
<1> USE ExecutorConstants DEF Execute, files, paths, marks, svc, clock
<1>1. JobsOK /\ FilesOK /\ FlagsOK /\ RestOK /\ KindFits /\ LookedUpOnce
  BY TypeParts DEF CoreInv
<1>2. PICK r \in Request :
        job' = [job EXCEPT ![s].kind = r[1], ![s].arg = r[2],
                           ![s].pc = IF r[1] \in ConfigKinds THEN "path" ELSE "run"]
  OBVIOUS
<1>3. /\ r[1] \in ConfigKinds \union ServiceKinds /\ r[2] \in Content \union {None}
      /\ r[1] = "write" => r[2] \in Content
  BY DEF Request, ConfigKinds, ServiceKinds
<1>4. /\ job'[s].kind = r[1] /\ job'[s].arg = r[2]
      /\ job'[s].pc = IF r[1] \in ConfigKinds THEN "path" ELSE "run"
      /\ job' \in [Slot -> Job] /\ \A q \in Slot : q # s => job'[q] = job[q]
  BY <1>1, <1>2, <1>3 DEF JobsOK, Job, Kinds, Pcs
<1>5. JobsOK' /\ LookedUpOnce'
  BY <1>1, <1>4 DEF JobsOK, LookedUpOnce, UsePcs
<1>6. KindFits'
  BY <1>1, <1>3, <1>4 DEF KindFits, WritePcs, ConfigKinds, ServiceKinds
<1>7. FilesOK' /\ FlagsOK'
  BY <1>1 DEF FilesOK, FlagsOK
<1>8. RestOK'
  BY <1>1, <1>2 DEF RestOK
<1>9. TypeOK'
  BY <1>5, <1>7, <1>8 DEF TypeOK, JobsOK, FilesOK, FlagsOK, RestOK, Job, Kinds, Pcs,
     UsePcs
<1>10. QED  BY <1>5, <1>6, <1>9 DEF CoreInv

(* ConfigPath is called.                                                   *)
LEMMA CorePath ==
    ASSUME CoreInv, NEW s \in Slot, Resolve(s) \/ Lookup(s) \/ LookupFails(s)
    PROVE  CoreInv'
<1> USE ExecutorConstants DEF Fault, files, paths, marks, svc, clock
<1>1. JobsOK /\ FilesOK /\ FlagsOK /\ RestOK /\ KindFits /\ LookedUpOnce
  BY TypeParts DEF CoreInv
<1>2. FilesOK' /\ FlagsOK'
  BY <1>1 DEF FilesOK, FlagsOK, Resolve, Lookup, LookupFails
<1>3. ASSUME NEW p \in Path, path' = p, once' = "done", job[s].pc \in {"path", "lookup"},
             \A r \in Slot : job[r].pc = "lookup" => r = s,
             \A r \in Slot : job[r].pc \in UsePcs => p = path,
             job' = [job EXCEPT ![s].pc = "use", ![s].path = p]
      PROVE  JobsOK' /\ KindFits' /\ LookedUpOnce'
  <2>1. /\ job' \in [Slot -> Job] /\ job'[s].pc = "use" /\ job'[s].path = p
        /\ job'[s].kind = job[s].kind /\ job'[s].arg = job[s].arg
        /\ \A r \in Slot : r # s => job'[r] = job[r]
    BY <1>1, <1>3, ZenonT(30) DEF JobsOK, Job, Pcs
  <2>2. JobsOK'
    BY <1>1, <1>3, <2>1 DEF JobsOK, UsePcs
  <2>3. KindFits'
    BY <1>1, <1>3, <2>1 DEF KindFits, WritePcs, ServiceKinds, JobsOK, None
  <2>4. LookedUpOnce'
    BY <1>1, <1>3, <2>1 DEF LookedUpOnce, UsePcs
  <2>5. QED  BY <2>2, <2>3, <2>4
<1>4. CASE Resolve(s)
  <2> USE <1>4 DEF Resolve
  <2>1. RestOK'
    BY <1>1 DEF RestOK
  <2>2. CASE once = "fresh" /\ once' = "running" /\ Goto(s, "lookup")
    <3>1. "lookup" \in Pcs
      BY DEF Pcs
    <3>2. /\ job' \in [Slot -> Job] /\ job'[s].pc = "lookup"
          /\ job'[s].kind = job[s].kind /\ job'[s].arg = job[s].arg
          /\ \A r \in Slot : r # s => job'[r] = job[r]
      BY <1>1, <2>2, <3>1, JobGoto DEF JobsOK
    <3>3. JobsOK'
      BY <1>1, <3>2 DEF JobsOK, UsePcs
    <3>4. KindFits'
      BY <1>1, <3>2 DEF KindFits, WritePcs, ServiceKinds, JobsOK, None
    <3>5. LookedUpOnce'
      BY <1>1, <2>2, <3>2 DEF LookedUpOnce, UsePcs
    <3>6. QED
      BY <1>2, <2>1, <3>3, <3>4, <3>5 DEF CoreInv, TypeOK, JobsOK, FilesOK, FlagsOK,
         RestOK, Job, Kinds, Pcs, UsePcs
  <2>3. CASE once = "done" /\ once' = once /\ path = None /\ Return(s)
    <3>1. JobsOK' /\ KindFits' /\ LookedUpOnce'
      BY <2>3, JobMoves
    <3>2. QED
      BY <1>2, <2>1, <3>1 DEF CoreInv, TypeOK, JobsOK, FilesOK, FlagsOK, RestOK, Job,
         Kinds, Pcs, UsePcs
  <2>4. CASE /\ once = "done" /\ once' = once /\ path # None
             /\ job' = [job EXCEPT ![s].pc = "use", ![s].path = path]
    <3>1. path \in Path /\ \A r \in Slot : job[r].pc # "lookup"
      BY <1>1, <2>4 DEF RestOK, LookedUpOnce
    <3>2. JobsOK' /\ KindFits' /\ LookedUpOnce'
      BY <1>3, <2>4, <3>1
    <3>3. QED
      BY <1>2, <2>1, <3>2 DEF CoreInv, TypeOK, JobsOK, FilesOK, FlagsOK, RestOK, Job,
         Kinds, Pcs, UsePcs
  <2>5. QED  BY <2>2, <2>3, <2>4
<1>5. CASE Lookup(s) \/ LookupFails(s)
  <2>1. PICK p \in Path \union {None} : Found(s, p)
    BY <1>1, <1>5 DEF Lookup, LookupFails, RestOK
  <2>2. job[s].pc = "lookup" /\ once = "running"
    BY <1>1, <1>5 DEF Lookup, LookupFails, LookedUpOnce
  <2>3. RestOK'
    BY <1>1, <1>5, <2>1 DEF RestOK, Found, Lookup, LookupFails
  <2>4. \A r \in Slot : job[r].pc \notin UsePcs /\ (job[r].pc = "lookup" => r = s)
    BY <1>1, <2>2 DEF LookedUpOnce
  <2>5. JobsOK' /\ KindFits' /\ LookedUpOnce'
    <3>1. CASE p \in Path
      BY <1>3, <2>1, <2>2, <2>4, <3>1 DEF Found
    <3>2. CASE p = None
      <4>1. Return(s)
        BY <2>1, <3>2 DEF Found, Return
      <4>2. job' \in [Slot -> Job] /\ job'[s].pc = "idle" /\ job'[s].kind = None
            /\ \A r \in Slot : r # s => job'[r] = job[r]
        BY <1>1, <4>1, JobReturn DEF JobsOK
      <4>3. once' = "done"
        BY <2>1 DEF Found
      <4>4. QED
        BY <1>1, <2>4, <4>2, <4>3
           DEF JobsOK, KindFits, LookedUpOnce, UsePcs, WritePcs, ServiceKinds, None
    <3>3. QED  BY <3>1, <3>2
  <2>6. QED
    BY <1>2, <2>3, <2>5 DEF CoreInv, TypeOK, JobsOK, FilesOK, FlagsOK, RestOK, Job,
       Kinds, Pcs, UsePcs
<1>6. QED  BY <1>4, <1>5

(* A config command reads, backs up and writes.                            *)
LEMMA CoreConfig ==
    ASSUME CoreInv, NEW s \in Slot,
           \/ ReadConfig(s) \/ Refuse(s)
           \/ ReadOld(s) \/ BackupOpen(s) \/ BackupWrite(s) \/ ConfigOpen(s)
           \/ ConfigWrite(s)
           \/ ReadOldFails(s) \/ BackupFails(s) \/ ConfigFails(s)
    PROVE  CoreInv'
<1> USE ExecutorConstants DEF Fault, files, paths, marks, svc, clock
<1>1. JobsOK /\ FilesOK /\ FlagsOK /\ RestOK /\ KindFits /\ LookedUpOnce
  BY TypeParts DEF CoreInv
<1>2. RestOK' /\ UNCHANGED <<once, path>>
  BY <1>1 DEF RestOK, ReadConfig, Refuse, ReadOld, BackupOpen, BackupWrite, ConfigOpen,
     ConfigWrite, ReadOldFails, BackupFails, ConfigFails
<1>t. ASSUME JobsOK', KindFits', LookedUpOnce', FilesOK', FlagsOK'  PROVE CoreInv'
  BY <1>2, <1>t DEF CoreInv, TypeOK, JobsOK, FilesOK, FlagsOK, RestOK, Job, Kinds, Pcs,
     UsePcs
<1>3. CASE ReadConfig(s) \/ Refuse(s) \/ ConfigFails(s)
  <2>1. JobsOK' /\ KindFits' /\ LookedUpOnce'
    BY <1>2, <1>3, JobMoves DEF ReadConfig, Refuse, ConfigFails
  <2>2. FilesOK' /\ FlagsOK'
    BY <1>1, <1>3 DEF FilesOK, FlagsOK, ReadConfig, Refuse, ConfigFails
  <2>3. QED  BY <1>t, <2>1, <2>2
<1>4. CASE ReadOld(s)
  <2> DEFINE p == job[s].path
             l == IF disk[p] = Absent THEN "open" ELSE "backup"
  <2>1. /\ job[s].pc = "use" /\ job[s].kind = "write"
        /\ job' = [job EXCEPT ![s].data = disk[p], ![s].at = now, ![s].pc = l]
    BY <1>4 DEF ReadOld, Using
  <2>2. p \in Path /\ disk[p] \in File /\ now \in 0..MaxNow /\ l \in {"open", "backup"}
    BY <1>1, <2>1 DEF JobsOK, FilesOK, RestOK, UsePcs
  <2> HIDE DEF l
  <2>3. /\ job' \in [Slot -> Job] /\ job'[s].pc = l
        /\ job'[s].kind = "write" /\ job'[s].arg = job[s].arg
        /\ job'[s].path = job[s].path
        /\ \A r \in Slot : r # s => job'[r] = job[r]
    BY <1>1, <2>1, <2>2 DEF JobsOK, Job, Pcs
  <2>4. JobsOK'
    BY <1>1, <1>2, <2>1, <2>2, <2>3 DEF JobsOK, UsePcs
  <2>5. KindFits'
    BY <1>1, <2>1, <2>2, <2>3 DEF KindFits, WritePcs, ServiceKinds
  <2>6. LookedUpOnce'
    BY <1>1, <1>2, <2>1, <2>2, <2>3 DEF LookedUpOnce, UsePcs
  <2>7. FilesOK' /\ FlagsOK'
    BY <1>1, <1>4 DEF FilesOK, FlagsOK, ReadOld
  <2>8. QED  BY <1>t, <2>4, <2>5, <2>6, <2>7
<1>5. CASE ReadOldFails(s) \/ BackupFails(s)
  <2>1. job[s].pc \in UsePcs /\ job[s].kind = "write" /\ Goto(s, "open")
    BY <1>1, <1>5 DEF ReadOldFails, BackupFails, Using, UsePcs, KindFits, WritePcs
  <2>2. JobsOK' /\ KindFits' /\ LookedUpOnce'
    BY <1>2, <2>1, JobMoves DEF WritePcs
  <2>3. FilesOK' /\ overlapped' \in BOOLEAN /\ collided' \in BOOLEAN
    BY <1>1, <1>5 DEF FilesOK, FlagsOK, ReadOldFails, BackupFails
  <2>4. unsaved' \in BOOLEAN
    BY <1>5 DEF ReadOldFails, BackupFails
  <2>5. QED  BY <1>t, <2>2, <2>3, <2>4 DEF FlagsOK
<1>6. CASE BackupOpen(s) \/ BackupWrite(s)
  <2> DEFINE p == job[s].path
             t == job[s].at
  <2>1. job[s].pc \in {"backup", "copy"} /\ job[s].kind = "write"
        /\ \E l \in WritePcs : Goto(s, l)
    BY <1>1, <1>6 DEF BackupOpen, BackupWrite, KindFits, WritePcs
  <2>2. JobsOK' /\ KindFits' /\ LookedUpOnce'
    BY <1>2, <2>1, JobMoves DEF UsePcs
  <2>3. p \in Path /\ t \in 0..MaxNow /\ job[s].data \in File /\ baks[p][t] \in File
    BY <1>1, <2>1 DEF JobsOK, FilesOK, Job, UsePcs
  <2>4. \E f \in File : baks' = [baks EXCEPT ![p][t] = f]
    BY <1>6, <2>3, Files, OverFile DEF BackupOpen, BackupWrite
  <2>5. FilesOK'
    BY <1>1, <1>6, <2>3, <2>4 DEF FilesOK, BackupOpen, BackupWrite
  <2>6. FlagsOK'
    BY <1>1, <1>6 DEF FlagsOK, BackupOpen, BackupWrite
  <2>7. QED  BY <1>t, <2>2, <2>5, <2>6
<1>7. CASE ConfigOpen(s)
  <2>1. job[s].pc = "open" /\ job[s].kind = "write" /\ Goto(s, "store")
    BY <1>1, <1>7 DEF ConfigOpen, KindFits, WritePcs
  <2>2. JobsOK' /\ KindFits' /\ LookedUpOnce'
    BY <1>2, <2>1, JobMoves DEF UsePcs, WritePcs
  <2>3. job[s].path \in Path
    BY <1>1, <2>1 DEF JobsOK, UsePcs
  <2>4. FilesOK' /\ FlagsOK'
    BY <1>1, <1>7, <2>3, Files DEF FilesOK, FlagsOK, ConfigOpen
  <2>5. QED  BY <1>t, <2>2, <2>4
<1>8. CASE ConfigWrite(s)
  <2>1. job[s].pc = "store" /\ job[s].arg \in Content /\ Return(s)
    BY <1>1, <1>8 DEF ConfigWrite, KindFits, WritePcs
  <2>2. JobsOK' /\ KindFits' /\ LookedUpOnce'
    BY <1>2, <2>1, JobMoves
  <2>3. job[s].path \in Path
    BY <1>1, <2>1 DEF JobsOK, UsePcs
  <2>4. disk[job[s].path] \in File /\ Whole(job[s].arg) \in File
    BY <1>1, <2>1, <2>3, Files DEF FilesOK
  <2>5. Over(disk[job[s].path], Whole(job[s].arg)) \in File
    BY <2>4, OverFile
  <2>6. FilesOK' /\ FlagsOK'
    BY <1>1, <1>8, <2>1, <2>3, <2>5 DEF FilesOK, FlagsOK, ConfigWrite
  <2>7. QED  BY <1>t, <2>2, <2>6
<1>9. QED
  BY <1>3, <1>4, <1>5, <1>6, <1>7, <1>8

(* A service command runs launchctl.                                       *)
LEMMA CoreService ==
    ASSUME CoreInv, NEW s \in Slot,
           LaunchCtl(s) \/ RestartStop(s) \/ RestartStart(s) \/ LaunchFails(s)
    PROVE  CoreInv'
<1> USE ExecutorConstants DEF Fault, CutShort, files, paths, marks, svc, clock
<1>1. JobsOK /\ FilesOK /\ FlagsOK /\ RestOK /\ KindFits /\ LookedUpOnce
  BY TypeParts DEF CoreInv
<1>2. JobsOK' /\ KindFits' /\ LookedUpOnce'
  BY JobMoves DEF LaunchCtl, RestartStop, RestartStart, LaunchFails
<1>3. FilesOK' /\ FlagsOK' /\ RestOK'
  BY <1>1 DEF FilesOK, FlagsOK, RestOK, LaunchCtl, RestartStop, RestartStart, LaunchFails
<1>4. QED
  BY <1>2, <1>3 DEF CoreInv, TypeOK, JobsOK, FilesOK, FlagsOK, RestOK, Job, Kinds, Pcs,
     UsePcs

(* A crash, time, and the config file moving.                              *)
LEMMA CoreOther == ASSUME CoreInv, Crash \/ Tick \/ MoveConfig  PROVE CoreInv'
<1> USE ExecutorConstants DEF Fault, CutShort, files, paths, marks, svc, clock
<1>1. JobsOK /\ FilesOK /\ FlagsOK /\ RestOK /\ KindFits /\ LookedUpOnce
  BY TypeParts DEF CoreInv
<1>2. FilesOK' /\ FlagsOK' /\ RestOK'
  BY <1>1 DEF FilesOK, FlagsOK, RestOK, Crash, Tick, MoveConfig
<1>3. JobsOK' /\ KindFits' /\ LookedUpOnce'
  <2>1. CASE Crash
    <3>1. job' \in [Slot -> Job]
          /\ \A r \in Slot : job'[r].pc = "idle" /\ job'[r].kind = None
      BY <2>1, IdleJob DEF Crash, Idle
    <3>2. QED
      BY <3>1 DEF JobsOK, KindFits, LookedUpOnce, UsePcs, WritePcs, ServiceKinds, None
  <2>2. CASE Tick \/ MoveConfig
    BY <1>1, <2>2 DEF Tick, MoveConfig, JobsOK, KindFits, LookedUpOnce
  <2>3. QED  BY <2>1, <2>2
<1>4. QED
  BY <1>2, <1>3 DEF CoreInv, TypeOK, JobsOK, FilesOK, FlagsOK, RestOK, Job, Kinds, Pcs,
     UsePcs

(* The core invariant of Execute.                                          *)
THEOREM CoreInvariance == Spec => []CoreInv
<1>1. CoreInv /\ [Next]_vars => CoreInv'
  <2>1. CoreInv /\ UNCHANGED vars => CoreInv'
    BY DEF CoreInv, TypeOK, KindFits, LookedUpOnce, vars, files, paths, marks, svc, clock
  <2>2. QED
    BY <2>1, CoreExecute, CorePath, CoreConfig, CoreService, CoreOther
       DEF Next, Step, Failure
<1>2. QED
  BY <1>1, InitCore, PTL DEF Spec

(* The commands of one process that use a config file use the same one     *)
(* (openclawcli.ConfigPath).                                               *)
THEOREM TypeCorrect == Spec => []TypeOK
<1>1. CoreInv => TypeOK
  BY DEF CoreInv
<1>2. QED
  BY <1>1, CoreInvariance, PTL
-----------------------------------------------------------------------------
(* The gateway service.                                                    *)
Asleep(s) == job[s].pc = "sleep"

(* Whoever sleeps in a restart sleeps on, and the service is left alone.   *)
LEMMA ServiceApart ==
    ASSUME RestartComesBack, UNCHANGED svc,
           \A r \in Slot : Asleep(r) => Asleep(r)'
    PROVE  RestartComesBack'
BY DEF RestartComesBack, Asleep, svc

(* A command that arrives, and every step of a config command, is that of  *)
(* a goroutine that is not asleep.                                         *)
LEMMA SleepersSleep ==
    ASSUME CoreInv, NEW s \in Slot,
           \/ Execute(s)
           \/ Resolve(s) \/ Lookup(s) \/ LookupFails(s) \/ ReadConfig(s) \/ Refuse(s)
           \/ ReadOld(s) \/ BackupOpen(s) \/ BackupWrite(s) \/ ConfigOpen(s)
           \/ ConfigWrite(s) \/ ReadOldFails(s) \/ BackupFails(s) \/ ConfigFails(s)
    PROVE  UNCHANGED svc /\ \A r \in Slot : Asleep(r) => Asleep(r)'
<1>1. job \in [Slot -> Job]
  BY TypeParts DEF CoreInv, JobsOK
<1>2. UNCHANGED svc
  BY DEF Execute, Resolve, Lookup, LookupFails, ReadConfig, Refuse, ReadOld, BackupOpen,
     BackupWrite, ConfigOpen, ConfigWrite, ReadOldFails, BackupFails, ConfigFails
<1>3. ~Asleep(s)
  BY DEF Execute, Resolve, Lookup, LookupFails, ReadConfig, Refuse, ReadOld, BackupOpen,
     BackupWrite, ConfigOpen, ConfigWrite, ReadOldFails, BackupFails, ConfigFails,
     Using, Asleep
<1>4. \A r \in Slot : r # s => job'[r] = job[r]
  BY <1>1 DEF Execute, Resolve, Lookup, LookupFails, Found, ReadConfig, Refuse, ReadOld,
     BackupOpen, BackupWrite, ConfigOpen, ConfigWrite, ReadOldFails, BackupFails,
     ConfigFails, Return, Goto
<1>5. QED
  BY <1>2, <1>3, <1>4 DEF Asleep

(* A service command runs launchctl: a start leaves the service running, a *)
(* restart's stop leaves a sleeper, and one that fails is cut short.       *)
LEMMA ServiceRuns ==
    ASSUME CoreInv, RestartComesBack, NEW s \in Slot,
           LaunchCtl(s) \/ RestartStop(s) \/ RestartStart(s) \/ LaunchFails(s)
    PROVE  RestartComesBack'
<1>1. job \in [Slot -> Job]
  BY TypeParts DEF CoreInv, JobsOK
<1>2. CASE LaunchCtl(s) \/ RestartStart(s)
  BY <1>2 DEF LaunchCtl, RestartStart, RestartComesBack
<1>3. CASE RestartStop(s)
  <2>1. job'[s].pc = "sleep"
    BY <1>1, <1>3, JobGoto DEF RestartStop, Pcs
  <2>2. CASE service' = "stopped" /\ stopper' = "restart"
    BY <2>1, <2>2 DEF RestartComesBack
  <2>3. CASE UNCHANGED svc
    BY <2>1, <2>3 DEF RestartComesBack, svc
  <2>4. QED
    BY <1>3, <2>2, <2>3 DEF RestartStop
<1>4. CASE LaunchFails(s)
  <2>1. Return(s) /\ service' = service
    BY <1>4 DEF LaunchFails
  <2>2. CASE job[s].pc = "run" /\ stopper' = stopper
    <3>1. \A r \in Slot : Asleep(r) => Asleep(r)'
      BY <1>1, <2>1, <2>2, JobReturn DEF Asleep
    <3>2. QED
      BY <2>1, <2>2, <3>1, ServiceApart DEF svc
  <2>3. CASE CutShort
    BY <2>1, <2>3 DEF RestartComesBack, CutShort
  <2>4. QED
    BY <1>4, <2>2, <2>3 DEF LaunchFails
<1>5. QED  BY <1>2, <1>3, <1>4

(* However service commands overlap, a restart leaves the gateway stopped  *)
(* only if its start fails or the process dies before it (execRestart).    *)
THEOREM RestartsComeBack == Spec => []RestartComesBack
<1>1. Init => RestartComesBack
  BY DEF Init, RestartComesBack
<1>2. ASSUME CoreInv, RestartComesBack, [Next]_vars  PROVE RestartComesBack'
  <2>1. CASE \E s \in Slot :
               LaunchCtl(s) \/ RestartStop(s) \/ RestartStart(s) \/ LaunchFails(s)
    BY <1>2, <2>1, ServiceRuns
  <2>2. CASE \E s \in Slot :
               \/ Execute(s)
               \/ Resolve(s) \/ Lookup(s) \/ LookupFails(s) \/ ReadConfig(s) \/ Refuse(s)
               \/ ReadOld(s) \/ BackupOpen(s) \/ BackupWrite(s) \/ ConfigOpen(s)
               \/ ConfigWrite(s) \/ ReadOldFails(s) \/ BackupFails(s) \/ ConfigFails(s)
    BY <1>2, <2>2, SleepersSleep, ServiceApart
  <2>3. CASE Crash
    BY <1>2, <2>3 DEF Crash, CutShort, RestartComesBack
  <2>4. CASE Tick \/ MoveConfig \/ UNCHANGED vars
    BY <1>2, <2>4 DEF Tick, MoveConfig, vars, svc, RestartComesBack
  <2>5. QED
    BY <1>2, <2>1, <2>2, <2>3, <2>4 DEF Next, Step, Failure
<1>3. QED
  BY <1>1, <1>2, CoreInvariance, PTL DEF Spec
-----------------------------------------------------------------------------
(* The texts of the config file.                                           *)

(* Nothing holds a text of the config file that is absent or junk.         *)
LEMMA NotText ==
    \A c \in Content : ~Holds(Absent, c) /\ ~Holds(Empty, c) /\ Holds(Whole(c), c)
BY ExecutorConstants DEF Holds, Absent, Empty, Whole

(* What leaves the files alone, and brings nobody into a write.            *)
LEMMA VersionApart ==
    ASSUME VersionInv, UNCHANGED <<files, marks>>,
           \A r \in Slot : job'[r] = job[r] \/ job'[r].pc \notin WritePcs
    PROVE  VersionInv'
<1> USE DEF files, marks
<1>1. OneWriter'
  BY DEF VersionInv, OneWriter
<1>2. WriterIsSafe'
  BY DEF VersionInv, WriterIsSafe, Disturbed, BackedUp, WritePcs
<1>3. EveryVersionKept'
  BY DEF VersionInv, EveryVersionKept
<1>4. QED  BY <1>1, <1>2, <1>3 DEF VersionInv

(* Steps of that kind: everything but the steps of a write.                *)
LEMMA ApartSteps ==
    ASSUME CoreInv, NEW s \in Slot,
           \/ Execute(s) \/ Resolve(s) \/ Lookup(s) \/ LookupFails(s) \/ ReadConfig(s)
           \/ Refuse(s) \/ ConfigFails(s) \/ LaunchCtl(s) \/ RestartStop(s)
           \/ RestartStart(s) \/ LaunchFails(s)
    PROVE  /\ UNCHANGED <<files, marks>>
           /\ \A r \in Slot : job'[r] = job[r] \/ job'[r].pc \notin WritePcs
<1>1. job \in [Slot -> Job]
  BY TypeParts DEF CoreInv, JobsOK
<1>2. UNCHANGED <<files, marks>>
  BY DEF Execute, Resolve, Lookup, LookupFails, ReadConfig, Refuse, ConfigFails,
     LaunchCtl, RestartStop, RestartStart, LaunchFails
<1>3. ASSUME Return(s)
      PROVE  \A r \in Slot : job'[r] = job[r] \/ job'[r].pc \notin WritePcs
  BY <1>1, <1>3, JobReturn DEF WritePcs
<1>4. ASSUME NEW l \in Pcs \ WritePcs, Goto(s, l)
      PROVE  \A r \in Slot : job'[r] = job[r] \/ job'[r].pc \notin WritePcs
  BY <1>1, <1>4, JobGoto
<1>5. ASSUME NEW l, l \notin WritePcs, NEW q, job' = [job EXCEPT ![s].pc = l, ![s].path = q]
      PROVE  \A r \in Slot : job'[r] = job[r] \/ job'[r].pc \notin WritePcs
  BY <1>1, <1>5 DEF Job
<1>6. ASSUME NEW l, l \notin WritePcs, NEW k, NEW a,
             job' = [job EXCEPT ![s].kind = k, ![s].arg = a, ![s].pc = l]
      PROVE  \A r \in Slot : job'[r] = job[r] \/ job'[r].pc \notin WritePcs
  BY <1>1, <1>6 DEF Job
<1>7. CASE Execute(s)
  <2>1. PICK q \in Request :
          job' = [job EXCEPT ![s].kind = q[1], ![s].arg = q[2],
                             ![s].pc = IF q[1] \in ConfigKinds THEN "path" ELSE "run"]
    BY <1>7 DEF Execute
  <2>2. (IF q[1] \in ConfigKinds THEN "path" ELSE "run") \notin WritePcs
    BY DEF WritePcs
  <2>3. QED  BY <1>2, <1>6, <2>1, <2>2
<1>8. CASE Resolve(s)
  BY <1>2, <1>3, <1>4, <1>5, <1>8 DEF Resolve, Pcs, WritePcs
<1>9. CASE Lookup(s) \/ LookupFails(s)
  BY <1>2, <1>3, <1>5, <1>9 DEF Lookup, LookupFails, Found, Return, WritePcs
<1>10. CASE RestartStop(s)
  BY <1>2, <1>4, <1>10 DEF RestartStop, Pcs, WritePcs
<1>11. CASE \/ ReadConfig(s) \/ Refuse(s) \/ ConfigFails(s) \/ LaunchCtl(s)
            \/ RestartStart(s) \/ LaunchFails(s)
  BY <1>2, <1>3, <1>11 DEF ReadConfig, Refuse, ConfigFails, LaunchCtl, RestartStart,
     LaunchFails
<1>12. QED
  BY <1>7, <1>8, <1>9, <1>10, <1>11

(* Nobody else is in a write when one starts that overlaps none, for all   *)
(* of a process write the same file.                                       *)
LEMMA StartsAlone ==
    ASSUME CoreInv, NEW s \in Slot, Using(s, {"write"}), Writing(job[s].path) = {}
    PROVE  \A r \in Slot : job[r].pc \notin WritePcs
BY TypeParts DEF CoreInv, JobsOK, KindFits, Using, Writing, Busy, UsePcs, WritePcs

(* The old file is read.                                                   *)
LEMMA VersionReadOld ==
    ASSUME CoreInv, VersionInv, NEW s \in Slot, ReadOld(s)  PROVE VersionInv'
<1> DEFINE p == job[s].path
           l == IF disk[p] = Absent THEN "open" ELSE "backup"
<1>1. JobsOK /\ FilesOK /\ RestOK
  BY TypeParts DEF CoreInv
<1>2. /\ Using(s, {"write"}) /\ UNCHANGED <<disk, baks, versions, collided, unsaved>>
      /\ overlapped' = (overlapped \/ Writing(p) # {})
      /\ job' = [job EXCEPT ![s].data = disk[p], ![s].at = now, ![s].pc = l]
  BY DEF ReadOld, files
<1>3. p \in Path
  BY <1>1, <1>2 DEF JobsOK, Using, UsePcs
<1>4. /\ job'[s].pc = l /\ job'[s].path = p /\ job'[s].data = disk[p]
      /\ \A r \in Slot : r # s => job'[r] = job[r]
  BY <1>1, <1>2 DEF JobsOK, Job
<1>5. ~overlapped' => ~overlapped /\ \A r \in Slot : job[r].pc \notin WritePcs
  BY <1>2, StartsAlone
<1>6. OneWriter'
  BY <1>4, <1>5 DEF OneWriter
<1>7. EveryVersionKept'
  BY <1>2 DEF VersionInv, EveryVersionKept
<1>8. WriterIsSafe'
  <2>1. SUFFICES ASSUME ~Disturbed'
                 PROVE  /\ job'[s].pc \in {"backup", "copy"} =>
                             job'[s].data = disk'[job'[s].path]
                        /\ job'[s].pc # "copy" /\ job'[s].pc # "store"
                        /\ job'[s].pc = "open" =>
                             \A v \in versions' : v[1] = job'[s].path =>
                               \E t \in 0..MaxNow : Holds(baks'[job'[s].path][t], v[2])
    BY <1>4, <1>5 DEF WriterIsSafe, Disturbed, WritePcs, BackedUp, Holds
  <2>2. ASSUME disk[p] = Absent, NEW v \in versions, v[1] = p
        PROVE  \E t \in 0..MaxNow : Holds(baks[p][t], v[2])
    <3>1. v[2] \in Content
      BY <1>1 DEF FilesOK
    <3>2. ~Holds(disk[v[1]], v[2])
      BY <2>2, <3>1, NotText
    <3>3. ~overlapped /\ ~collided /\ ~unsaved
      BY <1>2, <1>5, <2>1 DEF Disturbed
    <3>4. QED
      BY <2>2, <3>2, <3>3 DEF VersionInv, EveryVersionKept
  <2>3. l # "copy" /\ l # "store" /\ (l = "open" => disk[p] = Absent)
    OBVIOUS
  <2> HIDE DEF l, p
  <2>4. QED
    BY <1>2, <1>4, <2>2, <2>3
<1>9. QED  BY <1>6, <1>7, <1>8 DEF VersionInv

(* The old file is not backed up, which the history keeps.                 *)
LEMMA VersionUnsaved ==
    ASSUME CoreInv, VersionInv, NEW s \in Slot, ReadOldFails(s) \/ BackupFails(s)
    PROVE  VersionInv'
<1>1. job \in [Slot -> Job]
  BY TypeParts DEF CoreInv, JobsOK
<1>2. unsaved' /\ Goto(s, "open")
  BY DEF ReadOldFails, BackupFails
<1>3. job'[s].pc = "open" /\ \A r \in Slot : r # s => job'[r] = job[r]
  BY <1>1, <1>2, JobGoto DEF Pcs
<1>4. OneWriter'
  <2>1. CASE ReadOldFails(s)
    <3>1. ~overlapped' => ~overlapped /\ \A r \in Slot : job[r].pc \notin WritePcs
      BY <2>1, StartsAlone DEF ReadOldFails
    <3>2. QED
      BY <1>3, <3>1 DEF OneWriter
  <2>2. CASE BackupFails(s)
    BY <1>3, <2>2 DEF VersionInv, OneWriter, BackupFails, WritePcs
  <2>3. QED  BY <2>1, <2>2
<1>5. QED
  BY <1>2, <1>4 DEF VersionInv, WriterIsSafe, EveryVersionKept, Disturbed

(* A step of a write: nobody else is in one while none overlap.            *)
LEMMA WriterMoves ==
    ASSUME CoreInv, OneWriter, NEW s \in Slot, job[s].pc \in WritePcs,
           NEW l \in WritePcs, Goto(s, l), overlapped' = overlapped
    PROVE  /\ OneWriter'
           /\ job'[s].pc = l /\ job'[s].path = job[s].path
           /\ job'[s].data = job[s].data /\ job'[s].at = job[s].at
           /\ job[s].path \in Path /\ job[s].at \in 0..MaxNow
           /\ ~overlapped => \A r \in Slot : job'[r].pc \in WritePcs => r = s
<1>1. JobsOK
  BY TypeParts DEF CoreInv
<1>2. l \in Pcs
  BY DEF WritePcs, Pcs
<1>3. /\ job'[s].pc = l /\ job'[s].path = job[s].path
      /\ job'[s].data = job[s].data /\ job'[s].at = job[s].at
      /\ \A r \in Slot : r # s => job'[r] = job[r]
  BY <1>1, <1>2, JobGoto DEF JobsOK
<1>4. job[s].path \in Path /\ job[s].at \in 0..MaxNow
  BY <1>1 DEF JobsOK, Job, UsePcs, WritePcs
<1>5. QED
  BY <1>3, <1>4 DEF OneWriter

(* The backup is created, empty; its name was free.                        *)
LEMMA VersionBackupOpen ==
    ASSUME CoreInv, VersionInv, NEW s \in Slot, BackupOpen(s)  PROVE VersionInv'
<1> DEFINE p == job[s].path
           t == job[s].at
<1>1. FilesOK
  BY TypeParts DEF CoreInv
<1>2. /\ job[s].pc = "backup" /\ Goto(s, "copy")
      /\ collided' = (collided \/ baks[p][t] # Absent)
      /\ baks' = [baks EXCEPT ![p][t] = Empty]
      /\ UNCHANGED <<disk, versions, overlapped, unsaved>>
  BY DEF BackupOpen
<1>3. /\ OneWriter' /\ job'[s].pc = "copy" /\ job'[s].path = p
      /\ job'[s].data = job[s].data /\ job'[s].at = t
      /\ p \in Path /\ t \in 0..MaxNow
      /\ ~overlapped => \A r \in Slot : job'[r].pc \in WritePcs => r = s
  BY <1>2, WriterMoves DEF VersionInv, WritePcs
<1> HIDE DEF p, t
<1>4. baks'[p][t] = Empty /\ \A q \in Path : \A u \in 0..MaxNow :
                                q # p \/ u # t => baks'[q][u] = baks[q][u]
  BY <1>1, <1>2, <1>3 DEF FilesOK
<1>5. ASSUME ~Disturbed'
      PROVE  ~overlapped /\ ~collided /\ ~unsaved /\ baks[p][t] = Absent
  BY <1>2, <1>5 DEF Disturbed
<1>6. EveryVersionKept'
  <2>1. SUFFICES ASSUME ~Disturbed', NEW v \in versions
                 PROVE  \/ Holds(disk[v[1]], v[2])
                        \/ \E u \in 0..MaxNow : Holds(baks'[v[1]][u], v[2])
    BY <1>2 DEF EveryVersionKept, Disturbed, Holds
  <2>2. v[1] \in Path /\ v[2] \in Content
    BY <1>1 DEF FilesOK
  <2>3. CASE Holds(disk[v[1]], v[2])
    BY <2>3
  <2>4. ASSUME NEW u \in 0..MaxNow, Holds(baks[v[1]][u], v[2])
        PROVE  Holds(baks'[v[1]][u], v[2])
    <3>1. ~(v[1] = p /\ u = t)
      BY <1>5, <2>1, <2>2, <2>4, NotText
    <3>2. QED  BY <1>4, <2>2, <2>4, <3>1
  <2>5. QED
    BY <1>5, <2>1, <2>3, <2>4 DEF VersionInv, EveryVersionKept
<1>7. WriterIsSafe'
  <2>1. SUFFICES ASSUME ~Disturbed'
                 PROVE  job'[s].data = disk'[job'[s].path]
                        /\ baks'[job'[s].path][job'[s].at] = Empty
    BY <1>3, <1>5 DEF WriterIsSafe, WritePcs
  <2>2. job[s].data = disk[p]
    BY <1>2, <1>5, <2>1 DEF VersionInv, WriterIsSafe, Disturbed, p
  <2>3. QED
    BY <1>2, <1>3, <1>4, <2>2
<1>8. QED  BY <1>3, <1>6, <1>7 DEF VersionInv

(* The backup is written: all that the file ever held is in backups now.   *)
LEMMA VersionBackupWrite ==
    ASSUME CoreInv, VersionInv, NEW s \in Slot, BackupWrite(s)  PROVE VersionInv'
<1> DEFINE p == job[s].path
           t == job[s].at
<1>1. FilesOK /\ JobsOK
  BY TypeParts DEF CoreInv
<1>2. /\ job[s].pc = "copy" /\ Goto(s, "open")
      /\ baks' = [baks EXCEPT ![p][t] = Over(baks[p][t], job[s].data)]
      /\ UNCHANGED <<disk, versions, overlapped, collided, unsaved>>
  BY DEF BackupWrite, marks
<1>3. /\ OneWriter' /\ job'[s].pc = "open" /\ job'[s].path = p
      /\ p \in Path /\ t \in 0..MaxNow
      /\ ~overlapped => \A r \in Slot : job'[r].pc \in WritePcs => r = s
  BY <1>2, WriterMoves DEF VersionInv, WritePcs
<1>4. job[s].data \in File /\ baks[p][t] \in File
  BY <1>1, <1>3 DEF JobsOK, Job, FilesOK
<1>5. ASSUME ~Disturbed
      PROVE  baks[p][t] = Empty /\ Over(baks[p][t], job[s].data) = disk[p]
  <2>1. baks[p][t] = Empty /\ job[s].data = disk[p]
    BY <1>2, <1>5 DEF VersionInv, WriterIsSafe
  <2>2. QED  BY <1>4, <2>1, OverFile
<1> HIDE DEF p, t
<1>6. ASSUME ~Disturbed
      PROVE  /\ baks[p][t] = Empty /\ baks'[p][t] = disk[p]
             /\ \A q \in Path : \A u \in 0..MaxNow :
                  q # p \/ u # t => baks'[q][u] = baks[q][u]
  BY <1>1, <1>2, <1>3, <1>5, <1>6 DEF FilesOK
<1>7. ASSUME ~Disturbed, NEW v \in versions
      PROVE  /\ v[1] = p => \E u \in 0..MaxNow : Holds(baks'[p][u], v[2])
             /\ \/ Holds(disk[v[1]], v[2])
                \/ \E u \in 0..MaxNow : Holds(baks'[v[1]][u], v[2])
  <2>1. v[1] \in Path /\ v[2] \in Content
    BY <1>1 DEF FilesOK
  <2>2. CASE Holds(disk[v[1]], v[2])
    BY <1>3, <1>6, <1>7, <2>2
  <2>3. ASSUME NEW u \in 0..MaxNow, Holds(baks[v[1]][u], v[2])
        PROVE  Holds(baks'[v[1]][u], v[2])
    <3>1. ~(v[1] = p /\ u = t)
      BY <1>6, <1>7, <2>1, <2>3, NotText
    <3>2. QED  BY <1>6, <1>7, <2>1, <2>3, <3>1
  <2>4. QED
    BY <1>7, <2>2, <2>3 DEF VersionInv, EveryVersionKept, Disturbed
<1>8. EveryVersionKept'
  BY <1>2, <1>7 DEF EveryVersionKept, Disturbed, Holds
<1>9. WriterIsSafe'
  <2>1. SUFFICES ASSUME ~Disturbed
                 PROVE  \A v \in versions' : v[1] = job'[s].path =>
                          \E u \in 0..MaxNow : Holds(baks'[job'[s].path][u], v[2])
    BY <1>2, <1>3 DEF WriterIsSafe, Disturbed, WritePcs, BackedUp, Holds
  <2>2. QED  BY <1>2, <1>3, <1>7, <2>1
<1>10. QED  BY <1>3, <1>8, <1>9 DEF VersionInv
(* The file is truncated, once all that it ever held is backed up.         *)
LEMMA VersionConfigOpen ==
    ASSUME CoreInv, VersionInv, NEW s \in Slot, ConfigOpen(s)  PROVE VersionInv'
<1> DEFINE p == job[s].path
<1>1. FilesOK
  BY TypeParts DEF CoreInv
<1>2. /\ job[s].pc = "open" /\ Goto(s, "store")
      /\ disk' = [disk EXCEPT ![p] = Empty]
      /\ UNCHANGED <<baks, versions, overlapped, collided, unsaved>>
  BY DEF ConfigOpen, marks
<1>3. /\ OneWriter' /\ job'[s].pc = "store" /\ job'[s].path = p /\ p \in Path
      /\ ~overlapped => \A r \in Slot : job'[r].pc \in WritePcs => r = s
  BY <1>2, WriterMoves DEF VersionInv, WritePcs
<1>4. ASSUME ~Disturbed, NEW v \in versions, v[1] = p
      PROVE  \E u \in 0..MaxNow : Holds(baks[p][u], v[2])
  BY <1>2, <1>4 DEF VersionInv, WriterIsSafe, BackedUp
<1> HIDE DEF p
<1>5. disk'[p] = Empty /\ \A q \in Path : q # p => disk'[q] = disk[q]
  BY <1>1, <1>2, <1>3 DEF FilesOK
<1>6. ASSUME ~Disturbed, NEW v \in versions
      PROVE  \/ Holds(disk'[v[1]], v[2])
             \/ \E u \in 0..MaxNow : Holds(baks[v[1]][u], v[2])
  <2>1. CASE v[1] = p
    BY <1>4, <1>6, <2>1
  <2>2. CASE v[1] # p
    <3>1. disk'[v[1]] = disk[v[1]]
      BY <1>1, <1>5, <2>2 DEF FilesOK
    <3>2. QED
      BY <1>6, <3>1 DEF VersionInv, EveryVersionKept, Disturbed
  <2>3. QED  BY <2>1, <2>2
<1>7. EveryVersionKept'
  BY <1>2, <1>6 DEF EveryVersionKept, Disturbed, Holds
<1>8. WriterIsSafe'
  <2>1. SUFFICES ASSUME ~Disturbed
                 PROVE  /\ disk'[job'[s].path] = Empty
                        /\ \A v \in versions' : v[1] = job'[s].path =>
                             \E u \in 0..MaxNow : Holds(baks'[job'[s].path][u], v[2])
    BY <1>2, <1>3 DEF WriterIsSafe, Disturbed, WritePcs, BackedUp, Holds
  <2>2. QED  BY <1>2, <1>3, <1>4, <1>5, <2>1
<1>9. QED  BY <1>3, <1>7, <1>8 DEF VersionInv

(* The new text is written; the goroutine leaves the write.                *)
LEMMA VersionConfigWrite ==
    ASSUME CoreInv, VersionInv, NEW s \in Slot, ConfigWrite(s)  PROVE VersionInv'
<1> DEFINE p == job[s].path
           c == job[s].arg
<1>1. FilesOK /\ JobsOK /\ KindFits
  BY TypeParts DEF CoreInv
<1>2. /\ job[s].pc = "store" /\ Return(s)
      /\ disk' = [disk EXCEPT ![p] = Over(disk[p], Whole(c))]
      /\ versions' = versions \union {<<p, c>>}
      /\ UNCHANGED <<baks, overlapped, collided, unsaved>>
  BY DEF ConfigWrite
<1>3. p \in Path /\ c \in Content
  BY <1>1, <1>2 DEF JobsOK, KindFits, UsePcs, WritePcs
<1>4. job'[s].pc = "idle" /\ \A r \in Slot : r # s => job'[r] = job[r]
  BY <1>1, <1>2, JobReturn DEF JobsOK
<1>5. OneWriter'
  BY <1>2, <1>4 DEF VersionInv, OneWriter, WritePcs
<1>6. ~overlapped => \A r \in Slot : job'[r].pc \notin WritePcs
  BY <1>2, <1>4 DEF VersionInv, OneWriter, WritePcs
<1>7. WriterIsSafe'
  BY <1>2, <1>6 DEF WriterIsSafe, Disturbed, WritePcs
<1>8. ASSUME ~Disturbed
      PROVE  /\ Over(disk[p], Whole(c)) = Whole(c)
             /\ \A v \in versions : v[1] = p =>
                  \E u \in 0..MaxNow : Holds(baks[p][u], v[2])
  <2>1. disk[p] = Empty /\ BackedUp(p)
    BY <1>2, <1>8 DEF VersionInv, WriterIsSafe
  <2>2. Over(disk[p], Whole(c)) = Whole(c)
    BY <1>3, <2>1, Files, OverFile
  <2>3. QED  BY <2>1, <2>2 DEF BackedUp
<1> HIDE DEF p, c
<1>9. ASSUME ~Disturbed
      PROVE  disk'[p] = Whole(c) /\ \A q \in Path : q # p => disk'[q] = disk[q]
  BY <1>1, <1>2, <1>3, <1>8, <1>9 DEF FilesOK
<1>10. ASSUME ~Disturbed, NEW v \in versions'
       PROVE  \/ Holds(disk'[v[1]], v[2])
              \/ \E u \in 0..MaxNow : Holds(baks[v[1]][u], v[2])
  <2>1. CASE v = <<p, c>>
    BY <1>3, <1>9, <1>10, <2>1, NotText
  <2>2. CASE v \in versions /\ v[1] = p
    BY <1>8, <1>10, <2>2
  <2>3. CASE v \in versions /\ v[1] # p
    <3>1. disk'[v[1]] = disk[v[1]]
      BY <1>1, <1>9, <1>10, <2>3 DEF FilesOK
    <3>2. QED
      BY <1>10, <2>3, <3>1 DEF VersionInv, EveryVersionKept, Disturbed
  <2>4. QED  BY <1>2, <1>10, <2>1, <2>2, <2>3
<1>11. EveryVersionKept'
  BY <1>2, <1>10 DEF EveryVersionKept, Disturbed, Holds
<1>12. QED  BY <1>5, <1>7, <1>11 DEF VersionInv

(* No text the config file ever held is lost, at any moment, unless writes *)
(* overlap, two backups share a second, or a backup fails (execConfig).    *)
THEOREM VersionsKept == Spec => []EveryVersionKept
<1>1. Init => VersionInv
  <2> SUFFICES ASSUME Init  PROVE VersionInv
    OBVIOUS
  <2>1. \A s \in Slot : job[s].pc = "idle"
    BY DEF Init, Idle
  <2>2. OneWriter /\ WriterIsSafe
    BY <2>1 DEF OneWriter, WriterIsSafe, WritePcs
  <2>3. EveryVersionKept
    BY DEF Init, EveryVersionKept, Holds
  <2>4. QED  BY <2>2, <2>3 DEF VersionInv
<1>2. ASSUME CoreInv, VersionInv, [Next]_vars  PROVE VersionInv'
  <2>1. CASE \E s \in Slot :
               \/ Execute(s) \/ Resolve(s) \/ Lookup(s) \/ LookupFails(s)
               \/ ReadConfig(s) \/ Refuse(s) \/ ConfigFails(s) \/ LaunchCtl(s)
               \/ RestartStop(s) \/ RestartStart(s) \/ LaunchFails(s)
    BY <1>2, <2>1, ApartSteps, VersionApart
  <2>2. CASE Crash
    <3>1. \A r \in Slot : job'[r].pc \notin WritePcs
      BY <2>2 DEF Crash, Idle, WritePcs
    <3>2. UNCHANGED <<files, marks>>
      BY <2>2 DEF Crash
    <3>3. QED  BY <1>2, <3>1, <3>2, VersionApart
  <2>3. CASE Tick \/ MoveConfig \/ UNCHANGED vars
    BY <1>2, <2>3, VersionApart DEF Tick, MoveConfig, vars
  <2>4. CASE \E s \in Slot :
               \/ ReadOld(s) \/ ReadOldFails(s) \/ BackupFails(s) \/ BackupOpen(s)
               \/ BackupWrite(s) \/ ConfigOpen(s) \/ ConfigWrite(s)
    BY <1>2, <2>4, VersionReadOld, VersionUnsaved, VersionBackupOpen, VersionBackupWrite,
       VersionConfigOpen, VersionConfigWrite
  <2>5. QED
    BY <1>2, <2>1, <2>2, <2>3, <2>4 DEF Next, Step, Failure
<1>3. VersionInv => EveryVersionKept
  BY DEF VersionInv
<1>4. QED
  BY <1>1, <1>2, <1>3, CoreInvariance, PTL DEF Spec
=============================================================================
