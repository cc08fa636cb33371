---------------------------- MODULE DaemonProofs ----------------------------
(***************************************************************************)
(* What is proved of Daemon, for every number of processes, of attempts at *)
(* recovery and of daemons killed before: types, the clean exit, and that  *)
(* a daemon that is the only one of its user can be found.                 *)
(*                                                                         *)
(* Both rest on what holds of a daemon that has met no error: its jobs,    *)
(* its state and its components agree, and no child has been lost.  After  *)
(* an error the recoveries may run beside one another and nothing is left  *)
(* of this order; the properties claim nothing then, and the proof shows   *)
(* that only a signal, an exception or a start that fails leads there.     *)
(***************************************************************************)
EXTENDS Daemon, TLAPS

-----------------------------------------------------------------------------
(***************************************************************************)
(* The invariant.                                                          *)
(***************************************************************************)

\* The start of a daemon, up to the readiness check.
Opening == {"check", "stale", "write", "opening"}

\* The place of the start and the state of the daemon.
StartAgrees(m) ==
    \/ m.state = "starting" /\ m.at["start"] \in Opening \cup {"ready"}
    \/ m.state \in {"running", "stopping", "stopped"} /\ m.at["start"] = "idle"

\* A daemon that has met no error.
Unerring(m) ==
    /\ m.lost = {} /\ m.timers = 0
    /\ \A r \in Recoveries : m.at[r] = "idle"
    /\ StartAgrees(m)
    /\ m.at["stop"] # "idle" => m.state = "stopping"
    /\ m.at["stop"] = "pid" => m.components = {} /\ m.managed = {}
    /\ m.at["start"] \in Opening => m.managed = {} /\ m.components \subseteq {"manager"}

\* The jobs that end a daemon; stop() is one of a shutdown, which is begun by a
\* signal or an exception.
Ending(m) ==
    /\ m.at["stop"] \in {"idle", "closing", "leaving", "pid"}
    /\ m.at["exit"] \in {"idle", "closing", "leaving"}
    /\ m.at["stop"] # "idle" \/ m.shutdown # "idle" => m.signalled

\* An error comes from there, or from the start, which then ends the daemon.
Signalled(m) ==
    /\ Ending(m)
    /\ m.state \in {"stopping", "stopped"} /\ ~m.erred => m.signalled
    /\ m.erred /\ ~m.signalled => m.at["start"] \in {"failed", "closing", "leaving"}

Sound(m) ==
    /\ m.proc = "absent" => m = Absent
    /\ m.proc = "alive" => Signalled(m)
    /\ m.proc = "alive" /\ ~m.erred => Unerring(m)
    /\ m.proc # "alive" => m.state = "stopped"
    /\ m.proc = "exit0" /\ ~m.erred => m.lost = {}

SoundInv == \A d \in Daemons : Sound(daemon[d])

-----------------------------------------------------------------------------
(***************************************************************************)
(* What the helpers of the model change of a daemon.                       *)
(***************************************************************************)

\* A job moves on.
LEMMA PutFields ==
    ASSUME NEW m \in Daemon, NEW j \in Jobs, NEW p \in Places
    PROVE  /\ Put(m, j, p) \in Daemon
           /\ Put(m, j, p).proc = m.proc /\ Put(m, j, p).state = m.state
           /\ Put(m, j, p).shutdown = m.shutdown
           /\ Put(m, j, p).signalled = m.signalled
           /\ Put(m, j, p).timers = m.timers
           /\ Put(m, j, p).components = m.components
           /\ Put(m, j, p).managed = m.managed /\ Put(m, j, p).lost = m.lost
           /\ Put(m, j, p).erred = m.erred
           /\ Put(m, j, p).heard = m.heard
           /\ \A i \in Jobs : Put(m, j, p).at[i] = IF i = j THEN p ELSE m.at[i]
<1>1. m.at \in [Jobs -> Places]
  BY DEF Daemon
<1>2. PICK a : a = [m.at EXCEPT ![j] = p]
  OBVIOUS
<1>3. a \in [Jobs -> Places] /\ \A i \in Jobs : a[i] = IF i = j THEN p ELSE m.at[i]
  BY <1>1, <1>2
<1>4. Put(m, j, p) = [m EXCEPT !.at = a]
  BY <1>2 DEF Put
<1>5. PICK n : n = [m EXCEPT !.at = a]
  OBVIOUS
<1>6. n \in Daemon
  BY <1>3, <1>5 DEF Daemon
<1>7. /\ n.proc = m.proc /\ n.state = m.state /\ n.shutdown = m.shutdown
      /\ n.signalled = m.signalled /\ n.timers = m.timers
      /\ n.components = m.components /\ n.managed = m.managed /\ n.lost = m.lost
      /\ n.erred = m.erred /\ n.heard = m.heard /\ n.at = a
  BY <1>5 DEF Daemon
<1> QED
  BY <1>3, <1>4, <1>5, <1>6, <1>7

LEMMA ForceErrorFields ==
    ASSUME NEW m \in Daemon
    PROVE  /\ ForceError(m) \in Daemon
           /\ ForceError(m).proc = m.proc /\ ForceError(m).state = "error"
           /\ ForceError(m).shutdown = m.shutdown
           /\ ForceError(m).signalled = m.signalled
           /\ ForceError(m).components = m.components
           /\ ForceError(m).managed = m.managed /\ ForceError(m).lost = m.lost
           /\ ForceError(m).erred
           /\ ForceError(m).at = m.at
<1>1. PICK n : n = ForceError(m)
  OBVIOUS
<1>2. m.timers + 1 \in Nat /\ "error" \in States
  BY DEF Daemon, States
<1>3. n = [m EXCEPT !.state = "error", !.timers = m.timers + 1, !.erred = TRUE]
  BY <1>1 DEF ForceError
<1>4. n \in Daemon
  BY <1>2, <1>3 DEF Daemon
<1>5. /\ n.proc = m.proc /\ n.state = "error" /\ n.shutdown = m.shutdown
      /\ n.signalled = m.signalled /\ n.components = m.components
      /\ n.managed = m.managed /\ n.lost = m.lost /\ n.erred /\ n.at = m.at
  BY <1>3 DEF Daemon
<1> QED
  BY <1>1, <1>4, <1>5

LEMMA ComponentErrorFields ==
    ASSUME NEW m \in Daemon
    PROVE  /\ ComponentError(m) \in Daemon
           /\ ComponentError(m).proc = m.proc
           /\ ComponentError(m).shutdown = m.shutdown
           /\ ComponentError(m).signalled = m.signalled
           /\ ComponentError(m).managed = m.managed
           /\ ComponentError(m).lost = m.lost
           /\ ComponentError(m).components = m.components
           /\ m.erred => ComponentError(m).erred
           /\ ComponentError(m).at = m.at
  BY ForceErrorFields DEF ComponentError

LEMMA DropFields ==
    ASSUME NEW m \in Daemon, NEW left \in SUBSET Apps
    PROVE  /\ Drop(m, left) \in Daemon
           /\ Drop(m, left).proc = m.proc /\ Drop(m, left).state = m.state
           /\ Drop(m, left).shutdown = m.shutdown
           /\ Drop(m, left).signalled = m.signalled
           /\ Drop(m, left).timers = m.timers
           /\ Drop(m, left).components = {} /\ Drop(m, left).managed = {}
           /\ Drop(m, left).lost = m.lost \cup left
           /\ Drop(m, left).erred = m.erred
           /\ Drop(m, left).heard = m.heard
           /\ Drop(m, left).at = m.at
  BY DEF Drop, Daemon

LEMMA BeginInitFields ==
    ASSUME NEW m \in Daemon, NEW j \in Jobs
    PROVE  /\ BeginInit(m, j) \in Daemon
           /\ BeginInit(m, j).proc = m.proc /\ BeginInit(m, j).state = m.state
           /\ BeginInit(m, j).shutdown = m.shutdown
           /\ BeginInit(m, j).signalled = m.signalled
           /\ BeginInit(m, j).timers = m.timers
           /\ BeginInit(m, j).components = m.components \cup {"manager"}
           /\ BeginInit(m, j).managed = {}
           /\ BeginInit(m, j).lost = m.lost \cup m.managed
           /\ BeginInit(m, j).erred = m.erred
           /\ \A i \in Jobs : BeginInit(m, j).at[i] = IF i = j THEN "opening" ELSE m.at[i]
<1>1. PICK k : k = [m EXCEPT !.components = @ \cup {"manager"}, !.managed = {},
                             !.lost = @ \cup m.managed]
  OBVIOUS
<1>2. k \in Daemon
  BY <1>1 DEF Daemon, Components
<1>3. /\ k.proc = m.proc /\ k.state = m.state /\ k.shutdown = m.shutdown
      /\ k.signalled = m.signalled /\ k.timers = m.timers
      /\ k.components = m.components \cup {"manager"} /\ k.managed = {}
      /\ k.lost = m.lost \cup m.managed /\ k.erred = m.erred /\ k.at = m.at
  BY <1>1 DEF Daemon
<1>4. BeginInit(m, j) = Put(k, j, "opening")
  BY <1>1 DEF BeginInit
<1>5. "opening" \in Places
  BY DEF Places
<1> QED
  BY <1>2, <1>3, <1>4, <1>5, PutFields

\* The jobs are four or more, the recoveries among them.
LEMMA JobNames ==
    /\ "start" \in Jobs /\ "stop" \in Jobs /\ "exit" \in Jobs
    /\ "start" # "stop" /\ "stop" # "exit" /\ "start" # "exit"
    /\ \A r \in Recoveries : r \in Jobs /\ r \notin {"start", "stop", "exit"}
    /\ \A j \in Jobs : j \in {"start", "stop", "exit"} \/ j \in Recoveries
  BY DaemonAssumption DEF Jobs

-----------------------------------------------------------------------------
(***************************************************************************)
(* Sound states.                                                           *)
(***************************************************************************)

Good(m) == m \in Daemon /\ Sound(m)

\* After an error little is asked.
LEMMA ErredGood ==
    ASSUME NEW m \in Daemon, m.proc = "alive", m.erred, Ending(m),
           m.signalled \/ m.at["start"] \in {"failed", "closing", "leaving"}
    PROVE  Good(m)
  BY DEF Good, Sound, Signalled

LEMMA UnerringGood ==
    ASSUME NEW m \in Daemon, m.proc = "alive", ~m.erred, Unerring(m), Ending(m),
           m.state \in {"stopping", "stopped"} => m.signalled
    PROVE  Good(m)
  BY DEF Good, Sound, Signalled

LEMMA AbsentType == Absent \in Daemon
<1>1. [j \in Jobs |-> "idle"] \in [Jobs -> Places]
  BY DEF Places
<1> QED
  BY <1>1 DEF Absent, Daemon, States

LEMMA ExitedGood ==
    ASSUME NEW m \in Daemon, NEW code \in {"exit0", "exit1", "killed"},
           code = "exit0" /\ ~m.erred => m.managed = {} /\ m.lost = {}
    PROVE  Good(Exited(m, code)) /\ Exited(m, code).proc = code
<1>1. PICK n : n = Exited(m, code)
  OBVIOUS
<1>2. n = [Absent EXCEPT !.proc = code, !.missed = m.missed,
                         !.lost = m.managed \cup m.lost, !.erred = m.erred]
  BY <1>1 DEF Exited
<1>3. n \in Daemon
  BY <1>2, AbsentType DEF Daemon
<1>4. /\ n.proc = code /\ n.lost = m.managed \cup m.lost /\ n.erred = m.erred
      /\ n.state = "stopped"
  BY <1>2 DEF Absent
<1> QED
  BY <1>1, <1>3, <1>4 DEF Good, Sound

\* A start that fails, whatever had been done of it.
LEMMA StartFailureGood ==
    ASSUME NEW m \in Daemon, m.proc = "alive", Ending(m)
    PROVE  Good(StartFailure(m)) /\ StartFailure(m).proc = "alive"
           /\ StartFailure(m).erred
           /\ StartFailure(m).signalled = m.signalled
<1>1. PICK f : f = ForceError(m)
  OBVIOUS
<1>2. /\ f \in Daemon /\ f.proc = "alive" /\ f.shutdown = m.shutdown
      /\ f.signalled = m.signalled /\ f.erred /\ f.at = m.at
  BY <1>1, ForceErrorFields
<1>3. PICK k : k = [f EXCEPT !.handlers = FALSE]
  OBVIOUS
<1>4. k \in Daemon
  BY <1>2, <1>3 DEF Daemon
<1>5. /\ k.proc = "alive" /\ k.shutdown = m.shutdown
      /\ k.signalled = m.signalled /\ k.erred /\ k.at = m.at
  BY <1>2, <1>3 DEF Daemon
<1>6. PICK n : n = StartFailure(m)
  OBVIOUS
<1>7. n = Put(k, "start", "failed")
  BY <1>1, <1>3, <1>6 DEF StartFailure
<1>8. "failed" \in Places
  BY DEF Places
<1>9. /\ n \in Daemon /\ n.proc = "alive" /\ n.shutdown = m.shutdown
      /\ n.signalled = m.signalled /\ n.erred
      /\ n.at["start"] = "failed" /\ n.at["stop"] = m.at["stop"]
      /\ n.at["exit"] = m.at["exit"]
  BY <1>4, <1>5, <1>7, <1>8, PutFields, JobNames
<1> QED
  BY <1>6, <1>9, ErredGood DEF Ending

\* A recovery that fails: there is one only after an error.
LEMMA RecoveryFailureGood ==
    ASSUME NEW m \in Daemon, NEW r \in Recoveries, m.proc = "alive", m.erred,
           Signalled(m)
    PROVE  Good(RecoveryFailure(m, r)) /\ RecoveryFailure(m, r).proc = "alive"
           /\ RecoveryFailure(m, r).erred
           /\ RecoveryFailure(m, r).signalled = m.signalled
<1>1. PICK k : k = IF m.state = "recovering" THEN ForceError(m) ELSE m
  OBVIOUS
<1>2. /\ k \in Daemon /\ k.proc = "alive" /\ k.shutdown = m.shutdown
      /\ k.signalled = m.signalled /\ k.erred /\ k.at = m.at
  BY <1>1, ForceErrorFields
<1>3. PICK n : n = RecoveryFailure(m, r)
  OBVIOUS
<1>4. n = Put(k, r, "idle")
  BY <1>1, <1>3 DEF RecoveryFailure
<1>5. "idle" \in Places
  BY DEF Places
<1>6. /\ n \in Daemon /\ n.proc = "alive" /\ n.shutdown = m.shutdown
      /\ n.signalled = m.signalled /\ n.erred
      /\ n.at["start"] = m.at["start"] /\ n.at["stop"] = m.at["stop"]
      /\ n.at["exit"] = m.at["exit"]
  BY <1>2, <1>4, <1>5, PutFields, JobNames
<1> QED
  BY <1>3, <1>6, ErredGood DEF Signalled, Ending

\* stop() fails.
LEMMA StopFailureGood ==
    ASSUME NEW m \in Daemon, m.proc = "alive", m.signalled, Ending(m)
    PROVE  Good(StopFailure(m)) /\ StopFailure(m).proc = "alive"
           /\ StopFailure(m).signalled
<1>1. PICK f : f = ForceError(m)
  OBVIOUS
<1>2. f \in Daemon /\ f.proc = "alive" /\ f.signalled /\ f.erred
      /\ f.at = m.at
  BY <1>1, ForceErrorFields
<1>3. PICK k : k = [f EXCEPT !.handlers = FALSE,
                             !.shutdown = IF @ = "stop" THEN "emergency" ELSE @]
  OBVIOUS
<1>4. k \in Daemon
  BY <1>2, <1>3 DEF Daemon
<1>5. k.proc = "alive" /\ k.signalled /\ k.erred /\ k.at = m.at
  BY <1>2, <1>3 DEF Daemon
<1>6. PICK n : n = StopFailure(m)
  OBVIOUS
<1>7. n = Put(k, "stop", "idle")
  BY <1>1, <1>3, <1>6 DEF StopFailure
<1>8. "idle" \in Places
  BY DEF Places
<1>9. n \in Daemon /\ n.proc = "alive" /\ n.signalled /\ n.erred
      /\ n.at["stop"] = "idle" /\ n.at["exit"] = m.at["exit"]
  BY <1>4, <1>5, <1>7, <1>8, PutFields, JobNames
<1> QED
  BY <1>6, <1>9, ErredGood DEF Ending

\* An initialisation that fails, by the start or by a recovery.
LEMMA InitFailureGood ==
    ASSUME NEW m \in Daemon, NEW j \in Jobs, NEW left \in SUBSET Apps,
           m.proc = "alive", Sound(m), m.at[j] = "opening"
    PROVE  Good(InitFailure(m, j, left)) /\ InitFailure(m, j, left).proc = "alive"
           /\ InitFailure(m, j, left).erred
           /\ InitFailure(m, j, left).signalled = m.signalled
<1>1. PICK c : c = ComponentError(m)
  OBVIOUS
<1>2. /\ c \in Daemon /\ c.proc = "alive" /\ c.shutdown = m.shutdown
      /\ c.signalled = m.signalled /\ (m.erred => c.erred) /\ c.at = m.at
  BY <1>1, ComponentErrorFields
<1>3. PICK n : n = Drop(c, left)
  OBVIOUS
<1>4. /\ n \in Daemon /\ n.proc = "alive" /\ n.shutdown = m.shutdown
      /\ n.signalled = m.signalled /\ (m.erred => n.erred) /\ n.at = m.at
  BY <1>2, <1>3, DropFields
<1>5. InitFailure(m, j, left) = IF j = "start" THEN StartFailure(n)
                                               ELSE RecoveryFailure(n, j)
  BY <1>1, <1>3 DEF InitFailure
<1>6. Signalled(m)
  BY DEF Sound
<1>7. CASE j = "start"
  BY <1>4, <1>5, <1>6, <1>7, StartFailureGood DEF Signalled, Ending
<1>8. CASE m.erred /\ j \in Recoveries
  <2>1. Signalled(n)
    BY <1>4, <1>6, <1>8 DEF Signalled, Ending
  <2> QED
    BY <1>4, <1>5, <1>8, <2>1, RecoveryFailureGood, JobNames
<1>9. CASE ~m.erred /\ j # "start"
  <2>1. Unerring(m)
    BY <1>9 DEF Sound
  <2> QED
    BY <1>6, <1>9, <2>1, JobNames DEF Unerring, Signalled, Ending
<1>10. CASE m.erred /\ j \in {"stop", "exit"}
  BY <1>6, <1>10 DEF Signalled, Ending
<1> QED
  BY <1>7, <1>8, <1>9, <1>10, JobNames

-----------------------------------------------------------------------------
(***************************************************************************)
(* The steps of one daemon.                                                *)
(***************************************************************************)

\* A daemon without errors and signals can be found once it has begun to listen,
\* unless it was told to exit.
Found(m, d, pid, path) ==
    m.proc = "alive" /\ ~m.signalled /\ ~m.erred =>
        /\ m.at["start"] \in {"opening", "ready", "idle"} => pid = d
        /\ m.at["exit"] = "idle" /\ m.at["start"] \in {"ready", "idle"} =>
               path = d /\ Healthy(m)

\* What a step of d has to do.
Kept(d, n) ==
    /\ Good(n) /\ n.proc # "absent"
    /\ Found(daemon[d], d, pidFile, socket) => Found(n, d, pidFile', socket')

Steps(d) ==
    /\ \E n : daemon' = [daemon EXCEPT ![d] = n] /\ Kept(d, n)
    /\ pidFile' \in {pidFile, d, None} /\ socket' \in {socket, d, None}

\* A daemon that has died, met an error or caught a signal is not to be found.
LEMMA NotFound ==
    ASSUME NEW d, NEW n, Good(n), n.proc # "absent",
           n.proc # "alive" \/ n.erred \/ n.signalled
    PROVE  Kept(d, n)
  BY DEF Kept, Found

LEMMA ExitedKept ==
    ASSUME NEW d, NEW m \in Daemon, NEW code \in {"exit0", "exit1", "killed"},
           code = "exit0" /\ ~m.erred => m.managed = {} /\ m.lost = {}
    PROVE  Kept(d, Exited(m, code))
  BY ExitedGood, NotFound

LEMMA StartFailureKept ==
    ASSUME NEW d, NEW m \in Daemon, m.proc = "alive", Ending(m)
    PROVE  Kept(d, StartFailure(m))
  BY StartFailureGood, NotFound

\* What is known of a daemon that takes a step.
LEMMA Living ==
    ASSUME TypeOK, SoundInv, NEW d \in Daemons, Alive(d)
    PROVE  /\ daemon[d] \in Daemon /\ daemon[d].proc = "alive" /\ Sound(daemon[d])
           /\ Signalled(daemon[d]) /\ Ending(daemon[d])
           /\ ~daemon[d].erred => Unerring(daemon[d])
  BY DEF TypeOK, SoundInv, Alive, Sound, Signalled

LEMMA StartStepKept ==
    ASSUME TypeOK, SoundInv, NEW d \in Daemons,
           \/ CheckPid(d) \/ RemoveStale(d) \/ EnvironmentFails(d)
           \/ StartupCleanup(d)
    PROVE  Steps(d)
<1> DEFINE m == daemon[d]
<1>1. Alive(d)
  BY DEF CheckPid, RemoveStale, EnvironmentFails, StartupCleanup, Becomes
<1>2. /\ m \in Daemon /\ m.proc = "alive" /\ Sound(m)
      /\ Signalled(m) /\ Ending(m) /\ (~m.erred => Unerring(m))
  BY <1>1, Living
<1>3. /\ pidFile' \in {pidFile, d, None} /\ socket' \in {socket, d, None}
  BY DEF CheckPid, RemoveStale, EnvironmentFails, StartupCleanup
<1>4. ASSUME NEW p \in {"stale", "write"}, m.at["start"] \in {"check", "stale"}
      PROVE  Kept(d, Put(m, "start", p))
  <2>1. PICK n : n = Put(m, "start", p)
    OBVIOUS
  <2>2. p \in Places /\ p \in Opening
    BY DEF Places, Opening
  <2>3. /\ n \in Daemon /\ n.proc = "alive" /\ n.state = m.state
        /\ n.shutdown = m.shutdown /\ n.signalled = m.signalled
        /\ n.timers = m.timers /\ n.components = m.components
        /\ n.managed = m.managed /\ n.lost = m.lost /\ n.erred = m.erred
        /\ \A i \in Jobs : n.at[i] = IF i = "start" THEN p ELSE m.at[i]
    BY <1>2, <2>1, <2>2, PutFields, JobNames
  <2>4. Ending(n)
    BY <1>2, <2>3, JobNames DEF Ending
  <2>5. m.erred => m.signalled
    BY <1>2, <1>4 DEF Signalled
  <2>6. CASE m.erred
    BY <2>1, <2>3, <2>4, <2>5, <2>6, ErredGood, NotFound
  <2>7. CASE ~m.erred
    <3>1. Unerring(n)
      BY <1>2, <1>4, <2>2, <2>3, <2>7, JobNames DEF Unerring, StartAgrees, Opening
    <3>2. Good(n)
      BY <1>2, <2>3, <2>4, <2>7, <3>1, UnerringGood DEF Signalled
    <3>3. Found(n, d, pidFile', socket')
      BY <2>3, JobNames DEF Found
    <3> QED
      BY <1>2, <2>1, <2>3, <3>2, <3>3 DEF Kept
  <2> QED
    BY <2>6, <2>7
<1>5. CASE CheckPid(d)
  <2>1. m.at["start"] = "check"
    BY <1>5 DEF CheckPid
  <2>2. \/ daemon' = [daemon EXCEPT ![d] = Put(m, "start", "write")]
        \/ daemon' = [daemon EXCEPT ![d] = StartFailure(m)]
        \/ daemon' = [daemon EXCEPT ![d] = Put(m, "start", "stale")]
    BY <1>5 DEF CheckPid, Becomes
  <2> QED
    BY <1>2, <1>3, <1>4, <2>1, <2>2, StartFailureKept DEF Steps
<1>6. CASE RemoveStale(d)
  <2>1. m.at["start"] = "stale"
    BY <1>6 DEF RemoveStale
  <2>2. daemon' = [daemon EXCEPT ![d] = Put(m, "start", "write")]
    BY <1>6 DEF RemoveStale, Becomes
  <2> QED
    BY <1>3, <1>4, <2>1, <2>2 DEF Steps
<1>7. CASE EnvironmentFails(d)
  <2>1. daemon' = [daemon EXCEPT ![d] = StartFailure(m)]
    BY <1>7 DEF EnvironmentFails, Becomes
  <2> QED
    BY <1>2, <1>3, <2>1, StartFailureKept DEF Steps
<1>8. CASE StartupCleanup(d)
  <2>1. PICK n : n = Put(m, "start", "closing")
    OBVIOUS
  <2>2. m.at["start"] = "failed" /\ daemon' = [daemon EXCEPT ![d] = n]
    BY <1>8, <2>1 DEF StartupCleanup, Becomes
  <2>3. m.erred
    BY <1>2, <2>2 DEF Unerring, StartAgrees, Opening
  <2>4. "closing" \in Places
    BY DEF Places
  <2>5. /\ n \in Daemon /\ n.proc = "alive"
        /\ n.shutdown = m.shutdown /\ n.signalled = m.signalled /\ n.erred
        /\ \A i \in Jobs : n.at[i] = IF i = "start" THEN "closing" ELSE m.at[i]
    BY <1>2, <2>1, <2>3, <2>4, PutFields, JobNames
  <2>6. Ending(n)
    BY <1>2, <2>5, JobNames DEF Ending
  <2>7. Kept(d, n)
    BY <2>5, <2>6, ErredGood, NotFound, JobNames
  <2> QED
    BY <1>3, <2>2, <2>7 DEF Steps
<1> QED
  BY <1>5, <1>6, <1>7, <1>8

\* The PID file is written, and the components begin to start.
LEMMA WritePidKept ==
    ASSUME TypeOK, SoundInv, NEW d \in Daemons, WritePid(d)
    PROVE  Steps(d)
<1> DEFINE m == daemon[d]
<1>1. Alive(d) /\ m.at["start"] = "write" /\ pidFile' = d /\ socket' = socket
  BY DEF WritePid, Becomes
<1>2. /\ m \in Daemon /\ m.proc = "alive" /\ Sound(m)
      /\ Signalled(m) /\ Ending(m) /\ (~m.erred => Unerring(m))
  BY <1>1, Living
<1>3. PICK k : k = [m EXCEPT !.handlers = TRUE]
  OBVIOUS
<1>4. k \in Daemon
  BY <1>2, <1>3 DEF Daemon
<1>5. /\ k.proc = m.proc /\ k.state = m.state /\ k.shutdown = m.shutdown
      /\ k.signalled = m.signalled /\ k.timers = m.timers
      /\ k.components = m.components /\ k.managed = m.managed /\ k.lost = m.lost
      /\ k.erred = m.erred /\ k.at = m.at
  BY <1>2, <1>3 DEF Daemon
<1>6. PICK n : n = BeginInit(k, "start")
  OBVIOUS
<1>7. daemon' = [daemon EXCEPT ![d] = n]
  BY <1>3, <1>6 DEF WritePid, Becomes
<1>8. /\ n \in Daemon /\ n.proc = "alive" /\ n.state = m.state
      /\ n.shutdown = m.shutdown /\ n.signalled = m.signalled
      /\ n.timers = m.timers /\ n.components = m.components \cup {"manager"}
      /\ n.managed = {} /\ n.lost = m.lost \cup m.managed /\ n.erred = m.erred
      /\ \A i \in Jobs : n.at[i] = IF i = "start" THEN "opening" ELSE m.at[i]
  <2>1. "start" \in Jobs
    BY JobNames
  <2>2. /\ n \in Daemon /\ n.proc = k.proc /\ n.state = k.state
        /\ n.shutdown = k.shutdown /\ n.signalled = k.signalled
        /\ n.timers = k.timers /\ n.components = k.components \cup {"manager"}
        /\ n.managed = {} /\ n.lost = k.lost \cup k.managed /\ n.erred = k.erred
        /\ \A i \in Jobs : n.at[i] = IF i = "start" THEN "opening" ELSE k.at[i]
    BY <1>4, <1>6, <2>1, BeginInitFields
  <2> QED
    BY <1>2, <1>5, <2>2
<1>9. Ending(n)
  BY <1>2, <1>8, JobNames DEF Ending
<1>10. m.erred => m.signalled
  BY <1>1, <1>2 DEF Signalled
<1>11. CASE m.erred
  <2>1. Kept(d, n)
    BY <1>8, <1>9, <1>10, <1>11, ErredGood, NotFound
  <2> QED
    BY <1>1, <1>7, <2>1 DEF Steps
<1>12. CASE ~m.erred
  <2>1. Unerring(n)
    BY <1>1, <1>2, <1>8, <1>12, JobNames DEF Unerring, StartAgrees, Opening
  <2>2. Good(n)
    BY <1>2, <1>8, <1>9, <1>12, <2>1, UnerringGood DEF Signalled
  <2>3. Found(n, d, pidFile', socket')
    BY <1>1, <1>8, JobNames DEF Found
  <2> QED
    BY <1>1, <1>2, <1>8, <1>7, <2>2, <2>3 DEF Steps, Kept
<1> QED
  BY <1>11, <1>12

\* The readiness check.
LEMMA ReadyKept ==
    ASSUME TypeOK, SoundInv, NEW d \in Daemons, Ready(d)
    PROVE  Steps(d)
<1> DEFINE m == daemon[d]
<1>1. Alive(d) /\ m.at["start"] = "ready" /\ pidFile' = pidFile /\ socket' = socket
  BY DEF Ready, Becomes
<1>2. /\ m \in Daemon /\ m.proc = "alive" /\ Sound(m)
      /\ Signalled(m) /\ Ending(m) /\ (~m.erred => Unerring(m))
  BY <1>1, Living
<1>3. CASE daemon' = [daemon EXCEPT ![d] = StartFailure(m)]
  BY <1>1, <1>2, <1>3, StartFailureKept DEF Steps
<1>4. CASE /\ Healthy(m)
           /\ daemon' = [daemon EXCEPT ![d] =
                  Put([m EXCEPT !.state = "running", !.attempts = {}], "start", "idle")]
  <2>1. PICK k : k = [m EXCEPT !.state = "running", !.attempts = {}]
    OBVIOUS
  <2>2. k \in Daemon
    BY <1>2, <2>1 DEF Daemon, States
  <2>3. /\ k.proc = m.proc /\ k.state = "running" /\ k.shutdown = m.shutdown
        /\ k.signalled = m.signalled /\ k.timers = m.timers
        /\ k.components = m.components /\ k.managed = m.managed /\ k.lost = m.lost
        /\ k.erred = m.erred /\ k.at = m.at
    BY <1>2, <2>1 DEF Daemon
  <2>4. PICK n : n = Put(k, "start", "idle")
    OBVIOUS
  <2>5. "idle" \in Places
    BY DEF Places
  <2>6. /\ n \in Daemon /\ n.proc = "alive" /\ n.state = "running"
        /\ n.shutdown = m.shutdown /\ n.signalled = m.signalled
        /\ n.timers = m.timers /\ n.components = m.components
        /\ n.managed = m.managed /\ n.lost = m.lost /\ n.erred = m.erred
        /\ \A i \in Jobs : n.at[i] = IF i = "start" THEN "idle" ELSE m.at[i]
    <3>1. "start" \in Jobs
      BY JobNames
    <3>2. /\ n \in Daemon /\ n.proc = k.proc /\ n.state = k.state
          /\ n.shutdown = k.shutdown /\ n.signalled = k.signalled
          /\ n.timers = k.timers /\ n.components = k.components
          /\ n.managed = k.managed /\ n.lost = k.lost /\ n.erred = k.erred
          /\ \A i \in Jobs : n.at[i] = IF i = "start" THEN "idle" ELSE k.at[i]
      BY <2>2, <2>4, <2>5, <3>1, PutFields
    <3> QED
      BY <1>2, <2>3, <3>2
  <2>7. Ending(n)
    BY <1>2, <2>6, JobNames DEF Ending
  <2>8. m.erred => m.signalled
    BY <1>1, <1>2 DEF Signalled
  <2>9. CASE m.erred
    <3>1. Kept(d, n)
      BY <2>6, <2>7, <2>8, <2>9, ErredGood, NotFound
    <3> QED
      BY <1>1, <1>4, <2>1, <2>4, <3>1 DEF Steps
  <2>10. CASE ~m.erred
    <3>1. Unerring(n)
      BY <1>1, <1>2, <2>6, <2>10, JobNames DEF Unerring, StartAgrees, Opening
    <3>2. Good(n)
      BY <1>2, <2>6, <2>7, <2>10, <3>1, UnerringGood
    <3>3. Found(m, d, pidFile, socket) => Found(n, d, pidFile', socket')
      BY <1>1, <1>2, <1>4, <2>6, <2>10, JobNames DEF Found, Healthy
    <3> QED
      BY <1>1, <1>2, <2>6, <1>4, <2>1, <2>4, <3>2, <3>3 DEF Steps, Kept
  <2> QED
    BY <2>9, <2>10
<1> QED
  BY <1>3, <1>4 DEF Ready, Becomes

\* The server listens, or finds the components cleared.
LEMMA OpenedKept ==
    ASSUME TypeOK, SoundInv, NEW d \in Daemons, NEW j \in Jobs, Opened(d, j)
    PROVE  Steps(d)
<1> DEFINE m == daemon[d]
<1>1. Alive(d) /\ m.at[j] = "opening" /\ pidFile' = pidFile /\ socket' = d
  BY DEF Opened, Becomes
<1>2. /\ m \in Daemon /\ m.proc = "alive" /\ Sound(m)
      /\ Signalled(m) /\ Ending(m) /\ (~m.erred => Unerring(m))
  BY <1>1, Living
<1>3. CASE daemon' = [daemon EXCEPT ![d] = InitFailure(m, j, {})]
  <2>1. Kept(d, InitFailure(m, j, {}))
    BY <1>1, <1>2, InitFailureGood, NotFound
  <2> QED
    BY <1>1, <1>3, <2>1 DEF Steps
<1>4. CASE daemon' = [daemon EXCEPT ![d] =
                Put([m EXCEPT !.components = Components], j,
                    IF j = "start" THEN "ready" ELSE "config")]
  <2>1. PICK k : k = [m EXCEPT !.components = Components]
    OBVIOUS
  <2>2. k \in Daemon
    BY <1>2, <2>1 DEF Daemon
  <2>3. /\ k.proc = m.proc /\ k.state = m.state /\ k.shutdown = m.shutdown
        /\ k.signalled = m.signalled /\ k.timers = m.timers
        /\ k.components = Components /\ k.managed = m.managed /\ k.lost = m.lost
        /\ k.erred = m.erred /\ k.at = m.at
    BY <1>2, <2>1 DEF Daemon
  <2>4. PICK p \in Places : p = IF j = "start" THEN "ready" ELSE "config"
    BY DEF Places
  <2>5. PICK n : n = Put(k, j, p)
    OBVIOUS
  <2>6. /\ n \in Daemon /\ n.proc = k.proc /\ n.state = k.state
        /\ n.shutdown = k.shutdown /\ n.signalled = k.signalled
        /\ n.timers = k.timers /\ n.components = k.components
        /\ n.managed = k.managed /\ n.lost = k.lost /\ n.erred = k.erred
        /\ \A i \in Jobs : n.at[i] = IF i = j THEN p ELSE k.at[i]
    BY <2>2, <2>4, <2>5, PutFields
  <2>7. j = "start" \/ j \in Recoveries
    BY <1>1, <1>2, JobNames DEF Ending
  <2>8. Ending(n)
    BY <1>2, <2>3, <2>6, <2>7, JobNames DEF Ending
  <2>9. CASE m.erred
    <3>1. m.signalled \/ n.at["start"] \in {"failed", "closing", "leaving"}
      BY <1>1, <1>2, <2>3, <2>6, <2>7, <2>9, JobNames DEF Signalled
    <3>2. Kept(d, n)
      BY <1>2, <2>3, <2>6, <2>8, <2>9, <3>1, ErredGood, NotFound
    <3> QED
      BY <1>1, <1>4, <2>1, <2>4, <2>5, <3>2 DEF Steps
  <2>10. CASE ~m.erred
    <3>1. j = "start"
      BY <1>1, <1>2, <2>7, <2>10 DEF Unerring
    <3>2. Unerring(n)
      <4>1. Unerring(m)
        BY <1>2, <2>10
      <4>2. m.state = "starting"
        BY <1>1, <3>1, <4>1 DEF Unerring, StartAgrees
      <4>3. m.at["stop"] = "idle"
        BY <4>1, <4>2 DEF Unerring
      <4>4. /\ n.state = "starting" /\ n.at["start"] = "ready"
            /\ n.at["stop"] = "idle" /\ n.lost = m.lost /\ n.timers = m.timers
            /\ \A r \in Recoveries : n.at[r] = m.at[r]
        BY <2>3, <2>4, <2>6, <3>1, <4>2, <4>3, JobNames
      <4> QED
        BY <4>1, <4>4 DEF Unerring, StartAgrees, Opening
    <3>3. Good(n)
      BY <1>2, <2>3, <2>6, <2>8, <2>10, <3>2, UnerringGood DEF Signalled
    <3>4. Found(m, d, pidFile, socket) => Found(n, d, pidFile', socket')
      BY <1>1, <1>2, <2>3, <2>6, <2>10, <3>1, JobNames DEF Found, Healthy
    <3> QED
      BY <1>1, <1>2, <2>3, <2>6, <1>4, <2>1, <2>4, <2>5, <3>3, <3>4 DEF Steps, Kept
  <2> QED
    BY <2>9, <2>10
<1> QED
  BY <1>3, <1>4 DEF Opened, Becomes

LEMMA OpenFailsKept ==
    ASSUME TypeOK, SoundInv, NEW d \in Daemons, NEW j \in Jobs, OpenFails(d, j)
    PROVE  Steps(d)
<1> DEFINE m == daemon[d]
<1>1. Alive(d) /\ m.at[j] = "opening" /\ pidFile' = pidFile /\ socket' \in {socket, None}
  BY DEF OpenFails, Becomes
<1>2. m \in Daemon /\ m.proc = "alive" /\ Sound(m)
  BY <1>1, Living
<1>3. PICK left \in SUBSET m.managed : daemon' = [daemon EXCEPT ![d] = InitFailure(m, j, left)]
  BY DEF OpenFails, Becomes
<1>4. left \in SUBSET Apps
  BY <1>2 DEF Daemon
<1>5. Kept(d, InitFailure(m, j, left))
  BY <1>1, <1>2, <1>4, InitFailureGood, NotFound
<1> QED
  BY <1>1, <1>3, <1>5 DEF Steps

\* Without an error, only a job that ends the daemon closes anything.
LEMMA ClosingEnds ==
    ASSUME NEW m \in Daemon, m.proc = "alive", Sound(m), NEW j \in Jobs,
           m.at[j] \in {"closing", "leaving"}, ~m.erred
    PROVE  j = "stop" \/ j = "exit"
  BY JobNames DEF Sound, Unerring, StartAgrees, Opening

LEMMA CloseKept ==
    ASSUME TypeOK, SoundInv, NEW d \in Daemons, NEW j \in Jobs, Close(d, j)
    PROVE  Steps(d)
<1> DEFINE m == daemon[d]
<1>1. /\ Alive(d) /\ m.at[j] = "closing" /\ pidFile' = pidFile
      /\ socket' \in {socket, None}
  BY DEF Close, Becomes
<1>2. /\ m \in Daemon /\ m.proc = "alive" /\ Sound(m)
      /\ Signalled(m) /\ Ending(m) /\ (~m.erred => Unerring(m))
  BY <1>1, Living
<1>3. PICK k : k = [m EXCEPT !.components = @ \ {"server"}]
  OBVIOUS
<1>4. k \in Daemon
  BY <1>2, <1>3 DEF Daemon
<1>5. /\ k.proc = m.proc /\ k.state = m.state /\ k.shutdown = m.shutdown
      /\ k.signalled = m.signalled /\ k.timers = m.timers
      /\ k.components = m.components \ {"server"} /\ k.managed = m.managed
      /\ k.lost = m.lost /\ k.erred = m.erred /\ k.at = m.at
  BY <1>2, <1>3 DEF Daemon
<1>6. PICK n : n = Put(k, j, "leaving")
  OBVIOUS
<1>7. "leaving" \in Places
  BY DEF Places
<1>8. /\ n \in Daemon /\ n.proc = k.proc /\ n.state = k.state
      /\ n.shutdown = k.shutdown /\ n.signalled = k.signalled
      /\ n.timers = k.timers /\ n.components = k.components
      /\ n.managed = k.managed /\ n.lost = k.lost /\ n.erred = k.erred
      /\ \A i \in Jobs : n.at[i] = IF i = j THEN "leaving" ELSE k.at[i]
  BY <1>4, <1>6, <1>7, PutFields
<1>9. daemon' = [daemon EXCEPT ![d] = n]
  BY <1>3, <1>6 DEF Close, Becomes
<1>10. Ending(n)
  BY <1>1, <1>2, <1>5, <1>8, JobNames DEF Ending
<1>11. CASE m.erred
  <2>1. m.signalled \/ n.at["start"] \in {"failed", "closing", "leaving"}
    BY <1>2, <1>5, <1>8, <1>11, JobNames DEF Signalled
  <2>2. Kept(d, n)
    BY <1>2, <1>5, <1>8, <1>10, <1>11, <2>1, ErredGood, NotFound
  <2> QED
    BY <1>1, <1>9, <2>2 DEF Steps
<1>12. CASE ~m.erred
  <2>1. j = "stop" \/ j = "exit"
    BY <1>1, <1>2, <1>12, ClosingEnds
  <2>2. Unerring(n)
    BY <1>1, <1>2, <1>5, <1>8, <1>12, <2>1, JobNames
       DEF Unerring, StartAgrees, Opening
  <2>3. Good(n)
    BY <1>2, <1>5, <1>8, <1>10, <1>12, <2>2, UnerringGood DEF Signalled
  <2>4. j = "stop" => m.signalled
    BY <1>1, <1>2 DEF Ending
  <2>5. Found(m, d, pidFile, socket) => Found(n, d, pidFile', socket')
    BY <1>1, <1>2, <1>5, <1>8, <2>1, <2>4, JobNames DEF Found
  <2> QED
    BY <1>1, <1>2, <1>5, <1>8, <1>9, <2>3, <2>5 DEF Steps, Kept
<1> QED
  BY <1>11, <1>12

\* What a finished clean-up left is not lost.
LEMMA MissingFields ==
    ASSUME NEW m \in Daemon, NEW left \in SUBSET Apps
    PROVE  /\ Missing(m, left) \in Daemon
           /\ Missing(m, left).proc = m.proc /\ Missing(m, left).state = m.state
           /\ Missing(m, left).shutdown = m.shutdown
           /\ Missing(m, left).signalled = m.signalled
           /\ Missing(m, left).timers = m.timers
           /\ Missing(m, left).components = {} /\ Missing(m, left).managed = {}
           /\ Missing(m, left).lost = m.lost /\ Missing(m, left).erred = m.erred
           /\ Missing(m, left).at = m.at
<1>1. PICK k : k = Drop(m, {})
  OBVIOUS
<1>2. /\ k \in Daemon /\ k.proc = m.proc /\ k.state = m.state
      /\ k.shutdown = m.shutdown /\ k.signalled = m.signalled
      /\ k.timers = m.timers /\ k.components = {} /\ k.managed = {}
      /\ k.lost = m.lost \cup {} /\ k.erred = m.erred /\ k.at = m.at
  <2>1. {} \in SUBSET Apps
    OBVIOUS
  <2> QED
    BY <1>1, <2>1, DropFields
<1>3. PICK n : n = [k EXCEPT !.missed = @ \cup left]
  OBVIOUS
<1>4. n \in Daemon
  BY <1>2, <1>3 DEF Daemon
<1>5. /\ n.proc = k.proc /\ n.state = k.state /\ n.shutdown = k.shutdown
      /\ n.signalled = k.signalled /\ n.timers = k.timers
      /\ n.components = k.components /\ n.managed = k.managed
      /\ n.lost = k.lost /\ n.erred = k.erred /\ n.at = k.at
  BY <1>2, <1>3 DEF Daemon
<1> QED
  BY <1>1, <1>2, <1>3, <1>4, <1>5 DEF Missing

\* The references are dropped, and the job goes on or ends the daemon.
LEMMA LeaveKept ==
    ASSUME TypeOK, SoundInv, NEW d \in Daemons, NEW j \in Jobs, Leave(d, j)
    PROVE  Steps(d)
<1>1. PICK ok, left, k :
          /\ ok \in BOOLEAN /\ left \in SUBSET daemon[d].managed
          /\ k = IF ok THEN Missing(daemon[d], left)
                       ELSE Drop(ComponentError(daemon[d]), left)
          /\ daemon[d].at[j] = "leaving"
          /\ Alive(d)
          /\ daemon' = [daemon EXCEPT ![d] =
                           AfterCleanup([k EXCEPT !.heard = FALSE], j, ok)]
          /\ UNCHANGED <<pidFile, socket>>
  BY DEF Leave, Becomes
<1> DEFINE m == daemon[d]
<1>2. /\ m \in Daemon /\ m.proc = "alive" /\ Sound(m)
      /\ Signalled(m) /\ Ending(m) /\ (~m.erred => Unerring(m))
  BY <1>1, Living
<1>3. left \in SUBSET Apps
  BY <1>1, <1>2 DEF Daemon
<1> DEFINE Cleared ==
      /\ k \in Daemon /\ k.proc = "alive" /\ k.shutdown = m.shutdown
      /\ k.signalled = m.signalled /\ k.components = {} /\ k.managed = {}
      /\ (m.erred => k.erred) /\ k.at = m.at
      /\ ok => /\ k.state = m.state /\ k.timers = m.timers
               /\ k.lost = m.lost /\ k.erred = m.erred
<1>4. ASSUME ok PROVE Cleared
  <2>1. k = Missing(m, left)
    BY <1>1, <1>4
  <2> QED
    BY <1>2, <1>3, <2>1, MissingFields
<1>5. ASSUME ~ok PROVE Cleared
  <2>1. k = Drop(ComponentError(m), left)
    BY <1>1, <1>5
  <2>2. PICK c : c = ComponentError(m)
    OBVIOUS
  <2>3. /\ c \in Daemon /\ c.proc = "alive" /\ c.shutdown = m.shutdown
        /\ c.signalled = m.signalled /\ (m.erred => c.erred) /\ c.at = m.at
    BY <1>2, <2>2, ComponentErrorFields
  <2> QED
    BY <1>3, <1>5, <2>1, <2>2, <2>3, DropFields
<1>6. Cleared
  BY <1>4, <1>5
<1>7. PICK n : n = [k EXCEPT !.heard = FALSE]
  OBVIOUS
<1>8. n \in Daemon
  BY <1>6, <1>7 DEF Daemon
<1>9. /\ n.proc = k.proc /\ n.state = k.state
      /\ n.shutdown = k.shutdown /\ n.signalled = k.signalled
      /\ n.timers = k.timers /\ n.components = k.components
      /\ n.managed = k.managed /\ n.lost = k.lost /\ n.erred = k.erred
      /\ n.at = k.at
  BY <1>6, <1>7 DEF Daemon
<1>10. /\ n.proc = "alive" /\ n.shutdown = m.shutdown
       /\ n.signalled = m.signalled /\ n.components = {} /\ n.managed = {}
       /\ (m.erred => n.erred) /\ n.at = m.at
       /\ ok => /\ n.state = m.state /\ n.timers = m.timers
                /\ n.lost = m.lost /\ n.erred = m.erred
  BY <1>6, <1>9
<1>11. Ending(n)
  BY <1>2, <1>10 DEF Ending
<1>12. daemon' = [daemon EXCEPT ![d] = AfterCleanup(n, j, ok)]
  BY <1>1, <1>7
<1>13. m.at[j] = "leaving"
  BY <1>1
<1>14. ~m.erred => m.lost = {} /\ (j = "stop" \/ j = "exit")
  BY <1>2, <1>13, ClosingEnds DEF Unerring
<1>15. CASE j = "start"
  <2>1. AfterCleanup(n, j, ok) = Exited(n, "exit1")
    BY <1>15 DEF AfterCleanup
  <2> QED
    BY <1>1, <1>8, <1>12, <2>1, ExitedKept DEF Steps
<1>16. CASE j = "exit"
  <2>1. AfterCleanup(n, j, ok) = Exited(n, IF ok THEN "exit0" ELSE "exit1")
    BY <1>16, JobNames DEF AfterCleanup
  <2>2. ok /\ ~n.erred => n.managed = {} /\ n.lost = {}
    BY <1>10, <1>14
  <2> QED
    BY <1>1, <1>8, <1>12, <2>1, <2>2, ExitedKept DEF Steps
<1>17. CASE j \in Recoveries
  <2>1. PICK b : b = BeginInit(n, j)
    OBVIOUS
  <2>2. AfterCleanup(n, j, ok) = b
    BY <1>17, <2>1, JobNames DEF AfterCleanup
  <2>3. /\ b \in Daemon /\ b.proc = n.proc /\ b.shutdown = n.shutdown
        /\ b.signalled = n.signalled /\ b.erred = n.erred
        /\ \A i \in Jobs : b.at[i] = IF i = j THEN "opening" ELSE n.at[i]
    BY <1>8, <2>1, BeginInitFields
  <2>4. m.erred
    BY <1>14, <1>17, JobNames
  <2>5. Ending(b) /\ b.at["start"] = m.at["start"]
    BY <1>10, <1>11, <1>17, <2>3, JobNames DEF Ending
  <2>6. Kept(d, b)
    BY <1>2, <1>10, <2>3, <2>4, <2>5, ErredGood, NotFound DEF Signalled
  <2> QED
    BY <1>1, <1>12, <2>2, <2>6 DEF Steps
<1>18. CASE j = "stop" /\ ~ok
  <2>1. AfterCleanup(n, j, ok) = StopFailure(n)
    BY <1>18, JobNames DEF AfterCleanup
  <2>2. n.signalled
    BY <1>2, <1>10, <1>13, <1>18 DEF Ending
  <2>3. Kept(d, StopFailure(n))
    BY <1>8, <1>10, <1>11, <2>2, StopFailureGood, NotFound
  <2> QED
    BY <1>1, <1>12, <2>1, <2>3 DEF Steps
<1>19. CASE j = "stop" /\ ok
  <2>1. PICK h : h = [n EXCEPT !.handlers = FALSE]
    OBVIOUS
  <2>2. h \in Daemon
    BY <1>8, <2>1 DEF Daemon
  <2>3. /\ h.proc = n.proc /\ h.state = n.state
        /\ h.shutdown = n.shutdown /\ h.signalled = n.signalled
        /\ h.timers = n.timers /\ h.components = n.components
        /\ h.managed = n.managed /\ h.lost = n.lost /\ h.erred = n.erred
        /\ h.at = n.at
    BY <1>8, <2>1 DEF Daemon
  <2>4. PICK b : b = Put(h, "stop", "pid")
    OBVIOUS
  <2>5. AfterCleanup(n, j, ok) = b
    BY <1>19, <2>1, <2>4, JobNames DEF AfterCleanup
  <2>6. "pid" \in Places
    BY DEF Places
  <2>7. /\ b \in Daemon /\ b.proc = h.proc /\ b.state = h.state
        /\ b.shutdown = h.shutdown /\ b.signalled = h.signalled
        /\ b.timers = h.timers /\ b.components = h.components
        /\ b.managed = h.managed /\ b.lost = h.lost /\ b.erred = h.erred
        /\ \A i \in Jobs : b.at[i] = IF i = "stop" THEN "pid" ELSE h.at[i]
    BY <2>2, <2>4, <2>6, PutFields, JobNames
  <2>8. m.signalled
    BY <1>2, <1>13, <1>19 DEF Ending
  <2>9. Ending(b) /\ b.at["start"] = m.at["start"] /\ b.signalled /\ b.proc = "alive"
    BY <1>10, <1>11, <2>3, <2>7, <2>8, JobNames DEF Ending
  <2>10. CASE m.erred
    BY <1>1, <1>10, <1>12, <2>3, <2>5, <2>7, <2>9, <2>10, ErredGood, NotFound DEF Steps
  <2>11. CASE ~m.erred
    <3>1. Unerring(b)
      <4>1. Unerring(m)
        BY <1>2, <2>11
      <4>2. m.state = "stopping"
        BY <1>13, <1>19, <4>1 DEF Unerring
      <4>3. m.at["start"] = "idle"
        BY <4>1, <4>2 DEF Unerring, StartAgrees
      <4>4. /\ b.state = "stopping" /\ b.at["start"] = "idle"
            /\ b.lost = m.lost /\ b.timers = m.timers
            /\ b.components = {} /\ b.managed = {}
            /\ \A r \in Recoveries : b.at[r] = m.at[r]
        <5>1. n.state = m.state /\ n.lost = m.lost /\ n.timers = m.timers
          BY <1>10, <1>19
        <5>2. /\ b.state = n.state /\ b.lost = n.lost /\ b.timers = n.timers
              /\ b.components = n.components /\ b.managed = n.managed
          BY <2>3, <2>7
        <5>3. \A i \in Jobs : b.at[i] = IF i = "stop" THEN "pid" ELSE m.at[i]
          BY <1>10, <2>3, <2>7
        <5> QED
          BY <1>10, <4>2, <4>3, <5>1, <5>2, <5>3, JobNames
      <4> QED
        BY <4>1, <4>4 DEF Unerring, StartAgrees, Opening
    <3>2. ~b.erred
      BY <1>10, <1>19, <2>3, <2>7, <2>11
    <3>3. Good(b)
      BY <2>7, <2>9, <3>1, <3>2, UnerringGood
    <3> QED
      BY <1>1, <1>12, <2>5, <2>9, <3>3, NotFound DEF Steps
  <2> QED
    BY <2>10, <2>11
<1> QED
  BY <1>15, <1>16, <1>17, <1>18, <1>19, JobNames

\* A step that touches neither the jobs nor the state of a daemon, of which a
\* shutdown has begun.
LEMMA SilentKept ==
    ASSUME NEW d, NEW m \in Daemon, NEW n \in Daemon,
           m.proc = "alive", Signalled(m), ~m.erred => Unerring(m),
           n.proc = "alive", n.signalled, n.state = m.state, n.at = m.at,
           n.timers = m.timers, n.components = m.components,
           n.managed \subseteq m.managed, n.lost = m.lost, n.erred = m.erred
    PROVE  Kept(d, n)
<1>1. Ending(n)
  BY DEF Signalled, Ending
<1>2. CASE m.erred
  BY <1>1, <1>2, ErredGood, NotFound
<1>3. CASE ~m.erred
  <2>1. Unerring(n)
    BY <1>3 DEF Unerring, StartAgrees
  <2> QED
    BY <1>1, <1>3, <2>1, UnerringGood, NotFound
<1> QED
  BY <1>2, <1>3

\* Only an error sets the timer of a recovery.
LEMMA RecoveryTimerKept ==
    ASSUME TypeOK, SoundInv, NEW d \in Daemons, RecoveryTimer(d)
    PROVE  Steps(d)
<1>1. PICK k : k = [daemon[d] EXCEPT !.timers = @ - 1]
  OBVIOUS
<1>2. /\ daemon[d].timers > 0 /\ Alive(d) /\ UNCHANGED <<pidFile, socket>>
      /\ IF k.state = "error" /\ k.attempts # Recoveries
         THEN LET r == CHOOSE r \in Recoveries : r \notin k.attempts IN
              daemon' = [daemon EXCEPT ![d] =
                            Put([k EXCEPT !.state = "recovering",
                                          !.attempts = @ \cup {r}], r, "closing")]
         ELSE daemon' = [daemon EXCEPT ![d] = k]
  BY <1>1 DEF RecoveryTimer, Becomes
<1> DEFINE m == daemon[d]
<1>3. /\ m \in Daemon /\ m.proc = "alive" /\ Sound(m)
      /\ Signalled(m) /\ Ending(m) /\ (~m.erred => Unerring(m))
  BY <1>2, Living
<1>4. m.timers - 1 \in Nat
  BY <1>2, <1>3 DEF Daemon
<1>5. k \in Daemon
  BY <1>1, <1>3, <1>4 DEF Daemon
<1>6. /\ k.proc = "alive" /\ k.shutdown = m.shutdown
      /\ k.signalled = m.signalled /\ k.erred = m.erred /\ k.at = m.at
      /\ k.attempts = m.attempts
  BY <1>1, <1>3 DEF Daemon
<1>7. m.erred
  BY <1>2, <1>3 DEF Unerring
<1>8. CASE daemon' = [daemon EXCEPT ![d] = k]
  <2>1. Ending(k) /\ Signalled(k)
    BY <1>3, <1>6, <1>7 DEF Ending, Signalled
  <2>2. Good(k)
    BY <1>5, <1>6, <1>7, <2>1, ErredGood DEF Signalled
  <2>3. Found(m, d, pidFile, socket) => Found(k, d, pidFile', socket')
    BY <1>6, <1>7 DEF Found
  <2> QED
    BY <1>2, <1>3, <1>6, <1>8, <2>2, <2>3 DEF Steps, Kept
<1>9. CASE k.state = "error" /\ k.attempts # Recoveries
  <2>1. PICK r : r = CHOOSE q \in Recoveries : q \notin k.attempts
    OBVIOUS
  <2>2. \E q \in Recoveries : q \notin k.attempts
    BY <1>5, <1>9 DEF Daemon
  <2>3. r \in Recoveries
    BY <2>1, <2>2
  <2>4. PICK h : h = [k EXCEPT !.state = "recovering", !.attempts = @ \cup {r}]
    OBVIOUS
  <2>5. h \in Daemon
    BY <1>5, <2>3, <2>4 DEF Daemon, States
  <2>6. /\ h.proc = "alive" /\ h.shutdown = k.shutdown
        /\ h.signalled = k.signalled /\ h.erred = k.erred /\ h.at = k.at
    BY <1>5, <1>6, <2>4 DEF Daemon
  <2>7. PICK n : n = Put(h, r, "closing")
    OBVIOUS
  <2>8. daemon' = [daemon EXCEPT ![d] = n]
    BY <1>2, <1>9, <2>1, <2>4, <2>7
  <2>9. "closing" \in Places
    BY DEF Places
  <2>10. /\ n \in Daemon /\ n.proc = h.proc /\ n.shutdown = h.shutdown
         /\ n.signalled = h.signalled /\ n.erred = h.erred
         /\ \A i \in Jobs : n.at[i] = IF i = r THEN "closing" ELSE h.at[i]
    BY <2>3, <2>5, <2>7, <2>9, PutFields, JobNames
  <2>11. /\ n.at["start"] = m.at["start"] /\ n.at["stop"] = m.at["stop"]
         /\ n.at["exit"] = m.at["exit"] /\ n.proc = "alive" /\ n.erred
         /\ n.signalled = m.signalled /\ n.shutdown = m.shutdown
    BY <1>6, <1>7, <2>3, <2>6, <2>10, JobNames
  <2>12. Ending(n) /\ Signalled(n)
    BY <1>3, <1>7, <2>11 DEF Ending, Signalled
  <2>13. Good(n)
    BY <2>10, <2>11, <2>12, ErredGood DEF Signalled
  <2>14. Found(m, d, pidFile, socket) => Found(n, d, pidFile', socket')
    BY <2>11 DEF Found
  <2> QED
    BY <1>2, <2>8, <2>11, <2>13, <2>14 DEF Steps, Kept
<1> QED
  BY <1>2, <1>8, <1>9

\* The configuration is loaded again, after an error.
LEMMA ReloadKept ==
    ASSUME TypeOK, SoundInv, NEW d \in Daemons, NEW r \in Recoveries, Reload(d, r)
    PROVE  Steps(d)
<1> DEFINE m == daemon[d]
<1>1. Alive(d) /\ m.at[r] = "config" /\ UNCHANGED <<pidFile, socket>>
  BY DEF Reload, Becomes
<1>2. /\ m \in Daemon /\ m.proc = "alive" /\ Sound(m)
      /\ Signalled(m) /\ Ending(m) /\ (~m.erred => Unerring(m))
  BY <1>1, Living
<1>3. m.erred
  BY <1>1, <1>2 DEF Unerring
<1>4. CASE daemon' = [daemon EXCEPT ![d] = RecoveryFailure(m, r)]
  <2>1. Good(RecoveryFailure(m, r)) /\ RecoveryFailure(m, r).erred
    BY <1>2, <1>3, RecoveryFailureGood
  <2> QED
    <3>1. RecoveryFailure(m, r).proc # "absent"
      BY <1>2, <1>3, RecoveryFailureGood
    <3> QED
      BY <1>1, <1>4, <2>1, <3>1, NotFound DEF Steps
<1>5. ASSUME NEW k \in Daemon, k.proc = "alive", k.erred, k.at = m.at,
             k.signalled = m.signalled, k.shutdown = m.shutdown,
             daemon' = [daemon EXCEPT ![d] = Put(k, r, "idle")]
      PROVE  Steps(d)
  <2>1. PICK n : n = Put(k, r, "idle")
    OBVIOUS
  <2>2. "idle" \in Places
    BY DEF Places
  <2>3. /\ n \in Daemon /\ n.proc = k.proc /\ n.shutdown = k.shutdown
        /\ n.signalled = k.signalled /\ n.erred = k.erred
        /\ \A i \in Jobs : n.at[i] = IF i = r THEN "idle" ELSE k.at[i]
    <3>1. r \in Jobs
      BY JobNames
    <3>2. k \in Daemon
      BY <1>5
    <3> QED
      BY <2>1, <2>2, <3>1, <3>2, PutFields
  <2>4. /\ n.at["start"] = m.at["start"] /\ n.at["stop"] = m.at["stop"]
        /\ n.at["exit"] = m.at["exit"] /\ n.proc = "alive" /\ n.erred
        /\ n.signalled = m.signalled /\ n.shutdown = m.shutdown
    BY <1>5, <2>3, JobNames
  <2>5. Ending(n) /\ Signalled(n)
    BY <1>2, <1>3, <2>4 DEF Ending, Signalled
  <2>6. Good(n)
    BY <2>3, <2>4, <2>5, ErredGood DEF Signalled
  <2> QED
    BY <1>1, <1>5, <2>1, <2>4, <2>6, NotFound DEF Steps
<1>6. ASSUME NEW left \in SUBSET m.managed, m.state = "recovering",
             daemon' = [daemon EXCEPT ![d] =
                 Put([m EXCEPT !.state = "running", !.managed = left], r, "idle")]
      PROVE  Steps(d)
  <2>1. PICK k : k = [m EXCEPT !.state = "running", !.managed = left]
    OBVIOUS
  <2>2. k \in Daemon /\ k.proc = "alive" /\ k.erred /\ k.at = m.at
        /\ k.signalled = m.signalled /\ k.shutdown = m.shutdown
    BY <1>2, <1>3, <2>1 DEF Daemon, States
  <2> QED
    BY <1>5, <1>6, <2>1, <2>2
<1>7. ASSUME NEW left \in SUBSET m.managed,
             daemon' = [daemon EXCEPT ![d] =
                 Put([m EXCEPT !.managed = left], r, "idle")]
      PROVE  Steps(d)
  <2>1. PICK k : k = [m EXCEPT !.managed = left]
    OBVIOUS
  <2>2. k \in Daemon /\ k.proc = "alive" /\ k.erred /\ k.at = m.at
        /\ k.signalled = m.signalled /\ k.shutdown = m.shutdown
    BY <1>2, <1>3, <2>1 DEF Daemon
  <2> QED
    BY <1>5, <1>7, <2>1, <2>2
<1> QED
  BY <1>4, <1>6, <1>7 DEF Reload, Becomes

\* A signal begins the shutdown, or ends a daemon without handlers.
LEMMA SignalKept ==
    ASSUME TypeOK, SoundInv, NEW d \in Daemons, Signal(d)
    PROVE  Steps(d)
<1> DEFINE m == daemon[d]
<1>1. Alive(d) /\ UNCHANGED <<pidFile, socket>>
  BY DEF Signal, Becomes
<1>2. /\ m \in Daemon /\ m.proc = "alive" /\ Sound(m)
      /\ Signalled(m) /\ Ending(m) /\ (~m.erred => Unerring(m))
  BY <1>1, Living
<1>3. CASE daemon' = [daemon EXCEPT ![d] = Exited(m, "killed")]
  BY <1>1, <1>2, <1>3, ExitedKept DEF Steps
<1>4. CASE m.signalled /\ daemon' = [daemon EXCEPT ![d] = m]
  BY <1>1, <1>2, <1>4, SilentKept DEF Steps
<1>5. CASE daemon' = [daemon EXCEPT ![d] = BeginShutdown(m)]
  <2>1. PICK n : n = BeginShutdown(m)
    OBVIOUS
  <2>2. n \in Daemon
    BY <1>2, <2>1 DEF BeginShutdown, Daemon
  <2>3. /\ n.proc = "alive" /\ n.signalled /\ n.state = m.state /\ n.at = m.at
        /\ n.timers = m.timers /\ n.components = m.components
        /\ n.managed = m.managed /\ n.lost = m.lost /\ n.erred = m.erred
    BY <1>2, <2>1 DEF BeginShutdown, Daemon
  <2>4. Kept(d, n)
    BY <1>2, <2>2, <2>3, SilentKept
  <2> QED
    BY <1>1, <1>5, <2>1, <2>4 DEF Steps
<1> QED
  BY <1>3, <1>4, <1>5 DEF Signal, Becomes

\* An exception is an error, and begins a shutdown.
LEMMA ExceptionKept ==
    ASSUME TypeOK, SoundInv, NEW d \in Daemons, Exception(d)
    PROVE  Steps(d)
<1>1. PICK k, n :
          /\ k = [daemon[d] EXCEPT !.threw = TRUE]
          /\ n = IF k.state = "error" THEN k ELSE ForceError(k)
          /\ Alive(d) /\ UNCHANGED <<pidFile, socket>>
          /\ daemon' = [daemon EXCEPT ![d] =
                           IF ~k.handlers THEN Exited(k, "killed")
                           ELSE IF k.signalled THEN n ELSE BeginShutdown(n)]
  BY DEF Exception, Becomes
<1> DEFINE m == daemon[d]
<1>2. /\ m \in Daemon /\ m.proc = "alive" /\ Sound(m)
      /\ Signalled(m) /\ Ending(m) /\ (~m.erred => Unerring(m))
  BY <1>1, Living
<1>3. k \in Daemon
  BY <1>1, <1>2 DEF Daemon
<1>4. /\ k.proc = "alive" /\ k.state = m.state /\ k.signalled = m.signalled
      /\ k.shutdown = m.shutdown /\ k.at = m.at /\ k.erred = m.erred
  BY <1>1, <1>2 DEF Daemon
<1>5. m.state = "error" => m.erred
  BY <1>2 DEF Unerring, StartAgrees
<1>6. /\ n \in Daemon /\ n.proc = "alive" /\ n.signalled = m.signalled
      /\ n.shutdown = m.shutdown /\ n.at = m.at /\ n.erred
  <2>1. CASE k.state = "error"
    BY <1>1, <1>3, <1>4, <1>5, <2>1
  <2>2. CASE k.state # "error"
    BY <1>1, <1>3, <1>4, <2>2, ForceErrorFields
  <2> QED
    BY <2>1, <2>2
<1>7. CASE daemon' = [daemon EXCEPT ![d] = Exited(k, "killed")]
  BY <1>1, <1>3, <1>7, ExitedKept DEF Steps
<1>8. CASE m.signalled /\ daemon' = [daemon EXCEPT ![d] = n]
  <2>1. Ending(n)
    BY <1>2, <1>6 DEF Ending
  <2>2. Kept(d, n)
    BY <1>6, <1>8, <2>1, ErredGood, NotFound
  <2> QED
    BY <1>1, <1>8, <2>2 DEF Steps
<1>9. CASE daemon' = [daemon EXCEPT ![d] = BeginShutdown(n)]
  <2>1. PICK b : b = BeginShutdown(n)
    OBVIOUS
  <2>2. b \in Daemon
    BY <1>6, <2>1 DEF BeginShutdown, Daemon
  <2>3. b.proc = "alive" /\ b.signalled /\ b.erred /\ b.at = m.at
    BY <1>6, <2>1 DEF BeginShutdown, Daemon
  <2>4. Ending(b)
    BY <1>2, <2>3 DEF Ending
  <2>5. Kept(d, b)
    BY <2>2, <2>3, <2>4, ErredGood, NotFound
  <2> QED
    BY <1>1, <1>9, <2>1, <2>5 DEF Steps
<1> QED
  BY <1>1, <1>4, <1>7, <1>8, <1>9

\* Phases 2 and 3 of a shutdown, and a time-out of one.
LEMMA PhaseKept ==
    ASSUME TypeOK, SoundInv, NEW d \in Daemons,
           SaveState(d) \/ DrainConnections(d) \/ PhaseTimeout(d)
    PROVE  Steps(d)
<1> DEFINE m == daemon[d]
<1>1. Alive(d) /\ m.shutdown # "idle" /\ UNCHANGED <<pidFile, socket>>
  BY DEF SaveState, DrainConnections, PhaseTimeout, Becomes
<1>2. /\ m \in Daemon /\ m.proc = "alive" /\ Sound(m)
      /\ Signalled(m) /\ Ending(m) /\ (~m.erred => Unerring(m))
  BY <1>1, Living
<1>3. PICK p \in {"drain", "terminate", "emergency"} :
          daemon' = [daemon EXCEPT ![d] = [m EXCEPT !.shutdown = p]]
  BY DEF SaveState, DrainConnections, PhaseTimeout, Becomes
<1>4. PICK n : n = [m EXCEPT !.shutdown = p]
  OBVIOUS
<1>5. n \in Daemon
  BY <1>2, <1>4 DEF Daemon
<1>6. /\ n.proc = m.proc /\ n.signalled = m.signalled /\ n.state = m.state
      /\ n.at = m.at /\ n.timers = m.timers /\ n.components = m.components
      /\ n.managed = m.managed /\ n.lost = m.lost /\ n.erred = m.erred
  BY <1>2, <1>4 DEF Daemon
<1>7. m.signalled
  BY <1>1, <1>2 DEF Ending
<1>8. Kept(d, n)
  BY <1>2, <1>5, <1>6, <1>7, SilentKept
<1> QED
  BY <1>1, <1>3, <1>4, <1>8 DEF Steps

\* Phase 4 ends, and stop() begins, or is refused.
LEMMA StopProcessesKept ==
    ASSUME TypeOK, SoundInv, NEW d \in Daemons, StopProcesses(d)
    PROVE  Steps(d)
<1>1. PICK left, k :
          /\ left \in SUBSET daemon[d].managed
          /\ k = [daemon[d] EXCEPT !.managed = left]
          /\ k.shutdown = "terminate" /\ Alive(d)
          /\ UNCHANGED <<pidFile, socket>>
          /\ daemon' = [daemon EXCEPT ![d] =
                 IF "stopping" \in Transitions[k.state]
                 THEN Put([k EXCEPT !.state = "stopping", !.shutdown = "stop"],
                          "stop", "closing")
                 ELSE [k EXCEPT !.shutdown = "emergency"]]
  BY DEF StopProcesses, Becomes
<1> DEFINE m == daemon[d]
<1>2. /\ m \in Daemon /\ m.proc = "alive" /\ Sound(m)
      /\ Signalled(m) /\ Ending(m) /\ (~m.erred => Unerring(m))
  BY <1>1, Living
<1>3. k \in Daemon
  BY <1>1, <1>2 DEF Daemon
<1>4. /\ k.proc = m.proc /\ k.signalled = m.signalled /\ k.state = m.state
      /\ k.at = m.at /\ k.timers = m.timers /\ k.components = m.components
      /\ k.managed = left /\ k.lost = m.lost /\ k.erred = m.erred
      /\ k.shutdown = m.shutdown
  BY <1>1, <1>2 DEF Daemon
<1>5. m.signalled
  BY <1>1, <1>2, <1>4 DEF Ending
<1>6. CASE daemon' = [daemon EXCEPT ![d] = [k EXCEPT !.shutdown = "emergency"]]
  <2>1. PICK n : n = [k EXCEPT !.shutdown = "emergency"]
    OBVIOUS
  <2>2. n \in Daemon
    BY <1>3, <2>1 DEF Daemon
  <2>3. /\ n.proc = k.proc /\ n.signalled = k.signalled /\ n.state = k.state
        /\ n.at = k.at /\ n.timers = k.timers /\ n.components = k.components
        /\ n.managed = k.managed /\ n.lost = k.lost /\ n.erred = k.erred
    BY <1>3, <2>1 DEF Daemon
  <2>4. Kept(d, n)
    BY <1>1, <1>2, <1>4, <1>5, <2>2, <2>3, SilentKept
  <2> QED
    BY <1>1, <1>6, <2>1, <2>4 DEF Steps
<1>7. CASE /\ "stopping" \in Transitions[k.state]
           /\ daemon' = [daemon EXCEPT ![d] =
                 Put([k EXCEPT !.state = "stopping", !.shutdown = "stop"],
                     "stop", "closing")]
  <2>1. PICK h : h = [k EXCEPT !.state = "stopping", !.shutdown = "stop"]
    OBVIOUS
  <2>2. h \in Daemon
    BY <1>3, <2>1 DEF Daemon, States
  <2>3. /\ h.proc = k.proc /\ h.signalled = k.signalled /\ h.state = "stopping"
        /\ h.at = k.at /\ h.timers = k.timers /\ h.components = k.components
        /\ h.managed = k.managed /\ h.lost = k.lost /\ h.erred = k.erred
    BY <1>3, <2>1 DEF Daemon
  <2>4. PICK n : n = Put(h, "stop", "closing")
    OBVIOUS
  <2>5. "closing" \in Places /\ "stop" \in Jobs
    BY JobNames DEF Places
  <2>6. /\ n \in Daemon /\ n.proc = h.proc /\ n.state = h.state
        /\ n.signalled = h.signalled
        /\ n.timers = h.timers /\ n.components = h.components
        /\ n.managed = h.managed /\ n.lost = h.lost /\ n.erred = h.erred
        /\ \A i \in Jobs : n.at[i] = IF i = "stop" THEN "closing" ELSE h.at[i]
    BY <2>2, <2>4, <2>5, PutFields
  <2>7. /\ n.proc = "alive" /\ n.signalled /\ n.state = "stopping"
        /\ n.timers = m.timers /\ n.lost = m.lost /\ n.erred = m.erred
        /\ \A i \in Jobs : n.at[i] = IF i = "stop" THEN "closing" ELSE m.at[i]
    BY <1>2, <1>4, <1>5, <2>3, <2>6
  <2>8. /\ n.at["stop"] = "closing" /\ n.at["start"] = m.at["start"]
        /\ n.at["exit"] = m.at["exit"]
        /\ \A r \in Recoveries : n.at[r] = m.at[r]
    BY <2>7, JobNames
  <2>9. Ending(n)
    BY <1>2, <2>7, <2>8 DEF Ending
  <2>10. CASE m.erred
    BY <2>6, <2>7, <2>9, <2>10, ErredGood, NotFound, <1>1, <1>7, <2>1, <2>4 DEF Steps
  <2>11. CASE ~m.erred
    <3>1. Unerring(m)
      BY <1>2, <2>11
    <3>2. k.state = "running"
      BY <1>3, <1>7 DEF Daemon, States, Transitions
    <3>3. m.at["start"] = "idle"
      BY <1>4, <3>1, <3>2 DEF Unerring, StartAgrees
    <3>4. Unerring(n)
      BY <2>7, <2>8, <3>1, <3>3 DEF Unerring, StartAgrees, Opening
    <3>5. Good(n)
      BY <2>6, <2>7, <2>9, <2>11, <3>4, UnerringGood
    <3> QED
      BY <1>1, <1>7, <2>1, <2>4, <2>7, <3>5, NotFound DEF Steps
  <2> QED
    BY <2>10, <2>11
<1> QED
  BY <1>1, <1>6, <1>7

\* stop() ends, and the shutdown with it unless it has given up.
LEMMA StopEndsKept ==
    ASSUME TypeOK, SoundInv, NEW d \in Daemons, StopEnds(d)
    PROVE  Steps(d)
<1> DEFINE m == daemon[d]
<1>1. Alive(d) /\ m.at["stop"] = "pid" /\ pidFile' = None /\ socket' = socket
  BY DEF StopEnds, Becomes
<1>2. /\ m \in Daemon /\ m.proc = "alive" /\ Sound(m)
      /\ Signalled(m) /\ Ending(m) /\ (~m.erred => Unerring(m))
  BY <1>1, Living
<1>3. m.signalled
  BY <1>1, <1>2 DEF Ending
<1>4. CASE daemon' = [daemon EXCEPT ![d] = StopFailure(m)]
  <2>1. Kept(d, StopFailure(m))
    BY <1>2, <1>3, StopFailureGood, NotFound
  <2> QED
    BY <1>1, <1>4, <2>1 DEF Steps
<1>5. CASE daemon' = [daemon EXCEPT ![d] = Exited(m, "exit0")]
  <2>1. ~m.erred => m.managed = {} /\ m.lost = {}
    BY <1>1, <1>2 DEF Unerring
  <2>2. Kept(d, Exited(m, "exit0"))
    BY <1>2, <2>1, ExitedKept
  <2> QED
    BY <1>1, <1>5, <2>2 DEF Steps
<1>6. CASE daemon' = [daemon EXCEPT ![d] =
                         Put([m EXCEPT !.state = "stopped"], "stop", "idle")]
  <2>1. PICK h : h = [m EXCEPT !.state = "stopped"]
    OBVIOUS
  <2>2. h \in Daemon
    BY <1>2, <2>1 DEF Daemon, States
  <2>3. /\ h.proc = m.proc /\ h.signalled = m.signalled /\ h.state = "stopped"
        /\ h.at = m.at /\ h.timers = m.timers /\ h.components = m.components
        /\ h.managed = m.managed /\ h.lost = m.lost /\ h.erred = m.erred
    BY <1>2, <2>1 DEF Daemon
  <2>4. PICK n : n = Put(h, "stop", "idle")
    OBVIOUS
  <2>5. "idle" \in Places /\ "stop" \in Jobs
    BY JobNames DEF Places
  <2>6. /\ n \in Daemon /\ n.proc = h.proc /\ n.state = h.state
        /\ n.signalled = h.signalled
        /\ n.timers = h.timers /\ n.components = h.components
        /\ n.managed = h.managed /\ n.lost = h.lost /\ n.erred = h.erred
        /\ \A i \in Jobs : n.at[i] = IF i = "stop" THEN "idle" ELSE h.at[i]
    BY <2>2, <2>4, <2>5, PutFields
  <2>7. /\ n.proc = "alive" /\ n.signalled /\ n.state = "stopped"
        /\ n.timers = m.timers /\ n.lost = m.lost /\ n.erred = m.erred
        /\ \A i \in Jobs : n.at[i] = IF i = "stop" THEN "idle" ELSE m.at[i]
    BY <1>2, <1>3, <2>3, <2>6
  <2>8. /\ n.at["stop"] = "idle" /\ n.at["start"] = m.at["start"]
        /\ n.at["exit"] = m.at["exit"]
        /\ \A r \in Recoveries : n.at[r] = m.at[r]
    BY <2>7, JobNames
  <2>9. Ending(n)
    BY <1>2, <2>7, <2>8 DEF Ending
  <2>10. CASE m.erred
    BY <2>6, <2>7, <2>9, <2>10, ErredGood, NotFound, <1>1, <1>6, <2>1, <2>4 DEF Steps
  <2>11. CASE ~m.erred
    <3>1. Unerring(m)
      BY <1>2, <2>11
    <3>2. m.at["start"] = "idle"
      BY <1>1, <3>1 DEF Unerring, StartAgrees
    <3>3. Unerring(n)
      BY <2>7, <2>8, <3>1, <3>2 DEF Unerring, StartAgrees, Opening
    <3>4. Good(n)
      BY <2>6, <2>7, <2>9, <2>11, <3>3, UnerringGood
    <3> QED
      BY <1>1, <1>6, <2>1, <2>4, <2>7, <3>4, NotFound DEF Steps
  <2> QED
    BY <2>10, <2>11
<1> QED
  BY <1>4, <1>5, <1>6 DEF StopEnds, Becomes

\* The ends of a daemon that are not clean.
LEMMA DeathKept ==
    ASSUME TypeOK, SoundInv, NEW d \in Daemons,
           EmergencyExit(d) \/ ForceExit(d) \/ Crash(d)
    PROVE  Steps(d)
<1> DEFINE m == daemon[d]
<1>1. Alive(d) /\ pidFile' \in {pidFile, None} /\ socket' = socket
  BY DEF EmergencyExit, ForceExit, Crash, Becomes
<1>2. PICK code \in {"exit1", "killed"} : daemon' = [daemon EXCEPT ![d] = Exited(m, code)]
  BY DEF EmergencyExit, ForceExit, Crash, Becomes
<1>3. m \in Daemon
  BY <1>1, Living
<1>4. Kept(d, Exited(m, code))
  BY <1>3, ExitedKept
<1> QED
  BY <1>1, <1>2, <1>4 DEF Steps

\* A client reaches the server, which has its components.
LEMMA ServesHealthy ==
    ASSUME TypeOK, SoundInv, NEW d \in Daemons, Serves(d), ~daemon[d].erred
    PROVE  daemon[d].at["start"] \notin Opening /\ daemon[d].at["stop"] # "pid"
<1>1. Unerring(daemon[d]) /\ daemon[d].components = {"manager", "server"}
  BY Living DEF Serves, Healthy, Components
<1>2. "server" \notin {"manager"}
  OBVIOUS
<1> QED
  BY <1>1, <1>2 DEF Unerring

LEMMA ClientStartsKept ==
    ASSUME TypeOK, SoundInv, NEW d \in Daemons, NEW a \in Apps, ClientStarts(d, a)
    PROVE  Steps(d)
<1> DEFINE m == daemon[d]
<1>1. /\ Alive(d) /\ Serves(d) /\ UNCHANGED <<pidFile, socket>>
      /\ daemon' = [daemon EXCEPT ![d] = [m EXCEPT !.managed = @ \cup {a}]]
  BY DEF ClientStarts, Becomes
<1>2. /\ m \in Daemon /\ m.proc = "alive" /\ Sound(m)
      /\ Signalled(m) /\ Ending(m) /\ (~m.erred => Unerring(m))
  BY <1>1, Living
<1>3. PICK n : n = [m EXCEPT !.managed = @ \cup {a}]
  OBVIOUS
<1>4. n \in Daemon
  BY <1>2, <1>3 DEF Daemon
<1>5. /\ n.proc = m.proc /\ n.signalled = m.signalled /\ n.state = m.state
      /\ n.at = m.at /\ n.timers = m.timers /\ n.components = m.components
      /\ n.lost = m.lost /\ n.erred = m.erred /\ n.shutdown = m.shutdown
  BY <1>2, <1>3 DEF Daemon
<1>6. Ending(n)
  BY <1>2, <1>5 DEF Ending
<1>7. Found(m, d, pidFile, socket) => Found(n, d, pidFile', socket')
  BY <1>1, <1>5 DEF Found, Healthy
<1>8. CASE m.erred
  BY <1>1, <1>2, <1>3, <1>4, <1>5, <1>6, <1>7, <1>8, ErredGood DEF Steps, Kept, Signalled
<1>9. CASE ~m.erred
  <2>1. Unerring(n)
    BY <1>1, <1>2, <1>5, <1>9, ServesHealthy DEF Unerring, StartAgrees
  <2>2. Good(n)
    BY <1>2, <1>4, <1>5, <1>6, <1>9, <2>1, UnerringGood DEF Signalled
  <2> QED
    BY <1>1, <1>2, <1>5, <1>3, <1>7, <2>2 DEF Steps, Kept
<1> QED
  BY <1>8, <1>9

LEMMA ExitCommandKept ==
    ASSUME TypeOK, SoundInv, NEW d \in Daemons, ExitCommand(d)
    PROVE  Steps(d)
<1> DEFINE m == daemon[d]
<1>1. /\ Alive(d) /\ Serves(d) /\ UNCHANGED <<pidFile, socket>>
      /\ daemon' = [daemon EXCEPT ![d] = Put(m, "exit", "closing")]
  BY DEF ExitCommand, Becomes
<1>2. /\ m \in Daemon /\ m.proc = "alive" /\ Sound(m)
      /\ Signalled(m) /\ Ending(m) /\ (~m.erred => Unerring(m))
  BY <1>1, Living
<1>3. PICK n : n = Put(m, "exit", "closing")
  OBVIOUS
<1>4. "closing" \in Places /\ "exit" \in Jobs
  BY JobNames DEF Places
<1>5. /\ n \in Daemon /\ n.proc = m.proc /\ n.signalled = m.signalled
      /\ n.state = m.state /\ n.timers = m.timers
      /\ n.components = m.components /\ n.managed = m.managed
      /\ n.lost = m.lost /\ n.erred = m.erred /\ n.shutdown = m.shutdown
      /\ \A i \in Jobs : n.at[i] = IF i = "exit" THEN "closing" ELSE m.at[i]
  BY <1>2, <1>3, <1>4, PutFields
<1>6. /\ n.at["exit"] = "closing" /\ n.at["start"] = m.at["start"]
      /\ n.at["stop"] = m.at["stop"]
      /\ \A r \in Recoveries : n.at[r] = m.at[r]
  BY <1>5, JobNames
<1>7. Ending(n)
  BY <1>2, <1>5, <1>6 DEF Ending
<1>8. Found(m, d, pidFile, socket) => Found(n, d, pidFile', socket')
  BY <1>1, <1>5, <1>6 DEF Found
<1>9. CASE m.erred
  BY <1>1, <1>2, <1>3, <1>5, <1>6, <1>7, <1>8, <1>9, ErredGood DEF Steps, Kept, Signalled
<1>10. CASE ~m.erred
  <2>1. Unerring(n)
    BY <1>2, <1>5, <1>6, <1>10 DEF Unerring, StartAgrees
  <2>2. Good(n)
    BY <1>2, <1>5, <1>7, <1>10, <2>1, UnerringGood DEF Signalled
  <2> QED
    BY <1>1, <1>2, <1>5, <1>3, <1>8, <2>2 DEF Steps, Kept
<1> QED
  BY <1>9, <1>10

LEMMA LaunchKept ==
    ASSUME TypeOK, SoundInv, NEW d \in Daemons, Launch(d)
    PROVE  Steps(d)
<1>1. daemon[d] = Absent /\ UNCHANGED <<pidFile, socket>>
  BY DEF Launch, SoundInv, Sound
<1>2. daemon' = [daemon EXCEPT ![d] =
          Put([Absent EXCEPT !.proc = "alive", !.state = "starting"], "start", "check")]
  BY <1>1 DEF Launch
<1>3. PICK k : k = [Absent EXCEPT !.proc = "alive", !.state = "starting"]
  OBVIOUS
<1>4. k \in Daemon
  BY <1>3, AbsentType DEF Daemon, States
<1>5. /\ k.proc = "alive" /\ k.state = "starting" /\ k.shutdown = "idle"
      /\ ~k.signalled /\ k.timers = 0 /\ k.components = {} /\ k.managed = {}
      /\ k.lost = {} /\ ~k.erred /\ k.at = [j \in Jobs |-> "idle"]
  BY <1>3 DEF Absent
<1>6. PICK n : n = Put(k, "start", "check")
  OBVIOUS
<1>7. "check" \in Places /\ "start" \in Jobs
  BY JobNames DEF Places
<1>8. /\ n \in Daemon /\ n.proc = k.proc /\ n.state = k.state
      /\ n.shutdown = k.shutdown /\ n.signalled = k.signalled
      /\ n.timers = k.timers /\ n.components = k.components
      /\ n.managed = k.managed /\ n.lost = k.lost /\ n.erred = k.erred
      /\ \A i \in Jobs : n.at[i] = IF i = "start" THEN "check" ELSE k.at[i]
  BY <1>4, <1>6, <1>7, PutFields
<1>9. /\ n.at["start"] = "check" /\ n.at["stop"] = "idle" /\ n.at["exit"] = "idle"
      /\ \A r \in Recoveries : n.at[r] = "idle"
  BY <1>5, <1>8, JobNames
<1>10. Ending(n)
  BY <1>5, <1>8, <1>9 DEF Ending
<1>11. Unerring(n)
  BY <1>5, <1>8, <1>9 DEF Unerring, StartAgrees, Opening
<1>12. Good(n)
  BY <1>5, <1>8, <1>10, <1>11, UnerringGood
<1>13. Found(n, d, pidFile', socket')
  BY <1>9 DEF Found
<1> QED
  BY <1>1, <1>2, <1>3, <1>5, <1>6, <1>8, <1>12, <1>13 DEF Steps, Kept

\* A child ends, whether or not its daemon still lives.
LEMMA ChildEndsKept ==
    ASSUME TypeOK, SoundInv, NEW d \in Daemons, NEW a \in Apps, ChildEnds(d, a)
    PROVE  /\ Steps(d) /\ UNCHANGED <<pidFile, socket>>
           /\ \A e \in Daemons : daemon'[e].proc = daemon[e].proc
           /\ \A e \in Daemons \ {d} : daemon'[e] = daemon[e]
<1> DEFINE m == daemon[d]
<1>1. /\ a \in m.managed \cup m.missed \cup m.lost /\ UNCHANGED <<pidFile, socket>>
      /\ daemon' = [daemon EXCEPT ![d].managed = @ \ {a}, ![d].missed = @ \ {a},
                                  ![d].lost = @ \ {a}]
  BY DEF ChildEnds
<1>2. m \in Daemon /\ Sound(m) /\ daemon \in [Daemons -> Daemon]
  BY DEF TypeOK, SoundInv
<1>3. PICK n : n = [m EXCEPT !.managed = @ \ {a}, !.missed = @ \ {a}, !.lost = @ \ {a}]
  OBVIOUS
<1>4. n \in Daemon
  BY <1>2, <1>3 DEF Daemon
<1>5. /\ n.proc = m.proc /\ n.signalled = m.signalled /\ n.state = m.state
      /\ n.at = m.at /\ n.timers = m.timers /\ n.components = m.components
      /\ n.erred = m.erred /\ n.shutdown = m.shutdown
      /\ n.managed = m.managed \ {a} /\ n.lost = m.lost \ {a}
  BY <1>2, <1>3 DEF Daemon
<1>6. daemon' = [daemon EXCEPT ![d] = n]
  BY <1>1, <1>2, <1>3
<1>7. m.proc # "absent"
  BY <1>1, <1>2 DEF Sound, Absent
<1>8. m.proc = "alive" => Signalled(n)
  BY <1>2, <1>5 DEF Sound, Signalled, Ending
<1>9. m.proc = "alive" /\ ~m.erred => Unerring(n)
  BY <1>2, <1>5 DEF Sound, Unerring, StartAgrees
<1>10. Good(n)
  BY <1>2, <1>4, <1>5, <1>7, <1>8, <1>9 DEF Good, Sound
<1>11. Found(m, d, pidFile, socket) => Found(n, d, pidFile', socket')
  BY <1>1, <1>5 DEF Found, Healthy
<1> QED
  BY <1>1, <1>2, <1>5, <1>6, <1>7, <1>10, <1>11 DEF Steps, Kept

-----------------------------------------------------------------------------
(***************************************************************************)
(* The invariant is kept.                                                  *)
(***************************************************************************)

\* Who acts is there, unless a child ends: a daemon killed before does nothing.
Acts(d) == Steps(d) /\ daemon[d].proc \in {"absent", "alive"}

LEMMA NextActs ==
    ASSUME TypeOK, SoundInv, NEW d \in Daemons,
           \/ Launch(d) \/ Progress(d)
           \/ RecoveryTimer(d) \/ \E r \in Recoveries : Reload(d, r)
           \/ Signal(d) \/ Exception(d) \/ Crash(d) \/ ExitCommand(d)
           \/ \E a \in Apps : ClientStarts(d, a)
    PROVE  Acts(d)
<1>1. CASE Launch(d)
  BY <1>1, LaunchKept DEF Acts, Launch
<1>2. CASE StartStep(d)
  <2>1. Steps(d)
    BY <1>2, StartStepKept, WritePidKept, ReadyKept DEF StartStep
  <2>2. Alive(d)
    BY <1>2 DEF StartStep, CheckPid, RemoveStale, WritePid, EnvironmentFails,
                Ready, StartupCleanup, Becomes
  <2> QED
    BY <2>1, <2>2 DEF Acts, Alive
<1>3. CASE ShutdownStep(d)
  <2>1. Steps(d)
    BY <1>3, PhaseKept, StopProcessesKept, StopEndsKept, DeathKept DEF ShutdownStep
  <2>2. Alive(d)
    BY <1>3 DEF ShutdownStep, SaveState, DrainConnections, StopProcesses, StopEnds,
                PhaseTimeout, EmergencyExit, ForceExit, Becomes
  <2> QED
    BY <2>1, <2>2 DEF Acts, Alive
<1>4. ASSUME NEW j \in Jobs, JobStep(d, j)
      PROVE  Acts(d)
  <2>1. Steps(d)
    BY <1>4, OpenedKept, OpenFailsKept, CloseKept, LeaveKept DEF JobStep
  <2>2. Alive(d)
    BY <1>4 DEF JobStep, Opened, OpenFails, Close, Leave, Becomes
  <2> QED
    BY <2>1, <2>2 DEF Acts, Alive
<1>5. CASE RecoveryTimer(d) \/ Signal(d) \/ Exception(d) \/ Crash(d) \/ ExitCommand(d)
  <2>1. Steps(d)
    BY <1>5, RecoveryTimerKept, SignalKept, ExceptionKept, DeathKept, ExitCommandKept
  <2>2. Alive(d)
    BY <1>5 DEF RecoveryTimer, Signal, Exception, Crash, ExitCommand, Becomes
  <2> QED
    BY <2>1, <2>2 DEF Acts, Alive
<1>6. ASSUME NEW r \in Recoveries, Reload(d, r)
      PROVE  Acts(d)
  <2>1. Steps(d) /\ Alive(d)
    BY <1>6, ReloadKept DEF Reload, Becomes
  <2> QED
    BY <2>1 DEF Acts, Alive
<1>7. ASSUME NEW a \in Apps, ClientStarts(d, a)
      PROVE  Acts(d)
  <2>1. Steps(d) /\ Alive(d)
    BY <1>7, ClientStartsKept DEF ClientStarts, Becomes
  <2> QED
    BY <2>1 DEF Acts, Alive
<1> QED
  BY <1>1, <1>2, <1>3, <1>4, <1>5, <1>6, <1>7 DEF Progress

\* A step of the system is one of a daemon, or the end of a child.
LEMMA NextSteps ==
    ASSUME TypeOK, SoundInv, Next
    PROVE  \E d \in Daemons : Acts(d) \/ \E a \in Apps : ChildEnds(d, a)
  BY NextActs DEF Next

\* The other daemons stay as they are.
LEMMA StepsKeeps ==
    ASSUME TypeOK, SoundInv, NEW d \in Daemons, Steps(d)
    PROVE  TypeOK' /\ SoundInv'
<1>1. PICK n : daemon' = [daemon EXCEPT ![d] = n] /\ Kept(d, n)
  BY DEF Steps
<1>2. n \in Daemon /\ Sound(n)
  BY <1>1 DEF Kept, Good
<1>3. TypeOK'
  BY <1>1, <1>2 DEF TypeOK, Steps
<1>4. \A e \in Daemons : daemon'[e] = n \/ daemon'[e] = daemon[e]
  BY <1>1 DEF TypeOK
<1>5. \A e \in Daemons : Sound(daemon'[e])
  BY <1>2, <1>4 DEF SoundInv
<1> QED
  BY <1>3, <1>5 DEF SoundInv

LEMMA InitSound ==
    ASSUME Init
    PROVE  TypeOK /\ SoundInv
<1>1. Absent.managed = {} /\ Absent.lost = {} /\ Sound(Absent)
  BY DEF Sound, Absent
<1>2. Good(Exited(Absent, "killed")) /\ Good(Absent)
  BY <1>1, AbsentType, ExitedGood DEF Good
<1>3. \A d \in Daemons : daemon[d] \in {Absent, Exited(Absent, "killed")}
  BY DEF Init
<1>4. \A d \in Daemons : Good(daemon[d])
  BY <1>2, <1>3
<1>5. TypeOK
  BY <1>4, DaemonAssumption DEF TypeOK, Init, Good
<1> QED
  BY <1>4, <1>5 DEF SoundInv, Good

LEMMA NextSound ==
    ASSUME TypeOK, SoundInv, [Next]_vars
    PROVE  TypeOK' /\ SoundInv'
<1>1. CASE Next
  <2>1. PICK d \in Daemons : Acts(d) \/ \E a \in Apps : ChildEnds(d, a)
    BY <1>1, NextSteps
  <2>2. Steps(d)
    BY <2>1, ChildEndsKept DEF Acts
  <2> QED
    BY <2>2, StepsKeeps
<1>2. CASE UNCHANGED vars
  BY <1>2 DEF vars, TypeOK, SoundInv
<1> QED
  BY <1>1, <1>2

\* The invariant holds always.
LEMMA Invariance == Spec => [](TypeOK /\ SoundInv)
<1>1. Init => TypeOK /\ SoundInv
  BY InitSound
<1>2. TypeOK /\ SoundInv /\ [Next]_vars => TypeOK' /\ SoundInv'
  BY NextSound
<1> QED
  BY <1>1, <1>2, PTL DEF Spec, SafeSpec

-----------------------------------------------------------------------------
(***************************************************************************)
(* The theorems.                                                           *)
(***************************************************************************)

\* The variables keep their types: every daemon is a process used once, with
\* one place for each of its jobs.
THEOREM TypeCorrect == Spec => []TypeOK
  BY Invariance, PTL

\* A daemon that met no error and exits with 0 leaves no child behind but those
\* that its process manager's clean-up went over and missed: both ways to
\* exit(0), the end of stop() and the exit command, come after a cleanupAll that
\* ended, and no client can start a process between the two.
THEOREM ExitsClean == Spec => []CleanExit
<1>1. SoundInv => CleanExit
  BY DEF SoundInv, Sound, CleanExit
<1> QED
  BY <1>1, Invariance, PTL

\* No other daemon of the user has been launched than one that was killed
\* before d was.
Alone(d) == \A e \in Daemons \ {d} : daemon[e].proc = "absent" \/ e \in Earlier

FoundInv ==
    /\ \A e \in Earlier : daemon[e].proc = "killed"
    /\ \A d \in Daemons : Alone(d) => Found(daemon[d], d, pidFile, socket)

LEMMA InitFound ==
    ASSUME Init
    PROVE  FoundInv
<1>1. Exited(Absent, "killed").proc = "killed" /\ Absent.proc = "absent"
  BY DEF Exited, Absent
<1>2. \A d \in Daemons : daemon[d].proc = IF d \in Earlier THEN "killed" ELSE "absent"
  BY <1>1 DEF Init
<1> QED
  BY <1>2, DaemonAssumption DEF FoundInv, Found

LEMMA NextFound ==
    ASSUME TypeOK, SoundInv, FoundInv, [Next]_vars
    PROVE  FoundInv'
<1>1. CASE UNCHANGED vars
  BY <1>1 DEF vars, FoundInv, Alone, Found
<1>2. ASSUME NEW x \in Daemons, Acts(x)
      PROVE  FoundInv'
  <2>1. PICK n : daemon' = [daemon EXCEPT ![x] = n] /\ Kept(x, n)
    BY <1>2 DEF Acts, Steps
  <2>2. \A e \in Daemons : daemon'[e] = IF e = x THEN n ELSE daemon[e]
    BY <2>1 DEF TypeOK
  <2>3. x \notin Earlier
    BY <1>2 DEF Acts, FoundInv
  <2>4. \A e \in Earlier : daemon'[e].proc = "killed"
    BY <2>2, <2>3, DaemonAssumption DEF FoundInv
  <2>5. n.proc # "absent"
    BY <2>1 DEF Kept
  <2>6. ASSUME NEW d \in Daemons, Alone(d)'
        PROVE  Found(daemon'[d], d, pidFile', socket')
    <3>1. x = d
      BY <2>2, <2>3, <2>5, <2>6 DEF Alone
    <3>2. Alone(d)
      BY <2>2, <2>6, <3>1 DEF Alone
    <3>3. Found(daemon[d], d, pidFile, socket)
      BY <3>2 DEF FoundInv
    <3> QED
      BY <2>1, <2>2, <3>1, <3>3 DEF Kept
  <2> QED
    BY <2>4, <2>6 DEF FoundInv
<1>3. ASSUME NEW x \in Daemons, NEW a \in Apps, ChildEnds(x, a)
      PROVE  FoundInv'
  <2>1. /\ \A e \in Daemons : daemon'[e].proc = daemon[e].proc
        /\ \A e \in Daemons \ {x} : daemon'[e] = daemon[e]
        /\ UNCHANGED <<pidFile, socket>> /\ Steps(x)
    BY <1>3, ChildEndsKept
  <2>2. PICK n : daemon' = [daemon EXCEPT ![x] = n] /\ Kept(x, n)
    BY <2>1 DEF Steps
  <2>3. daemon'[x] = n
    BY <2>2 DEF TypeOK
  <2>4. \A e \in Earlier : daemon'[e].proc = "killed"
    BY <2>1, DaemonAssumption DEF FoundInv
  <2>5. ASSUME NEW d \in Daemons, Alone(d)'
        PROVE  Found(daemon'[d], d, pidFile', socket')
    <3>1. Alone(d)
      BY <2>1, <2>5 DEF Alone
    <3>2. Found(daemon[d], d, pidFile, socket)
      BY <3>1 DEF FoundInv
    <3>3. CASE d = x
      BY <2>2, <2>3, <3>2, <3>3 DEF Kept
    <3>4. CASE d # x
      BY <2>1, <3>2, <3>4
    <3> QED
      BY <3>3, <3>4
  <2> QED
    BY <2>4, <2>5 DEF FoundInv
<1> QED
  BY <1>1, <1>2, <1>3, NextSteps

\* A daemon that runs with nothing under way and is alone can be found.
LEMMA AloneFound ==
    ASSUME TypeOK, SoundInv, FoundInv, NEW d \in Daemons, Alone(d),
           daemon[d].state = "running", ~daemon[d].signalled,
           \A j \in Jobs : daemon[d].at[j] = "idle"
    PROVE  pidFile = d /\ socket = d /\ Healthy(daemon[d])
<1>1. daemon[d].proc = "alive"
  BY DEF SoundInv, Sound
<1>2. daemon[d].at["start"] = "idle" /\ daemon[d].at["exit"] = "idle"
  BY JobNames
<1>3. ~daemon[d].erred
  BY <1>1, <1>2, Living DEF Alive, Signalled
<1> QED
  BY <1>1, <1>2, <1>3 DEF FoundInv, Found

LEMMA FoundInvariance == Spec => [](TypeOK /\ SoundInv /\ FoundInv)
<1>1. Init => TypeOK /\ SoundInv /\ FoundInv
  BY InitSound, InitFound
<1>2. TypeOK /\ SoundInv /\ FoundInv /\ [Next]_vars => (TypeOK /\ SoundInv /\ FoundInv)'
  BY NextSound, NextFound
<1> QED
  BY <1>1, <1>2, PTL DEF Spec, SafeSpec

\* Until another daemon is launched, a daemon that runs with no job of its own
\* under way and no shutdown begun has its components and can be found, by the
\* PID file and at the socket, whatever files were left by daemons killed
\* before.  (The start of another one that is refused removes the PID file.)
ReachableAlone ==
    \A d \in Daemons :
        LET m == daemon[d] IN
        Alone(d) /\ m.state = "running" /\ ~m.signalled
                 /\ (\A j \in Jobs : m.at[j] = "idle") =>
            pidFile = d /\ socket = d /\ Healthy(m)

THEOREM FoundWhileAlone == Spec => []ReachableAlone
<1>1. TypeOK /\ SoundInv /\ FoundInv => ReachableAlone
  BY AloneFound DEF ReachableAlone
<1> QED
  BY <1>1, FoundInvariance, PTL

\* So a daemon is always reachable when it is the only one that is launched:
\* without the hypothesis the property does not hold, see FoundWhileAlone.
THEOREM IsReachable ==
    ASSUME NEW d \in Daemons, Daemons \subseteq Earlier \cup {d}
    PROVE  Spec => []Reachable
<1>1. ASSUME TypeOK, SoundInv, FoundInv
      PROVE  Reachable
  <2>1. Alone(d)
    BY DEF Alone
  <2>2. \A e \in Daemons \ {d} : daemon[e].state = "stopped"
    BY <1>1 DEF FoundInv, SoundInv, Sound
  <2> QED
    BY <1>1, <2>1, <2>2, AloneFound DEF Reachable
<1> QED
  BY <1>1, FoundInvariance, PTL
=============================================================================
