---------------------------- MODULE HostApi_proofs ----------------------------
(***************************************************************************)
(* Proofs about HostApi, for any number of sessions, pids and ports, and   *)
(* any interleaving of their calls: what a pid that the MCP server holds   *)
(* refers to, and, for calls that do not overlap, where the pid of an API  *)
(* that lives is kept.                                                     *)
(***************************************************************************)
EXTENDS HostApi, TLAPS

LEMMA Texts ==
  /\ \A what \in {"none", "failed", "started", "spawned, pid not written",
                  "nothing to stop", "stopped", "kill failed"} : Say(what) \in Text
  /\ TypeOK => \A p \in Pid : AlreadyRuns(p) \in Text
  BY DEF Text, Say, AlreadyRuns, TypeOK

LEMMA SignalType ==
  ASSUME TypeOK, NEW p \in Pid, Signal(p)
  PROVE  /\ proc' \in [Pid -> ProcState] /\ struck' \in BOOLEAN
         /\ \A q \in Pid : proc'[q] = "zombie" => proc[q] = "zombie"
         /\ Live' = Live \ {p}
         /\ \A q \in Pid : q # p => proc'[q] = proc[q]
         /\ proc[p] \notin {"free", "foreign"} => proc'[p] \notin {"free", "foreign"}
<1>1. CASE proc[p] \in {"starting", "running"}
  <2>1. proc' = [proc EXCEPT ![p] = "dying"]
    BY <1>1 DEF Signal
  <2> QED BY <1>1, <2>1 DEF TypeOK, ProcState, Live, Signal
<1>2. CASE proc[p] = "foreign"
  <2>1. proc' = [proc EXCEPT ![p] = "free"]
    BY <1>2 DEF Signal
  <2> QED BY <1>2, <2>1 DEF TypeOK, ProcState, Live, Signal
<1>3. CASE proc[p] \notin {"starting", "running", "foreign"}
  <2>1. proc' = proc
    BY <1>3 DEF Signal
  <2> QED BY <1>3, <2>1 DEF TypeOK, ProcState, Live, Signal
<1> QED BY <1>1, <1>2, <1>3

LEMMA EndsType ==
  ASSUME TypeOK, NEW p \in Pid, Ends(p)
  PROVE  /\ TypeOK'
         /\ Live' = Live \ {p}
  BY DEF Ends, TypeOK, ProcState, Live, session, past

LEMMA StartType ==
  ASSUME TypeOK, NEW s \in Session,
         \/ StartReadsPid(s) \/ StartChecks(s) \/ StartFails(s) \/ StartTruncates(s)
         \/ StartWrites(s) \/ WriteFails(s)
  PROVE  TypeOK'
<1>1. ASSUME StartReadsPid(s) PROVE TypeOK'
  BY <1>1, PidAssumption DEF StartReadsPid, Begins, Goto, TypeOK, kernel
<1>2. ASSUME StartChecks(s) PROVE TypeOK'
  <2>1. pid[s] \in Pid
    BY <1>2 DEF StartChecks, TypeOK
  <2> QED BY <1>2, <2>1, Texts, PidAssumption DEF StartChecks, Goto, Return, TypeOK, kernel, past
<1>3. ASSUME StartFails(s) PROVE TypeOK'
  BY <1>3, Texts, PidAssumption DEF StartFails, Return, TypeOK, kernel, past
<1>4. ASSUME StartTruncates(s) PROVE TypeOK'
  BY <1>4, PidAssumption DEF StartTruncates, Goto, TypeOK, kernel, past
<1>5. ASSUME StartWrites(s) PROVE TypeOK'
  BY <1>5, Texts, PidAssumption DEF StartWrites, Return, TypeOK, kernel, past
<1>6. ASSUME WriteFails(s) PROVE TypeOK'
  <2>1. stranded' \subseteq Pid
    BY <1>6 DEF WriteFails, TypeOK, Live
  <2> QED BY <1>6, <2>1, Texts, PidAssumption DEF WriteFails, Return, TypeOK, kernel, past
<1> QED BY <1>1, <1>2, <1>3, <1>4, <1>5, <1>6

LEMMA SpawnType ==
  ASSUME TypeOK, NEW s \in Session, StartSpawns(s)
  PROVE  TypeOK'
<1>1. PICK p \in Pid, n \in Port :
        /\ proc[p] = "free"
        /\ proc' = [proc EXCEPT ![p] = "starting"] /\ port' = [port EXCEPT ![p] = n]
        /\ child' = child \cup {p} /\ Goto(s, "truncate", p)
  BY DEF StartSpawns
<1> QED BY <1>1, PidAssumption DEF StartSpawns, Goto, TypeOK, ProcState, past

LEMMA ReturnType ==
  ASSUME TypeOK, NEW s \in Session, NEW text \in Text, Return(s, text)
  PROVE  /\ pc' \in [Session -> {"idle", "check", "build", "truncate", "write", "kill",
                               "remove", "removeAndInsist", "insist"}]
         /\ pid' \in [Session -> Pid \cup {NoPid}] /\ reply' \in [Session -> Text]
         /\ \A t \in Session : (pc'[t] \in {"idle", "build"}) = (pid'[t] = NoPid)
<1>1. reply' \in [Session -> Text]
  BY DEF Return, TypeOK
<1>2. pid' \in [Session -> Pid \cup {NoPid}]
  BY DEF Return, TypeOK
<1>3. \A t \in Session : (pc'[t] \in {"idle", "build"}) = (pid'[t] = NoPid)
  BY DEF Return, TypeOK
<1>4. pc' \in [Session -> {"idle", "check", "build", "truncate", "write", "kill",
                          "remove", "removeAndInsist", "insist"}]
  BY DEF Return, TypeOK
<1> QED BY <1>1, <1>2, <1>3, <1>4

LEMMA StopType ==
  ASSUME TypeOK, NEW s \in Session,
         StopReadsPid(s) \/ StopKills(s) \/ StopRemovesFile(s) \/ StopInsists(s)
  PROVE  TypeOK'
<1>1. ASSUME StopReadsPid(s) PROVE TypeOK'
  <2>1. CASE pidFile = NoPid
    <3>1. PICK text \in Text : Return(s, text)
      BY <1>1, <2>1, Texts DEF StopReadsPid
    <3>2. /\ overlapped' \in BOOLEAN
          /\ UNCHANGED <<proc, child, port, pidFile, struck, stranded, restarted>>
      BY <1>1, <2>1 DEF StopReadsPid, Begins, kernel, TypeOK
    <3> QED BY <3>1, <3>2, ReturnType, PidAssumption DEF TypeOK
  <2>2. CASE pidFile # NoPid
    BY <1>1, <2>2 DEF StopReadsPid, Begins, Goto, TypeOK, kernel
  <2> QED BY <2>1, <2>2
<1>2. ASSUME StopKills(s) PROVE TypeOK'
  <2>1. pid[s] \in Pid /\ Signal(pid[s])
    BY <1>2 DEF StopKills, TypeOK
  <2>2. proc' \in [Pid -> ProcState] /\ struck' \in BOOLEAN
        /\ \A q \in Pid : proc'[q] = "zombie" => q \in child
    BY <2>1, SignalType DEF TypeOK
  <2>3. /\ pid' = pid /\ pc[s] = "kill" /\ reply' = reply
        /\ \E place \in {"remove", "removeAndInsist"} : pc' = [pc EXCEPT ![s] = place]
        /\ UNCHANGED <<child, port, pidFile, stranded, overlapped, restarted>>
    BY <1>2, <2>1 DEF StopKills, Goto, Signal, TypeOK, past
  <2> QED BY <2>1, <2>2, <2>3 DEF TypeOK
<1>3. ASSUME StopRemovesFile(s) PROVE TypeOK'
  <2>1. CASE pc[s] = "remove"
    <3>1. PICK text \in Text : Return(s, text)
      BY <1>3, <2>1, Texts DEF StopRemovesFile
    <3>2. /\ pidFile' = NoPid
          /\ UNCHANGED <<proc, child, port, struck, stranded, overlapped, restarted>>
      BY <1>3, <2>1 DEF StopRemovesFile, kernel, past
    <3> QED BY <3>1, <3>2, ReturnType, PidAssumption DEF TypeOK
  <2>2. CASE pc[s] = "removeAndInsist"
    BY <1>3, <2>2, PidAssumption DEF StopRemovesFile, Goto, TypeOK, kernel, past
  <2> QED BY <1>3, <2>1, <2>2 DEF StopRemovesFile
<1>4. ASSUME StopInsists(s) PROVE TypeOK'
  <2>1. pid[s] \in Pid /\ Signal(pid[s])
    BY <1>4 DEF StopInsists, TypeOK
  <2>2. PICK text \in Text : Return(s, text)
    BY <1>4, Texts DEF StopInsists
  <2>3. proc' \in [Pid -> ProcState] /\ struck' \in BOOLEAN
        /\ \A q \in Pid : proc'[q] = "zombie" => q \in child
    BY <2>1, SignalType DEF TypeOK
  <2>4. UNCHANGED <<child, port, pidFile, stranded, overlapped, restarted>>
    BY <1>4, <2>1 DEF StopInsists, Signal, past
  <2> QED BY <2>2, <2>3, <2>4, ReturnType DEF TypeOK
<1> QED BY <1>1, <1>2, <1>3, <1>4

LEMMA ProcessType ==
  ASSUME TypeOK, NEW p \in Pid, Process(p)
  PROVE  TypeOK'
<1>1. ASSUME ApiListens(p) \/ ForeignStarts(p) \/ ForeignEnds(p) PROVE TypeOK'
  BY <1>1 DEF ApiListens, ForeignStarts, ForeignEnds, TypeOK, ProcState, session, past
<1>2. ASSUME ApiFailsToStart(p) \/ ApiCrashes(p) \/ ApiDies(p) PROVE TypeOK'
  BY <1>2, EndsType DEF ApiFailsToStart, ApiCrashes, ApiDies
<1> QED BY <1>1, <1>2 DEF Process

LEMMA ExitType == TypeOK /\ McpExits => TypeOK'
<1> SUFFICES ASSUME TypeOK, McpExits PROVE TypeOK'
  OBVIOUS
<1>1. stranded' \subseteq Pid
  BY DEF McpExits, TypeOK, Live
<1>2. proc' \in [Pid -> ProcState] /\ \A p \in Pid : proc'[p] # "zombie"
  BY DEF McpExits, TypeOK, ProcState
<1> QED BY <1>1, <1>2, Texts, PidAssumption DEF McpExits, TypeOK

LEMMA NextType == TypeOK /\ [Next]_vars => TypeOK'
<1> SUFFICES ASSUME TypeOK, [Next]_vars PROVE TypeOK'
  OBVIOUS
<1>1. CASE UNCHANGED vars
  BY <1>1 DEF vars, TypeOK
<1>2. ASSUME NEW s \in Session, Call(s) PROVE TypeOK'
  BY <1>2, StartType, SpawnType, StopType DEF Call
<1> QED BY <1>1, <1>2, ProcessType, ExitType DEF Next

(* Every variable has its type; a call past its first steps holds a pid,   *)
(* and only children of the MCP server are zombies.                        *)
THEOREM TypeCorrect == Spec => []TypeOK
<1>1. Init => TypeOK
  BY Texts, PidAssumption DEF Init, TypeOK, ProcState
<1> QED BY <1>1, NextType, PTL DEF Spec

-----------------------------------------------------------------------------
(* Pids that are held.  As long as the MCP server stays up its children    *)
(* keep their pids, as zombies when they have ended, so no pid that it has *)
(* written down, or that a call has read, is given to another process.     *)

Kept(p) == p = NoPid \/ p \in child

HeldInv ==
  /\ \A p \in child : proc[p] \notin {"free", "foreign"}
  /\ restarted \/ (~struck /\ Kept(pidFile) /\ \A s \in Session : Kept(pid[s]))

LEMMA CallHeld ==
  ASSUME TypeOK, HeldInv, NEW s \in Session, Call(s)
  PROVE  HeldInv'
<1>1. ASSUME \/ StartReadsPid(s) \/ StartChecks(s) \/ StartFails(s) \/ StartTruncates(s)
             \/ StartWrites(s) \/ WriteFails(s) \/ StopReadsPid(s) \/ StopRemovesFile(s)
      PROVE  HeldInv'
  <2>1. /\ UNCHANGED <<proc, child, struck, restarted>>
        /\ pidFile' \in {pidFile, NoPid, pid[s]}
        /\ \A t \in Session : pid'[t] \in {pid[t], NoPid, pidFile}
    BY <1>1 DEF TypeOK, StartReadsPid, StartChecks, StartFails, StartTruncates, StartWrites,
       WriteFails, StopReadsPid, StopRemovesFile, Begins, Goto, Return, kernel, past
  <2> QED BY <2>1 DEF HeldInv, Kept
<1>2. ASSUME StartSpawns(s) PROVE HeldInv'
  <2>1. PICK p \in Pid :
          /\ proc[p] = "free" /\ proc' = [proc EXCEPT ![p] = "starting"]
          /\ child' = child \cup {p} /\ Goto(s, "truncate", p)
    BY <1>2 DEF StartSpawns
  <2> QED BY <1>2, <2>1 DEF StartSpawns, Goto, HeldInv, Kept, TypeOK, past
<1>3. ASSUME StopKills(s) \/ StopInsists(s) PROVE HeldInv'
  <2>1. /\ pid[s] \in Pid /\ Signal(pid[s]) /\ UNCHANGED <<child, pidFile, restarted>>
        /\ \A t \in Session : pid'[t] \in {pid[t], NoPid}
    BY <1>3 DEF StopKills, StopInsists, Signal, Goto, Return, TypeOK, past
  <2>2. \A p \in child : proc'[p] \notin {"free", "foreign"}
    BY <2>1, SignalType DEF HeldInv, TypeOK
  <2>3. restarted \/ struck' = struck
    BY <2>1, PidAssumption DEF HeldInv, Kept, Signal, TypeOK
  <2> QED BY <2>1, <2>2, <2>3 DEF HeldInv, Kept
<1> QED BY <1>1, <1>2, <1>3 DEF Call

LEMMA ProcessHeld ==
  ASSUME TypeOK, HeldInv, NEW p \in Pid, Process(p)
  PROVE  HeldInv'
<1>1. UNCHANGED <<child, pidFile, pid, struck, restarted>>
  BY DEF Process, ApiListens, ApiFailsToStart, ApiCrashes, ApiDies, Ends, ForeignStarts,
     ForeignEnds, session, past
<1>2. \A q \in child : proc'[q] \notin {"free", "foreign"}
  BY DEF HeldInv, TypeOK, Process, ApiListens, ApiFailsToStart, ApiCrashes, ApiDies, Ends,
     ForeignStarts, ForeignEnds
<1> QED BY <1>1, <1>2 DEF HeldInv, Kept

LEMMA NextHeld == TypeOK /\ HeldInv /\ [Next]_vars => HeldInv'
<1> SUFFICES ASSUME TypeOK, HeldInv, [Next]_vars PROVE HeldInv'
  OBVIOUS
<1>1. CASE UNCHANGED vars
  BY <1>1 DEF vars, HeldInv, Kept
<1>2. ASSUME McpExits PROVE HeldInv'
  BY <1>2 DEF McpExits, HeldInv
<1> QED BY <1>1, <1>2, CallHeld, ProcessHeld DEF Next

(* Whatever sessions do at the same time, and however their steps fall,    *)
(* kms_api_stop signals only processes that kms_api_start has spawned, as  *)
(* long as it is the same MCP server (ops.rs:419).                         *)
THEOREM OnlyApisAreKilled == Spec => []KillsOnlyApis
<1>1. Init => HeldInv
  BY DEF Init, HeldInv, Kept
<1>2. HeldInv => KillsOnlyApis
  BY DEF HeldInv, KillsOnlyApis
<1> QED BY <1>1, <1>2, NextHeld, TypeCorrect, PTL DEF Spec

-----------------------------------------------------------------------------
(* Calls that do not overlap.  The call in progress knows what the file    *)
(* holds, and has made sure that nothing is lost when it changes it.       *)

AloneInv ==
  \A s, t \in Session : pc[s] # "idle" /\ pc[t] # "idle" => s = t

FileInv ==
  \A s \in Session :
    /\ pc[s] \in {"check", "kill", "remove", "removeAndInsist"} => pidFile = pid[s]
    /\ pc[s] \in {"build", "remove", "removeAndInsist", "insist"} => pidFile \notin Live
    /\ pc[s] = "truncate" => pidFile \notin Live \/ pidFile = pid[s]
    /\ pc[s] = "write" => pidFile = NoPid

RecordInv == overlapped \/ (AloneInv /\ FileInv /\ RunningIsRecorded)

LEMMA BeginRecord ==
  ASSUME TypeOK, RecordInv, NEW s \in Session, StartReadsPid(s) \/ StopReadsPid(s)
  PROVE  RecordInv'
<1> SUFFICES ASSUME ~overlapped' PROVE RecordInv'
  BY DEF RecordInv
<1>1. /\ ~overlapped /\ \A t \in Session : pc[t] = "idle"
      /\ UNCHANGED <<proc, pidFile, stranded>>
  BY DEF StartReadsPid, StopReadsPid, Begins, TypeOK, kernel
<1>2. /\ \A t \in Session : t # s => pc'[t] = "idle"
      /\ \/ pc'[s] = "build" /\ pidFile = NoPid
         \/ pc'[s] \in {"check", "kill"} /\ pid'[s] = pidFile
         \/ pc'[s] = "idle"
  BY <1>1 DEF StartReadsPid, StopReadsPid, Goto, Return, TypeOK
<1>3. Live' = Live /\ Live \subseteq Pid
  BY <1>1 DEF Live
<1>4. \A p \in Live : p = pidFile \/ p \in stranded
  BY <1>1 DEF RecordInv, RunningIsRecorded
<1> QED BY <1>1, <1>2, <1>3, <1>4, PidAssumption
        DEF RecordInv, AloneInv, FileInv, RunningIsRecorded

(* What a step of the only call in progress has to show.                   *)
LEMMA OnlyCall ==
  ASSUME TypeOK, RecordInv, NEW s \in Session, ~overlapped, overlapped' = overlapped,
         pc[s] # "idle", \A t \in Session : t # s => pc'[t] = pc[t]
  PROVE  /\ \A t \in Session : t # s => pc[t] = "idle" /\ pc'[t] = "idle"
         /\ AloneInv'
         /\ \A p \in Live : p = pidFile \/ p \in stranded
                              \/ (pc[s] \in {"truncate", "write"} /\ pid[s] = p)
  BY DEF RecordInv, AloneInv, RunningIsRecorded

LEMMA CallRecord ==
  ASSUME TypeOK, RecordInv, NEW s \in Session, Call(s)
  PROVE  RecordInv'
<1>1. CASE StartReadsPid(s) \/ StopReadsPid(s)
  BY <1>1, BeginRecord
<1>2. CASE overlapped \/ overlapped'
  <2>1. overlapped => overlapped'
    BY DEF TypeOK, Call, StartReadsPid, StartChecks, StartFails, StartSpawns, StartTruncates,
       StartWrites, WriteFails, StopReadsPid, StopKills, StopRemovesFile, StopInsists, Begins, past
  <2> QED BY <1>2, <2>1 DEF RecordInv
<1>3. CASE ~overlapped /\ ~(StartReadsPid(s) \/ StopReadsPid(s))
  <2>1. /\ pc[s] # "idle" /\ overlapped' = overlapped
        /\ \A t \in Session : t # s => pc'[t] = pc[t] /\ pid'[t] = pid[t]
    BY <1>3 DEF Call, StartChecks, StartFails, StartSpawns, StartTruncates, StartWrites,
       WriteFails, StopKills, StopRemovesFile, StopInsists, Goto, Return, past, TypeOK
  <2>2. /\ \A t \in Session : t # s => pc[t] = "idle" /\ pc'[t] = "idle"
        /\ AloneInv'
        /\ \A p \in Live : p = pidFile \/ p \in stranded
                             \/ (pc[s] \in {"truncate", "write"} /\ pid[s] = p)
    BY <1>3, <2>1, OnlyCall
  <2>3. FileInv /\ Live \subseteq Pid
    BY <1>3 DEF RecordInv, Live
  <2>4. ASSUME StartChecks(s) PROVE FileInv' /\ RunningIsRecorded'
    BY <2>2, <2>3, <2>4, PidAssumption
    DEF StartChecks, Goto, Return, ProcessAlive, FileInv, RunningIsRecorded, Live, TypeOK, kernel
  <2>5. ASSUME StartFails(s) PROVE FileInv' /\ RunningIsRecorded'
    BY <2>2, <2>3, <2>5
    DEF StartFails, Return, FileInv, RunningIsRecorded, Live, TypeOK, kernel
  <2>6. ASSUME StartSpawns(s) PROVE FileInv' /\ RunningIsRecorded'
    <3>1. PICK p \in Pid :
            /\ proc[p] = "free" /\ proc' = [proc EXCEPT ![p] = "starting"]
            /\ Goto(s, "truncate", p)
      BY <2>6 DEF StartSpawns
    <3>2. Live' = Live \cup {p}
      BY <3>1 DEF Live, TypeOK
    <3>3. pc'[s] = "truncate" /\ pid'[s] = p /\ UNCHANGED <<pidFile, stranded>>
      BY <2>6, <3>1 DEF StartSpawns, Goto, TypeOK
    <3>4. pc[s] = "build"
      BY <2>6 DEF StartSpawns
    <3> QED BY <2>2, <2>3, <3>2, <3>3, <3>4 DEF FileInv, RunningIsRecorded
  <2>7. ASSUME StartTruncates(s) PROVE FileInv' /\ RunningIsRecorded'
    BY <2>2, <2>3, <2>7
    DEF StartTruncates, Goto, FileInv, RunningIsRecorded, Live, TypeOK, kernel
  <2>8. ASSUME StartWrites(s) PROVE FileInv' /\ RunningIsRecorded'
    BY <2>2, <2>3, <2>8, PidAssumption
    DEF StartWrites, Return, FileInv, RunningIsRecorded, Live, TypeOK, kernel
  <2>9. ASSUME WriteFails(s) PROVE FileInv' /\ RunningIsRecorded'
    <3>1. /\ Live' = Live /\ pidFile' = pidFile /\ pc'[s] = "idle"
          /\ stranded' = stranded \cup ({pid[s]} \cap Live)
      BY <2>9 DEF WriteFails, Return, Live, TypeOK, kernel
    <3> QED BY <2>2, <2>3, <3>1 DEF FileInv, RunningIsRecorded
  <2>10. ASSUME StopKills(s) PROVE FileInv' /\ RunningIsRecorded'
    <3>1. pid[s] \in Pid /\ Signal(pid[s]) /\ UNCHANGED <<pidFile, stranded>>
          /\ pc[s] = "kill" /\ pc'[s] \in {"remove", "removeAndInsist"} /\ pid'[s] = pid[s]
      BY <2>10 DEF StopKills, Goto, TypeOK
    <3>2. Live' = Live \ {pid[s]} /\ pidFile = pid[s]
      BY <2>3, <3>1, SignalType DEF FileInv
    <3> QED BY <2>2, <3>1, <3>2 DEF FileInv, RunningIsRecorded
  <2>11. ASSUME StopRemovesFile(s) PROVE FileInv' /\ RunningIsRecorded'
    BY <2>2, <2>3, <2>11, PidAssumption
    DEF StopRemovesFile, Goto, Return, FileInv, RunningIsRecorded, Live, TypeOK, kernel
  <2>12. ASSUME StopInsists(s) PROVE FileInv' /\ RunningIsRecorded'
    <3>1. pid[s] \in Pid /\ Signal(pid[s]) /\ UNCHANGED <<pidFile, stranded>>
          /\ pc[s] = "insist" /\ pc'[s] = "idle"
      BY <2>12 DEF StopInsists, Return, TypeOK
    <3>2. Live' = Live \ {pid[s]}
      BY <3>1, SignalType
    <3> QED BY <2>2, <2>3, <3>1, <3>2 DEF FileInv, RunningIsRecorded
  <2> QED BY <1>3, <2>2, <2>4, <2>5, <2>6, <2>7, <2>8, <2>9, <2>10, <2>11, <2>12
          DEF Call, RecordInv
<1> QED BY <1>1, <1>2, <1>3

(* No process becomes an API of its own accord.                            *)
LEMMA ProcessRecord ==
  ASSUME TypeOK, RecordInv, NEW p \in Pid, Process(p)
  PROVE  RecordInv'
<1>1. UNCHANGED <<pidFile, pc, pid, overlapped>>
  BY DEF Process, ApiListens, ApiFailsToStart, ApiCrashes, ApiDies, Ends, ForeignStarts,
     ForeignEnds, session, past
<1>2. Live' \subseteq Live /\ stranded \cap Live' \subseteq stranded'
  BY DEF TypeOK, Live, Process, ApiListens, ApiFailsToStart, ApiCrashes, ApiDies, Ends,
     ForeignStarts, ForeignEnds
<1> QED BY <1>1, <1>2 DEF RecordInv, AloneInv, FileInv, RunningIsRecorded

LEMMA ExitRecord ==
  ASSUME TypeOK, RecordInv, McpExits
  PROVE  RecordInv'
<1>1. Live' = Live
  BY DEF McpExits, Live, TypeOK
<1>2. \A s \in Session : pc'[s] = "idle"
  BY DEF McpExits
<1> QED BY <1>1, <1>2 DEF McpExits, RecordInv, AloneInv, FileInv, RunningIsRecorded

LEMMA NextRecord == TypeOK /\ RecordInv /\ [Next]_vars => RecordInv'
<1> SUFFICES ASSUME TypeOK, RecordInv, [Next]_vars PROVE RecordInv'
  OBVIOUS
<1>1. CASE UNCHANGED vars
  BY <1>1 DEF vars, RecordInv, AloneInv, FileInv, RunningIsRecorded, Live
<1> QED BY <1>1, CallRecord, ProcessRecord, ExitRecord DEF Next

(* As long as calls have not overlapped, the pid file leads kms_api_stop   *)
(* to every API that lives, across crashes of APIs and restarts of the MCP *)
(* server, unless a fault kept its pid out (ops.rs:349-397).               *)
THEOREM ApisAreRecorded == Spec => []RunningIsRecorded
<1>1. Init => RecordInv
  BY DEF Init, RecordInv, AloneInv, FileInv, RunningIsRecorded, Live
<1>2. RecordInv => RunningIsRecorded
  BY DEF RecordInv, RunningIsRecorded
<1> QED BY <1>1, <1>2, NextRecord, TypeCorrect, PTL DEF Spec

=============================================================================
