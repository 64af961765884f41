------------------------------- MODULE HostApi -------------------------------
(***************************************************************************)
(* The tools kms_api_start and kms_api_stop of the MCP server, which run a *)
(* test API as a process of the host and remember it in a pid file         *)
(* (mcp/src/ops.rs, api_start, api_stop).  Calls of several sessions run   *)
(* side by side, and each is a series of looks at the file and at the      *)
(* process table, with nothing held between them.                          *)
(*                                                                         *)
(* The kernel is external.  A child that exits stays in the table, as a    *)
(* zombie that `kill -0` finds, until its parent waits for it, which the   *)
(* MCP server never does, or exits itself.  A pid that is free may be      *)
(* given to any process.                                                   *)
(***************************************************************************)
EXTENDS Naturals, FiniteSets

CONSTANTS
  Session,   \* calls of the tools that may be in progress
  Pid,
  Port,      \* ports a caller may ask for
  NoPid

ASSUME PidAssumption == NoPid \notin Pid

VARIABLES
  proc,      \* proc[p]: the process with that pid, see ProcState
  child,     \* the pids that the MCP server of now has spawned
  port,      \* port[p]: the port an API was told to listen on
  pidFile,   \* what mcp/.run/api.pid holds
  pc,        \* pc[s]: the next step of the call of s, "idle" when there is none
  pid,       \* pid[s]: the local variables existing, child.id() and pid
  reply,     \* reply[s]: the last text returned to s
  struck,    \* history: api_stop has signalled a process that is no API
  stranded,  \* history: APIs whose pid a fault kept out of the file
  overlapped,\* history: a call has begun while another was in progress
  restarted  \* history: another MCP server has taken over

session == <<pc, pid, reply>>
kernel  == <<proc, child, port>>
past    == <<overlapped, restarted>>
vars    == <<proc, child, port, pidFile, pc, pid, reply, struck, stranded, overlapped,
             restarted>>

(* free: no process; dying: an API with a signal pending; foreign: a       *)
(* process that is no API.                                                 *)
ProcState == {"free", "starting", "running", "dying", "zombie", "foreign"}

(* APIs that will go on until something ends them.                         *)
Live == { p \in Pid : proc[p] \in {"starting", "running"} }

(* process_alive: `kill -0` succeeds for whatever is in the table.         *)
ProcessAlive(p) == proc[p] # "free"

(* A text, and what the process was that it calls an API that runs.        *)
Text == [what : {"none", "already running", "failed", "started", "spawned, pid not written",
                 "nothing to stop", "stopped", "kill failed"},
         named : ProcState \cup {"none"}]

Say(what)      == [what |-> what, named |-> "none"]
AlreadyRuns(p) == [what |-> "already running", named |-> proc[p]]

Init ==
  /\ proc = [p \in Pid |-> "free"]
  /\ child = {}
  /\ port \in [Pid -> Port]
  /\ pidFile = NoPid
  /\ pc = [s \in Session |-> "idle"]
  /\ pid = [s \in Session |-> NoPid]
  /\ reply = [s \in Session |-> Say("none")]
  /\ struck = FALSE /\ stranded = {}
  /\ overlapped = FALSE /\ restarted = FALSE

(* A call of s begins.                                                     *)
Begins(s) ==
  /\ pc[s] = "idle"
  /\ overlapped' = (overlapped \/ \E t \in Session : pc[t] # "idle")
  /\ UNCHANGED restarted

(* The call goes on with p in its local variable.                          *)
Goto(s, place, p) ==
  /\ pc' = [pc EXCEPT ![s] = place]
  /\ pid' = [pid EXCEPT ![s] = p]
  /\ UNCHANGED reply

Return(s, text) ==
  /\ pc' = [pc EXCEPT ![s] = "idle"]
  /\ pid' = [pid EXCEPT ![s] = NoPid]
  /\ reply' = [reply EXCEPT ![s] = text]

-----------------------------------------------------------------------------
(* kms_api_start                                                           *)

(* read_api_pid: no file, or one without a number, is no pid.              *)
StartReadsPid(s) ==
  /\ Begins(s)
  /\ Goto(s, IF pidFile = NoPid THEN "build" ELSE "check", pidFile)
  /\ UNCHANGED <<kernel, pidFile, struck, stranded>>

(* Defect: an API that is still there is started again. *)
StartRegardless(s) ==
  /\ pc[s] = "check"
  /\ Goto(s, "build", NoPid)
  /\ UNCHANGED <<kernel, pidFile, struck, stranded, past>>

StartChecks(s) ==
  /\ pc[s] = "check"
  /\ IF ProcessAlive(pid[s]) THEN Return(s, AlreadyRuns(pid[s])) ELSE Goto(s, "build", NoPid)
  /\ UNCHANGED <<kernel, pidFile, struck, stranded, past>>

(* cargo build fails, or the log cannot be opened, or the spawn fails.     *)
StartFails(s) ==
  /\ pc[s] = "build"
  /\ Return(s, Say("failed"))
  /\ UNCHANGED <<kernel, pidFile, struck, stranded, past>>

StartSpawns(s) ==
  /\ pc[s] = "build"
  /\ \E p \in Pid, n \in Port :
       /\ proc[p] = "free"
       /\ proc' = [proc EXCEPT ![p] = "starting"]
       /\ port' = [port EXCEPT ![p] = n]
       /\ child' = child \cup {p}
       /\ Goto(s, "truncate", p)
  /\ UNCHANGED <<pidFile, struck, stranded, past>>

(* fs::write empties the file before it writes; either may fail.           *)
StartTruncates(s) ==
  /\ pc[s] = "truncate"
  /\ pidFile' = NoPid
  /\ Goto(s, "write", pid[s])
  /\ UNCHANGED <<kernel, struck, stranded, past>>

StartWrites(s) ==
  /\ pc[s] = "write"
  /\ pidFile' = pid[s]
  /\ Return(s, Say("started"))
  /\ UNCHANGED <<kernel, struck, stranded, past>>

WriteFails(s) ==
  /\ pc[s] \in {"truncate", "write"}
  /\ stranded' = stranded \cup ({pid[s]} \cap Live)
  /\ Return(s, Say("spawned, pid not written"))
  /\ UNCHANGED <<kernel, pidFile, struck, past>>

-----------------------------------------------------------------------------
(* kms_api_stop                                                            *)

(* Defect: a missing pid file goes unnoticed. *)
StopUnread(s) ==
  /\ Begins(s)
  /\ Goto(s, "kill", pidFile)
  /\ UNCHANGED <<kernel, pidFile, struck, stranded>>

StopReadsPid(s) ==
  /\ Begins(s)
  /\ IF pidFile = NoPid THEN Return(s, Say("nothing to stop")) ELSE Goto(s, "kill", pidFile)
  /\ UNCHANGED <<kernel, pidFile, struck, stranded>>

(* What a signal does to the process p, if there is one.                   *)
Signal(p) ==
  /\ proc' = CASE proc[p] \in {"starting", "running"} -> [proc EXCEPT ![p] = "dying"]
               [] proc[p] = "foreign"                 -> [proc EXCEPT ![p] = "free"]
               [] OTHER                               -> proc
  /\ struck' = (struck \/ proc[p] = "foreign")
  /\ UNCHANGED <<child, port>>

StopKills(s) ==
  /\ pc[s] = "kill"
  /\ Signal(pid[s])
  /\ Goto(s, IF ProcessAlive(pid[s]) THEN "remove" ELSE "removeAndInsist", pid[s])
  /\ UNCHANGED <<pidFile, stranded, past>>

(* The file is removed whatever `kill` said, and whatever it now holds.    *)
StopRemovesFile(s) ==
  /\ pc[s] \in {"remove", "removeAndInsist"}
  /\ pidFile' = NoPid
  /\ IF pc[s] = "remove" THEN Return(s, Say("stopped")) ELSE Goto(s, "insist", pid[s])
  /\ UNCHANGED <<kernel, struck, stranded, past>>

(* `kill` found no process: once more with -9.                             *)
StopInsists(s) ==
  /\ pc[s] = "insist"
  /\ Signal(pid[s])
  /\ Return(s, Say(IF ProcessAlive(pid[s]) THEN "stopped" ELSE "kill failed"))
  /\ UNCHANGED <<pidFile, stranded, past>>

-----------------------------------------------------------------------------
(* Processes                                                               *)

(* Defect: the child is waited for, and the pid file still names it. *)
EndsAndIsReaped(p) ==
  /\ proc' = [proc EXCEPT ![p] = "free"]
  /\ stranded' = stranded \ {p}
  /\ UNCHANGED <<child, port, pidFile, session, struck, past>>

(* A process that ends: its parent, if that is still there, keeps its pid. *)
Ends(p) ==
  /\ proc' = [proc EXCEPT ![p] = IF p \in child THEN "zombie" ELSE "free"]
  /\ stranded' = stranded \ {p}
  /\ UNCHANGED <<child, port, pidFile, session, struck, past>>

ApiListens(p) ==
  /\ proc[p] = "starting"
  /\ ~ \E q \in Pid : proc[q] = "running" /\ port[q] = port[p]
  /\ proc' = [proc EXCEPT ![p] = "running"]
  /\ UNCHANGED <<child, port, pidFile, session, struck, stranded, past>>

(* run_server returns an error: the port is taken, or start-up failed.     *)
ApiFailsToStart(p) == proc[p] = "starting" /\ Ends(p)

ApiCrashes(p) == proc[p] = "running" /\ Ends(p)

ApiDies(p) == proc[p] = "dying" /\ Ends(p)

ForeignStarts(p) ==
  /\ proc[p] = "free"
  /\ proc' = [proc EXCEPT ![p] = "foreign"]
  /\ UNCHANGED <<child, port, pidFile, session, struck, stranded, past>>

ForeignEnds(p) ==
  /\ proc[p] = "foreign"
  /\ proc' = [proc EXCEPT ![p] = "free"]
  /\ UNCHANGED <<child, port, pidFile, session, struck, stranded, past>>

(* The MCP server ends, with the calls in progress, and another is started.*)
(* Its zombies are reaped, its live children belong to nobody.             *)
McpExits ==
  /\ proc' = [p \in Pid |-> IF proc[p] = "zombie" THEN "free" ELSE proc[p]]
  /\ child' = {}
  /\ stranded' = stranded \cup
       (Live \cap { pid[s] : s \in { t \in Session : pc[t] \in {"truncate", "write"} } })
  /\ pc' = [s \in Session |-> "idle"]
  /\ pid' = [s \in Session |-> NoPid]
  /\ reply' = [s \in Session |-> Say("none")]
  /\ restarted' = TRUE
  /\ UNCHANGED <<port, pidFile, struck, overlapped>>

Call(s) ==
  \/ StartReadsPid(s) \/ StartChecks(s) \/ StartFails(s) \/ StartSpawns(s)
  \/ StartTruncates(s) \/ StartWrites(s) \/ WriteFails(s)
  \/ StopReadsPid(s) \/ StopKills(s) \/ StopRemovesFile(s) \/ StopInsists(s)

Process(p) ==
  \/ ApiListens(p) \/ ApiFailsToStart(p) \/ ApiCrashes(p) \/ ApiDies(p)
  \/ ForeignStarts(p) \/ ForeignEnds(p)

Next == (\E s \in Session : Call(s)) \/ (\E p \in Pid : Process(p)) \/ McpExits
Spec == Init /\ [][Next]_vars

-----------------------------------------------------------------------------
(* Types; a call past its first steps has a pid, and only children of the  *)
(* MCP server are zombies.                                                 *)
TypeOK ==
  /\ proc \in [Pid -> ProcState]
  /\ child \subseteq Pid /\ port \in [Pid -> Port] /\ pidFile \in Pid \cup {NoPid}
  /\ pc \in [Session -> {"idle", "check", "build", "truncate", "write", "kill",
                         "remove", "removeAndInsist", "insist"}]
  /\ pid \in [Session -> Pid \cup {NoPid}]
  /\ \A s \in Session : (pc[s] \in {"idle", "build"}) = (pid[s] = NoPid)
  /\ reply \in [Session -> Text]
  /\ struck \in BOOLEAN /\ stranded \subseteq Pid
  /\ overlapped \in BOOLEAN /\ restarted \in BOOLEAN
  /\ \A p \in Pid : proc[p] = "zombie" => p \in child

(* While one MCP server stays up, kms_api_stop signals nothing but APIs     *)
(* that kms_api_start has spawned (ops.rs:419): whatever sessions do, a pid *)
(* in the file is still the pid of that API or of its zombie.              *)
KillsOnlyApis == restarted \/ ~struck

(* As long as calls do not overlap, an API that lives is the one in the    *)
(* pid file, or is about to be written there, or a fault kept it out       *)
(* (ops.rs:349-397): kms_api_stop can stop it, also after a restart.       *)
RunningIsRecorded ==
  overlapped \/ \A p \in Live :
    \/ p = pidFile
    \/ \E s \in Session : pc[s] \in {"truncate", "write"} /\ pid[s] = p
    \/ p \in stranded

(* "host API already running" is said only of an API (ops.rs:349-352).     *)
AlreadyRunningIsTrue ==
  \A s \in Session : reply[s].what = "already running" =>
                        reply[s].named \in {"starting", "running", "dying"}
=============================================================================
