---------------------------- MODULE AgentRuntime ----------------------------
(***************************************************************************)
(* The agent runtime (internal/ares_runtime/manager*.go), for one agent id.*)
(* The manager holds a current entry for the id.  Every RestoreAgent and   *)
(* RestartAgent installs a new entry, while calls and goroutines that      *)
(* looked earlier still point to an older one.  Agents share only the      *)
(* runtime's stop, so one id shows all there is.                           *)
(*                                                                         *)
(* A launch is an agent goroutine with the context it was given.  One      *)
(* whose context is cancelled before it begins ends at once, so a launch   *)
(* and its start are one step.                                             *)
(***************************************************************************)
EXTENDS Integers, Sequences, FiniteSets

CONSTANTS
  Resurrections,  \* goroutines of scheduleResurrection
  Operators,      \* operator calls under way at a time
  Commands,       \* what operators call: "stop", "pause", "resume", "restart"
  RestartLimit,   \* config.MaxRestartsPerAgent
  MaxTries,    \* maxAttempts of scheduleResurrection (5 in the code)
  MaxDeaths,      \* bound: deaths the environment causes
  MaxCommands     \* bound: operator calls

ASSUME RuntimeAssumption ==
  /\ Commands \subseteq {"stop", "pause", "resume", "restart"}
  /\ RestartLimit \in Nat /\ MaxTries \in Nat \ {0}
  /\ MaxDeaths \in Nat /\ MaxCommands \in Nat
  /\ Resurrections \cap Operators = {}

Calls == Resurrections \cup Operators

VARIABLES
  entries,   \* every entry there has been; the last one is m.agents[id]
  launches,  \* every launch there has been, and whether its context lives
  call,      \* where each call stands: [kind, pc, entry, cancel, n]
  reports,   \* calls of NotifyAgentDead by agent goroutines, on their way
  checked,   \* the health check's call of NotifyAgentDead is on its way
  stopping,  \* where Manager.Stop stands
  deaths,    \* deaths so far
  commands,  \* operator calls so far
  intended,    \* history: the operator's last word
  exhausted, \* history: a resurrection used up its attempts
  crossed,   \* history: a restart or resume was not alone
  doubled    \* history: two resurrections overlapped

runtime == <<entries, launches, call, reports, checked, stopping, deaths, commands, intended, exhausted, crossed, doubled>>

NewEntry(restarts, cancel) ==
  [stopped |-> FALSE, paused |-> FALSE, operatorIntent |-> FALSE, resurrecting |-> FALSE,
   restarts |-> restarts, cancel |-> cancel, healthy |-> TRUE]

Idle == [kind |-> "none", pc |-> "idle", entry |-> 0, cancel |-> 0, n |-> 0]

\* RegisterAgent, then the runtime's Start.
RuntimeInit ==
  /\ entries = <<NewEntry(0, 1)>>
  /\ launches = <<TRUE>>
  /\ call = [c \in Calls |-> Idle]
  /\ reports = 0 /\ checked = FALSE
  /\ stopping = "no"
  /\ deaths = 0 /\ commands = 0
  /\ intended = TRUE /\ exhausted = FALSE /\ crossed = FALSE /\ doubled = FALSE

Cur        == Len(entries)
Current    == entries[Cur]
\* Every context is a child of m.gctx, which Stop cancels.
Running(l) == launches[l] /\ stopping = "no"
Cancel(l)  == launches' = IF l = 0 THEN launches ELSE [launches EXCEPT ![l] = FALSE]
Stands(c, kind, pc) == call[c].kind = kind /\ call[c].pc = pc
Moves(c, pc) == call' = [call EXCEPT ![c].pc = pc]

-----------------------------------------------------------------------------
(* Deaths, and who tells of them. *)

\* A failed Start or a panic is reported by the agent's goroutine; a lost
\* heartbeat is not.
Die ==
  /\ deaths < MaxDeaths /\ Current.healthy /\ Running(Current.cancel)
  /\ deaths' = deaths + 1
  /\ entries' = [entries EXCEPT ![Cur].healthy = FALSE]
  /\ reports' \in {reports, reports + 1}
  /\ UNCHANGED <<launches, call, checked, stopping, commands, intended, exhausted>>

\* The snapshot of the health check; the call it makes comes later, by id.
healthCheck ==
  /\ stopping = "no" /\ ~checked
  /\ ~Current.stopped /\ ~Current.paused /\ ~Current.healthy
  /\ checked' = TRUE
  /\ UNCHANGED <<entries, launches, call, reports, stopping, deaths, commands, intended, exhausted>>

ReportArrives ==
  \/ reports > 0 /\ reports' = reports - 1 /\ UNCHANGED checked
  \/ checked /\ checked' = FALSE /\ UNCHANGED reports

\* The counter, the flag and the goroutine, which has attempt 1 before it.
Resurrect ==
  /\ entries' = [entries EXCEPT ![Cur].restarts = @ + 1, ![Cur].resurrecting = TRUE]
  /\ \E c \in Resurrections :
       /\ call[c] = Idle
       /\ call' = [call EXCEPT ![c] = [Idle EXCEPT !.kind = "restore", !.pc = "begin", !.n = 1]]

Spared       == Current.stopped \/ Current.paused \/ Current.resurrecting
BudgetIsUsed == RestartLimit > 0 /\ Current.restarts >= RestartLimit

NotifyUnserialized ==
  /\ ReportArrives
  /\ IF Spared \/ BudgetIsUsed THEN UNCHANGED <<entries, call>> ELSE Resurrect
  /\ UNCHANGED <<launches, stopping, deaths, commands, intended, exhausted>>

\* One critical section, the start of the goroutine included.
NotifyAgentDead ==
  /\ ReportArrives
  /\ IF stopping # "no" \/ Spared \/ BudgetIsUsed THEN UNCHANGED <<entries, call>> ELSE Resurrect
  /\ UNCHANGED <<launches, stopping, deaths, commands, intended, exhausted>>

-----------------------------------------------------------------------------
(* RestoreAgent, in its goroutine. *)

\* stopOldRestoredAgent, the critical section.
RestoreBegin(c) ==
  /\ Stands(c, "restore", "begin")
  /\ entries' = [entries EXCEPT ![Cur].stopped = TRUE]
  /\ call' = [call EXCEPT ![c].pc = "quiesce", ![c].entry = Cur]
  /\ UNCHANGED <<launches, reports, checked, stopping, deaths, commands, intended, exhausted>>

RestoreQuiesceForgetting(c) ==
  /\ Stands(c, "restore", "quiesce")
  /\ entries' = [entries EXCEPT ![call[c].entry].healthy = FALSE]
  /\ Moves(c, "recover")
  /\ UNCHANGED <<launches, reports, checked, stopping, deaths, commands, intended, exhausted>>

\* The cancel function is read from the entry only now.
RestoreQuiesce(c) ==
  /\ Stands(c, "restore", "quiesce")
  /\ Cancel(entries[call[c].entry].cancel)
  /\ entries' = [entries EXCEPT ![call[c].entry].healthy = FALSE]
  /\ Moves(c, "recover")
  /\ UNCHANGED <<reports, checked, stopping, deaths, commands, intended, exhausted>>

RecoverFailsOnce(c) ==
  /\ Stands(c, "restore", "recover")
  /\ \/ Moves(c, "install")
     \/ Moves(c, "clear")
  /\ UNCHANGED <<entries, launches, reports, checked, stopping, deaths, commands, intended, exhausted>>

\* recoverAgentState: the factory may fail, and the attempt is repeated.
RecoverState(c) ==
  /\ Stands(c, "restore", "recover")
  /\ \/ Moves(c, "install")
     \/ call[c].n < MaxTries /\ stopping = "no" /\ call' = [call EXCEPT ![c].pc = "begin", ![c].n = @ + 1]
     \/ (call[c].n = MaxTries \/ stopping # "no") /\ Moves(c, "clear")
  /\ exhausted' = (exhausted \/ call'[c].pc = "clear")
  /\ UNCHANGED <<entries, launches, reports, checked, stopping, deaths, commands, intended>>

InstallAgent(restarts) ==
  /\ entries' = Append(entries, NewEntry(restarts, Len(launches) + 1))
  /\ launches' = Append(launches, TRUE)

RestoreInstallUnasked(c) ==
  /\ Stands(c, "restore", "install")
  /\ InstallAgent(entries[call[c].entry].restarts)
  /\ Moves(c, "clear")
  /\ UNCHANGED <<reports, checked, stopping, deaths, commands, intended, exhausted>>

\* Only the entry seen at the beginning is asked for the operator's intent.
RestoreInstall(c) ==
  /\ Stands(c, "restore", "install")
  /\ IF entries[call[c].entry].operatorIntent
     THEN UNCHANGED <<entries, launches>>
     ELSE InstallAgent(entries[call[c].entry].restarts)
  /\ Moves(c, "clear")
  /\ UNCHANGED <<reports, checked, stopping, deaths, commands, intended, exhausted>>

\* The flag is cleared on whichever entry is there now.
RestoreEnd(c) ==
  /\ Stands(c, "restore", "clear")
  /\ entries' = [entries EXCEPT ![Cur].resurrecting = FALSE]
  /\ call' = [call EXCEPT ![c] = Idle]
  /\ UNCHANGED <<launches, reports, checked, stopping, deaths, commands, intended, exhausted>>

RestoreStep(c) ==
  RestoreBegin(c) \/ RestoreQuiesce(c) \/ RecoverState(c) \/ RestoreInstall(c) \/ RestoreEnd(c)

-----------------------------------------------------------------------------
(* Operators. *)
Command(c, kind) ==
  /\ kind \in Commands /\ call[c] = Idle /\ commands < MaxCommands
  /\ commands' = commands + 1
  /\ UNCHANGED <<reports, checked, stopping, deaths, exhausted>>

Taken(c, kind) ==
  call' = [call EXCEPT ![c] = [kind |-> kind, pc |-> "quiesce", entry |-> Cur,
                               cancel |-> Current.cancel, n |-> Current.restarts]]

\* StopAgent and PauseAgent mark the entry and take its cancel function.
StopAgent(c) ==
  /\ Command(c, "stop") /\ Taken(c, "stop")
  /\ entries' = [entries EXCEPT ![Cur].stopped = TRUE, ![Cur].operatorIntent = TRUE]
  /\ intended' = FALSE
  /\ UNCHANGED launches

PauseAgent(c) ==
  /\ Command(c, "pause") /\ Taken(c, "pause")
  /\ entries' = [entries EXCEPT ![Cur].paused = TRUE, ![Cur].operatorIntent = TRUE]
  /\ intended' = FALSE
  /\ UNCHANGED launches

\* RestartAgent does not ask whether the runtime or the agent is stopped.
RestartAgent(c) ==
  /\ Command(c, "restart") /\ Taken(c, "restart")
  /\ entries' = [entries EXCEPT ![Cur].stopped = TRUE]
  /\ intended' = TRUE
  /\ UNCHANGED launches

\* The same instance under a fresh context; `stopped` keeps its value.
ResumeAgent(c) ==
  /\ Command(c, "resume") /\ Current.paused
  /\ launches' = Append(launches, TRUE)
  /\ entries' = [entries EXCEPT ![Cur].paused = FALSE, ![Cur].operatorIntent = FALSE,
                                ![Cur].cancel = Len(launches')]
  /\ call' = [call EXCEPT ![c] = [kind |-> "resume", pc |-> "launch", entry |-> Cur,
                                  cancel |-> Len(launches'), n |-> 0]]
  /\ intended' = TRUE

\* Outside the lock, as for every launch, but here it can come too late.
ResumeLaunch(c) ==
  /\ Stands(c, "resume", "launch")
  /\ entries' = [entries EXCEPT ![call[c].entry].healthy = @ \/ Running(call[c].cancel)]
  /\ call' = [call EXCEPT ![c] = Idle]
  /\ UNCHANGED <<launches, reports, checked, stopping, deaths, commands, intended, exhausted>>

\* Outside the lock: the context taken is cancelled, the agent stopped.
Quiesce(c) ==
  /\ c \in Operators /\ call[c].pc = "quiesce"
  /\ Cancel(call[c].cancel)
  /\ entries' = [entries EXCEPT ![call[c].entry].healthy = FALSE]
  /\ call' = [call EXCEPT ![c] = IF @.kind = "restart" THEN [@ EXCEPT !.pc = "install"] ELSE Idle]
  /\ UNCHANGED <<reports, checked, stopping, deaths, commands, intended, exhausted>>

RestartInstall(c) ==
  /\ Stands(c, "restart", "install")
  /\ InstallAgent(call[c].n + 1)
  /\ call' = [call EXCEPT ![c] = Idle]
  /\ UNCHANGED <<reports, checked, stopping, deaths, commands, intended, exhausted>>

-----------------------------------------------------------------------------
(* Manager.Stop. *)

\* isStopped is set and m.gctx cancelled under the lock of NotifyAgentDead.
Stop ==
  /\ stopping = "no"
  /\ stopping' = "marking"
  /\ UNCHANGED <<entries, launches, call, reports, checked, deaths, commands, intended, exhausted>>

StopMark ==
  /\ stopping = "marking"
  /\ entries' = IF Current.stopped THEN entries
                ELSE [entries EXCEPT ![Cur].stopped = TRUE, ![Cur].healthy = FALSE]
  /\ stopping' = "waiting"
  /\ UNCHANGED <<launches, call, reports, checked, deaths, commands, intended, exhausted>>

\* m.g.Wait: the agents' contexts are done, the resurrections must end.
StopReturn ==
  /\ stopping = "waiting"
  /\ \A c \in Resurrections : call[c] = Idle
  /\ stopping' = "stopped"
  /\ UNCHANGED <<entries, launches, call, reports, checked, deaths, commands, intended, exhausted>>

\* A restart or resume while another call is under way.
Crossing ==
  \E c \in Operators : \E d \in Calls \ {c} :
    call[c].kind \in {"restart", "resume"} /\ call[d] # Idle

\* Two resurrections between their begin and the instance they install.
Doubled ==
  \E c, d \in Resurrections :
    c # d /\ {call[c].pc, call[d].pc} \subseteq {"begin", "quiesce", "recover", "install"}

OperatorStep(c) == Quiesce(c) \/ RestartInstall(c) \/ ResumeLaunch(c)

RuntimeNext ==
  /\ \/ Die \/ healthCheck \/ NotifyAgentDead
     \/ \E c \in Resurrections : RestoreStep(c)
     \/ \E c \in Operators :
          StopAgent(c) \/ PauseAgent(c) \/ ResumeAgent(c) \/ RestartAgent(c) \/ OperatorStep(c)
     \/ Stop \/ StopMark \/ StopReturn
  /\ crossed' = (crossed \/ Crossing') /\ doubled' = (doubled \/ Doubled')

RuntimeSpec == RuntimeInit /\ [][RuntimeNext]_runtime

\* The ticker of the health check, the goroutines, and Stop once called.
RuntimeFairness ==
  /\ WF_runtime(healthCheck /\ RuntimeNext) /\ WF_runtime(NotifyAgentDead /\ RuntimeNext)
  /\ \A c \in Resurrections : WF_runtime(RestoreStep(c) /\ RuntimeNext)
  /\ \A c \in Operators : WF_runtime(OperatorStep(c) /\ RuntimeNext)
  /\ WF_runtime(StopMark /\ RuntimeNext) /\ WF_runtime(StopReturn /\ RuntimeNext)

-----------------------------------------------------------------------------
Entry == [stopped : BOOLEAN, paused : BOOLEAN, operatorIntent : BOOLEAN,
          resurrecting : BOOLEAN, restarts : 0 .. RestartLimit + commands,
          cancel : DOMAIN launches, healthy : BOOLEAN]

RuntimeTypeOK ==
  /\ entries \in Seq(Entry) /\ entries # <<>>
  /\ launches \in Seq(BOOLEAN)
  /\ \A c \in Calls : call[c] = Idle \/ call[c].pc = "begin" \/ call[c].entry \in DOMAIN entries
  /\ reports \in 0 .. MaxDeaths /\ checked \in BOOLEAN
  /\ stopping \in {"no", "marking", "waiting", "stopped"}

\* Nothing that would still quiesce or replace the agent is under way.
Settled == \A c \in Operators : call[c] = Idle

\* Once an operator's stop or pause has returned, nothing runs under the id
\* until the operator says otherwise: a resurrection scheduled before does
\* not undo the decision (manager.go:402-405).  A restart or a resume that
\* crosses another call voids this, and so do duplicate resurrections.
OperatorDecisionHolds ==
  ~crossed /\ ~doubled /\ ~intended /\ Settled => \A l \in DOMAIN launches : ~Running(l)

\* A launch that runs is the one the current entry can cancel, unless a call
\* is about to cancel it: no instance is lost from sight, with the same two
\* exceptions.  And nobody is left to launch another when Stop returns
\* (manager.go:564-569).
NoOrphanRuns ==
  /\ ~crossed /\ ~doubled => \A l \in DOMAIN launches :
       Running(l) => \/ l = Current.cancel
                     \/ \E c \in Calls : call[c].pc = "quiesce" /\
                          l \in {call[c].cancel, entries[call[c].entry].cancel}
  /\ stopping = "stopped" => \A c \in Resurrections : call[c] = Idle

\* One resurrection at a time: "Prevents duplicate resurrection attempts for
\* the same agent" (manager.go:30-31).
NoDuplicateResurrection == ~ Doubled

\* The restart budget, or all attempts of one resurrection, are used up.
GivenUp == exhausted \/ BudgetIsUsed

\* An agent that dies is alive again in the end, unless the operator or the
\* runtime's stop came first or the runtime gave up.  It must not be marked as
\* stopped when it dies: a resumed agent may be, if its pause crossed a
\* resurrection, and then nobody looks at it (manager_chaos.go:124-125).
DeadAgentReturns ==
  ~Current.healthy /\ ~Current.stopped ~>
    Current.healthy \/ crossed \/ ~intended \/ stopping # "no" \/ GivenUp

=============================================================================
