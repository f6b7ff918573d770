----------------------------- MODULE WorkerDeadline -----------------------------
(***************************************************************************)
(* run_with_deadline (runner/worker_deadline.py): one job in a spawned child *)
(* process, which leads a process group of its own, under two wall-clock     *)
(* limits.  The child tells the supervisor over a pipe that postprocessing   *)
(* has started, that the result file is in place, or that it failed; the     *)
(* supervisor polls the pipe and kills the group on every way out.  The      *)
(* child may hang, fail or die at any step, leave native processes behind,   *)
(* and a SIGTERM may reach the supervisor at any step, its clean-up included.*)
(***************************************************************************)
EXTENDS Integers, Sequences

CONSTANTS
  Natives,        \* native processes a job may start
  EpisodeLimit,   \* episode_timeout_s
  PostLimit,      \* postprocessing_timeout_s
  MaxTime,        \* bound: how far time passes
  MaxMarks        \* bound: calls of mark_postprocessing_started

ASSUME DeadlineAssumption ==
  /\ EpisodeLimit \in Nat \ {0} /\ PostLimit \in Nat \ {0}
  /\ MaxTime \in Nat /\ MaxTime >= EpisodeLimit /\ MaxMarks \in Nat

VARIABLES
  time,      \* time.monotonic, counted from started
  sup,       \* where the supervisor is
  now,       \* the time it sampled
  post,      \* postprocessing_started
  outcome,   \* how the call ends
  pipe,      \* messages sent and not received
  child,     \* where the child is
  natives,   \* the running native processes of its group
  result,    \* result.json is in place
  marks,     \* when the child marked postprocessing
  early,     \* killpg found no group: the child had not called setsid
  cut        \* a SIGTERM fell between the spawn and the kill of the group

supervisor   == <<sup, now, post, outcome, early, cut>>
job          == <<child, natives, result, marks>>
deadlineVars == <<time, supervisor, pipe, job>>

Never == -1

Messages == [kind : {"postprocessing", "result", "error"}, at : Nat]

Outcomes == {"none", "result", "error", "exited", "episode", "postprocessing",
             "terminated", "unkillable"}

DeadlineTypeOK ==
  /\ time \in 0..MaxTime /\ now \in 0..MaxTime
  /\ sup \in {"start", "spawned", "check", "poll", "alive", "kill", "leader", "join", "done"}
  /\ post \in Nat \cup {Never}
  /\ outcome \in Outcomes
  /\ pipe \in Seq(Messages)
  /\ child \in {"none", "booting", "running", "written", "closing", "closed", "stuck", "dead"}
  /\ natives \subseteq Natives
  /\ result \in BOOLEAN /\ early \in BOOLEAN /\ cut \in BOOLEAN
  /\ marks \in Seq(Nat) /\ Len(marks) <= MaxMarks

DeadlineInit ==
  /\ time = 0 /\ now = 0 /\ post = Never
  /\ sup = "start" /\ outcome = "none"
  /\ pipe = <<>> /\ marks = <<>>
  /\ child = "none" /\ natives = {} /\ result = FALSE
  /\ early = FALSE /\ cut = FALSE

-----------------------------------------------------------------------------
(* The child *)

Setsid ==
  /\ child = "booting"
  /\ child' = "running"
  /\ UNCHANGED <<time, supervisor, pipe, natives, result, marks>>

StartNative ==
  /\ child = "running"
  /\ \E n \in Natives \ natives : natives' = natives \cup {n}
  /\ UNCHANGED <<time, supervisor, pipe, child, result, marks>>

NativeEnds ==
  /\ \E n \in natives : natives' = natives \ {n}
  /\ UNCHANGED <<time, supervisor, pipe, child, result, marks>>

\* mutant: a mark without its time
SendUntimed(kind) ==
  IF sup = "done" THEN UNCHANGED pipe
  ELSE pipe' = Append(pipe, [kind |-> kind, at |-> Never])

\* a send once the supervisor has closed its end raises, and nothing is sent
Send(kind) ==
  IF sup = "done" THEN UNCHANGED pipe
  ELSE pipe' = Append(pipe, [kind |-> kind, at |-> time])

Mark ==
  /\ child = "running" /\ sup # "done" /\ Len(marks) < MaxMarks
  /\ marks' = Append(marks, time)
  /\ Send("postprocessing")
  /\ UNCHANGED <<time, supervisor, child, natives, result>>

WriteResult ==
  /\ child = "running"
  /\ result' = TRUE
  /\ child' = "written"
  /\ UNCHANGED <<time, supervisor, pipe, natives, marks>>

\* mutant: the result is announced, then written
SendThenWrite ==
  /\ child \in {"running", "written"}
  /\ Send("result")
  /\ child' = "closing"
  /\ UNCHANGED <<time, supervisor, natives, result, marks>>

SendResult ==
  /\ child = "written"
  /\ Send("result")
  /\ child' = "closing"
  /\ UNCHANGED <<time, supervisor, natives, result, marks>>

\* the job, or the writing of its result, raises
Fails ==
  /\ child = "running"
  /\ Send("error")
  /\ child' = "closing"
  /\ UNCHANGED <<time, supervisor, natives, result, marks>>

CloseConnection ==
  /\ child = "closing"
  /\ child' = "closed"
  /\ UNCHANGED <<time, supervisor, pipe, natives, result, marks>>

\* the child exits, crashes, or is at last let go by the kernel
Exits ==
  /\ child \notin {"none", "dead"}
  /\ child' = "dead"
  /\ UNCHANGED <<time, supervisor, pipe, natives, result, marks>>

Child ==
  \/ Setsid \/ StartNative \/ NativeEnds \/ Mark \/ WriteResult
  \/ SendResult \/ Fails \/ CloseConnection \/ Exits

-----------------------------------------------------------------------------
(* The supervisor *)

Ends(how) == outcome' = how /\ sup' = "kill"

Spawn ==
  /\ sup = "start"
  /\ sup' = "spawned" /\ child' = "booting"
  /\ UNCHANGED <<time, now, post, outcome, early, cut, pipe, natives, result, marks>>

\* the spawn raises: process.pid is None, and there is nothing to kill
SpawnFails ==
  /\ sup = "start"
  /\ sup' = "done" /\ outcome' = "error"
  /\ UNCHANGED <<time, now, post, early, cut, pipe, job>>

\* process.start returns, and process.pid is known
Started ==
  /\ sup = "spawned"
  /\ sup' = "check"
  /\ UNCHANGED <<time, now, post, outcome, early, cut, pipe, job>>

\* mutant: a child that hangs is not timed out
EpisodeOverAtMark(t) == t >= EpisodeLimit /\ post # Never

EpisodeOver(t) == t >= EpisodeLimit

\* mutant: postprocessing is charged with the whole episode
PostOverFromStart(t) == post # Never /\ t >= PostLimit

PostOver(t) == post # Never /\ t - post >= PostLimit

Check ==
  /\ sup = "check"
  /\ now' = time
  /\ \/ EpisodeOver(time) /\ Ends("episode")
     \/ ~EpisodeOver(time) /\ PostOver(time) /\ Ends("postprocessing")
     \/ ~EpisodeOver(time) /\ ~PostOver(time) /\ sup' = "poll" /\ UNCHANGED outcome
  /\ UNCHANGED <<time, post, early, cut, pipe, job>>

\* poll returns: a message, the end of the pipe, or neither within its wait
Receive ==
  /\ sup = "poll" /\ pipe # <<>>
  /\ pipe' = Tail(pipe)
  /\ LET m == Head(pipe) IN
       IF m.kind = "postprocessing"
       THEN /\ post' = IF post = Never THEN m.at ELSE post
            /\ sup' = "check" /\ UNCHANGED outcome
       ELSE Ends(m.kind) /\ UNCHANGED post
  /\ UNCHANGED <<time, now, early, cut, job>>

EndOfPipe ==
  /\ sup = "poll" /\ pipe = <<>> /\ child \in {"closed", "dead"}
  /\ Ends("exited")
  /\ UNCHANGED <<time, now, post, early, cut, pipe, job>>

PollTimesOut ==
  /\ sup = "poll" /\ pipe = <<>> /\ child \notin {"closed", "dead"}
  /\ sup' = "alive"
  /\ UNCHANGED <<time, now, post, outcome, early, cut, pipe, job>>

IsAlive ==
  /\ sup = "alive"
  /\ IF child = "dead" THEN Ends("exited") ELSE sup' = "check" /\ UNCHANGED outcome
  /\ UNCHANGED <<time, now, post, early, cut, pipe, job>>

\* SIGKILL ends a process, or stays pending while the kernel holds it
Killed == child' \in {"dead", IF child = "dead" THEN "dead" ELSE "stuck"}

\* the child is a group leader once it has called setsid
Group == child \notin {"booting", "dead"} \/ natives # {}

\* mutant: the child is killed, and not its group
KillChild ==
  /\ sup = "kill" /\ Group
  /\ sup' = "join" /\ Killed
  /\ UNCHANGED <<time, now, post, outcome, early, cut, pipe, natives, result, marks>>

KillGroup ==
  /\ sup = "kill" /\ Group
  /\ sup' = "join" /\ Killed /\ natives' = {}
  /\ UNCHANGED <<time, now, post, outcome, early, cut, pipe, result, marks>>

NoGroup ==
  /\ sup = "kill" /\ ~Group
  /\ sup' = "leader" /\ early' = TRUE
  /\ UNCHANGED <<time, now, post, outcome, cut, pipe, job>>

KillLeader ==
  /\ sup = "leader"
  /\ sup' = "join" /\ Killed
  /\ UNCHANGED <<time, now, post, outcome, early, cut, pipe, natives, result, marks>>

\* the join, and with it the call: pipe, handler and directory are cleaned up
Join ==
  /\ sup = "join"
  /\ sup' = "done"
  /\ outcome' = IF child = "dead" THEN outcome ELSE "unkillable"
  /\ UNCHANGED <<time, now, post, early, cut, pipe, job>>

\* SIGTERM raises SystemExit where the supervisor is: process.pid is None until
\* process.start has returned, and in the clean-up the rest of it is skipped
Terminate ==
  /\ sup # "done"
  /\ outcome' = "terminated"
  /\ sup' = IF sup \in {"check", "poll", "alive"} THEN "kill" ELSE "done"
  /\ cut' = (cut \/ sup \in {"spawned", "kill", "leader"})
  /\ UNCHANGED <<time, now, post, early, pipe, job>>

Supervise ==
  \/ Spawn \/ SpawnFails \/ Started \/ Check \/ Receive \/ EndOfPipe
  \/ PollTimesOut \/ IsAlive \/ KillGroup \/ NoGroup \/ KillLeader \/ Join

Tick ==
  /\ time < MaxTime
  /\ time' = time + 1
  /\ UNCHANGED <<supervisor, pipe, job>>

DeadlineNext == Supervise \/ Child \/ Terminate \/ Tick

DeadlineSpec == DeadlineInit /\ [][DeadlineNext]_deadlineVars

\* the supervisor runs and time passes; nothing is asked of the child
DeadlineFairSpec == DeadlineSpec /\ WF_deadlineVars(Supervise) /\ WF_deadlineVars(Tick)

-----------------------------------------------------------------------------
\* However the call ends, the child is dead, or SIGKILL is pending for it, and
\* no native process of its group runs; the exceptions are a SIGTERM between
\* the spawn and the kill, and a child that leads no group when it is killed.
NothingLeftBehind ==
  (sup = "done" /\ ~cut) =>
    /\ child \in {"none", "dead", "stuck"}
    /\ natives # {} => early

\* A result is returned only when its file was in place.
ResultIsComplete == outcome = "result" => result

\* The postprocessing limit is reached only that long after the first mark,
\* however late its message was received.
PostprocessingCharged ==
  outcome = "postprocessing" => marks # <<>> /\ now >= marks[1] + PostLimit

\* A worker that is said to have exited without a result produced none.
ResultNotLost ==
  outcome = "exited" => \A i \in DOMAIN pipe : pipe[i].kind # "result"

\* The call returns, whatever the child does or does not do.
Finishes == <>(sup = "done")
=============================================================================
