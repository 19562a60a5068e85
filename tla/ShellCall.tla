------------------------------- MODULE ShellCall -------------------------------
(***************************************************************************)
(* Running a command: the tool run-shell (extensions/src/tools/run-shell/  *)
(* executor.ts) and the terminal backend (extensions/src/backends/         *)
(* terminal.ts) over extensions/src/common/process.ts.  The calls of one   *)
(* session, which the tool loop may run side by side, share its working    *)
(* directory.                                                              *)
(*                                                                         *)
(* A call awaits the end of both streams and of the child.  The abort and  *)
(* the timer each send SIGTERM, wait, and send SIGKILL to the same pid.    *)
(* What the child started may hold the streams when it is gone.            *)
(*                                                                         *)
(* Abstractions: the two streams are one; a child that floods it writes    *)
(* more than STREAM_LIMIT_BYTES, and then blocks or not, as the runtime    *)
(* reads ahead; a directory is a name; a command that the deny list or the *)
(* sandbox refuses does nothing and is left out, and so is the text.       *)
(***************************************************************************)
LOCAL INSTANCE Naturals
LOCAL INSTANCE FiniteSets
LOCAL INSTANCE Sequences

CONSTANTS
    ShellCalls,     \* of one session
    Commands        \* what each may run

VARIABLES
    sessionCwd,     \* sessionCwdMap.get(sessionId), below the workspace
    shells,         \* the calls
    trail,          \* where the changes of directory lead, one after the other
    abreast         \* one was called while another was looking at its own

shellVars == <<sessionCwd, shells, trail, abreast>>

(* A command: by tool or by backend; the directory it changes to, from where *)
(* it is; the one it is given; whether it is deaf to SIGTERM, leaves an heir *)
(* behind on its streams, floods them, ends by itself.                       *)
Command(by, cd, cwd) == [by |-> by, cd |-> cd, cwd |-> cwd, deaf |-> FALSE, heir |-> FALSE,
                         floods |-> FALSE, ends |-> TRUE]

NoShell == [at |-> "idle", cmd |-> Command("tool", <<>>, <<>>), cwd |-> <<>>,
            aborted |-> FALSE, listens |-> FALSE, timer |-> FALSE, killers |-> {},
            child |-> "none", stream |-> "open", heir |-> FALSE, early |-> FALSE]

ShellTypeOK ==
    \A c \in ShellCalls :
      /\ shells[c].at \in {"idle", "stat", "running", "over"}
      /\ shells[c].child \in {"none", "runs", "blocked", "gone"}
      /\ shells[c].stream \in {"open", "cut", "failed", "done"}
      /\ shells[c].killers \subseteq {"abort", "timer"}

ShellInit ==
    /\ sessionCwd = <<>> /\ trail = <<>> /\ abreast = FALSE
    /\ shells = [c \in ShellCalls |-> NoShell]

-----------------------------------------------------------------------------
At(c, at) == shells[c].at = at
Set(c, s) == shells' = [shells EXCEPT ![c] = s]
Over(s) == [s EXCEPT !.at = "over", !.listens = FALSE, !.timer = FALSE]

(* Mutant: nobody listens to the abort signal.                               *)
SpawnedUnheard(s) == [s EXCEPT !.at = "running", !.child = "runs", !.heir = s.cmd.heir,
                               !.timer = TRUE]

(* Bun.spawn, with the listener on the signal and the timer.  A listener is  *)
(* not called for what happened before it was there.                         *)
Spawned(s) == [s EXCEPT !.at = "running", !.child = "runs", !.heir = s.cmd.heir,
                        !.listens = TRUE, !.timer = TRUE]

(* The call: the directory is its own, the session's, or the workspace's.    *)
ShellCalled(c) ==
    /\ At(c, "idle")
    /\ abreast' = (abreast \/ \E d \in ShellCalls : At(d, "stat"))
    /\ \E cmd \in Commands[c], gone \in BOOLEAN :
          LET own == cmd.by = "tool" /\ cmd.cwd # <<>> /\ ~ gone
              cwd == IF own THEN cmd.cwd ELSE sessionCwd
              s == [NoShell EXCEPT !.cmd = cmd, !.cwd = cwd, !.aborted = gone]
          IN /\ sessionCwd' = cwd
             /\ trail' = IF own THEN cmd.cwd ELSE trail
             /\ Set(c, IF gone THEN Over(s)
                       ELSE IF cmd.cd # <<>> THEN [s EXCEPT !.at = "stat"]
                       ELSE Spawned(s))

(* The directory of a cd is looked at: it is there and the call is over, or  *)
(* it is not and the shell may say so.                                       *)
StatEnds(c) ==
    LET s == shells[c]
    IN /\ At(c, "stat")
       /\ \/ /\ sessionCwd' = s.cwd \o s.cmd.cd /\ trail' = trail \o s.cmd.cd
             /\ Set(c, Over(s))
          \/ Set(c, Spawned(s)) /\ UNCHANGED <<sessionCwd, trail>>
       /\ UNCHANGED abreast

(* The user or the budget aborts the call.                                   *)
ShellAborted(c) ==
    /\ shells[c].at \in {"stat", "running"} /\ ~ shells[c].aborted
    /\ LET s == shells[c]
       IN Set(c, [s EXCEPT !.aborted = TRUE, !.early = s.at = "stat",
                           !.killers = IF s.listens THEN @ \cup {"abort"} ELSE @])
    /\ UNCHANGED <<sessionCwd, trail, abreast>>

ShellTimer(c) ==
    /\ shells[c].timer
    /\ Set(c, [shells[c] EXCEPT !.timer = FALSE, !.killers = @ \cup {"timer"}])
    /\ UNCHANGED <<sessionCwd, trail, abreast>>

(* A child is gone, by itself or by a signal; its streams end with it, if it *)
(* has left no heir.                                                         *)
Dead(s) == [s EXCEPT !.child = "gone",
                     !.stream = IF @ = "open" /\ ~ s.heir THEN "done" ELSE @]
Alive(s) == s.child \in {"runs", "blocked"}

ChildEnds(c) ==
    LET s == shells[c]
    IN /\ s.child = "runs" /\ s.cmd.ends /\ (s.cmd.floods => s.stream # "open")
       /\ Set(c, Dead(s))
       /\ UNCHANGED <<sessionCwd, trail, abreast>>

(* SIGTERM, of which a deaf child hears nothing.                             *)
Terminated(c) ==
    /\ Alive(shells[c]) /\ shells[c].killers # {} /\ ~ shells[c].cmd.deaf
    /\ Set(c, Dead(shells[c]))
    /\ UNCHANGED <<sessionCwd, trail, abreast>>

(* graceMs later SIGKILL, of which one that is gone hears nothing.           *)
Killed(c, by) ==
    LET s == shells[c]
        after == [s EXCEPT !.killers = @ \ {by}]
    IN /\ by \in s.killers
       /\ Set(c, IF Alive(s) THEN Dead(after) ELSE after)
       /\ UNCHANGED <<sessionCwd, trail, abreast>>

(* readStreamWithLimit breaks off at the limit and leaves the stream alone.  *)
ReadIsCut(c) ==
    LET s == shells[c]
    IN /\ At(c, "running") /\ s.child = "runs" /\ s.cmd.floods /\ s.stream = "open"
       /\ \E state \in {"runs", "blocked"} : Set(c, [s EXCEPT !.stream = "cut", !.child = state])
       /\ UNCHANGED <<sessionCwd, trail, abreast>>

HeirEnds(c) ==
    LET s == shells[c]
    IN /\ s.heir
       /\ Set(c, [s EXCEPT !.heir = FALSE,
                           !.stream = IF @ = "open" /\ ~ Alive(s) THEN "done" ELSE @])
       /\ UNCHANGED <<sessionCwd, trail, abreast>>

(* Promise.all is complete.                                                  *)
CallEnds(c) ==
    LET s == shells[c]
    IN /\ At(c, "running") /\ s.stream # "open" /\ ~ Alive(s)
       /\ Set(c, Over(s))
       /\ UNCHANGED <<sessionCwd, trail, abreast>>

(* A stream cannot be read: the tool tidies up in its finally block, the     *)
(* backend does not.                                                         *)
ReadFails(c) ==
    /\ At(c, "running") /\ shells[c].stream = "open"
    /\ LET s == [shells[c] EXCEPT !.stream = "failed"]
       IN Set(c, IF s.cmd.by = "tool" THEN Over(s) ELSE [s EXCEPT !.at = "over"])
    /\ UNCHANGED <<sessionCwd, trail, abreast>>

ShellStep(c) ==
    \/ StatEnds(c) \/ ShellTimer(c) \/ ReadIsCut(c) \/ Terminated(c) \/ CallEnds(c)
    \/ \E by \in {"abort", "timer"} : Killed(c, by)

ShellNext ==
    \E c \in ShellCalls : \/ ShellCalled(c) \/ ShellAborted(c) \/ ShellStep(c)
                          \/ ChildEnds(c) \/ HeirEnds(c) \/ ReadFails(c)

ShellSpec == ShellInit /\ [][ShellNext]_shellVars /\ \A c \in ShellCalls : WF_shellVars(ShellStep(c))

-----------------------------------------------------------------------------
(* A child whose call is aborted has its end on the way, but for an abort    *)
(* during the look at a directory, before there is a listener.               *)
AbortIsHeard ==
    \A c \in ShellCalls :
      LET s == shells[c]
      IN (s.at = "running" /\ s.aborted /\ ~ s.early /\ Alive(s)) => s.killers # {}

(* A call that is over has taken back its timer and its listener, but for    *)
(* the backend's after a stream that failed; its child is gone, but for one  *)
(* whose stream failed.                                                      *)
NothingLeftBehind ==
    \A c \in ShellCalls :
      LET s == shells[c]
      IN s.at = "over" /\ (s.timer \/ s.listens \/ Alive(s)) =>
           s.stream = "failed" /\ ((s.timer \/ s.listens) => s.cmd.by = "backend")

(* The session is where its changes of directory lead, as long as none was   *)
(* called while another was under way: such a change may be lost.            *)
EveryChangeCounts == ~ abreast => sessionCwd = trail

ShellSound == AbortIsHeard /\ NothingLeftBehind /\ EveryChangeCounts

(* A call ends, unless an heir of its child holds on to the streams.         *)
Hangs(c) == shells[c].at \in {"stat", "running"} /\ ~ shells[c].heir
CallsEnd == \A c \in ShellCalls : Hangs(c) ~> (~ Hangs(c))
=============================================================================
