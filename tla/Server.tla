------------------------------- MODULE Server -------------------------------
(* The process: main with its accept loop and its handler of SIGINT (main.c), the
   thread of the encoder with the handler of SIGCHLD (shrecord.c), and a thread for
   each connection, which may run shell commands: with popen (shell.c), or with system
   (kongou.c), which ignores SIGINT in the whole process and blocks SIGCHLD in its
   thread while it waits. This is the build with HAVE_SHCODECS, without HAVE_OGGZ and
   without DEBUG.

   A signal is for the process: it is handled on any thread that is not in that
   handler already, between any two steps of it, and a second one that comes
   before the delivery is lost in the first. signal() gives handlers that restart
   the calls they interrupt, but for poll. *)
EXTENDS Integers, Sequences

CONSTANTS
    Client,          \* connections
    Main, Recorder,  \* the threads of main and of shrecord_main
    Encoders,        \* how many encoders the configuration may make
    MaxCommands,     \* bound on the commands that a request runs
    MaxInterrupts    \* bound on the SIGINTs

ASSUME BoundsAssumption ==
    /\ Encoders \subseteq Nat
    /\ MaxCommands \in Nat
    /\ MaxInterrupts \in Nat

Thread == Client \cup {Main, Recorder}

\* The values of shrecord_pid: before, after a fork that failed, after one that did not.
NoPid == 0
ForkFailed == -1
Encoder == 1

Child == Client \cup {Encoder}    \* the encoder, and the command of each connection

ASSUME NamesAssumption ==
    /\ Main # Recorder
    /\ {Main, Recorder} \cap Client = {}
    /\ Encoder \notin Client

VARIABLES
    pc,            \* where each thread is, outside handlers and cleanup
    stack,         \* its handlers and calls of shrecord_cleanup, the innermost first
    shrecord_pid,
    child,         \* each child: "none", "running", "zombie" or "reaped"
    pending,       \* signals that wait to be delivered
    sigchld,       \* is shrecord_sigchld_handler installed?
    sigint,        \* what SIGINT does: "default", "handler" (sig_handler) or "ignored"
    saved,         \* what it did before system() ignored it (else "default": not read)
    sd,            \* "none", "listening" or "shut"
    nr_encoders,
    pfds,          \* the fifos that shrecord_main has opened
    files,         \* the encoders whose fifo and control file exist
    todo,          \* the commands that each request has yet to run
    ended,         \* how the process ended, or "no"
    \* history
    missed,        \* has a cleanup looked at shrecord_pid before the fork was stored?
    faulted,       \* has a fifo failed that nobody had removed?
    interrupts,
    discarded      \* has a SIGINT been lost to a system() of a client?

dispositions == <<sigchld, sigint, saved>>
signals == <<pending, dispositions>>
recording == <<shrecord_pid, nr_encoders, pfds, files>>
serving == <<sd, todo>>
history == <<missed, faulted, interrupts, discarded>>
vars == <<pc, stack, child, signals, recording, serving, ended, history>>

Init ==
    /\ pc = [t \in Thread |-> IF t = Main THEN "start" ELSE "none"]
    /\ stack = [t \in Thread |-> <<>>]
    /\ shrecord_pid = NoPid
    /\ child = [c \in Child |-> "none"]
    /\ pending = {}
    /\ sigchld = FALSE
    /\ sigint = "default"
    /\ saved = "default"
    /\ sd = "none"
    /\ nr_encoders \in Encoders
    /\ pfds = 0
    /\ files = 1 .. nr_encoders
    /\ todo = [c \in Client |-> 0]
    /\ ended = "no"
    /\ missed = FALSE
    /\ faulted = FALSE
    /\ interrupts = 0
    /\ discarded = FALSE
-----------------------------------------------------------------------------
(* Threads, children and signals. *)

\* t goes on with its own code from at.
At(t, at) == ended = "no" /\ stack[t] = <<>> /\ pc[t] = at
Goto(t, at) == pc' = [pc EXCEPT ![t] = at]

Lives(t) == pc[t] \notin {"none", "queued", "dropped", "gone"} \/ stack[t] # <<>>

\* The innermost handler or call of t is at a point; it moves to another.
In(t, at) == ended = "no" /\ stack[t] # <<>> /\ Head(stack[t]).at = at
MoveWith(t, at, pid) ==
    stack' = [stack EXCEPT ![t][1] = [code |-> Head(stack[t]).code, at |-> at, pid |-> pid]]
Move(t, at) == MoveWith(t, at, Head(stack[t]).pid)

Push(t, frame) == stack' = [stack EXCEPT ![t] = <<frame>> \o @]

\* Children die; the process is told when it has a handler.
Die(dying) ==
    LET dead == {c \in dying : child[c] = "running"}
    IN  /\ child' = [c \in Child |-> IF c \in dead THEN "zombie" ELSE child[c]]
        /\ pending' = pending \cup (IF sigchld /\ dead # {} THEN {"SIGCHLD"} ELSE {})

\* waitpid returns: with one of the children that pid stands for, every one of them
\* for 0 and -1, or with ECHILD when there is none.
Waitpid(pid) ==
    LET meant == {c \in Child : child[c] \in {"running", "zombie"} /\ (pid \in Child => c = pid)}
    IN  \/ meant = {} /\ UNCHANGED child
        \/ \E c \in meant : child[c] = "zombie" /\ child' = [child EXCEPT ![c] = "reaped"]

\* system() blocks SIGCHLD in the thread that is in it.
Masked(t, sig) ==
    \/ \E i \in DOMAIN stack[t] : stack[t][i].code = sig
    \/ sig = "SIGCHLD" /\ pc[t] = "system"

\* The handler of SIGINT begins with the shutdown of the socket, that of SIGCHLD with
\* the load of shrecord_pid for its waitpid.
Handle(t, sig) ==
    /\ Push(t, [code |-> sig, at |-> IF sig = "SIGINT" THEN "test" ELSE "reaping",
                pid |-> IF sig = "SIGINT" THEN NoPid ELSE shrecord_pid])
    /\ sd' = IF sig = "SIGINT" /\ sd = "listening" THEN "shut" ELSE sd
    /\ IF pc[t] = "poll" /\ stack[t] = <<>>
       THEN \E at \in {"poll", "clean"} : Goto(t, at)    \* poll may give EINTR
       ELSE UNCHANGED pc

Deliver_Unmasked(t, sig) ==
    /\ ended = "no"
    /\ sig \in pending
    /\ Lives(t)
    /\ pending' = pending \ {sig}
    /\ IF sig = "SIGINT" /\ sigint = "default"
       THEN ended' = "default" /\ UNCHANGED <<pc, stack, sd>>
       ELSE Handle(t, sig) /\ UNCHANGED ended
    /\ UNCHANGED <<child, dispositions, recording, todo, history>>

\* A signal that waited for a thread does what it does now: the handler on another
\* thread may have put SIGINT back to its default.
Deliver(t, sig) ==
    /\ ended = "no"
    /\ sig \in pending
    /\ Lives(t)
    /\ ~Masked(t, sig)
    /\ pending' = pending \ {sig}
    /\ IF sig = "SIGINT" /\ sigint = "default"
       THEN ended' = "default" /\ UNCHANGED <<pc, stack, sd>>
       ELSE Handle(t, sig) /\ UNCHANGED ended
    /\ UNCHANGED <<child, dispositions, recording, todo, history>>

\* The user's SIGINT.
Interrupt ==
    /\ ended = "no"
    /\ interrupts < MaxInterrupts
    /\ interrupts' = interrupts + 1
    /\ pending' = pending \cup (IF sigint = "handler" THEN {"SIGINT"} ELSE {})
    /\ ended' = IF sigint = "default" THEN "default" ELSE "no"
    /\ discarded' = (discarded \/ sigint = "ignored")
    /\ UNCHANGED <<pc, stack, child, dispositions, recording, serving, missed, faulted>>

ChildEnds(c) ==
    /\ ended = "no"
    /\ child[c] = "running"
    /\ Die({c})
    /\ UNCHANGED <<pc, stack, dispositions, recording, serving, ended, history>>
-----------------------------------------------------------------------------
(* shrecord_cleanup, which the handlers run too. Each use of shrecord_pid loads it
   again, but the one for kill may be the one of the test. *)

CleanupTest_Returns(t) ==
    /\ In(t, "test")
    /\ MoveWith(t, IF shrecord_pid = NoPid THEN IF Head(stack[t]).code = "SIGINT" THEN "raise" ELSE "unlink" ELSE "kill", shrecord_pid)
    /\ missed' = (missed \/ (shrecord_pid = NoPid /\ ~sigchld))
    /\ UNCHANGED <<pc, child, signals, recording, serving, ended, faulted, interrupts, discarded>>

CleanupTest_NoKill(t) ==
    /\ In(t, "test")
    /\ MoveWith(t, IF shrecord_pid = NoPid THEN "unlink" ELSE "wait", shrecord_pid)
    /\ missed' = (missed \/ (shrecord_pid = NoPid /\ ~sigchld))
    /\ UNCHANGED <<pc, child, signals, recording, serving, ended, faulted, interrupts, discarded>>

CleanupTest(t) ==
    /\ In(t, "test")
    /\ MoveWith(t, IF shrecord_pid = NoPid THEN "unlink" ELSE "kill", shrecord_pid)
    /\ missed' = (missed \/ (shrecord_pid = NoPid /\ ~sigchld))
    /\ UNCHANGED <<pc, child, signals, recording, serving, ended, faulted, interrupts, discarded>>

\* kill: 0 means the group of the process, -1 everything but the process itself.
Targets(t) == {Head(stack[t]).pid, shrecord_pid}

CleanupKill(t) ==
    /\ In(t, "kill")
    /\ \E pid \in Targets(t) :
          /\ Die(IF pid = Encoder THEN {Encoder} ELSE Child)
          /\ ended' = IF pid = NoPid THEN "killed" ELSE "no"
    /\ MoveWith(t, "wait", NoPid)
    /\ UNCHANGED <<pc, dispositions, recording, serving, history>>

CleanupWait(t) ==
    /\ In(t, "wait")
    /\ MoveWith(t, "waiting", shrecord_pid)
    /\ UNCHANGED <<pc, child, signals, recording, serving, ended, history>>

CleanupWaited(t) ==
    /\ In(t, "waiting")
    /\ Waitpid(Head(stack[t]).pid)
    /\ MoveWith(t, "unlink", NoPid)
    /\ UNCHANGED <<pc, signals, recording, serving, ended, history>>

\* A handler returns to what it interrupted, main's goes on to end the process.
CleanupUnlink(t) ==
    /\ In(t, "unlink")
    /\ files' = files \ (1 .. nr_encoders)
    /\ IF Head(stack[t]).code = "SIGINT"
       THEN Move(t, "raise")
       ELSE stack' = [stack EXCEPT ![t] = Tail(@)]
    /\ UNCHANGED <<pc, child, signals, shrecord_pid, nr_encoders, pfds, serving, ended, history>>

shrecord_cleanup(t) ==
    \/ CleanupTest(t)
    \/ CleanupKill(t)
    \/ CleanupWait(t)
    \/ CleanupWaited(t)
    \/ CleanupUnlink(t)

SigchldReaped_Any(t) ==
    /\ In(t, "reaping")
    /\ Waitpid(ForkFailed)
    /\ MoveWith(t, "clear", NoPid)
    /\ UNCHANGED <<pc, signals, recording, serving, ended, history>>

SigchldReaped_Unordered(t) ==
    /\ In(t, "reaping")
    /\ Waitpid(Head(stack[t]).pid)
    /\ MoveWith(t, "test", NoPid)
    /\ UNCHANGED <<pc, signals, recording, serving, ended, history>>

\* The handler waits for what shrecord_pid was when it started, whoever has ended.
SigchldReaped(t) ==
    /\ In(t, "reaping")
    /\ Waitpid(Head(stack[t]).pid)
    /\ MoveWith(t, "clear", NoPid)
    /\ UNCHANGED <<pc, signals, recording, serving, ended, history>>

SigchldClear_Leaves(t) ==
    /\ In(t, "clear")
    /\ shrecord_pid' = NoPid
    /\ stack' = [stack EXCEPT ![t] = Tail(@)]
    /\ UNCHANGED <<pc, child, signals, nr_encoders, pfds, files, serving, ended, history>>

\* Its shrecord_cleanup finds the 0 it has just stored: nobody stores another value
\* once the handler is installed.
SigchldClear(t) ==
    /\ In(t, "clear")
    /\ shrecord_pid' = NoPid
    /\ Move(t, "unlink")
    /\ UNCHANGED <<pc, child, signals, nr_encoders, pfds, files, serving, ended, history>>

shrecord_sigchld_handler(t) == SigchldReaped(t) \/ SigchldClear(t)

\* sig_handler, after shrecord_cleanup: the default action,
Default(t) ==
    /\ In(t, "raise")
    /\ sigint' = "default"
    /\ Move(t, "again")
    /\ UNCHANGED <<pc, child, pending, sigchld, saved, recording, serving, ended, history>>

\* and the signal again. A system() that began or ended in between has changed what
\* that does, and the handler returns.
Raise(t) ==
    /\ In(t, "again")
    /\ ended' = IF sigint = "default" THEN "interrupted" ELSE "no"
    /\ stack' = [stack EXCEPT ![t] = IF sigint = "default" THEN @ ELSE Tail(@)]
    /\ pending' = pending \cup (IF sigint = "handler" THEN {"SIGINT"} ELSE {})
    /\ discarded' = (discarded \/ sigint = "ignored")
    /\ UNCHANGED <<pc, child, dispositions, recording, serving, missed, faulted, interrupts>>

sig_handler(t) == Default(t) \/ Raise(t)

Handler(t) == shrecord_cleanup(t) \/ shrecord_sigchld_handler(t) \/ sig_handler(t)
-----------------------------------------------------------------------------
(* shrecord_main *)

Fork ==
    /\ At(Recorder, "fork")
    /\ \/ child' = [child EXCEPT ![Encoder] = "running"] /\ Goto(Recorder, "forked") /\ UNCHANGED shrecord_pid
       \/ shrecord_pid' = ForkFailed /\ Goto(Recorder, "clean") /\ UNCHANGED child
    /\ UNCHANGED <<stack, signals, nr_encoders, pfds, files, serving, ended, history>>

Forked ==
    /\ At(Recorder, "forked")
    /\ shrecord_pid' = Encoder
    /\ Goto(Recorder, "signal")
    /\ UNCHANGED <<stack, child, signals, nr_encoders, pfds, files, serving, ended, history>>

\* Without an encoder in the configuration the child is left to itself.
Signal ==
    /\ At(Recorder, "signal")
    /\ sigchld' = TRUE
    /\ Goto(Recorder, IF nr_encoders = 0 THEN "gone" ELSE "open")
    /\ UNCHANGED <<stack, child, pending, sigint, saved, recording, serving, ended, history>>

\* open of a fifo waits for its writer.
OpenFifo ==
    /\ At(Recorder, "open")
    /\ \/ /\ pfds + 1 \in files
          /\ child[Encoder] = "running"
          /\ pfds' = pfds + 1
          /\ Goto(Recorder, IF pfds' = nr_encoders THEN "poll" ELSE "open")
          /\ UNCHANGED faulted
       \/ /\ pfds + 1 \notin files
          /\ Goto(Recorder, "clean")
          /\ UNCHANGED <<pfds, faulted>>
    /\ UNCHANGED <<stack, child, signals, shrecord_pid, nr_encoders, files, serving, ended, missed, interrupts, discarded>>

\* open or read fails. What else poll brings goes to the ring buffers: no step here.
FifoFails ==
    /\ At(Recorder, "open") \/ At(Recorder, "poll")
    /\ faulted' = TRUE
    /\ Goto(Recorder, "clean")
    /\ UNCHANGED <<stack, child, signals, recording, serving, ended, missed, interrupts, discarded>>

Clean ==
    /\ At(Recorder, "clean")
    /\ Push(Recorder, [code |-> "call", at |-> "test", pid |-> NoPid])
    /\ Goto(Recorder, "gone")
    /\ UNCHANGED <<child, signals, recording, serving, ended, history>>

shrecord_main == Fork \/ Forked \/ Signal \/ OpenFifo \/ Clean
-----------------------------------------------------------------------------
(* main *)

\* The result of pthread_create is not looked at.
shrecord_run ==
    /\ At(Main, "start")
    /\ \E recorder \in {"fork", "none"} :
          pc' = [pc EXCEPT ![Main] = "trap", ![Recorder] = recorder]
    /\ UNCHANGED <<stack, child, signals, recording, serving, ended, history>>

Trap ==
    /\ At(Main, "trap")
    /\ sigint' = "handler"
    /\ Goto(Main, "listen")
    /\ UNCHANGED <<stack, child, pending, sigchld, saved, recording, serving, ended, history>>

Listen ==
    /\ At(Main, "listen")
    /\ sd' = "listening"
    /\ Goto(Main, "accept")
    /\ UNCHANGED <<stack, child, signals, recording, todo, ended, history>>

\* The port is taken, or another of the three calls fails.
Panic ==
    /\ At(Main, "listen")
    /\ ended' = "aborted"
    /\ UNCHANGED <<pc, stack, child, signals, recording, serving, history>>

Connect(c) ==
    /\ ended = "no"
    /\ sd = "listening"
    /\ pc[c] = "none"
    /\ Goto(c, "queued")
    /\ UNCHANGED <<stack, child, signals, recording, serving, ended, history>>

\* A request runs some commands or none.
Accept(c) ==
    /\ At(Main, "accept")
    /\ sd = "listening"
    /\ pc[c] = "queued"
    /\ Goto(c, "serve")
    /\ \E n \in 0 .. MaxCommands : todo' = [todo EXCEPT ![c] = n]
    /\ UNCHANGED <<stack, child, signals, recording, sd, ended, history>>

\* The thread cannot be created: the connection stays open and nobody has it.
AcceptDropped(c) ==
    /\ At(Main, "accept")
    /\ sd = "listening"
    /\ pc[c] = "queued"
    /\ Goto(c, "dropped")
    /\ UNCHANGED <<stack, child, signals, recording, serving, ended, history>>
-----------------------------------------------------------------------------
(* shell_stream, shell_copy and kongou_set_param, in the thread of a connection *)

Popen(c) ==
    /\ At(c, "serve")
    /\ todo[c] > 0
    /\ child' = [child EXCEPT ![c] = "running"]
    /\ Goto(c, "fread")
    /\ UNCHANGED <<stack, signals, recording, serving, ended, history>>

PopenFails(c) ==
    /\ At(c, "serve")
    /\ todo[c] > 0
    /\ todo' = [todo EXCEPT ![c] = @ - 1]
    /\ UNCHANGED <<pc, stack, child, signals, recording, sd, ended, history>>

Pclose_Insists(c) ==
    /\ At(c, "fread")
    /\ child[c] # "running"
    /\ child[c] = "zombie"
    /\ child' = [child EXCEPT ![c] = "reaped"]
    /\ todo' = [todo EXCEPT ![c] = @ - 1]
    /\ Goto(c, "serve")
    /\ UNCHANGED <<stack, signals, recording, sd, ended, history>>

\* The pipe is read to its end, when the command ends. A handler may have waited
\* for it first: pclose gives -1.
Pclose(c) ==
    /\ At(c, "fread")
    /\ child[c] # "running"
    /\ Waitpid(c)
    /\ todo' = [todo EXCEPT ![c] = @ - 1]
    /\ Goto(c, "serve")
    /\ UNCHANGED <<stack, signals, recording, sd, ended, history>>

Served(c) ==
    /\ At(c, "serve")
    /\ todo[c] = 0
    /\ Goto(c, "gone")
    /\ UNCHANGED <<stack, child, signals, recording, serving, ended, history>>

shell_stream(c) == Popen(c) \/ Pclose(c)

InSystem == {c \in Client : pc[c] = "system"}

\* The first system() to begin ignores SIGINT, which discards one that waits, and the
\* last to end restores it. The command may not start.
System(c) ==
    /\ At(c, "serve")
    /\ todo[c] > 0
    /\ \E status \in {"running", child[c]} : child' = [child EXCEPT ![c] = status]
    /\ IF InSystem = {}
       THEN /\ sigint' = "ignored"
            /\ saved' = sigint
            /\ pending' = pending \ {"SIGINT"}
            /\ discarded' = (discarded \/ "SIGINT" \in pending)
       ELSE UNCHANGED <<sigint, saved, pending, discarded>>
    /\ Goto(c, "system")
    /\ UNCHANGED <<stack, sigchld, recording, serving, ended, missed, faulted, interrupts>>

SystemDone(c) ==
    /\ At(c, "system")
    /\ child[c] # "running"
    /\ Waitpid(c)
    /\ IF InSystem = {c} THEN sigint' = saved /\ saved' = "default" ELSE UNCHANGED <<sigint, saved>>
    /\ todo' = [todo EXCEPT ![c] = @ - 1]
    /\ Goto(c, "serve")
    /\ UNCHANGED <<stack, pending, sigchld, recording, sd, ended, history>>

kongou_set_param(c) == System(c) \/ SystemDone(c)

Response(c) == shell_stream(c) \/ kongou_set_param(c) \/ Served(c)
-----------------------------------------------------------------------------
Next ==
    \/ \E t \in Thread : Handler(t) \/ \E sig \in pending : Deliver(t, sig)
    \/ Interrupt
    \/ \E c \in Child : ChildEnds(c)
    \/ shrecord_main \/ FifoFails
    \/ shrecord_run \/ Trap \/ Listen \/ Panic
    \/ \E c \in Client : \/ Connect(c) \/ Accept(c) \/ AcceptDropped(c)
                         \/ Response(c) \/ PopenFails(c)

\* What threads, signals and commands do when nobody keeps them from it. The encoder
\* need not end, nobody need connect or interrupt.
Progress ==
    \/ \E t \in Thread : Handler(t) \/ \E sig \in pending : Deliver(t, sig)
    \/ shrecord_main
    \/ shrecord_run \/ Trap \/ Listen
    \/ \E c \in Client : Accept(c) \/ Response(c) \/ ChildEnds(c)

\* Threads that can run do, signals arrive, clients are taken, commands end, and the
\* peer of a connection sends its request and reads its response. Connections, commands
\* and interrupts are finitely many and so are the steps of a behaviour: it is enough
\* that it does not stop while one of them is left.
Fairness == WF_vars(Progress)

Spec == Init /\ [][Next]_vars /\ Fairness
-----------------------------------------------------------------------------
Code == {"SIGINT", "SIGCHLD", "call"}
Pid == {NoPid, ForkFailed, Encoder}

TypeOK ==
    /\ pc \in [Thread -> {"none", "start", "trap", "listen", "accept", "fork", "forked", "signal", "open",
                          "poll", "clean", "queued", "dropped", "serve", "fread", "system", "gone"}]
    /\ \A t \in Thread : \A i \in DOMAIN stack[t] :
          /\ stack[t][i].code \in Code
          /\ stack[t][i].pid \in Pid
          /\ \A j \in DOMAIN stack[t] : stack[t][j].code = stack[t][i].code => i = j
    /\ shrecord_pid \in Pid
    /\ child \in [Child -> {"none", "running", "zombie", "reaped"}]
    /\ pending \subseteq {"SIGINT", "SIGCHLD"}
    /\ pfds \in 0 .. nr_encoders
    /\ files \subseteq 1 .. nr_encoders
    /\ todo \in [Client -> 0 .. MaxCommands]
    /\ {sigint, saved} \subseteq {"default", "handler", "ignored"}

\* What shrecord_cleanup is about to kill is the encoder. It is the whole group of the process,
\* or a process that has the number of the encoder after it, only when an interrupt
\* or a failing fifo brought a second cleanup beside that of the SIGCHLD handler; it is
\* every process only when the fork had failed.
KillHasCause ==
    \A t \in Thread : In(t, "kill") =>
        /\ NoPid \in Targets(t) \/ (Encoder \in Targets(t) /\ child[Encoder] = "reaped") =>
              interrupts > 0 \/ faulted
        /\ ForkFailed \in Targets(t) => shrecord_pid = ForkFailed

\* A server that ends by its handler of SIGINT leaves no fifo, no control file and no
\* encoder, but for an encoder that was being forked when the handler looked.
EndsClean ==
    ended = "interrupted" => /\ files = {}
                             /\ child[Encoder] = "running" => missed

\* The handler of SIGCHLD forgets the encoder only when it has been waited for: a
\* command's end never makes the server forget an encoder that still runs.
ForgottenIsReaped ==
    sigchld /\ shrecord_pid = NoPid => child[Encoder] = "reaped"

\* The handler of SIGCHLD has interrupted that of SIGINT and waits for the encoder.
HeldInShutdown ==
    \E t \in Thread : \E i, j \in DOMAIN stack[t] :
        /\ i < j
        /\ stack[t][i].at = "reaping" /\ stack[t][i].pid = Encoder
        /\ stack[t][j].code = "SIGINT"

\* An interrupt ends the server whatever its threads are waiting for, but for two
\* cases: a child's end comes in the middle of its handler, before that has killed the
\* encoder, or a client's system() ignores the interrupt or the one that the handler
\* raises. As with every property of this kind here, Fairness assumes that commands
\* end and that a thread which serves a connection goes on: its peer sends and reads.
InterruptEnds == "SIGINT" \in pending ~> ended # "no" \/ HeldInShutdown \/ discarded

\* The end of the encoder is noticed and cleaned up after, even when its SIGCHLD is
\* lost in that of a command or meets threads that are in the handler.
EncoderEndCleans ==
    ("SIGCHLD" \in pending /\ child[Encoder] = "zombie") ~> (shrecord_pid = NoPid /\ files = {}) \/ ended # "no"

Held(t) == \E i \in DOMAIN stack[t] : stack[t][i].at = "reaping" /\ stack[t][i].pid = Encoder

\* A client is accepted and its commands run, unless the server is going down or the
\* end of a command, handled on main or on the client's own thread, waits there for
\* an encoder that still runs. A handler that waits for the command itself does no harm.
RequestEnds ==
    \A c \in Client : pc[c] = "queued" ~>
        \/ pc[c] \in {"gone", "dropped"}
        \/ sd = "shut" \/ ended # "no"
        \/ Held(Main) \/ Held(c)

\* main.c:212, "process all incoming clients".
AcceptsAll ==
    \A c \in Client : pc[c] = "queued" ~> pc[c] # "queued" \/ sd = "shut" \/ ended # "no"
=============================================================================
