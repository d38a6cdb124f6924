---------------------------- MODULE ServerProofs ----------------------------
(***************************************************************************)
(* Proofs about the safety of Server, for any number of connections,       *)
(* commands, encoders and interrupts: what the handlers of SIGINT and      *)
(* SIGCHLD may find, kill and leave behind, wherever they are delivered.   *)
(* A frame is a handler or a call of shrecord_cleanup on a stack. What is  *)
(* true of a frame stays true whatever else happens (Later), so each       *)
(* action has to answer for the one frame it changes.                      *)
(***************************************************************************)
EXTENDS Server, TLAPS

Point == {"test", "kill", "wait", "waiting", "unlink", "reaping", "clear", "raise", "again"}
Frame == [code : Code, at : Point, pid : Pid]

MainPoint == {"start", "trap", "listen", "accept"}
RecorderPoint == {"none", "fork", "forked", "signal", "open", "poll", "clean", "gone"}
ClientPoint == {"none", "queued", "dropped", "serve", "fread", "system", "gone"}
Place == MainPoint \cup RecorderPoint \cup ClientPoint

(* The thread of the encoder before it has one, and before it has its handler. *)
Unforked == {"none", "fork"}
Early == {"none", "fork", "forked", "signal"}

Types ==
  /\ pc \in [Thread -> Place]
  /\ stack \in [Thread -> Seq(Frame)]
  /\ shrecord_pid \in Pid
  /\ child \in [Child -> {"none", "running", "zombie", "reaped"}]
  /\ pending \subseteq {"SIGINT", "SIGCHLD"}
  /\ sigchld \in BOOLEAN
  /\ nr_encoders \in Nat
  /\ pfds \in 0 .. nr_encoders
  /\ files \subseteq 1 .. nr_encoders
  /\ todo \in [Client -> 0 .. MaxCommands]
  /\ missed \in BOOLEAN
  /\ faulted \in BOOLEAN
  /\ interrupts \in Nat
  /\ {sigint, saved} \subseteq {"default", "handler", "ignored"}

Places ==
  /\ pc[Main] \in MainPoint
  /\ pc[Recorder] \in RecorderPoint
  /\ \A c \in Client : pc[c] \in ClientPoint /\ (pc[c] \in {"fread", "system"} => todo[c] > 0)
  /\ pc[Main] = "start" => pc[Recorder] = "none"
  /\ pc[Recorder] \in Early => pfds = 0
  /\ pc[Recorder] = "open" => pfds < nr_encoders

(* No handler and no call is on a stack twice. *)
Apart ==
  \A t \in Thread : \A i, j \in DOMAIN stack[t] : stack[t][i].code = stack[t][j].code => i = j

(* shrecord_pid and its handler, as the thread of the encoder goes on. *)
Recording ==
  /\ pc[Recorder] \in Unforked => child[Encoder] = "none" /\ shrecord_pid = NoPid /\ ~sigchld
  /\ pc[Recorder] = "forked" => child[Encoder] # "none" /\ shrecord_pid = NoPid /\ ~sigchld
  /\ pc[Recorder] = "signal" => child[Encoder] # "none" /\ shrecord_pid = Encoder /\ ~sigchld
  /\ pc[Recorder] \in {"open", "poll"} => sigchld
  /\ sigchld => shrecord_pid # ForkFailed /\ child[Encoder] # "none"
  /\ "SIGCHLD" \in pending => sigchld
  /\ shrecord_pid = ForkFailed => pc[Recorder] \notin Early

(* Nobody has interrupted the server, and no fifo has failed by itself. *)
Quiet == interrupts = 0 /\ ~faulted

(* What a frame of a thread has seen to, or relies on. *)
FrameSound(t, f) ==
  /\ f.at \in {"reaping", "clear"} => f.code = "SIGCHLD"
  /\ f.code = "SIGCHLD" => sigchld /\ f.at \in {"reaping", "clear", "unlink"}
  /\ f.code = "call" => t = Recorder /\ pc[Recorder] = "gone"
  /\ f.at = "reaping" => f.pid = Encoder \/ child[Encoder] = "reaped"
  /\ f.at = "clear" => child[Encoder] = "reaped"
  /\ f.at = "kill" => f.pid # NoPid /\ pc[Recorder] \notin Unforked
  /\ f.at \in {"wait", "waiting", "unlink", "raise", "again"} =>
        missed \/ (child[Encoder] # "running" /\ pc[Recorder] \notin Unforked)
  /\ f.at \in {"raise", "again"} => files = {} /\ f.code = "SIGINT"
  /\ f.pid = ForkFailed => shrecord_pid = ForkFailed
  /\ Quiet => /\ f.code # "SIGINT"
              /\ f.code = "call" => shrecord_pid # Encoder /\ f.pid # Encoder
              /\ f.at = "unlink" => shrecord_pid # Encoder /\ pc[Recorder] \notin Early

Frames == \A t \in Thread : \A i \in DOMAIN stack[t] : FrameSound(t, stack[t][i])

(* A handler of SIGCHLD on this stack has not yet forgotten the encoder. *)
Awaited(s) == \E i \in DOMAIN s : s[i].at \in {"reaping", "clear"}

(* Undisturbed, files go and the thread of the encoder ends only after the encoder. *)
Undisturbed ==
  Quiet =>
    /\ "SIGINT" \notin pending
    /\ files = 1 .. nr_encoders \/ (shrecord_pid # Encoder /\ pc[Recorder] \notin Early)
    /\ pc[Recorder] = "clean" => shrecord_pid # Encoder \/ Awaited(stack[Recorder])

ServerInv ==
  /\ Types /\ Places /\ Apart /\ Recording /\ Frames /\ Undisturbed
  /\ ForgottenIsReaped
  /\ EndsClean
-----------------------------------------------------------------------------
(* What once holds of the process holds for good. *)
Later ==
  /\ sigchld => sigchld'
  /\ child[Encoder] = "reaped" => child'[Encoder] = "reaped"
  /\ child[Encoder] # "running" /\ pc[Recorder] \notin Unforked => child'[Encoder] # "running"
  /\ pc[Recorder] \notin Unforked => pc'[Recorder] \notin Unforked
  /\ pc[Recorder] \notin Early => pc'[Recorder] \notin Early
  /\ pc[Recorder] = "gone" => pc'[Recorder] = "gone"
  /\ missed => missed'
  /\ files = {} => files' = {}
  /\ shrecord_pid = ForkFailed => shrecord_pid' = ForkFailed
  /\ shrecord_pid # Encoder /\ pc[Recorder] \notin Early => shrecord_pid' # Encoder
  /\ Quiet' => Quiet

LEMMA FrameStays ==
  ASSUME Later, NEW t \in Thread, NEW f \in Frame, FrameSound(t, f)
  PROVE  FrameSound(t, f)'
BY DEF Later, FrameSound, Early
-----------------------------------------------------------------------------
(* The three changes of a stack. *)
LEMMA PushFacts ==
  ASSUME Types, NEW t \in Thread, NEW f \in Frame, Push(t, f)
  PROVE  /\ stack' \in [Thread -> Seq(Frame)]
         /\ \A u \in Thread \ {t} : stack'[u] = stack[u]
         /\ DOMAIN stack'[t] = 1 .. Len(stack[t]) + 1
         /\ DOMAIN stack[t] = 1 .. Len(stack[t]) /\ Len(stack[t]) \in Nat
         /\ stack'[t][1] = f
         /\ \A i \in DOMAIN stack[t] : stack'[t][i + 1] = stack[t][i]
BY DEF Types, Push

LEMMA MoveFacts ==
  ASSUME Types, NEW t \in Thread, stack[t] # <<>>, NEW at \in Point, NEW pid \in Pid, MoveWith(t, at, pid)
  PROVE  /\ stack' \in [Thread -> Seq(Frame)]
         /\ \A u \in Thread \ {t} : stack'[u] = stack[u]
         /\ DOMAIN stack'[t] = DOMAIN stack[t] /\ 1 \in DOMAIN stack[t] /\ Head(stack[t]) = stack[t][1]
         /\ stack'[t][1] = [code |-> Head(stack[t]).code, at |-> at, pid |-> pid]
         /\ \A i \in DOMAIN stack[t] \ {1} : stack'[t][i] = stack[t][i]
<1>1. stack[t] \in Seq(Frame) /\ Len(stack[t]) \in Nat \ {0} /\ DOMAIN stack[t] = 1 .. Len(stack[t])
  BY DEF Types
<1>2. 1 \in DOMAIN stack[t] /\ Head(stack[t]) = stack[t][1] /\ Head(stack[t]) \in Frame
  BY <1>1
<1>. DEFINE f == [code |-> Head(stack[t]).code, at |-> at, pid |-> pid]
<1>3. f \in Frame
  BY <1>2 DEF Frame
<1>4. [stack[t] EXCEPT ![1] = f] \in Seq(Frame)
  <2>. HIDE DEF f
  <2>. QED BY <1>1, <1>3
<1>5. stack' = [stack EXCEPT ![t] = [stack[t] EXCEPT ![1] = f]]
  BY DEF MoveWith
<1>. HIDE DEF f
<1>6. stack' \in [Thread -> Seq(Frame)] /\ stack'[t] = [stack[t] EXCEPT ![1] = f]
  BY <1>4, <1>5 DEF Types
<1>7. \A u \in Thread \ {t} : stack'[u] = stack[u]
  BY <1>5 DEF Types
<1>8. stack'[t][1] = f
  BY <1>2, <1>6
<1>9. DOMAIN stack'[t] = DOMAIN stack[t] /\ \A i \in DOMAIN stack[t] \ {1} : stack'[t][i] = stack[t][i]
  BY <1>6
<1>. QED BY <1>2, <1>6, <1>7, <1>8, <1>9 DEF f

LEMMA PopFacts ==
  ASSUME Types, NEW t \in Thread, stack[t] # <<>>, stack' = [stack EXCEPT ![t] = Tail(@)]
  PROVE  /\ stack' \in [Thread -> Seq(Frame)]
         /\ \A u \in Thread \ {t} : stack'[u] = stack[u]
         /\ DOMAIN stack[t] = 1 .. Len(stack[t]) /\ Len(stack[t]) \in Nat \ {0} /\ Head(stack[t]) = stack[t][1]
         /\ DOMAIN stack'[t] = 1 .. Len(stack[t]) - 1
         /\ \A i \in DOMAIN stack'[t] : i + 1 \in DOMAIN stack[t] /\ stack'[t][i] = stack[t][i + 1]
BY DEF Types

(* What they do to the frames, when the one that is new or has moved is sound. *)
LEMMA PushFrames ==
  ASSUME Types, Apart, Frames, Later, NEW t \in Thread, NEW f \in Frame, Push(t, f),
         \A i \in DOMAIN stack[t] : stack[t][i].code # f.code, FrameSound(t, f)'
  PROVE  stack' \in [Thread -> Seq(Frame)] /\ Apart' /\ Frames'
<1>1. Frames'
  <2>. SUFFICES ASSUME NEW u \in Thread, NEW i \in DOMAIN stack'[u] PROVE FrameSound(u, stack[u][i])'
    BY DEF Frames
  <2>1. CASE u # t
    BY <2>1, PushFacts, FrameStays DEF Types, Frames
  <2>2. CASE u = t /\ i = 1
    BY <2>2, PushFacts
  <2>3. CASE u = t /\ i # 1
    <3>1. i - 1 \in DOMAIN stack[t] /\ stack'[t][i] = stack[t][i - 1]
      BY <2>3, PushFacts
    <3>2. stack[t][i - 1] \in Frame /\ FrameSound(t, stack[t][i - 1])
      BY <3>1 DEF Types, Frames
    <3>3. \A h \in Frame : FrameSound(t, h) => FrameSound(t, h)'
      BY FrameStays
    <3>4. stack'[t][i] \in Frame /\ FrameSound(t, stack'[t][i])
      BY <3>1, <3>2
    <3>. QED BY <2>3, <3>3, <3>4
  <2>. QED BY <2>1, <2>2, <2>3
<1>2. Apart'
  <2>1. ASSUME NEW u \in Thread, NEW i \in DOMAIN stack'[u], NEW j \in DOMAIN stack'[u],
               stack'[u][i].code = stack'[u][j].code
        PROVE  i = j
    <3>1. CASE u = t
      <4>1. ASSUME NEW k \in DOMAIN stack'[t], k # 1
            PROVE  k - 1 \in DOMAIN stack[t] /\ stack'[t][k] = stack[t][k - 1] /\ k \in Int
        BY <4>1, PushFacts
      <4>2. stack'[t][1].code = f.code
        BY PushFacts
      <4>3. CASE i = 1
        BY <2>1, <3>1, <4>1, <4>2, <4>3
      <4>4. CASE j = 1
        BY <2>1, <3>1, <4>1, <4>2, <4>4
      <4>5. CASE i # 1 /\ j # 1
        <5>1. i - 1 = j - 1
          BY <2>1, <3>1, <4>1, <4>5 DEF Apart
        <5>. QED BY <3>1, <4>1, <4>5, <5>1
      <4>. QED BY <4>3, <4>4, <4>5
    <3>2. CASE u # t
      BY <2>1, <3>2, PushFacts DEF Apart
    <3>. QED BY <3>1, <3>2
  <2>. QED BY <2>1 DEF Apart
<1>. QED BY <1>1, <1>2, PushFacts

LEMMA MoveFrames ==
  ASSUME Types, Apart, Frames, Later, NEW t \in Thread, stack[t] # <<>>, NEW at \in Point, NEW pid \in Pid,
         NEW f \in Frame, f = [code |-> Head(stack[t]).code, at |-> at, pid |-> pid],
         MoveWith(t, at, pid), FrameSound(t, f)'
  PROVE  stack' \in [Thread -> Seq(Frame)] /\ Apart' /\ Frames'
<1>1. Frames'
  <2>. SUFFICES ASSUME NEW u \in Thread, NEW i \in DOMAIN stack'[u] PROVE FrameSound(u, stack[u][i])'
    BY DEF Frames
  <2>1. CASE u # t \/ i # 1
    BY <2>1, MoveFacts, FrameStays DEF Types, Frames
  <2>2. CASE u = t /\ i = 1
    <3>1. stack'[u][i] = [code |-> Head(stack[t]).code, at |-> at, pid |-> pid]
      BY <2>2, MoveFacts
    <3>. QED BY <2>2, <3>1
  <2>. QED BY <2>1, <2>2
<1>2. Apart'
  <2>1. \A i \in DOMAIN stack'[t] : i \in DOMAIN stack[t] /\ stack'[t][i].code = stack[t][i].code
    BY MoveFacts
  <2>2. ASSUME NEW u \in Thread, NEW i \in DOMAIN stack'[u], NEW j \in DOMAIN stack'[u],
               stack'[u][i].code = stack'[u][j].code
        PROVE  i = j
    <3>1. CASE u = t
      BY <2>1, <2>2, <3>1 DEF Apart
    <3>2. CASE u # t
      BY <2>2, <3>2, MoveFacts DEF Apart
    <3>. QED BY <3>1, <3>2
  <2>. QED BY <2>2 DEF Apart
<1>. QED BY <1>1, <1>2, MoveFacts

LEMMA PopFrames ==
  ASSUME Types, Apart, Frames, Later, NEW t \in Thread, stack[t] # <<>>, stack' = [stack EXCEPT ![t] = Tail(@)]
  PROVE  stack' \in [Thread -> Seq(Frame)] /\ Apart' /\ Frames'
<1>1. Frames'
  <2>. SUFFICES ASSUME NEW u \in Thread, NEW i \in DOMAIN stack'[u] PROVE FrameSound(u, stack[u][i])'
    BY DEF Frames
  <2>1. CASE u # t
    BY <2>1, PopFacts, FrameStays DEF Types, Frames
  <2>2. CASE u = t
    BY <2>2, PopFacts, FrameStays DEF Types, Frames
  <2>. QED BY <2>1, <2>2
<1>2. Apart'
  <2>1. ASSUME NEW u \in Thread, NEW i \in DOMAIN stack'[u], NEW j \in DOMAIN stack'[u],
               stack'[u][i].code = stack'[u][j].code
        PROVE  i = j
    <3>1. CASE u = t
      <4>1. i + 1 \in DOMAIN stack[t] /\ j + 1 \in DOMAIN stack[t]
        BY <3>1, PopFacts
      <4>2. stack[t][i + 1].code = stack[t][j + 1].code
        BY <2>1, <3>1, PopFacts
      <4>3. i + 1 = j + 1
        BY <4>1, <4>2 DEF Apart
      <4>4. i \in Int /\ j \in Int
        <5>1. DOMAIN stack'[t] = 1 .. Len(stack[t]) - 1 /\ Len(stack[t]) \in Nat
          BY PopFacts
        <5>. QED BY <2>1, <3>1, <5>1
      <4>. QED BY <4>3, <4>4
    <3>2. CASE u # t
      BY <2>1, <3>2, PopFacts DEF Apart
    <3>. QED BY <3>1, <3>2
  <2>. QED BY <2>1 DEF Apart
<1>. QED BY <1>1, <1>2, PopFacts

(* What they do to a handler of SIGCHLD that has not forgotten the encoder. *)
LEMMA PushAwaits ==
  ASSUME Types, NEW t \in Thread, NEW f \in Frame, Push(t, f), NEW u \in Thread,
         Awaited(stack[u]) \/ (u = t /\ f.at = "reaping")
  PROVE  Awaited(stack'[u])
<1>. USE DEF Awaited
<1>1. CASE u # t
  BY <1>1, PushFacts
<1>2. CASE u = t /\ f.at = "reaping"
  BY <1>2, PushFacts
<1>3. CASE u = t /\ Awaited(stack[u])
  <2>1. PICK i \in DOMAIN stack[t] : stack[t][i].at \in {"reaping", "clear"}
    BY <1>3
  <2>2. i + 1 \in DOMAIN stack'[t] /\ stack'[t][i + 1] = stack[t][i]
    BY PushFacts
  <2>. QED BY <1>3, <2>1, <2>2
<1>. QED BY <1>1, <1>2, <1>3

LEMMA MoveAwaits ==
  ASSUME Types, NEW t \in Thread, stack[t] # <<>>, NEW at \in Point, NEW pid \in Pid, MoveWith(t, at, pid),
         at = "clear" \/ Head(stack[t]).at \notin {"reaping", "clear"},
         NEW u \in Thread, Awaited(stack[u])
  PROVE  Awaited(stack'[u])
<1>1. PICK i \in DOMAIN stack[u] : stack[u][i].at \in {"reaping", "clear"}
  BY DEF Awaited
<1>2. i \in DOMAIN stack'[u]
  BY MoveFacts
<1>3. stack'[u][i].at \in {"reaping", "clear"}
  <2>1. CASE u = t /\ i = 1
    <3>1. Head(stack[t]) = stack[t][1]
      BY MoveFacts
    <3>2. stack'[t][1] = [code |-> Head(stack[t]).code, at |-> at, pid |-> pid]
      BY MoveFacts
    <3>. QED BY <1>1, <2>1, <3>1, <3>2
  <2>2. CASE u # t \/ i # 1
    BY <1>1, <2>2, MoveFacts
  <2>. QED BY <2>1, <2>2
<1>. QED BY <1>2, <1>3 DEF Awaited

LEMMA SameFrames ==
  ASSUME Types, Apart, Frames, Later, stack' = stack
  PROVE  stack' \in [Thread -> Seq(Frame)] /\ Apart' /\ Frames'
<1>1. Frames'
  <2>. SUFFICES ASSUME NEW u \in Thread, NEW i \in DOMAIN stack'[u] PROVE FrameSound(u, stack[u][i])'
    BY DEF Frames
  <2>. QED BY FrameStays DEF Types, Frames
<1>. QED BY <1>1 DEF Types, Apart
-----------------------------------------------------------------------------
(* A step of main or of a connection leaves the encoder's thread, its variables *)
(* and every stack alone. *)
LEMMA ServingSteps ==
  ASSUME ServerInv, ended = "no", ended' # "interrupted",
         UNCHANGED <<stack, shrecord_pid, sigchld, nr_encoders, pfds, files, missed, faulted, interrupts>>,
         pc'[Recorder] = pc[Recorder] \/ (pc[Recorder] = "none" /\ pc'[Recorder] \in {"none", "fork"}),
         child'[Encoder] = child[Encoder], pending' \subseteq pending \cup {"SIGCHLD"},
         "SIGCHLD" \in pending' => sigchld,
         Types', Places'
  PROVE  ServerInv'
<1>. USE DEF ServerInv
<1>1. Later
  BY DEF Later, Early, Unforked, Quiet
<1>2. Apart' /\ Frames'
  BY <1>1, SameFrames
<1>3. Recording'
  BY DEF Recording, Unforked, Early
<1>4. Undisturbed'
  BY DEF Undisturbed, Quiet, Early
<1>5. ForgottenIsReaped' /\ EndsClean'
  BY DEF ForgottenIsReaped, EndsClean
<1>. QED BY <1>2, <1>3, <1>4, <1>5

LEMMA MainSteps ==
  ASSUME ServerInv, shrecord_run \/ Trap \/ Listen \/ Panic
  PROVE  ServerInv'
<1>. USE NamesAssumption DEF ServerInv, Thread, Place, MainPoint, RecorderPoint, Early,
                             signals, dispositions, recording, serving, history, At, Goto
<1>1. CASE shrecord_run
  <2>. USE <1>1 DEF shrecord_run
  <2>1. Types'
    BY DEF Types
  <2>2. Places'
    BY DEF Types, Places
  <2>. QED BY <2>1, <2>2, ServingSteps DEF Types, Places, Recording
<1>2. CASE Trap
  <2>. USE <1>2 DEF Trap
  <2>1. Types'
    BY DEF Types
  <2>2. Places'
    BY DEF Types, Places
  <2>. QED BY <2>1, <2>2, ServingSteps DEF Types, Recording
<1>3. CASE Listen
  <2>. USE <1>3 DEF Listen
  <2>1. Types'
    BY DEF Types
  <2>2. Places'
    BY DEF Types, Places
  <2>. QED BY <2>1, <2>2, ServingSteps DEF Types, Recording
<1>4. CASE Panic
  <2>. USE <1>4 DEF Panic
  <2>1. Types'
    BY DEF Types
  <2>2. Places'
    BY DEF Types, Places
  <2>. QED BY <2>1, <2>2, ServingSteps DEF Types, Recording
<1>. QED BY <1>1, <1>2, <1>3, <1>4

LEMMA ClientSteps ==
  ASSUME ServerInv, NEW c \in Client,
         Connect(c) \/ Accept(c) \/ AcceptDropped(c) \/ Response(c) \/ PopenFails(c)
  PROVE  ServerInv'
<1>. USE NamesAssumption, BoundsAssumption
     DEF ServerInv, Thread, Child, Place, MainPoint, ClientPoint,
         signals, dispositions, recording, serving, history, At, Goto
<1>1. CASE Connect(c)
  <2>. USE <1>1 DEF Connect
  <2>1. Types'
    BY DEF Types
  <2>2. Places'
    BY DEF Types, Places
  <2>. QED BY <2>1, <2>2, ServingSteps DEF Types, Recording
<1>2. CASE Accept(c)
  <2>. USE <1>2 DEF Accept
  <2>1. Types'
    BY DEF Types
  <2>2. Places'
    BY DEF Types, Places
  <2>. QED BY <2>1, <2>2, ServingSteps DEF Types, Recording
<1>3. CASE AcceptDropped(c)
  <2>. USE <1>3 DEF AcceptDropped
  <2>1. Types'
    BY DEF Types
  <2>2. Places'
    BY DEF Types, Places
  <2>. QED BY <2>1, <2>2, ServingSteps DEF Types, Recording
<1>4. CASE Popen(c)
  <2>. USE <1>4 DEF Popen
  <2>1. Types'
    BY DEF Types
  <2>2. Places'
    BY DEF Types, Places
  <2>. QED BY <2>1, <2>2, ServingSteps DEF Types, Recording
<1>5. CASE Pclose(c)
  <2>. USE <1>5 DEF Pclose, Waitpid
  <2>1. Types'
    <3>1. todo \in [Client -> 0 .. MaxCommands] /\ todo' = [todo EXCEPT ![c] = @ - 1]
      BY DEF Types
    <3>2. todo[c] > 0
      BY DEF Places
    <3>3. todo[c] \in 0 .. MaxCommands
      BY <3>1
    <3>4. todo[c] - 1 \in 0 .. MaxCommands
      BY <3>2, <3>3
    <3>5. todo' \in [Client -> 0 .. MaxCommands]
      BY <3>1, <3>4
    <3>. QED BY <3>5 DEF Types
  <2>2. Places'
    BY DEF Types, Places
  <2>. QED BY <2>1, <2>2, ServingSteps DEF Types, Recording
<1>6. CASE Served(c)
  <2>. USE <1>6 DEF Served
  <2>1. Types'
    BY DEF Types
  <2>2. Places'
    BY DEF Types, Places
  <2>. QED BY <2>1, <2>2, ServingSteps DEF Types, Recording
<1>7. CASE PopenFails(c)
  <2>. USE <1>7 DEF PopenFails
  <2>1. Types'
    BY DEF Types
  <2>2. Places'
    BY DEF Types, Places
  <2>. QED BY <2>1, <2>2, ServingSteps DEF Types, Recording
<1>8. CASE System(c)
  <2>. USE <1>8 DEF System
  <2>0. pending' \subseteq pending /\ {sigint', saved'} \subseteq {"default", "handler", "ignored"}
    BY DEF Types
  <2>1. Types'
    <3>1. child' \in [Child -> {"none", "running", "zombie", "reaped"}]
      BY DEF Types
    <3>2. pc' \in [Thread -> Place]
      BY DEF Types
    <3>. QED BY <2>0, <3>1, <3>2 DEF Types
  <2>2. Places'
    BY DEF Types, Places
  <2>3. child'[Encoder] = child[Encoder] /\ pc'[Recorder] = pc[Recorder]
    BY DEF Types
  <2>. QED BY <2>0, <2>1, <2>2, <2>3, ServingSteps DEF Recording
<1>9. CASE SystemDone(c)
  <2>. USE <1>9 DEF SystemDone, Waitpid
  <2>0. {sigint', saved'} \subseteq {"default", "handler", "ignored"}
    BY DEF Types
  <2>1. Types'
    <3>1. todo \in [Client -> 0 .. MaxCommands] /\ todo' = [todo EXCEPT ![c] = @ - 1]
      BY DEF Types
    <3>2. todo[c] > 0
      BY DEF Places
    <3>3. todo[c] \in 0 .. MaxCommands
      BY <3>1
    <3>4. todo[c] - 1 \in 0 .. MaxCommands
      BY <3>2, <3>3
    <3>5. todo' \in [Client -> 0 .. MaxCommands]
      BY <3>1, <3>4
    <3>. QED BY <2>0, <3>5 DEF Types
  <2>2. Places'
    BY DEF Types, Places
  <2>. QED BY <2>1, <2>2, ServingSteps DEF Types, Recording
<1>. QED BY <1>1, <1>2, <1>3, <1>4, <1>5, <1>6, <1>7, <1>8, <1>9 DEF Response, shell_stream, kongou_set_param

LEMMA OutsideSteps ==
  ASSUME ServerInv, Interrupt \/ \E c \in Child : ChildEnds(c)
  PROVE  ServerInv'
<1>. USE NamesAssumption DEF ServerInv, Thread, Child, Quiet, Early, Unforked,
                             signals, dispositions, recording, serving, history
<1>1. CASE Interrupt
  <2>. USE <1>1 DEF Interrupt
  <2>1. Later
    BY DEF Later, Types, Recording, ForgottenIsReaped, Places
  <2>2. Apart' /\ Frames'
    BY <2>1, SameFrames
  <2>3. Types'
    <3>1. interrupts' \in Nat
      BY DEF Types
    <3>2. pending' \subseteq {"SIGINT", "SIGCHLD"}
      BY DEF Types
    <3>. QED BY <3>1, <3>2 DEF Types
  <2>4. Places'
    BY DEF Types, Places
  <2>5. Recording'
    BY DEF Types, Recording
  <2>6. Undisturbed'
    BY DEF Types, Places, Recording, Undisturbed
  <2>7. ForgottenIsReaped'
    BY DEF Types, Recording, ForgottenIsReaped
  <2>8. EndsClean'
    BY DEF Types, Recording, EndsClean
  <2>. QED BY <2>2, <2>3, <2>4, <2>5, <2>6, <2>7, <2>8
<1>2. ASSUME NEW c \in Child, ChildEnds(c) PROVE ServerInv'
  <2>. USE <1>2 DEF ChildEnds, Die
  <2>1. Later
    BY DEF Later, Types, Recording, ForgottenIsReaped, Places
  <2>2. Apart' /\ Frames'
    BY <2>1, SameFrames
  <2>3. Types'
    BY DEF Types, Places
  <2>4. Places'
    BY DEF Types, Places
  <2>5. Recording'
    BY DEF Types, Recording
  <2>6. Undisturbed'
    BY DEF Types, Places, Recording, Undisturbed
  <2>7. ForgottenIsReaped'
    BY DEF Types, Recording, ForgottenIsReaped
  <2>8. EndsClean'
    BY DEF Types, Recording, EndsClean
  <2>. QED BY <2>2, <2>3, <2>4, <2>5, <2>6, <2>7, <2>8
<1>. QED BY <1>1, <1>2

LEMMA RecorderSteps ==
  ASSUME ServerInv, Fork \/ Forked \/ Signal \/ OpenFifo \/ FifoFails
  PROVE  ServerInv'
<1>. USE NamesAssumption DEF ServerInv, Thread, Child, Quiet, Early, Unforked, Place, RecorderPoint, MainPoint,
                             Pid, NoPid, ForkFailed, Encoder,
                             signals, dispositions, recording, serving, history, At, Goto
<1>1. CASE Fork
  <2>. USE <1>1 DEF Fork
  <2>1. Later
    BY DEF Later, Types, Recording, ForgottenIsReaped, Places
  <2>2. Apart' /\ Frames'
    BY <2>1, SameFrames
  <2>3. Types'
    BY DEF Types, Places
  <2>4. Places'
    BY DEF Types, Places
  <2>5. Recording'
    BY DEF Types, Recording
  <2>6. Undisturbed'
    BY DEF Types, Places, Recording, Undisturbed
  <2>7. ForgottenIsReaped'
    BY DEF Types, Recording, ForgottenIsReaped
  <2>8. EndsClean'
    BY DEF Types, Recording, EndsClean
  <2>. QED BY <2>2, <2>3, <2>4, <2>5, <2>6, <2>7, <2>8
<1>2. CASE Forked
  <2>. USE <1>2 DEF Forked
  <2>1. Later
    BY DEF Later, Types, Recording, ForgottenIsReaped, Places
  <2>2. Apart' /\ Frames'
    BY <2>1, SameFrames
  <2>3. Types'
    BY DEF Types, Places
  <2>4. Places'
    BY DEF Types, Places
  <2>5. Recording'
    BY DEF Types, Recording
  <2>6. Undisturbed'
    BY DEF Types, Places, Recording, Undisturbed
  <2>7. ForgottenIsReaped'
    BY DEF Types, Recording, ForgottenIsReaped
  <2>8. EndsClean'
    BY DEF Types, Recording, EndsClean
  <2>. QED BY <2>2, <2>3, <2>4, <2>5, <2>6, <2>7, <2>8
<1>3. CASE Signal
  <2>. USE <1>3 DEF Signal
  <2>1. Later
    BY DEF Later, Types, Recording, ForgottenIsReaped, Places
  <2>2. Apart' /\ Frames'
    BY <2>1, SameFrames
  <2>3. Types'
    BY DEF Types, Places
  <2>4. Places'
    BY DEF Types, Places
  <2>5. Recording'
    BY DEF Types, Recording
  <2>6. Undisturbed'
    BY DEF Types, Places, Recording, Undisturbed
  <2>7. ForgottenIsReaped'
    BY DEF Types, Recording, ForgottenIsReaped
  <2>8. EndsClean'
    BY DEF Types, Recording, EndsClean
  <2>. QED BY <2>2, <2>3, <2>4, <2>5, <2>6, <2>7, <2>8
<1>4. CASE OpenFifo
  <2>. USE <1>4 DEF OpenFifo
  <2>1. Later
    BY DEF Later, Types, Recording, ForgottenIsReaped, Places
  <2>2. Apart' /\ Frames'
    BY <2>1, SameFrames
  <2>3. Types'
    BY DEF Types, Places
  <2>4. Places'
    BY DEF Types, Places
  <2>5. Recording'
    BY DEF Types, Recording
  <2>6. Undisturbed'
    BY DEF Types, Places, Recording, Undisturbed
  <2>7. ForgottenIsReaped'
    BY DEF Types, Recording, ForgottenIsReaped
  <2>8. EndsClean'
    BY DEF Types, Recording, EndsClean
  <2>. QED BY <2>2, <2>3, <2>4, <2>5, <2>6, <2>7, <2>8
<1>5. CASE FifoFails
  <2>. USE <1>5 DEF FifoFails
  <2>1. Later
    BY DEF Later, Types, Recording, ForgottenIsReaped, Places
  <2>2. Apart' /\ Frames'
    BY <2>1, SameFrames
  <2>3. Types'
    BY DEF Types, Places
  <2>4. Places'
    BY DEF Types, Places
  <2>5. Recording'
    BY DEF Types, Recording
  <2>6. Undisturbed'
    BY DEF Types, Places, Recording, Undisturbed
  <2>7. ForgottenIsReaped'
    BY DEF Types, Recording, ForgottenIsReaped
  <2>8. EndsClean'
    BY DEF Types, Recording, EndsClean
  <2>. QED BY <2>2, <2>3, <2>4, <2>5, <2>6, <2>7, <2>8
<1>. QED BY <1>1, <1>2, <1>3, <1>4, <1>5
LEMMA CleanStep ==
  ASSUME ServerInv, Clean
  PROVE  ServerInv'
<1>. USE NamesAssumption DEF ServerInv, Thread, Child, Quiet, Early, Unforked, Place, RecorderPoint, MainPoint,
                             Pid, NoPid, ForkFailed, Encoder,
                             signals, dispositions, recording, serving, history, At, Goto, Clean
<1>1. Later
  BY DEF Later, Types, Recording, ForgottenIsReaped, Places
<1>2. PICK f \in Frame : f = [code |-> "call", at |-> "test", pid |-> NoPid]
  BY DEF Frame, Code, Point
<1>3. Push(Recorder, f) /\ \A i \in DOMAIN stack[Recorder] : stack[Recorder][i].code # f.code
  BY <1>2
<1>4. FrameSound(Recorder, f)'
  <2>1. Quiet => shrecord_pid # Encoder
    BY DEF Undisturbed, Awaited
  <2>2. pc'[Recorder] = "gone"
    BY DEF Types
  <2>. QED BY <1>2, <2>1, <2>2 DEF FrameSound
<1>5. stack' \in [Thread -> Seq(Frame)] /\ Apart' /\ Frames'
  BY <1>1, <1>3, <1>4, PushFrames
<1>6. Types'
  BY <1>5 DEF Types
<1>7. Places'
  BY DEF Types, Places
<1>8. Recording'
  BY DEF Types, Recording
<1>9. Undisturbed'
  BY DEF Types, Undisturbed
<1>10. ForgottenIsReaped' /\ EndsClean'
  BY DEF ForgottenIsReaped, EndsClean
<1>. QED BY <1>5, <1>6, <1>7, <1>8, <1>9, <1>10

LEMMA DeliverStep ==
  ASSUME ServerInv, NEW t \in Thread, NEW sig \in pending, Deliver(t, sig)
  PROVE  ServerInv'
<1>. USE NamesAssumption DEF ServerInv, Thread, Child, Quiet, Early, Unforked, Place, RecorderPoint, MainPoint,
                             ClientPoint, Pid, NoPid, ForkFailed, Encoder,
                             recording, dispositions, history, Goto
<1>1. /\ sig \in {"SIGINT", "SIGCHLD"} /\ pending' \subseteq pending
      /\ ended = "no" /\ ended' # "interrupted"
      /\ UNCHANGED <<child, dispositions, recording, todo, history>>
  BY DEF Types, Deliver
<1>2. CASE sig = "SIGINT" /\ sigint = "default"
  <2>1. UNCHANGED <<pc, stack, sd>>
    BY <1>2 DEF Deliver
  <2>2. Later
    BY <1>1, <2>1 DEF Later
  <2>3. stack' \in [Thread -> Seq(Frame)] /\ Apart' /\ Frames'
    BY <2>1, <2>2, SameFrames
  <2>4. Types' /\ Places' /\ Recording'
    BY <1>1, <2>1, <2>3 DEF Types, Places, Recording
  <2>5. Undisturbed' /\ ForgottenIsReaped' /\ EndsClean'
    BY <1>1, <2>1 DEF Undisturbed, ForgottenIsReaped, EndsClean
  <2>. QED BY <2>3, <2>4, <2>5
<1>3. CASE ~(sig = "SIGINT" /\ sigint = "default")
  <2>1. Handle(t, sig) /\ UNCHANGED ended
    BY <1>3 DEF Deliver
  <2>2. Later
    BY <1>1, <2>1 DEF Later, Types, Places, Handle
  <2>3. PICK f \in Frame : f = [code |-> sig, at |-> IF sig = "SIGINT" THEN "test" ELSE "reaping",
                                pid |-> IF sig = "SIGINT" THEN NoPid ELSE shrecord_pid]
    <3>1. shrecord_pid \in Pid
      BY DEF Types
    <3>2. PICK at \in Point : at = IF sig = "SIGINT" THEN "test" ELSE "reaping"
      BY DEF Point
    <3>3. PICK pid \in Pid : pid = IF sig = "SIGINT" THEN NoPid ELSE shrecord_pid
      BY <3>1
    <3>4. [code |-> sig, at |-> at, pid |-> pid] \in Frame
      BY <1>1 DEF Frame, Code
    <3>. QED BY <3>2, <3>3, <3>4
  <2>4. Push(t, f)
    BY <2>1, <2>3 DEF Handle
  <2>5. FrameSound(t, f)'
    BY <1>1, <2>1, <2>2, <2>3 DEF FrameSound, Types, Recording, ForgottenIsReaped, Undisturbed
  <2>6. \A i \in DOMAIN stack[t] : stack[t][i].code # f.code
    BY <2>3 DEF Deliver, Masked
  <2>7. f.at = "reaping" \/ ~Quiet
    BY <1>1, <2>3 DEF Undisturbed
  <2>8. \/ UNCHANGED pc
        \/ t = Recorder /\ pc[t] = "poll" /\ \E at \in {"poll", "clean"} : pc' = [pc EXCEPT ![t] = at]
    BY <2>1 DEF Handle, Places
  <2>9. stack' \in [Thread -> Seq(Frame)] /\ Apart' /\ Frames'
    BY <2>2, <2>4, <2>5, <2>6, PushFrames
  <2>10. Types'
    BY <1>1, <2>8, <2>9 DEF Types
  <2>11. Places'
    BY <1>1, <2>8 DEF Types, Places
  <2>12. Recording'
    BY <1>1, <2>8 DEF Types, Recording
  <2>13. Undisturbed'
    <3>1. Quiet /\ pc'[Recorder] = "clean" /\ shrecord_pid = Encoder => Awaited(stack'[Recorder])
      BY <2>4, <2>7, <2>8, PushAwaits DEF Types, Undisturbed
    <3>. QED BY <1>1, <2>8, <3>1 DEF Types, Undisturbed
  <2>14. ForgottenIsReaped' /\ EndsClean'
    BY <1>1, <2>1 DEF ForgottenIsReaped, EndsClean
  <2>. QED BY <2>9, <2>10, <2>11, <2>12, <2>13, <2>14
<1>. QED BY <1>2, <1>3

(* The innermost frame of a thread, the one that a handler's step moves. *)
LEMMA HeadFacts ==
  ASSUME Types, Frames, NEW t \in Thread, stack[t] # <<>>
  PROVE  /\ Head(stack[t]) \in Frame /\ FrameSound(t, Head(stack[t]))
         /\ Head(stack[t]) = stack[t][1] /\ 1 \in DOMAIN stack[t]
<1>1. stack[t] \in Seq(Frame) /\ Len(stack[t]) \in Nat \ {0} /\ DOMAIN stack[t] = 1 .. Len(stack[t])
  BY DEF Types
<1>2. 1 \in DOMAIN stack[t] /\ Head(stack[t]) = stack[t][1] /\ Head(stack[t]) \in Frame
  BY <1>1
<1>. QED BY <1>2 DEF Frames

LEMMA TestStep ==
  ASSUME ServerInv, NEW t \in Thread, CleanupTest(t)
  PROVE  ServerInv'
<1>. USE NamesAssumption DEF ServerInv, Thread, Child, Quiet, Early, Unforked,
                             Pid, NoPid, ForkFailed, Encoder,
                             signals, dispositions, recording, serving, history, In
<1>1. /\ Head(stack[t]) \in Frame /\ FrameSound(t, Head(stack[t])) /\ stack[t] # <<>>
      /\ ended = "no" /\ ended' # "interrupted"
      /\ UNCHANGED <<pc, nr_encoders, pfds, files, serving, faulted, interrupts>>
  BY HeadFacts DEF CleanupTest
<1>2. Later
  BY <1>1 DEF CleanupTest, Later, Types, Recording, ForgottenIsReaped, FrameSound
<1>3. PICK at \in Point, pid \in Pid : at = (IF shrecord_pid = NoPid THEN "unlink" ELSE "kill") /\ pid = shrecord_pid
  BY <1>1 DEF Types, Frame, Point
<1>4. MoveWith(t, at, pid)
  BY <1>3 DEF CleanupTest, Move
<1>5. PICK f \in Frame : f = [code |-> Head(stack[t]).code, at |-> at, pid |-> pid]
  BY <1>1 DEF Frame
<1>6. FrameSound(t, f)'
  <2>1. /\ Head(stack[t]).at = "test" /\ UNCHANGED <<child, sigchld, shrecord_pid>> /\ (Quiet' => Quiet)
        /\ missed' = (missed \/ (shrecord_pid = NoPid /\ ~sigchld))
    BY <1>1 DEF CleanupTest
  <2>2. f.code # "SIGCHLD" /\ (f.code = "call" => t = Recorder /\ pc'[Recorder] = "gone")
    BY <1>1, <1>5, <2>1 DEF FrameSound
  <2>3. Quiet => f.code = "call" /\ shrecord_pid # Encoder
    BY <1>1, <1>5, <2>1, <2>2 DEF FrameSound, Frame, Code
  <2>4. CASE shrecord_pid = NoPid
    <3>1. f.at = "unlink" /\ f.pid = NoPid
      BY <1>3, <1>5, <2>4
    <3>2. missed' \/ (child'[Encoder] # "running" /\ pc'[Recorder] \notin Unforked)
      BY <1>1, <2>1, <2>4 DEF ForgottenIsReaped, Recording
    <3>. QED BY <1>1, <2>1, <2>2, <2>3, <3>1, <3>2 DEF FrameSound
  <2>5. CASE shrecord_pid # NoPid
    <3>1. f.at = "kill" /\ f.pid = shrecord_pid
      BY <1>3, <1>5, <2>5
    <3>2. pc'[Recorder] \notin Unforked
      BY <1>1, <2>5 DEF Recording
    <3>. QED BY <1>1, <2>1, <2>2, <2>3, <2>5, <3>1, <3>2 DEF FrameSound
  <2>. QED BY <2>4, <2>5
<1>7. stack' \in [Thread -> Seq(Frame)] /\ Apart' /\ Frames'
  BY <1>1, <1>2, <1>4, <1>5, <1>6, MoveFrames
<1>8. Types'
  BY <1>1, <1>7 DEF CleanupTest, Types
<1>9. Places'
  BY <1>1 DEF Places
<1>10. Recording'
  BY <1>1 DEF CleanupTest, Types, Recording, ForgottenIsReaped, FrameSound
<1>11. Undisturbed'
  <2>1. pc[Recorder] = "clean" /\ Quiet => shrecord_pid' # Encoder \/ Awaited(stack'[Recorder])
    BY <1>1, <1>3, <1>4, MoveAwaits DEF CleanupTest, Undisturbed, FrameSound
  <2>. QED BY <1>1, <2>1 DEF CleanupTest, Undisturbed, Types, FrameSound
<1>12. ForgottenIsReaped' /\ EndsClean'
  BY <1>1 DEF CleanupTest, ForgottenIsReaped, EndsClean, FrameSound, Recording
<1>. QED BY <1>7, <1>8, <1>9, <1>10, <1>11, <1>12

LEMMA KillStep ==
  ASSUME ServerInv, NEW t \in Thread, CleanupKill(t)
  PROVE  ServerInv'
<1>. USE NamesAssumption DEF ServerInv, Thread, Child, Quiet, Early, Unforked,
                             Pid, NoPid, ForkFailed, Encoder,
                             signals, dispositions, recording, serving, history, In
<1>1. /\ Head(stack[t]) \in Frame /\ FrameSound(t, Head(stack[t])) /\ stack[t] # <<>>
      /\ ended = "no" /\ ended' # "interrupted"
      /\ UNCHANGED <<pc, nr_encoders, pfds, files, serving, faulted, interrupts>>
  BY HeadFacts DEF CleanupKill
<1>2. Later
  BY <1>1 DEF CleanupKill, Later, Types, Recording, ForgottenIsReaped, FrameSound, Die
<1>3. PICK at \in Point, pid \in Pid : at = "wait" /\ pid = NoPid
  BY <1>1 DEF Types, Frame, Point
<1>4. MoveWith(t, at, pid)
  BY <1>3 DEF CleanupKill, Move
<1>5. PICK f \in Frame : f = [code |-> Head(stack[t]).code, at |-> at, pid |-> pid]
  BY <1>1 DEF Frame
<1>6. FrameSound(t, f)'
  BY <1>1, <1>3, <1>5 DEF CleanupKill, FrameSound, Types, Recording, ForgottenIsReaped, Undisturbed, Die
<1>7. stack' \in [Thread -> Seq(Frame)] /\ Apart' /\ Frames'
  BY <1>1, <1>2, <1>4, <1>5, <1>6, MoveFrames
<1>8. Types'
  BY <1>1, <1>7 DEF CleanupKill, Types, Die
<1>9. Places'
  BY <1>1 DEF Places
<1>10. Recording'
  BY <1>1 DEF CleanupKill, Types, Recording, ForgottenIsReaped, FrameSound, Die
<1>11. Undisturbed'
  <2>1. pc[Recorder] = "clean" /\ Quiet => shrecord_pid' # Encoder \/ Awaited(stack'[Recorder])
    BY <1>1, <1>3, <1>4, MoveAwaits DEF CleanupKill, Undisturbed, FrameSound
  <2>2. Quiet => "SIGINT" \notin pending'
    BY DEF CleanupKill, Undisturbed, Die
  <2>5. UNCHANGED shrecord_pid
    BY DEF CleanupKill
  <2>. QED BY <1>1, <2>1, <2>2, <2>5 DEF Undisturbed
<1>12. ForgottenIsReaped' /\ EndsClean'
  BY <1>1 DEF CleanupKill, ForgottenIsReaped, EndsClean, FrameSound, Recording, Die
<1>. QED BY <1>7, <1>8, <1>9, <1>10, <1>11, <1>12

LEMMA WaitStep ==
  ASSUME ServerInv, NEW t \in Thread, CleanupWait(t)
  PROVE  ServerInv'
<1>. USE NamesAssumption DEF ServerInv, Thread, Child, Quiet, Early, Unforked,
                             Pid, NoPid, ForkFailed, Encoder,
                             signals, dispositions, recording, serving, history, In
<1>1. /\ Head(stack[t]) \in Frame /\ FrameSound(t, Head(stack[t])) /\ stack[t] # <<>>
      /\ ended = "no" /\ ended' # "interrupted"
      /\ UNCHANGED <<pc, nr_encoders, pfds, files, serving, faulted, interrupts>>
  BY HeadFacts DEF CleanupWait
<1>2. Later
  BY <1>1 DEF CleanupWait, Later, Types, Recording, ForgottenIsReaped, FrameSound
<1>3. PICK at \in Point, pid \in Pid : at = "waiting" /\ pid = shrecord_pid
  BY <1>1 DEF Types, Frame, Point
<1>4. MoveWith(t, at, pid)
  BY <1>3 DEF CleanupWait, Move
<1>5. PICK f \in Frame : f = [code |-> Head(stack[t]).code, at |-> at, pid |-> pid]
  BY <1>1 DEF Frame
<1>6. FrameSound(t, f)'
  BY <1>1, <1>3, <1>5 DEF CleanupWait, FrameSound, Types, Recording, ForgottenIsReaped, Undisturbed
<1>7. stack' \in [Thread -> Seq(Frame)] /\ Apart' /\ Frames'
  BY <1>1, <1>2, <1>4, <1>5, <1>6, MoveFrames
<1>8. Types'
  BY <1>1, <1>7 DEF CleanupWait, Types
<1>9. Places'
  BY <1>1 DEF Places
<1>10. Recording'
  BY <1>1 DEF CleanupWait, Types, Recording, ForgottenIsReaped, FrameSound
<1>11. Undisturbed'
  <2>1. pc[Recorder] = "clean" /\ Quiet => shrecord_pid' # Encoder \/ Awaited(stack'[Recorder])
    BY <1>1, <1>3, <1>4, MoveAwaits DEF CleanupWait, Undisturbed, FrameSound
  <2>. QED BY <1>1, <2>1 DEF CleanupWait, Undisturbed, Types, FrameSound
<1>12. ForgottenIsReaped' /\ EndsClean'
  BY <1>1 DEF CleanupWait, ForgottenIsReaped, EndsClean, FrameSound, Recording
<1>. QED BY <1>7, <1>8, <1>9, <1>10, <1>11, <1>12

LEMMA WaitedStep ==
  ASSUME ServerInv, NEW t \in Thread, CleanupWaited(t)
  PROVE  ServerInv'
<1>. USE NamesAssumption DEF ServerInv, Thread, Child, Quiet, Early, Unforked,
                             Pid, NoPid, ForkFailed, Encoder,
                             signals, dispositions, recording, serving, history, In
<1>1. /\ Head(stack[t]) \in Frame /\ FrameSound(t, Head(stack[t])) /\ stack[t] # <<>>
      /\ ended = "no" /\ ended' # "interrupted"
      /\ UNCHANGED <<pc, nr_encoders, pfds, files, serving, faulted, interrupts>>
  BY HeadFacts DEF CleanupWaited
<1>2. Later
  BY <1>1 DEF CleanupWaited, Later, Types, Recording, ForgottenIsReaped, FrameSound, Waitpid
<1>3. PICK at \in Point, pid \in Pid : at = "unlink" /\ pid = NoPid
  BY <1>1 DEF Types, Frame, Point
<1>4. MoveWith(t, at, pid)
  BY <1>3 DEF CleanupWaited, Move
<1>5. PICK f \in Frame : f = [code |-> Head(stack[t]).code, at |-> at, pid |-> pid]
  BY <1>1 DEF Frame
<1>6. FrameSound(t, f)'
  BY <1>1, <1>2, <1>3, <1>5 DEF CleanupWaited, FrameSound, Later, Frame, Code
<1>7. stack' \in [Thread -> Seq(Frame)] /\ Apart' /\ Frames'
  BY <1>1, <1>2, <1>4, <1>5, <1>6, MoveFrames
<1>8. Types'
  BY <1>1, <1>7 DEF CleanupWaited, Types, Waitpid
<1>9. Places'
  BY <1>1 DEF Places
<1>10. Recording'
  BY <1>1 DEF CleanupWaited, Types, Recording, ForgottenIsReaped, FrameSound, Waitpid
<1>11. Undisturbed'
  <2>1. pc[Recorder] = "clean" /\ Quiet => shrecord_pid' # Encoder \/ Awaited(stack'[Recorder])
    BY <1>1, <1>3, <1>4, MoveAwaits DEF CleanupWaited, Undisturbed, FrameSound
  <2>. QED BY <1>1, <2>1 DEF CleanupWaited, Undisturbed, Types, FrameSound, Waitpid
<1>12. ForgottenIsReaped' /\ EndsClean'
  BY <1>1, <1>2 DEF CleanupWaited, ForgottenIsReaped, EndsClean, Later
<1>. QED BY <1>7, <1>8, <1>9, <1>10, <1>11, <1>12

LEMMA ReapedStep ==
  ASSUME ServerInv, NEW t \in Thread, SigchldReaped(t)
  PROVE  ServerInv'
<1>. USE NamesAssumption DEF ServerInv, Thread, Child, Quiet, Early, Unforked,
                             Pid, NoPid, ForkFailed, Encoder,
                             signals, dispositions, recording, serving, history, In
<1>1. /\ Head(stack[t]) \in Frame /\ FrameSound(t, Head(stack[t])) /\ stack[t] # <<>>
      /\ ended = "no" /\ ended' # "interrupted"
      /\ UNCHANGED <<pc, nr_encoders, pfds, files, serving, faulted, interrupts>>
  BY HeadFacts DEF SigchldReaped
<1>2. Later
  BY <1>1 DEF SigchldReaped, Later, Types, Recording, ForgottenIsReaped, FrameSound, Waitpid
<1>3. PICK at \in Point, pid \in Pid : at = "clear" /\ pid = NoPid
  BY <1>1 DEF Types, Frame, Point
<1>4. MoveWith(t, at, pid)
  BY <1>3 DEF SigchldReaped, Move
<1>5. PICK f \in Frame : f = [code |-> Head(stack[t]).code, at |-> at, pid |-> pid]
  BY <1>1 DEF Frame
<1>6. FrameSound(t, f)'
  BY <1>1, <1>3, <1>5 DEF SigchldReaped, FrameSound, Types, Recording, ForgottenIsReaped, Undisturbed, Waitpid
<1>7. stack' \in [Thread -> Seq(Frame)] /\ Apart' /\ Frames'
  BY <1>1, <1>2, <1>4, <1>5, <1>6, MoveFrames
<1>8. Types'
  BY <1>1, <1>7 DEF SigchldReaped, Types, Waitpid
<1>9. Places'
  BY <1>1 DEF Places
<1>10. Recording'
  BY <1>1 DEF SigchldReaped, Types, Recording, ForgottenIsReaped, FrameSound, Waitpid
<1>11. Undisturbed'
  <2>1. pc[Recorder] = "clean" /\ Quiet => shrecord_pid' # Encoder \/ Awaited(stack'[Recorder])
    BY <1>1, <1>3, <1>4, MoveAwaits DEF SigchldReaped, Undisturbed, FrameSound
  <2>. QED BY <1>1, <2>1 DEF SigchldReaped, Undisturbed, Types, FrameSound, Waitpid
<1>12. ForgottenIsReaped' /\ EndsClean'
  BY <1>1, <1>2 DEF SigchldReaped, ForgottenIsReaped, EndsClean, Later
<1>. QED BY <1>7, <1>8, <1>9, <1>10, <1>11, <1>12

LEMMA ClearStep ==
  ASSUME ServerInv, NEW t \in Thread, SigchldClear(t)
  PROVE  ServerInv'
<1>. USE NamesAssumption DEF ServerInv, Thread, Child, Quiet, Early, Unforked,
                             Pid, NoPid, ForkFailed, Encoder,
                             signals, dispositions, recording, serving, history, In
<1>1. /\ Head(stack[t]) \in Frame /\ FrameSound(t, Head(stack[t])) /\ stack[t] # <<>>
      /\ ended = "no" /\ ended' # "interrupted"
      /\ UNCHANGED <<pc, nr_encoders, pfds, files, serving, faulted, interrupts>>
  BY HeadFacts DEF SigchldClear
<1>2. Later
  BY <1>1 DEF SigchldClear, Later, Types, Recording, ForgottenIsReaped, FrameSound
<1>3. PICK at \in Point, pid \in Pid : at = "unlink" /\ pid = Head(stack[t]).pid
  BY <1>1 DEF Types, Frame, Point
<1>4. MoveWith(t, at, pid)
  BY <1>3 DEF SigchldClear, Move
<1>5. PICK f \in Frame : f = [code |-> Head(stack[t]).code, at |-> at, pid |-> pid]
  BY <1>1 DEF Frame
<1>6. FrameSound(t, f)'
  BY <1>1, <1>3, <1>5 DEF SigchldClear, FrameSound, Types, Recording, ForgottenIsReaped, Undisturbed
<1>7. stack' \in [Thread -> Seq(Frame)] /\ Apart' /\ Frames'
  BY <1>1, <1>2, <1>4, <1>5, <1>6, MoveFrames
<1>8. Types'
  BY <1>1, <1>7 DEF SigchldClear, Types
<1>9. Places'
  BY <1>1 DEF Places
<1>10. Recording'
  BY <1>1 DEF SigchldClear, Types, Recording, ForgottenIsReaped, FrameSound
<1>11. Undisturbed'
  <2>1. pc[Recorder] = "clean" /\ Quiet => shrecord_pid' # Encoder \/ Awaited(stack'[Recorder])
    BY <1>1, <1>3, <1>4, MoveAwaits DEF SigchldClear, Undisturbed, FrameSound
  <2>. QED BY <1>1, <2>1 DEF SigchldClear, Undisturbed, Types, FrameSound
<1>12. ForgottenIsReaped' /\ EndsClean'
  BY <1>1 DEF SigchldClear, ForgottenIsReaped, EndsClean, FrameSound, Recording
<1>. QED BY <1>7, <1>8, <1>9, <1>10, <1>11, <1>12
LEMMA UnlinkStep ==
  ASSUME ServerInv, NEW t \in Thread, CleanupUnlink(t)
  PROVE  ServerInv'
<1>. USE NamesAssumption DEF ServerInv, Thread, Child, Quiet, Early, Unforked,
                             Pid, NoPid, ForkFailed, Encoder,
                             signals, dispositions, recording, serving, history, In
<1>1. /\ Head(stack[t]) \in Frame /\ FrameSound(t, Head(stack[t])) /\ stack[t] # <<>>
      /\ Head(stack[t]).at = "unlink" /\ ended = "no" /\ files' = {}
      /\ UNCHANGED <<pc, child, signals, shrecord_pid, nr_encoders, pfds, serving, ended, history>>
  BY HeadFacts DEF CleanupUnlink, Types
<1>2. Later
  BY <1>1 DEF Later
<1>3. stack' \in [Thread -> Seq(Frame)] /\ Apart' /\ Frames'
  <2>1. CASE Head(stack[t]).code = "SIGINT"
    <3>1. PICK at \in Point, pid \in Pid : at = "raise" /\ pid = Head(stack[t]).pid
      BY <1>1 DEF Frame, Point
    <3>2. MoveWith(t, at, pid)
      BY <2>1, <3>1 DEF CleanupUnlink, Move
    <3>3. PICK f \in Frame : f = [code |-> Head(stack[t]).code, at |-> at, pid |-> pid]
      BY <1>1 DEF Frame
    <3>4. FrameSound(t, f)'
      BY <1>1, <2>1, <3>1, <3>3 DEF FrameSound
    <3>. QED BY <1>1, <1>2, <3>2, <3>3, <3>4, MoveFrames
  <2>2. CASE Head(stack[t]).code # "SIGINT"
    BY <1>1, <1>2, <2>2, PopFrames DEF CleanupUnlink
  <2>. QED BY <2>1, <2>2
<1>4. Types'
  BY <1>1, <1>3 DEF Types
<1>5. Places'
  BY <1>1 DEF Places
<1>6. Recording'
  BY <1>1 DEF Recording
<1>7. Undisturbed'
  BY <1>1 DEF Undisturbed, FrameSound
<1>8. ForgottenIsReaped' /\ EndsClean'
  BY <1>1 DEF ForgottenIsReaped, EndsClean
<1>. QED BY <1>3, <1>4, <1>5, <1>6, <1>7, <1>8

LEMMA DefaultStep ==
  ASSUME ServerInv, NEW t \in Thread, Default(t)
  PROVE  ServerInv'
<1>. USE DEF ServerInv, Quiet, Early, Unforked, signals, dispositions, recording, serving, history, In
<1>1. /\ Head(stack[t]) \in Frame /\ FrameSound(t, Head(stack[t])) /\ stack[t] # <<>>
      /\ Head(stack[t]).at = "raise" /\ ended = "no" /\ sigint' = "default"
      /\ UNCHANGED <<pc, child, pending, sigchld, saved, recording, serving, ended, history>>
  BY HeadFacts DEF Default
<1>2. Later
  BY <1>1 DEF Later
<1>3. PICK at \in Point, pid \in Pid : at = "again" /\ pid = Head(stack[t]).pid
  BY <1>1 DEF Frame, Point
<1>4. MoveWith(t, at, pid)
  BY <1>3 DEF Default, Move
<1>5. PICK f \in Frame : f = [code |-> Head(stack[t]).code, at |-> at, pid |-> pid]
  BY <1>1 DEF Frame
<1>6. FrameSound(t, f)'
  BY <1>1, <1>2, <1>3, <1>5 DEF FrameSound, Later
<1>7. stack' \in [Thread -> Seq(Frame)] /\ Apart' /\ Frames'
  BY <1>1, <1>2, <1>4, <1>5, <1>6, MoveFrames
<1>8. Types' /\ Places' /\ Recording'
  BY <1>1, <1>7 DEF Types, Places, Recording
<1>9. Undisturbed'
  BY <1>1, <1>3, <1>4, MoveAwaits DEF Undisturbed, FrameSound
<1>10. ForgottenIsReaped' /\ EndsClean'
  BY <1>1 DEF ForgottenIsReaped, EndsClean
<1>. QED BY <1>7, <1>8, <1>9, <1>10

LEMMA RaiseStep ==
  ASSUME ServerInv, NEW t \in Thread, Raise(t)
  PROVE  ServerInv'
<1>. USE DEF ServerInv, Quiet, Early, Unforked, signals, dispositions, recording, serving, history, In
<1>1. /\ Head(stack[t]) \in Frame /\ FrameSound(t, Head(stack[t])) /\ stack[t] # <<>>
      /\ Head(stack[t]).at = "again" /\ ended = "no" /\ pending' \subseteq pending \cup {"SIGINT"}
      /\ UNCHANGED <<pc, child, dispositions, recording, serving, missed, faulted, interrupts>>
  BY HeadFacts DEF Raise
<1>2. ~Quiet /\ files = {}
  BY <1>1 DEF FrameSound
<1>3. Later
  BY <1>1 DEF Later
<1>4. stack' \in [Thread -> Seq(Frame)] /\ Apart' /\ Frames'
  <2>1. CASE sigint = "default"
    <3>1. stack' = [stack EXCEPT ![t] = @]
      BY <2>1 DEF Raise
    <3>2. stack' = stack
      BY <3>1 DEF Types
    <3>. QED BY <1>3, <3>2, SameFrames
  <2>2. CASE sigint # "default"
    <3>1. stack' = [stack EXCEPT ![t] = Tail(@)]
      BY <2>2 DEF Raise
    <3>. QED BY <1>1, <1>3, <3>1, PopFrames
  <2>. QED BY <2>1, <2>2
<1>5. Types' /\ Places' /\ Recording'
  BY <1>1, <1>4 DEF Types, Places, Recording
<1>6. Undisturbed' /\ ForgottenIsReaped'
  BY <1>1, <1>2 DEF Undisturbed, ForgottenIsReaped
<1>7. EndsClean'
  BY <1>1, <1>2 DEF EndsClean, FrameSound
<1>. QED BY <1>4, <1>5, <1>6, <1>7
-----------------------------------------------------------------------------
(* The invariant, and what it gives. *)
LEMMA InitInv == ASSUME Init PROVE ServerInv
<1>. USE NamesAssumption DEF Init, Thread, Child, NoPid, ForkFailed, Encoder, Pid
<1>1. Types
  <2>1. nr_encoders \in Nat
    BY BoundsAssumption
  <2>2. pc \in [Thread -> Place] /\ stack \in [Thread -> Seq(Frame)]
    <3>1. <<>> \in Seq(Frame)
      OBVIOUS
    <3>2. {"start", "none"} \subseteq Place
      BY DEF Place, MainPoint, ClientPoint
    <3>. QED BY <3>1, <3>2
  <2>3. todo \in [Client -> 0 .. MaxCommands]
    BY BoundsAssumption
  <2>4. pfds \in 0 .. nr_encoders
    BY <2>1
  <2>5. child \in [Child -> {"none", "running", "zombie", "reaped"}]
    OBVIOUS
  <2>. QED BY <2>1, <2>2, <2>3, <2>4, <2>5 DEF Types
<1>2. Places /\ Recording
  BY DEF Places, Recording, MainPoint, RecorderPoint, ClientPoint, Early, Unforked
<1>3. Apart /\ Frames
  BY DEF Apart, Frames
<1>4. Undisturbed /\ ForgottenIsReaped /\ EndsClean
  BY DEF Undisturbed, ForgottenIsReaped, EndsClean, Quiet
<1>. QED BY <1>1, <1>2, <1>3, <1>4 DEF ServerInv

LEMMA NextInv == ASSUME ServerInv, [Next]_vars PROVE ServerInv'
<1>1. CASE UNCHANGED vars
  <2>. USE <1>1 DEF vars, signals, dispositions, recording, serving, history, ServerInv, Quiet
  <2>1. Types' /\ Places' /\ Apart' /\ Recording'
    BY DEF Types, Places, Apart, Recording
  <2>2. Later
    BY DEF Later
  <2>3. Frames'
    BY <2>2, SameFrames
  <2>. QED BY <2>1, <2>3 DEF Undisturbed, ForgottenIsReaped, EndsClean
<1>2. ASSUME NEW t \in Thread, Handler(t) PROVE ServerInv'
  BY <1>2, TestStep, KillStep, WaitStep, WaitedStep, UnlinkStep, ReapedStep, ClearStep, DefaultStep, RaiseStep
     DEF Handler, shrecord_cleanup, shrecord_sigchld_handler, sig_handler
<1>3. ASSUME NEW t \in Thread, NEW sig \in pending, Deliver(t, sig) PROVE ServerInv'
  BY <1>3, DeliverStep
<1>4. CASE Interrupt \/ \E c \in Child : ChildEnds(c)
  BY <1>4, OutsideSteps
<1>5. CASE shrecord_main \/ FifoFails
  BY <1>5, RecorderSteps, CleanStep DEF shrecord_main
<1>6. CASE shrecord_run \/ Trap \/ Listen \/ Panic
  BY <1>6, MainSteps
<1>7. CASE \E c \in Client : Connect(c) \/ Accept(c) \/ AcceptDropped(c) \/ Response(c) \/ PopenFails(c)
  BY <1>7, ClientSteps
<1>. QED BY <1>1, <1>2, <1>3, <1>4, <1>5, <1>6, <1>7 DEF Next

LEMMA Invariance == Spec => []ServerInv
BY InitInv, NextInv, PTL DEF Spec

(* The handler of SIGCHLD clears shrecord_pid (shrecord.c:137) only when the encoder
   has been waited for, whichever child's end it was called for. *)
THEOREM EncoderNotForgotten == Spec => []ForgottenIsReaped
BY Invariance, PTL DEF ServerInv

(* sig_handler (main.c:63) ends the process after shrecord_cleanup: no fifo and no
   control file is left, nor an encoder that a cleanup could have seen. *)
THEOREM InterruptedEndsClean == Spec => []EndsClean
BY Invariance, PTL DEF ServerInv

(* What kill in shrecord_cleanup (shrecord.c:111) is called on: beyond the encoder
   only with one of the three causes. *)
THEOREM KillsTheEncoder == Spec => []KillHasCause
<1>1. ServerInv => KillHasCause
  <2>. SUFFICES ASSUME ServerInv, NEW t \in Thread, In(t, "kill")
                PROVE  /\ Quiet => NoPid \notin Targets(t) /\ Encoder \notin Targets(t)
                       /\ ForkFailed \in Targets(t) => shrecord_pid = ForkFailed
    BY DEF KillHasCause, Quiet, ServerInv, Types
  <2>1. Head(stack[t]) \in Frame /\ FrameSound(t, Head(stack[t])) /\ Head(stack[t]).at = "kill"
    BY HeadFacts DEF ServerInv, In
  <2>2. Quiet => Head(stack[t]).code = "call"
    BY <2>1 DEF FrameSound, Frame, Code
  <2>3. Quiet => shrecord_pid = ForkFailed /\ Head(stack[t]).pid = ForkFailed
    BY <2>1, <2>2 DEF FrameSound, Frame, Pid
  <2>. QED BY <2>1, <2>3 DEF FrameSound, Targets, NoPid, ForkFailed, Encoder
<1>. QED BY <1>1, Invariance, PTL

(* Type correctness: no stack holds a handler or a call twice, so no stack is higher
   than three. *)
THEOREM ServerTypes == Spec => []TypeOK
<1>1. ServerInv => TypeOK
  <2>. SUFFICES ASSUME ServerInv PROVE TypeOK
    OBVIOUS
  <2>1. \A t \in Thread : \A i \in DOMAIN stack[t] : stack[t][i] \in Frame
    BY DEF ServerInv, Types
  <2>. QED BY <2>1 DEF ServerInv, Types, Apart, TypeOK, Frame, Place, MainPoint, RecorderPoint, ClientPoint
<1>. QED BY <1>1, Invariance, PTL
=============================================================================
