----------------------------- MODULE MainServer ----------------------------
(***************************************************************************)
(* apshd: the main server of frontend/server/server.go (mainSrv: run and   *)
(* uxServe), and the child process it starts for each session (runChild).  *)
(*                                                                         *)
(* A client asks the main server over UDP to open a session.  The main     *)
(* server picks a port and starts a child, and waits for the key of the    *)
(* session.  Children report through a Unix socket that uxServe reads; it  *)
(* forwards what it reads to run through exChan, a channel of capacity 1.  *)
(* Within a child the goroutine of serve and the one that starts the shell *)
(* and waits for it run side by side.                                      *)
(***************************************************************************)
EXTENDS Integers, Sequences, FiniteSets, FiniteSetsExt, Functions

CONSTANTS
  MaxWorkers,   \* maxPortLimit, 100
  Attempts,     \* 5: ports startChild tries
  Foreign,      \* sets of ports that other programs may listen on
  MaxChild      \* bound: children started

ASSUME MainServerAssumption ==
  /\ MaxWorkers \in Nat /\ Attempts \in Nat \ {0} /\ Foreign \subseteq SUBSET (Nat \ {0})
  /\ MaxChild \in Nat

\* Ports are counted from the one the main server listens on.
Port  == Nat \ {0}
Child == 1..MaxChild
None  == 0

VARIABLES
  pc,        \* run: where its loop is, "done" or "panic"
  workers,   \* mainSrv.workers: from ports; child = None is a placeholder
  opening,   \* the child whose key startChild waits for, in "wait"
  exChan,    \* the channel from uxServe to run
  uxdown,    \* uxdownChan: run asks uxServe to stop
  ux,        \* uxServe: "check", "read", "forward" (the head of uxSock) or "done"
  uxSock,    \* datagrams in the Unix socket
  foreign,   \* the ports that other programs listen on, the same throughout
  child,     \* the processes
  answers,   \* history: what clients were told
  mishaps    \* history: what went wrong, see ShutdownCompletes

mainVars == <<pc, workers, opening, foreign, answers>>
chanVars == <<exChan, uxdown, ux>>
vars == <<mainVars, chanVars, uxSock, child, mishaps>>

NotYet == [port |-> None, stage |-> "unborn", serve |-> "no", shell |-> "no", term |-> FALSE]
Gone   == [NotYet EXCEPT !.stage = "gone"]

Init ==
  /\ pc = "run" /\ workers = <<>> /\ opening = None
  /\ exChan = <<>> /\ uxdown = FALSE /\ ux = "check" /\ uxSock = <<>>
  /\ child = [c \in Child |-> NotYet]
  /\ foreign \in Foreign
  /\ answers = {} /\ mishaps = {}

-----------------------------------------------------------------------------
(* Ports.                                                                  *)

\* The ports in use in increasing order, as sort.Ints leaves them.
Ports(w) == CHOOSE s \in [1..Cardinality(DOMAIN w) -> DOMAIN w] :
              \A i, j \in DOMAIN s : i < j => s[i] < s[j]

\* Mutated: the first gap is missed when it is at the first port.
MGetAvailabePort(w) ==
  LET ports == Ports(w)
      gaps  == {i \in DOMAIN ports : i > 1 /\ i < ports[i]}
  IN  IF gaps # {} THEN Min(gaps) ELSE Len(ports) + 1

\* The first position whose port is greater than it should be without gaps,
\* otherwise the port after the greatest.
GetAvailabePort(w) ==
  LET ports == Ports(w)
      gaps  == {i \in DOMAIN ports : i < ports[i]}
  IN  IF w = <<>> THEN 1
      ELSE IF gaps # {} THEN Min(gaps) ELSE ports[Len(ports)] + 1

\* Listening on p succeeds; the port of a child is bound once it has sent its key.
CheckPortAvailable(p) ==
  /\ p \notin foreign
  /\ \A c \in Child : child[c].stage \in {"keyed", "serving"} => child[c].port # p

With(w, p, entry) == [q \in DOMAIN w \cup {p} |-> IF q = p THEN entry ELSE w[q]]
Without(w, p)     == Restrict(w, DOMAIN w \ {p})
Placeholder == [child |-> None, shell |-> None]
HasPlaceholder(w) == \E p \in DOMAIN w : w[p].child = None

\* The workers after n attempts, all of them in vain.
Tried[n \in 0..Attempts] ==
  IF n = 0 THEN workers
  ELSE LET w == Tried[n - 1] IN With(w, GetAvailabePort(w), Placeholder)

\* The number of attempts in vain before the one that settles the port: the
\* last one does, available or not.
InVain ==
  Min({n \in 0..Attempts - 1 : n = Attempts - 1 \/ CheckPortAvailable(GetAvailabePort(Tried[n]))})

-----------------------------------------------------------------------------
(* Messages and signals.                                                   *)

Message(header, c, about) == [header |-> header, port |-> child[c].port, about |-> about]

\* Mutated: the session is over for the main server when serve has returned.
MCleanWorker(msg) == msg.header \in {"serve", "run"}

CleanWorker(msg) == msg.header = "run"

\* Mutated: what comes first is taken for the key.
MKeyIn(msg) == msg.about

\* What handleMessage returns; "" is None.
KeyIn(msg) == IF msg.header = "key" /\ msg.port \in DOMAIN workers THEN msg.about ELSE None

\* handleMessage: "shell" tells the pid, "serve" has the shell killed, "run"
\* removes the worker; a message about an unknown port is an error.
HandleMessage(msg) ==
  \/ /\ msg.port \notin DOMAIN workers
     /\ UNCHANGED <<workers, child, mishaps>>
  \/ /\ msg.port \in DOMAIN workers
     /\ workers' = IF CleanWorker(msg) THEN Without(workers, msg.port)
                   ELSE IF msg.header = "shell"
                        THEN [workers EXCEPT ![msg.port].shell = msg.about]
                        ELSE workers
     /\ LET shell == workers[msg.port].shell
            kill  == msg.header = "serve" /\ shell # None
        IN  /\ child' = IF kill /\ child[shell].shell = "running"
                        THEN [child EXCEPT ![shell].shell = "over"] ELSE child
            /\ mishaps' = IF /\ msg.header = "serve" /\ ~kill
                             /\ child[msg.about].shell \in {"released", "started", "running"}
                          THEN mishaps \cup {"shell missed"} ELSE mishaps

\* SIGTERM to the children in S: only serve has a handler, and only while it
\* runs; at any other time the process dies of it and reports nothing.
Handles(c) == child[c].stage = "serving" /\ child[c].serve = "running"
Alive(c)   == child[c].stage \in {"starting", "keyed", "serving"}
Terminate(S) ==
  /\ child' = [c \in Child |-> IF c \notin S \/ ~Alive(c) THEN child[c]
                               ELSE IF Handles(c) THEN [child[c] EXCEPT !.term = TRUE]
                               ELSE Gone]
  /\ mishaps' = IF \E c \in S : Alive(c) /\ ~Handles(c)
                THEN mishaps \cup {"silent end"} ELSE mishaps

-----------------------------------------------------------------------------
(* run.                                                                    *)

\* A message; the log line that follows looks into every worker's child.
RunMessage ==
  /\ pc = "run" /\ exChan # <<>>
  /\ HandleMessage(Head(exChan)) /\ exChan' = Tail(exChan)
  /\ pc' = IF HasPlaceholder(workers') THEN "panic" ELSE "read"
  /\ UNCHANGED <<opening, foreign, answers, uxdown, ux, uxSock>>

RunIdle ==
  /\ pc = "run" /\ exChan = <<>>
  /\ pc' = "read"
  /\ UNCHANGED <<workers, opening, foreign, answers, chanVars, uxSock, child, mishaps>>

\* A SIGTERM, or the end of -auto, has come since run looked last; shutdown():
\* the wait is entered if there is any worker at all.
Shutdown ==
  /\ pc = "run"
  /\ Terminate({workers[p].child : p \in DOMAIN workers} \ {None})
  /\ pc' = IF workers = <<>> THEN "done" ELSE "stopping"
  /\ uxdown' = (workers = <<>>)
  /\ UNCHANGED <<workers, opening, foreign, answers, exChan, ux, uxSock>>

\* Mutated: the first message will do.
MOnlyPlaceholders(w) == TRUE

\* holder = len(workers), looked at after each message.
OnlyPlaceholders(w) == \A p \in DOMAIN w : w[p].child = None

StopMessage ==
  /\ pc = "stopping" /\ exChan # <<>>
  /\ HandleMessage(Head(exChan)) /\ exChan' = Tail(exChan)
  /\ pc' = IF OnlyPlaceholders(workers') THEN "done" ELSE "stopping"
  /\ uxdown' = OnlyPlaceholders(workers')
  /\ UNCHANGED <<opening, foreign, answers, ux, uxSock>>

\* The read deadline passes, or a request is refused.
ReadTimeout ==
  /\ pc = "read" /\ pc' = "run"
  /\ UNCHANGED <<workers, opening, foreign, answers, chanVars, uxSock, child, mishaps>>

\* Mutated: the number of workers is not looked at.
MMayOpen == TRUE

MayOpen == Cardinality(DOMAIN workers) < MaxWorkers

\* "open": startChild up to the wait for the key, unless no process can be started.
StartChild(c) ==
  /\ pc = "read" /\ MayOpen
  /\ child[c].stage = "unborn" /\ (c > 1 => child[c - 1].stage # "unborn")
  /\ LET w == Tried[InVain]
         p == GetAvailabePort(w)
     IN  \/ /\ workers' = With(w, p, [child |-> c, shell |-> None])
            /\ child' = [child EXCEPT ![c] = [NotYet EXCEPT !.port = p, !.stage = "starting"]]
            /\ opening' = c /\ pc' = "wait"
         \/ /\ workers' = IF CheckPortAvailable(p) THEN w ELSE With(w, p, Placeholder)
            /\ pc' = "run" /\ UNCHANGED <<child, opening>>
  /\ mishaps' = IF HasPlaceholder(workers') THEN mishaps \cup {"placeholder"} ELSE mishaps
  /\ UNCHANGED <<foreign, answers, chanVars, uxSock>>

\* The first message that comes along is taken for the one with the key.
GotKey ==
  /\ pc = "wait" /\ exChan # <<>>
  /\ HandleMessage(Head(exChan)) /\ exChan' = Tail(exChan)
  /\ answers' = answers \cup {[child |-> opening, key |-> KeyIn(Head(exChan))]}
  /\ opening' = None /\ pc' = "run"
  /\ UNCHANGED <<foreign, uxdown, ux, uxSock>>

\* 145 ms have passed: the worker is forgotten, the process is not.
KeyTimeout ==
  /\ pc = "wait"
  /\ \E p \in DOMAIN workers : /\ workers[p].child = opening
                              /\ workers' = Without(workers, p)
  /\ opening' = None /\ pc' = "run"
  /\ mishaps' = mishaps \cup {"timeout"}
  /\ UNCHANGED <<foreign, answers, chanVars, uxSock, child>>

\* "close": closeChild.
CloseChild(p) ==
  /\ pc = "read" /\ workers[p].child # None
  /\ Terminate({workers[p].child})
  /\ pc' = "run"
  /\ UNCHANGED <<workers, opening, foreign, answers, chanVars, uxSock>>

-----------------------------------------------------------------------------
(* uxServe.                                                                *)

UxCheck ==
  /\ ux = "check"
  /\ ux' = IF uxdown THEN "done" ELSE "read"
  /\ uxdown' = FALSE
  /\ UNCHANGED <<mainVars, exChan, uxSock, child, mishaps>>

UxRead ==
  /\ ux = "read"
  /\ ux' = IF uxSock = <<>> THEN "check" ELSE "forward"
  /\ UNCHANGED <<mainVars, exChan, uxdown, uxSock, child, mishaps>>

\* Mutated: the channel takes one more.
MUxForward ==
  /\ ux = "forward"
  /\ exChan' = Append(exChan, Head(uxSock)) /\ uxSock' = Tail(uxSock)
  /\ ux' = "check"
  /\ UNCHANGED <<mainVars, uxdown, child, mishaps>>

\* uxForward blocks while exChan is full.
UxForward ==
  /\ ux = "forward" /\ exChan = <<>>
  /\ exChan' = <<Head(uxSock)>> /\ uxSock' = Tail(uxSock)
  /\ ux' = "check"
  /\ UNCHANGED <<mainVars, uxdown, child, mishaps>>

-----------------------------------------------------------------------------
(* runChild.                                                               *)

\* Once uxServe has stopped, the socket is gone and the error is ignored.
Report(msgs) == uxSock' = IF ux = "done" THEN uxSock ELSE uxSock \o msgs
ChildStep == UNCHANGED <<mainVars, chanVars>>

\* NewTransportServer binds the port and the key is sent; if the port is
\* taken the process panics, and the deferred report goes out all the same.
SendKey(c) ==
  /\ child[c].stage = "starting"
  /\ \/ /\ CheckPortAvailable(child[c].port)
        /\ child' = [child EXCEPT ![c].stage = "keyed"]
        /\ Report(<<Message("key", c, c)>>)
     \/ /\ ~CheckPortAvailable(child[c].port)
        /\ child' = [child EXCEPT ![c] = Gone]
        /\ Report(<<Message("run", c, c)>>)
  /\ ChildStep /\ UNCHANGED mishaps

\* openPTS, and the two goroutines are started.
OpenPTS(c) ==
  /\ child[c].stage = "keyed"
  /\ \/ /\ child' = [child EXCEPT ![c].stage = "serving", ![c].serve = "running",
                                  ![c].shell = "gated"]
        /\ UNCHANGED uxSock
     \/ /\ child' = [child EXCEPT ![c] = Gone]
        /\ Report(<<Message("run", c, c)>>)
  /\ ChildStep /\ UNCHANGED mishaps

\* The client has connected: serve lets the shell start.
Connect(c) ==
  /\ child[c].serve = "running" /\ child[c].shell = "gated" /\ child[c].stage = "serving"
  /\ \E a \in answers : a.child = c /\ a.key = c
  /\ child' = [child EXCEPT ![c].shell = "released"]
  /\ UNCHANGED uxSock /\ ChildStep /\ UNCHANGED mishaps

\* serve returns, for whatever reason.
ServeEnds(c) ==
  /\ child[c].stage = "serving" /\ child[c].serve = "running"
  /\ child' = [child EXCEPT ![c].serve = "ended", ![c].term = FALSE,
                            ![c].shell = IF @ = "gated" THEN "refused" ELSE @]
  /\ Report(<<Message("serve", c, c)>>)
  /\ ChildStep /\ UNCHANGED mishaps

\* startShellProcess and the report of the pid; no client within 15 seconds,
\* an early shutdown or an error make it 0.
StartShell(c) ==
  /\ child[c].stage = "serving"
  /\ \/ /\ child[c].shell = "released"
        /\ child' = [child EXCEPT ![c].shell = "started"] /\ UNCHANGED uxSock
     \/ /\ child[c].shell \in {"gated", "refused"}
        /\ child' = [child EXCEPT ![c].shell = "over"]
        /\ Report(<<Message("shell", c, None)>>)
     \/ /\ child[c].shell = "started"
        /\ child' = [child EXCEPT ![c].shell = "running"]
        /\ Report(<<Message("shell", c, c)>>)
  /\ ChildStep /\ UNCHANGED mishaps

ShellExits(c) ==
  /\ child[c].stage = "serving" /\ child[c].shell = "running"
  /\ child' = [child EXCEPT ![c].shell = "over"]
  /\ UNCHANGED uxSock /\ ChildStep /\ UNCHANGED mishaps

ChildDone(c) ==
  /\ child[c].stage = "serving" /\ child[c].serve = "ended" /\ child[c].shell = "over"
  /\ child' = [child EXCEPT ![c] = Gone]
  /\ Report(<<Message("run", c, c)>>)
  /\ ChildStep /\ UNCHANGED mishaps

\* A panic in serve, or SIGKILL.
Crash(c) ==
  /\ child[c].stage = "serving"
  /\ child' = [child EXCEPT ![c] = Gone]
  /\ mishaps' = mishaps \cup {"silent end"}
  /\ UNCHANGED uxSock /\ ChildStep

-----------------------------------------------------------------------------
Next ==
  \/ RunMessage \/ RunIdle \/ Shutdown \/ StopMessage \/ ReadTimeout
  \/ GotKey \/ KeyTimeout
  \/ \E p \in DOMAIN workers : CloseChild(p)
  \/ UxCheck \/ UxRead \/ UxForward
  \/ \E c \in Child :
       \/ StartChild(c) \/ SendKey(c) \/ OpenPTS(c) \/ Connect(c) \/ ServeEnds(c)
       \/ StartShell(c) \/ ShellExits(c) \/ ChildDone(c) \/ Crash(c)

Spec == Init /\ [][Next]_vars

-----------------------------------------------------------------------------
Worker == [child : Child \cup {None}, shell : Child \cup {None}]
Messages == [header : {"key", "shell", "serve", "run"}, port : Port, about : Child \cup {None}]

\* The types, and that exChan never holds more than one message.
TypeOK ==
  /\ pc \in {"run", "read", "wait", "stopping", "done", "panic"}
  /\ DOMAIN workers \subseteq Port /\ \A p \in DOMAIN workers : workers[p] \in Worker
  /\ opening \in Child \cup {None} /\ (opening # None <=> pc = "wait")
  /\ uxdown \in BOOLEAN
  /\ exChan \in Seq(Messages) /\ Len(exChan) <= 1 /\ uxSock \in Seq(Messages)
  /\ ux \in {"check", "read", "forward", "done"} /\ (ux = "forward" => uxSock # <<>>)
  /\ \A c \in Child :
       /\ child[c].port \in Nat
       /\ child[c].stage \in {"unborn", "starting", "keyed", "serving", "gone"}
       /\ child[c].serve \in {"no", "running", "ended"} /\ child[c].term \in BOOLEAN
       /\ child[c].shell \in
            {"no", "gated", "released", "refused", "started", "running", "over"}
  /\ foreign \in Foreign
  /\ answers \subseteq [child : Child, key : Child \cup {None}]
  /\ mishaps \subseteq {"placeholder", "timeout", "silent end", "shell missed"}

\* server.go:960: "return the minimal available port".  Ports come and go in
\* any order, and placeholders with them.
PortIsLeast ==
  LET p == GetAvailabePort(workers)
  IN  p \in Port \ DOMAIN workers /\ 1..p - 1 \subseteq DOMAIN workers

\* The ports whose worker is a process, not a placeholder.
InUse(w) == {p \in DOMAIN w : w[p].child # None}

\* server.go:720: a request is refused once there are maxPortLimit workers.
\* Never are more than that many of them processes; the placeholders of the
\* last request that is not refused come on top, at most Attempts - 1 beyond
\* the limit: with the limit of 100 and five attempts, 104 workers.
WorkersAreLimited ==
  /\ Cardinality(InUse(workers)) <= MaxWorkers
  /\ Cardinality(DOMAIN workers) <= MaxWorkers - 1 + Attempts

\* server.go:481: "mainSrv response with the session key and target udp port
\* for the new client".  It does until one request has been answered with no
\* key or too late: startChild takes any message for the one with the key, and
\* the key it did not wait for goes to the next client.
KeyIsOwn ==
  "timeout" \notin mishaps /\ (\A a \in answers : a.key # None) =>
    \A a \in answers : a.key = a.child

\* A process that runs is the worker at its port, so that "close" and the
\* shutdown reach it and nobody else is given the port; the pid kept for it is
\* that of its own shell.  True until startChild gives up waiting for a key.
NoSessionIsForgotten ==
  "timeout" \notin mishaps =>
    /\ \A c \in Child : Alive(c) => /\ child[c].port \in DOMAIN workers
                                    /\ workers[child[c].port].child = c
    /\ \A p \in DOMAIN workers : workers[p].shell \in {None, workers[p].child}

\* wait() has returned: run, uxServe and every child.Wait.
Exited ==
  pc = "done" /\ ux = "done" /\ \A c \in Child : ~Alive(c)

\* Every process and goroutine goes on; a serve that has been told to stop, or
\* whose shell is gone, does so (the exits of its main loop: SSP).
Fairness ==
  /\ WF_vars(StopMessage) /\ WF_vars(UxCheck) /\ WF_vars(UxRead) /\ WF_vars(UxForward)
  /\ \A c \in Child :
       /\ WF_vars(SendKey(c)) /\ WF_vars(OpenPTS(c)) /\ WF_vars(StartShell(c))
       /\ WF_vars((child[c].term \/ child[c].shell = "over") /\ ServeEnds(c))
       /\ WF_vars(ChildDone(c))
FairSpec == Spec /\ Fairness

\* server.go:541: run() "will send sutdown message to all workers and wait for
\* the workers to finish".  The whole server then exits, unless one of four
\* things has happened before or happens while it waits: a port in use has
\* left a placeholder, a session was forgotten when its key came late, a
\* process ended without a report, or the pid of a shell came after serve had
\* asked for that shell to be killed.
ShutdownCompletes ==
  pc \in {"stopping", "done"} ~> Exited \/ mishaps # {}

\* server.go:756: "add a placeholder for this port".  A placeholder has no
\* child, and closeChild and shutdown look before they use it.
NeverPanics == pc # "panic"
=============================================================================
