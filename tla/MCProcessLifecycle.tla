------------------------- MODULE MCProcessLifecycle -------------------------
(***************************************************************************)
(* Instances of ProcessLifecycle.  Process 1 is the bootstrap process.     *)
(***************************************************************************)
EXTENDS ProcessLifecycle

WaitFor(exit, stop, cont, nowait, nohang) ==
  [select |-> NoProcess, byGroup |-> FALSE, exit |-> exit, stop |-> stop,
   cont |-> cont, nowait |-> nowait, nohang |-> nohang]

\* wait(); a non-blocking look with WNOWAIT; a wait for stops only.
ExitWaits == {WaitFor(TRUE, FALSE, FALSE, FALSE, FALSE),
              WaitFor(TRUE, FALSE, FALSE, TRUE, TRUE),
              WaitFor(FALSE, TRUE, FALSE, FALSE, FALSE)}

Quiet ==
  [op |-> {"spawn", "exit"}, process |-> {1, 2, 3}, thread |-> {}, terminal |-> {},
   wait |-> {}, child |-> {}, sent |-> {}, target |-> {2}, taken |-> {},
   uid |-> {"root"}, moveStopped |-> FALSE, faults |-> TRUE,
   limit |-> 9, forks |-> 3, tokens |-> 0, images |-> 0]

\* Preparations and commits under a limit of two processes.
Fork_ == [Quiet EXCEPT !.op = @ \cup {"fork", "other", "exec"}, !.uid = {"user"},
                       !.limit = 2, !.images = 1]
\* Two threads of one process wait, some with SA_NOCLDWAIT; one that also execs.
Wait_ == [Quiet EXCEPT !.op = @ \cup {"wait", "disposition"},
                       !.thread = {21, 22}, !.wait = ExitWaits, !.uid = {"user"},
                       !.child = {<<"caught", {"NOCLDWAIT"}>>}, !.forks = 2]
Renewed_ == [Wait_ EXCEPT !.op = @ \cup {"exec"}, !.thread = {21}, !.images = 1]
\* Nested launched trees of up to three processes.
Teardown_ == [Quiet EXCEPT !.op = @ \cup {"teardown"}, !.process = {1, 2, 3, 4}]
\* A broker launches for others and rolls launches back.
Launch_ == [Quiet EXCEPT !.op = @ \cup {"launch", "abort", "teardown", "timer"},
                         !.uid = {"root", "user"}]
Trees == [fork |-> Fork_, wait |-> Wait_, renewed |-> Renewed_, teardown |-> Teardown_, launch |-> Launch_]
Reclaims == [teardown |-> [Teardown_ EXCEPT !.process = {1, 2, 3}]]

\* Stop and continue, or kill, and a waiter for stops and continuations.
Stops_ == [Quiet EXCEPT !.op = @ \cup {"wait", "kill", "dequeue", "stop", "signaled",
                                       "disposition", "exec"},
                        !.process = {1, 2}, !.thread = {11},
                        !.wait = {WaitFor(TRUE, TRUE, TRUE, FALSE, FALSE)},
                        !.child = {<<"caught", {"NOCLDSTOP"}>>},
                        !.sent = {"STOP", "CONT"}, !.taken = {"STOP"},
                        !.uid = {"user"}, !.forks = 2, !.tokens = 2, !.images = 1]
Kills_ == [Stops_ EXCEPT !.sent = @ \cup {"KILL"}, !.taken = @ \cup {"KILL"}, !.images = 0]
\* Two generations of processes, groups and sessions, one terminal.
Jobs_ == [Quiet EXCEPT !.op = @ \cup {"setpgid", "setsid", "terminal", "access",
                                      "dequeue", "stop"},
                       !.terminal = {"t"}, !.taken = {"TTIN"}, !.faults = FALSE,
                       !.forks = 2, !.tokens = 1]
\* Two sessions and two terminals, and the PTY provider.
Terminals_ == [Quiet EXCEPT !.op = @ \cup {"setpgid", "setsid", "terminal", "foreground",
                                           "access", "tty", "dequeue", "stop"},
                            !.process = {1, 2}, !.terminal = {"t", "u"},
                            !.taken = {"TSTP", "TTOU"}, !.uid = {"user"},
                            !.moveStopped = TRUE, !.forks = 2, !.tokens = 1]
JobControl == [stops |-> Stops_, kills |-> Kills_, jobs |-> Jobs_, terminals |-> Terminals_]

\* A loop whose native calls succeed.
Fair_ == [Quiet EXCEPT !.op = @ \cup {"wait", "kill", "exec"}, !.thread = {21},
                       !.wait = ExitWaits, !.sent = {"CONT"}, !.uid = {"user"},
                       !.faults = FALSE, !.forks = 2, !.images = 1]
Steady == [steady |-> Fair_]
=============================================================================
