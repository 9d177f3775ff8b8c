---------------------------------- MODULE CgiPipe ----------------------------------
(***************************************************************************)
(* The two pipes between the server and each CGI process it starts.        *)
(* CgiExecuter::run writes the body into the child's stdin on the only     *)
(* thread of the server, before anybody reads the child's stdout; SIGCHLD  *)
(* can interrupt that write. What the event loop does with the output is   *)
(* up to the module that composes this one with a connection.              *)
(*                                                                         *)
(* A run has the number of the request it was started for. Programs:       *)
(*   "echo"    writes what it reads as it reads it, like cat;              *)
(*   "gather"  reads to the end of its input and only then writes it back; *)
(*   "blind"   does not read its input, writes up to Chatter tokens and    *)
(*             ends when it likes, but not in the middle of a write.       *)
(* Every program begins its output with a token of its own.                *)
(***************************************************************************)
EXTENDS Naturals, Sequences

CONSTANTS
    Runs,       \* numbers of requests, each starts at most one process
    Bytes,      \* what bodies consist of
    Banner,     \* what a program writes of its own
    Capacity,   \* the tokens a pipe holds
    Chatter     \* the most tokens a blind program writes

Programs == {"echo", "gather", "blind"}

ASSUME PipeAssumption ==
    /\ Runs \subseteq Nat \ {0} /\ Banner \notin Bytes
    /\ Capacity \in Nat \ {0} /\ Chatter \in Nat \ {0}

Child == [st: {"none", "run", "exit"}, prog: Programs, read: Seq(Bytes), wrote: Nat]
Pipe  == [data: Seq(Bytes \cup {Banner}), open: BOOLEAN]

VARIABLES
    child,    \* child[n]: the process of run n
    stdin,    \* stdin[n]: its input; open while the server holds the end to write
    stdout,   \* stdout[n]: its output; open while the server holds the end to read
    writing   \* the write that run() has under way: for which run, 0 for none, what is left

pipeVars == <<child, stdin, stdout, writing>>

NoWrite == [run |-> 0, left |-> <<>>]

PipeTypeOK ==
    /\ child \in [Runs -> Child]
    /\ stdin \in [Runs -> Pipe] /\ stdout \in [Runs -> Pipe]
    /\ writing \in [run: Runs \cup {0}, left: Seq(Bytes)]

PipeInit ==
    /\ child = [n \in Runs |-> [st |-> "none", prog |-> "blind", read |-> <<>>, wrote |-> 0]]
    /\ stdin = [n \in Runs |-> [data |-> <<>>, open |-> FALSE]]
    /\ stdout = [n \in Runs |-> [data |-> <<>>, open |-> FALSE]]
    /\ writing = NoWrite

Full(pipe)    == Len(pipe.data) >= Capacity
Put(pipe, x)  == [pipe EXCEPT !.data = Append(@, x)]
Drop(pipe, k) == [pipe EXCEPT !.data = SubSeq(@, k + 1, Len(@))]

-----------------------------------------------------------------------------
(* The server. *)

\* A mutated form: stdin is closed before the body is written.
closedRun(n, prog, body) ==
    /\ child' = [child EXCEPT ![n].st = "run", ![n].prog = prog]
    /\ stdout' = [stdout EXCEPT ![n].open = TRUE]
    /\ writing' = [run |-> n, left |-> body]
    /\ UNCHANGED stdin

\* run() up to its write: two pipes, a fork, and the ends the parent does not need
\* closed. stdin and stdout start empty.
run(n, prog, body) ==
    /\ child' = [child EXCEPT ![n].st = "run", ![n].prog = prog]
    /\ stdin' = [stdin EXCEPT ![n].open = TRUE]
    /\ stdout' = [stdout EXCEPT ![n].open = TRUE]
    /\ writing' = [run |-> n, left |-> body]

\* The server sleeps in write: there is no room, and somebody might make some.
Asleep == writing.left # <<>> /\ Full(stdin[writing.run])

\* Nobody can read what is left to write: SIGPIPE. Nothing left is no write at all.
Broken == writing.left # <<>> /\ child[writing.run].st = "exit"

writeBody ==
    /\ writing.left # <<>> /\ ~Asleep /\ ~Broken
    /\ stdin' = [stdin EXCEPT ![writing.run] = Put(@, Head(writing.left))]
    /\ writing' = [writing EXCEPT !.left = Tail(@)]
    /\ UNCHANGED <<child, stdout>>

\* A mutated form: the parent keeps its end of stdin.
keepStdin(n) == stdin

closeStdin(n) == [stdin EXCEPT ![n].open = FALSE]

\* write has returned, with however much it wrote, and run() returns.
returnFromRun ==
    /\ writing.run # 0 /\ writing.left = <<>>
    /\ stdin' = closeStdin(writing.run)
    /\ writing' = NoWrite
    /\ UNCHANGED <<child, stdout>>

-----------------------------------------------------------------------------
(* The processes. *)

AtEof(n) == stdin[n].data = <<>> /\ ~stdin[n].open

\* What the process has ready to be written.
Pending(n) ==
    CASE child[n].prog = "echo"   -> child[n].wrote <= Len(child[n].read)
      [] child[n].prog = "gather" -> child[n].wrote <= Len(child[n].read) /\ AtEof(n)
      [] child[n].prog = "blind"  -> child[n].wrote < Chatter

NextOutput(n) ==
    IF child[n].prog = "blind" \/ child[n].wrote = 0 THEN Banner
    ELSE child[n].read[child[n].wrote]

childRead(n) ==
    /\ child[n].st = "run" /\ child[n].prog # "blind" /\ ~Pending(n)
    /\ stdin[n].data # <<>>
    /\ child' = [child EXCEPT ![n].read = Append(@, Head(stdin[n].data))]
    /\ stdin' = [stdin EXCEPT ![n] = Drop(@, 1)]
    /\ UNCHANGED <<stdout, writing>>

childWrite(n) ==
    /\ child[n].st = "run" /\ Pending(n) /\ ~Full(stdout[n])
    /\ stdout' = [stdout EXCEPT ![n] = Put(@, NextOutput(n))]
    /\ child' = [child EXCEPT ![n].wrote = @ + 1]
    /\ UNCHANGED <<stdin, writing>>

MayEnd(n) ==
    \/ child[n].prog = "blind" /\ child[n].wrote > 0 /\ ~(Pending(n) /\ Full(stdout[n]))
    \/ child[n].prog # "blind" /\ ~Pending(n) /\ AtEof(n)

\* SIGCHLD ends the write for another child in which the server sleeps, and SA_RESTART
\* does not resume it once some bytes are written. The result of write is not looked at.
interrupted(n) ==
    IF Asleep /\ writing.run # n THEN [writing EXCEPT !.left = <<>>] ELSE writing

childExit(n) ==
    /\ child[n].st = "run" /\ MayEnd(n)
    /\ child' = [child EXCEPT ![n].st = "exit"]
    /\ writing' = interrupted(n)
    /\ UNCHANGED <<stdin, stdout>>

Process(n) == childRead(n) \/ childWrite(n) \/ childExit(n)

\* The server sleeps in its write and the child in its own: neither ever returns.
MutualWait ==
    Asleep /\ LET n == writing.run IN child[n].st = "run" /\ Pending(n) /\ Full(stdout[n])
=============================================================================
