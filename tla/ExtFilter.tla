------------------------------ MODULE ExtFilter ------------------------------
(***************************************************************************)
(* The external filter of filters/external.c: a child process gets the     *)
(* data of the input stream through one pipe and answers through another.  *)
(* One read() call of the stream is a loop over non-blocking system calls, *)
(* between any two of which the child may run.  The unit of data is one    *)
(* load of pipebuf[] (2048 bytes): it is not larger than PIPE_BUF, so that *)
(* a write() of it happens completely or not at all.                       *)
(***************************************************************************)
EXTENDS Integers, Sequences

CONSTANTS
    InLen,          \* loads of pipebuf which the input stream delivers
    PipeCap,        \* loads which fit into a pipe
    Wants,          \* loads requested by one read() call
    Hoards          \* loads which the child program takes in before it answers

ASSUME ExtFilterAssumption ==
    /\ InLen \in Nat /\ PipeCap \in Nat \ {0} /\ Wants \subseteq Nat \ {0}
    /\ Hoards \subseteq Nat

VARIABLES
    xpc,        \* where the library is
    xr,         \* ExternalFilterRuntime and the local variables of read()
    xin,        \* the input stream: [open, left, bad]
    down, up,   \* number of loads in the pipe to the child, from the child
    kid         \* the child process

xvars == <<xpc, xr, xin, down, up, kid>>

NoRuntime == [send |-> FALSE, recv |-> FALSE, nb |-> FALSE, in_eof |-> FALSE,
              out_eof |-> FALSE, pbuf |-> 0, blocking |-> FALSE, want |-> 0,
              fill |-> 0, got |-> 0, ret |-> 0]
NoKid == [st |-> "none", took |-> 0, gave |-> 0, hoard |-> 0]

XInit ==
    /\ xpc = "closed" /\ xr = NoRuntime
    /\ xin = [open |-> FALSE, left |-> InLen, bad |-> FALSE]
    /\ down = 0 /\ up = 0 /\ kid = NoKid

(* mutant: the pipes stay in blocking mode *)
extf_stream_open_blocking(h) ==
    /\ xpc = "closed"
    /\ xr' = [NoRuntime EXCEPT !.send = TRUE, !.recv = TRUE]
    /\ kid' = [NoKid EXCEPT !.st = "run", !.hoard = h]
    /\ xin' = [xin EXCEPT !.open = TRUE, !.left = InLen]
    /\ down' = 0 /\ up' = 0 /\ xpc' = "idle"

(* extf_stream_open_flag: pipes, fork, input stream, O_NONBLOCK            *)
extf_stream_open_flag(h) ==
    /\ xpc = "closed"
    /\ xr' = [NoRuntime EXCEPT !.send = TRUE, !.recv = TRUE, !.nb = TRUE]
    /\ kid' = [NoKid EXCEPT !.st = "run", !.hoard = h]
    /\ xin' = [xin EXCEPT !.open = TRUE, !.left = InLen]
    /\ down' = 0 /\ up' = 0 /\ xpc' = "idle"

(* iso_stream_open() of the input fails: extf_stream_close_flag(stream, 1) *)
OpenFails ==
    /\ xpc = "closed" /\ ~xin.bad
    /\ xin' = [xin EXCEPT !.bad = TRUE]
    /\ xr' = NoRuntime /\ kid' = [NoKid EXCEPT !.st = "reaped"]
    /\ UNCHANGED <<xpc, down, up>>

(* extf_stream_read is called; the caller stops at the first error or eof  *)
ReadBegin(n) ==
    /\ xpc = "idle" /\ xr.ret >= 0
    /\ IF xr.out_eof
       THEN xr' = [xr EXCEPT !.ret = 0, !.fill = 0] /\ UNCHANGED xpc
       ELSE /\ xr' = [xr EXCEPT !.want = n, !.fill = 0, !.blocking = FALSE]
            /\ xpc' = "top"
    /\ UNCHANGED <<xin, down, up, kid>>

(* head of the loop: after the end of the input only the child's output is *)
(* of interest, so that reading may block                                  *)
LoopTop ==
    /\ xpc = "top"
    /\ xr' = IF xr.in_eof /\ ~xr.blocking
             THEN [xr EXCEPT !.nb = FALSE, !.blocking = TRUE] ELSE xr
    /\ xpc' = "recv"
    /\ UNCHANGED <<xin, down, up, kid>>

Returned(n) == [xr EXCEPT !.ret = n, !.got = @ + n]
Filled(n) == IF n >= xr.want
             THEN xr' = Returned(n) /\ xpc' = "idle"
             ELSE xr' = [xr EXCEPT !.fill = n] /\ xpc' = "recv"

(* read(recv_fd): data, end of file (nobody can write any more), EAGAIN.   *)
(* A blocking read of an empty pipe waits.                                 *)
Recv ==
    /\ xpc = "recv"
    /\ \/ /\ up > 0
          /\ \E n \in {IF up < xr.want - xr.fill THEN up ELSE xr.want - xr.fill} :
               up' = up - n /\ Filled(xr.fill + n)
       \/ /\ up = 0 /\ kid.st # "run"
          /\ xr' = [Returned(xr.fill) EXCEPT !.out_eof = TRUE]
          /\ xpc' = "idle" /\ UNCHANGED up
       \/ /\ up = 0 /\ kid.st = "run" /\ xr.nb
          /\ xpc' = "feed" /\ UNCHANGED <<xr, up>>
    /\ UNCHANGED <<xin, down, kid>>

(* the input side: get a load if none waits in pipebuf.  (After the end of *)
(* input there is no EAGAIN any more, except if fcntl() had failed.)       *)
Feed ==
    /\ xpc = "feed" /\ ~xr.in_eof
    /\ \/ /\ xr.pbuf > 0
          /\ xpc' = "write" /\ UNCHANGED <<xr, xin>>
       \/ /\ xr.pbuf = 0 /\ xin.left > 0
          /\ xr' = [xr EXCEPT !.pbuf = 1] /\ xpc' = "write"
          /\ xin' = [xin EXCEPT !.left = @ - 1]
       \/ /\ xr.pbuf = 0 /\ xin.left = 0
          /\ xr' = [xr EXCEPT !.in_eof = TRUE, !.send = FALSE]
          /\ xpc' = "top" /\ UNCHANGED xin
    /\ UNCHANGED <<down, up, kid>>

(* iso_stream_read() of the input fails: send_fd stays open                *)
FeedFails ==
    /\ xpc = "feed" /\ ~xr.in_eof /\ xr.pbuf = 0
    /\ xr' = [xr EXCEPT !.in_eof = TRUE, !.ret = -1]
    /\ xpc' = "idle"
    /\ UNCHANGED <<xin, down, up, kid>>

(* mutant: a load which does not fit into the pipe is forgotten *)
WriteOnce ==
    /\ xpc = "write"
    /\ \/ /\ kid.st = "run"
          /\ down' = IF down < PipeCap THEN down + 1 ELSE down
          /\ xr' = [xr EXCEPT !.pbuf = 0] /\ xpc' = "top"
       \/ /\ kid.st # "run"
          /\ xr' = [xr EXCEPT !.in_eof = TRUE, !.ret = -1]
          /\ xpc' = "idle" /\ UNCHANGED down
    /\ UNCHANGED <<xin, up, kid>>

(* write(send_fd): EAGAIN if the pipe is full (a blocking descriptor would *)
(* wait), EPIPE if the child is gone                                       *)
Write ==
    /\ xpc = "write"
    /\ \/ /\ kid.st = "run" /\ down < PipeCap
          /\ down' = down + 1 /\ xr' = [xr EXCEPT !.pbuf = 0] /\ xpc' = "top"
       \/ /\ kid.st = "run" /\ down >= PipeCap /\ xr.nb
          /\ xpc' = "top" /\ UNCHANGED <<down, xr>>
       \/ /\ kid.st # "run"
          /\ xr' = [xr EXCEPT !.in_eof = TRUE, !.ret = -1]
          /\ xpc' = "idle" /\ UNCHANGED down
    /\ UNCHANGED <<xin, up, kid>>

(* extf_stream_close_flag: both pipes are closed, the child is reaped and  *)
(* killed if it still runs                                                 *)
extf_stream_close ==
    /\ xpc = "idle"
    /\ xr' = NoRuntime /\ xin' = [xin EXCEPT !.open = FALSE]
    /\ kid' = [kid EXCEPT !.st = "reaped"]
    /\ xpc' = "closed"
    /\ UNCHANGED <<down, up>>

(* The filter program (external): it takes its standard input, answers     *)
(* each load by one load once it has hoarded enough or seen the end, and   *)
(* exits when all is answered.                                             *)
KidTakes ==
    /\ kid.st = "run" /\ down > 0
    /\ down' = down - 1 /\ kid' = [kid EXCEPT !.took = @ + 1]
    /\ UNCHANGED <<xpc, xr, xin, up>>
KidGives ==
    /\ kid.st = "run" /\ kid.gave < kid.took /\ up < PipeCap
    /\ kid.took - kid.gave > kid.hoard \/ (down = 0 /\ ~xr.send)
    /\ up' = up + 1 /\ kid' = [kid EXCEPT !.gave = @ + 1]
    /\ UNCHANGED <<xpc, xr, xin, down>>
KidExits ==
    /\ kid.st = "run" /\ down = 0 /\ ~xr.send /\ kid.gave = kid.took
    /\ kid' = [kid EXCEPT !.st = "zombie"]
    /\ UNCHANGED <<xpc, xr, xin, down, up>>
KidDies ==          \* crash, or no such program
    /\ kid.st = "run"
    /\ kid' = [kid EXCEPT !.st = "dead"]
    /\ UNCHANGED <<xpc, xr, xin, down, up>>

LibStep == LoopTop \/ Recv \/ Feed \/ Write
KidStep == KidTakes \/ KidGives \/ KidExits
XNext ==
    \/ \E h \in Hoards : extf_stream_open_flag(h)
    \/ OpenFails
    \/ \E n \in Wants : ReadBegin(n)
    \/ LoopTop \/ Recv \/ Feed \/ FeedFails \/ Write
    \/ extf_stream_close
    \/ KidTakes \/ KidGives \/ KidExits \/ KidDies

(* The library thread runs, and a filter program which can go on does so.  *)
XFairness == WF_xvars(LibStep) /\ WF_xvars(KidStep)

-----------------------------------------------------------------------------
(* A session which ends by end-of-file after the program exited by itself  *)
(* has delivered the answer to every load of the input.                    *)
FilterOutputComplete ==
    xpc = "idle" /\ xr.out_eof /\ xr.ret >= 0 /\ kid.st = "zombie" => xr.got = InLen

(* Every read() call of the stream returns: the library never waits for a  *)
(* child which itself waits for the library.                               *)
FilterReadReturns == xpc = "top" ~> xpc = "idle"
=============================================================================
