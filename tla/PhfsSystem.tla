----------------------------- MODULE PhfsSystem -----------------------------
(***************************************************************************)
(* phoenixd's message dispatcher (dispatch() in phoenixd/dispatch.c)       *)
(* serving one client over one line.                                       *)
(*                                                                         *)
(* The dispatcher is the code's loop: receive a message, hand it to        *)
(* phfs_handlemsg, answer MSG_ERR itself, leave the loop on a receive      *)
(* error.  The client is the loader or kernel at the other end of the      *)
(* line, which is not part of this repository: it is modelled from what    *)
(* the server offers it, one request at a time, numbered, and sent again   *)
(* when no answer comes.  The line keeps the order of messages and, except *)
(* for TCP, may lose them.                                                 *)
(***************************************************************************)
EXTENDS Phfs

CONSTANTS Cap,          \* messages the line holds in each direction
          MaxFaults,    \* losses and host errors in one behaviour
          Retries,      \* initial value of dispatch()'s retries: 128
          InitDisk,     \* the files below sysdir at the start
          Modes,        \* the transports dispatch() may be called for
          Calls         \* what the client asks for over each of them:
                        \* requests, less the sequence number and the handle

VARIABLES
    pc,         \* dispatch(): "start", "loop" or "ended"
    fd, fd_out, \* dispatch()'s locals of these names
    retries,
    toServer,   \* requests on their way to the server, oldest first
    seq,        \* number of the client's last request
    req,        \* that request
    waiting,    \* the client has not had its answer yet
    held,       \* the path behind each handle the client may use
    known       \* cells <<index, value>> of each file that the client has
                \* written and had acknowledged

server == <<mode, pc, fd, fd_out, retries>>
client == <<seq, req, waiting, held, known>>
vars   == <<fds, disk, toClient, faults, server, toServer, client>>

ASSUME BoundAssumption ==
    Cap \in Nat /\ MaxFaults \in Nat /\ Retries \in Nat \ {0}
ASSUME DiskAssumption  ==
    DOMAIN InitDisk \subseteq Paths /\ InitDisk \in [DOMAIN InitDisk -> Seq(Vals)]
ASSUME ModeAssumption  == Modes \subseteq {"SERIAL", "PIPE", "UDP", "TCP"}
ASSUME CallsAssumption ==
    \A md \in Modes : \A c \in Calls[md] :
        /\ c \in Request
        /\ c.type # "HELLO"
        /\ c.type = "OPEN" => c.path \in Paths

NoCall == [type |-> "RESET", seq |-> 0, path |-> NoPath, rw |-> FALSE,
           creat |-> FALSE, handle |-> 0, pos |-> 0, cnt |-> 0, data |-> <<>>]

Init ==
    /\ fds = [f \in Fds |-> Free]
    /\ disk = InitDisk
    /\ toClient = <<>> /\ toServer = <<>>
    /\ faults = 0
    /\ mode \in Modes
    /\ pc = "start" /\ fd = -1 /\ fd_out = -1 /\ retries = Retries
    /\ seq = 0 /\ req = NoCall /\ waiting = FALSE
    /\ held = [h \in Fds |-> NoPath]
    /\ known = [p \in Paths |-> {}]

-----------------------------------------------------------------------------
(* The dispatcher.                                                         *)

\* connect_pipes: the input first; when the output cannot be opened the input
\* stays open.
connect_pipes ==
    \/ /\ \/ FreeFds = {} /\ faults' = faults
          \/ faults' = faults + 1
       /\ fd' = -1 /\ UNCHANGED <<fds, fd_out>>
    \/ \E i \in Fds :
          /\ Lowest(i, FreeFds) /\ fd' = i
          /\ \/ /\ \/ FreeFds = {i} /\ faults' = faults
                   \/ faults' = faults + 1
                /\ fds' = [fds EXCEPT ![i] = Link]
                /\ fd_out' = -1
             \/ \E o \in Fds :
                   /\ Lowest(o, FreeFds \ {i}) /\ fd_out' = o
                   /\ fds' = [fds EXCEPT ![i] = Link, ![o] = Link]
                   /\ UNCHANGED faults

\* serial_open, tcp_open, udp_open: one descriptor, used in both directions.
open_line ==
    \/ /\ \E f \in Fds : /\ Lowest(f, FreeFds) /\ fd' = f
                         /\ fds' = [fds EXCEPT ![f] = Link]
       /\ UNCHANGED <<fd_out, faults>>
    \/ /\ faults' = faults + 1 /\ fd' = -1
       /\ UNCHANGED <<fds, fd_out>>

\* The part of dispatch() before its loop.
dispatch_start ==
    /\ pc = "start"
    /\ IF mode = "PIPE" THEN connect_pipes ELSE open_line
    /\ faults' <= MaxFaults
    /\ pc' = IF fd' = -1 \/ (mode = "PIPE" /\ fd_out' = -1) THEN "ended" ELSE "loop"
    /\ UNCHANGED <<mode, disk, toClient, toServer, retries, client>>

reply_fd == IF mode = "PIPE" THEN fd_out ELSE fd

\* One turn of the loop in which msg_recv returns a message.  The reply to
\* MSG_ERR is sent with the largest length; other types that phfs_handlemsg
\* does not know get no reply.
dispatch_message ==
    /\ pc = "loop" /\ fds[fd] = Link
    /\ toServer # <<>> /\ toServer' = Tail(toServer)
    /\ Len(toClient) < Cap
    /\ LET m == Head(toServer)
       IN  \/ phfs_handlemsg(m, reply_fd)
           \/ /\ m.type = "ERR"
              /\ msg_send(Answer(m, "ERR", MsgMaxLen, 0, 0, 0, <<>>))
              /\ UNCHANGED <<fds, disk, faults>>
           \/ /\ m.type = "HELLO"
              /\ UNCHANGED <<fds, disk, faults, toClient>>
    /\ faults' <= MaxFaults
    /\ UNCHANGED <<server, client>>

\* The turn in which msg_recv fails: the descriptor was closed, or the line
\* failed.  A pipe is opened again, and the loop is left in every case.
dispatch_recv_error ==
    /\ pc = "loop" /\ pc' = "ended"
    /\ retries' = IF mode = "PIPE" THEN retries - 1 ELSE retries
    /\ LET cost == IF fds[fd] = Link THEN 1 ELSE 0 IN
       /\ faults + cost <= MaxFaults
       /\ IF mode = "PIPE" /\ retries' # 0
          THEN connect_pipes
          ELSE faults' = faults + cost /\ UNCHANGED <<fds, fd, fd_out>>
    /\ faults' <= MaxFaults
    /\ UNCHANGED <<mode, disk, toClient, toServer, client>>

-----------------------------------------------------------------------------
(* The client and the line.                                                *)

\* udp_open's child broadcasts HELLO for ever; the server's own socket is one
\* of those that hear it.
udp_hello ==
    /\ mode = "UDP" /\ pc = "loop" /\ Len(toServer) < Cap
    /\ toServer' = Append(toServer, [NoCall EXCEPT !.type = "HELLO"])
    /\ UNCHANGED <<fds, disk, toClient, faults, server, client>>

UsesHandle(c) == c.type \in {"READ", "WRITE", "CLOSE", "FSTAT"}

\* Cells of a file that a write request covers.
Covers(m, i) == i > m.pos /\ i <= m.pos + Len(Payload(m))

client_call(c, h) ==
    /\ ~waiting /\ Len(toServer) < Cap
    /\ IF UsesHandle(c) THEN held[h] # NoPath ELSE h = 3
    /\ LET m == [c EXCEPT !.seq = (seq + 1) % SeqMod,
                          !.handle = IF UsesHandle(c) THEN h ELSE 0]
       IN  /\ seq' = m.seq /\ req' = m /\ toServer' = Append(toServer, m)
           /\ held' = CASE c.type = "CLOSE" -> [held EXCEPT ![h] = NoPath]
                        [] c.type = "RESET" -> [f \in Fds |-> NoPath]
                        [] OTHER -> held
           /\ known' = IF c.type = "WRITE"
                       THEN [known EXCEPT ![held[h]] =
                                {k \in @ : ~Covers(m, k[1])}]
                       ELSE known
    /\ waiting' = TRUE
    /\ UNCHANGED <<fds, disk, toClient, faults, server>>

client_timeout ==
    /\ waiting /\ Len(toServer) < Cap
    /\ toServer' = Append(toServer, req)
    /\ UNCHANGED <<fds, disk, toClient, faults, server, client>>

Accepted(r) == waiting /\ r.seq = seq

client_accept ==
    /\ toClient # <<>> /\ toClient' = Tail(toClient)
    /\ LET r == Head(toClient)
       IN  /\ Accepted(r)
           /\ held' = IF r.type = "OPEN" /\ r.handle # 0
                      THEN [held EXCEPT ![r.handle] = req.path] ELSE held
           /\ known' = IF r.type = "WRITE" /\ r.ret > 0
                       THEN [known EXCEPT ![held[req.handle]] =
                               @ \cup {<<req.pos + j, req.data[j]>> : j \in 1 .. r.ret}]
                       ELSE known
    /\ waiting' = FALSE
    /\ UNCHANGED <<fds, disk, faults, server, toServer, seq, req>>

\* An answer to an earlier sending of a request that is already answered.
client_discard ==
    /\ toClient # <<>> /\ toClient' = Tail(toClient)
    /\ ~Accepted(Head(toClient))
    /\ UNCHANGED <<fds, disk, faults, server, toServer, client>>

Lossy == mode \in {"SERIAL", "UDP"}

lose_request ==
    /\ Lossy /\ toServer # <<>> /\ faults < MaxFaults
    /\ toServer' = Tail(toServer) /\ faults' = faults + 1
    /\ UNCHANGED <<fds, disk, toClient, server, client>>

lose_reply ==
    /\ Lossy /\ toClient # <<>> /\ faults < MaxFaults
    /\ toClient' = Tail(toClient) /\ faults' = faults + 1
    /\ UNCHANGED <<fds, disk, server, toServer, client>>

-----------------------------------------------------------------------------
Next ==
    \/ dispatch_start \/ dispatch_message \/ dispatch_recv_error
    \/ udp_hello
    \/ \E c \in Calls[mode], h \in Fds : client_call(c, h)
    \/ client_timeout \/ client_accept \/ client_discard
    \/ lose_request \/ lose_reply

Spec == Init /\ [][Next]_vars

\* The dispatcher's loop never stops by itself, reading a closed descriptor fails
\* at once, the client repeats a request until it is answered and reads what
\* arrives.  The client need not call.
Fairness == /\ WF_vars(dispatch_start) /\ WF_vars(dispatch_message)
            /\ WF_vars(dispatch_recv_error /\ fds[fd] # Link)
            /\ SF_vars(client_timeout)
            /\ WF_vars(client_accept) /\ WF_vars(client_discard)

FairSpec == Spec /\ Fairness

-----------------------------------------------------------------------------
(* Properties.                                                             *)

\* The type of every variable.
TypeOK ==
    /\ fds \in [Fds -> [use : {"free", "link", "file"}, path : Paths \cup {NoPath},
                        rw : BOOLEAN]]
    /\ DOMAIN disk \subseteq Paths /\ disk \in [DOMAIN disk -> Seq(Vals)]
    /\ toClient \in Seq(Reply) /\ toServer \in Seq(Request)
    /\ faults \in Nat
    /\ mode \in Modes
    /\ pc \in {"start", "loop", "ended"}
    /\ fd \in Fds \cup {-1} /\ fd_out \in Fds \cup {-1}
    /\ retries \in Nat
    /\ seq \in Seqs /\ req \in Request /\ waiting \in BOOLEAN
    /\ held \in [Fds -> Paths \cup {NoPath}]
    /\ known \in [Paths -> SUBSET (Nat \X Vals)]

\* A handle the client was given and has not given back is an open descriptor
\* of the server for the very file the client named.  phfs_close closes
\* whatever number a request carries, phfs_reset everything, and open() reuses
\* numbers at once: a request sent twice must never hit a later owner.
HeldHandlesOpen ==
    pc = "loop" => \A h \in Fds : held[h] # NoPath =>
                      fds[h].use = "file" /\ fds[h].path = held[h]

\* What the server acknowledged as written is in the file and stays there until
\* the client writes those cells again, although phfs_write may run several
\* times for one request.
AckedWritesOnDisk ==
    \A p \in Paths : \A k \in known[p] :
        p \in DOMAIN disk /\ k[1] <= Len(disk[p]) /\ disk[p][k[1]] = k[2]

\* No handler closes the descriptor the replies go to, nor, except for a pipe
\* (phfs_reset spares only one descriptor), the one requests come from.
LineStaysOpen ==
    pc = "loop" => /\ reply_fd \in Fds /\ fds[reply_fd] = Link
                   /\ mode # "PIPE" => fds[fd] = Link

\* The answer the client accepts is an answer to the request it is waiting
\* for: handlers save the request's number before they reuse its buffer.
AnswerFitsRequest ==
    [][client_accept => Head(toClient).type = req.type]_vars

\* The data of an accepted read are the file's contents now: no answer to an
\* earlier sending, from before a write, is taken for it.
ReadsAreCurrent ==
    [][client_accept /\ req.type = "READ" /\ Head(toClient).ret >= 0 =>
          Head(toClient).data = Slice(disk[held[req.handle]], req.pos, Clamp(req.cnt))]_vars

\* Once the client knows of a reset, no file is left open, not even one that a
\* repeated open had opened a second time.
ResetReclaims ==
    [][client_accept /\ req.type = "RESET" =>
          \A f \in Fds : fds[f].use # "file"]_vars

\* The requests whose answer may have the largest length, MSG_MAXLEN.
FullReply(m) == \/ m.type = "ERR"
                \/ m.type \in {"READ", "WRITE"} /\ Clamp(m.cnt) = MaxIo

\* Every request is answered in the end, unless the dispatcher has left its
\* loop, or the answer is one that msg_tcp_send alone takes for too long: it is
\* then dropped however often the client asks again.
RequestAnswered ==
    waiting ~> \/ ~waiting \/ pc = "ended"
               \/ mode = "TCP" /\ FullReply(req)

\* The comment in dispatch(), "if this is pipe - try to reconnect - it's
\* because qemu closes pipe": a pipe that was opened again is served again, and
\* the dispatcher gives up only when its attempts are used up.
PipeReconnects ==
    mode = "PIPE" /\ pc = "ended" /\ fd # -1 /\ fd_out # -1 => retries = 0
=============================================================================
