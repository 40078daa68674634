----------------------------- MODULE PhfsProofs -----------------------------
(***************************************************************************)
(* Proofs about PhfsSystem, for every value of its constants.              *)
(*                                                                         *)
(* The invariants of PhfsSystem are not inductive: that a handle stays     *)
(* open depends on what may still be on its way to the server.  The line   *)
(* keeps order and the client has one request at a time, so that requests  *)
(* and replies each fall into two blocks: first leftovers of the request   *)
(* before, then those of the current one; and once there is an answer to   *)
(* the current request no leftover can reach the server any more.          *)
(***************************************************************************)
EXTENDS PhfsSystem, SequenceTheorems, TLAPS

IsReq(m) == m.type # "HELLO"

\* The current request is the one numbered seq.
CurrentInv == req.seq = seq /\ (req.type = "OPEN" => req.path \in Paths)

\* Requests on the line: every one that carries the current number is the
\* current request, and nothing but it comes behind it.
RequestsInv ==
    \A i \in 1 .. Len(toServer) : IsReq(toServer[i]) /\ toServer[i].seq = seq =>
        /\ toServer[i] = req
        /\ \A j \in 1 .. Len(toServer) :
              i <= j /\ IsReq(toServer[j]) => toServer[j].seq = seq

\* An open request names a path.
OpensInv == \A i \in 1 .. Len(toServer) :
                toServer[i].type = "OPEN" => toServer[i].path \in Paths

\* Replies on the line: one with the current number is of the type of the
\* current request, acknowledges no more than it carries, and nothing but such
\* replies comes behind it.
RepliesInv ==
    \A i \in 1 .. Len(toClient) : toClient[i].seq = seq =>
        /\ toClient[i].type = req.type
        /\ req.type = "WRITE" => toClient[i].ret <= Len(req.data)
        /\ \A j \in 1 .. Len(toClient) : i <= j => toClient[j].seq = seq

\* Once the current request is answered no earlier request is on the line, and
\* once the answer is accepted no earlier reply is either.
AnsweredInv ==
    /\ (~waiting \/ \E i \in 1 .. Len(toClient) : toClient[i].seq = seq) =>
          \A i \in 1 .. Len(toServer) : IsReq(toServer[i]) => toServer[i].seq = seq
    /\ ~waiting => \A i \in 1 .. Len(toClient) : toClient[i].seq = seq

\* A handle in an answer to the current open request is open for its path.
OpenedInv ==
    \A i \in 1 .. Len(toClient) :
        toClient[i].seq = seq /\ toClient[i].type = "OPEN" /\ toClient[i].handle # 0 =>
            /\ toClient[i].handle \in Fds
            /\ pc = "loop" => /\ fds[toClient[i].handle].use = "file"
                              /\ fds[toClient[i].handle].path = req.path

\* A request that closes descriptors is about none the client holds, nor about
\* the line's own: the current request, which may be sent again, and those on
\* the line.
Harmless(m) ==
    /\ m.type = "CLOSE" /\ m.handle \in Fds =>
          /\ held[m.handle] = NoPath
          /\ pc = "loop" => fds[m.handle].use # "link"
    /\ m.type = "RESET" => \A h \in Fds : held[h] = NoPath

ClosesInv == Harmless(req) /\ \A i \in 1 .. Len(toServer) : Harmless(toServer[i])

\* Before the line is open nothing has happened to the descriptors, and no
\* handle was given out to be closed.
StartInv ==
    /\ pc = "start" => /\ fds = [f \in Fds |-> Free]
                       /\ toClient = <<>>
                       /\ \A h \in Fds : held[h] = NoPath
                       /\ req.type # "CLOSE"
                       /\ \A i \in 1 .. Len(toServer) : toServer[i].type # "CLOSE"
    /\ pc # "ended" => retries = Retries

\* A file that is open exists: nothing below sysdir is ever removed.
FilesInv == \A f \in Fds : fds[f].use = "file" => fds[f].path \in DOMAIN disk

Inv == /\ TypeOK /\ FilesInv /\ CurrentInv /\ RequestsInv /\ OpensInv /\ RepliesInv
       /\ AnsweredInv /\ OpenedInv /\ ClosesInv /\ StartInv
       /\ HeldHandlesOpen /\ LineStaysOpen

-----------------------------------------------------------------------------
(* Facts about the operators of Phfs.                                      *)

\* The assumptions on the constants, in the form the other proofs cite.
LEMMA ConstantFacts ==
    /\ SeqMod \in Nat /\ SeqMod >= 2 /\ 0 \in Seqs
    /\ NoPath \notin Paths
    /\ MsgMaxLen \in Nat /\ IoHdr \in Nat /\ IntSz \in Nat /\ StatSz \in Nat
    /\ IoHdr < MsgMaxLen
    /\ MaxFd \in Nat /\ Fds \subseteq Nat /\ 0 \notin Fds
  BY SeqAssumption, NameAssumption, SizeAssumption, FdAssumption DEF Seqs, Fds

\* The type of an entry of the descriptor table.
Descriptor == [use : {"free", "link", "file"}, path : Paths \cup {NoPath}, rw : BOOLEAN]

\* The three kinds of entry of the descriptor table.
LEMMA DescriptorFacts ==
    /\ Free \in Descriptor /\ Free.use = "free"
    /\ Link \in Descriptor /\ Link.use = "link"
    /\ \A p, w : File(p, w).use = "file" /\ File(p, w).path = p
    /\ \A p \in Paths, w \in BOOLEAN : File(p, w) \in Descriptor
  BY DEF Free, Link, File, Descriptor

\* What read(2) returns is a sequence of cells.
LEMMA SliceType ==
    ASSUME NEW f \in Seq(Vals), NEW pos \in Nat, NEW k \in Nat
    PROVE  Slice(f, pos, k) \in Seq(Vals)
  <1>1. MinOf(pos + k, Len(f)) \in Int /\ MinOf(pos + k, Len(f)) <= Len(f)
    BY DEF MinOf
  <1>2. QED
    BY <1>1 DEF Slice

\* Writing keeps a file a sequence of cells.
LEMMA OverwriteType ==
    ASSUME NEW f \in Seq(Vals), NEW pos \in Nat, NEW d \in Seq(Vals)
    PROVE  Overwrite(f, pos, d) \in Seq(Vals)
  <1>1. CASE d = <<>>
    BY <1>1 DEF Overwrite
  <1>2. CASE d # <<>>
    <2>1. MaxOf(Len(f), pos + Len(d)) \in Nat
      BY DEF MaxOf
    <2>2. \A i \in 1 .. MaxOf(Len(f), pos + Len(d)) :
             (IF i > pos /\ i <= pos + Len(d) THEN d[i - pos]
              ELSE IF i <= Len(f) THEN f[i] ELSE Zero) \in Vals
      BY <2>1, NameAssumption, ElementOfSeq
    <2>3. QED
      BY <1>2, <2>1, <2>2, IsASeq, SMTT(30) DEF Overwrite
  <1>3. QED
    BY <1>1, <1>2

\* The cells a write request carries are a beginning of its data.
LEMMA PayloadType ==
    ASSUME NEW m \in Request
    PROVE  /\ Payload(m) \in Seq(Vals)
           /\ Len(Payload(m)) <= Len(m.data)
  <1>1. m.data \in Seq(Vals) /\ m.cnt \in Int
    BY DEF Request
  <1>2. Clamp(m.cnt) \in Nat
    BY <1>1, ConstantFacts DEF Clamp, MaxIo
  <1>3. MinOf(Clamp(m.cnt), Len(m.data)) \in Nat /\ MinOf(Clamp(m.cnt), Len(m.data)) <= Len(m.data)
    BY <1>1, <1>2 DEF MinOf
  <1>4. QED
    BY <1>1, <1>3 DEF Payload

-----------------------------------------------------------------------------
(* The dispatcher takes the oldest request off the line.                   *)

\* What every handler's reply has in common: it carries the number and the type
\* of the request, and acknowledges no more than the request carries.
Replies(m, r) ==
    /\ r \in Reply /\ r.seq = m.seq /\ r.type = m.type
    /\ m.type = "WRITE" => r.ret <= Len(m.data)

\* msg_send appends one such reply, or none.
Sent(m, r) == toClient' = toClient \/ toClient' = Append(toClient, r)

\* msg_send appends the reply or drops it, if it is too long to send.
LEMMA SendKeepsType ==
    ASSUME TypeOK, NEW m, NEW r \in Reply, msg_send(r)
    PROVE  Sent(m, r) /\ toClient' \in Seq(Reply)
  BY DEF msg_send, Sent, TypeOK

\* Taking the head off a queue, as recv does.
LEMMA TailFacts ==
    ASSUME NEW S, NEW q \in Seq(S), q # <<>>
    PROVE  /\ Head(q) \in S /\ Head(q) = q[1] /\ Tail(q) \in Seq(S)
           /\ Len(q) \in Nat /\ Len(q) >= 1 /\ 1 \in 1 .. Len(q)
           /\ Len(Tail(q)) = Len(q) - 1
           /\ \A i \in 1 .. Len(Tail(q)) : Tail(q)[i] = q[i + 1] /\ i + 1 \in 1 .. Len(q)
  <1>1. Len(q) \in Nat /\ Len(q) >= 1
    OBVIOUS
  <1>2. QED
    BY <1>1, HeadTailProperties, ElementOfSeq

\* The two blocks of requests and of replies stay what they are, whatever the
\* handler does to descriptors and files.
LEMMA ServeKeepsLine ==
    ASSUME TypeOK, CurrentInv, RequestsInv, OpensInv, RepliesInv, AnsweredInv,
           toServer # <<>>, toServer' = Tail(toServer),
           NEW r, Replies(Head(toServer), r), IsReq(Head(toServer)),
           Sent(Head(toServer), r), UNCHANGED client
    PROVE  /\ CurrentInv' /\ RequestsInv' /\ OpensInv' /\ RepliesInv' /\ AnsweredInv'
           /\ \A i \in 1 .. Len(toClient') : toClient'[i].seq = seq =>
                 \/ i \in 1 .. Len(toClient) /\ toClient'[i] = toClient[i]
                 \/ /\ toClient'[i] = r /\ Head(toServer) = req
                    /\ toClient' = Append(toClient, r)
  <1> DEFINE m == Head(toServer)
  <1>1. /\ toServer \in Seq(Request) /\ toClient \in Seq(Reply) /\ r \in Reply
        /\ UNCHANGED <<seq, req, waiting, held, known>>
    BY DEF TypeOK, client, Replies
  <1>2. /\ m = toServer[1] /\ 1 \in 1 .. Len(toServer)
        /\ Len(toServer') = Len(toServer) - 1
        /\ \A i \in 1 .. Len(toServer') : toServer'[i] = toServer[i + 1] /\ i + 1 \in 1 .. Len(toServer)
    BY <1>1, TailFacts
  <1>3. Len(toClient) \in Nat /\ Len(toServer) \in Nat
    BY <1>1
  <1>4. m.seq = seq => m = req /\ \A i \in 1 .. Len(toServer) : IsReq(toServer[i]) => toServer[i].seq = seq
    BY <1>2, <1>3 DEF RequestsInv
  <1>5. CurrentInv'
    BY <1>1 DEF CurrentInv
  <1>6. RequestsInv'
    BY <1>1, <1>2, <1>3 DEF RequestsInv, IsReq
  <1>7. OpensInv'
    BY <1>1, <1>2 DEF OpensInv
  <1>8. \A i \in 1 .. Len(toClient') :
            \/ i \in 1 .. Len(toClient) /\ toClient'[i] = toClient[i]
            \/ i = Len(toClient) + 1 /\ toClient'[i] = r /\ toClient' = Append(toClient, r)
    BY <1>1, <1>3, AppendProperties DEF Sent
  <1>9. RepliesInv'
    <2> SUFFICES ASSUME NEW i \in 1 .. Len(toClient'), toClient'[i].seq = seq
                 PROVE  /\ toClient'[i].type = req.type
                        /\ req.type = "WRITE" => toClient'[i].ret <= Len(req.data)
                        /\ \A j \in 1 .. Len(toClient') : i <= j => toClient'[j].seq = seq
      BY <1>1 DEF RepliesInv
    <2>1. CASE i \in 1 .. Len(toClient) /\ toClient'[i] = toClient[i]
      <3>1. m.seq = seq
        BY <2>1, <1>2, <1>4 DEF AnsweredInv
      <3>2. QED
        BY <2>1, <3>1, <1>8, <1>3 DEF RepliesInv, Replies
    <2>2. CASE i = Len(toClient) + 1 /\ toClient'[i] = r /\ toClient' = Append(toClient, r)
      <3>1. Len(toClient') = Len(toClient) + 1
        BY <2>2, <1>1, AppendProperties
      <3>2. m = req
        BY <2>2, <1>4 DEF Replies
      <3>3. QED
        BY <2>2, <3>1, <3>2, <1>3 DEF Replies
    <2>3. QED
      BY <2>1, <2>2, <1>8
  <1>10. AnsweredInv'
    <2>1. ASSUME NEW i \in 1 .. Len(toClient'), toClient'[i].seq = seq
          PROVE  \A k \in 1 .. Len(toServer) : IsReq(toServer[k]) => toServer[k].seq = seq
      BY <2>1, <1>8, <1>4 DEF AnsweredInv, Replies
    <2>2. ASSUME ~waiting PROVE \A i \in 1 .. Len(toClient') : toClient'[i].seq = seq
      BY <2>2, <1>8, <1>2 DEF AnsweredInv, Replies
    <2>3. QED
      BY <2>1, <2>2, <1>1, <1>2 DEF AnsweredInv, IsReq
  <1>11. QED
    BY <1>4, <1>5, <1>6, <1>7, <1>8, <1>9, <1>10 DEF Replies

\* What a handler may do to the descriptor table.
Descriptors(m, r) ==
    \/ /\ fds' = fds /\ m.type # "RESET"
       /\ m.type = "OPEN" => r.handle = 0
    \/ /\ m.type = "OPEN" /\ r.handle \in Fds /\ fds[r.handle].use = "free"
       /\ fds' = [fds EXCEPT ![r.handle] = File(m.path, m.rw)]
    \/ /\ m.type = "CLOSE"
       /\ fds' = IF m.handle \in Fds THEN [fds EXCEPT ![m.handle] = Free] ELSE fds
    \/ /\ m.type = "RESET"
       /\ fds' = [f \in Fds |-> IF f = reply_fd THEN fds[f] ELSE Free]

\* What a handler does to the descriptor table keeps the client's handles and
\* the line open: an open takes a free descriptor, a close the one named, a reset
\* all but the line.
LEMMA ServeKeepsDescriptors ==
    ASSUME Inv, pc = "loop", toServer # <<>>, toServer' = Tail(toServer),
           NEW r, Replies(Head(toServer), r), IsReq(Head(toServer)),
           Sent(Head(toServer), r), Descriptors(Head(toServer), r),
           UNCHANGED <<server, client>>
    PROVE  OpenedInv' /\ ClosesInv' /\ StartInv' /\ HeldHandlesOpen' /\ LineStaysOpen'
  <1> DEFINE m == Head(toServer)
  <1>1. /\ TypeOK /\ CurrentInv /\ RequestsInv /\ OpensInv /\ RepliesInv /\ AnsweredInv
        /\ OpenedInv /\ ClosesInv /\ HeldHandlesOpen /\ LineStaysOpen
    BY DEF Inv
  <1>2. /\ UNCHANGED <<seq, req, waiting, held, known>> /\ UNCHANGED <<mode, pc, fd, fd_out, retries>>
        /\ toServer \in Seq(Request) /\ toClient \in Seq(Reply)
        /\ fds \in [Fds -> [use : {"free", "link", "file"}, path : Paths \cup {NoPath}, rw : BOOLEAN]]
    BY <1>1 DEF TypeOK, client, server
  <1>3. /\ m \in Request /\ m = toServer[1] /\ 1 \in 1 .. Len(toServer)
        /\ \A i \in 1 .. Len(toServer') : toServer'[i] = toServer[i + 1] /\ i + 1 \in 1 .. Len(toServer)
    BY <1>2, TailFacts
  <1>4. \A i \in 1 .. Len(toClient') : toClient'[i].seq = seq =>
            \/ i \in 1 .. Len(toClient) /\ toClient'[i] = toClient[i]
            \/ toClient'[i] = r /\ m = req /\ toClient' = Append(toClient, r)
    BY <1>1, <1>2, ServeKeepsLine
  <1>5. m.type = "CLOSE" /\ m.handle \in Fds => held[m.handle] = NoPath /\ fds[m.handle].use # "link"
    BY <1>1, <1>3 DEF ClosesInv, Harmless
  <1>6. m.type = "RESET" => \A h \in Fds : held[h] = NoPath
    BY <1>1, <1>3 DEF ClosesInv, Harmless
  \* No held descriptor and no descriptor of the line is changed.
  <1>7. \A f \in Fds : held[f] # NoPath => fds'[f] = fds[f]
    BY <1>1, <1>2, <1>5, <1>6 DEF Descriptors, HeldHandlesOpen
  <1>8. \A f \in Fds : fds'[f].use = "link" => fds[f].use = "link"
    <2> SUFFICES ASSUME NEW f \in Fds, fds'[f].use = "link" PROVE fds[f].use = "link"
      OBVIOUS
    <2>1. CASE fds' = fds
      BY <2>1
    <2>2. CASE r.handle \in Fds /\ fds' = [fds EXCEPT ![r.handle] = File(m.path, m.rw)]
      BY <2>2, <1>2, DescriptorFacts
    <2>3. CASE m.handle \in Fds /\ fds' = [fds EXCEPT ![m.handle] = Free]
      BY <2>3, <1>2, DescriptorFacts
    <2>4. CASE fds' = [g \in Fds |-> IF g = reply_fd THEN fds[g] ELSE Free]
      BY <2>4, DescriptorFacts
    <2>5. QED
      BY <2>1, <2>2, <2>3, <2>4 DEF Descriptors
  <1>9. HeldHandlesOpen'
    BY <1>1, <1>2, <1>7 DEF HeldHandlesOpen
  <1>10. ClosesInv'
    BY <1>1, <1>2, <1>3, <1>8 DEF ClosesInv, Harmless
  <1>11. StartInv'
    BY <1>2 DEF StartInv, Inv
  <1>12. LineStaysOpen'
    BY <1>1, <1>2, <1>5 DEF LineStaysOpen, Descriptors, reply_fd, Link
  <1>13. OpenedInv'
    <2> SUFFICES ASSUME NEW i \in 1 .. Len(toClient'), toClient'[i].seq = seq,
                        toClient'[i].type = "OPEN", toClient'[i].handle # 0
                 PROVE  /\ toClient'[i].handle \in Fds
                        /\ fds'[toClient'[i].handle].use = "file"
                        /\ fds'[toClient'[i].handle].path = req.path
      BY <1>2 DEF OpenedInv
    \* A reply from before: only open requests are left, and these take free
    \* descriptors.
    <2>1. CASE i \in 1 .. Len(toClient) /\ toClient'[i] = toClient[i]
      <3>1. m.seq = seq
        BY <2>1, <1>1, <1>3 DEF AnsweredInv
      <3>2. m = req
        BY <3>1, <1>1, <1>3 DEF RequestsInv
      <3>3. req.type = "OPEN"
        BY <2>1, <1>1 DEF RepliesInv
      <3>4. /\ toClient[i].handle \in Fds /\ fds[toClient[i].handle].use = "file"
            /\ fds[toClient[i].handle].path = req.path
        BY <2>1, <1>1 DEF OpenedInv
      <3>5. fds'[toClient[i].handle] = fds[toClient[i].handle]
        BY <3>2, <3>3, <3>4, <1>2 DEF Descriptors
      <3>6. QED
        BY <2>1, <3>4, <3>5
    \* The reply just sent.
    <2>2. CASE toClient'[i] = r /\ m = req
      BY <2>2, <1>2 DEF Descriptors, Replies, File
    <2>3. QED
      BY <2>1, <2>2, <1>4
  <1>14. QED
    BY <1>9, <1>10, <1>11, <1>12, <1>13

\* Types after a handler.
LEMMA ServeKeepsTypes ==
    ASSUME TypeOK, pc = "loop", toServer # <<>>, toServer' = Tail(toServer),
           NEW r, Replies(Head(toServer), r), OpensInv,
           Sent(Head(toServer), r), Descriptors(Head(toServer), r),
           DOMAIN disk' \subseteq Paths, disk' \in [DOMAIN disk' -> Seq(Vals)],
           faults' \in Nat, UNCHANGED <<server, client>>
    PROVE  TypeOK'
  <1>1. /\ toServer \in Seq(Request) /\ toClient \in Seq(Reply)
        /\ UNCHANGED <<seq, req, waiting, held, known>> /\ UNCHANGED <<mode, pc, fd, fd_out, retries>>
    BY DEF TypeOK, client, server
  <1>2. Head(toServer) \in Request /\ toServer' \in Seq(Request)
    BY <1>1, TailFacts
  <1>3. toClient' \in Seq(Reply)
    BY <1>1 DEF Sent, Replies
  <1>4. Head(toServer).type = "OPEN" => Head(toServer).path \in Paths
    BY <1>1, TailFacts DEF OpensInv
  <1>5. fds' \in [Fds -> Descriptor]
    <2> DEFINE m == Head(toServer)
    <2>1. fds \in [Fds -> Descriptor]
      BY DEF TypeOK, Descriptor
    <2>2. CASE fds' = fds
      BY <2>1, <2>2
    <2>3. CASE m.type = "OPEN" /\ fds' = [fds EXCEPT ![r.handle] = File(m.path, m.rw)]
      <3>1. File(m.path, m.rw) \in Descriptor
        BY <2>3, <1>2, <1>4, DescriptorFacts DEF Request
      <3>2. QED
        BY <2>1, <2>3, <3>1
    <2>4. CASE fds' = [fds EXCEPT ![m.handle] = Free]
      BY <2>1, <2>4, DescriptorFacts
    <2>5. CASE fds' = [g \in Fds |-> IF g = reply_fd THEN fds[g] ELSE Free]
      BY <2>1, <2>5, DescriptorFacts
    <2>6. QED
      BY <2>2, <2>3, <2>4, <2>5 DEF Descriptors
  <1>6. QED
    BY <1>1, <1>2, <1>3, <1>5 DEF TypeOK, Descriptor

\* What a handler does to the files, and to the count of faults.
Files ==
    /\ DOMAIN disk' \subseteq Paths /\ disk' \in [DOMAIN disk' -> Seq(Vals)]
    /\ faults' \in Nat
    /\ FilesInv'

\* What the reply says of the files: the cells of a read are the file's, and
\* what a write acknowledges is what it has written.
Effect(m, r) ==
    /\ m.type = "READ" =>
          \/ r.ret < 0
          \/ IsOpen(m.handle) /\ r.data = Slice(Content(m.handle), m.pos, Clamp(m.cnt))
    /\ \/ disk' = disk /\ (m.type = "WRITE" => r.ret < 0)
       \/ m.type = "OPEN" /\ \A p \in DOMAIN disk : p \in DOMAIN disk' /\ disk'[p] = disk[p]
       \/ /\ m.type = "WRITE" /\ IsOpen(m.handle) /\ r.ret = Len(Payload(m))
          /\ disk' = [disk EXCEPT ![fds[m.handle].path] = Overwrite(@, m.pos, Payload(m))]

\* One request served as the dispatcher's invariants need it.
Served(m) == \E r : Replies(m, r) /\ Sent(m, r) /\ Descriptors(m, r) /\ Files /\ Effect(m, r)

\* A handler that only replies.
LEMMA OnlyReplies ==
    ASSUME TypeOK, FilesInv, NEW m \in Request, NEW r, Replies(m, r), msg_send(r),
           fds' = fds, disk' = disk, faults' \in Nat, m.type = "OPEN" => r.handle = 0, Effect(m, r),
           m.type # "RESET"
    PROVE  Served(m)
  <1>1. Sent(m, r)
    BY SendKeepsType DEF Replies
  <1>2. Descriptors(m, r)
    BY DEF Descriptors
  <1>3. Files
    BY DEF Files, TypeOK, FilesInv
  <1>4. QED
    BY <1>1, <1>2, <1>3 DEF Served

\* phfs_open serves a request: it opens the lowest free descriptor or answers 0.
LEMMA OpenServed ==
    ASSUME TypeOK, FilesInv, NEW m \in Request, m.type = "OPEN", m.path \in Paths, phfs_open(m)
    PROVE  Served(m)
  <1>1. CASE /\ \E ofd \in Fds :
                  /\ Lowest(ofd, FreeFds)
                  /\ fds' = [fds EXCEPT ![ofd] = File(m.path, m.rw)]
                  /\ msg_send(Answer(m, "OPEN", IntSz, ofd, 0, 0, <<>>))
             /\ disk' = IF Exists(m.path) THEN disk
                        ELSE [p \in DOMAIN disk \cup {m.path} |->
                                 IF p = m.path THEN <<>> ELSE disk[p]]
             /\ UNCHANGED faults
    <2>1. PICK ofd \in Fds :
                  /\ Lowest(ofd, FreeFds)
                  /\ fds' = [fds EXCEPT ![ofd] = File(m.path, m.rw)]
                  /\ msg_send(Answer(m, "OPEN", IntSz, ofd, 0, 0, <<>>))
      BY <1>1
    <2> DEFINE r == Answer(m, "OPEN", IntSz, ofd, 0, 0, <<>>)
    <2>2. /\ r \in Reply /\ r.seq = m.seq /\ r.type = m.type /\ r.handle = ofd
      BY ConstantFacts DEF Answer, Request, Reply, MsgTypes, Fds
    <2>3. Replies(m, r)
      BY <2>2 DEF Replies
    <2>4. Sent(m, r)
      BY <2>1, <2>2, SendKeepsType
    <2>5. Descriptors(m, r)
      BY <2>1, <2>2 DEF Descriptors, Lowest, FreeFds
    <2>6. DOMAIN disk' = DOMAIN disk \cup {m.path}
      BY <1>1 DEF Exists
    <2>7. DOMAIN disk' \subseteq Paths /\ disk' \in [DOMAIN disk' -> Seq(Vals)] /\ faults' \in Nat
      BY <1>1, <2>6 DEF Exists, TypeOK
    <2>8. FilesInv'
      BY <2>1, <2>6, DescriptorFacts DEF FilesInv, TypeOK
    <2>9. Effect(m, r)
      BY <1>1, <2>6 DEF Effect, Exists
    <2>10. QED
      BY <2>3, <2>4, <2>5, <2>7, <2>8, <2>9 DEF Served, Files
  <1>2. CASE /\ faults' = faults \/ faults' = faults + 1
             /\ msg_send(Answer(m, "OPEN", IntSz, 0, 0, 0, <<>>))
             /\ UNCHANGED <<fds, disk>>
    <2> DEFINE r == Answer(m, "OPEN", IntSz, 0, 0, 0, <<>>)
    <2>1. Replies(m, r) /\ r.handle = 0
      BY ConstantFacts DEF Answer, Request, Reply, MsgTypes, Replies
    <2>2. faults' \in Nat
      BY <1>2 DEF TypeOK
    <2>3. Effect(m, r)
      BY <1>2 DEF Effect
    <2>4. QED
      BY <1>2, <2>1, <2>2, <2>3, OnlyReplies
  <1>3. QED
    BY <1>1, <1>2 DEF phfs_open

\* A clamped length is a natural number.
LEMMA ClampType == ASSUME NEW k \in Int PROVE Clamp(k) \in Nat
  BY ConstantFacts DEF Clamp, MaxIo

\* What is behind an open descriptor is a sequence of cells.
LEMMA ContentType ==
    ASSUME TypeOK, FilesInv, NEW h, IsOpen(h)
    PROVE  Content(h) \in Seq(Vals)
  BY DEF TypeOK, FilesInv, IsOpen, Content

\* phfs_read only replies.
LEMMA ReadServed ==
    ASSUME TypeOK, FilesInv, NEW m \in Request, m.type = "READ", phfs_read(m)
    PROVE  Served(m)
  <1>1. m.handle \in Int /\ m.pos \in Nat /\ m.cnt \in Int
    BY DEF Request
  <1>2. CASE /\ IsOpen(m.handle)
             /\ LET d == Slice(Content(m.handle), m.pos, Clamp(m.cnt))
                IN  msg_send(Answer(m, "READ", Len(d) + IoHdr, m.handle,
                                    m.pos + Len(d), Len(d), d))
             /\ UNCHANGED <<fds, disk, faults>>
    <2> DEFINE d == Slice(Content(m.handle), m.pos, Clamp(m.cnt))
               r == Answer(m, "READ", Len(d) + IoHdr, m.handle, m.pos + Len(d), Len(d), d)
    <2>1. d \in Seq(Vals)
      BY <1>1, <1>2, ClampType, ContentType, SliceType
    <2>2. Len(d) \in Nat /\ Len(d) + IoHdr \in Nat /\ m.pos + Len(d) \in Nat
      <3> HIDE DEF d
      <3>1. QED
        BY <2>1, <1>1, ConstantFacts
    <2>3. Replies(m, r)
      <3> HIDE DEF d
      <3>1. QED
        BY <2>1, <2>2, <1>1 DEF Answer, Request, Reply, MsgTypes, Replies
    <2>4. faults' \in Nat
      BY <1>2 DEF TypeOK
    <2>5. Effect(m, r)
      BY <1>2 DEF Effect, Answer
    <2>6. QED
      BY <1>2, <2>3, <2>4, <2>5, OnlyReplies
  <1>3. CASE /\ faults' = faults \/ faults' = faults + 1
             /\ msg_send(Answer(m, "READ", IoHdr, m.handle, m.pos, -1, <<>>))
             /\ UNCHANGED <<fds, disk>>
    <2> DEFINE r == Answer(m, "READ", IoHdr, m.handle, m.pos, -1, <<>>)
    <2>1. Replies(m, r)
      BY <1>1, ConstantFacts DEF Answer, Request, Reply, MsgTypes, Replies
    <2>2. faults' \in Nat
      BY <1>3 DEF TypeOK
    <2>3. Effect(m, r)
      BY <1>3 DEF Effect, Answer
    <2>4. QED
      BY <1>3, <2>1, <2>2, <2>3, OnlyReplies
  <1>4. QED
    BY <1>2, <1>3 DEF phfs_read

\* phfs_write changes one file and replies.
LEMMA WriteServed ==
    ASSUME TypeOK, FilesInv, NEW m \in Request, m.type = "WRITE", phfs_write(m)
    PROVE  Served(m)
  <1>1. m.handle \in Int /\ m.pos \in Nat /\ m.data \in Seq(Vals)
    BY DEF Request
  <1>2. CASE /\ IsOpen(m.handle) /\ fds[m.handle].rw
             /\ LET d == Payload(m)
                IN  /\ disk' = [disk EXCEPT ![fds[m.handle].path] =
                                              Overwrite(@, m.pos, d)]
                    /\ msg_send(Answer(m, "WRITE", Len(d) + IoHdr, m.handle,
                                       m.pos + Len(d), Len(d), <<>>))
             /\ UNCHANGED <<fds, faults>>
    <2> DEFINE d == Payload(m)
               q == fds[m.handle].path
               r == Answer(m, "WRITE", Len(d) + IoHdr, m.handle, m.pos + Len(d), Len(d), <<>>)
    <2>1. d \in Seq(Vals) /\ Len(d) <= Len(m.data)
      BY PayloadType
    <2>2. Len(d) \in Nat /\ Len(d) + IoHdr \in Nat /\ m.pos + Len(d) \in Nat
      <3> HIDE DEF d
      <3>1. QED
        BY <2>1, <1>1, ConstantFacts
    <2>3. Replies(m, r)
      <3> HIDE DEF d
      <3>1. QED
        BY <2>1, <2>2, <1>1 DEF Answer, Request, Reply, MsgTypes, Replies
    <2>4. Sent(m, r)
      BY <1>2, <2>3, SendKeepsType DEF Replies
    <2>5. Descriptors(m, r)
      BY <1>2 DEF Descriptors
    <2>6. disk[q] \in Seq(Vals)
      BY <1>2, ContentType DEF Content
    <2>7. Overwrite(disk[q], m.pos, d) \in Seq(Vals)
      <3> HIDE DEF d, q
      <3>1. QED
        BY <2>1, <2>6, <1>1, OverwriteType
    <2>8. disk' \in [DOMAIN disk -> Seq(Vals)] /\ DOMAIN disk' = DOMAIN disk
      <3>1. disk' = [disk EXCEPT ![q] = Overwrite(disk[q], m.pos, d)]
        BY <1>2
      <3>2. disk \in [DOMAIN disk -> Seq(Vals)]
        BY DEF TypeOK
      <3> HIDE DEF d, q
      <3>3. QED
        BY <3>1, <3>2, <2>7
    <2>9. Files
      BY <1>2, <2>8 DEF Files, TypeOK, FilesInv
    <2>10. Effect(m, r)
      <3>1. r.ret = Len(Payload(m))
        BY DEF Answer
      <3>2. QED
        BY <1>2, <3>1 DEF Effect
    <2>11. QED
      BY <2>3, <2>4, <2>5, <2>9, <2>10 DEF Served
  <1>3. CASE /\ faults' = faults \/ faults' = faults + 1
             /\ msg_send(Answer(m, "WRITE", IoHdr, m.handle, m.pos, -1, <<>>))
             /\ UNCHANGED <<fds, disk>>
    <2> DEFINE r == Answer(m, "WRITE", IoHdr, m.handle, m.pos, -1, <<>>)
    <2>1. Replies(m, r)
      BY <1>1, ConstantFacts DEF Answer, Request, Reply, MsgTypes, Replies
    <2>2. faults' \in Nat
      BY <1>3 DEF TypeOK
    <2>3. Effect(m, r)
      BY <1>3 DEF Effect, Answer
    <2>4. QED
      BY <1>3, <2>1, <2>2, <2>3, OnlyReplies
  <1>4. QED
    BY <1>2, <1>3 DEF phfs_write

\* phfs_close frees the named descriptor and replies.
LEMMA CloseServed ==
    ASSUME TypeOK, FilesInv, NEW m \in Request, m.type = "CLOSE", phfs_close(m)
    PROVE  Served(m)
  <1> DEFINE r == Answer(m, "CLOSE", IntSz, m.handle, 0, 0, <<>>)
  <1>1. Replies(m, r)
    BY ConstantFacts DEF Answer, Request, Reply, MsgTypes, Replies
  <1>2. Sent(m, r)
    BY <1>1, SendKeepsType DEF Replies, phfs_close
  <1>3. Descriptors(m, r)
    BY DEF Descriptors, phfs_close
  <1>4. Files
    BY DescriptorFacts DEF phfs_close, Files, TypeOK, FilesInv
  <1>5. Effect(m, r)
    BY DEF Effect, phfs_close
  <1>6. QED
    BY <1>1, <1>2, <1>3, <1>4, <1>5 DEF Served

\* phfs_reset frees all descriptors but the one it replies on, and replies.
LEMMA ResetServed ==
    ASSUME TypeOK, FilesInv, NEW m \in Request, m.type = "RESET", phfs_reset(m, reply_fd)
    PROVE  Served(m)
  <1> DEFINE r == Answer(m, "RESET", 0, 0, 0, 0, <<>>)
  <1>1. Replies(m, r)
    BY ConstantFacts DEF Answer, Request, Reply, MsgTypes, Replies
  <1>2. Sent(m, r)
    BY <1>1, SendKeepsType DEF Replies, phfs_reset
  <1>3. Descriptors(m, r)
    BY DEF Descriptors, phfs_reset
  <1>4. Files
    BY DescriptorFacts DEF phfs_reset, Files, TypeOK, FilesInv
  <1>5. Effect(m, r)
    BY DEF Effect, phfs_reset
  <1>6. QED
    BY <1>1, <1>2, <1>3, <1>4, <1>5 DEF Served

\* phfs_stat only replies.
LEMMA StatServed ==
    ASSUME TypeOK, FilesInv, NEW m \in Request, m.type = "FSTAT", phfs_stat(m)
    PROVE  Served(m)
  <1>1. PICK size \in IF IsOpen(m.handle) THEN {Len(Content(m.handle))} ELSE 0 .. MsgMaxLen :
            msg_send(Answer(m, "FSTAT", StatSz + IoHdr, m.handle, 0, size, <<>>))
    BY DEF phfs_stat
  <1>2. size \in Int
    BY <1>1, ContentType, ConstantFacts
  <1> DEFINE r == Answer(m, "FSTAT", StatSz + IoHdr, m.handle, 0, size, <<>>)
  <1>3. Replies(m, r)
    BY <1>2, ConstantFacts DEF Answer, Request, Reply, MsgTypes, Replies
  <1>4. Effect(m, r)
    BY DEF Effect, phfs_stat
  <1>5. QED
    BY <1>1, <1>3, <1>4, OnlyReplies DEF phfs_stat, TypeOK

\* MSG_ERR, which dispatch() answers itself.
LEMMA ErrServed ==
    ASSUME TypeOK, FilesInv, NEW m \in Request, m.type = "ERR",
           msg_send(Answer(m, "ERR", MsgMaxLen, 0, 0, 0, <<>>)), UNCHANGED <<fds, disk, faults>>
    PROVE  Served(m)
  <1> DEFINE r == Answer(m, "ERR", MsgMaxLen, 0, 0, 0, <<>>)
  <1>1. Replies(m, r)
    BY ConstantFacts DEF Answer, Request, Reply, MsgTypes, Replies
  <1>2. Effect(m, r)
    BY DEF Effect
  <1>3. QED
    BY <1>1, <1>2, OnlyReplies DEF TypeOK

\* A served request, whatever its type, keeps the invariant.
LEMMA ServedKeepsInv ==
    ASSUME Inv, pc = "loop", toServer # <<>>, toServer' = Tail(toServer),
           IsReq(Head(toServer)), Served(Head(toServer)), UNCHANGED <<server, client>>
    PROVE  Inv'
  <1>1. PICK r : /\ Replies(Head(toServer), r) /\ Sent(Head(toServer), r)
                 /\ Descriptors(Head(toServer), r) /\ Files
    BY DEF Served
  <1>2. UNCHANGED client
    BY DEF client
  <1>3. CurrentInv' /\ RequestsInv' /\ OpensInv' /\ RepliesInv' /\ AnsweredInv'
    BY <1>1, <1>2, ServeKeepsLine DEF Inv
  <1>4. OpenedInv' /\ ClosesInv' /\ StartInv' /\ HeldHandlesOpen' /\ LineStaysOpen'
    BY <1>1, ServeKeepsDescriptors
  <1>5. TypeOK'
    BY <1>1, ServeKeepsTypes DEF Inv, Files
  <1>6. QED
    BY <1>1, <1>3, <1>4, <1>5 DEF Inv, Files

-----------------------------------------------------------------------------
(* Messages leave the line unserved.                                       *)

\* A request that is lost, or of a type nobody serves, leaves the line.
LEMMA DropRequestKeepsInv ==
    ASSUME Inv, toServer # <<>>, toServer' = Tail(toServer), faults' \in Nat,
           UNCHANGED <<fds, disk, toClient, server, client>>
    PROVE  Inv'
  <1>1. /\ UNCHANGED <<seq, req, waiting, held, known>> /\ UNCHANGED <<mode, pc, fd, fd_out, retries>>
        /\ toServer \in Seq(Request)
    BY DEF Inv, TypeOK, client, server
  <1>2. /\ toServer' \in Seq(Request) /\ Len(toServer) \in Nat /\ Len(toServer') = Len(toServer) - 1
        /\ \A i \in 1 .. Len(toServer') : toServer'[i] = toServer[i + 1] /\ i + 1 \in 1 .. Len(toServer)
    BY <1>1, TailFacts
  <1>3. TypeOK' /\ FilesInv' /\ CurrentInv' /\ RepliesInv' /\ OpenedInv' /\ HeldHandlesOpen' /\ LineStaysOpen'
    BY <1>1, <1>2 DEF Inv, TypeOK, FilesInv, CurrentInv, RepliesInv, OpenedInv, HeldHandlesOpen,
                      LineStaysOpen, reply_fd
  <1>4. RequestsInv' /\ OpensInv'
    BY <1>1, <1>2 DEF Inv, RequestsInv, OpensInv, IsReq
  <1>5. AnsweredInv'
    BY <1>1, <1>2 DEF Inv, AnsweredInv, IsReq
  <1>6. ClosesInv' /\ StartInv'
    BY <1>1, <1>2 DEF Inv, ClosesInv, Harmless, StartInv
  <1>7. QED
    BY <1>3, <1>4, <1>5, <1>6 DEF Inv

\* A reply that is lost or that the client does not wait for leaves the line.
LEMMA DropReplyKeepsInv ==
    ASSUME Inv, toClient # <<>>, toClient' = Tail(toClient), faults' \in Nat,
           UNCHANGED <<fds, disk, toServer, server, client>>
    PROVE  Inv'
  <1>1. /\ UNCHANGED <<seq, req, waiting, held, known>> /\ UNCHANGED <<mode, pc, fd, fd_out, retries>>
        /\ toClient \in Seq(Reply)
    BY DEF Inv, TypeOK, client, server
  <1>2. /\ toClient' \in Seq(Reply) /\ Len(toClient) \in Nat /\ Len(toClient') = Len(toClient) - 1
        /\ \A i \in 1 .. Len(toClient') : toClient'[i] = toClient[i + 1] /\ i + 1 \in 1 .. Len(toClient)
    BY <1>1, TailFacts
  <1>3. TypeOK' /\ FilesInv' /\ CurrentInv' /\ RequestsInv' /\ OpensInv' /\ ClosesInv' /\ HeldHandlesOpen' /\ LineStaysOpen'
    BY <1>1, <1>2 DEF Inv, TypeOK, FilesInv, CurrentInv, RequestsInv, OpensInv, ClosesInv, Harmless,
                      HeldHandlesOpen, LineStaysOpen, reply_fd
  <1>4. RepliesInv'
    BY <1>1, <1>2 DEF Inv, RepliesInv
  <1>5. AnsweredInv'
    BY <1>1, <1>2 DEF Inv, AnsweredInv
  <1>6. OpenedInv' /\ StartInv'
    BY <1>1, <1>2 DEF Inv, OpenedInv, StartInv
  <1>7. QED
    BY <1>3, <1>4, <1>5, <1>6 DEF Inv

\* One turn of dispatch()'s loop serves the oldest message, or drops a HELLO.
LEMMA DispatchServes ==
    ASSUME Inv, dispatch_message
    PROVE  \/ Served(Head(toServer)) /\ IsReq(Head(toServer))
           \/ UNCHANGED <<fds, disk, faults, toClient>>
  <1> DEFINE m == Head(toServer)
  <1>1. TypeOK /\ FilesInv /\ m \in Request /\ (m.type = "OPEN" => m.path \in Paths)
    BY TailFacts DEF dispatch_message, Inv, TypeOK, OpensInv
  <1>2. CASE phfs_handlemsg(m, reply_fd)
    BY <1>1, <1>2, OpenServed, ReadServed, WriteServed, CloseServed, ResetServed, StatServed
       DEF phfs_handlemsg, IsReq
  <1>3. CASE /\ m.type = "ERR"
             /\ msg_send(Answer(m, "ERR", MsgMaxLen, 0, 0, 0, <<>>))
             /\ UNCHANGED <<fds, disk, faults>>
    BY <1>1, <1>3, ErrServed DEF IsReq
  <1>4. QED
    BY <1>2, <1>3 DEF dispatch_message

\* One turn of dispatch()'s loop keeps the invariant, by the type of the message.
LEMMA DispatchMessageKeepsInv ==
    ASSUME Inv, dispatch_message
    PROVE  Inv'
  <1>1. /\ pc = "loop" /\ toServer # <<>> /\ toServer' = Tail(toServer) /\ UNCHANGED <<server, client>>
    BY DEF dispatch_message
  <1>2. CASE Served(Head(toServer)) /\ IsReq(Head(toServer))
    BY <1>1, <1>2, ServedKeepsInv
  <1>3. CASE UNCHANGED <<fds, disk, faults, toClient>>
    BY <1>1, <1>3, DropRequestKeepsInv DEF Inv, TypeOK
  <1>4. QED
    BY <1>2, <1>3, DispatchServes

-----------------------------------------------------------------------------
(* Messages enter the line.                                                *)

\* A HELLO, or the current request once more.
LEMMA AppendRequestKeepsInv ==
    ASSUME Inv, NEW m \in Request, ~IsReq(m) \/ (m = req /\ waiting),
           toServer' = Append(toServer, m),
           UNCHANGED <<fds, disk, toClient, faults, server, client>>
    PROVE  Inv'
  <1>1. /\ UNCHANGED <<seq, req, waiting, held, known>> /\ UNCHANGED <<mode, pc, fd, fd_out, retries>>
        /\ toServer \in Seq(Request)
    BY DEF Inv, TypeOK, client, server
  <1>2. /\ toServer' \in Seq(Request) /\ Len(toServer) \in Nat /\ Len(toServer') = Len(toServer) + 1
        /\ \A i \in 1 .. Len(toServer') :
              \/ i \in 1 .. Len(toServer) /\ toServer'[i] = toServer[i]
              \/ i = Len(toServer) + 1 /\ toServer'[i] = m
    BY <1>1, AppendProperties
  <1>3. m.type = "HELLO" \/ m.seq = seq
    BY DEF Inv, CurrentInv, IsReq
  <1>4. TypeOK' /\ FilesInv' /\ CurrentInv' /\ RepliesInv' /\ OpenedInv' /\ HeldHandlesOpen' /\ LineStaysOpen'
    BY <1>1, <1>2 DEF Inv, TypeOK, FilesInv, CurrentInv, RepliesInv, OpenedInv, HeldHandlesOpen,
                      LineStaysOpen, reply_fd
  <1>5. RequestsInv'
    BY <1>1, <1>2, <1>3 DEF Inv, RequestsInv, CurrentInv, IsReq
  <1>6. OpensInv'
    BY <1>1, <1>2 DEF Inv, OpensInv, CurrentInv, IsReq
  <1>7. AnsweredInv'
    BY <1>1, <1>2, <1>3 DEF Inv, AnsweredInv, IsReq
  <1>8. ClosesInv' /\ StartInv'
    BY <1>1, <1>2 DEF Inv, ClosesInv, Harmless, StartInv, IsReq
  <1>9. QED
    BY <1>4, <1>5, <1>6, <1>7, <1>8 DEF Inv

\* The next number differs from the last one.
LEMMA NextSeq ==
    ASSUME NEW k \in Seqs
    PROVE  (k + 1) % SeqMod \in Seqs /\ (k + 1) % SeqMod # k
  <1>1. SeqMod \in Nat /\ SeqMod >= 2 /\ k \in Nat /\ k < SeqMod
    BY ConstantFacts DEF Seqs
  <1>2. CASE k + 1 < SeqMod
    <2>1. (k + 1) % SeqMod = k + 1
      BY <1>1, <1>2
    <2>2. QED
      BY <2>1, <1>1, <1>2 DEF Seqs
  <1>3. CASE k + 1 = SeqMod
    <2>1. SeqMod % SeqMod = 0
      BY <1>1
    <2>2. QED
      BY <2>1, <1>1, <1>3 DEF Seqs
  <1>4. QED
    BY <1>1, <1>2, <1>3

\* A new request: nothing on the line has its number, because the answer to the
\* request before it has been accepted.
LEMMA CallKeepsInv ==
    ASSUME Inv, NEW c \in Calls[mode], NEW h \in Fds, client_call(c, h)
    PROVE  Inv'
  <1> DEFINE m == [c EXCEPT !.seq = (seq + 1) % SeqMod, !.handle = IF UsesHandle(c) THEN h ELSE 0]
  <1>1. /\ c \in Request /\ c.type # "HELLO" /\ (c.type = "OPEN" => c.path \in Paths)
    BY CallsAssumption DEF Inv, TypeOK
  <1>2. /\ ~waiting /\ waiting' = TRUE
        /\ IF UsesHandle(c) THEN held[h] # NoPath ELSE h = 3
        /\ UNCHANGED <<fds, disk, toClient, faults>> /\ UNCHANGED <<mode, pc, fd, fd_out, retries>>
        /\ seq' = m.seq /\ req' = m /\ toServer' = Append(toServer, m)
    BY DEF client_call, server
  <1>3. (seq + 1) % SeqMod \in Seqs /\ (seq + 1) % SeqMod # seq
    BY NextSeq DEF Inv, TypeOK
  <1>4. /\ m \in Request /\ m.type = c.type /\ m.path = c.path /\ m.seq # seq /\ m.seq \in Seqs
        /\ m.handle = IF UsesHandle(c) THEN h ELSE 0
    <2>1. (IF UsesHandle(c) THEN h ELSE 0) \in Int
      BY ConstantFacts
    <2>2. QED
      BY <1>1, <1>3, <2>1 DEF Request
  <1> HIDE DEF m
  <1>5. /\ toServer \in Seq(Request) /\ toClient \in Seq(Reply)
        /\ held \in [Fds -> Paths \cup {NoPath}]
        /\ known \in [Paths -> SUBSET (Nat \X Vals)]
    BY DEF Inv, TypeOK
  <1>6. /\ toServer' \in Seq(Request) /\ Len(toServer) \in Nat /\ Len(toServer') = Len(toServer) + 1
        /\ \A i \in 1 .. Len(toServer') :
              \/ i \in 1 .. Len(toServer) /\ toServer'[i] = toServer[i]
              \/ i = Len(toServer) + 1 /\ toServer'[i] = m
    BY <1>2, <1>4, <1>5, AppendProperties
  <1>7. /\ \A i \in 1 .. Len(toServer) : IsReq(toServer[i]) => toServer[i].seq = seq
        /\ \A i \in 1 .. Len(toClient) : toClient[i].seq = seq
    BY <1>2 DEF Inv, AnsweredInv
  <1>8. /\ held' \in [Fds -> Paths \cup {NoPath}]
        /\ \A f \in Fds : held'[f] # NoPath => held'[f] = held[f]
        /\ c.type = "CLOSE" => held'[h] = NoPath
        /\ c.type = "RESET" => \A f \in Fds : held'[f] = NoPath
    <2>1. CASE c.type = "CLOSE"
      BY <2>1, <1>5 DEF client_call
    <2>2. CASE c.type = "RESET"
      BY <2>2, <1>5 DEF client_call
    <2>3. CASE c.type # "CLOSE" /\ c.type # "RESET"
      BY <2>3, <1>5 DEF client_call
    <2>4. QED
      BY <2>1, <2>2, <2>3
  <1>9. known' \in [Paths -> SUBSET (Nat \X Vals)]
    <2>1. CASE c.type = "WRITE"
      <3>1. known' = [known EXCEPT ![held[h]] = {k \in known[held[h]] : ~Covers(m, k[1])}]
        BY <2>1 DEF client_call, m
      <3>2. held[h] \in Paths
        BY <2>1, <1>2, <1>5 DEF UsesHandle
      <3>3. QED
        BY <3>1, <3>2, <1>5
    <2>2. CASE c.type # "WRITE"
      BY <2>2, <1>5 DEF client_call
    <2>3. QED
      BY <2>1, <2>2
  <1>10. TypeOK'
    BY <1>2, <1>4, <1>6, <1>8, <1>9 DEF Inv, TypeOK
  <1>11. FilesInv' /\ LineStaysOpen' /\ HeldHandlesOpen'
    BY <1>2, <1>8 DEF Inv, FilesInv, LineStaysOpen, reply_fd, HeldHandlesOpen
  <1>12. CurrentInv' /\ OpensInv'
    BY <1>1, <1>2, <1>4, <1>6 DEF Inv, CurrentInv, OpensInv
  <1>13. RequestsInv'
    BY <1>2, <1>4, <1>6, <1>7 DEF RequestsInv, IsReq
  <1>14. RepliesInv' /\ AnsweredInv' /\ OpenedInv'
    BY <1>2, <1>4, <1>7 DEF RepliesInv, AnsweredInv, OpenedInv
  <1>15. ClosesInv'
    <2>1. \A i \in 1 .. Len(toServer) :
             /\ toServer[i].type = "CLOSE" /\ toServer[i].handle \in Fds =>
                  /\ held'[toServer[i].handle] = NoPath
                  /\ pc' = "loop" => fds'[toServer[i].handle].use # "link"
             /\ toServer[i].type = "RESET" => \A f \in Fds : held'[f] = NoPath
      BY <1>2, <1>8 DEF Inv, ClosesInv, Harmless
    <2>2. /\ m.type = "CLOSE" /\ m.handle \in Fds =>
               /\ held'[m.handle] = NoPath
               /\ pc' = "loop" => fds'[m.handle].use # "link"
          /\ m.type = "RESET" => \A f \in Fds : held'[f] = NoPath
      <3>1. c.type = "CLOSE" => m.handle = h /\ held[h] # NoPath
        BY <1>2, <1>4 DEF UsesHandle
      <3>2. QED
        BY <3>1, <1>2, <1>4, <1>8 DEF Inv, HeldHandlesOpen
    <2>3. QED
      BY <2>1, <2>2, <1>2, <1>6 DEF ClosesInv, Harmless
  <1>16. StartInv'
    BY <1>2, <1>4, <1>6, <1>8 DEF Inv, StartInv, UsesHandle
  <1>17. QED
    BY <1>10, <1>11, <1>12, <1>13, <1>14, <1>15, <1>16 DEF Inv

-----------------------------------------------------------------------------
(* The client accepts an answer.                                           *)

\* The client accepts an answer: the handle of an open is now held, the cells of
\* a write are now known.
LEMMA AcceptKeepsInv ==
    ASSUME Inv, client_accept
    PROVE  Inv'
  <1> DEFINE r == Head(toClient)
  <1>1. /\ toClient # <<>> /\ toClient' = Tail(toClient) /\ waiting /\ r.seq = seq /\ waiting' = FALSE
        /\ UNCHANGED <<fds, disk, faults, toServer, seq, req>> /\ UNCHANGED <<mode, pc, fd, fd_out, retries>>
    BY DEF client_accept, Accepted, server
  <1>2. /\ toClient \in Seq(Reply) /\ held \in [Fds -> Paths \cup {NoPath}] /\ req \in Request
        /\ known \in [Paths -> SUBSET (Nat \X Vals)]
    BY DEF Inv, TypeOK
  <1>3. /\ toClient' \in Seq(Reply) /\ r \in Reply /\ r = toClient[1] /\ 1 \in 1 .. Len(toClient)
        /\ Len(toClient) \in Nat
        /\ \A i \in 1 .. Len(toClient') : toClient'[i] = toClient[i + 1] /\ i + 1 \in 1 .. Len(toClient)
    BY <1>1, <1>2, TailFacts
  \* All that is left on the line, in both directions, is about this request.
  <1>4. /\ r.type = req.type /\ (req.type = "WRITE" => r.ret <= Len(req.data))
        /\ \A i \in 1 .. Len(toClient) : toClient[i].seq = seq
    BY <1>1, <1>3 DEF Inv, RepliesInv
  <1>5. \A i \in 1 .. Len(toServer) : IsReq(toServer[i]) => toServer[i].seq = seq /\ toServer[i] = req
    BY <1>1, <1>3 DEF Inv, AnsweredInv, RequestsInv
  <1>6. r.type = "OPEN" /\ r.handle # 0 =>
            /\ req.type = "OPEN" /\ req.path \in Paths /\ r.handle \in Fds
            /\ pc = "loop" => fds[r.handle].use = "file" /\ fds[r.handle].path = req.path
            /\ held' = [held EXCEPT ![r.handle] = req.path]
    BY <1>1, <1>3, <1>4 DEF Inv, OpenedInv, CurrentInv, client_accept
  <1>7. ~(r.type = "OPEN" /\ r.handle # 0) => held' = held
    BY DEF client_accept
  <1>8. held' \in [Fds -> Paths \cup {NoPath}]
    BY <1>2, <1>6, <1>7
  <1>9. known' \in [Paths -> SUBSET (Nat \X Vals)]
    <2>1. CASE r.type = "WRITE" /\ r.ret > 0
      <3> DEFINE new == {<<req.pos + j, req.data[j]>> : j \in 1 .. r.ret}
      <3>1. known' = [known EXCEPT ![held[req.handle]] = @ \cup new]
        BY <2>1 DEF client_accept
      <3>2. new \in SUBSET (Nat \X Vals)
        <4>1. r.ret \in Int /\ r.ret <= Len(req.data)
          BY <2>1, <1>3, <1>4 DEF Reply
        <4>2. req.pos \in Nat /\ req.data \in Seq(Vals) /\ Len(req.data) \in Nat
          BY <1>2 DEF Request
        <4>3. \A j \in 1 .. r.ret : req.pos + j \in Nat /\ req.data[j] \in Vals
          BY <4>1, <4>2, ElementOfSeq
        <4>4. QED
          BY <4>3
      <3> HIDE DEF new
      <3>3. QED
        BY <1>2, <3>1, <3>2
    <2>2. CASE ~(r.type = "WRITE" /\ r.ret > 0)
      BY <2>2, <1>2 DEF client_accept
    <2>3. QED
      BY <2>1, <2>2
  <1>10. TypeOK'
    BY <1>1, <1>3, <1>8, <1>9 DEF Inv, TypeOK
  <1>11. FilesInv' /\ CurrentInv' /\ RequestsInv' /\ OpensInv' /\ LineStaysOpen'
    BY <1>1 DEF Inv, FilesInv, CurrentInv, RequestsInv, OpensInv, LineStaysOpen, reply_fd, IsReq
  <1>12. RepliesInv' /\ OpenedInv'
    BY <1>1, <1>3, <1>4 DEF Inv, RepliesInv, OpenedInv
  <1>13. AnsweredInv'
    BY <1>1, <1>3, <1>4, <1>5 DEF AnsweredInv, IsReq
  <1>14. HeldHandlesOpen'
    BY <1>1, <1>2, <1>6, <1>7 DEF Inv, HeldHandlesOpen
  <1>15. ClosesInv'
    <2>1. CASE r.type = "OPEN" /\ r.handle # 0
      BY <2>1, <1>1, <1>5, <1>6 DEF ClosesInv, Harmless, IsReq
    <2>2. CASE ~(r.type = "OPEN" /\ r.handle # 0)
      BY <2>2, <1>1, <1>7 DEF Inv, ClosesInv, Harmless
    <2>3. QED
      BY <2>1, <2>2
  <1>16. StartInv'
    BY <1>1 DEF Inv, StartInv
  <1>17. QED
    BY <1>10, <1>11, <1>12, <1>13, <1>14, <1>15, <1>16 DEF Inv

-----------------------------------------------------------------------------
(* The line is opened.                                                     *)

\* Whatever connect_pipes and open_line do, they only make free descriptors
\* descriptors of the line.
LEMMA OpeningFacts ==
    ASSUME TypeOK, FilesInv, connect_pipes \/ (open_line /\ UNCHANGED fd_out)
    PROVE  /\ fds' \in [Fds -> Descriptor]
           /\ \A f \in Fds : fds'[f] = fds[f] \/ fds'[f] = Link
           /\ fd' \in Fds \cup {-1} /\ fd_out' \in Fds \cup {-1} /\ faults' \in Nat
  <1>1. fds \in [Fds -> Descriptor] /\ fd \in Fds \cup {-1} /\ fd_out \in Fds \cup {-1} /\ faults \in Nat
    BY DEF TypeOK, Descriptor
  <1>2. CASE open_line /\ UNCHANGED fd_out
    BY <1>1, <1>2, DescriptorFacts DEF open_line
  <1>3. CASE connect_pipes
    <2>1. CASE (faults' = faults \/ faults' = faults + 1) /\ fd' = -1 /\ UNCHANGED <<fds, fd_out>>
      BY <2>1, <1>1
    <2>2. ASSUME NEW i \in Fds, fd' = i, faults' = faults \/ faults' = faults + 1,
                 fds' = [fds EXCEPT ![i] = Link], fd_out' = -1
          PROVE  /\ fds' \in [Fds -> Descriptor]
                 /\ \A f \in Fds : fds'[f] = fds[f] \/ fds'[f] = Link
                 /\ fd' \in Fds \cup {-1} /\ fd_out' \in Fds \cup {-1} /\ faults' \in Nat
      BY <2>2, <1>1, DescriptorFacts
    <2>3. ASSUME NEW i \in Fds, NEW o \in Fds, fd' = i, fd_out' = o,
                 fds' = [fds EXCEPT ![i] = Link, ![o] = Link], UNCHANGED faults
          PROVE  /\ fds' \in [Fds -> Descriptor]
                 /\ \A f \in Fds : fds'[f] = fds[f] \/ fds'[f] = Link
                 /\ fd' \in Fds \cup {-1} /\ fd_out' \in Fds \cup {-1} /\ faults' \in Nat
      BY <2>3, <1>1, DescriptorFacts
    <2>4. QED
      BY <1>3, <2>1, <2>2, <2>3 DEF connect_pipes
  <1>4. QED
    BY <1>2, <1>3

\* dispatch() opens its line.
LEMMA StartKeepsInv ==
    ASSUME Inv, dispatch_start
    PROVE  Inv'
  <1>1. /\ pc = "start" /\ UNCHANGED <<mode, disk, toClient, toServer, retries>>
        /\ UNCHANGED <<seq, req, waiting, held, known>>
        /\ pc' = IF fd' = -1 \/ (mode = "PIPE" /\ fd_out' = -1) THEN "ended" ELSE "loop"
    BY DEF dispatch_start, client
  <1>2. /\ fds = [f \in Fds |-> Free] /\ toClient = <<>> /\ (\A h \in Fds : held[h] = NoPath)
        /\ req.type # "CLOSE" /\ (\A i \in 1 .. Len(toServer) : toServer[i].type # "CLOSE")
    BY <1>1 DEF Inv, StartInv
  <1>3. /\ fds' \in [Fds -> Descriptor]
        /\ \A f \in Fds : fds'[f] = fds[f] \/ fds'[f] = Link
        /\ fd' \in Fds \cup {-1} /\ fd_out' \in Fds \cup {-1} /\ faults' \in Nat
    BY OpeningFacts DEF Inv, dispatch_start, open_line
  <1>4. TypeOK'
    BY <1>1, <1>3 DEF Inv, TypeOK, Descriptor
  <1>5. FilesInv'
    BY <1>1, <1>3, DescriptorFacts DEF Inv, FilesInv
  <1>6. CurrentInv' /\ RequestsInv' /\ OpensInv' /\ RepliesInv' /\ AnsweredInv'
    BY <1>1 DEF Inv, CurrentInv, RequestsInv, OpensInv, RepliesInv, AnsweredInv, IsReq
  <1>7. OpenedInv' /\ HeldHandlesOpen'
    BY <1>1, <1>2 DEF OpenedInv, HeldHandlesOpen
  <1>8. ClosesInv'
    BY <1>1, <1>2 DEF ClosesInv, Harmless
  <1>9. StartInv'
    BY <1>1 DEF Inv, StartInv
  <1>10. LineStaysOpen'
    <2>1. ASSUME pc' = "loop", mode = "PIPE" PROVE fd_out' \in Fds /\ fds'[fd_out'] = Link
      <3>1. PICK i \in Fds, o \in Fds : fd_out' = o /\ fds' = [fds EXCEPT ![i] = Link, ![o] = Link]
        BY <2>1, <1>1 DEF dispatch_start, connect_pipes
      <3>2. QED
        BY <3>1, <1>2
    <2>2. ASSUME pc' = "loop", mode # "PIPE" PROVE fd' \in Fds /\ fds'[fd'] = Link
      BY <2>2, <1>1, <1>2 DEF dispatch_start, open_line
    <2>3. QED
      BY <1>1, <2>1, <2>2 DEF LineStaysOpen, reply_fd
  <1>11. QED
    BY <1>4, <1>5, <1>6, <1>7, <1>8, <1>9, <1>10 DEF Inv

\* dispatch() leaves its loop after a receive error, a pipe reopened or not.
LEMMA RecvErrorKeepsInv ==
    ASSUME Inv, dispatch_recv_error
    PROVE  Inv'
  <1>1. /\ pc = "loop" /\ pc' = "ended" /\ UNCHANGED <<mode, disk, toClient, toServer>>
        /\ UNCHANGED <<seq, req, waiting, held, known>>
        /\ retries' = retries \/ retries' = retries - 1
    BY DEF dispatch_recv_error, client
  <1>2. retries' \in Nat
    BY <1>1, BoundAssumption DEF Inv, TypeOK, StartInv
  <1>3. /\ fds' \in [Fds -> Descriptor]
        /\ \A f \in Fds : fds'[f] = fds[f] \/ fds'[f] = Link
        /\ fd' \in Fds \cup {-1} /\ fd_out' \in Fds \cup {-1} /\ faults' \in Nat
    <2>1. CASE connect_pipes
      BY <2>1, OpeningFacts DEF Inv
    <2>2. CASE UNCHANGED <<fds, fd, fd_out>> /\ (faults' = faults \/ faults' = faults + 1)
      BY <2>2 DEF Inv, TypeOK, Descriptor
    <2>3. QED
      <3>1. faults \in Nat /\ faults + 0 = faults
        BY DEF Inv, TypeOK
      <3>2. QED
        BY <2>1, <2>2, <3>1 DEF dispatch_recv_error
  <1>4. TypeOK'
    BY <1>1, <1>2, <1>3 DEF Inv, TypeOK, Descriptor
  <1>5. FilesInv'
    BY <1>1, <1>3, DescriptorFacts DEF Inv, FilesInv
  <1>6. CurrentInv' /\ RequestsInv' /\ OpensInv' /\ RepliesInv' /\ AnsweredInv'
    BY <1>1 DEF Inv, CurrentInv, RequestsInv, OpensInv, RepliesInv, AnsweredInv, IsReq
  <1>7. OpenedInv' /\ HeldHandlesOpen' /\ ClosesInv' /\ StartInv' /\ LineStaysOpen'
    BY <1>1 DEF Inv, OpenedInv, HeldHandlesOpen, ClosesInv, Harmless, StartInv, LineStaysOpen
  <1>8. QED
    BY <1>4, <1>5, <1>6, <1>7 DEF Inv

-----------------------------------------------------------------------------
(* The invariant, and what follows from it.                                *)

\* The request before the first one.
LEMMA NoCallType == NoCall \in Request /\ NoCall.type = "RESET" /\ NoCall.seq = 0
  BY ConstantFacts DEF NoCall, Request, MsgTypes

\* The invariant holds when dispatch() is called.
LEMMA InitInv == Init => Inv
  <1> SUFFICES ASSUME Init PROVE Inv
    OBVIOUS
  <1>1. NoCall \in Request
    BY NoCallType
  <1>2. NoCall.type = "RESET" /\ NoCall.seq = 0
    BY NoCallType
  <1>3. TypeOK
    <2>1. fds \in [Fds -> Descriptor]
      BY DescriptorFacts DEF Init
    <2>2. DOMAIN disk \subseteq Paths /\ disk \in [DOMAIN disk -> Seq(Vals)]
      BY DiskAssumption DEF Init
    <2>3. toClient \in Seq(Reply) /\ toServer \in Seq(Request)
      BY DEF Init
    <2>4. seq \in Seqs /\ req \in Request /\ waiting \in BOOLEAN /\ faults \in Nat /\ retries \in Nat
      BY <1>1, ConstantFacts, BoundAssumption DEF Init
    <2>5. held \in [Fds -> Paths \cup {NoPath}] /\ known \in [Paths -> SUBSET (Nat \X Vals)]
      BY DEF Init
    <2>6. mode \in Modes /\ pc \in {"start", "loop", "ended"} /\ fd \in Fds \cup {-1} /\ fd_out \in Fds \cup {-1}
      BY DEF Init
    <2>7. QED
      BY <2>1, <2>2, <2>3, <2>4, <2>5, <2>6 DEF TypeOK, Descriptor
  <1>4. FilesInv
    BY DescriptorFacts DEF Init, FilesInv
  <1>5. CurrentInv /\ RequestsInv /\ OpensInv /\ RepliesInv /\ AnsweredInv /\ OpenedInv
    BY <1>2 DEF Init, CurrentInv, RequestsInv, OpensInv, RepliesInv, AnsweredInv, OpenedInv
  <1>6. ClosesInv /\ StartInv /\ HeldHandlesOpen /\ LineStaysOpen
    BY <1>2 DEF Init, ClosesInv, Harmless, StartInv, HeldHandlesOpen, LineStaysOpen
  <1>7. QED
    BY <1>3, <1>4, <1>5, <1>6 DEF Inv

\* Every step of the dispatcher, the client and the line keeps the invariant.
LEMMA NextKeepsInv == Inv /\ [Next]_vars => Inv'
  <1> SUFFICES ASSUME Inv, [Next]_vars PROVE Inv'
    OBVIOUS
  <1>1. CASE dispatch_start
    BY <1>1, StartKeepsInv
  <1>2. CASE dispatch_message
    BY <1>2, DispatchMessageKeepsInv
  <1>3. CASE dispatch_recv_error
    BY <1>3, RecvErrorKeepsInv
  <1>4. CASE udp_hello
    <2> DEFINE m == [NoCall EXCEPT !.type = "HELLO"]
    <2>1. m \in Request /\ ~IsReq(m)
      BY NoCallType DEF Request, MsgTypes, IsReq
    <2>2. QED
      BY <1>4, <2>1, AppendRequestKeepsInv DEF udp_hello
  <1>5. ASSUME NEW c \in Calls[mode], NEW h \in Fds, client_call(c, h) PROVE Inv'
    BY <1>5, CallKeepsInv
  <1>6. CASE client_timeout
    BY <1>6, AppendRequestKeepsInv DEF client_timeout, Inv, TypeOK
  <1>7. CASE client_accept
    BY <1>7, AcceptKeepsInv
  <1>8. CASE client_discard
    BY <1>8, DropReplyKeepsInv DEF client_discard, Inv, TypeOK
  <1>9. CASE lose_request
    BY <1>9, DropRequestKeepsInv DEF lose_request, Inv, TypeOK
  <1>10. CASE lose_reply
    BY <1>10, DropReplyKeepsInv DEF lose_reply, Inv, TypeOK
  <1>11. CASE UNCHANGED vars
    BY <1>11 DEF vars, server, client, Inv, TypeOK, FilesInv, CurrentInv, RequestsInv, OpensInv, RepliesInv,
                 AnsweredInv, OpenedInv, ClosesInv, Harmless, StartInv, HeldHandlesOpen, LineStaysOpen,
                 reply_fd, IsReq
  <1>12. QED
    BY <1>1, <1>2, <1>3, <1>4, <1>5, <1>6, <1>7, <1>8, <1>9, <1>10, <1>11 DEF Next

\* Inv is an inductive invariant of the dispatcher with its client and line.
THEOREM Invariance == Spec => []Inv
  BY InitInv, NextKeepsInv, PTL DEF Spec

\* Every variable of dispatch(), the handlers, the client and the line keeps its
\* type: in particular no handler sends a reply outside of Reply, and retries
\* never becomes negative.
THEOREM TypeCorrect == Spec => []TypeOK
  <1>1. Inv => TypeOK
    BY DEF Inv
  <1>2. QED
    BY <1>1, Invariance, PTL

\* Handles that phfs_open gave out stay open for the file they were opened for
\* until the client gives them back, for every number of descriptors, paths,
\* messages on the line, losses and repetitions.
THEOREM HandlesStayOpen == Spec => []HeldHandlesOpen
  <1>1. Inv => HeldHandlesOpen
    BY DEF Inv
  <1>2. QED
    BY <1>1, Invariance, PTL

\* phfs_close and phfs_reset never close the descriptor that replies are sent
\* to.
THEOREM LineSafe == Spec => []LineStaysOpen
  <1>1. Inv => LineStaysOpen
    BY DEF Inv
  <1>2. QED
    BY <1>1, Invariance, PTL

\* The answer the client takes for the request it waits for is a handler's
\* answer to a request of that type.
THEOREM AnswersFit == Spec => AnswerFitsRequest
  <1>1. Inv /\ [Next]_vars => [client_accept => Head(toClient).type = req.type]_vars
    <2> SUFFICES ASSUME Inv, client_accept PROVE Head(toClient).type = req.type
      OBVIOUS
    <2>1. toClient # <<>> /\ Head(toClient).seq = seq /\ toClient \in Seq(Reply)
      BY DEF client_accept, Accepted, Inv, TypeOK
    <2>2. Head(toClient) = toClient[1] /\ 1 \in 1 .. Len(toClient)
      BY <2>1, TailFacts
    <2>3. QED
      BY <2>1, <2>2 DEF Inv, RepliesInv
  <1>2. QED
    BY <1>1, Invariance, PTL DEF Spec, AnswerFitsRequest

-----------------------------------------------------------------------------
(* The contents of the files: what was acknowledged as written stays       *)
(* written, what is read is current, and a reset leaves no file open.      *)
(* What is proved above about the order of the messages is strengthened by *)
(* what they say of the files: a write that may still be served again      *)
(* writes nothing but what the client knows to be there, and a reply to    *)
(* the current request is still true.                                      *)


\* The handle of the current read or write request is one the client holds.
HandleInv ==
    req.type \in {"READ", "WRITE"} => req.handle \in Fds /\ held[req.handle] # NoPath

\* Requests with another number than the current are all the same one.
LeftoverInv ==
    \A i, j \in 1 .. Len(toServer) :
        IsReq(toServer[i]) /\ toServer[i].seq # seq /\ IsReq(toServer[j]) /\ toServer[j].seq # seq
            => toServer[i] = toServer[j]

\* Serving m, if it is a write, leaves the cells the client knows as they are.
Agrees(m) ==
    m.type = "WRITE" /\ IsOpen(m.handle) =>
        \A k \in known[fds[m.handle].path] :
            Covers(m, k[1]) => Payload(m)[k[1] - m.pos] = k[2]

\* So it is for every request that is on the line or may be sent again.
WritesInv ==
    pc = "loop" => Agrees(req) /\ \A i \in 1 .. Len(toServer) : Agrees(toServer[i])

\* The first n cells of d are in the file f, behind pos.
Stored(f, pos, d, n) ==
    n <= Len(d) /\ \A j \in 1 .. n : pos + j <= Len(f) /\ f[pos + j] = d[j]

\* What an answer to the current write request acknowledges is in the file.
AckInv ==
    \A i \in 1 .. Len(toClient) :
        toClient[i].seq = seq /\ req.type = "WRITE" /\ toClient[i].ret > 0 =>
            /\ held[req.handle] \in DOMAIN disk
            /\ Stored(disk[held[req.handle]], req.pos, Payload(req), toClient[i].ret)

\* An answer to the current read request has what is in the file.
ReadInv ==
    \A i \in 1 .. Len(toClient) :
        toClient[i].seq = seq /\ req.type = "READ" /\ toClient[i].ret >= 0 =>
            toClient[i].data = Slice(disk[held[req.handle]], req.pos, Clamp(req.cnt))

\* When a reset was answered and is still current, no file is open.
ResetInv ==
    \A i \in 1 .. Len(toClient) :
        toClient[i].seq = seq /\ req.type = "RESET" => \A f \in Fds : fds[f].use # "file"

\* The cells of a file are numbered from 1.
KnownInv == \A p \in Paths : \A k \in known[p] : k[1] >= 1

DataInv == /\ HandleInv /\ LeftoverInv /\ WritesInv /\ AckInv /\ ReadInv /\ ResetInv
           /\ KnownInv /\ AckedWritesOnDisk

-----------------------------------------------------------------------------
(* Facts about the operators of Phfs.                                      *)

\* A cell after write(2): one of those written, or what was there before.
LEMMA OverwriteCells ==
    ASSUME NEW f \in Seq(Vals), NEW pos \in Nat, NEW d \in Seq(Vals), NEW i \in Nat, i >= 1
    PROVE  /\ i > pos /\ i <= pos + Len(d) =>
                 i <= Len(Overwrite(f, pos, d)) /\ Overwrite(f, pos, d)[i] = d[i - pos]
           /\ i <= Len(f) /\ ~(i > pos /\ i <= pos + Len(d)) =>
                 i <= Len(Overwrite(f, pos, d)) /\ Overwrite(f, pos, d)[i] = f[i]
  <1>1. CASE d = <<>>
    BY <1>1 DEF Overwrite
  <1>2. CASE d # <<>>
    <2> DEFINE n == MaxOf(Len(f), pos + Len(d))
               C(j) == IF j > pos /\ j <= pos + Len(d) THEN d[j - pos]
                       ELSE IF j <= Len(f) THEN f[j] ELSE Zero
    <2>1. n \in Nat /\ n >= Len(f) /\ n >= pos + Len(d)
      BY DEF MaxOf
    <2>2. Overwrite(f, pos, d) = [j \in 1 .. n |-> C(j)]
      BY <1>2 DEF Overwrite
    <2> HIDE DEF n, C
    <2>3. Len(Overwrite(f, pos, d)) = n
      BY <2>1, <2>2
    <2>4. i <= n => Overwrite(f, pos, d)[i] = C(i)
      BY <2>1, <2>2
    <2>5. QED
      BY <2>1, <2>3, <2>4 DEF C
  <1>3. QED
    BY <1>1, <1>2

Reached(pos, d, i) == i > pos /\ i <= pos + Len(d)

\* The cells that a write does not reach stay as they were.
LEMMA OverwriteKeeps ==
    ASSUME NEW f \in Seq(Vals), NEW pos \in Nat, NEW d \in Seq(Vals), NEW i \in Nat, i >= 1,
           i <= Len(f), ~Reached(pos, d, i)
    PROVE  i <= Len(Overwrite(f, pos, d)) /\ Overwrite(f, pos, d)[i] = f[i]
  BY OverwriteCells, SMTT(30) DEF Reached

\* A cell that was written.
LEMMA WrittenCell ==
    ASSUME NEW f \in Seq(Vals), NEW pos \in Nat, NEW d \in Seq(Vals), NEW i \in Nat,
           i > pos, i <= pos + Len(d)
    PROVE  i <= Len(Overwrite(f, pos, d)) /\ Overwrite(f, pos, d)[i] = d[i - pos]
  <1>1. i >= 1
    OBVIOUS
  <1>2. QED
    BY <1>1, OverwriteCells

\* What was written is in the file.
LEMMA WriteStores ==
    ASSUME NEW f \in Seq(Vals), NEW o \in Nat, NEW d \in Seq(Vals), NEW n \in Int, n <= Len(d)
    PROVE  Stored(Overwrite(f, o, d), o, d, n)
  <1>1. ASSUME NEW j \in 1 .. n
        PROVE  o + j <= Len(Overwrite(f, o, d)) /\ Overwrite(f, o, d)[o + j] = d[j]
    <2>1. o + j \in Nat /\ o + j > o /\ o + j <= o + Len(d) /\ (o + j) - o = j
      OBVIOUS
    <2>2. Overwrite(f, o, d)[o + j] = d[(o + j) - o] /\ o + j <= Len(Overwrite(f, o, d))
      BY <2>1, WrittenCell
    <2>3. QED
      BY <2>1, <2>2
  <1>2. QED
    BY <1>1 DEF Stored

\* The cells a write request carries, one by one.
LEMMA PayloadCells ==
    ASSUME NEW m \in Request, NEW j \in 1 .. Len(Payload(m))
    PROVE  Payload(m)[j] = m.data[j]
  <1>1. m.data \in Seq(Vals) /\ m.cnt \in Int
    BY DEF Request
  <1>2. Clamp(m.cnt) \in Nat
    BY <1>1, ClampType
  <1>3. MinOf(Clamp(m.cnt), Len(m.data)) \in Nat /\ MinOf(Clamp(m.cnt), Len(m.data)) <= Len(m.data)
    BY <1>1, <1>2 DEF MinOf
  <1>4. QED
    BY <1>1, <1>3 DEF Payload

-----------------------------------------------------------------------------
(* A request is served.                                                    *)

\* A write request that may be served later keeps its descriptor: no open takes
\* it, since the descriptor is in use while the request is current and nothing
\* but the request's own copies comes between.
LEMMA WriteHandleKept ==
    ASSUME Inv, HandleInv, LeftoverInv, pc = "loop", toServer # <<>>, IsReq(Head(toServer)),
           NEW r, Descriptors(Head(toServer), r),
           NEW w, w.type = "WRITE", w = req \/ \E i \in 1 .. Len(toServer) : w = toServer[i],
           IsOpen(w.handle)'
    PROVE  IsOpen(w.handle) /\ fds'[w.handle].path = fds[w.handle].path
  <1> PICK m : m = Head(toServer)
    OBVIOUS
  <1>1. toServer \in Seq(Request) /\ fds \in [Fds -> Descriptor]
    BY DEF Inv, TypeOK, Descriptor
  <1>2. m = toServer[1] /\ 1 \in 1 .. Len(toServer)
    BY <1>1, TailFacts
  <1>3. w.handle \in Fds /\ fds'[w.handle].use = "file"
    BY DEF IsOpen
  <1>4. CASE fds' = fds
    BY <1>4, <1>3 DEF IsOpen
  <1>5. CASE m.type = "OPEN" /\ r.handle \in Fds /\ fds[r.handle].use = "free"
             /\ fds' = [fds EXCEPT ![r.handle] = File(m.path, m.rw)]
    <2>1. w = req
      <3>1. PICK i \in 1 .. Len(toServer) : w = toServer[i] \/ w = req
        BY <1>2
      <3>2. CASE w = toServer[i] /\ w # req
        <4>1. IsReq(toServer[i]) /\ toServer[i].seq # seq
          BY <3>2 DEF Inv, RequestsInv, IsReq
        <4>2. toServer[1].seq # seq
          BY <4>1, <1>2 DEF Inv, RequestsInv
        <4>3. toServer[1] = toServer[i]
          BY <4>1, <4>2, <1>2 DEF LeftoverInv
        <4>4. QED
          BY <4>3, <3>2, <1>2, <1>5
      <3>3. QED
        BY <3>1, <3>2
    <2>2. fds[w.handle].use = "file"
      BY <2>1, <1>3 DEF HandleInv, Inv, HeldHandlesOpen
    <2>3. QED
      BY <2>2, <1>1, <1>3, <1>5 DEF IsOpen
  <1>6. CASE m.handle \in Fds /\ fds' = [fds EXCEPT ![m.handle] = Free]
    BY <1>6, <1>1, <1>3, DescriptorFacts DEF IsOpen
  <1>7. CASE fds' = [f \in Fds |-> IF f = reply_fd THEN fds[f] ELSE Free]
    BY <1>7, <1>1, <1>3, DescriptorFacts DEF IsOpen
  <1>8. QED
    BY <1>4, <1>5, <1>6, <1>7 DEF Descriptors

\* An acknowledged cell stays in its file while a request is served.
LEMMA ServeKeepsAcked ==
    ASSUME Inv, WritesInv, KnownInv, AckedWritesOnDisk, pc = "loop", toServer # <<>>,
           NEW r, Effect(Head(toServer), r), known' = known
    PROVE  AckedWritesOnDisk'
  <1> PICK m : m = Head(toServer)
    OBVIOUS
  <1>1. /\ toServer \in Seq(Request) /\ known \in [Paths -> SUBSET (Nat \X Vals)]
        /\ disk \in [DOMAIN disk -> Seq(Vals)] /\ FilesInv
    BY DEF Inv, TypeOK
  <1>2. m = toServer[1] /\ 1 \in 1 .. Len(toServer) /\ m \in Request
    BY <1>1, TailFacts
  <1> SUFFICES ASSUME NEW p \in Paths, NEW k \in known[p]
               PROVE  p \in DOMAIN disk' /\ k[1] <= Len(disk'[p]) /\ disk'[p][k[1]] = k[2]
    BY DEF AckedWritesOnDisk
  <1>3. p \in DOMAIN disk /\ k[1] <= Len(disk[p]) /\ disk[p][k[1]] = k[2]
    BY DEF AckedWritesOnDisk
  <1>4. k[1] \in Nat /\ k[1] >= 1
    BY <1>1 DEF KnownInv
  <1>5. CASE disk' = disk
    BY <1>5, <1>3
  <1>6. CASE \A x \in DOMAIN disk : x \in DOMAIN disk' /\ disk'[x] = disk[x]
    BY <1>6, <1>3
  <1>7. CASE /\ m.type = "WRITE" /\ IsOpen(m.handle)
             /\ disk' = [disk EXCEPT ![fds[m.handle].path] = Overwrite(@, m.pos, Payload(m))]
    <2> PICK q : q = fds[m.handle].path
      OBVIOUS
    <2> PICK d : d = Payload(m)
      OBVIOUS
    <2>1. q \in DOMAIN disk
      BY <1>7, <1>1 DEF IsOpen, FilesInv
    <2>2. CASE p # q
      BY <2>2, <1>3, <1>7
    <2>3. CASE p = q
      <3>1. d \in Seq(Vals) /\ m.pos \in Nat /\ disk[p] \in Seq(Vals) /\ Len(d) \in Nat
        <4>1. d \in Seq(Vals)
          BY <1>2, PayloadType
        <4>2. m.pos \in Nat /\ disk[p] \in Seq(Vals)
          BY <1>1, <1>2, <1>3 DEF Request
        <4>3. QED
          BY <4>1, <4>2
      <3>2. disk'[p] = Overwrite(disk[p], m.pos, d)
        BY <2>1, <2>3, <1>7
      <3>3. DOMAIN disk' = DOMAIN disk
        BY <1>7
      <3>4. CASE k[1] > m.pos /\ k[1] <= m.pos + Len(d)
        <4>1. d[k[1] - m.pos] = k[2]
          BY <3>4, <2>3, <1>2, <1>7 DEF WritesInv, Agrees, Covers
        <4>2. /\ k[1] <= Len(Overwrite(disk[p], m.pos, d))
              /\ Overwrite(disk[p], m.pos, d)[k[1]] = d[k[1] - m.pos]
          <5> PICK g, c, n : g = disk[p] /\ c = k[1] /\ n = m.pos
            OBVIOUS
          <5>1. g \in Seq(Vals) /\ c \in Nat /\ c >= 1 /\ n \in Nat /\ c > n /\ c <= n + Len(d)
            BY <3>1, <3>4, <1>4
          <5>2. c <= Len(Overwrite(g, n, d)) /\ Overwrite(g, n, d)[c] = d[c - n]
            BY <5>1, <3>1, OverwriteCells
          <5>3. QED
            BY <5>2
        <4>3. QED
          BY <4>1, <4>2, <3>2, <3>3, <1>3
      <3>5. CASE ~(k[1] > m.pos /\ k[1] <= m.pos + Len(d))
        <4>1. p \in DOMAIN disk /\ k[1] <= Len(disk[p]) /\ disk[p][k[1]] = k[2]
          BY <1>3 DEF AckedWritesOnDisk
        <4>2. /\ k[1] <= Len(Overwrite(disk[p], m.pos, d))
              /\ Overwrite(disk[p], m.pos, d)[k[1]] = disk[p][k[1]]
          <5>0. PICK g, c, n : g = disk[p] /\ c = k[1] /\ n = m.pos
            OBVIOUS
          <5>1. /\ g \in Seq(Vals) /\ c \in Nat /\ c >= 1 /\ n \in Nat /\ c <= Len(g)
                /\ ~Reached(n, d, c)
            BY <5>0, <3>1, <3>5, <1>4, <4>1 DEF Reached
          <5>2. c <= Len(Overwrite(g, n, d)) /\ Overwrite(g, n, d)[c] = g[c]
            BY <5>1, <3>1, OverwriteKeeps
          <5>3. QED
            BY <5>0, <5>2
        <4>3. QED
          BY <4>1, <4>2, <3>2, <3>3
      <3>6. QED
        BY <3>4, <3>5
    <2>4. QED
      BY <2>2, <2>3
  <1>8. QED
    BY <1>5, <1>6, <1>7 DEF Effect

\* What is known of the requests stays true while one is served.
LEMMA ServeKeepsRequests ==
    ASSUME Inv, HandleInv, LeftoverInv, WritesInv, pc = "loop",
           toServer # <<>>, toServer' = Tail(toServer), IsReq(Head(toServer)),
           NEW r, Descriptors(Head(toServer), r), UNCHANGED <<server, client>>
    PROVE  HandleInv' /\ LeftoverInv' /\ WritesInv'
  <1>1. /\ UNCHANGED <<seq, req, waiting, held, known>> /\ UNCHANGED <<mode, pc, fd, fd_out, retries>>
        /\ toServer \in Seq(Request)
    BY DEF Inv, TypeOK, client, server
  <1>2. \A i \in 1 .. Len(toServer') : toServer'[i] = toServer[i + 1] /\ i + 1 \in 1 .. Len(toServer)
    BY <1>1, TailFacts
  <1>3. HandleInv' /\ LeftoverInv'
    BY <1>1, <1>2 DEF HandleInv, LeftoverInv, IsReq
  <1>4. ASSUME NEW w, Agrees(w), w = req \/ \E i \in 1 .. Len(toServer) : w = toServer[i]
        PROVE  Agrees(w)'
    <2>1. CASE w.type = "WRITE" /\ IsOpen(w.handle)'
      <3>1. IsOpen(w.handle) /\ fds'[w.handle].path = fds[w.handle].path
        BY <2>1, <1>4, WriteHandleKept
      <3>2. QED
        BY <3>1, <2>1, <1>1, <1>4 DEF Agrees, Covers
    <2>2. CASE ~(w.type = "WRITE" /\ IsOpen(w.handle)')
      BY <2>2 DEF Agrees
    <2>3. QED
      BY <2>1, <2>2
  <1>5. Agrees(req)'
    <2> PICK w : w = req
      OBVIOUS
    <2>1. Agrees(w)'
      BY <1>4 DEF WritesInv
    <2>2. QED
      BY <2>1, <1>1
  <1>6. ASSUME NEW i \in 1 .. Len(toServer') PROVE Agrees(toServer[i])'
    <2> PICK w : w = toServer'[i]
      OBVIOUS
    <2>1. w = toServer[i + 1] /\ i + 1 \in 1 .. Len(toServer)
      BY <1>2
    <2>2. Agrees(w)'
      BY <2>1, <1>4 DEF WritesInv
    <2>3. QED
      BY <2>2
  <1>7. QED
    BY <1>3, <1>5, <1>6 DEF WritesInv

\* A reply to the current request that is on the line already: what is served
\* now is the same request again.  The reply just sent: it answers the current
\* request.
LEMMA ReplyOrigin ==
    ASSUME Inv, toServer # <<>>, toServer' = Tail(toServer), IsReq(Head(toServer)),
           NEW r, Replies(Head(toServer), r), Sent(Head(toServer), r), UNCHANGED client,
           NEW i \in 1 .. Len(toClient'), toClient'[i].seq = seq
    PROVE  /\ Head(toServer) = req
           /\ \/ i \in 1 .. Len(toClient) /\ toClient'[i] = toClient[i]
              \/ toClient'[i] = r
  <1>1. \/ i \in 1 .. Len(toClient) /\ toClient'[i] = toClient[i]
        \/ toClient'[i] = r /\ Head(toServer) = req
    BY ServeKeepsLine DEF Inv
  <1>2. Head(toServer) = toServer[1] /\ 1 \in 1 .. Len(toServer)
    BY TailFacts DEF Inv, TypeOK
  <1>3. CASE i \in 1 .. Len(toClient) /\ toClient'[i] = toClient[i]
    <2>1. toServer[1].seq = seq
      BY <1>2, <1>3 DEF Inv, AnsweredInv
    <2>2. QED
      BY <2>1, <1>2, <1>3 DEF Inv, RequestsInv
  <1>4. QED
    BY <1>1, <1>3

\* The file behind the current read or write request.
LEMMA CurrentFile ==
    ASSUME Inv, HandleInv, pc = "loop", req.type \in {"READ", "WRITE"}
    PROVE  /\ IsOpen(req.handle) /\ fds[req.handle].path = held[req.handle]
           /\ held[req.handle] \in DOMAIN disk /\ disk[held[req.handle]] \in Seq(Vals)
  <1>1. req.handle \in Fds /\ fds[req.handle].use = "file" /\ fds[req.handle].path = held[req.handle]
    BY DEF Inv, HandleInv, HeldHandlesOpen
  <1>2. QED
    BY <1>1 DEF IsOpen, Inv, FilesInv, TypeOK

\* What is acknowledged to the current write request is in the file after the
\* request was served once more, and after it was served the first time.
LEMMA ServeKeepsAcks ==
    ASSUME Inv, HandleInv, AckInv, pc = "loop", toServer # <<>>, toServer' = Tail(toServer),
           IsReq(Head(toServer)), NEW r, Replies(Head(toServer), r), Sent(Head(toServer), r),
           Effect(Head(toServer), r), UNCHANGED client
    PROVE  AckInv'
  <1>1. UNCHANGED <<seq, req, waiting, held, known>>
    BY DEF client
  <1> SUFFICES ASSUME NEW i \in 1 .. Len(toClient'), toClient'[i].seq = seq, req.type = "WRITE",
                      toClient'[i].ret > 0
               PROVE  /\ held[req.handle] \in DOMAIN disk'
                      /\ Stored(disk'[held[req.handle]], req.pos, Payload(req), toClient'[i].ret)
    BY <1>1 DEF AckInv
  <1> PICK n, f, q, d, o : /\ n = toClient'[i].ret /\ q = held[req.handle] /\ f = disk[q]
                           /\ d = Payload(req) /\ o = req.pos
    OBVIOUS
  <1>2. /\ Head(toServer) = req
        /\ \/ i \in 1 .. Len(toClient) /\ toClient'[i] = toClient[i]
           \/ toClient'[i] = r
    BY ReplyOrigin
  <1>3. IsOpen(req.handle) /\ fds[req.handle].path = q /\ q \in DOMAIN disk /\ f \in Seq(Vals)
    BY CurrentFile
  <1>4. d \in Seq(Vals) /\ Len(d) \in Nat /\ o \in Nat
    <2>1. req \in Request
      BY DEF Inv, TypeOK
    <2>2. d \in Seq(Vals)
      BY <2>1, PayloadType
    <2>3. QED
      BY <2>1, <2>2 DEF Request
  <1>5. n \in Int
    <2>1. toClient \in Seq(Reply)
      BY DEF Inv, TypeOK
    <2>2. CASE i \in 1 .. Len(toClient) /\ toClient'[i] = toClient[i]
      <3>1. toClient[i] \in Reply
        BY <2>1, <2>2, ElementOfSeq
      <3>2. QED
        BY <3>1, <2>2 DEF Reply
    <2>3. CASE toClient'[i] = r
      BY <2>3 DEF Replies, Reply
    <2>4. QED
      BY <1>2, <2>2, <2>3
  <1>6. CASE disk' = disk /\ r.ret < 0
    <2>1. i \in 1 .. Len(toClient) /\ toClient'[i] = toClient[i]
      BY <1>2, <1>5, <1>6 DEF Replies, Reply
    <2>2. QED
      BY <2>1, <1>6 DEF AckInv
  <1>7. CASE r.ret = Len(d) /\ disk' = [disk EXCEPT ![q] = Overwrite(f, o, d)]
    <2>1. n <= Len(d)
      BY <1>2, <1>4, <1>7 DEF AckInv, Stored
    <2>2. disk'[q] = Overwrite(f, o, d) /\ q \in DOMAIN disk'
      BY <1>3, <1>7
    <2>3. Stored(Overwrite(f, o, d), o, d, n)
      BY <2>1, <1>3, <1>4, <1>5, WriteStores
    <2>4. QED
      BY <2>1, <2>2, <2>3
  <1>8. QED
    BY <1>2, <1>3, <1>6, <1>7 DEF Effect

\* Answers to the current read and reset requests stay true.
LEMMA ServeKeepsAnswers ==
    ASSUME Inv, HandleInv, ReadInv, ResetInv, pc = "loop", toServer # <<>>, toServer' = Tail(toServer),
           IsReq(Head(toServer)), NEW r, Replies(Head(toServer), r), Sent(Head(toServer), r),
           Descriptors(Head(toServer), r), Effect(Head(toServer), r), UNCHANGED client
    PROVE  ReadInv' /\ ResetInv'
  <1>1. UNCHANGED <<seq, req, waiting, held, known>>
    BY DEF client
  <1>2. ASSUME NEW i \in 1 .. Len(toClient'), toClient'[i].seq = seq, req.type = "READ",
               toClient'[i].ret >= 0
        PROVE  toClient'[i].data = Slice(disk'[held[req.handle]], req.pos, Clamp(req.cnt))
    <2>1. /\ Head(toServer) = req
          /\ \/ i \in 1 .. Len(toClient) /\ toClient'[i] = toClient[i]
             \/ toClient'[i] = r
      BY <1>2, ReplyOrigin
    <2>2. disk' = disk
      BY <1>2, <2>1 DEF Effect
    <2>3. CASE i \in 1 .. Len(toClient) /\ toClient'[i] = toClient[i]
      BY <2>2, <2>3, <1>2 DEF ReadInv
    <2>4. CASE toClient'[i] = r
      <3>1. r.ret \in Int
        BY DEF Replies, Reply
      <3>2. r.data = Slice(Content(req.handle), req.pos, Clamp(req.cnt))
        BY <3>1, <2>1, <2>4, <1>2 DEF Effect
      <3>3. Content(req.handle) = disk[held[req.handle]]
        BY <1>2, CurrentFile DEF Content
      <3>4. QED
        BY <3>2, <3>3, <2>2, <2>4
    <2>5. QED
      BY <2>1, <2>3, <2>4
  <1>3. ASSUME NEW i \in 1 .. Len(toClient'), toClient'[i].seq = seq, req.type = "RESET", NEW f \in Fds
        PROVE  fds'[f].use # "file"
    <2>1. /\ Head(toServer) = req
          /\ \/ i \in 1 .. Len(toClient) /\ toClient'[i] = toClient[i]
             \/ toClient'[i] = r
      BY <1>3, ReplyOrigin
    <2>2. fds' = [g \in Fds |-> IF g = reply_fd THEN fds[g] ELSE Free]
      BY <2>1, <1>3 DEF Descriptors
    <2>3. fds[reply_fd] = Link
      BY DEF Inv, LineStaysOpen
    <2>4. QED
      BY <2>2, <2>3, DescriptorFacts
  <1>4. QED
    BY <1>1, <1>2, <1>3 DEF ReadInv, ResetInv

\* A served request, whatever its type, keeps the invariant.
LEMMA ServedKeepsData ==
    ASSUME Inv, DataInv, pc = "loop", toServer # <<>>, toServer' = Tail(toServer),
           IsReq(Head(toServer)), Served(Head(toServer)), UNCHANGED <<server, client>>
    PROVE  DataInv'
  <1>1. PICK r : /\ Replies(Head(toServer), r) /\ Sent(Head(toServer), r)
                 /\ Descriptors(Head(toServer), r) /\ Effect(Head(toServer), r)
    BY DEF Served
  <1>2. UNCHANGED client /\ known' = known
    BY DEF client
  <1>3. HandleInv' /\ LeftoverInv' /\ WritesInv'
    BY <1>1, ServeKeepsRequests DEF DataInv
  <1>4. AckedWritesOnDisk'
    BY <1>1, <1>2, ServeKeepsAcked DEF DataInv
  <1>5. AckInv'
    BY <1>1, <1>2, ServeKeepsAcks DEF DataInv
  <1>6. ReadInv' /\ ResetInv'
    BY <1>1, <1>2, ServeKeepsAnswers DEF DataInv
  <1>7. KnownInv'
    BY <1>2 DEF DataInv, KnownInv
  <1>8. QED
    BY <1>3, <1>4, <1>5, <1>6, <1>7 DEF DataInv

-----------------------------------------------------------------------------
(* The other steps.                                                        *)

\* A step that touches neither the files nor the client, opens no file, puts
\* nothing on the line but a HELLO or the current request, and no reply.
LEMMA LineKeepsData ==
    ASSUME Inv, DataInv, UNCHANGED disk, UNCHANGED client,
           \A f \in Fds : fds'[f].use = "file" => fds'[f] = fds[f] /\ (pc' = "loop" => pc = "loop"),
           \A i \in 1 .. Len(toServer') :
               \/ ~IsReq(toServer'[i]) \/ toServer'[i] = req
               \/ \E j \in 1 .. Len(toServer) : toServer'[i] = toServer[j],
           \A i \in 1 .. Len(toClient') : \E j \in 1 .. Len(toClient) : toClient'[i] = toClient[j]
    PROVE  DataInv'
  <1>1. UNCHANGED <<seq, req, waiting, held, known>>
    BY DEF client
  <1>2. req.seq = seq
    BY DEF Inv, CurrentInv
  <1>3. HandleInv' /\ KnownInv' /\ AckedWritesOnDisk'
    BY <1>1 DEF DataInv, HandleInv, KnownInv, AckedWritesOnDisk
  <1>4. LeftoverInv'
    <2> SUFFICES ASSUME NEW i \in 1 .. Len(toServer'), NEW j \in 1 .. Len(toServer'),
                        IsReq(toServer'[i]), toServer'[i].seq # seq,
                        IsReq(toServer'[j]), toServer'[j].seq # seq
                 PROVE  toServer'[i] = toServer'[j]
      BY <1>1 DEF LeftoverInv, IsReq
    <2>1. PICK a \in 1 .. Len(toServer) : toServer'[i] = toServer[a]
      BY <1>2
    <2>2. PICK b \in 1 .. Len(toServer) : toServer'[j] = toServer[b]
      BY <1>2
    <2>3. QED
      BY <2>1, <2>2 DEF DataInv, LeftoverInv
  <1>5. WritesInv'
    <2>1. ASSUME NEW w, pc' = "loop", pc = "loop" => Agrees(w) PROVE Agrees(w)'
      <3>1. CASE w.type = "WRITE" /\ IsOpen(w.handle)'
        <4>1. IsOpen(w.handle) /\ fds'[w.handle] = fds[w.handle] /\ pc = "loop"
          BY <2>1, <3>1 DEF IsOpen
        <4>2. QED
          BY <4>1, <2>1, <1>1 DEF Agrees, Covers
      <3>2. CASE ~(w.type = "WRITE" /\ IsOpen(w.handle)')
        BY <3>2 DEF Agrees
      <3>3. QED
        BY <3>1, <3>2
    <2>2. ASSUME pc' = "loop" PROVE Agrees(req)'
      <3> PICK w : w = req
        OBVIOUS
      <3>1. Agrees(w)'
        BY <2>1, <2>2 DEF DataInv, WritesInv
      <3>2. QED
        BY <3>1, <1>1
    <2>3. ASSUME pc' = "loop", NEW i \in 1 .. Len(toServer') PROVE Agrees(toServer[i])'
      <3> PICK w : w = toServer'[i]
        OBVIOUS
      <3>1. pc = "loop" => Agrees(w)
        <4>1. CASE ~IsReq(w)
          BY <4>1 DEF Agrees, IsReq
        <4>2. CASE w = req \/ \E j \in 1 .. Len(toServer) : w = toServer[j]
          BY <4>2 DEF DataInv, WritesInv
        <4>3. QED
          BY <4>1, <4>2
      <3>2. Agrees(w)'
        BY <3>1, <2>1, <2>3
      <3>3. QED
        BY <3>2
    <2>4. QED
      BY <2>2, <2>3 DEF WritesInv
  <1>6. AckInv'
    <2> SUFFICES ASSUME NEW i \in 1 .. Len(toClient'), toClient'[i].seq = seq, req.type = "WRITE",
                        toClient'[i].ret > 0
                 PROVE  /\ held[req.handle] \in DOMAIN disk
                        /\ Stored(disk[held[req.handle]], req.pos, Payload(req), toClient'[i].ret)
      BY <1>1 DEF AckInv
    <2>1. PICK j \in 1 .. Len(toClient) : toClient'[i] = toClient[j]
      OBVIOUS
    <2>2. QED
      BY <2>1 DEF DataInv, AckInv
  <1>7. ReadInv'
    <2> SUFFICES ASSUME NEW i \in 1 .. Len(toClient'), toClient'[i].seq = seq, req.type = "READ",
                        toClient'[i].ret >= 0
                 PROVE  toClient'[i].data = Slice(disk[held[req.handle]], req.pos, Clamp(req.cnt))
      BY <1>1 DEF ReadInv
    <2>1. PICK j \in 1 .. Len(toClient) : toClient'[i] = toClient[j]
      OBVIOUS
    <2>2. QED
      BY <2>1 DEF DataInv, ReadInv
  <1>8. ResetInv'
    <2> SUFFICES ASSUME NEW i \in 1 .. Len(toClient'), toClient'[i].seq = seq, req.type = "RESET",
                        NEW f \in Fds
                 PROVE  fds'[f].use # "file"
      BY <1>1 DEF ResetInv
    <2>1. PICK j \in 1 .. Len(toClient) : toClient'[i] = toClient[j]
      OBVIOUS
    <2>2. QED
      BY <2>1 DEF DataInv, ResetInv
  <1>9. QED
    BY <1>3, <1>4, <1>5, <1>6, <1>7, <1>8 DEF DataInv

\* One turn of dispatch()'s loop.
LEMMA DispatchKeepsData ==
    ASSUME Inv, DataInv, dispatch_message
    PROVE  DataInv'
  <1>1. /\ pc = "loop" /\ toServer # <<>> /\ toServer' = Tail(toServer) /\ UNCHANGED <<server, client>>
    BY DEF dispatch_message
  <1>2. CASE Served(Head(toServer)) /\ IsReq(Head(toServer))
    BY <1>1, <1>2, ServedKeepsData
  <1>3. CASE UNCHANGED <<fds, disk, faults, toClient>>
    <2>1. \A i \in 1 .. Len(toServer') : \E j \in 1 .. Len(toServer) : toServer'[i] = toServer[j]
      BY <1>1, TailFacts DEF Inv, TypeOK
    <2>2. UNCHANGED client /\ pc' = pc
      BY <1>1 DEF client, server
    <2>3. QED
      BY <2>1, <2>2, <1>1, <1>3, LineKeepsData
  <1>4. QED
    BY <1>2, <1>3, DispatchServes

\* The cells a new write request covers are no longer known, so that it may be
\* served at any time; nothing on the line answers the new request.
LEMMA CallKeepsData ==
    ASSUME Inv, DataInv, NEW c \in Calls[mode], NEW h \in Fds, client_call(c, h)
    PROVE  DataInv'
  <1> DEFINE n == [c EXCEPT !.seq = (seq + 1) % SeqMod, !.handle = IF UsesHandle(c) THEN h ELSE 0]
  <1> PICK m : m = n
    OBVIOUS
  <1>1. c \in Request
    BY CallsAssumption DEF Inv, TypeOK
  <1>2. /\ ~waiting /\ UNCHANGED <<fds, disk, toClient>> /\ UNCHANGED <<mode, pc, fd, fd_out, retries>>
        /\ IF UsesHandle(c) THEN held[h] # NoPath ELSE h = 3
        /\ seq' = m.seq /\ req' = m /\ toServer' = Append(toServer, m)
    BY DEF client_call, server
  <1>3. (seq + 1) % SeqMod \in Seqs /\ (seq + 1) % SeqMod # seq
    BY NextSeq DEF Inv, TypeOK
  <1>4. /\ m.type = c.type /\ m.seq # seq
        /\ m.handle = IF UsesHandle(c) THEN h ELSE 0
    BY <1>1, <1>3 DEF Request
  <1>5. /\ toServer \in Seq(Request) /\ toClient \in Seq(Reply)
        /\ held \in [Fds -> Paths \cup {NoPath}]
        /\ known \in [Paths -> SUBSET (Nat \X Vals)]
        /\ fds \in [Fds -> Descriptor]
    BY DEF Inv, TypeOK, Descriptor
  <1>6. /\ \A i \in 1 .. Len(toServer) : IsReq(toServer[i]) => toServer[i].seq = seq /\ toServer[i] = req
        /\ \A i \in 1 .. Len(toClient) : toClient[i].seq = seq
    BY <1>2 DEF Inv, AnsweredInv, RequestsInv
  <1>7. m \in Request
    <2>1. (IF UsesHandle(c) THEN h ELSE 0) \in Int
      BY ConstantFacts
    <2>2. QED
      BY <1>1, <1>3, <2>1 DEF Request
  <1>8. \A i \in 1 .. Len(toServer') :
            \/ i \in 1 .. Len(toServer) /\ toServer'[i] = toServer[i]
            \/ toServer'[i] = m
    BY <1>2, <1>5, <1>7, AppendProperties
  \* No file has more known cells than before.
  <1>9. ASSUME NEW p \in Paths PROVE known'[p] \subseteq known[p]
    <2>1. CASE c.type = "WRITE"
      <3>1. known' = [known EXCEPT ![held[h]] = {k \in known[held[h]] : ~Covers(m, k[1])}]
        BY <2>1 DEF client_call
      <3>2. QED
        BY <3>1, <1>5
    <2>2. CASE c.type # "WRITE"
      BY <2>2 DEF client_call
    <2>3. QED
      BY <2>1, <2>2
  <1>10. KnownInv' /\ AckedWritesOnDisk'
    BY <1>2, <1>9 DEF DataInv, KnownInv, AckedWritesOnDisk
  <1>11. HandleInv'
    <2>1. CASE c.type \in {"READ", "WRITE"}
      <3>1. UsesHandle(c) /\ held' = held
        BY <2>1 DEF UsesHandle, client_call
      <3>2. QED
        BY <3>1, <2>1, <1>2, <1>4 DEF HandleInv
    <2>2. CASE c.type \notin {"READ", "WRITE"}
      BY <2>2, <1>2, <1>4 DEF HandleInv
    <2>3. QED
      BY <2>1, <2>2
  <1>12. LeftoverInv'
    BY <1>2, <1>6, <1>8 DEF LeftoverInv, IsReq
  <1>13. ASSUME NEW w, pc = "loop", Agrees(w) PROVE Agrees(w)'
    <2>1. CASE w.type = "WRITE" /\ IsOpen(w.handle)'
      <3>1. IsOpen(w.handle) /\ fds'[w.handle] = fds[w.handle]
        BY <2>1, <1>2 DEF IsOpen
      <3>2. CASE fds[w.handle].path \in Paths
        <4>1. known'[fds[w.handle].path] \subseteq known[fds[w.handle].path]
          BY <3>2, <1>9
        <4>2. QED
          BY <4>1, <3>1, <2>1, <1>13 DEF Agrees, Covers
      <3>3. fds[w.handle].path \in Paths
        BY <3>1 DEF Inv, FilesInv, TypeOK, IsOpen
      <3>4. QED
        BY <3>2, <3>3
    <2>2. CASE ~(w.type = "WRITE" /\ IsOpen(w.handle)')
      BY <2>2 DEF Agrees
    <2>3. QED
      BY <2>1, <2>2
  <1>14. ASSUME pc = "loop" PROVE Agrees(m)'
    <2>1. CASE m.type = "WRITE"
      <3>1. m.handle = h /\ held[h] # NoPath /\ held[h] \in Paths
        BY <2>1, <1>2, <1>4, <1>5 DEF UsesHandle
      <3>2. fds'[h].path = held[h]
        BY <3>1, <1>2, <1>14 DEF Inv, HeldHandlesOpen
      <3>3. known' = [known EXCEPT ![held[h]] = {k \in known[held[h]] : ~Covers(m, k[1])}]
        BY <2>1, <1>4 DEF client_call
      <3>4. known'[held[h]] = {k \in known[held[h]] : ~Covers(m, k[1])}
        BY <3>1, <3>3, <1>5
      <3>5. QED
        BY <3>1, <3>2, <3>4 DEF Agrees, Covers
    <2>2. CASE m.type # "WRITE"
      BY <2>2 DEF Agrees
    <2>3. QED
      BY <2>1, <2>2
  <1>15. WritesInv'
    <2>1. ASSUME pc = "loop", NEW i \in 1 .. Len(toServer') PROVE Agrees(toServer[i])'
      <3> PICK w : w = toServer'[i]
        OBVIOUS
      <3>1. CASE w = m
        BY <3>1, <2>1, <1>14
      <3>2. CASE i \in 1 .. Len(toServer) /\ w = toServer[i]
        <4>1. Agrees(w)
          BY <3>2, <2>1 DEF DataInv, WritesInv
        <4>2. Agrees(w)'
          BY <4>1, <2>1, <1>13
        <4>3. QED
          BY <4>2
      <3>3. QED
        BY <3>1, <3>2, <1>8
    <2>2. ASSUME pc = "loop" PROVE Agrees(req)'
      BY <2>2, <1>2, <1>14
    <2>3. QED
      BY <2>1, <2>2, <1>2 DEF WritesInv
  <1>16. AckInv' /\ ReadInv' /\ ResetInv'
    BY <1>2, <1>4, <1>6 DEF AckInv, ReadInv, ResetInv
  <1>17. QED
    BY <1>10, <1>11, <1>12, <1>15, <1>16 DEF DataInv

\* The client accepts an answer: the cells it now knows are in the file, and the
\* copies of the request that are still on the line write the same once more.
LEMMA AcceptKeepsData ==
    ASSUME Inv, DataInv, client_accept
    PROVE  DataInv'
  <1> PICK r, q, d : r = Head(toClient) /\ q = held[req.handle] /\ d = Payload(req)
    OBVIOUS
  <1>1. /\ toClient # <<>> /\ toClient' = Tail(toClient) /\ waiting /\ r.seq = seq
        /\ UNCHANGED <<fds, disk, toServer, seq, req>> /\ UNCHANGED <<mode, pc, fd, fd_out, retries>>
    BY DEF client_accept, Accepted, server
  <1>2. /\ toClient \in Seq(Reply) /\ held \in [Fds -> Paths \cup {NoPath}] /\ req \in Request
        /\ known \in [Paths -> SUBSET (Nat \X Vals)]
    BY DEF Inv, TypeOK
  <1>3. /\ r \in Reply /\ r = toClient[1] /\ 1 \in 1 .. Len(toClient)
        /\ \A i \in 1 .. Len(toClient') : toClient'[i] = toClient[i + 1] /\ i + 1 \in 1 .. Len(toClient)
    BY <1>1, <1>2, TailFacts
  <1>4. r.type = req.type
    BY <1>1, <1>3 DEF Inv, RepliesInv
  <1>5. \A i \in 1 .. Len(toServer) : IsReq(toServer[i]) => toServer[i].seq = seq /\ toServer[i] = req
    BY <1>1, <1>3 DEF Inv, AnsweredInv, RequestsInv
  <1>6. req.type # "OPEN" => held' = held
    BY <1>4 DEF client_accept
  <1>7. /\ req.pos \in Nat /\ r.ret \in Int /\ d \in Seq(Vals)
        /\ \A j \in 1 .. Len(d) : d[j] = req.data[j]
    BY <1>2, <1>3, PayloadType, PayloadCells DEF Request, Reply
  \* A cell that is new to the client was acknowledged by this reply.
  <1>8. ASSUME NEW p \in Paths, NEW k \in known'[p], k \notin known[p]
        PROVE  /\ req.type = "WRITE" /\ r.ret > 0 /\ p = q /\ q \in DOMAIN disk
               /\ Stored(disk[q], req.pos, d, r.ret)
               /\ \E j \in 1 .. r.ret : k = <<req.pos + j, req.data[j]>>
    <2>1. r.type = "WRITE" /\ r.ret > 0
      BY <1>8 DEF client_accept
    <2>2. known' = [known EXCEPT ![q] = @ \cup {<<req.pos + j, req.data[j]>> : j \in 1 .. r.ret}]
      BY <2>1 DEF client_accept
    <2>3. p = q
      BY <2>2, <1>2, <1>8
    <2>4. known'[q] = known[q] \cup {<<req.pos + j, req.data[j]>> : j \in 1 .. r.ret}
      BY <2>2, <2>3, <1>2
    <2>5. \E j \in 1 .. r.ret : k = <<req.pos + j, req.data[j]>>
      BY <2>3, <2>4, <1>8
    <2>6. q \in DOMAIN disk /\ Stored(disk[q], req.pos, d, r.ret)
      BY <2>1, <1>1, <1>3, <1>4 DEF DataInv, AckInv
    <2>7. QED
      BY <2>1, <2>3, <2>5, <2>6, <1>4
  <1>9. ASSUME NEW p \in Paths, NEW k \in known'[p], k \notin known[p]
        PROVE  /\ req.type = "WRITE" /\ p = q /\ q \in DOMAIN disk
               /\ k[1] >= 1 /\ k[1] - req.pos \in 1 .. Len(d) /\ d[k[1] - req.pos] = k[2]
               /\ k[1] <= Len(disk[q]) /\ disk[q][k[1]] = k[2]
    <2>1. PICK j \in 1 .. r.ret : k = <<req.pos + j, req.data[j]>>
      BY <1>8, <1>9
    <2>2. r.ret <= Len(d) /\ req.pos + j <= Len(disk[q]) /\ disk[q][req.pos + j] = d[j]
      BY <1>8, <1>9 DEF Stored
    <2>3. j \in 1 .. Len(d) /\ d[j] = req.data[j]
      BY <2>2, <1>7
    <2>4. k[1] = req.pos + j /\ k[2] = req.data[j] /\ k[1] - req.pos = j /\ k[1] >= 1
      BY <2>1, <1>7
    <2>5. QED
      BY <2>2, <2>3, <2>4, <1>8, <1>9
  <1>10. KnownInv'
    BY <1>9 DEF DataInv, KnownInv
  <1>11. AckedWritesOnDisk'
    BY <1>1, <1>9 DEF DataInv, AckedWritesOnDisk
  <1>12. HandleInv'
    BY <1>1, <1>6 DEF DataInv, HandleInv
  <1>13. LeftoverInv'
    BY <1>1 DEF DataInv, LeftoverInv, IsReq
  <1>14. ASSUME pc = "loop" PROVE Agrees(req)'
    <2> SUFFICES ASSUME req.type = "WRITE", IsOpen(req.handle),
                        NEW k \in known'[fds[req.handle].path], Covers(req, k[1])
                 PROVE  d[k[1] - req.pos] = k[2]
      BY <1>1 DEF Agrees, IsOpen, Covers
    <2>1. fds[req.handle].path \in Paths
      BY DEF Inv, FilesInv, TypeOK, IsOpen
    <2>2. CASE k \in known[fds[req.handle].path]
      BY <2>2, <1>14 DEF DataInv, WritesInv, Agrees
    <2>3. CASE k \notin known[fds[req.handle].path]
      BY <2>1, <2>3, <1>9
    <2>4. QED
      BY <2>2, <2>3
  <1>15. WritesInv'
    <2>1. ASSUME pc = "loop", NEW i \in 1 .. Len(toServer) PROVE Agrees(toServer[i])'
      <3>1. CASE ~IsReq(toServer[i])
        BY <3>1, <1>1 DEF Agrees, IsReq
      <3>2. CASE toServer[i] = req
        <4>1. toServer'[i] = req'
          BY <3>2, <1>1
        <4>2. QED
          BY <4>1, <2>1, <1>14
      <3>3. QED
        BY <3>1, <3>2, <1>5
    <2>2. QED
      BY <2>1, <1>1, <1>14 DEF WritesInv
  <1>16. AckInv' /\ ReadInv'
    BY <1>1, <1>3, <1>6 DEF DataInv, AckInv, ReadInv
  <1>17. ResetInv'
    BY <1>1, <1>3 DEF DataInv, ResetInv
  <1>18. QED
    BY <1>10, <1>11, <1>12, <1>13, <1>15, <1>16, <1>17 DEF DataInv

-----------------------------------------------------------------------------
(* The invariant, and what follows from it.                                *)

\* The invariant holds when dispatch() is called.
LEMMA InitData == Init => DataInv
  BY NoCallType DEF Init, DataInv, HandleInv, LeftoverInv, WritesInv, AckInv, ReadInv, ResetInv,
                    KnownInv, AckedWritesOnDisk

\* Every step of the dispatcher, the client and the line keeps the invariant.
LEMMA NextKeepsData == Inv /\ DataInv /\ [Next]_vars => DataInv'
  <1> SUFFICES ASSUME Inv, DataInv, [Next]_vars PROVE DataInv'
    OBVIOUS
  <1> DEFINE Old == \A i \in 1 .. Len(toServer') :
                       \/ ~IsReq(toServer'[i]) \/ toServer'[i] = req
                       \/ \E j \in 1 .. Len(toServer) : toServer'[i] = toServer[j]
             Fewer == \A i \in 1 .. Len(toClient') : \E j \in 1 .. Len(toClient) : toClient'[i] = toClient[j]
  <1>1. toServer' = toServer => Old
    OBVIOUS
  <1>2. toClient' = toClient => Fewer
    OBVIOUS
  <1>3. ASSUME NEW m \in Request, ~IsReq(m) \/ m = req, toServer' = Append(toServer, m) PROVE Old
    <2>1. toServer \in Seq(Request)
      BY DEF Inv, TypeOK
    <2>2. \A i \in 1 .. Len(toServer') :
              \/ i \in 1 .. Len(toServer) /\ toServer'[i] = toServer[i]
              \/ toServer'[i] = m
      BY <1>3, <2>1, AppendProperties
    <2>3. QED
      BY <1>3, <2>2
  <1>4. toServer # <<>> /\ toServer' = Tail(toServer) => Old
    BY TailFacts DEF Inv, TypeOK
  <1>5. toClient # <<>> /\ toClient' = Tail(toClient) => Fewer
    BY TailFacts DEF Inv, TypeOK
  <1> HIDE DEF Old, Fewer
  <1>6. ASSUME Old, Fewer, UNCHANGED <<fds, disk, server, client>> PROVE DataInv'
    <2>1. UNCHANGED client /\ pc' = pc
      BY <1>6 DEF client, server
    <2>2. QED
      BY <2>1, <1>6, LineKeepsData DEF Old, Fewer
  <1>7. CASE dispatch_start
    <2>1. /\ UNCHANGED <<disk, toClient, toServer, client>>
          /\ pc = "start" /\ fds = [f \in Fds |-> Free]
      BY <1>7 DEF dispatch_start, Inv, StartInv
    <2>2. \A f \in Fds : fds'[f] = fds[f] \/ fds'[f] = Link
      BY <1>7, OpeningFacts DEF Inv, dispatch_start, open_line
    <2>3. \A f \in Fds : fds'[f].use # "file"
      BY <2>1, <2>2, DescriptorFacts
    <2>4. QED
      BY <2>1, <2>3, <1>1, <1>2, LineKeepsData DEF Old, Fewer, client
  <1>8. CASE dispatch_recv_error
    <2>1. UNCHANGED <<disk, toClient, toServer, client>> /\ pc' = "ended"
      BY <1>8 DEF dispatch_recv_error
    <2>2. \A f \in Fds : fds'[f] = fds[f] \/ fds'[f] = Link
      BY <1>8, OpeningFacts DEF Inv, dispatch_recv_error
    <2>3. QED
      BY <2>1, <2>2, <1>1, <1>2, DescriptorFacts, LineKeepsData DEF Old, Fewer, client
  <1>9. CASE dispatch_message
    BY <1>9, DispatchKeepsData
  <1>10. CASE udp_hello
    <2> PICK m : m = [NoCall EXCEPT !.type = "HELLO"]
      OBVIOUS
    <2>1. m \in Request /\ ~IsReq(m)
      BY NoCallType DEF Request, MsgTypes, IsReq
    <2>2. QED
      BY <1>10, <2>1, <1>2, <1>3, <1>6 DEF udp_hello
  <1>11. ASSUME NEW c \in Calls[mode], NEW h \in Fds, client_call(c, h) PROVE DataInv'
    BY <1>11, CallKeepsData
  <1>12. CASE client_timeout
    <2> PICK m : m = req
      OBVIOUS
    <2>1. m \in Request
      BY DEF Inv, TypeOK
    <2>2. QED
      BY <1>12, <2>1, <1>2, <1>3, <1>6 DEF client_timeout
  <1>13. CASE client_accept
    BY <1>13, AcceptKeepsData
  <1>14. CASE client_discard
    BY <1>14, <1>1, <1>5, <1>6 DEF client_discard
  <1>15. CASE lose_request
    BY <1>15, <1>2, <1>4, <1>6 DEF lose_request
  <1>16. CASE lose_reply
    BY <1>16, <1>1, <1>5, <1>6 DEF lose_reply
  <1>17. CASE UNCHANGED vars
    BY <1>17, <1>1, <1>2, <1>6 DEF vars
  <1>18. QED
    BY <1>7, <1>8, <1>9, <1>10, <1>11, <1>12, <1>13, <1>14, <1>15, <1>16, <1>17 DEF Next

\* DataInv, with Inv, is an inductive invariant of the dispatcher with its client
\* and line.
THEOREM DataInvariance == Spec => []DataInv
  BY InitData, NextKeepsData, Invariance, PTL DEF Spec

\* What phfs_write acknowledged stays in the file until the client writes those
\* cells again, whatever is lost, repeated or fails, for every length of file,
\* message and line.
THEOREM WritesStay == Spec => []AckedWritesOnDisk
  <1>1. DataInv => AckedWritesOnDisk
    BY DEF DataInv
  <1>2. QED
    BY <1>1, DataInvariance, PTL

\* The answer the client accepts is the head of the line and carries the number
\* of the current request.
LEMMA AcceptedHead ==
    ASSUME Inv, client_accept
    PROVE  Head(toClient) = toClient[1] /\ 1 \in 1 .. Len(toClient) /\ toClient[1].seq = seq
  <1>1. toClient # <<>> /\ Head(toClient).seq = seq /\ toClient \in Seq(Reply)
    BY DEF client_accept, Accepted, Inv, TypeOK
  <1>2. QED
    BY <1>1, TailFacts

\* The data of a read that the client accepts are what phfs_read would find in
\* the file now.
THEOREM ReadsStayCurrent == Spec => ReadsAreCurrent
  <1>1. Inv /\ DataInv /\ [Next]_vars =>
            [client_accept /\ req.type = "READ" /\ Head(toClient).ret >= 0 =>
                Head(toClient).data = Slice(disk[held[req.handle]], req.pos, Clamp(req.cnt))]_vars
    BY AcceptedHead DEF DataInv, ReadInv
  <1>2. QED
    BY <1>1, Invariance, DataInvariance, PTL DEF Spec, ReadsAreCurrent

\* When the client learns that phfs_reset has run, no file is open, and a repeated
\* reset changes nothing about that.
THEOREM ResetsReclaim == Spec => ResetReclaims
  <1>1. Inv /\ DataInv /\ [Next]_vars =>
            [client_accept /\ req.type = "RESET" => \A f \in Fds : fds[f].use # "file"]_vars
    BY AcceptedHead DEF DataInv, ResetInv
  <1>2. QED
    BY <1>1, Invariance, DataInvariance, PTL DEF Spec, ResetReclaims
=============================================================================
