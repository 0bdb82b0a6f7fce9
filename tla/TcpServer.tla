----------------------------- MODULE TcpServer -----------------------------
(***************************************************************************)
(* The Modbus/TCP event loop of neuron_tcp_server.c: epoll in edge-        *)
(* triggered mode, non-blocking sockets, message buffers from a shared     *)
(* pool, several requests per buffer, partial sends.                       *)
(*                                                                         *)
(* The server is one thread.  A step of it is one system call (epoll_wait, *)
(* accept, read, send) with the computation up to the next one, so that    *)
(* clients and the kernel act between any two calls.                       *)
(*                                                                         *)
(* Lengths are counted in tokens, not bytes.  Token <<"q", c, i>> is the   *)
(* i-th token client c sends on its connection and <<"r", c, i>> the i-th  *)
(* token of the replies due on it.  All requests have ReqLen tokens, all   *)
(* replies RspLen.                                                         *)
(***************************************************************************)
EXTENDS BufferPool

CONSTANTS Conn,       \* connection slots (a closed slot may be reused)
          Srv,        \* the listening socket, as an epoll item
          MaxReq,     \* bound: requests a client sends per connection
          ReqLen,     \* tokens of a request, header included
          RspLen,     \* tokens of a reply
          HdrLen,     \* tokens needed to know the length (6 bytes)
          MaxLen,     \* MAX_MB_BUFFER_LEN, 260 bytes
          SizeMod,    \* 2^8: nb_modbus_reqlen takes its size as uint8_t
          SndCap,     \* capacity of a socket's send queue
          MaxEvents,  \* MAXEVENTS of epoll_wait
          MaxFd,      \* connections the descriptor limit allows
          AcceptErrors \* accept() may also fail for reasons of its own

ASSUME ConnAssumption == IsFiniteSet(Conn) /\ Srv \notin Conn /\ Null \notin Conn
ASSUME LenAssumption ==
  /\ {MaxReq, ReqLen, RspLen, HdrLen, MaxLen, SizeMod, SndCap, MaxEvents, MaxFd}
       \subseteq Nat \ {0}
  /\ HdrLen <= ReqLen /\ ReqLen <= MaxLen /\ RspLen <= MaxLen
  /\ AcceptErrors \in BOOLEAN

VARIABLES
  pool,       \* b_stack and the next pointers
  data,       \* data[b]: contents of buffer b; its length is b->index
  sendindex,  \* sendindex[b]: how much of data[b] was sent
  conn,       \* "none", "pending" (not yet accepted) or "open"
  rd, wr,     \* event_data->rd_buffer, event_data->wr_buffer
  want,       \* EPOLLOUT is in the epoll mask of the connection
  rcvq,       \* tokens in the kernel's receive queue of the server
  sndq,       \* tokens in the kernel's send queue of the server
  sent,       \* how many tokens the client has sent
  got,        \* tokens the client has received
  peer,       \* "up", "fin" (client sent FIN) or "rst"
  ready,      \* items on epoll's ready list
  batch,      \* events of this epoll_wait still to be handled
  pc,         \* where the event loop is
  cur,        \* connection whose event is being handled, or Null
  buf,        \* the buffer parse_buffer is sending, or Null
  result,     \* parse_buffer's result variable
  full,       \* the last read() filled the buffer (count == wanted)
  blocked     \* history: some send() met a full send queue

pvars == <<pool, data, sendindex>>
cvars == <<conn, rd, wr, want, rcvq, sndq, sent, got, peer>>
lvars == <<pc, cur, buf, result, full>>
vars == <<pool, data, sendindex, conn, rd, wr, want, rcvq, sndq, sent, got, peer,
          ready, batch, pc, cur, buf, result, full, blocked>>

Token == {"q", "r"} \X Conn \X (Nat \ {0})

\* The run of n tokens of one kind after the first m.
Tokens(kind, c, m, n) == [i \in 1..n |-> <<kind, c, m + i>>]

Event == [who : Conn \cup {Srv}, in : BOOLEAN, out : BOOLEAN, bad : BOOLEAN]

Handling == {"osend", "read", "parse", "psend"}

TypeOK ==
  /\ pool \in Pool
  /\ data \in [Buf -> Seq(Token)]
  /\ sendindex \in [Buf -> Nat]
  /\ conn \in [Conn -> {"none", "pending", "open"}]
  /\ rd \in [Conn -> Pointer] /\ wr \in [Conn -> Pointer]
  /\ want \in [Conn -> BOOLEAN]
  /\ rcvq \in [Conn -> Seq(Token)] /\ sndq \in [Conn -> Seq(Token)]
  /\ sent \in [Conn -> Nat] /\ got \in [Conn -> Seq(Token)]
  /\ peer \in [Conn -> {"up", "fin", "rst"}]
  /\ ready \subseteq Conn \cup {Srv}
  /\ batch \subseteq Event
  /\ pc \in {"wait", "event", "accept", "hung", "crashed"} \cup Handling
  /\ cur \in Conn \cup {Null} /\ (pc \in Handling => cur \in Conn)
  /\ buf \in Pointer /\ (pc = "psend" <=> buf # Null)
  /\ result \in {0, 1} /\ full \in BOOLEAN /\ blocked \in BOOLEAN

Init ==
  /\ pool = PoolAllocate
  /\ data = [b \in Buf |-> <<>>]
  /\ sendindex = [b \in Buf |-> 0]
  /\ conn = [c \in Conn |-> "none"]
  /\ rd = [c \in Conn |-> Null] /\ wr = [c \in Conn |-> Null]
  /\ want = [c \in Conn |-> FALSE]
  /\ rcvq = [c \in Conn |-> <<>>] /\ sndq = [c \in Conn |-> <<>>]
  /\ sent = [c \in Conn |-> 0] /\ got = [c \in Conn |-> <<>>]
  /\ peer = [c \in Conn |-> "up"]
  /\ ready = {} /\ batch = {}
  /\ pc = "wait" /\ cur = Null /\ buf = Null
  /\ result = 0 /\ full = FALSE /\ blocked = FALSE

-----------------------------------------------------------------------------
(* Clients and the kernel (external to the program).  A wakeup puts the     *)
(* socket's item on the ready list; which events hold is evaluated by       *)
(* epoll_wait.                                                              *)

Wake(c) == ready' = IF conn[c] = "open" THEN ready \cup {c} ELSE ready

Connect(c) ==
  /\ conn[c] = "none" /\ pc # "crashed"
  /\ conn' = [conn EXCEPT ![c] = "pending"]
  /\ ready' = ready \cup {Srv}
  /\ UNCHANGED <<pvars, rd, wr, want, rcvq, sndq, sent, got, peer, batch, lvars, blocked>>

\* Part of the request stream arrives: TCP keeps no request boundaries.
ClientSend(c) ==
  /\ conn[c] # "none" /\ peer[c] = "up"
  /\ \E n \in 1..(MaxReq * ReqLen - sent[c]) :
       /\ rcvq' = [rcvq EXCEPT ![c] = @ \o Tokens("q", c, sent[c], n)]
       /\ sent' = [sent EXCEPT ![c] = @ + n]
  /\ Wake(c)
  /\ UNCHANGED <<pvars, conn, rd, wr, want, sndq, got, peer, batch, lvars, blocked>>

\* The client drains its replies; room in the send queue is an EPOLLOUT edge.
ClientRecv(c) ==
  /\ conn[c] = "open" /\ peer[c] # "rst" /\ sndq[c] # <<>>
  /\ got' = [got EXCEPT ![c] = @ \o sndq[c]]
  /\ sndq' = [sndq EXCEPT ![c] = <<>>]
  /\ ready' = IF want[c] THEN ready \cup {c} ELSE ready
  /\ UNCHANGED <<pvars, conn, rd, wr, want, rcvq, sent, peer, batch, lvars, blocked>>

\* The client closes its sending side (FIN), or the connection is reset.
ClientLeave(c) ==
  /\ conn[c] # "none" /\ peer[c] # "rst"
  /\ \E how \in {"fin", "rst"} \ {peer[c]} : peer' = [peer EXCEPT ![c] = how]
  /\ Wake(c)
  /\ UNCHANGED <<pvars, conn, rd, wr, want, rcvq, sndq, sent, got, batch, lvars, blocked>>

-----------------------------------------------------------------------------
(* The event loop.                                                          *)

Readable(c) == rcvq[c] # <<>> \/ peer[c] # "up"

Writable(c) == peer[c] = "rst" \/ Len(sndq[c]) < SndCap

EventOf(x) ==
  IF x = Srv
  THEN [who |-> Srv, in |-> TRUE, out |-> FALSE, bad |-> FALSE]
  ELSE [who |-> x, in |-> Readable(x), out |-> want[x] /\ Writable(x),
        bad |-> peer[x] = "rst"]

Live(x) ==
  IF x = Srv THEN \E c \in Conn : conn[c] = "pending"
             ELSE Readable(x) \/ (want[x] /\ Writable(x))

\* epoll_wait: edge-triggered items leave the ready list when reported, and
\* items without an event leave it silently.
EpollWait ==
  /\ pc = "wait"
  /\ \E S \in SUBSET {x \in ready : Live(x)} :
       /\ S # {}
       /\ \/ S = {x \in ready : Live(x)} /\ Cardinality(S) <= MaxEvents
          \/ Cardinality(S) = MaxEvents
       /\ batch' = {EventOf(x) : x \in S}
       /\ ready' = {x \in ready : Live(x)} \ S
  /\ pc' = "event"
  /\ UNCHANGED <<pvars, cvars, cur, buf, result, full, blocked>>

\* The for loop goes on with the events that remain, or ends.
NextEvent(rest) ==
  /\ batch' = rest
  /\ pc' = IF rest = {} THEN "wait" ELSE "event"
  /\ cur' = Null

\* close_event(c) on pool p: rd_buffer goes back first, then wr_buffer.
\* RepoolRdSkipped is a mutant that forgets rd_buffer.
RepoolRdSkipped(p, c) == p
RepoolRd(p, c) == IF rd[c] = Null THEN p ELSE Repool(p, rd[c])
RepoolBoth(p, c) == IF wr[c] = Null THEN RepoolRd(p, c) ELSE Repool(RepoolRd(p, c), wr[c])

\* One of the two repool_buffer calls never returns.
CloseHangs(p, c) ==
  \/ rd[c] # Null /\ Endless(p, rd[c])
  \/ /\ rd[c] # Null => ~Endless(p, rd[c])
     /\ wr[c] # Null /\ Endless(RepoolRd(p, c), wr[c])

\* close() and free(): the slot may be used by a later connection.
Forget(c) ==
  /\ conn' = [conn EXCEPT ![c] = "none"]
  /\ rd' = [rd EXCEPT ![c] = Null] /\ wr' = [wr EXCEPT ![c] = Null]
  /\ want' = [want EXCEPT ![c] = FALSE]
  /\ rcvq' = [rcvq EXCEPT ![c] = <<>>] /\ sndq' = [sndq EXCEPT ![c] = <<>>]
  /\ sent' = [sent EXCEPT ![c] = 0] /\ got' = [got EXCEPT ![c] = <<>>]
  /\ peer' = [peer EXCEPT ![c] = "up"]
  /\ ready' = ready \ {c}

CloseEvent(p, c, rest) ==
  \/ /\ ~CloseHangs(p, c)
     /\ pool' = RepoolBoth(p, c)
     /\ Forget(c)
     /\ NextEvent(rest)
  \/ /\ CloseHangs(p, c)
     /\ pool' = p
     /\ pc' = "hung" /\ cur' = Null /\ batch' = rest
     /\ UNCHANGED <<cvars, ready>>

DispatchServer(e) ==
  /\ pc = "event" /\ e.who = Srv
  /\ pc' = "accept" /\ batch' = batch \ {e}
  /\ UNCHANGED <<pvars, cvars, ready, cur, buf, result, full, blocked>>

\* EPOLLERR or EPOLLHUP, or an event without EPOLLIN: the connection is closed.
DispatchClose(e) ==
  /\ pc = "event" /\ e.who # Srv
  /\ e.bad \/ ~e.in
  /\ CloseEvent(pool, e.who, batch \ {e})
  /\ UNCHANGED <<data, sendindex, buf, result, full, blocked>>

DispatchModbus(e) ==
  /\ pc = "event" /\ e.who # Srv
  /\ ~e.bad /\ e.in
  /\ cur' = e.who
  /\ pc' = IF e.out THEN "osend" ELSE "read"
  /\ batch' = batch \ {e}
  /\ UNCHANGED <<pvars, cvars, ready, buf, result, full, blocked>>

Opened == {c \in Conn : conn[c] = "open"}

\* Mutant: one accept() per wakeup of the listening socket.
AcceptOnlyOne(c) ==
  /\ pc = "accept" /\ conn[c] = "pending" /\ Cardinality(Opened) < MaxFd
  /\ conn' = [conn EXCEPT ![c] = "open"]
  /\ ready' = IF Readable(c) THEN ready \cup {c} ELSE ready
  /\ NextEvent(batch)
  /\ UNCHANGED <<pvars, rd, wr, want, rcvq, sndq, sent, got, peer, buf, result, full, blocked>>

\* accept() and epoll_ctl(ADD), which reports what is already there.
AcceptOne(c) ==
  /\ pc = "accept" /\ conn[c] = "pending" /\ Cardinality(Opened) < MaxFd
  /\ conn' = [conn EXCEPT ![c] = "open"]
  /\ ready' = IF Readable(c) THEN ready \cup {c} ELSE ready
  /\ UNCHANGED <<pvars, rd, wr, want, rcvq, sndq, sent, got, peer, batch, lvars, blocked>>

\* The new socket cannot be made non-blocking or added to epoll: it is closed.
AcceptRefused(c) ==
  /\ pc = "accept" /\ conn[c] = "pending" /\ Cardinality(Opened) < MaxFd
  /\ Forget(c)
  /\ UNCHANGED <<pvars, batch, lvars, blocked>>

\* accept() fails: no connection is pending, no descriptor is left, or for another
\* reason (EINTR, ECONNABORTED, ENOBUFS).  Each ends the loop, and what is pending
\* then waits until the listening socket has a new edge.
AcceptDone ==
  /\ pc = "accept"
  /\ \/ \A c \in Conn : conn[c] # "pending"
     \/ Cardinality(Opened) >= MaxFd
     \/ AcceptErrors
  /\ NextEvent(batch)
  /\ UNCHANGED <<pvars, cvars, ready, buf, result, full, blocked>>

-----------------------------------------------------------------------------
(* nb_send on buffer b: one send() per step.                                *)

Unsent(b) == Len(data[b]) - sendindex[b]
Room == SndCap - Len(sndq[cur])

\* Mutant: sendindex does not advance after a partial send.
SendSomeTwice(b) ==
  /\ Unsent(b) > 0 /\ peer[cur] # "rst" /\ Room > 0
  /\ LET n == IF Unsent(b) < Room THEN Unsent(b) ELSE Room IN
       /\ sndq' = [sndq EXCEPT ![cur] =
                     @ \o SubSeq(data[b], sendindex[b] + 1, sendindex[b] + n)]
       /\ sendindex' = [sendindex EXCEPT ![b] = IF n = Unsent(b) THEN @ + n ELSE @]
  /\ UNCHANGED <<pool, data, conn, rd, wr, want, rcvq, sent, got, peer,
                 ready, batch, lvars, blocked>>

\* send() takes what fits; the loop of nb_send goes on.
SendSome(b) ==
  /\ Unsent(b) > 0 /\ peer[cur] # "rst" /\ Room > 0
  /\ LET n == IF Unsent(b) < Room THEN Unsent(b) ELSE Room IN
       /\ sndq' = [sndq EXCEPT ![cur] =
                     @ \o SubSeq(data[b], sendindex[b] + 1, sendindex[b] + n)]
       /\ sendindex' = [sendindex EXCEPT ![b] = @ + n]
  /\ UNCHANGED <<pool, data, conn, rd, wr, want, rcvq, sent, got, peer,
                 ready, batch, lvars, blocked>>

SentAll(b) == Unsent(b) <= 0
SendBlocks(b) == Unsent(b) > 0 /\ peer[cur] # "rst" /\ Room <= 0
SendFails(b) == Unsent(b) > 0 /\ peer[cur] = "rst"

-----------------------------------------------------------------------------
(* EPOLLOUT: send what wr_buffer holds.                                     *)

OutSendSome == pc = "osend" /\ wr[cur] # Null /\ SendSome(wr[cur])

\* All sent.  Line 661 compares instead of assigning, so wr_buffer stays and
\* the loop calls nb_send with the same, now pooled, buffer.
OutSent ==
  /\ pc = "osend" /\ wr[cur] # Null /\ SentAll(wr[cur])
  /\ pool' = Repool([pool EXCEPT !.next[wr[cur]] = Null], wr[cur])
  /\ UNCHANGED <<data, sendindex, cvars, ready, batch, lvars, blocked>>

OutBlocks ==
  /\ pc = "osend" /\ wr[cur] # Null /\ SendBlocks(wr[cur])
  /\ pc' = "read" /\ blocked' = TRUE
  /\ UNCHANGED <<pvars, cvars, ready, batch, cur, buf, result, full>>

\* Fatal error: close_event frees event_data, "break" leaves only the send
\* loop, and the EPOLLIN part reads the freed memory and frees it again: the
\* process aborts, or walks a ring of buffers for ever.
OutFails ==
  /\ pc = "osend" /\ wr[cur] # Null /\ SendFails(wr[cur])
  /\ pc' \in {"crashed", "hung"} /\ cur' = Null
  /\ UNCHANGED <<pvars, cvars, ready, batch, buf, result, full, blocked>>

-----------------------------------------------------------------------------
(* EPOLLIN: read and parse.                                                 *)

\* No buffer left: the read is not done.
ReadNoBuffer ==
  /\ pc = "read" /\ rd[cur] = Null /\ pool.top = Null
  /\ NextEvent(batch)
  /\ UNCHANGED <<pvars, cvars, ready, buf, result, full, blocked>>

\* rd_buffer as read() finds it: the old one, or an empty one from the pool.
RdBuffer == IF rd[cur] = Null THEN pool.top ELSE rd[cur]
RdData == IF rd[cur] = Null THEN <<>> ELSE data[rd[cur]]
PoolForRead == IF rd[cur] = Null THEN GetFromPool(pool) ELSE pool
\* Mutant: get_from_pool does not reset sendindex.
SendindexKept == sendindex
SendindexForRead == IF rd[cur] = Null THEN [sendindex EXCEPT ![pool.top] = 0] ELSE sendindex
Wanted == MaxLen - Len(RdData)

ReadData ==
  /\ pc = "read" /\ RdBuffer # Null /\ Wanted > 0 /\ rcvq[cur] # <<>>
  /\ LET count == IF Len(rcvq[cur]) < Wanted THEN Len(rcvq[cur]) ELSE Wanted IN
       /\ data' = [data EXCEPT ![RdBuffer] = RdData \o SubSeq(rcvq[cur], 1, count)]
       /\ rcvq' = [rcvq EXCEPT ![cur] = SubSeq(@, count + 1, Len(@))]
       /\ full' = (count = Wanted)
  /\ pool' = PoolForRead
  /\ sendindex' = SendindexForRead
  /\ rd' = [rd EXCEPT ![cur] = RdBuffer]
  /\ pc' = "parse" /\ result' = 0
  /\ UNCHANGED <<conn, wr, want, sndq, sent, got, peer, ready, batch, cur, buf, blocked>>

\* EAGAIN: all was read.  The buffer stays with the connection.
ReadAgain ==
  /\ pc = "read" /\ RdBuffer # Null /\ Wanted > 0
  /\ rcvq[cur] = <<>> /\ peer[cur] = "up"
  /\ pool' = PoolForRead
  /\ data' = [data EXCEPT ![RdBuffer] = RdData]
  /\ sendindex' = SendindexForRead
  /\ rd' = [rd EXCEPT ![cur] = RdBuffer]
  /\ NextEvent(batch)
  /\ UNCHANGED <<conn, wr, want, rcvq, sndq, sent, got, peer, ready, buf, result,
                 full, blocked>>

\* read() fails, or returns 0: end of file, or a full buffer (wanted = 0).
\* A buffer taken for this read goes straight back on top of the pool.
ReadCloses ==
  /\ pc = "read" /\ RdBuffer # Null
  /\ Wanted <= 0 \/ (rcvq[cur] = <<>> /\ peer[cur] # "up")
  /\ data' = [data EXCEPT ![RdBuffer] = RdData]
  /\ sendindex' = SendindexForRead
  /\ CloseEvent(pool, cur, batch)
  /\ UNCHANGED <<buf, result, full, blocked>>

\* The lengths the first HdrLen tokens may announce.  They are a request's
\* header unless buffers were mixed up; then any number may stand there.
Announced(d) ==
  IF d = <<>> THEN {HdrLen}
  ELSE IF d[1][1] = "q" /\ (d[1][3] - 1) % ReqLen = 0 THEN {ReqLen} ELSE HdrLen..(MaxLen + 1)

\* Mutant: a request counts as complete as soon as its length is known.
ReqlenUnchecked(d, len) ==
  LET size == Len(d) % SizeMod IN IF size < HdrLen THEN 0 ELSE len

\* nb_modbus_reqlen: 0, or the length of the complete request in front.
Reqlen(d, len) ==
  LET size == Len(d) % SizeMod IN IF size < HdrLen \/ size < len THEN 0 ELSE len

\* Mutant: the reply starts one token early.
ReplyEarly(d) == Tokens("r", d[1][2], ((d[1][3] - 1) \div ReqLen) * RspLen - 1, RspLen)

\* nb_modbus_reply turns the request in front of d into its reply, in place.
Reply(d) == Tokens("r", d[1][2], ((d[1][3] - 1) \div ReqLen) * RspLen, RspLen)

\* Mutant: the socket is not read again after a read that filled the buffer.
ParseReturnsOnce(rc) ==
  /\ want' = IF rc = 1 THEN [want EXCEPT ![cur] = TRUE] ELSE want
  /\ ready' = IF rc = 1 /\ (Readable(cur) \/ Writable(cur)) THEN ready \cup {cur} ELSE ready
  /\ NextEvent(batch)
  /\ result' = 0 /\ full' = FALSE
  /\ UNCHANGED <<pvars, conn, rd, wr, rcvq, sndq, sent, got, peer, buf, blocked>>

\* parse_buffer returned rc >= 0: RES_WRITE_QUEUE arms EPOLLOUT, and a read
\* that filled the buffer is followed by another one.
ParseReturns(rc) ==
  /\ want' = IF rc = 1 THEN [want EXCEPT ![cur] = TRUE] ELSE want
  /\ ready' = IF rc = 1 /\ (Readable(cur) \/ Writable(cur)) THEN ready \cup {cur} ELSE ready
  /\ IF full THEN pc' = "read" /\ UNCHANGED <<batch, cur>> ELSE NextEvent(batch)
  /\ result' = 0 /\ full' = FALSE
  /\ UNCHANGED <<pvars, conn, rd, wr, rcvq, sndq, sent, got, peer, buf, blocked>>

\* Line 214: no buffer left to parse, 0 is returned whatever result is.
ParseEmpty ==
  /\ pc = "parse" /\ rd[cur] = Null
  /\ ParseReturns(0)

ParseIncomplete ==
  /\ pc = "parse" /\ rd[cur] # Null
  /\ \E len \in Announced(data[rd[cur]]) : Reqlen(data[rd[cur]], len) = 0
  /\ ParseReturns(result)

\* Mutant: an incomplete request counts as a bad length.
ParseFailsIncomplete ==
  /\ pc = "parse" /\ rd[cur] # Null
  /\ \E len \in Announced(data[rd[cur]]) : Reqlen(data[rd[cur]], len) = 0
  /\ CloseEvent(pool, cur, batch)
  /\ result' = 0 /\ full' = FALSE
  /\ UNCHANGED <<data, sendindex, buf, blocked>>

\* A bad length, or no buffer for the data behind the request: -1.
ParseFails ==
  /\ pc = "parse" /\ rd[cur] # Null
  /\ \E len \in Announced(data[rd[cur]]) :
       LET reqlen == Reqlen(data[rd[cur]], len) IN
         \/ reqlen > MaxLen
         \/ reqlen # 0 /\ reqlen < Len(data[rd[cur]]) /\ pool.top = Null
  /\ CloseEvent(pool, cur, batch)
  /\ result' = 0 /\ full' = FALSE
  /\ UNCHANGED <<data, sendindex, buf, blocked>>

\* A complete request is answered in its buffer; what follows it moves to a
\* new one.  The reply is queued behind wr_buffer, or sent (pc = "psend").
ParseRequest ==
  /\ pc = "parse" /\ rd[cur] # Null
  /\ \E len \in Announced(data[rd[cur]]) :
       LET b == rd[cur]
           reqlen == Reqlen(data[b], len)
           more == reqlen < Len(data[b])
           new == IF more THEN pool.top ELSE Null
           pool1 == IF more THEN GetFromPool(pool) ELSE pool
           data1 == [data EXCEPT ![b] = Reply(data[b])]
       IN
         /\ reqlen \in 1..MaxLen
         /\ more => new # Null
         /\ data' = IF more
                    THEN [data1 EXCEPT ![new] = SubSeq(data[b], reqlen + 1, Len(data[b]))]
                    ELSE data1
         /\ sendindex' = IF more THEN [sendindex EXCEPT ![new] = 0] ELSE sendindex
         /\ rd' = [rd EXCEPT ![cur] = new]
         /\ \/ /\ wr[cur] = Null
               /\ pool' = pool1 /\ pc' = "psend" /\ buf' = b /\ cur' = cur
            \/ /\ wr[cur] # Null /\ ~Endless(pool1, wr[cur])
               /\ pool' = LinkLast(pool1, wr[cur], b) /\ UNCHANGED <<pc, buf, cur>>
            \/ /\ wr[cur] # Null /\ Endless(pool1, wr[cur])
               /\ pool' = pool1 /\ pc' = "hung" /\ cur' = Null /\ UNCHANGED buf
  /\ UNCHANGED <<conn, wr, want, rcvq, sndq, sent, got, peer, ready, batch, result,
                 full, blocked>>

ReplySendSome == pc = "psend" /\ SendSome(buf)

\* repool_buffer(buf) of parse_buffer; its walk may have no end.
RepoolReply ==
  /\ buf' = Null
  /\ \/ /\ ~Endless(pool, buf)
        /\ pool' = Repool(pool, buf) /\ pc' = "parse" /\ cur' = cur
     \/ /\ Endless(pool, buf)
        /\ pc' = "hung" /\ cur' = Null /\ UNCHANGED pool

ReplySent ==
  /\ pc = "psend" /\ SentAll(buf)
  /\ RepoolReply
  /\ UNCHANGED <<data, sendindex, cvars, ready, batch, result, full, blocked>>

\* Sent in part: the buffer becomes wr_buffer, and is repooled all the same.
ReplyBlocks ==
  /\ pc = "psend" /\ SendBlocks(buf)
  /\ wr' = [wr EXCEPT ![cur] = buf]
  /\ RepoolReply
  /\ result' = 1 /\ blocked' = TRUE
  /\ UNCHANGED <<data, sendindex, conn, rd, want, rcvq, sndq, sent, got, peer,
                 ready, batch, full>>

\* Fatal error: the reply goes back to the pool, then the connection closes.
ReplyFails ==
  /\ pc = "psend" /\ SendFails(buf)
  /\ buf' = Null
  /\ \/ ~Endless(pool, buf) /\ CloseEvent(Repool(pool, buf), cur, batch)
     \/ /\ Endless(pool, buf)
        /\ pc' = "hung" /\ cur' = Null
        /\ UNCHANGED <<pool, cvars, ready, batch>>
  /\ result' = 0 /\ full' = FALSE
  /\ UNCHANGED <<data, sendindex, blocked>>

-----------------------------------------------------------------------------

\* systemd starts an aborted server again (neurontcp.service, Restart=always);
\* the kernel has closed its sockets.
Restart ==
  /\ pc = "crashed"
  /\ pool' = PoolAllocate
  /\ data' = [b \in Buf |-> <<>>]
  /\ sendindex' = [b \in Buf |-> 0]
  /\ conn' = [c \in Conn |-> "none"]
  /\ rd' = [c \in Conn |-> Null] /\ wr' = [c \in Conn |-> Null]
  /\ want' = [c \in Conn |-> FALSE]
  /\ rcvq' = [c \in Conn |-> <<>>] /\ sndq' = [c \in Conn |-> <<>>]
  /\ sent' = [c \in Conn |-> 0] /\ got' = [c \in Conn |-> <<>>]
  /\ peer' = [c \in Conn |-> "up"]
  /\ ready' = {} /\ batch' = {}
  /\ pc' = "wait" /\ cur' = Null /\ buf' = Null
  /\ result' = 0 /\ full' = FALSE /\ blocked' = FALSE

\* A walk round a ring of buffers: the process lives and does nothing else.
Spin == pc = "hung" /\ UNCHANGED vars

OutStep == OutSendSome \/ OutSent \/ OutBlocks \/ OutFails

ReadStep == ReadNoBuffer \/ ReadData \/ ReadAgain \/ ReadCloses

ParseStep == \/ ParseEmpty \/ ParseIncomplete \/ ParseFails \/ ParseRequest
             \/ ReplySendSome \/ ReplySent \/ ReplyBlocks \/ ReplyFails

Server ==
  \/ EpollWait
  \/ \E e \in batch : DispatchServer(e) \/ DispatchClose(e) \/ DispatchModbus(e)
  \/ \E c \in Conn : AcceptOne(c) \/ AcceptRefused(c)
  \/ AcceptDone
  \/ OutStep \/ ReadStep \/ ParseStep
  \/ Spin \/ Restart

Client(c) == Connect(c) \/ ClientSend(c) \/ ClientRecv(c) \/ ClientLeave(c)

Next == Server \/ \E c \in Conn : Client(c)

Spec == Init /\ [][Next]_vars

\* The server process is always scheduled; fcntl and epoll_ctl on a new socket
\* do not fail for ever; clients owe nothing.
FairSpec ==
  Spec /\ WF_vars(Server) /\ SF_vars(\E c \in Conn : AcceptOne(c))

-----------------------------------------------------------------------------

\* How many places of the running server refer to buffer b.
Owners(b) == Cardinality({c \in Conn : rd[c] = b}) + Cardinality({c \in Conn : wr[c] = b})
             + (IF buf = b THEN 1 ELSE 0)

\* Until a send() first blocks, the pool is a proper list and every buffer is
\* either in it, with no other owner, or in the hands of exactly one open
\* connection or of parse_buffer, unlinked: get_from_pool and repool_buffer
\* neither lose a buffer nor hand one out twice, on any path through
\* parse_buffer, the read loop and close_event.
PoolPartition ==
  ~blocked =>
    /\ \E s \in Lists :
         /\ IsFreeList(pool, s)
         /\ \A b \in Buf :
              IF \E i \in DOMAIN s : s[i] = b
              THEN Owners(b) = 0
              ELSE Owners(b) = 1 /\ pool.next[b] = Null
    /\ \A c \in Conn : rd[c] # Null => conn[c] = "open"

\* Until a send() first blocks, what a client has received and what is on the
\* way to it are the first tokens of the replies due on its connection: no
\* reply is lost, doubled, reordered or sent to another client, however the
\* requests are cut into reads.
RepliesInOrder ==
  ~blocked => \A c \in Conn :
    got[c] \o sndq[c] = Tokens("r", c, 0, Len(got[c]) + Len(sndq[c]))

\* As long as no send() blocks, one buffer more than there are connections is
\* enough: get_from_pool never fails, in the read loop (line 686, data left
\* unread) or in parse_buffer (line 227, connection dropped).
PoolSuffices ==
  ~blocked /\ Cardinality(Conn) < Cardinality(Buf) /\ pc \in {"read", "parse"}
    => pool.top # Null

\* With edge-triggered epoll, data left unread and connections left unaccepted
\* when the loop goes back to epoll_wait must have a wakeup pending, or nobody
\* looks at them again (lines 613-624, 676-679).  Holds as long as the pool and
\* the descriptors suffice, for connections only if accept() has no errors of its
\* own, after which the loop does not try again.
DataIsAnnounced ==
  pc = "wait" /\ ~blocked /\ Cardinality(Conn) < Cardinality(Buf) =>
    /\ \A c \in Conn : conn[c] = "open" /\ rcvq[c] # <<>> => c \in ready
    /\ \A c \in Conn : conn[c] = "pending" /\ Cardinality(Opened) < MaxFd /\ ~AcceptErrors
         => Srv \in ready

\* Until a send() first blocks, the server drops a connection only for a cause:
\* the client has left, the pool is empty, or the read buffer is full.
ClosedForCause ==
  [][~blocked => \A c \in Conn :
       conn[c] = "open" /\ conn'[c] # "open" =>
         \/ peer[c] # "up"
         \/ pool.top = Null
         \/ rd[c] # Null /\ Len(data[rd[c]]) = MaxLen]_vars

\* A request that has arrived completely is answered, or its connection is
\* closed: no lost wakeup, no request left in a buffer.  (For streams shorter
\* than SizeMod, a pool that suffices and replies that fit the send queue.)
Served ==
  \A c \in Conn, k \in 1..MaxReq :
    conn[c] # "none" /\ sent[c] >= k * ReqLen
      ~> Len(got[c]) + Len(sndq[c]) >= k * RspLen \/ conn[c] = "none"

\* The abstract session: a request counts when its last token has arrived, a
\* reply when its last token has been handed to send().
Session == INSTANCE ModbusSession WITH
  open <- [c \in Conn |-> conn[c] # "none"],
  asked <- [c \in Conn |-> sent[c] \div ReqLen],
  answered <- [c \in Conn |-> (Len(got[c]) + Len(sndq[c])) \div RspLen]

\* The event loop implements the session: one reply per complete request, in
\* order, none before its request has arrived, none twice (for replies that
\* fit the send queue).
ImplementsSession == Session!Spec

-----------------------------------------------------------------------------
(* What comments of the code say and the code does not do.                  *)

\* Lines 235 and 249: a reply that was sent in part is in the write queue of
\* its connection; so it is not in the pool, free to be handed out.
QueuedNotPooled ==
  \A c \in Conn : wr[c] # Null =>
    pool.top = Null \/ \A n \in 0..Cardinality(Buf) : Hop(pool, pool.top, n) # wr[c]

\* Line 249, "Data was sent partially, add EPOLLOUT": a connection with a
\* reply to send is watched for EPOLLOUT when the loop waits.
QueuedIsArmed == pc = "wait" => \A c \in Conn : wr[c] # Null => want[c]

\* Line 209, "There can be more than one request in buffer": when the loop
\* waits, no connection keeps a complete request in its read buffer.
CompleteRequestsParsed ==
  pc = "wait" /\ ~blocked =>
    \A c \in Conn : rd[c] # Null => Len(data[rd[c]]) < ReqLen

\* Lines 676-679, "We must read whatever data is available completely, as we
\* are running in edge-triggered mode": unread data is announced again.
DataReadCompletely ==
  pc = "wait" => \A c \in Conn : conn[c] = "open" /\ rcvq[c] # <<>> => c \in ready

\* Lines 705-707, "End of file. The remote has closed the connection.": a
\* connection the client has shut is closed by the server.
EndOfFileSeen == \A c \in Conn : peer[c] = "fin" ~> conn[c] = "none" \/ peer[c] = "rst"

\* Line 657, "continue on next socket": a fatal error while sending queued data
\* ends with the loop alive, at the next event.
FatalSendContained == pc # "crashed"

\* Line 659, "All data from buffer was sent": the queue is advanced, and the
\* send loop comes to an end.
OutLoopEnds == pc = "osend" ~> pc # "osend"

=============================================================================
