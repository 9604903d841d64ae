---------------------------- MODULE FileTransfer ----------------------------
(***************************************************************************)
(* The transfer of one file: FileHandler of client/handlers/file.py at the *)
(* uploader and the recipient, and at the server TCPServer                 *)
(* (server/tcp_server.py) over the chunk files and tables of               *)
(* server/files.py and server/db/files.py.                                 *)
(*                                                                         *)
(* Every TCP connection has a handler of its own at the server, which runs *)
(* on after the client has given the connection up.  A step of a handler   *)
(* ends at a database statement or at a read that has to wait; a step of   *)
(* the uploader at a read or at the opening of a connection.  The uploader *)
(* sends one chunk and waits for its answer.  Sizes, keys, encryption and  *)
(* progress reports are left out; FILE_INIT is modelled up to the server.  *)
(***************************************************************************)
EXTENDS Integers, Sequences, FiniteSets, Functions

CONSTANTS
  Total,        \* total_chunks of the file
  MaxAttempts,  \* max_attempts of _upload_chunks
  MaxConn,      \* bound: connections the uploader opens, resumed uploads included
  Download,     \* bound: the downloads the recipient starts
  MaxCrash,     \* bound: process kills of the server
  Expires       \* whether the file's time to live may end meanwhile

ASSUME TransferAssumption ==
  /\ Total \in Nat \ {0} /\ MaxAttempts \in Nat \ {0}
  /\ MaxConn \in Nat /\ MaxCrash \in Nat /\ Expires \in BOOLEAN

Chunk == 0..(Total - 1)
Conn == 1..MaxConn
NoChunk == -1

VARIABLES
  init,      \* where the FILE_INIT is
  meta,      \* whether the files table has the row of the file
  rows,      \* the chunk_index of its rows in the chunks table, in insertion order
  disk,      \* disk[k]: the data file of chunk k
  sweep,     \* delete_file_data: not called, "deleting", "cut" by a kill, or done
  srv,       \* srv[c]: the handler of upload connection c
  net,       \* net[c]: what is on its way on c, and whether c is alive for the client
  opened,    \* connections opened so far
  up,        \* the uploader: locals of send or resume_send, and of _upload_chunks
  down,      \* down[d]: handler and client of download d
  announced, \* history: whether a FILE_DONE was sent to the recipient
  crashes    \* process kills so far

storage == <<init, meta, rows, disk, sweep>>
ftVars == <<storage, srv, net, opened, up, down, announced, crashes>>

Reply == [type : {"HAVE"}, set : SUBSET Chunk] \cup [type : {"ACK", "DONE"}]
Working == {"open", "have", "chunk", "ack", "last"}

NoLocals == [pc |-> "idle", cmd |-> "send", conn |-> 0, have |-> {}, next |-> 0,
             sent |-> 0, attempt |-> 0]
NoFrames == [pc |-> "none", todo |-> <<>>, frames |-> 0, got |-> {}]

FtInit == /\ init = "unsent" /\ meta = FALSE /\ rows = <<>> /\ sweep = "no"
          /\ disk = [k \in Chunk |-> "none"]
          /\ srv = [c \in Conn |-> [pc |-> "none", cur |-> NoChunk]]
          /\ net = [c \in Conn |-> [up |-> NoChunk, down |-> <<>>, live |-> FALSE]]
          /\ opened = 0
          /\ up = NoLocals
          /\ down = [d \in Download |-> NoFrames]
          /\ announced = FALSE /\ crashes = 0

-----------------------------------------------------------------------------
\* FILE_INIT: handed to the WebSocket connection, then registered or lost with it.

HandleInit == /\ init = "queued"
              /\ init' = "handled" /\ meta' = TRUE
              /\ UNCHANGED <<rows, disk, sweep, srv, net, opened, up, down, announced, crashes>>

LoseInit == /\ init = "queued"
            /\ init' = "lost"
            /\ UNCHANGED <<meta, rows, disk, sweep, srv, net, opened, up, down, announced, crashes>>

-----------------------------------------------------------------------------
\* The uploader.

Begin(cmd) == up' = [up EXCEPT !.pc = "open", !.cmd = cmd, !.attempt = 0, !.sent = 0]

Send == /\ up.pc = "idle"
        /\ init' = "queued" /\ Begin("send")
        /\ UNCHANGED <<meta, rows, disk, sweep, srv, net, opened, down, announced, crashes>>

\* /file resume, also of an upload that had returned; no FILE_INIT is sent again.
Resume == /\ up.pc \in {"raised", "returned"} /\ opened < MaxConn
          /\ Begin("resume")
          /\ UNCHANGED <<storage, srv, net, opened, down, announced, crashes>>

\* The upload command ends, and with it the connection in use.
Leave(pc) == /\ up' = [NoLocals EXCEPT !.pc = pc, !.cmd = up.cmd]
             /\ net' = [c \in Conn |-> [net[c] EXCEPT !.live = FALSE, !.down = <<>>]]
             /\ announced' = (announced \/ (pc = "returned" /\ up.cmd = "send"))
             /\ UNCHANGED <<storage, srv, opened, down, crashes>>

\* open_connection: outside the try, so that a refusal ends the upload.
Open == /\ up.pc = "open" /\ up.sent < Total /\ up.attempt < MaxAttempts
        /\ opened < MaxConn
        /\ opened' = opened + 1
        /\ up' = [up EXCEPT !.pc = "have", !.conn = opened + 1, !.attempt = @ + 1]
        /\ net' = [net EXCEPT ![opened + 1].live = TRUE]
        /\ srv' = [srv EXCEPT ![opened + 1].pc = "lookup"]
        /\ UNCHANGED <<storage, down, announced, crashes>>
Refused == /\ up.pc = "open" /\ up.sent < Total /\ up.attempt < MaxAttempts
           /\ Leave("raised")

\* The while loop of _upload_chunks ends by its condition.
LoopEnds == /\ up.pc = "open" /\ (up.sent >= Total \/ up.attempt >= MaxAttempts)
            /\ Leave("returned")

\* What the next readline returns: a reply, the empty line at the end of the
\* stream, or an exception when the connection is lost.
wire == net[up.conn]
Lost == ~wire.live
Ended == wire.live /\ wire.down = <<>> /\ srv[up.conn].pc = "closed"
Got(type) == wire.live /\ wire.down # <<>> /\ Head(wire.down).type = type
Take == net' = [net EXCEPT ![up.conn].down = Tail(@)]

\* Mutant of Fail: the last attempt leaves the loop instead of raising.
FailLate == IF up.attempt > MaxAttempts THEN Leave("raised")
            ELSE /\ up' = [up EXCEPT !.pc = "open", !.conn = 0, !.have = {}, !.next = 0]
                 /\ net' = [net EXCEPT ![up.conn].live = FALSE, ![up.conn].down = <<>>]
                 /\ UNCHANGED <<storage, srv, opened, down, announced, crashes>>
\* The except clause: close the connection and try another one, or raise.
Fail == IF up.attempt >= MaxAttempts THEN Leave("raised")
        ELSE /\ up' = [up EXCEPT !.pc = "open", !.conn = 0, !.have = {}, !.next = 0]
             /\ net' = [net EXCEPT ![up.conn].live = FALSE, ![up.conn].down = <<>>]
             /\ UNCHANGED <<storage, srv, opened, down, announced, crashes>>

Broken == up.pc \in {"have", "chunk", "ack", "last"} /\ Lost /\ Fail

\* The HAVE line; an empty one counts as no chunks.
ReadHave ==
  /\ up.pc = "have" /\ (Got("HAVE") \/ Ended)
  /\ \E have \in {IF Ended THEN {} ELSE Head(wire.down).set} :
       up' = [up EXCEPT !.pc = "chunk", !.have = have, !.next = 0, !.sent = Cardinality(have)]
  /\ IF Ended THEN UNCHANGED net ELSE Take
  /\ UNCHANGED <<storage, srv, opened, down, announced, crashes>>

\* The next chunk the server does not have, or the end of the for loop.
WriteChunk ==
  LET missing == {k \in Chunk \ up.have : k >= up.next}
  IN /\ up.pc = "chunk" /\ ~Lost
     /\ IF missing = {}
          THEN up' = [up EXCEPT !.pc = "last", !.have = {}, !.next = 0] /\ UNCHANGED net
          ELSE \E k \in missing : /\ \A j \in missing : k <= j
                                  /\ up' = [up EXCEPT !.pc = "ack", !.next = k]
                                  /\ net' = IF srv[up.conn].pc = "closed" THEN net
                                             ELSE [net EXCEPT ![up.conn].up = k]
     /\ UNCHANGED <<storage, srv, opened, down, announced, crashes>>

ReadAck ==
  /\ up.pc = "ack"
  /\ \/ /\ Got("ACK") /\ Take
        /\ up' = [up EXCEPT !.pc = "chunk", !.next = @ + 1, !.sent = @ + 1]
        /\ UNCHANGED <<storage, srv, opened, down, announced, crashes>>
     \/ Got("DONE") /\ Leave("returned")
     \/ Ended /\ Fail

\* After the last chunk: DONE, or the end of the stream without it.
ReadLast == up.pc = "last" /\ (Got("DONE") \/ Ended) /\ Leave("returned")

\* The application is closed in the middle of an upload.
Quit == /\ up.pc \in Working
        /\ init' = IF init = "queued" THEN "lost" ELSE init
        /\ up' = [NoLocals EXCEPT !.pc = "raised", !.cmd = up.cmd]
        /\ net' = [c \in Conn |-> [net[c] EXCEPT !.live = FALSE, !.down = <<>>]]
        /\ UNCHANGED <<meta, rows, disk, sweep, srv, opened, down, announced, crashes>>

\* The client loses a connection: what it wrote last may or may not have arrived.
Break == \E c \in Conn :
  /\ net[c].live
  /\ \E k \in {net[c].up, NoChunk} : net' = [net EXCEPT ![c] = [up |-> k, down |-> <<>>, live |-> FALSE]]
  /\ UNCHANGED <<storage, srv, opened, up, down, announced, crashes>>

-----------------------------------------------------------------------------
\* The handler of an upload connection: _process_upload.

To(c, pc, k) == srv' = [srv EXCEPT ![c] = [pc |-> pc, cur |-> k]]
\* A write is lost, and may raise, if the client has lost the connection.
Say(c, reply, next) ==
  /\ net' = IF net[c].live THEN [net EXCEPT ![c].down = Append(@, reply)] ELSE net
  /\ To(c, next, NoChunk) \/ (~net[c].live /\ To(c, "closed", NoChunk))

\* Mutant of Lookup: there is no limit to the waiting.
LookupForever(c) == /\ srv[c].pc = "lookup" /\ meta
                    /\ To(c, "have", NoChunk)
                    /\ UNCHANGED <<storage, net, opened, up, down, announced, crashes>>
\* get_file, again and again for five seconds.
Lookup(c) == /\ srv[c].pc = "lookup"
             /\ IF meta THEN To(c, "have", NoChunk) ELSE To(c, "closed", NoChunk)
             /\ UNCHANGED <<storage, net, opened, up, down, announced, crashes>>

\* get_chunks and the HAVE line.
Have(c) == /\ srv[c].pc = "have"
           /\ Say(c, [type |-> "HAVE", set |-> Range(rows)], "count")
           /\ UNCHANGED <<storage, opened, up, down, announced, crashes>>

\* count_delivered: read another chunk, or say DONE.
Count(c) ==
  /\ srv[c].pc = "count"
  /\ IF Len(rows) < Total
       THEN To(c, "read", NoChunk) /\ UNCHANGED net
       ELSE Say(c, [type |-> "DONE"], "notify")
  /\ UNCHANGED <<storage, opened, up, down, announced, crashes>>

\* Mutant of Receive: the data is written behind.
ReceiveUnwritten(c) ==
  /\ srv[c].pc = "read" /\ net[c].up # NoChunk
  /\ net' = [net EXCEPT ![c].up = NoChunk]
  /\ To(c, "row", net[c].up)
  /\ UNCHANGED <<storage, opened, up, down, announced, crashes>>
\* Read a chunk and write its data file.
Receive(c) ==
  LET k == net[c].up
  IN /\ srv[c].pc = "read" /\ k # NoChunk
     /\ net' = [net EXCEPT ![c].up = NoChunk]
     /\ disk' = [disk EXCEPT ![k] = "whole"]
     /\ To(c, "row", k)
     /\ UNCHANGED <<init, meta, rows, sweep, opened, up, down, announced, crashes>>

\* IncompleteReadError, or the exception of a lost connection.
HangUp(c) == /\ srv[c].pc = "read" /\ net[c].up = NoChunk /\ ~net[c].live
             /\ To(c, "closed", NoChunk)
             /\ UNCHANGED <<storage, net, opened, up, down, announced, crashes>>

\* Mutant of AddChunk: the table has no UNIQUE(file_id, chunk_index).
AddChunkAgain(c) ==
  /\ srv[c].pc = "row"
  /\ rows' = Append(rows, srv[c].cur)
  /\ Say(c, [type |-> "ACK"], "count")
  /\ UNCHANGED <<init, meta, disk, sweep, opened, up, down, announced, crashes>>
\* INSERT OR IGNORE, then the ACK.
AddChunk(c) ==
  LET k == srv[c].cur
  IN /\ srv[c].pc = "row"
     /\ rows' = IF k \in Range(rows) THEN rows ELSE Append(rows, k)
     /\ Say(c, [type |-> "ACK"], "count")
     /\ UNCHANGED <<init, meta, disk, sweep, opened, up, down, announced, crashes>>

\* FILE_DONE to the recipient; a send that fails is not repeated.
Notify(c) == /\ srv[c].pc = "notify"
             /\ announced' \in {announced, TRUE}
             /\ To(c, "closed", NoChunk)
             /\ UNCHANGED <<storage, net, opened, up, down, crashes>>

Serve(c) == \/ Lookup(c) \/ Have(c) \/ Count(c) \/ Receive(c) \/ HangUp(c)
            \/ AddChunk(c) \/ Notify(c)

-----------------------------------------------------------------------------
\* A download: receive at the recipient and _process_download at the server.  The
\* order of the frames does not matter to the recipient, which files them by index.

DownTo(d, r) == /\ down' = [down EXCEPT ![d] = r]
                /\ UNCHANGED <<storage, srv, net, opened, up, announced, crashes>>
Accept(d) == /\ down[d].pc = "none" /\ init = "handled"
             /\ DownTo(d, [NoFrames EXCEPT !.pc = "lookup"])
DownLookup(d) == /\ down[d].pc = "lookup"
                 /\ DownTo(d, [NoFrames EXCEPT !.pc = IF meta THEN "rows" ELSE "failed"])
DownRows(d) == /\ down[d].pc = "rows"
               /\ DownTo(d, [down[d] EXCEPT !.pc = "frames", !.todo = rows])

\* One frame; a missing data file ends the stream, one cut short does not decrypt.
Frame(d) ==
  LET r == down[d]
      k == Head(r.todo)
  IN /\ r.pc = "frames"
     /\ IF r.todo = <<>> \/ (r.todo # <<>> /\ disk[k] # "whole")
          THEN DownTo(d, [NoFrames EXCEPT !.pc = "failed"])
          ELSE DownTo(d, [pc |-> IF r.frames + 1 = Total THEN "complete" ELSE "frames",
                          todo |-> Tail(r.todo), frames |-> r.frames + 1, got |-> r.got \cup {k}])

DownBreak(d) == /\ down[d].pc \in {"lookup", "rows", "frames"}
                /\ DownTo(d, [NoFrames EXCEPT !.pc = "failed"])

Deliver(d) == DownLookup(d) \/ DownRows(d) \/ Frame(d)

-----------------------------------------------------------------------------
\* cleanup_expired, and kills of the server.

RemoveData == /\ Expires /\ meta /\ sweep \in {"no", "cut"}
              /\ disk' = [k \in Chunk |-> "none"] /\ sweep' = "deleting"
              /\ UNCHANGED <<init, meta, rows, srv, net, opened, up, down, announced, crashes>>
RemoveRows == /\ sweep = "deleting"
              /\ rows' = <<>> /\ meta' = FALSE /\ sweep' = "done"
              /\ UNCHANGED <<init, disk, srv, net, opened, up, down, announced, crashes>>

\* All handlers end, and a chunk that was being written may be cut short.  A
\* clean-up starts over: the file is still expired.
Crash ==
  /\ crashes < MaxCrash /\ crashes' = crashes + 1
  /\ srv' = [c \in Conn |-> IF srv[c].pc = "none" THEN srv[c]
                            ELSE [pc |-> "closed", cur |-> NoChunk]]
  /\ net' = [c \in Conn |-> [net[c] EXCEPT !.up = NoChunk]]
  /\ \E torn \in SUBSET {srv[c].cur : c \in {x \in Conn : srv[x].pc = "row"}} :
       disk' = [k \in Chunk |-> IF k \in torn THEN "torn" ELSE disk[k]]
  /\ down' = [d \in Download |-> IF down[d].pc \in {"lookup", "rows", "frames"}
                                 THEN [NoFrames EXCEPT !.pc = "failed"] ELSE down[d]]
  /\ sweep' = IF sweep = "deleting" THEN "cut" ELSE sweep
  /\ UNCHANGED <<init, meta, rows, opened, up, announced>>

UploadStep == \/ Open \/ Refused \/ LoopEnds \/ Broken
              \/ ReadHave \/ WriteChunk \/ ReadAck \/ ReadLast

FtNext == \/ HandleInit \/ LoseInit \/ Send \/ Resume \/ UploadStep \/ Quit \/ Break
          \/ RemoveData \/ RemoveRows \/ Crash
          \/ \E c \in Conn : Serve(c)
          \/ \E d \in Download : Accept(d) \/ Deliver(d) \/ DownBreak(d)

\* Both event loops run what can run; connections need not fail, users not act.
FtFairness == WF_ftVars(UploadStep) /\ \A c \in Conn : WF_ftVars(Serve(c))

FtSpec == FtInit /\ [][FtNext]_ftVars /\ FtFairness

-----------------------------------------------------------------------------
\* Properties.  Once the clean-up has begun (sweep) the file may go.

FtTypeOK ==
  /\ init \in {"unsent", "queued", "handled", "lost"} /\ meta \in BOOLEAN
  /\ rows \in Seq(Chunk) /\ Len(rows) <= Total /\ disk \in [Chunk -> {"none", "torn", "whole"}]
  /\ sweep \in {"no", "deleting", "cut", "done"}
  /\ srv \in [Conn -> [pc : {"none", "lookup", "have", "count", "read", "notify", "closed"},
                       cur : {NoChunk}] \cup [pc : {"row"}, cur : Chunk]]
  /\ net \in [Conn -> [up : Chunk \cup {NoChunk}, down : Seq(Reply), live : BOOLEAN]]
  /\ opened \in 0..MaxConn
  /\ up \in [pc : Working \cup {"idle", "returned", "raised"}, cmd : {"send", "resume"},
             conn : 0..MaxConn, have : SUBSET Chunk, next : 0..Total, sent : 0..Total,
             attempt : 0..MaxAttempts]
  /\ down \in [Download -> [pc : {"none", "lookup", "rows", "frames", "complete", "failed"},
                            todo : Seq(Chunk), frames : 0..Total, got : SUBSET Chunk]]
  /\ announced \in BOOLEAN /\ crashes \in 0..MaxCrash

Stored == Range(rows) = Chunk

\* An upload that returns, and so marks the file complete, and one of which the
\* recipient hears FILE_DONE, from the server or the uploader, left every chunk at
\* the server: over retries, resumed uploads, lost connections, handlers of earlier
\* connections still at work, and kills of the server.
SentIsStored == (up.pc = "returned" \/ announced) /\ sweep = "no" => Stored

\* A chunk the server says it HAVEs, and will not be sent again, has a data file:
\* the row is written after it, whenever the server is killed.
RowHasData == sweep = "no" => \A k \in Range(rows) : disk[k] # "none"

\* A download that is marked complete has every chunk once, although it counts
\* frames and the server sends what rows there are, during uploads and clean-ups.
ReceivedIsComplete == \A d \in Download : down[d].pc = "complete" => down[d].got = Chunk

\* An upload ends, with the file sent or an exception, whatever happens to its
\* connections and to FILE_INIT: client and server never wait for each other.
\* (Of a file that expires this is not so: its rows are gone, the count is never
\* reached, and both sides wait.)
UploadEnds == (up.pc \in Working) ~> (up.pc \notin Working \/ sweep # "no")
=============================================================================
