------------------------- MODULE FileTransferProofs -------------------------
(***************************************************************************)
(* For every number of chunks, attempts, connections, downloads and kills: *)
(* an upload that returns left every chunk at the server, a chunk the      *)
(* server claims has a data file, and a complete download has every chunk. *)
(*                                                                         *)
(* SentIsStored is not inductive: what the uploader concludes rests on     *)
(* what is under way.  FtInv adds what a line on the wire promises         *)
(* (Promises), that at most one chunk is between the two sides             *)
(* (OneAtATime), and that the uploader's count is that of the chunks it    *)
(* knows to be stored (CountIsTrue).                                       *)
(***************************************************************************)
EXTENDS FileTransfer, FiniteSetTheorems, SequenceTheorems, TLAPS

Connected == {"have", "chunk", "ack", "last"}

\* The table of chunks has each chunk at most once (UNIQUE(file_id, chunk_index)).
RowsDistinct == IsInjective(rows)

\* Only the connection of the uploader is alive, and only its replies are kept.
LiveIsCurrent ==
  /\ up.pc \in Connected => up.conn \in 1..opened
  /\ \A c \in Conn : /\ net[c].live => up.pc \in Connected /\ up.conn = c
                     /\ ~net[c].live => net[c].down = <<>>
                     /\ c > opened => net[c].up = NoChunk /\ srv[c].pc = "none"

HasAck(c) == \E i \in DOMAIN net[c].down : net[c].down[i].type = "ACK"

\* A chunk is written, being stored or acknowledged, and the uploader awaits its answer.
OneAtATime ==
  \A c \in Conn : net[c].live =>
    /\ net[c].up # NoChunk => /\ up.pc = "ack" /\ up.next = net[c].up
                              /\ srv[c].pc # "row" /\ ~HasAck(c)
    /\ srv[c].pc = "row" => up.pc = "ack" /\ up.next = srv[c].cur /\ ~HasAck(c)
    /\ HasAck(c) => up.pc = "ack" /\ (sweep = "no" => up.next \in Range(rows))
    /\ \A i, j \in DOMAIN net[c].down :
         net[c].down[i].type = "ACK" /\ net[c].down[j].type = "ACK" => i = j

\* What a handler and its replies say of the store.
Promises ==
  sweep = "no" =>
    \A c \in Conn :
      /\ srv[c].pc = "notify" => Stored
      /\ \A i \in DOMAIN net[c].down :
           /\ net[c].down[i].type = "DONE" => Stored
           /\ net[c].down[i].type = "HAVE" => net[c].down[i].set \subseteq Range(rows)

\* The chunks the uploader knows the server to have.
Known == up.have \cup {k \in Chunk : k < up.next}

CountIsTrue ==
  /\ up.pc = "open" => up.attempt < MaxAttempts /\ (up.sent >= Total /\ sweep = "no" => Stored)
  /\ up.pc = "have" => up.sent < Total
  /\ up.pc \in {"chunk", "ack"} =>
       up.sent = Cardinality(Known) /\ (sweep = "no" => Known \subseteq Range(rows))
  /\ up.pc = "ack" => up.next \in Chunk \ up.have
  /\ up.pc = "last" /\ sweep = "no" => Stored

\* The data file is written before the row.
DataFirst == sweep = "no" => \A c \in Conn : srv[c].pc = "row" => disk[srv[c].cur] # "none"

\* A download gets rows of a moment, none twice.
FramesDistinct ==
  \A d \in Download :
    /\ down[d].pc = "rows" => down[d].frames = 0 /\ down[d].got = {}
    /\ down[d].pc = "frames" => /\ IsInjective(down[d].todo)
                                /\ down[d].got \cap Range(down[d].todo) = {}
                                /\ Cardinality(down[d].got) = down[d].frames
                                /\ down[d].frames < Total

FtInv == /\ FtTypeOK /\ RowsDistinct /\ LiveIsCurrent /\ OneAtATime /\ Promises /\ CountIsTrue
         /\ DataFirst /\ FramesDistinct
         /\ SentIsStored /\ RowHasData /\ ReceivedIsComplete

-----------------------------------------------------------------------------
\* Facts about chunks, sequences without repetition and lines on the wire.

LEMMA ZeroIsInRange ==
  0 \in 0..MaxConn /\ 0 \in 0..Total /\ 0 \in 0..MaxAttempts /\ 0 \in 0..MaxCrash
BY TransferAssumption

LEMMA ChunkFinite == IsFiniteSet(Chunk) /\ Cardinality(Chunk) = Total
BY FS_Interval, TransferAssumption DEF Chunk

LEMMA SubsetOfChunk ==
  ASSUME NEW S \in SUBSET Chunk
  PROVE  /\ IsFiniteSet(S) /\ Cardinality(S) \in 0..Total
         /\ Cardinality(S) >= Total => S = Chunk
BY ChunkFinite, FS_Subset, FS_CardinalityType, TransferAssumption

LEMMA DistinctBound ==
  ASSUME NEW s \in Seq(Chunk), IsInjective(s)
  PROVE  Len(s) <= Total /\ (Len(s) >= Total => Range(s) = Chunk)
<1>1. s \in Injection(1..Len(s), Chunk)
  BY LenProperties DEF Injection
<1>2. Len(s) \in Nat /\ Cardinality(1..Len(s)) = Len(s)
  <2>1. Len(s) \in Int /\ Len(s) >= 0
    BY LenProperties
  <2>2. Cardinality(1..Len(s)) = IF 1 > Len(s) THEN 0 ELSE Len(s) - 1 + 1
    BY <2>1, FS_Interval
  <2> QED  BY <2>1, <2>2
<1>3. /\ Cardinality(1..Len(s)) <= Cardinality(Chunk)
      /\ Cardinality(1..Len(s)) = Cardinality(Chunk) <=> s \in Surjection(1..Len(s), Chunk)
  BY <1>1, ChunkFinite, FS_Injection
<1>4. Len(s) <= Total
  BY <1>2, <1>3, ChunkFinite
<1>5. ASSUME Len(s) >= Total PROVE Range(s) = Chunk
  <2>1. s \in Surjection(1..Len(s), Chunk)
    BY <1>1, <1>2, <1>3, <1>5, ChunkFinite, TransferAssumption
  <2> QED  BY <2>1, LenProperties DEF Surjection, Range
<1> QED  BY <1>4, <1>5

LEMMA AppendDistinct ==
  ASSUME NEW s \in Seq(Chunk), IsInjective(s), NEW k \in Chunk, k \notin Range(s)
  PROVE  /\ Append(s, k) \in Seq(Chunk) /\ IsInjective(Append(s, k))
         /\ Range(Append(s, k)) = Range(s) \cup {k}
<1>1. Append(s, k) \in Seq(Chunk) /\ Len(Append(s, k)) = Len(s) + 1
      /\ \A i \in 1..Len(s) : Append(s, k)[i] = s[i]
      /\ Append(s, k)[Len(s) + 1] = k
  BY AppendProperties
<1>2. /\ DOMAIN s = 1..Len(s) /\ DOMAIN Append(s, k) = 1..(Len(s) + 1) /\ Len(s) \in Nat
  BY <1>1, LenProperties
<1>3. IsInjective(Append(s, k))
  BY <1>1, <1>2 DEF IsInjective, Range
<1>4. Range(Append(s, k)) = Range(s) \cup {k}
  BY <1>1, <1>2 DEF Range
<1> QED  BY <1>1, <1>3, <1>4

LEMMA TailDistinct ==
  ASSUME NEW s \in Seq(Chunk), IsInjective(s), s # <<>>
  PROVE  /\ Head(s) \in Chunk /\ Tail(s) \in Seq(Chunk) /\ IsInjective(Tail(s))
         /\ Range(s) = Range(Tail(s)) \cup {Head(s)} /\ Head(s) \notin Range(Tail(s))
<1>1. /\ Head(s) \in Chunk /\ Tail(s) \in Seq(Chunk) /\ Len(Tail(s)) = Len(s) - 1
      /\ \A i \in 1..Len(Tail(s)) : Tail(s)[i] = s[i + 1]
  BY HeadTailProperties
<1>2. /\ Len(s) \in Nat \ {0} /\ DOMAIN s = 1..Len(s) /\ DOMAIN Tail(s) = 1..(Len(s) - 1)
      /\ Head(s) = s[1]
  BY <1>1, LenProperties, EmptySeq
<1>3. \A i \in 1..(Len(s) - 1) : Tail(s)[i] = s[i + 1] /\ i + 1 \in 1..Len(s)
  BY <1>1, <1>2
<1>4. IsInjective(Tail(s))
  BY <1>2, <1>3 DEF IsInjective
<1>5. Head(s) \notin Range(Tail(s))
  BY <1>2, <1>3 DEF IsInjective, Range
<1>6. Range(s) = Range(Tail(s)) \cup {Head(s)}
  <2>1. ASSUME NEW i \in 1..Len(s), i # 1 PROVE i - 1 \in DOMAIN Tail(s) /\ s[i] = Tail(s)[i - 1]
    BY <1>2, <1>3, <2>1
  <2>2. ASSUME NEW x \in Range(s) PROVE x \in Range(Tail(s)) \cup {Head(s)}
    <3>1. PICK i \in 1..Len(s) : x = s[i]
      BY <1>2 DEF Range
    <3>2. i # 1 => \E j \in DOMAIN Tail(s) : x = Tail(s)[j]
      BY <2>1, <3>1
    <3>3. i # 1 => x \in Range(Tail(s))
      BY <3>2 DEF Range
    <3> QED  BY <1>2, <3>1, <3>3
  <2>3. \A x \in Range(Tail(s)) \cup {Head(s)} : x \in Range(s)
    BY <1>2, <1>3 DEF Range
  <2> QED  BY <2>2, <2>3
<1> QED  BY <1>1, <1>4, <1>5, <1>6

LEMMA RangeOfChunks ==
  ASSUME NEW s \in Seq(Chunk)
  PROVE  Range(s) \subseteq Chunk
BY LenProperties DEF Range

LEMMA Said ==
  ASSUME NEW q \in Seq(Reply), NEW r \in Reply
  PROVE  /\ Append(q, r) \in Seq(Reply)
         /\ DOMAIN Append(q, r) = DOMAIN q \cup {Len(q) + 1} /\ Len(q) + 1 \notin DOMAIN q
         /\ \A i \in DOMAIN q : Append(q, r)[i] = q[i]
         /\ Append(q, r)[Len(q) + 1] = r
BY AppendProperties, LenProperties

LEMMA Heard ==
  ASSUME NEW q \in Seq(Reply), q # <<>>
  PROVE  /\ Head(q) \in Reply /\ Head(q) = q[1] /\ 1 \in DOMAIN q /\ Tail(q) \in Seq(Reply)
         /\ \A i \in DOMAIN Tail(q) : i + 1 \in DOMAIN q /\ i + 1 # 1 /\ Tail(q)[i] = q[i + 1]
         /\ \A i, j \in DOMAIN Tail(q) : i + 1 = j + 1 => i = j
<1>1. /\ Head(q) \in Reply /\ Tail(q) \in Seq(Reply) /\ Len(Tail(q)) = Len(q) - 1
      /\ \A i \in 1..Len(Tail(q)) : Tail(q)[i] = q[i + 1]
  BY HeadTailProperties
<1>2. Len(q) \in Nat \ {0} /\ DOMAIN q = 1..Len(q) /\ DOMAIN Tail(q) = 1..(Len(q) - 1)
  BY <1>1, LenProperties, EmptySeq
<1> QED  BY <1>1, <1>2

-----------------------------------------------------------------------------
\* FILE_INIT, and the downloads: what the upload rests on stays as it is.

\* What the properties of one download say of its record.
FramesOf(r) ==
  /\ r.pc = "rows" => r.frames = 0 /\ r.got = {}
  /\ r.pc = "frames" => /\ IsInjective(r.todo) /\ r.got \cap Range(r.todo) = {}
                        /\ Cardinality(r.got) = r.frames /\ r.frames < Total
  /\ r.pc = "complete" => r.got = Chunk
FrameRecord == [pc : {"none", "lookup", "rows", "frames", "complete", "failed"},
                todo : Seq(Chunk), frames : 0..Total, got : SUBSET Chunk]

LEMMA FtInitInv == FtInit => FtInv
<1> SUFFICES ASSUME FtInit PROVE FtInv
  OBVIOUS
<1>1. FtTypeOK
  <2>1. /\ <<>> \in Seq(Chunk) /\ <<>> \in Seq(Reply) /\ Len(<<>>) = 0
        /\ 0 \in 0..MaxConn /\ 0 \in 0..Total /\ 0 \in 0..MaxAttempts /\ 0 \in 0..MaxCrash
    BY EmptySeq, TransferAssumption
  <2>2. NoLocals \in [pc : Working \cup {"idle", "returned", "raised"}, cmd : {"send", "resume"},
                      conn : 0..MaxConn, have : SUBSET Chunk, next : 0..Total, sent : 0..Total,
                      attempt : 0..MaxAttempts]
    BY <2>1 DEF NoLocals
  <2>3. NoFrames \in FrameRecord
    BY <2>1 DEF NoFrames, FrameRecord
  <2>4. [c \in Conn |-> [up |-> NoChunk, down |-> <<>>, live |-> FALSE]]
          \in [Conn -> [up : Chunk \cup {NoChunk}, down : Seq(Reply), live : BOOLEAN]]
    BY <2>1
  <2>5. [c \in Conn |-> [pc |-> "none", cur |-> NoChunk]]
          \in [Conn -> [pc : {"none", "lookup", "have", "count", "read", "notify", "closed"},
                        cur : {NoChunk}] \cup [pc : {"row"}, cur : Chunk]]
    OBVIOUS
  <2>6. Len(rows) <= Total /\ rows \in Seq(Chunk) /\ disk \in [Chunk -> {"none", "torn", "whole"}]
    BY <2>1, TransferAssumption DEF FtInit
  <2> QED  BY <2>1, <2>2, <2>3, <2>4, <2>5, <2>6 DEF FtInit, FtTypeOK, FrameRecord
<1>2. RowsDistinct /\ SentIsStored /\ RowHasData /\ ReceivedIsComplete /\ FramesDistinct
  BY DEF FtInit, RowsDistinct, IsInjective, SentIsStored, RowHasData, Range, ReceivedIsComplete,
     FramesDistinct, NoLocals, NoFrames
<1>3. LiveIsCurrent /\ OneAtATime /\ Promises /\ CountIsTrue /\ DataFirst
  BY DEF FtInit, LiveIsCurrent, OneAtATime, Promises, CountIsTrue, DataFirst, Connected, NoLocals
<1> QED  BY <1>1, <1>2, <1>3 DEF FtInv

LEMMA InitInv ==
  ASSUME FtInv, HandleInit \/ LoseInit
  PROVE  FtInv'
<1>1. UNCHANGED <<rows, disk, sweep, srv, net, opened, up, down, announced, crashes>>
  BY DEF HandleInit, LoseInit
<1>2. FtTypeOK'
  BY <1>1 DEF FtInv, FtTypeOK, HandleInit, LoseInit
<1>3. RowsDistinct' /\ LiveIsCurrent' /\ OneAtATime' /\ Promises'
  BY <1>1 DEF FtInv, RowsDistinct, LiveIsCurrent, OneAtATime, Promises, HasAck, Stored
<1>4. CountIsTrue' /\ DataFirst' /\ FramesDistinct'
  BY <1>1 DEF FtInv, CountIsTrue, DataFirst, FramesDistinct, Known, Stored
<1>5. SentIsStored' /\ RowHasData' /\ ReceivedIsComplete'
  BY <1>1 DEF FtInv, SentIsStored, RowHasData, ReceivedIsComplete, Stored
<1> QED  BY <1>2, <1>3, <1>4, <1>5 DEF FtInv

LEMMA DownToInv ==
  ASSUME FtInv, NEW d \in Download, NEW r \in FrameRecord, FramesOf(r), DownTo(d, r)
  PROVE  FtInv'
<1>1. UNCHANGED <<init, meta, rows, disk, sweep, srv, net, opened, up, announced, crashes>>
  BY DEF DownTo, storage
<1>2. down' = [down EXCEPT ![d] = r]
  BY DEF DownTo
<1>3. FtTypeOK'
  BY <1>1, <1>2 DEF FtInv, FtTypeOK, FrameRecord
<1>4. RowsDistinct' /\ LiveIsCurrent' /\ OneAtATime' /\ Promises'
  BY <1>1 DEF FtInv, RowsDistinct, LiveIsCurrent, OneAtATime, Promises, HasAck, Stored
<1>5. CountIsTrue' /\ DataFirst' /\ SentIsStored' /\ RowHasData'
  BY <1>1 DEF FtInv, CountIsTrue, DataFirst, SentIsStored, RowHasData, Known, Stored
<1>6. \A e \in Download : down'[e] = IF e = d THEN r ELSE down[e]
  BY <1>2 DEF FtInv, FtTypeOK
<1>7. FramesDistinct' /\ ReceivedIsComplete'
  BY <1>6 DEF FtInv, FramesDistinct, ReceivedIsComplete, FramesOf
<1> QED  BY <1>3, <1>4, <1>5, <1>7 DEF FtInv

LEMMA FailedFrames ==
  /\ NoFrames \in FrameRecord /\ FramesOf(NoFrames)
  /\ \A pc \in {"lookup", "rows", "failed"} :
       /\ [NoFrames EXCEPT !.pc = pc] \in FrameRecord
       /\ FramesOf([NoFrames EXCEPT !.pc = pc])
<1>1. <<>> \in Seq(Chunk) /\ 0 \in 0..Total
  BY EmptySeq, TransferAssumption
<1>2. NoFrames \in FrameRecord /\ FramesOf(NoFrames)
  BY <1>1 DEF NoFrames, FrameRecord, FramesOf
<1>3. ASSUME NEW pc \in {"lookup", "rows", "failed"}
      PROVE  /\ [NoFrames EXCEPT !.pc = pc] \in FrameRecord
             /\ FramesOf([NoFrames EXCEPT !.pc = pc])
  <2> DEFINE n == [NoFrames EXCEPT !.pc = pc]
  <2>1. NoFrames.frames = 0 /\ NoFrames.got = {}
    BY DEF NoFrames
  <2>2. n \in FrameRecord /\ n.pc = pc /\ n.frames = NoFrames.frames /\ n.got = NoFrames.got
    BY <1>2 DEF FrameRecord
  <2> QED  BY <2>1, <2>2 DEF FramesOf
<1> QED  BY <1>2, <1>3

LEMMA FrameInv ==
  ASSUME FtInv, NEW d \in Download, Frame(d)
  PROVE  FtInv'
<1> DEFINE r == down[d]
           k == Head(r.todo)
           n == [pc |-> IF r.frames + 1 = Total THEN "complete" ELSE "frames",
                 todo |-> Tail(r.todo), frames |-> r.frames + 1, got |-> r.got \cup {k}]
<1>1. r \in FrameRecord /\ r.pc = "frames"
  BY DEF FtInv, FtTypeOK, FrameRecord, Frame
<1>2. CASE r.todo = <<>> \/ (r.todo # <<>> /\ disk[k] # "whole")
  <2>1. DownTo(d, [NoFrames EXCEPT !.pc = "failed"])
    BY <1>2 DEF Frame
  <2> QED  BY <2>1, FailedFrames, DownToInv
<1>3. CASE r.todo # <<>> /\ disk[k] = "whole"
  <2>1. DownTo(d, n)
    BY <1>3 DEF Frame
  <2>2. /\ r.todo \in Seq(Chunk) /\ r.got \in SUBSET Chunk /\ r.frames \in Nat
        /\ IsInjective(r.todo) /\ r.got \cap Range(r.todo) = {}
        /\ Cardinality(r.got) = r.frames /\ r.frames < Total
    BY <1>1 DEF FrameRecord, FtInv, FramesDistinct
  <2>3. /\ k \in Chunk /\ Tail(r.todo) \in Seq(Chunk) /\ IsInjective(Tail(r.todo))
        /\ Range(r.todo) = Range(Tail(r.todo)) \cup {k} /\ k \notin Range(Tail(r.todo))
    BY <2>2, <1>3, TailDistinct
  <2>4. r.got \cup {k} \in SUBSET Chunk /\ Cardinality(r.got \cup {k}) = r.frames + 1
    <3>1. k \notin r.got
      BY <2>2, <2>3
    <3> QED  BY <2>2, <2>3, <3>1, SubsetOfChunk, FS_AddElement
  <2>5. r.frames + 1 \in 0..Total /\ (r.frames + 1 # Total => r.frames + 1 < Total)
    BY <2>2, TransferAssumption
  <2>6. r.frames + 1 = Total => r.got \cup {k} = Chunk
    BY <2>4, SubsetOfChunk, TransferAssumption
  <2>7. (r.got \cup {k}) \cap Range(Tail(r.todo)) = {}
    BY <2>2, <2>3
  <2>8. n \in FrameRecord
    BY <2>3, <2>4, <2>5 DEF FrameRecord
  <2>9. FramesOf(n)
    BY <2>3, <2>4, <2>5, <2>6, <2>7 DEF FramesOf
  <2> QED  BY <2>1, <2>8, <2>9, DownToInv
<1> QED  BY <1>2, <1>3

LEMMA DownloadInv ==
  ASSUME FtInv, NEW d \in Download, Accept(d) \/ Deliver(d) \/ DownBreak(d)
  PROVE  FtInv'
<1>1. CASE Accept(d)
  BY <1>1, FailedFrames, DownToInv DEF Accept
<1>2. CASE DownLookup(d)
  <2>1. DownTo(d, [NoFrames EXCEPT !.pc = "rows"]) \/ DownTo(d, [NoFrames EXCEPT !.pc = "failed"])
    BY <1>2 DEF DownLookup
  <2> QED  BY <2>1, FailedFrames, DownToInv
<1>3. CASE DownRows(d)
  <2> DEFINE n == [down[d] EXCEPT !.pc = "frames", !.todo = rows]
  <2>1. /\ down[d] \in FrameRecord /\ down[d].frames = 0 /\ down[d].got = {}
        /\ rows \in Seq(Chunk) /\ IsInjective(rows)
    BY <1>3 DEF DownRows, FtInv, FtTypeOK, FrameRecord, FramesDistinct, RowsDistinct
  <2>2. n \in FrameRecord
    BY <2>1 DEF FrameRecord
  <2>3. n.pc = "frames" /\ n.todo = rows /\ n.frames = 0 /\ n.got = {}
    BY <2>1 DEF FrameRecord
  <2>4. FramesOf(n)
    <3>1. IsInjective(n.todo)
      BY <2>1, <2>3
    <3>2. n.got \cap Range(n.todo) = {} /\ Cardinality(n.got) = 0 /\ n.frames < Total
      BY <2>3, FS_EmptySet, TransferAssumption
    <3> QED  BY <2>3, <3>1, <3>2 DEF FramesOf
  <2> QED  BY <1>3, <2>2, <2>4, DownToInv DEF DownRows
<1>4. CASE Frame(d)
  BY <1>4, FrameInv
<1>5. CASE DownBreak(d)
  BY <1>5, FailedFrames, DownToInv DEF DownBreak
<1> QED  BY <1>1, <1>2, <1>3, <1>4, <1>5 DEF Deliver

-----------------------------------------------------------------------------
\* The handler of an upload connection.

HandlerRecord == [pc : {"none", "lookup", "have", "count", "read", "notify", "closed"},
                  cur : {NoChunk}] \cup [pc : {"row"}, cur : Chunk]
LineRecord == [up : Chunk \cup {NoChunk}, down : Seq(Reply), live : BOOLEAN]

\* A step that moves a handler on without a word to the client.
LEMMA ToInv ==
  ASSUME FtInv, NEW c \in Conn, srv[c].pc # "none",
         NEW pc \in {"have", "read", "closed"}, To(c, pc, NoChunk),
         UNCHANGED <<storage, net, opened, up, down, crashes>>,
         announced' \in BOOLEAN, announced' /\ sweep = "no" => announced \/ Stored
  PROVE  FtInv'
<1>1. UNCHANGED <<init, meta, rows, disk, sweep, net, opened, up, down, crashes>>
  BY DEF storage
<1>2. srv' = [srv EXCEPT ![c] = [pc |-> pc, cur |-> NoChunk]]
  BY DEF To
<1>3. /\ srv'[c].pc = pc
      /\ \A x \in Conn : x # c => srv'[x] = srv[x]
  BY <1>2 DEF FtInv, FtTypeOK
<1>4. FtTypeOK'
  BY <1>1, <1>2 DEF FtInv, FtTypeOK
<1>5. RowsDistinct' /\ FramesDistinct' /\ ReceivedIsComplete' /\ RowHasData'
  BY <1>1 DEF FtInv, RowsDistinct, FramesDistinct, ReceivedIsComplete, RowHasData
<1>6. LiveIsCurrent'
  BY <1>1, <1>3 DEF FtInv, LiveIsCurrent
<1>7. OneAtATime'
  BY <1>1, <1>3 DEF FtInv, OneAtATime, HasAck
<1>8. Promises' /\ DataFirst'
  BY <1>1, <1>3 DEF FtInv, Promises, DataFirst, Stored
<1>9. CountIsTrue' /\ SentIsStored'
  BY <1>1 DEF FtInv, CountIsTrue, SentIsStored, Known, Stored
<1> QED  BY <1>4, <1>5, <1>6, <1>7, <1>8, <1>9 DEF FtInv

\* A step that says something to the client, in which rows may have been added.
LEMMA SayInv ==
  ASSUME FtInv, NEW c \in Conn, srv[c].pc # "none",
         NEW reply \in Reply, NEW next \in {"count", "notify"}, Say(c, reply, next),
         UNCHANGED <<init, meta, disk, sweep, opened, up, down, announced, crashes>>,
         rows' \in Seq(Chunk), IsInjective(rows'), Range(rows) \subseteq Range(rows'),
         sweep = "no" => \A k \in Range(rows') : disk[k] # "none",
         next = "notify" \/ reply.type = "DONE" => Stored',
         reply.type = "HAVE" => reply.set \subseteq Range(rows'),
         reply.type = "ACK" => srv[c].pc = "row" /\ srv[c].cur \in Range(rows')
  PROVE  FtInv'
<1> USE DEF FtInv
<1>1. PICK pc \in {"count", "notify", "closed"} :
        /\ srv' = [srv EXCEPT ![c] = [pc |-> pc, cur |-> NoChunk]]
        /\ pc \in {next, "closed"}
  BY DEF Say, To
<1>2. net' = IF net[c].live THEN [net EXCEPT ![c].down = Append(@, reply)] ELSE net
  BY DEF Say
<1>3. net[c] \in LineRecord /\ net[c].down \in Seq(Reply)
  BY DEF FtTypeOK, LineRecord
<1>4. /\ Append(net[c].down, reply) \in Seq(Reply)
      /\ DOMAIN Append(net[c].down, reply) = DOMAIN net[c].down \cup {Len(net[c].down) + 1}
      /\ Len(net[c].down) + 1 \notin DOMAIN net[c].down
      /\ \A i \in DOMAIN net[c].down : Append(net[c].down, reply)[i] = net[c].down[i]
      /\ Append(net[c].down, reply)[Len(net[c].down) + 1] = reply
  BY <1>3, Said
<1>5. FtTypeOK'
  <2>1. srv' \in [Conn -> HandlerRecord]
    BY <1>1 DEF FtTypeOK, HandlerRecord
  <2>2. net' \in [Conn -> LineRecord]
    <3>1. net \in [Conn -> LineRecord]
      BY DEF FtTypeOK, LineRecord
    <3>2. [net[c] EXCEPT !.down = Append(@, reply)] \in LineRecord
      BY <1>3, <1>4 DEF LineRecord
    <3>3. net' = net \/ net' = [net EXCEPT ![c] = [net[c] EXCEPT !.down = Append(@, reply)]]
      BY <1>2, <3>1
    <3> QED  BY <3>1, <3>2, <3>3
  <2>3. Len(rows') <= Total
    BY DistinctBound
  <2> QED  BY <2>1, <2>2, <2>3 DEF FtTypeOK, HandlerRecord, LineRecord
<1>6. /\ srv'[c].pc = pc /\ \A x \in Conn : x # c => srv'[x] = srv[x]
      /\ net'[c].up = net[c].up /\ net'[c].live = net[c].live
      /\ net'[c].down = IF net[c].live THEN Append(net[c].down, reply) ELSE net[c].down
      /\ \A x \in Conn : x # c => net'[x] = net[x]
  BY <1>1, <1>2 DEF FtTypeOK
<1>7. RowsDistinct' /\ FramesDistinct' /\ ReceivedIsComplete' /\ RowHasData'
  BY DEF RowsDistinct, FramesDistinct, ReceivedIsComplete, RowHasData
<1>8. LiveIsCurrent'
  BY <1>1, <1>6 DEF LiveIsCurrent
<1>9. Stored => Stored'
  BY RangeOfChunks DEF Stored
<1>10. OneAtATime'
  <2> SUFFICES ASSUME NEW x \in Conn, net'[x].live
               PROVE  (/\ net[x].up # NoChunk => /\ up.pc = "ack" /\ up.next = net[x].up
                                                 /\ srv[x].pc # "row" /\ ~HasAck(x)
                       /\ srv[x].pc = "row" => up.pc = "ack" /\ up.next = srv[x].cur /\ ~HasAck(x)
                       /\ HasAck(x) => up.pc = "ack" /\ (sweep = "no" => up.next \in Range(rows))
                       /\ \A i, j \in DOMAIN net[x].down :
                            net[x].down[i].type = "ACK" /\ net[x].down[j].type = "ACK" => i = j)'
    BY DEF OneAtATime
  <2>1. CASE x # c
    BY <1>6, <2>1 DEF OneAtATime, HasAck
  <2>2. CASE x = c /\ reply.type # "ACK"
    <3>1. HasAck(c)' <=> HasAck(c)
      BY <1>4, <1>6, <2>2 DEF HasAck
    <3>2. \A i, j \in DOMAIN net'[c].down :
             net'[c].down[i].type = "ACK" /\ net'[c].down[j].type = "ACK" => i = j
      BY <1>4, <1>6, <2>2 DEF OneAtATime
    <3> QED  BY <1>1, <1>6, <2>2, <3>1, <3>2 DEF OneAtATime
  <2>3. CASE x = c /\ reply.type = "ACK"
    <3>1. up.pc = "ack" /\ up.next = srv[c].cur /\ ~HasAck(c) /\ net[c].up = NoChunk
      BY <1>6, <2>3 DEF OneAtATime
    <3>2. \A i, j \in DOMAIN net'[c].down :
             net'[c].down[i].type = "ACK" /\ net'[c].down[j].type = "ACK" => i = j
      BY <1>4, <1>6, <2>3, <3>1 DEF HasAck
    <3> QED  BY <1>1, <1>6, <2>3, <3>1, <3>2
  <2> QED  BY <2>1, <2>2, <2>3
<1>11. Promises'
  <2> SUFFICES ASSUME sweep = "no", NEW x \in Conn
               PROVE  (/\ srv[x].pc = "notify" => Stored
                       /\ \A i \in DOMAIN net[x].down :
                            /\ net[x].down[i].type = "DONE" => Stored
                            /\ net[x].down[i].type = "HAVE" => net[x].down[i].set \subseteq Range(rows))'
    BY DEF Promises
  <2>1. CASE x # c
    BY <1>6, <1>9, <2>1 DEF Promises
  <2>2. CASE x = c
    <3>1. srv'[x].pc = "notify" => Stored'
      BY <1>1, <1>6, <2>2
    <3>2. ASSUME NEW i \in DOMAIN net'[c].down
          PROVE  \/ net'[c].down[i] = reply
                 \/ i \in DOMAIN net[c].down /\ net'[c].down[i] = net[c].down[i]
      BY <1>4, <1>6
    <3>3. ASSUME NEW i \in DOMAIN net[c].down
          PROVE  /\ net[c].down[i].type = "DONE" => Stored'
                 /\ net[c].down[i].type = "HAVE" => net[c].down[i].set \subseteq Range(rows')
      BY <1>9 DEF Promises
    <3> QED  BY <2>2, <3>1, <3>2, <3>3
  <2> QED  BY <2>1, <2>2
<1>12. DataFirst'
  BY <1>1, <1>6 DEF DataFirst
<1>13. CountIsTrue'
  BY <1>9 DEF CountIsTrue, Known
<1>14. SentIsStored'
  BY <1>9 DEF SentIsStored
<1> QED  BY <1>5, <1>7, <1>8, <1>10, <1>11, <1>12, <1>13, <1>14

LEMMA FullIsStored ==
  ASSUME FtInv, Len(rows) >= Total
  PROVE  Stored
BY DistinctBound DEF FtInv, FtTypeOK, RowsDistinct, Stored

LEMMA QuietInv ==
  ASSUME FtInv, NEW c \in Conn, Lookup(c) \/ HangUp(c) \/ Notify(c)
  PROVE  FtInv'
<1>1. srv[c].pc # "none" /\ UNCHANGED <<storage, net, opened, up, down, crashes>>
  BY DEF Lookup, HangUp, Notify
<1>2. \E pc \in {"have", "read", "closed"} : To(c, pc, NoChunk)
  BY DEF Lookup, HangUp, Notify
<1>3. announced' \in BOOLEAN /\ (announced' /\ sweep = "no" => announced \/ Stored)
  <2>1. announced \in BOOLEAN
    BY DEF FtInv, FtTypeOK
  <2>2. CASE Notify(c)
    <3>1. announced' \in {announced, TRUE} /\ srv[c].pc = "notify"
      BY <2>2 DEF Notify
    <3>2. sweep = "no" => Stored
      BY <3>1 DEF FtInv, Promises
    <3> QED  BY <2>1, <3>1, <3>2
  <2>3. CASE Lookup(c) \/ HangUp(c)
    <3>1. announced' = announced
      BY <2>3 DEF Lookup, HangUp
    <3> QED  BY <2>1, <3>1
  <2> QED  BY <2>2, <2>3
<1> QED  BY <1>1, <1>2, <1>3, ToInv

LEMMA HaveInv ==
  ASSUME FtInv, NEW c \in Conn, Have(c)
  PROVE  FtInv'
<1> DEFINE reply == [type |-> "HAVE", set |-> Range(rows)]
<1>1. /\ srv[c].pc = "have" /\ Say(c, reply, "count") /\ rows' = rows
      /\ UNCHANGED <<init, meta, disk, sweep, opened, up, down, announced, crashes>>
  BY DEF Have, storage
<1>2. /\ rows \in Seq(Chunk) /\ IsInjective(rows)
      /\ sweep = "no" => \A k \in Range(rows) : disk[k] # "none"
  BY DEF FtInv, FtTypeOK, RowsDistinct, RowHasData
<1>3. reply \in Reply
  BY <1>2, RangeOfChunks DEF Reply
<1> QED  BY <1>1, <1>2, <1>3, SayInv

LEMMA CountInv ==
  ASSUME FtInv, NEW c \in Conn, Count(c)
  PROVE  FtInv'
<1>1. CASE Len(rows) < Total
  BY <1>1, ToInv DEF Count, FtInv, FtTypeOK
<1>2. CASE ~(Len(rows) < Total)
  <2> DEFINE reply == [type |-> "DONE"]
  <2>1. /\ srv[c].pc = "count" /\ Say(c, reply, "notify") /\ rows' = rows
        /\ UNCHANGED <<init, meta, disk, sweep, opened, up, down, announced, crashes>>
    BY <1>2 DEF Count, storage
  <2>2. /\ rows \in Seq(Chunk) /\ IsInjective(rows)
        /\ sweep = "no" => \A k \in Range(rows) : disk[k] # "none"
    BY DEF FtInv, FtTypeOK, RowsDistinct, RowHasData
  <2>3. Stored'
    <3>1. Len(rows) \in Nat
      BY <2>2, LenProperties
    <3> QED  BY <1>2, <2>1, <3>1, FullIsStored, TransferAssumption DEF Stored
  <2>4. reply \in Reply
    BY DEF Reply
  <2> QED  BY <2>1, <2>2, <2>3, <2>4, SayInv
<1> QED  BY <1>1, <1>2

LEMMA AddChunkInv ==
  ASSUME FtInv, NEW c \in Conn, AddChunk(c)
  PROVE  FtInv'
<1> DEFINE k == srv[c].cur
           reply == [type |-> "ACK"]
<1>1. /\ srv[c].pc = "row" /\ Say(c, reply, "count")
      /\ rows' = IF k \in Range(rows) THEN rows ELSE Append(rows, k)
      /\ UNCHANGED <<init, meta, disk, sweep, opened, up, down, announced, crashes>>
  BY DEF AddChunk
<1>2. k \in Chunk /\ rows \in Seq(Chunk) /\ IsInjective(rows)
  BY <1>1 DEF FtInv, FtTypeOK, RowsDistinct
<1>3. rows' \in Seq(Chunk) /\ IsInjective(rows') /\ Range(rows') = Range(rows) \cup {k}
  BY <1>1, <1>2, AppendDistinct
<1>4. sweep = "no" => \A j \in Range(rows') : disk[j] # "none"
  BY <1>1, <1>3 DEF FtInv, RowHasData, DataFirst
<1>5. reply \in Reply
  BY DEF Reply
<1> QED  BY <1>1, <1>3, <1>4, <1>5, SayInv

LEMMA ReceiveInv ==
  ASSUME FtInv, NEW c \in Conn, Receive(c)
  PROVE  FtInv'
<1> DEFINE k == net[c].up
<1> USE DEF FtInv
<1>1. /\ srv[c].pc = "read" /\ k # NoChunk
      /\ net' = [net EXCEPT ![c].up = NoChunk]
      /\ disk' = [disk EXCEPT ![k] = "whole"]
      /\ srv' = [srv EXCEPT ![c] = [pc |-> "row", cur |-> k]]
      /\ UNCHANGED <<init, meta, rows, sweep, opened, up, down, announced, crashes>>
  BY DEF Receive, To
<1>2. k \in Chunk
  BY <1>1 DEF FtTypeOK
<1>3. /\ srv'[c].pc = "row" /\ srv'[c].cur = k /\ \A x \in Conn : x # c => srv'[x] = srv[x]
      /\ net'[c].up = NoChunk /\ net'[c].live = net[c].live /\ net'[c].down = net[c].down
      /\ \A x \in Conn : x # c => net'[x] = net[x]
      /\ \A j \in Chunk : disk'[j] = IF j = k THEN "whole" ELSE disk[j]
  BY <1>1, <1>2 DEF FtTypeOK
<1>4. FtTypeOK'
  <2>1. net' \in [Conn -> [up : Chunk \cup {NoChunk}, down : Seq(Reply), live : BOOLEAN]]
    BY <1>1 DEF FtTypeOK
  <2> QED  BY <1>1, <1>2, <2>1 DEF FtTypeOK
<1>5. RowsDistinct' /\ FramesDistinct' /\ ReceivedIsComplete'
  BY <1>1 DEF RowsDistinct, FramesDistinct, ReceivedIsComplete
<1>6. LiveIsCurrent'
  BY <1>1, <1>3 DEF LiveIsCurrent
<1>7. OneAtATime'
  BY <1>1, <1>3 DEF OneAtATime, HasAck
<1>8. Promises'
  BY <1>1, <1>3 DEF Promises, Stored
<1>9. CountIsTrue' /\ SentIsStored'
  BY <1>1 DEF CountIsTrue, SentIsStored, Known, Stored
<1>10. RowHasData'
  BY <1>1, <1>3, RangeOfChunks DEF RowHasData, FtTypeOK
<1>11. DataFirst'
  <2> SUFFICES ASSUME sweep = "no", NEW x \in Conn, srv'[x].pc = "row"
               PROVE  disk'[srv'[x].cur] # "none"
    BY <1>1 DEF DataFirst
  <2>1. CASE x = c
    BY <1>2, <1>3, <2>1
  <2>2. CASE x # c
    <3>1. srv[x].pc = "row" /\ srv[x].cur \in Chunk /\ disk[srv[x].cur] # "none"
      BY <1>3, <2>2 DEF DataFirst, FtTypeOK
    <3> QED  BY <1>3, <2>2, <3>1
  <2> QED  BY <2>1, <2>2
<1> QED  BY <1>4, <1>5, <1>6, <1>7, <1>8, <1>9, <1>10, <1>11

LEMMA ServeInv ==
  ASSUME FtInv, NEW c \in Conn, Serve(c)
  PROVE  FtInv'
BY QuietInv, HaveInv, CountInv, AddChunkInv, ReceiveInv DEF Serve

-----------------------------------------------------------------------------
\* The uploader.

LocalsRecord == [pc : Working \cup {"idle", "returned", "raised"}, cmd : {"send", "resume"},
                 conn : 0..MaxConn, have : SUBSET Chunk, next : 0..Total, sent : 0..Total,
                 attempt : 0..MaxAttempts]

\* No connection is left: the parts of the invariant about the wire hold trivially.
LEMMA DisconnectedInv ==
  ASSUME FtInv, up' \in LocalsRecord, up'.pc \notin Connected,
         init' \in {"unsent", "queued", "handled", "lost"}, announced' \in BOOLEAN,
         UNCHANGED <<meta, rows, disk, sweep, srv, opened, down, crashes>>,
         net' \in [Conn -> LineRecord],
         \A c \in Conn : ~net'[c].live /\ net'[c].down = <<>> /\ net'[c].up = net[c].up,
         up'.pc = "open" => /\ up'.attempt < MaxAttempts
                            /\ up'.sent >= Total /\ sweep = "no" => Stored,
         (up'.pc = "returned" \/ announced') /\ sweep = "no" => Stored
  PROVE  FtInv'
<1> USE DEF FtInv
<1>1. FtTypeOK'
  BY DEF FtTypeOK, LocalsRecord, LineRecord
<1>2. RowsDistinct' /\ FramesDistinct' /\ ReceivedIsComplete' /\ RowHasData' /\ DataFirst'
  BY DEF RowsDistinct, FramesDistinct, ReceivedIsComplete, RowHasData, DataFirst
<1>3. LiveIsCurrent' /\ OneAtATime'
  BY DEF LiveIsCurrent, OneAtATime, Connected
<1>4. Promises'
  BY DEF Promises, Stored
<1>5. CountIsTrue' /\ SentIsStored'
  BY DEF CountIsTrue, SentIsStored, Stored, Connected
<1> QED  BY <1>1, <1>2, <1>3, <1>4, <1>5

LEMMA BeginInv ==
  ASSUME FtInv, Send \/ Resume
  PROVE  FtInv'
<1>1. PICK cmd \in {"send", "resume"} :
        up' = [up EXCEPT !.pc = "open", !.cmd = cmd, !.attempt = 0, !.sent = 0]
  BY DEF Send, Resume, Begin
<1>2. up \in LocalsRecord /\ up.pc \notin Connected
  BY DEF Send, Resume, Connected, FtInv, FtTypeOK, LocalsRecord
<1>3. /\ up' \in LocalsRecord /\ up'.pc = "open" /\ up'.attempt = 0 /\ up'.sent = 0
  <2> DEFINE n == [up EXCEPT !.pc = "open", !.cmd = cmd, !.attempt = 0, !.sent = 0]
  <2>1. n.pc = "open" /\ n.attempt = 0 /\ n.sent = 0
    BY <1>2 DEF LocalsRecord
  <2>2. n \in LocalsRecord
    BY <1>2, ZeroIsInRange DEF LocalsRecord, Working
  <2> QED  BY <1>1, <2>1, <2>2
<1>4. /\ UNCHANGED <<meta, rows, disk, sweep, srv, net, opened, down, announced, crashes>>
      /\ init' \in {"unsent", "queued", "handled", "lost"}
  BY DEF Send, Resume, storage, FtInv, FtTypeOK
<1>5. /\ net' \in [Conn -> LineRecord]
      /\ \A c \in Conn : ~net'[c].live /\ net'[c].down = <<>> /\ net'[c].up = net[c].up
  BY <1>2, <1>4 DEF FtInv, FtTypeOK, LiveIsCurrent, LineRecord
<1>6. announced' \in BOOLEAN /\ (announced' /\ sweep = "no" => Stored)
  BY <1>4 DEF FtInv, FtTypeOK, SentIsStored
<1> QED
  BY <1>3, <1>4, <1>5, <1>6, DisconnectedInv, TransferAssumption DEF Connected

\* The end of the command: all connections are closed.
LEMMA GoneInv ==
  ASSUME FtInv, NEW pc \in {"returned", "raised"},
         up' = [NoLocals EXCEPT !.pc = pc, !.cmd = up.cmd],
         net' = [c \in Conn |-> [net[c] EXCEPT !.live = FALSE, !.down = <<>>]],
         UNCHANGED <<meta, rows, disk, sweep, srv, opened, down, crashes>>,
         init' \in {"unsent", "queued", "handled", "lost"}, announced' \in BOOLEAN,
         (pc = "returned" \/ announced') /\ sweep = "no" => Stored
  PROVE  FtInv'
<1>1. NoLocals \in LocalsRecord /\ up.cmd \in {"send", "resume"}
  <2>1. NoLocals \in LocalsRecord
    BY ZeroIsInRange DEF NoLocals, LocalsRecord
  <2>2. up.cmd \in {"send", "resume"}
    BY DEF FtInv, FtTypeOK
  <2> QED  BY <2>1, <2>2
<1>2. up' \in LocalsRecord /\ up'.pc = pc
  BY <1>1 DEF LocalsRecord
<1>3. /\ net' \in [Conn -> LineRecord]
      /\ \A c \in Conn : ~net'[c].live /\ net'[c].down = <<>> /\ net'[c].up = net[c].up
  <2>1. <<>> \in Seq(Reply)
    BY EmptySeq
  <2>2. \A c \in Conn : net[c] \in LineRecord
    BY DEF FtInv, FtTypeOK, LineRecord
  <2> QED  BY <2>1, <2>2 DEF LineRecord
<1> QED  BY <1>2, <1>3, DisconnectedInv DEF Connected

LEMMA LeaveInv ==
  ASSUME FtInv, NEW pc \in {"returned", "raised"}, Leave(pc),
         pc = "returned" /\ sweep = "no" => Stored
  PROVE  FtInv'
<1>1. announced' \in BOOLEAN /\ (announced' /\ sweep = "no" => Stored)
  BY DEF Leave, FtInv, FtTypeOK, SentIsStored
<1>2. init' \in {"unsent", "queued", "handled", "lost"}
  BY DEF Leave, storage, FtInv, FtTypeOK
<1> QED  BY <1>1, <1>2, GoneInv DEF Leave, storage

LEMMA QuitInv ==
  ASSUME FtInv, Quit
  PROVE  FtInv'
<1>1. announced' \in BOOLEAN /\ (announced' /\ sweep = "no" => Stored)
  BY DEF Quit, FtInv, FtTypeOK, SentIsStored
<1>2. init' \in {"unsent", "queued", "handled", "lost"}
  BY DEF Quit, FtInv, FtTypeOK
<1> QED  BY <1>1, <1>2, GoneInv DEF Quit

\* What the uploader counted is stored, when it counts all of the file.
LEMMA CountedIsStored ==
  ASSUME FtInv, up.pc \in Connected, up.sent >= Total, sweep = "no"
  PROVE  Stored
<1>1. CASE up.pc = "have"
  BY <1>1, TransferAssumption DEF FtInv, CountIsTrue, FtTypeOK
<1>2. CASE up.pc \in {"chunk", "ack"}
  <2>1. Known \in SUBSET Chunk
    BY DEF Known, FtInv, FtTypeOK
  <2>2. Known = Chunk
    BY <1>2, <2>1, SubsetOfChunk DEF FtInv, CountIsTrue
  <2> QED  BY <1>2, <2>2, RangeOfChunks DEF FtInv, FtTypeOK, CountIsTrue, Stored
<1>3. CASE up.pc = "last"
  BY <1>3 DEF FtInv, CountIsTrue
<1> QED  BY <1>1, <1>2, <1>3 DEF Connected

LEMMA FailInv ==
  ASSUME FtInv, up.pc \in Connected, Fail
  PROVE  FtInv'
<1>1. CASE up.attempt >= MaxAttempts
  BY <1>1, LeaveInv DEF Fail
<1>2. CASE ~(up.attempt >= MaxAttempts)
  <2>1. /\ up' = [up EXCEPT !.pc = "open", !.conn = 0, !.have = {}, !.next = 0]
        /\ net' = [net EXCEPT ![up.conn].live = FALSE, ![up.conn].down = <<>>]
        /\ UNCHANGED <<init, meta, rows, disk, sweep, srv, opened, down, announced, crashes>>
    BY <1>2 DEF Fail, storage
  <2>2. up \in LocalsRecord
    BY DEF FtInv, FtTypeOK, LocalsRecord
  <2>3. /\ up' \in LocalsRecord /\ up'.pc = "open"
        /\ up'.attempt = up.attempt /\ up'.sent = up.sent
    BY <2>1, <2>2, ZeroIsInRange DEF LocalsRecord, Working
  <2>4. up'.attempt < MaxAttempts
    BY <1>2, <2>2, <2>3, TransferAssumption DEF LocalsRecord
  <2>5. /\ net' \in [Conn -> LineRecord]
        /\ \A c \in Conn : ~net'[c].live /\ net'[c].down = <<>> /\ net'[c].up = net[c].up
    <3>1. <<>> \in Seq(Reply) /\ net \in [Conn -> LineRecord]
      BY EmptySeq DEF FtInv, FtTypeOK, LineRecord
    <3>2. \A c \in Conn : c # up.conn => ~net[c].live /\ net[c].down = <<>>
      BY DEF FtInv, LiveIsCurrent
    <3> QED  BY <2>1, <3>1, <3>2 DEF LineRecord
  <2>6. announced' \in BOOLEAN /\ (announced' /\ sweep = "no" => Stored)
    BY <2>1 DEF FtInv, FtTypeOK, SentIsStored
  <2>7. init' \in {"unsent", "queued", "handled", "lost"}
    BY <2>1 DEF FtInv, FtTypeOK
  <2> QED
    BY <2>1, <2>3, <2>4, <2>5, <2>6, <2>7, CountedIsStored, DisconnectedInv DEF Connected
<1> QED  BY <1>1, <1>2

LEMMA OpenInv ==
  ASSUME FtInv, Open
  PROVE  FtInv'
<1> DEFINE c == opened + 1
<1> USE DEF FtInv
<1>1. /\ up.pc = "open" /\ up.sent < Total /\ up.attempt < MaxAttempts
      /\ opened < MaxConn /\ opened' = c
      /\ up' = [up EXCEPT !.pc = "have", !.conn = c, !.attempt = @ + 1]
      /\ net' = [net EXCEPT ![c].live = TRUE]
      /\ srv' = [srv EXCEPT ![c].pc = "lookup"]
      /\ UNCHANGED <<init, meta, rows, disk, sweep, down, announced, crashes>>
  BY DEF Open, storage
<1>2. up \in LocalsRecord
  BY DEF FtTypeOK, LocalsRecord
<1>3. c \in Conn /\ c \in 0..MaxConn /\ opened \in Nat /\ up.attempt + 1 \in 0..MaxAttempts
  BY <1>1, <1>2, TransferAssumption DEF FtTypeOK, Conn, LocalsRecord
<1>4. /\ net[c].up = NoChunk /\ srv[c].pc = "none" /\ net[c].down = <<>>
      /\ \A x \in Conn : ~net[x].live
  BY <1>1, <1>3 DEF LiveIsCurrent, Connected
<1>5. /\ up' \in LocalsRecord /\ up'.pc = "have" /\ up'.conn = c
      /\ up'.sent = up.sent
  BY <1>1, <1>2, <1>3 DEF LocalsRecord, Working
<1>6. /\ net'[c].live /\ net'[c].up = NoChunk /\ net'[c].down = <<>> /\ srv'[c].pc = "lookup"
      /\ \A x \in Conn : x # c => net'[x] = net[x] /\ srv'[x] = srv[x]
  BY <1>1, <1>3, <1>4 DEF FtTypeOK
<1>7. FtTypeOK'
  <2>1. net' \in [Conn -> LineRecord]
    BY <1>1, <1>3 DEF FtTypeOK, LineRecord
  <2>2. srv' \in [Conn -> HandlerRecord]
    <3>1. srv[c] \in [pc : {"none", "lookup", "have", "count", "read", "notify", "closed"},
                      cur : {NoChunk}]
      BY <1>3, <1>4 DEF FtTypeOK
    <3>2. [srv[c] EXCEPT !.pc = "lookup"] \in HandlerRecord
      BY <3>1 DEF HandlerRecord
    <3>3. srv' = [srv EXCEPT ![c] = [srv[c] EXCEPT !.pc = "lookup"]]
      BY <1>1
    <3> QED  BY <3>2, <3>3 DEF FtTypeOK, HandlerRecord
  <2>3. opened' \in 0..MaxConn
    BY <1>1, <1>3
  <2> QED  BY <1>1, <1>5, <2>1, <2>2, <2>3 DEF FtTypeOK, LocalsRecord, LineRecord, HandlerRecord
<1>8. RowsDistinct' /\ FramesDistinct' /\ ReceivedIsComplete' /\ RowHasData' /\ SentIsStored'
  BY <1>1, <1>5 DEF RowsDistinct, FramesDistinct, ReceivedIsComplete, RowHasData, SentIsStored,
     Stored
<1>9. LiveIsCurrent'
  <2>1. up'.conn \in 1..opened'
    BY <1>1, <1>3, <1>5
  <2>2. \A x \in Conn : x > opened' => x > opened /\ x # c
    BY <1>1, <1>3 DEF Conn
  <2> QED  BY <1>1, <1>4, <1>5, <1>6, <2>1, <2>2 DEF LiveIsCurrent, Connected
<1>10. OneAtATime'
  BY <1>4, <1>6 DEF OneAtATime, HasAck
<1>11. Promises' /\ DataFirst'
  BY <1>1, <1>6 DEF Promises, DataFirst, Stored
<1>12. CountIsTrue'
  BY <1>1, <1>5 DEF CountIsTrue
<1> QED  BY <1>7, <1>8, <1>9, <1>10, <1>11, <1>12

LEMMA LoopInv ==
  ASSUME FtInv, Refused \/ LoopEnds
  PROVE  FtInv'
<1>1. CASE Refused
  BY <1>1, LeaveInv DEF Refused
<1>2. CASE LoopEnds
  <2>1. sweep = "no" => Stored
    <3>1. up.attempt < MaxAttempts /\ up.attempt \in Nat /\ MaxAttempts \in Nat
      BY <1>2, TransferAssumption DEF LoopEnds, FtInv, CountIsTrue, FtTypeOK
    <3> QED  BY <1>2, <3>1 DEF LoopEnds, FtInv, CountIsTrue
  <2> QED  BY <1>2, <2>1, LeaveInv DEF LoopEnds
<1> QED  BY <1>1, <1>2

LEMMA BrokenInv ==
  ASSUME FtInv, Broken
  PROVE  FtInv'
BY FailInv DEF Broken, Connected

\* A line is taken, or not, and the uploader's locals change: what is on the wire
\* besides, and the store, stay as they are.
LEMMA ListenInv ==
  ASSUME FtInv, up.pc \in Connected, up' \in LocalsRecord, up'.pc \in Connected,
         up'.conn = up.conn, net' = net \/ (net[up.conn].down # <<>> /\ Take),
         UNCHANGED <<storage, srv, opened, down, announced, crashes>>,
         CountIsTrue', OneAtATime'
  PROVE  FtInv'
<1> DEFINE c == up.conn
<1> USE DEF FtInv
<1>1. c \in Conn
  BY TransferAssumption DEF LiveIsCurrent, FtTypeOK, Conn
<1>2. UNCHANGED <<init, meta, rows, disk, sweep, srv, opened, down, announced, crashes>>
  BY DEF storage
<1>3. /\ net' \in [Conn -> LineRecord]
      /\ \A x \in Conn : net'[x].live = net[x].live /\ net'[x].up = net[x].up
      /\ \A x \in Conn : net'[x].down = net[x].down
                         \/ (net[x].down # <<>> /\ net'[x].down = Tail(net[x].down))
  <2>1. net \in [Conn -> LineRecord]
    BY DEF FtTypeOK, LineRecord
  <2>2. CASE net' = net
    <3>1. \A x \in Conn : net'[x] = net[x]
      BY <2>2
    <3> QED  BY <2>1, <2>2, <3>1
  <2>3. CASE net[c].down # <<>> /\ Take
    <3> DEFINE n == [net[c] EXCEPT !.down = Tail(net[c].down)]
    <3>1. net' = [net EXCEPT ![c] = n]
      BY <2>1, <2>3 DEF Take
    <3>2. net[c] \in LineRecord /\ Tail(net[c].down) \in Seq(Reply)
      BY <1>1, <2>1, <2>3, Heard DEF LineRecord
    <3>3. /\ n \in LineRecord /\ n.live = net[c].live /\ n.up = net[c].up
          /\ n.down = Tail(net[c].down)
      BY <3>2 DEF LineRecord
    <3>4. \A x \in Conn : net'[x] = IF x = c THEN n ELSE net[x]
      BY <2>1, <3>1
    <3>5. net' \in [Conn -> LineRecord]
      BY <2>1, <3>1, <3>3
    <3> QED  BY <2>3, <3>3, <3>4, <3>5
  <2> QED  BY <2>2, <2>3
<1>4. FtTypeOK'
  BY <1>2, <1>3 DEF FtTypeOK, LocalsRecord, LineRecord
<1>5. RowsDistinct' /\ FramesDistinct' /\ ReceivedIsComplete' /\ RowHasData' /\ DataFirst'
  BY <1>2 DEF RowsDistinct, FramesDistinct, ReceivedIsComplete, RowHasData, DataFirst
<1>6. SentIsStored'
  BY <1>2 DEF SentIsStored, Stored, Connected
<1>7. LiveIsCurrent'
  <2>1. \A x \in Conn : ~net[x].live => net'[x].down = <<>>
    BY <1>3 DEF LiveIsCurrent
  <2> QED  BY <1>2, <1>3, <2>1 DEF LiveIsCurrent
<1>8. Promises'
  <2> SUFFICES ASSUME sweep = "no", NEW x \in Conn, NEW i \in DOMAIN net'[x].down
               PROVE  \E j \in DOMAIN net[x].down : net'[x].down[i] = net[x].down[j]
    BY <1>2 DEF Promises, Stored
  <2>1. net[x].down \in Seq(Reply)
    BY DEF FtTypeOK
  <2>2. CASE net'[x].down = net[x].down
    BY <2>2
  <2>3. CASE net[x].down # <<>> /\ net'[x].down = Tail(net[x].down)
    BY <2>1, <2>3, Heard
  <2> QED  BY <1>3, <2>2, <2>3
<1> QED  BY <1>4, <1>5, <1>6, <1>7, <1>8

LEMMA ReadHaveInv ==
  ASSUME FtInv, ReadHave
  PROVE  FtInv'
<1> USE DEF FtInv
<1> DEFINE c == up.conn
<1>1. PICK have \in {IF Ended THEN {} ELSE Head(wire.down).set} :
        up' = [up EXCEPT !.pc = "chunk", !.have = have, !.next = 0, !.sent = Cardinality(have)]
  BY DEF ReadHave
<1>2. /\ up.pc = "have" /\ (Got("HAVE") \/ Ended)
      /\ IF Ended THEN net' = net ELSE Take
      /\ UNCHANGED <<storage, srv, opened, down, announced, crashes>>
  BY DEF ReadHave
<1>3. UNCHANGED <<init, meta, rows, disk, sweep, srv, opened, down, announced, crashes>>
  BY <1>2 DEF storage
<1>4. up \in LocalsRecord /\ c \in Conn /\ rows \in Seq(Chunk)
  BY <1>2, TransferAssumption DEF FtTypeOK, LocalsRecord, LiveIsCurrent, Connected, Conn
<1>5. have \in SUBSET Chunk /\ (sweep = "no" => have \subseteq Range(rows))
  <2>1. CASE Ended
    BY <1>1, <2>1
  <2>2. CASE ~Ended
    <3>1. have = Head(net[c].down).set /\ net[c].down # <<>> /\ Head(net[c].down).type = "HAVE"
      BY <1>1, <1>2, <2>2 DEF wire, Got
    <3>2. net[c].down \in Seq(Reply)
      BY <1>4 DEF FtTypeOK
    <3>3. Head(net[c].down) \in Reply /\ Head(net[c].down) = net[c].down[1] /\ 1 \in DOMAIN net[c].down
      BY <3>1, <3>2, Heard
    <3>4. have \in SUBSET Chunk
      BY <3>1, <3>3 DEF Reply
    <3>5. sweep = "no" => have \subseteq Range(rows)
      BY <1>4, <3>1, <3>3 DEF Promises
    <3> QED  BY <3>4, <3>5
  <2> QED  BY <2>1, <2>2
<1>6. Cardinality(have) \in 0..Total
  BY <1>5, SubsetOfChunk
<1>7. /\ up' \in LocalsRecord /\ up'.pc = "chunk" /\ up'.conn = c /\ up'.have = have
      /\ up'.next = 0 /\ up'.sent = Cardinality(have)
  BY <1>1, <1>4, <1>5, <1>6, ZeroIsInRange DEF LocalsRecord, Working
<1>8. net' = net \/ (net[c].down # <<>> /\ Take)
  BY <1>2 DEF wire, Got
<1>9. CountIsTrue'
  <2>1. Known' = have
    BY <1>7 DEF Known, Chunk
  <2> QED  BY <1>3, <1>5, <1>7, <2>1 DEF CountIsTrue
<1>10. OneAtATime'
  <2> SUFFICES ASSUME NEW x \in Conn, net'[x].live
               PROVE  net'[x].up = NoChunk /\ srv'[x].pc # "row" /\ ~HasAck(x)'
    BY DEF OneAtATime, HasAck
  <2>1. net \in [Conn -> LineRecord]
    BY DEF FtTypeOK, LineRecord
  <2>2. CASE net' = net
    BY <1>2, <1>3, <2>2 DEF OneAtATime, HasAck
  <2>3. CASE net[c].down # <<>> /\ Take
    <3>1. net[c].down \in Seq(Reply)
      BY <1>4 DEF FtTypeOK
    <3>2. /\ net'[x].live = net[x].live /\ net'[x].up = net[x].up
          /\ net'[x].down = IF x = c THEN Tail(net[x].down) ELSE net[x].down
      BY <1>4, <2>1, <2>3 DEF Take, LineRecord
    <3>3. net[x].live /\ net[x].up = NoChunk /\ srv[x].pc # "row" /\ ~HasAck(x)
      BY <1>2, <3>2 DEF OneAtATime
    <3>4. \A i \in DOMAIN net'[x].down : \E j \in DOMAIN net[x].down : net'[x].down[i] = net[x].down[j]
      BY <2>3, <3>1, <3>2, Heard
    <3> QED  BY <1>3, <3>2, <3>3, <3>4 DEF HasAck
  <2> QED  BY <1>8, <2>2, <2>3
<1> QED  BY <1>2, <1>7, <1>8, <1>9, <1>10, ListenInv DEF Connected

LEMMA WriteChunkInv ==
  ASSUME FtInv, WriteChunk
  PROVE  FtInv'
<1> USE DEF FtInv
<1> DEFINE c == up.conn
           missing == {k \in Chunk \ up.have : k >= up.next}
<1>1. /\ up.pc = "chunk" /\ net[c].live
      /\ UNCHANGED <<init, meta, rows, disk, sweep, srv, opened, down, announced, crashes>>
  BY DEF WriteChunk, Lost, wire, storage
<1>2. /\ up \in LocalsRecord /\ c \in Conn /\ rows \in Seq(Chunk)
      /\ Known \in SUBSET Chunk /\ up.sent = Cardinality(Known)
      /\ sweep = "no" => Known \subseteq Range(rows)
  BY <1>1, TransferAssumption
     DEF FtTypeOK, LocalsRecord, LiveIsCurrent, Connected, Conn, Known, CountIsTrue
<1>3. net[c].up = NoChunk /\ srv[c].pc # "row" /\ ~HasAck(c)
  BY <1>1, <1>2 DEF OneAtATime
<1>4. CASE missing = {}
  <2>1. up' = [up EXCEPT !.pc = "last", !.have = {}, !.next = 0] /\ net' = net
    BY <1>4 DEF WriteChunk
  <2>2. up' \in LocalsRecord /\ up'.pc = "last" /\ up'.conn = c
    BY <1>2, <2>1, ZeroIsInRange DEF LocalsRecord, Working
  <2>3. Known = Chunk
    BY <1>2, <1>4 DEF Known, Chunk, LocalsRecord
  <2>4. CountIsTrue'
    BY <1>1, <1>2, <2>2, <2>3, RangeOfChunks DEF CountIsTrue, Stored
  <2>5. OneAtATime'
    BY <1>1, <1>3, <2>1, <2>2 DEF OneAtATime, HasAck
  <2> QED  BY <1>1, <2>1, <2>2, <2>4, <2>5, ListenInv DEF Connected, storage
<1>5. CASE missing # {}
  <2>1. PICK k \in missing : /\ \A j \in missing : k <= j
                             /\ up' = [up EXCEPT !.pc = "ack", !.next = k]
                             /\ net' = IF srv[c].pc = "closed" THEN net
                                       ELSE [net EXCEPT ![c].up = k]
    BY <1>5 DEF WriteChunk
  <2>2. k \in Chunk /\ k \in 0..Total /\ k \notin up.have /\ k >= up.next
    BY <2>1, TransferAssumption DEF Chunk
  <2>3. /\ up' \in LocalsRecord /\ up'.pc = "ack" /\ up'.conn = c /\ up'.next = k
        /\ up'.have = up.have /\ up'.sent = up.sent
    BY <1>2, <2>1, <2>2 DEF LocalsRecord, Working
  <2>4. Known' = Known
    <3>1. \A j \in Chunk : j < k /\ j >= up.next => j \in up.have
      BY <2>1, <2>2 DEF Chunk
    <3> QED  BY <1>2, <2>2, <2>3, <3>1 DEF Known, Chunk, LocalsRecord
  <2>5. CountIsTrue'
    BY <1>1, <1>2, <2>2, <2>3, <2>4 DEF CountIsTrue
  <2>6. /\ net' \in [Conn -> LineRecord]
        /\ \A x \in Conn : /\ net'[x].live = net[x].live /\ net'[x].down = net[x].down
                           /\ x # c => net'[x] = net[x]
        /\ net'[c].up \in {NoChunk, k}
    <3> DEFINE n == [net[c] EXCEPT !.up = k]
    <3>1. net \in [Conn -> LineRecord] /\ net[c] \in LineRecord
      BY <1>2 DEF FtTypeOK, LineRecord
    <3>2. /\ n \in LineRecord /\ n.live = net[c].live /\ n.down = net[c].down /\ n.up = k
      BY <2>2, <3>1 DEF LineRecord
    <3>3. CASE net' = net
      <4>1. \A x \in Conn : net'[x] = net[x]
        BY <3>3
      <4> QED  BY <1>2, <1>3, <3>1, <3>3, <4>1
    <3>4. CASE net' = [net EXCEPT ![c].up = k]
      <4>1. net' = [net EXCEPT ![c] = n]
        BY <3>4
      <4>2. \A x \in Conn : net'[x] = IF x = c THEN n ELSE net[x]
        BY <3>1, <4>1
      <4>3. net' \in [Conn -> LineRecord]
        BY <3>1, <3>2, <4>1
      <4> QED  BY <1>2, <3>2, <4>2, <4>3
    <3> QED  BY <2>1, <3>3, <3>4
  <2>7. \A x \in Conn : x # c => ~net[x].live
    BY DEF LiveIsCurrent
  <2>8. OneAtATime'
    BY <1>1, <1>3, <2>3, <2>6, <2>7 DEF OneAtATime, HasAck
  <2>9. FtTypeOK'
    BY <1>1, <2>3, <2>6 DEF FtTypeOK, LocalsRecord, LineRecord
  <2>10. RowsDistinct' /\ FramesDistinct' /\ ReceivedIsComplete' /\ RowHasData' /\ DataFirst'
    BY <1>1 DEF RowsDistinct, FramesDistinct, ReceivedIsComplete, RowHasData, DataFirst
  <2>11. LiveIsCurrent'
    <3>1. c \in 1..opened /\ opened \in Nat
      BY <1>1 DEF LiveIsCurrent, Connected, FtTypeOK
    <3>2. \A x \in Conn : x > opened => x # c
      BY <3>1
    <3> QED  BY <1>1, <2>3, <2>6, <3>1, <3>2 DEF LiveIsCurrent, Connected
  <2>12. Promises' /\ SentIsStored'
    BY <1>1, <2>3, <2>6 DEF Promises, SentIsStored, Stored
  <2> QED  BY <2>5, <2>8, <2>9, <2>10, <2>11, <2>12
<1> QED  BY <1>4, <1>5

LEMMA ReadAckInv ==
  ASSUME FtInv, ReadAck
  PROVE  FtInv'
<1> USE DEF FtInv
<1> DEFINE c == up.conn
<1>1. up.pc = "ack" /\ up \in LocalsRecord /\ c \in Conn /\ net[c].down \in Seq(Reply)
  BY TransferAssumption DEF ReadAck, FtTypeOK, LocalsRecord, LiveIsCurrent, Connected, Conn
<1>2. CASE Got("ACK") /\ Take /\ up' = [up EXCEPT !.pc = "chunk", !.next = @ + 1, !.sent = @ + 1]
           /\ UNCHANGED <<storage, srv, opened, down, announced, crashes>>
  <2>1. /\ net[c].live /\ net[c].down # <<>> /\ 1 \in DOMAIN net[c].down
        /\ net[c].down[1].type = "ACK"
    BY <1>1, <1>2, Heard DEF Got, wire
  <2>2. HasAck(c)
    BY <2>1 DEF HasAck
  <2>3. net[c].up = NoChunk /\ srv[c].pc # "row" /\ (sweep = "no" => up.next \in Range(rows))
    BY <1>1, <2>1, <2>2 DEF OneAtATime
  <2>4. /\ up.next \in Chunk /\ up.next \notin up.have /\ up.next + 1 \in 0..Total
        /\ up.sent = Cardinality(Known) /\ (sweep = "no" => Known \subseteq Range(rows))
    BY <1>1, TransferAssumption DEF CountIsTrue, Chunk
  <2>5. Known \in SUBSET Chunk /\ up.next \notin Known
    BY <1>1, <2>4 DEF Known, LocalsRecord, Chunk
  <2>6. /\ Known \cup {up.next} \in SUBSET Chunk
        /\ Cardinality(Known \cup {up.next}) = up.sent + 1
    BY <2>4, <2>5, SubsetOfChunk, FS_AddElement
  <2>7. up.sent + 1 \in 0..Total
    BY <2>6, SubsetOfChunk
  <2>8. /\ up' \in LocalsRecord /\ up'.pc = "chunk" /\ up'.conn = c /\ up'.have = up.have
        /\ up'.next = up.next + 1 /\ up'.sent = up.sent + 1
    BY <1>1, <1>2, <2>4, <2>7 DEF LocalsRecord, Working
  <2>9. Known' = Known \cup {up.next}
    BY <1>1, <2>4, <2>8 DEF Known, Chunk, LocalsRecord
  <2>10. CountIsTrue'
    BY <1>2, <2>3, <2>4, <2>6, <2>8, <2>9 DEF CountIsTrue, storage
  <2>11. OneAtATime'
    <3> SUFFICES ASSUME NEW x \in Conn, net'[x].live
                 PROVE  net'[x].up = NoChunk /\ srv'[x].pc # "row" /\ ~HasAck(x)'
      BY DEF OneAtATime, HasAck
    <3>1. net \in [Conn -> LineRecord]
      BY DEF FtTypeOK, LineRecord
    <3>2. /\ net'[c].up = net[c].up /\ net'[c].down = Tail(net[c].down)
          /\ net'[x].live = net[x].live
      BY <1>1, <1>2, <3>1 DEF Take, LineRecord
    <3>3. x = c
      BY <3>2 DEF LiveIsCurrent
    <3>4. \A i \in DOMAIN Tail(net[c].down) : Tail(net[c].down)[i].type # "ACK"
      <4> SUFFICES ASSUME NEW i \in DOMAIN Tail(net[c].down), Tail(net[c].down)[i].type = "ACK"
                   PROVE  FALSE
        OBVIOUS
      <4>1. i + 1 \in DOMAIN net[c].down /\ i + 1 # 1 /\ net[c].down[i + 1].type = "ACK"
        BY <1>1, <2>1, Heard
      <4> QED  BY <1>1, <2>1, <4>1 DEF OneAtATime
    <3> QED  BY <1>2, <2>3, <3>2, <3>3, <3>4 DEF HasAck
  <2> QED  BY <1>1, <1>2, <2>1, <2>8, <2>10, <2>11, ListenInv DEF Connected
<1>3. CASE Got("DONE") /\ Leave("returned")
  <2>1. /\ net[c].down # <<>> /\ 1 \in DOMAIN net[c].down /\ net[c].down[1].type = "DONE"
    BY <1>1, <1>3, Heard DEF Got, wire
  <2>2. sweep = "no" => Stored
    BY <1>1, <2>1 DEF Promises
  <2> QED  BY <1>3, <2>2, LeaveInv
<1>4. CASE Ended /\ Fail
  BY <1>1, <1>4, FailInv DEF Connected
<1> QED  BY <1>2, <1>3, <1>4 DEF ReadAck

LEMMA ReadLastInv ==
  ASSUME FtInv, ReadLast
  PROVE  FtInv'
BY LeaveInv DEF ReadLast, FtInv, CountIsTrue

LEMMA BreakInv ==
  ASSUME FtInv, Break
  PROVE  FtInv'
<1> USE DEF FtInv
<1>1. PICK c \in Conn :
        /\ net[c].live
        /\ \E k \in {net[c].up, NoChunk} :
             net' = [net EXCEPT ![c] = [up |-> k, down |-> <<>>, live |-> FALSE]]
        /\ UNCHANGED <<init, meta, rows, disk, sweep, srv, opened, up, down, announced, crashes>>
  BY DEF Break, storage
<1>2. PICK k \in {net[c].up, NoChunk} :
        net' = [net EXCEPT ![c] = [up |-> k, down |-> <<>>, live |-> FALSE]]
  BY <1>1
<1>3. up.conn = c /\ c \in 1..opened
  BY <1>1 DEF LiveIsCurrent
<1>4. net' \in [Conn -> LineRecord] /\ opened \in Nat
  <2>1. net \in [Conn -> LineRecord] /\ k \in Chunk \cup {NoChunk} /\ <<>> \in Seq(Reply)
    BY <1>2, EmptySeq DEF FtTypeOK, LineRecord
  <2>2. [up |-> k, down |-> <<>>, live |-> FALSE] \in LineRecord
    BY <2>1 DEF LineRecord
  <2> QED  BY <1>2, <2>1, <2>2 DEF FtTypeOK
<1>5. \A x \in Conn : ~net'[x].live /\ net'[x].down = <<>> /\ (x # c => net'[x] = net[x])
  BY <1>2, <1>3 DEF FtTypeOK, LiveIsCurrent
<1>6. FtTypeOK'
  BY <1>1, <1>4 DEF FtTypeOK, LineRecord
<1>7. RowsDistinct' /\ FramesDistinct' /\ ReceivedIsComplete' /\ RowHasData' /\ DataFirst'
  BY <1>1 DEF RowsDistinct, FramesDistinct, ReceivedIsComplete, RowHasData, DataFirst
<1>8. LiveIsCurrent'
  <2>1. \A x \in Conn : x > opened => x # c
    BY <1>3, <1>4
  <2> QED  BY <1>1, <1>5, <2>1 DEF LiveIsCurrent
<1>9. OneAtATime' /\ Promises'
  BY <1>1, <1>5 DEF OneAtATime, Promises, Stored
<1>10. CountIsTrue' /\ SentIsStored'
  BY <1>1 DEF CountIsTrue, SentIsStored, Known, Stored
<1> QED  BY <1>6, <1>7, <1>8, <1>9, <1>10

-----------------------------------------------------------------------------
\* The clean-up and kills of the server.

LEMMA SweepInv ==
  ASSUME FtInv, RemoveData \/ RemoveRows
  PROVE  FtInv'
<1> USE DEF FtInv
<1>1. /\ sweep' \in {"deleting", "done"} /\ meta' \in BOOLEAN
      /\ UNCHANGED <<init, srv, net, opened, up, down, announced, crashes>>
      /\ disk' \in [Chunk -> {"none", "torn", "whole"}]
      /\ rows' \in {rows, <<>>}
  BY DEF RemoveData, RemoveRows, FtTypeOK
<1>2. rows' \in Seq(Chunk) /\ Len(rows') <= Total /\ IsInjective(rows')
  <2>1. <<>> \in Seq(Chunk) /\ Len(<<>>) <= Total /\ IsInjective(<<>>)
    BY EmptySeq, TransferAssumption DEF IsInjective
  <2> QED  BY <1>1, <2>1 DEF FtTypeOK, RowsDistinct
<1>3. FtTypeOK' /\ RowsDistinct'
  BY <1>1, <1>2 DEF FtTypeOK, RowsDistinct
<1>4. LiveIsCurrent' /\ FramesDistinct' /\ ReceivedIsComplete'
  BY <1>1 DEF LiveIsCurrent, FramesDistinct, ReceivedIsComplete
<1>5. OneAtATime'
  BY <1>1 DEF OneAtATime, HasAck
<1>6. Promises' /\ CountIsTrue' /\ DataFirst' /\ SentIsStored' /\ RowHasData'
  BY <1>1 DEF Promises, CountIsTrue, DataFirst, SentIsStored, RowHasData, Known
<1> QED  BY <1>3, <1>4, <1>5, <1>6

LEMMA CrashInv ==
  ASSUME FtInv, Crash
  PROVE  FtInv'
<1> USE DEF FtInv
<1>1. /\ crashes < MaxCrash /\ crashes' = crashes + 1
      /\ srv' = [c \in Conn |-> IF srv[c].pc = "none" THEN srv[c]
                                ELSE [pc |-> "closed", cur |-> NoChunk]]
      /\ net' = [c \in Conn |-> [net[c] EXCEPT !.up = NoChunk]]
      /\ down' = [d \in Download |-> IF down[d].pc \in {"lookup", "rows", "frames"}
                                     THEN [NoFrames EXCEPT !.pc = "failed"] ELSE down[d]]
      /\ sweep' = IF sweep = "deleting" THEN "cut" ELSE sweep
      /\ UNCHANGED <<init, meta, rows, opened, up, announced>>
  BY DEF Crash
<1>2. PICK torn \in SUBSET {srv[c].cur : c \in {x \in Conn : srv[x].pc = "row"}} :
        disk' = [k \in Chunk |-> IF k \in torn THEN "torn" ELSE disk[k]]
  BY DEF Crash
<1>3. \A k \in Chunk : disk'[k] \in {"torn", disk[k]}
  BY <1>2
<1>4. \A c \in Conn : srv'[c].pc \in {"none", "closed"} /\ (srv[c].pc = "none" => srv'[c].pc = "none")
  BY <1>1
<1>5. /\ net' \in [Conn -> LineRecord]
      /\ \A c \in Conn : /\ net'[c].up = NoChunk /\ net'[c].live = net[c].live
                         /\ net'[c].down = net[c].down
  <2>1. \A c \in Conn : net[c] \in LineRecord
    BY DEF FtTypeOK, LineRecord
  <2> QED  BY <1>1, <2>1 DEF LineRecord
<1>6. down' \in [Download -> FrameRecord] /\ \A d \in Download : FramesOf(down'[d])
  <2>1. \A d \in Download : down[d] \in FrameRecord /\ FramesOf(down[d])
    BY DEF FtTypeOK, FrameRecord, FramesOf, FramesDistinct, ReceivedIsComplete
  <2>2. /\ [NoFrames EXCEPT !.pc = "failed"] \in FrameRecord
        /\ FramesOf([NoFrames EXCEPT !.pc = "failed"])
    BY FailedFrames
  <2> QED  BY <1>1, <2>1, <2>2
<1>7. FtTypeOK'
  <2>1. srv' \in [Conn -> HandlerRecord]
    BY <1>1 DEF FtTypeOK, HandlerRecord
  <2>2. disk' \in [Chunk -> {"none", "torn", "whole"}]
    BY <1>2 DEF FtTypeOK
  <2>3. sweep' \in {"no", "deleting", "cut", "done"} /\ crashes' \in 0..MaxCrash
    BY <1>1, TransferAssumption DEF FtTypeOK
  <2> QED  BY <1>1, <1>5, <1>6, <2>1, <2>2, <2>3 DEF FtTypeOK, HandlerRecord, LineRecord, FrameRecord
<1>8. RowsDistinct' /\ FramesDistinct' /\ ReceivedIsComplete'
  BY <1>1, <1>6 DEF RowsDistinct, FramesDistinct, ReceivedIsComplete, FramesOf
<1>9. LiveIsCurrent'
  BY <1>1, <1>4, <1>5 DEF LiveIsCurrent
<1>10. sweep' = "no" => sweep = "no"
  BY <1>1
<1>11. OneAtATime'
  BY <1>1, <1>4, <1>5, <1>10 DEF OneAtATime, HasAck
<1>12. Promises' /\ CountIsTrue' /\ SentIsStored'
  BY <1>1, <1>4, <1>5, <1>10 DEF Promises, CountIsTrue, SentIsStored, Known, Stored
<1>13. RowHasData' /\ DataFirst'
  BY <1>1, <1>3, <1>4, <1>10, RangeOfChunks DEF RowHasData, DataFirst, FtTypeOK
<1> QED  BY <1>7, <1>8, <1>9, <1>11, <1>12, <1>13

-----------------------------------------------------------------------------
LEMMA FtNextInv == FtInv /\ [FtNext]_ftVars => FtInv'
<1> SUFFICES ASSUME FtInv, [FtNext]_ftVars PROVE FtInv'
  OBVIOUS
<1>1. CASE HandleInit \/ LoseInit
  BY <1>1, InitInv
<1>2. CASE Send \/ Resume
  BY <1>2, BeginInv
<1>3. CASE UploadStep
  BY <1>3, OpenInv, LoopInv, BrokenInv, ReadHaveInv, WriteChunkInv, ReadAckInv, ReadLastInv
     DEF UploadStep
<1>4. CASE Quit \/ Break
  BY <1>4, QuitInv, BreakInv
<1>5. CASE RemoveData \/ RemoveRows
  BY <1>5, SweepInv
<1>6. CASE Crash
  BY <1>6, CrashInv
<1>7. ASSUME NEW c \in Conn, Serve(c) PROVE FtInv'
  BY <1>7, ServeInv
<1>8. ASSUME NEW d \in Download, Accept(d) \/ Deliver(d) \/ DownBreak(d) PROVE FtInv'
  BY <1>8, DownloadInv
<1>9. CASE UNCHANGED ftVars
  <2>1. UNCHANGED <<init, meta, rows, disk, sweep, srv, net, opened, up, down, announced, crashes>>
    BY <1>9 DEF ftVars, storage
  <2>2. FtTypeOK' /\ RowsDistinct' /\ LiveIsCurrent' /\ OneAtATime' /\ Promises'
    BY <2>1 DEF FtInv, FtTypeOK, RowsDistinct, LiveIsCurrent, OneAtATime, Promises, HasAck, Stored
  <2>3. CountIsTrue' /\ DataFirst' /\ FramesDistinct'
    BY <2>1 DEF FtInv, CountIsTrue, DataFirst, FramesDistinct, Known, Stored
  <2>4. SentIsStored' /\ RowHasData' /\ ReceivedIsComplete'
    BY <2>1 DEF FtInv, SentIsStored, RowHasData, ReceivedIsComplete, Stored
  <2> QED  BY <2>2, <2>3, <2>4 DEF FtInv
<1> QED
  BY <1>1, <1>2, <1>3, <1>4, <1>5, <1>6, <1>7, <1>8, <1>9 DEF FtNext

LEMMA FtInvHolds == FtSpec => []FtInv
<1>1. FtInit => FtInv
  BY FtInitInv
<1>2. FtInv /\ [FtNext]_ftVars => FtInv'
  BY FtNextInv
<1> QED  BY <1>1, <1>2, PTL DEF FtSpec

\* The variables keep their types: the table of chunks never has more rows than the
\* file has chunks, and the uploader's count never runs past the file.
THEOREM TransferTypeCorrect == FtSpec => []FtTypeOK
<1>1. FtInv => FtTypeOK
  BY DEF FtInv
<1> QED  BY <1>1, FtInvHolds, PTL

\* An upload that returns, or of which the recipient hears FILE_DONE, left every chunk
\* at the server (_upload_chunks and _process_upload), for every number of chunks,
\* attempts and connections, whatever connections break and whenever the server is killed.
THEOREM ReturnedUploadsAreStored == FtSpec => []SentIsStored
<1>1. FtInv => SentIsStored
  BY DEF FtInv
<1> QED  BY <1>1, FtInvHolds, PTL

\* A chunk with a row has a data file, which _process_upload writes before the row.
THEOREM StoredRowsHaveData == FtSpec => []RowHasData
<1>1. FtInv => RowHasData
  BY DEF FtInv
<1> QED  BY <1>1, FtInvHolds, PTL

\* A download that ends as complete has every chunk, although receive only counts
\* frames: _process_download sends the rows of one moment, and none is there twice.
THEOREM CompleteDownloadsAreWhole == FtSpec => []ReceivedIsComplete
<1>1. FtInv => ReceivedIsComplete
  BY DEF FtInv
<1> QED  BY <1>1, FtInvHolds, PTL
=============================================================================
