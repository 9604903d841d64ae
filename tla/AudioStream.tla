----------------------------- MODULE AudioStream -----------------------------
(***************************************************************************)
(* The audio of a client's calls: AudioStream (client/audio/stream.py)     *)
(* with its AudioEngine (client/audio/engine.py) and its jitter buffer,    *)
(* and what CallHandler (client/handlers/call.py) does with them: start,   *)
(* stop, feed and mute.  CallSignaling says when a call starts and stops   *)
(* its stream; here that may happen at any time.                           *)
(*                                                                         *)
(* The relay forwards the peer's frames in order, but not all; by UDP      *)
(* ("p2p", what an audio_factory starts) they come in any order, some more *)
(* than once, some never.  The receive queue, the jitter buffer and _muted *)
(* are those of the stream the handler holds: it alone is fed.  A frame is *)
(* its sequence number, and frames of another call do not decrypt.  What   *)
(* the microphone records is not modelled, only that it is on.             *)
(***************************************************************************)
EXTENDS JitterBuffer, Sequences

CONSTANTS Streams,   \* bound: the streams started, numbered from 1
          QueueSize  \* the maxsize of _relay_queue and _recv_queue

ASSUME AudioAssumption == Streams \in Nat /\ QueueSize \in Nat \ {0}

VARIABLES
  mode,     \* how audio travels
  held,     \* _audio_stream of the handler, 0 for None
  started,  \* the streams created so far
  phase,    \* where start or stop of a stream is
  device,   \* what a stream has open: "port", "mic" and "speaker"
  muted,    \* _muted of the stream the handler holds
  quiet,    \* _muted of the handler
  set,      \* history: the handler was muted or unmuted since it holds the stream
  queue,    \* the frames received, not yet taken by _recv_loop
  draining, \* whether _recv_loop is at its inner loop, which nothing interrupts
  heard,    \* history: the last relayed frame that arrived, -1 before
  stray     \* history: streams that the handler let go of other than by stopping them

asVars == <<mode, held, started, phase, device, muted, quiet, set, queue, draining, heard, stray>>
voice == <<muted, quiet, set>>
received == <<queue, draining, heard>>

Stream == 1..Streams
Held == {held} \cap Stream

AsInit == /\ JbInit
          /\ mode \in {"relay", "p2p"} /\ held = 0 /\ started = 0
          /\ phase = [k \in Stream |-> "none"] /\ device = [k \in Stream |-> {}]
          /\ muted = FALSE /\ quiet = FALSE /\ set = FALSE
          /\ queue = <<>> /\ draining = FALSE /\ heard = -1
          /\ stray = {}

\* The event loop is at another coroutine than the inner loop of _recv_loop.
Free == ~draining

-----------------------------------------------------------------------------
\* The life of a stream.

\* _start_audio_stream: a new stream, not muted, with empty queues and a new jitter buffer;
\* start waits for its UDP port.  A stream held so far is overwritten, not stopped.
Start == /\ Free /\ started < Streams
         /\ started' = started + 1 /\ held' = started + 1
         /\ phase' = [phase EXCEPT ![started + 1] = "opening"]
         /\ Reset /\ queue' = <<>> /\ heard' = -1
         /\ muted' = FALSE /\ set' = FALSE
         /\ stray' = stray \cup Held
         /\ UNCHANGED <<mode, device, quiet, draining>>

\* The rest of start.  _start_audio_stream lets the stream go when it raises: the one the
\* handler holds, which may be a later one.
Opens(k, open, ok) ==
  /\ Free /\ phase[k] = "opening"
  /\ phase' = [phase EXCEPT ![k] = IF ok THEN "running" ELSE "failed"]
  /\ device' = [device EXCEPT ![k] = open]
  /\ held' = IF ok THEN held ELSE 0
  /\ stray' = stray \cup (IF ok THEN {} ELSE {k} \cup Held)
  /\ UNCHANGED <<mode, started, voice, received, jbVars>>

\* The port cannot be bound, or pyaudio is missing.
NoPort(k) == Opens(k, {}, FALSE)
\* A device that cannot be opened raises an OSError, and only a RuntimeError is cleaned
\* up after: the port stays open, and with the speaker missing the microphone is on.
NoMicrophone(k) == Opens(k, {"port"}, FALSE)
NoSpeaker(k) == Opens(k, {"port", "mic"}, FALSE)
Opened(k) == Opens(k, {"port", "mic", "speaker"}, TRUE)

\* _stop_audio_stream while start waits: there is nothing to stop yet, and the handler
\* lets go of the stream, which start then opens all the same.
StopEarly == /\ Free /\ held # 0 /\ phase[held] = "opening"
             /\ Reset /\ held' = 0 /\ stray' = stray \cup {held}
             /\ UNCHANGED <<mode, started, phase, device, voice, received>>

\* stop cancels the receive task and waits for it.
Stop == /\ Free /\ held # 0 /\ phase[held] = "running"
        /\ phase' = [phase EXCEPT ![held] = "stopping"]
        /\ UNCHANGED <<mode, held, started, device, voice, received, stray, jbVars>>

\* Mutant of Stopped: stop forgets the devices.
StoppedOpen(k) ==
  /\ Free /\ phase[k] = "stopping"
  /\ phase' = [phase EXCEPT ![k] = "stopped"]
  /\ device' = [device EXCEPT ![k] = @ \ {"port"}]
  /\ Reset /\ held' = 0 /\ stray' = stray \cup (Held \ {k})
  /\ UNCHANGED <<mode, started, voice, received>>

\* engine.stop, the port, the jitter buffer; then whatever stream is held is let go of.
Stopped(k) == /\ Free /\ phase[k] = "stopping"
              /\ phase' = [phase EXCEPT ![k] = "stopped"]
              /\ device' = [device EXCEPT ![k] = {}]
              /\ Reset /\ held' = 0 /\ stray' = stray \cup (Held \ {k})
              /\ UNCHANGED <<mode, started, voice, received>>

-----------------------------------------------------------------------------
\* The microphone.

\* mute, and the push_to_talk and set_talking that call it: the handler is muted, and the
\* stream if it holds one.
Mute(b) == /\ Free /\ quiet' = b
           /\ muted' = IF held # 0 THEN b ELSE muted
           /\ set' = (held # 0)
           /\ UNCHANGED <<mode, held, started, phase, device, received, stray, jbVars>>

-----------------------------------------------------------------------------
\* The receiving side.

\* Mutant of Listens: the relayed frames come as datagrams do.
ListensAny(s) == held # 0

\* Which frames may arrive next: feed takes the relayed ones in order, from the moment the
\* handler holds the stream; a datagram needs the port.
Listens(s) == IF mode = "relay" THEN held # 0 /\ s > heard
                                ELSE held # 0 /\ "port" \in device[held]

\* feed and datagram_received: a frame for a full queue is dropped.
Arrive(s) == /\ Free /\ Listens(s)
             /\ heard' = IF mode = "relay" THEN s ELSE heard
             /\ queue' = IF Len(queue) < QueueSize THEN Append(queue, s) ELSE queue
             /\ UNCHANGED <<mode, held, started, phase, device, voice, draining, stray, jbVars>>

\* _recv_loop: one frame is pushed, and all that are in order are played.
Take == /\ Free /\ held # 0 /\ phase[held] = "running" /\ queue # <<>>
        /\ queue' = Tail(queue) /\ Push(Head(queue)) /\ draining' = TRUE
        /\ UNCHANGED <<mode, held, started, phase, device, voice, heard, stray>>

Play == draining /\ Pop /\ UNCHANGED asVars

Drained == /\ draining /\ PopNothing /\ draining' = FALSE
           /\ UNCHANGED <<mode, held, started, phase, device, voice, queue, heard, stray>>

AsNext == \/ Start \/ StopEarly \/ Stop \/ Take \/ Play \/ Drained
          \/ \E b \in BOOLEAN : Mute(b)
          \/ \E k \in Stream : NoPort(k) \/ NoMicrophone(k) \/ NoSpeaker(k) \/ Opened(k) \/ Stopped(k)
          \/ \E s \in SeqNo : Arrive(s)

AsSpec == AsInit /\ [][AsNext]_<<asVars, jbVars>>

-----------------------------------------------------------------------------
\* Properties.

\* The fields, the limit of the queue, and which streams may have something open.
AsTypeOK ==
  /\ mode \in {"relay", "p2p"}
  /\ started \in 0..Streams /\ held \in 0..started
  /\ phase \in [Stream -> {"none", "opening", "running", "stopping", "stopped", "failed"}]
  /\ device \in [Stream -> SUBSET {"port", "mic", "speaker"}]
  /\ \A k \in Stream : /\ (phase[k] = "none") = (k > started)
                       /\ device[k] # {} => phase[k] \in {"running", "stopping", "failed"}
  /\ muted \in BOOLEAN /\ quiet \in BOOLEAN /\ set \in BOOLEAN
  /\ queue \in Seq(SeqNo) /\ Len(queue) <= QueueSize
  /\ draining \in BOOLEAN /\ (draining => held # 0 /\ phase[held] = "running" /\ initialised)
  /\ heard \in SeqNo \cup {-1}
  /\ stray \subseteq Stream

\* The microphone is on only for the stream the handler holds, so that the end of the
\* call turns it off; or for one that the handler let go of by starting another, by a stop
\* that overtook the start, or because a start failed.
MicHasOwner == \A k \in Stream : "mic" \in device[k] => held = k \/ k \in stray

\* The handler and its stream agree on whether the microphone is muted once the user has
\* said so while the handler holds it, also before the stream is open.
MuteFollows == held # 0 /\ set => muted = quiet

\* While the receive loop waits, a full buffer holds a frame that came too late to be
\* played: the frames behind a lost one are played before there are MaxSize of them.
StallEnds == Free /\ Cardinality(buffer) >= MaxSize => \E s \in buffer : s < nextSeq

\* Over the relay no frame comes too late: all that is kept will be played, and so, with
\* StallEnds, a lost frame never holds the playback up for good.
RelayKeepsNoLate == mode = "relay" => \A s \in buffer : s >= nextSeq
==============================================================================
