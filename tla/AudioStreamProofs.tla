-------------------------- MODULE AudioStreamProofs --------------------------
(***************************************************************************)
(* The receiving side of a call.  First the jitter buffer by itself, for   *)
(* every window size and every set of sequence numbers: its type           *)
(* invariant, that the head stays past what was played, and that frames    *)
(* are played in increasing order.  Then, for any number of streams, queue *)
(* and window sizes: the receive loop makes only calls that JitterBuffer   *)
(* allows, so that its theorems hold here too; and the properties of       *)
(* AudioStream itself.                                                     *)
(***************************************************************************)
EXTENDS AudioStream, FiniteSetTheorems, SequenceTheorems, WellFoundedInduction, TLAPS

-----------------------------------------------------------------------------
\* The jitter buffer.

\* A non-empty set of naturals has a least element, the one Min chooses: the
\* earliest frame min(self._buffer.keys()) of a buffer that is not empty.
LEMMA MinOfNaturals ==
  ASSUME NEW S \in SUBSET Nat, S # {}
  PROVE  Min(S) \in S /\ \A x \in S : Min(S) <= x
<1>1. IsWellFoundedOn({ss \in Nat \X Nat : ss[1] < ss[2]}, Nat)
  BY NatLessThanWellFounded DEF OpToRel
<1>2. PICK x \in S : \A y \in S : ~(<<y, x>> \in {ss \in Nat \X Nat : ss[1] < ss[2]})
  BY <1>1, WFMin
<1>3. ASSUME NEW y \in S PROVE x <= y
  <2>1. <<y, x>> \in Nat \X Nat /\ <<y, x>>[1] = y /\ <<y, x>>[2] = x
    OBVIOUS
  <2>2. ~(y < x)
    BY <1>2, <2>1
  <2> QED  BY <2>2
<1> QED  BY <1>2, <1>3 DEF Min

\* _advance_to_earliest never moves the head back and lands on a natural number.
LEMMA AdvanceForward ==
  ASSUME NEW b \in SUBSET Nat, b # {}, NEW head \in Nat
  PROVE  Advance(b, head) \in Nat /\ Advance(b, head) >= head
<1>1. Min(b) \in Nat
  BY MinOfNaturals
<1> QED  BY <1>1 DEF Advance

\* The head at which pop looks is a natural number that is not behind _next_seq.
LEMMA HeadForward ==
  ASSUME JbTypeOK
  PROVE  PopHead \in Nat /\ PopHead >= nextSeq
<1>1. buffer \in SUBSET Nat /\ nextSeq \in Nat
  BY JitterAssumption DEF JbTypeOK
<1>2. CASE buffer = {}
  <2>1. ~(Cardinality(buffer) >= MaxSize)
    BY <1>2, FS_EmptySet, JitterAssumption
  <2> QED  BY <1>1, <2>1 DEF PopHead
<1>3. CASE buffer # {}
  BY <1>1, <1>3, AdvanceForward DEF PopHead
<1> QED  BY <1>2, <1>3

\* No frame was played before the first one; the rest is what later frames must beat.
JbInv == JbTypeOK /\ HeadPastPlayed /\ (~popped => last = -1)

LEMMA JbInitInv == JbInit => JbInv
<1> SUFFICES ASSUME JbInit PROVE JbInv
  OBVIOUS
<1>1. JbTypeOK
  BY DEF JbInit, JbTypeOK
<1>2. HeadPastPlayed
  BY DEF JbInit, HeadPastPlayed
<1> QED  BY <1>1, <1>2 DEF JbInit, JbInv

LEMMA PushInv ==
  ASSUME JbInv, NEW s \in SeqNo, Push(s)
  PROVE  JbInv'
<1> DEFINE head == Anchor(s)
           kept == buffer \cup {s}
<1>1. /\ s \in Nat /\ nextSeq \in Nat /\ kept \in SUBSET SeqNo
      /\ kept \in SUBSET Nat /\ kept # {}
  BY JitterAssumption DEF JbInv, JbTypeOK
<1>2. head \in Nat /\ (popped => head >= nextSeq)
  BY <1>1 DEF JbInv, JbTypeOK, Anchor
<1>3. Advance(kept, head) \in Nat /\ Advance(kept, head) >= head
  BY <1>1, <1>2, AdvanceForward
<1> HIDE DEF head, kept
<1>4. nextSeq' \in Nat /\ nextSeq' >= head
  BY <1>2, <1>3 DEF Push, head, kept
<1>5. buffer' \in SUBSET SeqNo
  BY <1>1 DEF Push, JbInv, JbTypeOK, kept
<1>6. initialised' = TRUE /\ UNCHANGED <<popped, last, pops>>
  BY DEF Push
<1>7. JbTypeOK'
  BY <1>4, <1>5, <1>6 DEF JbInv, JbTypeOK
<1>8. HeadPastPlayed'
  BY <1>1, <1>2, <1>4, <1>6, JitterAssumption DEF JbInv, JbTypeOK, HeadPastPlayed
<1> QED  BY <1>6, <1>7, <1>8 DEF JbInv

LEMMA PopInv ==
  ASSUME JbInv, Pop
  PROVE  JbInv' /\ last' > last
<1>1. PopHead \in Nat /\ PopHead >= nextSeq
  BY HeadForward DEF JbInv
<1>2. last < PopHead
  BY <1>1, JitterAssumption DEF JbInv, JbTypeOK, HeadPastPlayed
<1>3. /\ buffer' \in SUBSET SeqNo /\ last' \in SeqNo /\ last' = PopHead
      /\ nextSeq' = PopHead + 1 /\ popped' = TRUE /\ initialised' = TRUE /\ pops' \in Nat
  BY DEF Pop, JbInv, JbTypeOK
<1> QED  BY <1>1, <1>2, <1>3 DEF JbInv, JbTypeOK, HeadPastPlayed

LEMMA JbNextInv == JbInv /\ [JbNext]_jbVars => JbInv'
<1> SUFFICES ASSUME JbInv, [JbNext]_jbVars PROVE JbInv'
  OBVIOUS
<1>1. CASE Pop
  BY <1>1, PopInv
<1>2. CASE PopNothing
  <2>1. PopHead \in Nat /\ PopHead >= nextSeq
    BY HeadForward DEF JbInv
  <2> QED  BY <1>2, <2>1, JitterAssumption DEF PopNothing, JbInv, JbTypeOK, HeadPastPlayed
<1>3. CASE Reset
  BY <1>3 DEF Reset, JbInv, JbTypeOK, HeadPastPlayed
<1>4. CASE \E s \in SeqNo : Push(s)
  BY <1>4, PushInv
<1>5. CASE UNCHANGED jbVars
  BY <1>5 DEF jbVars, JbInv, JbTypeOK, HeadPastPlayed
<1> QED  BY <1>1, <1>2, <1>3, <1>4, <1>5 DEF JbNext

LEMMA JbInvariant == JbSpec => []JbInv
BY JbInitInv, JbNextInv, PTL DEF JbSpec

\* The fields of the jitter buffer keep their types, and a buffer without an anchor is
\* empty (__init__ and reset against push).
THEOREM JitterTypeCorrect == JbSpec => []JbTypeOK
<1>1. JbInv => JbTypeOK
  BY DEF JbInv
<1> QED  BY <1>1, JbInvariant, PTL

\* push never moves the head back to or behind a frame that pop has returned.
THEOREM HeadStaysPastPlayed == JbSpec => []HeadPastPlayed
<1>1. JbInv => HeadPastPlayed
  BY DEF JbInv
<1> QED  BY <1>1, JbInvariant, PTL

\* pop returns frames in strictly increasing order between two resets, for every
\* window size and every order, loss and duplication of the frames pushed.
THEOREM FramesPlayedInOrder == JbSpec => PlayedInOrder
<1>1. ASSUME JbInv, JbNext, pops' = pops + 1 PROVE last' > last
  <2>1. pops \in Nat
    BY <1>1 DEF JbInv, JbTypeOK
  <2>2. CASE Pop
    BY <1>1, <2>2, PopInv
  <2>3. CASE PopNothing
    BY <1>1, <2>1, <2>3 DEF PopNothing
  <2>4. CASE Reset
    BY <1>1, <2>1, <2>4 DEF Reset
  <2>5. CASE \E s \in SeqNo : Push(s)
    BY <1>1, <2>1, <2>5 DEF Push
  <2> QED  BY <1>1, <2>2, <2>3, <2>4, <2>5 DEF JbNext
<1>2. JbInv /\ [JbNext]_jbVars => [pops' = pops + 1 => last' > last]_jbVars
  BY <1>1
<1> QED  BY <1>2, JbInvariant, PTL DEF JbSpec, PlayedInOrder

\* No advance of the head passes over a frame that is in the buffer.
THEOREM HeldFramesArePlayed == JbSpec => HeldFramesNotSkipped
<1> DEFINE Kept == \A s \in buffer : nextSeq <= s /\ s < nextSeq' => last' = s
<1>1. ASSUME JbInv, JbNext PROVE Kept
  <2>1. /\ buffer \in SUBSET Nat /\ nextSeq \in Nat
        /\ PopHead \in Nat /\ PopHead >= nextSeq
    BY <1>1, HeadForward, JitterAssumption DEF JbInv, JbTypeOK
  <2>2. ASSUME NEW s \in buffer, nextSeq <= s PROVE PopHead <= s
    <3>1. Min(buffer) <= s
      BY <2>1, <2>2, MinOfNaturals
    <3> QED  BY <2>1, <2>2, <3>1 DEF PopHead, Advance
  <2>3. CASE Pop
    <3>1. nextSeq' = PopHead + 1 /\ last' = PopHead
      BY <2>3 DEF Pop
    <3> QED  BY <2>1, <2>2, <3>1
  <2>4. CASE PopNothing
    <3>1. nextSeq' <= PopHead
      BY <2>1, <2>4 DEF PopNothing
    <3>2. nextSeq' \in Nat
      BY <2>1, <2>4 DEF PopNothing
    <3> QED  BY <2>1, <2>2, <3>1, <3>2
  <2>5. CASE Reset
    BY <2>1, <2>5 DEF Reset
  <2>6. ASSUME NEW f \in SeqNo, Push(f), NEW s \in buffer, nextSeq <= s, s < nextSeq'
        PROVE  FALSE
    <3> DEFINE head == Anchor(f)
               kept == buffer \cup {f}
    <3>1. /\ f \in Nat /\ kept \in SUBSET Nat /\ s \in kept
          /\ head \in Nat /\ initialised
      BY <1>1, <2>1, <2>6, JitterAssumption DEF JbInv, JbTypeOK, Anchor
    <3>2. head <= nextSeq
      BY <2>1, <3>1 DEF Anchor
    <3>3. Min(kept) <= s
      BY <3>1, MinOfNaturals
    <3>4. Advance(kept, head) <= s
      BY <2>1, <2>6, <3>1, <3>2, <3>3 DEF Advance
    <3> HIDE DEF head, kept
    <3>5. nextSeq' = head \/ nextSeq' = Advance(kept, head)
      BY <2>6 DEF Push, head, kept
    <3>6. head <= s
      BY <2>1, <2>6, <3>1, <3>2
    <3>7. CASE nextSeq' = head
      BY <2>1, <2>6, <3>1, <3>6, <3>7
    <3>8. CASE nextSeq' = Advance(kept, head)
      <4>1. nextSeq' \in Nat
        BY <3>1, <3>8, AdvanceForward
      <4> QED  BY <2>1, <2>6, <3>4, <3>8, <4>1
    <3> QED  BY <3>5, <3>7, <3>8
  <2> QED  BY <1>1, <2>3, <2>4, <2>5, <2>6 DEF JbNext
<1>2. JbInv /\ [JbNext]_jbVars => [Kept]_jbVars
  BY <1>1
<1> QED  BY <1>2, JbInvariant, PTL DEF JbSpec, HeldFramesNotSkipped

-----------------------------------------------------------------------------
\* The streams of a call.

allVars == <<asVars, jbVars>>

-----------------------------------------------------------------------------
\* Types.

LEMMA AsInitType == AsInit => AsTypeOK
<1> SUFFICES ASSUME AsInit PROVE AsTypeOK
  OBVIOUS
<1>1. queue \in Seq(SeqNo) /\ Len(queue) = 0
  BY DEF AsInit
<1>2. /\ phase \in [Stream -> {"none", "opening", "running", "stopping", "stopped", "failed"}]
      /\ device \in [Stream -> SUBSET {"port", "mic", "speaker"}]
  BY DEF AsInit
<1>3. \A k \in Stream : (phase[k] = "none") = (k > started) /\ device[k] = {}
  BY DEF AsInit, Stream
<1>4. started \in 0..Streams /\ held \in 0..started /\ stray \subseteq Stream
  BY AudioAssumption DEF AsInit
<1>5. Len(queue) <= QueueSize /\ draining = FALSE /\ heard = -1
  BY <1>1, AudioAssumption DEF AsInit
<1>6. mode \in {"relay", "p2p"} /\ muted = FALSE /\ quiet = FALSE /\ set = FALSE
  BY DEF AsInit
<1> QED  BY <1>1, <1>2, <1>3, <1>4, <1>5, <1>6 DEF AsTypeOK

\* A stream the handler holds was started.
LEMMA HeldIsStream ==
  ASSUME AsTypeOK
  PROVE  Held \subseteq Stream /\ (held # 0 => held \in Stream /\ Held = {held})
BY AudioAssumption DEF AsTypeOK, Stream, Held

\* The frame that is taken is one that was pushed into the queue.
LEMMA TakenIsFrame ==
  ASSUME AsTypeOK, queue # <<>>
  PROVE  /\ Head(queue) \in SeqNo /\ Tail(queue) \in Seq(SeqNo)
         /\ Len(Tail(queue)) = Len(queue) - 1
BY DEF AsTypeOK

LEMMA LifeType ==
  ASSUME AsTypeOK,
         Start \/ StopEarly \/ Stop \/ \E k \in Stream : Stopped(k)
  PROVE  AsTypeOK'
<1>1. CASE Start
  <2>1. /\ started \in 0..Streams /\ started < Streams /\ Held \subseteq Stream
        /\ started + 1 \in Stream /\ device[started + 1] = {}
    <3>1. started \in 0..Streams /\ started < Streams /\ Held \subseteq Stream
      BY <1>1, HeldIsStream DEF Start, AsTypeOK
    <3>2. started + 1 \in Stream
      BY <3>1, AudioAssumption DEF Stream
    <3>3. phase[started + 1] = "none"
      BY <3>1, <3>2 DEF AsTypeOK, Stream
    <3> QED  BY <3>1, <3>2, <3>3 DEF AsTypeOK
  <2>2. /\ draining = FALSE /\ started' = started + 1 /\ held' = started + 1
        /\ phase' = [phase EXCEPT ![started + 1] = "opening"] /\ device' = device
        /\ queue' = <<>> /\ heard' = -1 /\ muted' = FALSE /\ set' = FALSE
        /\ stray' = stray \cup Held /\ UNCHANGED <<mode, quiet, draining>>
    BY <1>1 DEF Start, Free, AsTypeOK
  <2>3. \A j \in Stream : /\ (phase'[j] = "none") = (j > started')
                          /\ device'[j] # {} => phase'[j] \in {"running", "stopping", "failed"}
    BY <2>1, <2>2 DEF AsTypeOK, Stream
  <2>4. phase' \in [Stream -> {"none", "opening", "running", "stopping", "stopped", "failed"}]
    BY <2>2 DEF AsTypeOK
  <2>5. queue' \in Seq(SeqNo) /\ Len(queue') <= QueueSize
    BY <2>2, AudioAssumption
  <2>6. held' \in 0..started' /\ started' \in 0..Streams
    BY <2>1, <2>2, AudioAssumption
  <2> QED  BY <2>1, <2>2, <2>3, <2>4, <2>5, <2>6 DEF AsTypeOK
<1>2. CASE StopEarly
  BY <1>2, HeldIsStream, AudioAssumption DEF StopEarly, Free, AsTypeOK, Stream, voice, received
<1>3. CASE Stop
  BY <1>3, HeldIsStream, AudioAssumption DEF Stop, Free, AsTypeOK, Stream, voice, received, jbVars
<1>4. ASSUME NEW k \in Stream, Stopped(k) PROVE AsTypeOK'
  <2>1. Held \subseteq Stream
    BY HeldIsStream
  <2>2. /\ draining = FALSE /\ phase[k] = "stopping"
        /\ phase' = [phase EXCEPT ![k] = "stopped"] /\ device' = [device EXCEPT ![k] = {}]
        /\ held' = 0 /\ stray' = stray \cup (Held \ {k})
        /\ UNCHANGED <<mode, started, muted, quiet, set, queue, draining, heard>>
    BY <1>4 DEF Stopped, Free, AsTypeOK, voice, received
  <2>3. \A j \in Stream : /\ (phase'[j] = "none") = (j > started)
                          /\ device'[j] # {} => phase'[j] \in {"running", "stopping", "failed"}
    BY <1>4, <2>2 DEF AsTypeOK
  <2> QED  BY <1>4, <2>1, <2>2, <2>3 DEF AsTypeOK
<1> QED  BY <1>1, <1>2, <1>3, <1>4

LEMMA OpensType ==
  ASSUME AsTypeOK, NEW k \in Stream, NEW ports \in SUBSET {"port", "mic", "speaker"},
         NEW ok \in BOOLEAN, Opens(k, ports, ok)
  PROVE  AsTypeOK'
<1>1. Held \subseteq Stream
  BY HeldIsStream
<1>2. /\ draining = FALSE /\ phase[k] = "opening"
      /\ phase' = [phase EXCEPT ![k] = IF ok THEN "running" ELSE "failed"]
      /\ device' = [device EXCEPT ![k] = ports]
      /\ held' \in {held, 0} /\ stray' \subseteq stray \cup {k} \cup Held
      /\ UNCHANGED <<mode, started, muted, quiet, set, queue, draining, heard>>
  BY DEF Opens, Free, AsTypeOK, voice, received
<1>3. \A j \in Stream : /\ (phase'[j] = "none") = (j > started)
                        /\ device'[j] # {} => phase'[j] \in {"running", "stopping", "failed"}
  BY <1>2 DEF AsTypeOK
<1>4. /\ phase' \in [Stream -> {"none", "opening", "running", "stopping", "stopped", "failed"}]
      /\ device' \in [Stream -> SUBSET {"port", "mic", "speaker"}]
  BY <1>2 DEF AsTypeOK
<1>5. held' \in 0..started' /\ stray' \subseteq Stream
  BY <1>1, <1>2, AudioAssumption DEF AsTypeOK
<1> QED  BY <1>2, <1>3, <1>4, <1>5 DEF AsTypeOK

\* What the four outcomes of start have in common.
LEMMA OutcomesAreOpens ==
  ASSUME NEW k \in Stream, NoPort(k) \/ NoMicrophone(k) \/ NoSpeaker(k) \/ Opened(k)
  PROVE  \E ports \in SUBSET {"port", "mic", "speaker"}, ok \in BOOLEAN :
           Opens(k, ports, ok)
<1>1. CASE NoPort(k)
  BY <1>1 DEF NoPort
<1>2. CASE NoMicrophone(k)
  BY <1>2, {"port"} \in SUBSET {"port", "mic", "speaker"} DEF NoMicrophone
<1>3. CASE NoSpeaker(k)
  BY <1>3, {"port", "mic"} \in SUBSET {"port", "mic", "speaker"} DEF NoSpeaker
<1>4. CASE Opened(k)
  BY <1>4 DEF Opened
<1> QED  BY <1>1, <1>2, <1>3, <1>4

LEMMA AudioType ==
  ASSUME AsTypeOK,
         \/ Take \/ Play \/ Drained
         \/ \E b \in BOOLEAN : Mute(b)
         \/ \E s \in SeqNo : Arrive(s)
  PROVE  AsTypeOK'
<1>1. CASE Take
  <2>1. initialised' = TRUE
    BY <1>1 DEF Take, Push
  <2>2. queue' \in Seq(SeqNo) /\ Len(queue') <= QueueSize
    BY <1>1, TakenIsFrame, AudioAssumption DEF Take, AsTypeOK
  <2> QED  BY <1>1, <2>1, <2>2 DEF Take, AsTypeOK, voice
<1>2. CASE Play
  BY <1>2 DEF Play, Pop, AsTypeOK, asVars
<1>3. CASE Drained
  BY <1>3 DEF Drained, AsTypeOK, voice
<1>4. ASSUME NEW b \in BOOLEAN, Mute(b) PROVE AsTypeOK'
  BY <1>4 DEF Mute, Free, AsTypeOK, received, jbVars
<1>5. ASSUME NEW s \in SeqNo, Arrive(s) PROVE AsTypeOK'
  <2>1. queue' \in Seq(SeqNo) /\ Len(queue') <= QueueSize
    BY <1>5, AudioAssumption DEF Arrive, AsTypeOK
  <2> QED  BY <1>5, <2>1 DEF Arrive, Free, AsTypeOK, voice, jbVars
<1> QED  BY <1>1, <1>2, <1>3, <1>4, <1>5

LEMMA AsNextType == AsTypeOK /\ [AsNext]_allVars => AsTypeOK'
<1> SUFFICES ASSUME AsTypeOK, [AsNext]_allVars PROVE AsTypeOK'
  OBVIOUS
<1>1. ASSUME NEW k \in Stream, NoPort(k) \/ NoMicrophone(k) \/ NoSpeaker(k) \/ Opened(k)
      PROVE  AsTypeOK'
  BY <1>1, OutcomesAreOpens, OpensType
<1>2. CASE UNCHANGED allVars
  BY <1>2 DEF allVars, asVars, jbVars, AsTypeOK
<1> QED  BY <1>1, <1>2, LifeType, AudioType DEF AsNext

-----------------------------------------------------------------------------
\* Every step of the streams makes one call of the jitter buffer or none.
LEMMA AsJitters == AsTypeOK /\ [AsNext]_allVars => [JbNext]_jbVars
<1> SUFFICES ASSUME AsTypeOK, [AsNext]_allVars PROVE [JbNext]_jbVars
  OBVIOUS
<1>1. CASE Start \/ StopEarly \/ \E k \in Stream : Stopped(k)
  BY <1>1 DEF Start, StopEarly, Stopped, JbNext
<1>2. CASE Play \/ Drained
  BY <1>2 DEF Play, Drained, JbNext
<1>3. CASE Take
  BY <1>3, TakenIsFrame DEF Take, JbNext
<1>4. CASE Stop \/ (\E b \in BOOLEAN : Mute(b)) \/ \E s \in SeqNo : Arrive(s)
  BY <1>4 DEF Stop, Mute, Arrive
<1>5. ASSUME NEW k \in Stream, NoPort(k) \/ NoMicrophone(k) \/ NoSpeaker(k) \/ Opened(k)
      PROVE  UNCHANGED jbVars
  BY <1>5, OutcomesAreOpens DEF Opens
<1>6. CASE UNCHANGED allVars
  BY <1>6 DEF allVars
<1> QED  BY <1>1, <1>2, <1>3, <1>4, <1>5, <1>6 DEF AsNext

-----------------------------------------------------------------------------
\* The microphone and muting.

\* A stream that is being started, runs or is being stopped is held, or it is astray.
Owned == \A k \in Stream :
  phase[k] \in {"opening", "running", "stopping"} => held = k \/ k \in stray

VoiceInv == Owned /\ MicHasOwner /\ MuteFollows

LEMMA AsInitVoice == AsInit => VoiceInv
BY DEF AsInit, VoiceInv, Owned, MicHasOwner, MuteFollows

LEMMA OpensVoice ==
  ASSUME AsTypeOK, VoiceInv, NEW k \in Stream, NEW ports \in SUBSET {"port", "mic", "speaker"},
         NEW ok \in BOOLEAN, Opens(k, ports, ok)
  PROVE  VoiceInv'
<1>1. /\ phase[k] = "opening" /\ phase' = [phase EXCEPT ![k] = IF ok THEN "running" ELSE "failed"]
      /\ device' = [device EXCEPT ![k] = ports]
      /\ held' = IF ok THEN held ELSE 0
      /\ stray' = stray \cup (IF ok THEN {} ELSE {k} \cup Held)
      /\ UNCHANGED <<muted, quiet, set>>
  BY DEF Opens, voice
<1>2. held # 0 => Held = {held}
  BY HeldIsStream
<1>3. 0 \notin Stream
  BY AudioAssumption DEF Stream
<1>4. Owned'
  BY <1>1, <1>2, <1>3 DEF AsTypeOK, VoiceInv, Owned
<1>5. MicHasOwner'
  BY <1>1, <1>2, <1>3 DEF AsTypeOK, VoiceInv, Owned, MicHasOwner
<1>6. MuteFollows'
  BY <1>1 DEF VoiceInv, MuteFollows
<1> QED  BY <1>4, <1>5, <1>6 DEF VoiceInv

LEMMA LifeVoice ==
  ASSUME AsTypeOK, VoiceInv,
         Start \/ StopEarly \/ Stop \/ \E k \in Stream : Stopped(k)
  PROVE  VoiceInv'
<1>1. /\ 0 \notin Stream
      /\ held # 0 => held \in Stream /\ Held = {held}
  BY HeldIsStream, AudioAssumption DEF Stream
<1>2. CASE Start
  BY <1>1, <1>2 DEF Start, AsTypeOK, VoiceInv, Owned, MicHasOwner, MuteFollows
<1>3. CASE StopEarly
  BY <1>1, <1>3 DEF StopEarly, AsTypeOK, VoiceInv, Owned, MicHasOwner, MuteFollows, voice
<1>4. CASE Stop
  BY <1>1, <1>4 DEF Stop, AsTypeOK, VoiceInv, Owned, MicHasOwner, MuteFollows, voice
<1>5. ASSUME NEW k \in Stream, Stopped(k) PROVE VoiceInv'
  BY <1>1, <1>5 DEF Stopped, AsTypeOK, VoiceInv, Owned, MicHasOwner, MuteFollows, voice
<1> QED  BY <1>2, <1>3, <1>4, <1>5

LEMMA AsNextVoice == AsTypeOK /\ VoiceInv /\ [AsNext]_allVars => VoiceInv'
<1> SUFFICES ASSUME AsTypeOK, VoiceInv, [AsNext]_allVars PROVE VoiceInv'
  OBVIOUS
<1>1. ASSUME NEW b \in BOOLEAN, Mute(b) PROVE VoiceInv'
  BY <1>1 DEF Mute, VoiceInv, Owned, MicHasOwner, MuteFollows
<1>2. ASSUME UNCHANGED <<held, phase, device, muted, quiet, set, stray>> PROVE VoiceInv'
  BY <1>2 DEF VoiceInv, Owned, MicHasOwner, MuteFollows
<1>3. CASE Take \/ Play \/ Drained \/ \E s \in SeqNo : Arrive(s)
  BY <1>2, <1>3 DEF Take, Play, Drained, Arrive, asVars, voice
<1>4. CASE UNCHANGED allVars
  BY <1>2, <1>4 DEF allVars, asVars
<1>5. ASSUME NEW k \in Stream, NoPort(k) \/ NoMicrophone(k) \/ NoSpeaker(k) \/ Opened(k)
      PROVE  VoiceInv'
  BY <1>5, OutcomesAreOpens, OpensVoice
<1> QED  BY <1>1, <1>3, <1>4, <1>5, LifeVoice DEF AsNext

-----------------------------------------------------------------------------
\* The window.

\* Where pop looks: at the head, or at the earliest frame of the buffer.
LEMMA PopHeadIs ==
  ASSUME JbTypeOK
  PROVE  /\ PopHead \in Nat /\ PopHead >= nextSeq
         /\ PopHead = nextSeq \/ PopHead \in buffer
         /\ \A s \in buffer : nextSeq <= s => PopHead <= s
<1>1. buffer \in SUBSET Nat /\ nextSeq \in Nat
  BY JitterAssumption DEF JbTypeOK
<1>2. CASE PopHead = nextSeq
  BY <1>1, <1>2
<1>3. CASE PopHead # nextSeq
  <2>1. buffer # {}
    BY <1>3, FS_EmptySet, JitterAssumption DEF PopHead
  <2>2. Min(buffer) \in buffer /\ \A s \in buffer : Min(buffer) <= s
    BY <1>1, <2>1, MinOfNaturals
  <2>3. PopHead = Min(buffer) /\ Min(buffer) > nextSeq
    BY <1>3 DEF PopHead, Advance
  <2>4. Min(buffer) \in Nat
    BY <1>1, <2>2
  <2> HIDE DEF Min
  <2> QED  BY <1>1, <2>2, <2>3, <2>4
<1> QED  BY <1>2, <1>3

\* An empty buffer is not full.
LEMMA EmptyIsNotFull == Cardinality({}) < MaxSize
BY FS_EmptySet, JitterAssumption

LEMMA AsInitStall == AsInit => StallEnds
BY EmptyIsNotFull, FS_EmptySet, JitterAssumption DEF AsInit, JbInit, StallEnds

\* After a pop that returned nothing a full buffer has a frame behind the head.
LEMMA DrainedStall ==
  ASSUME AsTypeOK, JbTypeOK, Drained
  PROVE  StallEnds'
<1> SUFFICES ASSUME Cardinality(buffer') >= MaxSize
             PROVE  \E s \in buffer' : s < nextSeq'
  BY DEF StallEnds
<1>1. /\ buffer' = buffer /\ initialised /\ PopHead \notin buffer /\ nextSeq' = PopHead
      /\ buffer \in SUBSET Nat /\ nextSeq \in Nat
  BY JitterAssumption DEF Drained, PopNothing, AsTypeOK, JbTypeOK
<1>2. PopHead = nextSeq
  BY <1>1, PopHeadIs
<1>3. buffer # {}
  BY <1>1, FS_EmptySet, JitterAssumption
<1>4. Min(buffer) \in buffer
  BY <1>1, <1>3, MinOfNaturals
<1>5. Advance(buffer, nextSeq) = nextSeq
  BY <1>1, <1>2 DEF PopHead
<1>6. Min(buffer) \in Nat /\ ~(Min(buffer) > nextSeq)
  BY <1>1, <1>2, <1>4, <1>5 DEF Advance
<1>7. Min(buffer) # nextSeq
  BY <1>1, <1>2, <1>4
<1>8. Min(buffer) < nextSeq
  BY <1>1, <1>6, <1>7
<1> QED  BY <1>1, <1>2, <1>4, <1>8

LEMMA AsNextStall == AsTypeOK /\ JbTypeOK /\ StallEnds /\ [AsNext]_allVars => StallEnds'
<1> SUFFICES ASSUME AsTypeOK, JbTypeOK, StallEnds, [AsNext]_allVars PROVE StallEnds'
  OBVIOUS
<1>1. CASE Start \/ StopEarly \/ \E k \in Stream : Stopped(k)
  <2>1. buffer' = {}
    BY <1>1 DEF Start, StopEarly, Stopped, Reset
  <2> QED  BY <2>1, FS_EmptySet, JitterAssumption DEF StallEnds
<1>2. CASE Take \/ Play
  BY <1>2 DEF Take, Play, asVars, StallEnds, Free
<1>3. ASSUME UNCHANGED <<draining, jbVars>> PROVE StallEnds'
  BY <1>3 DEF StallEnds, Free, jbVars
<1>4. CASE Stop \/ (\E b \in BOOLEAN : Mute(b)) \/ \E s \in SeqNo : Arrive(s)
  BY <1>3, <1>4 DEF Stop, Mute, Arrive, received
<1>5. ASSUME NEW k \in Stream, NoPort(k) \/ NoMicrophone(k) \/ NoSpeaker(k) \/ Opened(k)
      PROVE  StallEnds'
  BY <1>3, <1>5, OutcomesAreOpens DEF Opens, received
<1>6. CASE UNCHANGED allVars
  BY <1>3, <1>6 DEF allVars, asVars
<1> QED  BY <1>1, <1>2, <1>4, <1>5, <1>6, DrainedStall DEF AsNext

-----------------------------------------------------------------------------
\* Relayed frames.

\* What is queued is in order, and after all that was pushed and played.
InOrder ==
  /\ \A i, j \in 1..Len(queue) : i < j => queue[i] < queue[j]
  /\ \A i \in 1..Len(queue) : /\ queue[i] <= heard
                              /\ initialised => nextSeq <= queue[i]
                              /\ \A s \in buffer : s < queue[i]
  /\ \A s \in buffer : nextSeq <= s /\ s <= heard
  /\ initialised => nextSeq <= heard + 1

RelayInv == mode = "relay" => InOrder

LEMMA AsInitRelay == AsInit => RelayInv
BY DEF AsInit, JbInit, RelayInv, InOrder

\* The types that ordering needs.
LEMMA Numbers ==
  ASSUME AsTypeOK, JbTypeOK
  PROVE  /\ buffer \in SUBSET Nat /\ nextSeq \in Nat /\ heard \in Int
         /\ Len(queue) \in Nat /\ \A i \in 1..Len(queue) : queue[i] \in Nat
<1>1. \A i \in 1..Len(queue) : queue[i] \in SeqNo
  BY DEF AsTypeOK
<1>2. heard \in SeqNo \cup {-1} /\ nextSeq \in Nat /\ buffer \in SUBSET SeqNo /\ Len(queue) \in Nat
  BY DEF AsTypeOK, JbTypeOK
<1>3. SeqNo \in SUBSET Nat
  BY JitterAssumption
<1>4. buffer \in SUBSET Nat /\ \A i \in 1..Len(queue) : queue[i] \in Nat
  BY <1>1, <1>2, <1>3
<1>5. heard \in Int
  BY <1>2, <1>3
<1> QED  BY <1>2, <1>4, <1>5

\* A frame that arrives is later than all before.
LEMMA ArriveInOrder ==
  ASSUME AsTypeOK, JbTypeOK, InOrder, mode = "relay", NEW s \in SeqNo, Arrive(s)
  PROVE  InOrder'
<1>1. /\ s \in Nat /\ s > heard /\ heard' = s
      /\ UNCHANGED <<buffer, nextSeq, initialised>>
  BY JitterAssumption DEF Arrive, Listens, jbVars
<1>2. CASE queue' = queue
  BY <1>1, <1>2, Numbers DEF InOrder
<1>3. CASE queue' = Append(queue, s)
  <2>1. /\ Len(queue') = Len(queue) + 1 /\ queue'[Len(queue) + 1] = s
        /\ \A i \in 1..Len(queue) : queue'[i] = queue[i]
    BY <1>3 DEF AsTypeOK
  <2>2. \A i \in 1..Len(queue') : i \in 1..Len(queue) \/ i = Len(queue) + 1
    BY <2>1, Numbers
  <2> QED  BY <1>1, <2>1, <2>2, Numbers DEF InOrder
<1> QED  BY <1>2, <1>3 DEF Arrive

\* The frame taken is the next one: no anchor is lowered for it, and it is not too late.
LEMMA TakeInOrder ==
  ASSUME AsTypeOK, JbTypeOK, InOrder, Take
  PROVE  InOrder'
<1> DEFINE s == Head(queue)
           head == Anchor(s)
           kept == buffer \cup {s}
<1>1. /\ s \in Nat /\ s = queue[1] /\ Len(queue) \in Nat \ {0} /\ 1 \in 1..Len(queue)
      /\ heard \in Int /\ nextSeq \in Nat /\ kept \in SUBSET Nat
      /\ heard' = heard /\ initialised \in BOOLEAN
  <2>1. queue # <<>> /\ queue \in Seq(SeqNo) /\ heard' = heard
    BY DEF Take, AsTypeOK
  <2>2. s = queue[1] /\ Len(queue) \in Nat \ {0}
    BY <2>1
  <2>3. s \in Nat
    BY <2>1, TakenIsFrame, JitterAssumption
  <2> QED  BY <2>1, <2>2, <2>3, Numbers DEF JbTypeOK
<1>2. /\ Len(queue') = Len(queue) - 1
      /\ \A i \in 1..Len(queue') : queue'[i] = queue[i + 1] /\ i + 1 \in 1..Len(queue)
  <2>1. queue \in Seq(SeqNo) /\ queue # <<>> /\ queue' = Tail(queue)
    BY DEF Take, AsTypeOK
  <2> QED  BY <2>1
<1>3. head \in Nat /\ head <= s /\ \A x \in kept : head <= x
  BY <1>1 DEF InOrder, Anchor, JbTypeOK
<1>4. /\ Advance(kept, head) \in Nat
      /\ \A x \in kept : Advance(kept, head) <= x
  BY <1>1, <1>3, MinOfNaturals DEF Advance
<1>5. \A x \in kept : x <= s
  BY <1>1 DEF InOrder
<1> HIDE DEF s, head, kept
<1>6. /\ nextSeq' = head \/ nextSeq' = Advance(kept, head)
      /\ buffer' = kept \/ buffer' = buffer
      /\ initialised' = TRUE
  BY DEF Take, Push, s, head, kept
<1>7. nextSeq' \in Nat /\ nextSeq' <= s /\ \A x \in kept : nextSeq' <= x
  BY <1>1, <1>3, <1>4, <1>6 DEF kept
<1>8. s <= heard /\ \A i \in 1..Len(queue') : s < queue'[i] /\ queue'[i] <= heard
  <2>1. s <= heard
    BY <1>1 DEF InOrder
  <2>2. ASSUME NEW i \in 1..Len(queue') PROVE s < queue'[i] /\ queue'[i] <= heard
    <3>1. queue'[i] = queue[i + 1] /\ i + 1 \in 1..Len(queue) /\ 1 < i + 1
      BY <1>1, <1>2
    <3> QED  BY <1>1, <3>1 DEF InOrder
  <2> QED  BY <2>1, <2>2
<1>9. buffer' \subseteq kept
  BY <1>6 DEF kept
<1>10. \A i \in 1..Len(queue') : queue'[i] \in Nat
  BY <1>1, <1>2, Numbers
<1>11. ASSUME NEW i \in 1..Len(queue'), NEW j \in 1..Len(queue'), i < j
       PROVE  queue'[i] < queue'[j]
  <2>1. /\ queue'[i] = queue[i + 1] /\ i + 1 \in 1..Len(queue)
        /\ queue'[j] = queue[j + 1] /\ j + 1 \in 1..Len(queue)
        /\ i + 1 < j + 1
    BY <1>1, <1>2, <1>11
  <2> QED  BY <2>1 DEF InOrder
<1>12. \A x \in buffer' : x \in Nat /\ x <= s /\ nextSeq' <= x
  BY <1>1, <1>5, <1>7, <1>9
<1> QED  BY <1>1, <1>7, <1>8, <1>10, <1>11, <1>12 DEF InOrder

LEMMA PopInOrder ==
  ASSUME AsTypeOK, JbTypeOK, InOrder, Play \/ Drained
  PROVE  InOrder'
<1>1. queue' = queue /\ heard' = heard
  BY DEF Play, Drained, asVars
<1>2. /\ PopHead \in Nat /\ PopHead >= nextSeq
      /\ PopHead = nextSeq \/ PopHead \in buffer
      /\ \A s \in buffer : PopHead <= s
  BY PopHeadIs DEF InOrder
<1>3. CASE Play
  <2>1. /\ PopHead \in buffer /\ buffer' = buffer \ {PopHead} /\ nextSeq' = PopHead + 1
        /\ initialised' = initialised /\ initialised
    BY <1>3 DEF Play, Pop
  <2> QED  BY <1>1, <1>2, <2>1, Numbers DEF InOrder
<1>4. CASE Drained
  <2>1. nextSeq' = PopHead /\ buffer' = buffer /\ initialised' = initialised /\ initialised
    BY <1>4 DEF Drained, PopNothing, AsTypeOK
  <2> QED  BY <1>1, <1>2, <2>1, Numbers DEF InOrder
<1> QED  BY <1>3, <1>4

LEMMA AsNextRelay == AsTypeOK /\ JbTypeOK /\ RelayInv /\ [AsNext]_allVars => RelayInv'
<1> SUFFICES ASSUME AsTypeOK, JbTypeOK, RelayInv, [AsNext]_allVars, mode' = "relay"
             PROVE  InOrder'
  BY DEF RelayInv
<1>1. InOrder
  <2>1. mode' = mode
    BY OutcomesAreOpens DEF AsNext, Start, StopEarly, Stop, Take, Play, Drained, Mute, Arrive,
                            Stopped, Opens, allVars, asVars
  <2> QED  BY <2>1 DEF RelayInv
<1>2. CASE Start
  BY <1>2 DEF Start, Reset, InOrder
<1>3. CASE StopEarly \/ \E k \in Stream : Stopped(k)
  <2>1. buffer' = {} /\ initialised' = FALSE /\ queue' = queue /\ heard' = heard
    BY <1>3 DEF StopEarly, Stopped, Reset, received
  <2> QED  BY <1>1, <2>1 DEF InOrder
<1>4. ASSUME UNCHANGED <<queue, heard, jbVars>> PROVE InOrder'
  BY <1>1, <1>4 DEF InOrder, jbVars
<1>5. CASE Stop \/ \E b \in BOOLEAN : Mute(b)
  BY <1>4, <1>5 DEF Stop, Mute, received
<1>6. ASSUME NEW k \in Stream, NoPort(k) \/ NoMicrophone(k) \/ NoSpeaker(k) \/ Opened(k)
      PROVE  InOrder'
  BY <1>4, <1>6, OutcomesAreOpens DEF Opens, received
<1>7. CASE UNCHANGED allVars
  BY <1>4, <1>7 DEF allVars, asVars
<1>8. ASSUME NEW s \in SeqNo, Arrive(s) PROVE InOrder'
  <2>1. mode = "relay"
    BY <1>8 DEF Arrive
  <2> QED  BY <1>1, <1>8, <2>1, ArriveInOrder
<1> QED  BY <1>1, <1>2, <1>3, <1>5, <1>6, <1>7, <1>8, TakeInOrder, PopInOrder DEF AsNext

-----------------------------------------------------------------------------
\* The theorems.

AsInv == AsTypeOK /\ JbInv /\ VoiceInv /\ StallEnds /\ RelayInv

LEMMA AudioInvariant == AsSpec => []AsInv
<1>1. AsInit => AsInv
  BY AsInitType, JbInitInv, AsInitVoice, AsInitStall, AsInitRelay DEF AsInit, AsInv
<1>2. AsInv /\ [AsNext]_allVars => AsInv'
  BY AsNextType, AsJitters, JbNextInv, AsNextVoice, AsNextStall, AsNextRelay DEF AsInv, JbInv
<1> QED  BY <1>1, <1>2, PTL DEF AsSpec, allVars

\* start, stop, feed and _recv_loop use the jitter buffer as JitterBuffer lets it be used,
\* so that its theorems hold for the frames of a call.
THEOREM AudioUsesJitterBuffer == AsSpec => JbSpec
<1>1. AsInit => JbInit
  BY DEF AsInit
<1>2. AsInv => AsTypeOK
  BY DEF AsInv
<1> QED  BY <1>1, <1>2, AudioInvariant, AsJitters, PTL DEF AsSpec, JbSpec, allVars

\* The fields of the streams and their handler keep their types, and the receive queue
\* its limit.
THEOREM AudioTypeCorrect == AsSpec => []AsTypeOK
<1>1. AsInv => AsTypeOK
  BY DEF AsInv
<1> QED  BY <1>1, AudioInvariant, PTL

\* The microphone is on only for the stream the handler holds, or for one it let go of
\* other than by stopping it: for any number of calls, however start and stop of their
\* streams overlap.
THEOREM MicrophoneHasOwner == AsSpec => []MicHasOwner
<1>1. AsInv => MicHasOwner
  BY DEF AsInv, VoiceInv
<1> QED  BY <1>1, AudioInvariant, PTL

\* A handler that was muted or unmuted during the call agrees with its stream.
THEOREM MutingReachesStream == AsSpec => []MuteFollows
<1>1. AsInv => MuteFollows
  BY DEF AsInv, VoiceInv
<1> QED  BY <1>1, AudioInvariant, PTL

\* While the receive loop waits a full buffer holds a frame that came too late, for every
\* window size.
THEOREM FullBufferHoldsLate == AsSpec => []StallEnds
<1>1. AsInv => StallEnds
  BY DEF AsInv
<1> QED  BY <1>1, AudioInvariant, PTL

\* Relayed frames are never too late, whatever is lost.
THEOREM RelayedAreNotLate == AsSpec => []RelayKeepsNoLate
<1>1. AsInv => RelayKeepsNoLate
  <2> SUFFICES ASSUME AsInv PROVE RelayKeepsNoLate
    OBVIOUS
  <2>1. buffer \in SUBSET Nat /\ nextSeq \in Nat
    BY Numbers DEF AsInv, JbInv
  <2> QED  BY <2>1 DEF AsInv, RelayInv, InOrder, RelayKeepsNoLate
<1> QED  BY <1>1, AudioInvariant, PTL
=============================================================================
