---------------------------- MODULE JitterBuffer ----------------------------
(***************************************************************************)
(* client/audio/jitter_buffer.py: the window that puts received audio      *)
(* frames back in sequence order.  A frame is its sequence number.  Any    *)
(* sequence of calls is allowed; AudioStream makes the calls the receive   *)
(* loop makes.                                                             *)
(***************************************************************************)
EXTENDS Integers, FiniteSets, FiniteSetsExt

CONSTANTS MaxSize,  \* the `size` argument
          SeqNo     \* bound: the sequence numbers that are pushed

ASSUME JitterAssumption == /\ MaxSize \in Nat \ {0}
                           /\ SeqNo \in SUBSET Nat /\ IsFiniteSet(SeqNo)

VARIABLES
  buffer,       \* the keys of _buffer
  nextSeq,      \* _next_seq
  initialised,  \* _initialised
  popped,       \* _popped
  last,         \* history: the frame popped last, -1 since the last reset
  pops          \* history: how many frames were popped since the last reset

jbVars == <<buffer, nextSeq, initialised, popped, last, pops>>

JbInit == /\ buffer = {} /\ nextSeq = 0 /\ initialised = FALSE /\ popped = FALSE
          /\ last = -1 /\ pops = 0

\* Mutant of Advance: the head skips a whole window instead of to the earliest frame.
AdvanceWindow(b, head) == head + MaxSize

\* _advance_to_earliest, for a buffer that is not empty.
Advance(b, head) == IF Min(b) > head THEN Min(b) ELSE head

\* Mutant of Anchor: an earlier frame lowers the anchor although frames were popped.
AnchorAlways(s) == IF ~initialised \/ s < nextSeq THEN s ELSE nextSeq

\* The head after the anchoring at the start of push.
Anchor(s) == IF ~initialised \/ (~popped /\ s < nextSeq) THEN s ELSE nextSeq

TooLate(s, head) == s < head - 2 * MaxSize

Push(s) ==
  LET head == Anchor(s)
      kept == buffer \cup {s}
  IN /\ initialised' = TRUE
     /\ IF TooLate(s, head) \/ s \in buffer
          THEN buffer' = buffer /\ nextSeq' = head
          ELSE /\ buffer' = kept
               /\ nextSeq' = IF Cardinality(kept) > MaxSize THEN Advance(kept, head) ELSE head
     /\ UNCHANGED <<popped, last, pops>>

\* Mutant of PopHead: the buffer must hold more than it may before the head skips.
PopHeadLater == IF Cardinality(buffer) > MaxSize /\ nextSeq \notin buffer
                  THEN Advance(buffer, nextSeq) ELSE nextSeq

\* The head of a pop: a full buffer whose next frame is missing skips to its earliest.
PopHead == IF Cardinality(buffer) >= MaxSize /\ nextSeq \notin buffer
             THEN Advance(buffer, nextSeq) ELSE nextSeq

Pop == /\ initialised /\ PopHead \in buffer
       /\ buffer' = buffer \ {PopHead}
       /\ nextSeq' = PopHead + 1
       /\ popped' = TRUE /\ last' = PopHead /\ pops' = pops + 1
       /\ UNCHANGED initialised

\* pop returns None: before the first frame, or when the next one is missing.
PopNothing == /\ ~initialised \/ PopHead \notin buffer
              /\ nextSeq' = IF initialised THEN PopHead ELSE nextSeq
              /\ UNCHANGED <<buffer, initialised, popped, last, pops>>

Reset == /\ buffer' = {} /\ nextSeq' = 0 /\ initialised' = FALSE /\ popped' = FALSE
         /\ last' = -1 /\ pops' = 0

JbNext == Pop \/ PopNothing \/ Reset \/ \E s \in SeqNo : Push(s)
JbSpec == JbInit /\ [][JbNext]_jbVars

-----------------------------------------------------------------------------
\* The types of the fields; a buffer with no anchor is empty (reset cleared it).
JbTypeOK == /\ buffer \in SUBSET SeqNo
            /\ nextSeq \in Nat
            /\ initialised \in BOOLEAN /\ popped \in BOOLEAN
            /\ last \in SeqNo \cup {-1} /\ pops \in Nat
            /\ ~initialised => buffer = {} /\ ~popped

\* Once frames are being played the head is past the one played last, whatever
\* is pushed late, twice or out of order: the playback position never goes back.
HeadPastPlayed == popped => nextSeq > last

\* The frames returned between two resets strictly increase: none is played twice
\* or after a later one, in whatever order and however often frames arrive.
PlayedInOrder == [][pops' = pops + 1 => last' > last]_jbVars

\* The head never jumps over a frame that the buffer holds: what is skipped has not
\* arrived, so an advance loses no audio that is there to be played.
HeldFramesNotSkipped ==
  [][\A s \in buffer : nextSeq <= s /\ s < nextSeq' => last' = s]_jbVars
=============================================================================
