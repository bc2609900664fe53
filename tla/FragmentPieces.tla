--------------------------- MODULE FragmentPieces ---------------------------
(***************************************************************************)
(* How DefaultRequestHandlerModel answers one data request: data_request() *)
(* and get_fragment_pieces() look a readout window up in the latency       *)
(* buffer while the producer goes on writing.  The request handler's lock  *)
(* keeps cleanups out (RequestHandler), so nothing is removed meanwhile;   *)
(* before, cleanups may have removed elements, and with the last element   *)
(* before a gap the error that was registered for the gap.                 *)
(*                                                                         *)
(* The buffer is one of the ring queues, and where the window begins is    *)
(* found by their lower_bound(), step by step: the module goes on from     *)
(* LowerBound, whose ring and search it uses.  An element is the timestamp *)
(* of its first frame, a frame its timestamp.                              *)
(***************************************************************************)
EXTENDS LowerBound, FrameErrorRegistry, Sequences, Functions

CONSTANTS
  MaxSkipped,   \* elements that may be missing in a row
  Mishaps,      \* what else may happen: a "second gap" while one is registered,
                \* a payload for a "full" ring
  MaxFront,     \* bound on the timestamp of the first element
  MaxWindow,    \* bound on the readout window
  Modulus       \* timestamps are unsigned: they wrap here

ASSUME FragmentAssumption ==
  /\ MaxSkipped \in Nat /\ Mishaps \subseteq {"second gap", "full"}
  /\ MaxFront \in Timestamps
  /\ MaxWindow \in Nat
  /\ Modulus \in Nat /\ Modulus > MaxTimestamp + 2 * Ticks /\ Modulus > MaxWindow

VARIABLES
  writeIndex_,
  incoming,    \* the last payload that the consumer has received
  ipc,         \* where the consumer is with it
  with_errors, \* whether the request has found an error registered
  window,      \* the request: begin and end
  rpc,         \* the request's place in data_request()
  last_ts,     \* timestamp of the front element, when classified
  newest_ts,   \* timestamp of the back element, when classified
  start_iter,  \* index of the iterator
  result_code,
  frag_pieces, \* the frames collected, in order
  error_bits   \* the error bits of the fragment's header

inputVars  == <<writeIndex_, incoming, ipc, m_errors>>
answerVars == <<with_errors, window, rpc, last_ts, newest_ts, start_iter, result_code,
                frag_pieces, error_bits>>
allVars == <<vars, inputVars, answerVars>>

ResultCodes == {"kFound", "kNotFound", "kTooOld", "kNotYet", "kPartial",
                "kPartiallyOld", "kUnknown"}

(* The elements in the ring. *)
Occupancy == OccupancyOf(writeIndex_, readIndex_)
Live(i) == Between(i, readIndex_, writeIndex_)

(* The frames of an element. *)
FramesOf(e) == [k \in 1 .. num_frames |-> e + (k - 1) * expected_tick_difference]

(* front() and back(). *)
FrontTimestamp == timestamp[readIndex_]
BackTimestamp  == timestamp[IF writeIndex_ = 0 THEN Size - 1 ELSE writeIndex_ - 1]

-----------------------------------------------------------------------------
(* A request for a buffer that is empty or has its first element. *)
RequestInit ==
  /\ readIndex_ \in Slots
  /\ writeIndex_ \in {readIndex_, NextRecord(readIndex_)}
  /\ \E ts \in 0 .. MaxFront :
       timestamp = [i \in Slots |-> IF Live(i) THEN ts ELSE 0]
  /\ element = 0 /\ pc = "idle" /\ start_index = 0 /\ end_index = 0 /\ result = EndIndex
  /\ loaded_index = 0
  /\ incoming = FrontTimestamp /\ ipc = "idle" /\ m_errors = {}
  /\ with_errors = FALSE
  /\ window \in {w \in [begin : 0 .. MaxWindow, end : 0 .. MaxWindow] : w.begin <= w.end}
  /\ rpc = "requested"
  /\ last_ts = 0 /\ newest_ts = 0
  /\ start_iter = EndIndex
  /\ result_code = "kUnknown"
  /\ frag_pieces = << >>
  /\ error_bits = {}

(* The consumer receives the next payload, or one after missing ones: then *)
(* the raw processor, which is not in this library, registers the error    *)
(* before the payload is written.  All this goes on during the request,    *)
(* the search and the walk.                                                *)
Preprocess ==
  /\ ipc = "idle"
  /\ Occupancy > 0
  /\ \E skipped \in 0 .. MaxSkipped :
       /\ skipped > 0 => "second gap" \in Mishaps \/ ~HasError("MISSING_FRAMES")
       /\ incoming' = incoming + (1 + skipped) * Ticks
       /\ incoming' \in Timestamps
       /\ ipc' = IF skipped > 0 THEN "registering" ELSE "writing"
       /\ IF skipped > 0 THEN EraseError("MISSING_FRAMES") ELSE UNCHANGED m_errors
  /\ UNCHANGED <<vars, writeIndex_, answerVars>>

RegisterGap ==
  /\ ipc = "registering"
  /\ InsertError("MISSING_FRAMES", incoming)
  /\ ipc' = "writing"
  /\ UNCHANGED <<vars, writeIndex_, incoming, answerVars>>

(* The payload is written; a full ring refuses it, so that it is missing.  *)
Write ==
  /\ ipc = "writing"
  /\ Occupancy < Size - 1 \/ "full" \in Mishaps
  /\ IF Occupancy < Size - 1
     THEN /\ timestamp' = [timestamp EXCEPT ![writeIndex_] = incoming]
          /\ writeIndex_' = NextRecord(writeIndex_)
     ELSE UNCHANGED <<timestamp, writeIndex_>>
  /\ ipc' = "idle"
  /\ UNCHANGED <<readIndex_, loaded_index, element, pc, start_index, end_index, result,
                 incoming, m_errors, answerVars>>

(* A cleanup before the request takes the lock: cleanup() removes some     *)
(* elements and then the errors that ended before the new front.           *)
Cleanup ==
  /\ rpc = "requested" /\ pc = "idle"
  /\ \E popped \in 1 .. Occupancy - 1 :
       /\ readIndex_' = SlotAt(readIndex_ + popped)
       /\ timestamp' = [j \in Slots |->
                          IF Between(j, readIndex_', writeIndex_) THEN timestamp[j] ELSE 0]
       /\ RemoveErrorsUntil(timestamp'[readIndex_'])
  /\ UNCHANGED <<writeIndex_, loaded_index, element, pc, start_index, end_index, result,
                 incoming, ipc, answerVars>>

-----------------------------------------------------------------------------
(* get_fragment_pieces().                                                  *)

(* One element before the window, which may still reach into it. *)
SearchKey == (window.begin - Ticks) % Modulus

(* The window begins so early that the key wraps around. *)
KeyWraps == window.begin < Ticks

(* The call of lower_bound().  A FixedRateQueueModel looks up by division  *)
(* when it is told that there are no errors.                               *)
BeginSearch ==
  /\ element' = SearchKey
  /\ start_index' = readIndex_ /\ end_index' = writeIndex_ /\ loaded_index' = writeIndex_
  /\ pc' \in {"binary"} \cup (IF with_errors THEN {} ELSE {"fixed"})
  /\ UNCHANGED <<timestamp, readIndex_, result>>

(* The window is compared with the first and the last element. *)
Classify ==
  /\ rpc = "requested"
  /\ Occupancy > 0
  /\ last_ts' = FrontTimestamp
  /\ newest_ts' = BackTimestamp
  /\ result_code' = IF window.begin > newest_ts' THEN "kNotYet"
                    ELSE IF window.end < last_ts' THEN "kTooOld"
                    ELSE "kUnknown"
  /\ rpc' = IF result_code' = "kUnknown" THEN "check" ELSE "respond"
  /\ UNCHANGED <<vars, inputVars, with_errors, window, start_iter, frag_pieces, error_bits>>

(* The registry is asked, without its mutex and before lower_bound() loads *)
(* the indices: elements may be written in between.                        *)
CheckErrors ==
  /\ rpc = "check"
  /\ with_errors' = HasError("MISSING_FRAMES")
  /\ rpc' = "search"
  /\ UNCHANGED <<vars, inputVars, window, last_ts, newest_ts, start_iter, result_code,
                 frag_pieces, error_bits>>

CallLowerBound ==
  /\ rpc = "search" /\ pc = "idle"
  /\ BeginSearch
  /\ UNCHANGED <<inputVars, answerVars>>

SearchStep ==
  /\ BinaryStart \/ BinaryStep \/ FixedRateLookup
  /\ UNCHANGED <<inputVars, answerVars>>

(* Iterator::good(). *)
Good(i) == i # EndIndex /\ Live(i)

(* lower_bound() returns an iterator, and good() looks at the write index  *)
(* of now: the index that was loaded, which a search returns for a key     *)
(* after all elements, may meanwhile be one of an element.                 *)
UseResult ==
  /\ rpc = "search" /\ pc = "done"
  /\ pc' = "idle"
  /\ start_iter' = result
  /\ IF ~Good(result)
     THEN /\ result_code' = "kNotFound"
          /\ rpc' = "respond"
     ELSE /\ result_code' = IF window.end > newest_ts THEN "kPartial"
                            ELSE IF window.begin < last_ts THEN "kPartiallyOld"
                            ELSE "kFound"
          /\ rpc' = "walk"
  /\ UNCHANGED <<ring, start_index, end_index, result, inputVars, with_errors, window, last_ts, newest_ts,
                 frag_pieces, error_bits>>

(* (fault) A frame that ends where the window begins is taken. *)
FrameInWindowInclusive(f) ==
  /\ f >= (window.begin - expected_tick_difference) % Modulus
  /\ f < window.end

(* The test on the frames of an element that is only partly needed. *)
FrameInWindow(f) ==
  /\ f > (window.begin - expected_tick_difference) % Modulus
  /\ f < window.end

(* The loop over the frames of such an element. *)
SelectedFrames(e) ==
  LET upTo[n \in 0 .. num_frames] ==
        IF n = 0 THEN << >>
        ELSE IF FrameInWindow(FramesOf(e)[n]) THEN Append(upTo[n - 1], FramesOf(e)[n])
        ELSE upTo[n - 1]
  IN  upTo[num_frames]

(* The frames that an element contributes: none if it ends before the      *)
(* window, some if it reaches over an end of the window, else all.         *)
PiecesOf(e) ==
  IF e + Ticks <= window.begin THEN << >>
  ELSE IF num_frames > 1 /\ (e < window.begin \/ e + Ticks > window.end)
  THEN SelectedFrames(e)
  ELSE FramesOf(e)

(* (fault) The walk stops at the element the window's end is in. *)
InWalkUntilEndElement ==
  Good(start_iter) /\ timestamp[start_iter] + Ticks <= window.end

(* The condition of the loop over the elements. *)
InWalk == Good(start_iter) /\ timestamp[start_iter] < window.end

(* One round of the loop, with the iterator's ++ at its end. *)
WalkElement ==
  /\ rpc = "walk"
  /\ InWalk
  /\ frag_pieces' = frag_pieces \o PiecesOf(timestamp[start_iter])
  /\ start_iter' = IF Good(NextRecord(start_iter)) THEN NextRecord(start_iter) ELSE EndIndex
  /\ UNCHANGED <<vars, inputVars, with_errors, window, rpc, last_ts, newest_ts, result_code, error_bits>>

WalkEnds ==
  /\ rpc = "walk"
  /\ ~InWalk
  /\ rpc' = "respond"
  /\ UNCHANGED <<vars, inputVars, with_errors, window, last_ts, newest_ts, start_iter, result_code, frag_pieces,
                 error_bits>>

-----------------------------------------------------------------------------
(* data_request().                                                         *)

(* The buffer is empty. *)
NothingBuffered ==
  /\ rpc = "requested"
  /\ Occupancy = 0
  /\ result_code' = "kNotFound"
  /\ rpc' = "respond"
  /\ UNCHANGED <<vars, inputVars, with_errors, window, last_ts, newest_ts, start_iter, frag_pieces, error_bits>>

(* The error bits for a result. *)
ErrorBitsOf(code) ==
  CASE code = "kFound"        -> {}
    [] code = "kPartial"      -> {"kIncomplete"}
    [] code = "kPartiallyOld" -> {"kIncomplete", "kDataNotFound"}
    [] OTHER                  -> {"kDataNotFound"}

(* The fragment is made from the pieces and its header. *)
Respond ==
  /\ rpc = "respond"
  /\ error_bits' = ErrorBitsOf(result_code)
  /\ rpc' = "done"
  /\ UNCHANGED <<vars, inputVars, with_errors, window, last_ts, newest_ts, start_iter, result_code, frag_pieces>>

RequestStep ==
  \/ Classify
  \/ CheckErrors
  \/ CallLowerBound
  \/ SearchStep
  \/ UseResult
  \/ WalkElement
  \/ WalkEnds
  \/ NothingBuffered
  \/ Respond

(* The request has its answer. *)
Answered == rpc = "done" /\ UNCHANGED allVars

RequestNext == Preprocess \/ RegisterGap \/ Write \/ Cleanup \/ RequestStep \/ Answered

(* The request's thread goes on, whatever the producer does. *)
RequestSpec == RequestInit /\ [][RequestNext]_allVars /\ WF_allVars(RequestStep)

-----------------------------------------------------------------------------
(* Properties.                                                             *)

(* The frames in the buffer that reach into the window. *)
FramesInWindow ==
  {f \in UNION {Range(FramesOf(timestamp[i])) : i \in {j \in Slots : Live(j)}} :
     f + expected_tick_difference > window.begin /\ f < window.end}

(* A fragment holds only frames that reach into the window, in the order   *)
(* of their timestamps and each once, whatever part of an element the      *)
(* window cuts off.                                                        *)
PiecesInWindowInOrder ==
  /\ Range(frag_pieces) \subseteq FramesInWindow
  /\ \A i \in 1 .. Len(frag_pieces) - 1 : frag_pieces[i] < frag_pieces[i + 1]

(* A fragment without error bits is complete: the buffer reached from the  *)
(* begin to the end of the window when it was classified, and every frame  *)
(* in the window is in the fragment, also those written during the search  *)
(* and the walk.  Away from timestamp zero: see EarlyFoundIsComplete.      *)
NoErrorBitsMeansComplete ==
  rpc = "done" /\ error_bits = {} =>
    /\ last_ts <= window.begin /\ window.end <= newest_ts
    /\ ~KeyWraps => Range(frag_pieces) = FramesInWindow

(* A partial fragment, which is sent when its request times out, has all   *)
(* frames of the window that the buffer held when it was classified.       *)
PartialHasWhatWasThere ==
  rpc = "done" /\ result_code = "kPartial" /\ ~KeyWraps =>
    {f \in FramesInWindow : f < newest_ts + Ticks} \subseteq Range(frag_pieces)

(* The request is answered: the while (true) loop of the binary search     *)
(* and the walk end, although the producer goes on writing.                *)
RequestEnds == <>(rpc = "done")

(* The comment in get_fragment_pieces() takes an iterator that is not good *)
(* for an "Accessor problem".  Without one, kNotFound should say that the  *)
(* buffer has no data of the window (away from timestamp zero, where the   *)
(* search key wraps around).                                               *)
NotFoundOnlyWithoutData ==
  rpc = "done" /\ result_code = "kNotFound" /\ ~KeyWraps => FramesInWindow = {}

(* A fragment without error bits is complete also for a window that begins *)
(* before one element's ticks.  It need not be: the wrapped key is after   *)
(* all elements, and if one is published between the search and good() the *)
(* walk begins there, behind the window.                                   *)
EarlyFoundIsComplete ==
  rpc = "done" /\ error_bits = {} => Range(frag_pieces) = FramesInWindow
==============================================================================
