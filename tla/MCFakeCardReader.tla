-------------------------- MODULE MCFakeCardReader --------------------------
(***************************************************************************)
(* Instances of FakeCardReader for TLC.                                    *)
(***************************************************************************)
EXTENDS FakeCardReader

TwoLinks == <<1, 2>>

(* A clean link with dropouts and hits, from a file with a remainder; one  *)
(* with error bits and two frames in a round.                              *)
Typical == {
  [filesize |-> 5, dropouts |-> <<TRUE, FALSE>>, error_occurrences |-> <<0, 0>>,
   no_error_occurrences |-> <<1, 2>>, pattern |-> TRUE, TP_rate_per_channel |-> 1,
   frames_per_tick |-> 1],
  [filesize |-> 6, dropouts |-> <<TRUE>>, error_occurrences |-> <<1, 2>>,
   no_error_occurrences |-> <<1, 0>>, pattern |-> FALSE, TP_rate_per_channel |-> 0,
   frames_per_tick |-> 2] }

(* A file smaller than an element. *)
SmallFile == {
  [filesize |-> 1, dropouts |-> <<TRUE>>, error_occurrences |-> <<0>>,
   no_error_occurrences |-> <<1>>, pattern |-> FALSE, TP_rate_per_channel |-> 0,
   frames_per_tick |-> 1] }

(* Twice the base rate of hits. *)
DoubleRate == {
  [filesize |-> 2, dropouts |-> <<TRUE>>, error_occurrences |-> <<0>>,
   no_error_occurrences |-> <<1>>, pattern |-> TRUE, TP_rate_per_channel |-> 2,
   frames_per_tick |-> 1] }
=============================================================================
