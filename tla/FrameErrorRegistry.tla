------------------------- MODULE FrameErrorRegistry -------------------------
(***************************************************************************)
(* FrameErrorRegistry: the errors that the raw processor knows of, each    *)
(* with the interval of its timestamps, of which only the end is used.     *)
(* add_error() and remove_errors_until() exclude each other by a mutex;    *)
(* has_error() takes none, so that it may see the registry between the two *)
(* halves of add_error().                                                  *)
(***************************************************************************)
EXTENDS Integers

VARIABLE m_errors

(* add_error(): an error of that name is erased ... *)
EraseError(error_name) == m_errors' = {e \in m_errors : e.name # error_name}

(* ... and the new one inserted. *)
InsertError(error_name, end_ts) ==
  m_errors' = m_errors \cup {[name |-> error_name, end_ts |-> end_ts]}

(* (fault) An error ends with the first element after it has begun. *)
RemoveAllErrorsUntil(ts) == m_errors' = {}

(* remove_errors_until() *)
RemoveErrorsUntil(ts) == m_errors' = {e \in m_errors : ts <= e.end_ts}

HasError(error_name) == \E e \in m_errors : e.name = error_name
=============================================================================
