----------------------------- MODULE WaitLists -----------------------------
(***************************************************************************)
(* Lists of LIST_ENTRYs, of wait blocks, requests or APCs, as sequences of *)
(* the threads that wait, of the requests or of the APCs.                  *)
(***************************************************************************)
EXTENDS Integers, SequencesExt

(* RemoveEntryList, of the one that is t wherever it stands. *)
Unlink(s, t) ==
    IF t \in Range(s) THEN RemoveAt(s, CHOOSE i \in DOMAIN s : s[i] = t) ELSE s
=============================================================================
