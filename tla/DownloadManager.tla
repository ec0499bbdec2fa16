--------------------------- MODULE DownloadManager ---------------------------
(***************************************************************************)
(* Download bookkeeping (src/download_manager.rs), as operators on the map *)
(* from job ids to DownloadProgress records.  A record keeps total_bytes,  *)
(* downloaded_bytes and whether error is set.                              *)
(***************************************************************************)
EXTENDS Naturals

NoDownloads == [i \in {} |-> 0]

(* track(job): a new record, replacing one of the same job. *)
track(dl, id) ==
  [i \in DOMAIN dl \cup {id} |->
     IF i = id THEN [total |-> 0, downloaded |-> 0, failed |-> FALSE] ELSE dl[i]]

(* update_progress, complete and fail change the record of a tracked job. *)
update_progress(dl, id, downloaded, total) ==
  [i \in DOMAIN dl |->
     IF i = id THEN [dl[i] EXCEPT !.downloaded = downloaded, !.total = total]
               ELSE dl[i]]
complete(dl, id, total_bytes) == update_progress(dl, id, total_bytes, total_bytes)
fail(dl, id) ==
  [i \in DOMAIN dl |-> IF i = id THEN [dl[i] EXCEPT !.failed = TRUE] ELSE dl[i]]

(* How stats() counts a record. *)
kind(d) ==
  CASE d.failed -> "failed"
    [] ~ d.failed /\ d.total > 0 /\ d.downloaded >= d.total -> "completed"
    [] OTHER -> "active"
==============================================================================
