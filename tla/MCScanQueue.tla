----------------------------- MODULE MCScanQueue -----------------------------
(* One stored artifact and a package asked for without a version; a page and *)
(* the queue hold one coordinate each, so that drops and paging happen.      *)
EXTENDS ScanQueue

MCStored == <<"a">>
=============================================================================
