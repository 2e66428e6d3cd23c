----------------------------- MODULE MCDownload -----------------------------
(* The parts of a download and of an upload stream.  They share no variable, so *)
(* each behaviour is one of one part: `part` says which one takes the steps.    *)
EXTENDS PipeBuffer, Downloader, HybridCache, FileStream, SectionReader, ReadAtSeeker, HttpServe

VARIABLE part
downloadVars == <<part, pipeVars, dlVars, hcVars, fsVars, secVars, rasVars, serveVars>>

MCRanges == {<<2, 9, 20>>, <<0, -1, 11>>, <<1, 9, 5>>}
MCTags == {<<"strong", 1>>, <<"weak", 1>>, <<"strong", 2>>}
MCSpecs == {[from |-> f, to |-> t] : f \in {None, 0, 1, 3}, t \in {None, 0, 2, 4}}

DownloadInit ==
  /\ part \in {"pipe", "download", "cache", "stream", "section", "seeker", "serve"}
  /\ PipeInit /\ DInit /\ HInit /\ FInit /\ SecInit /\ RInit /\ VInit

DownloadNext ==
  /\ UNCHANGED part
  /\ \/ part = "pipe" /\ PipeNext /\ UNCHANGED <<dlVars, hcVars, fsVars, secVars, rasVars, serveVars>>
     \/ part = "download" /\ DNext /\ UNCHANGED <<pipeVars, hcVars, fsVars, secVars, rasVars, serveVars>>
     \/ part = "cache" /\ HNext /\ UNCHANGED <<pipeVars, dlVars, fsVars, secVars, rasVars, serveVars>>
     \/ part = "stream" /\ FNext /\ UNCHANGED <<pipeVars, dlVars, hcVars, secVars, rasVars, serveVars>>
     \/ part = "section" /\ SecNext /\ UNCHANGED <<pipeVars, dlVars, hcVars, fsVars, rasVars, serveVars>>
     \/ part = "seeker" /\ RNext /\ UNCHANGED <<pipeVars, dlVars, hcVars, fsVars, secVars, serveVars>>
     \/ part = "serve" /\ VNext /\ UNCHANGED <<pipeVars, dlVars, hcVars, fsVars, secVars, rasVars>>

\* The fairness of the parts that have a liveness property.
DownloadSpec ==
  /\ DownloadInit /\ [][DownloadNext]_downloadVars
  /\ WF_pipeVars(PReadStep) /\ WF_pipeVars(PWriteStep)
  /\ DFairness

(* Whoever reads a part of a file gets the bytes of that part: from an upload   *)
(* that was looked at before, by sections, at random from a link, or with a     *)
(* request for ranges, whatever is reused, fails or changes meanwhile.          *)
ReadersExact ==
  FRangeExact /\ FTeeWhole /\ FReadWhole /\ SSectionExact
  /\ RReadExact /\ RReadersAligned /\ VBodyExact /\ VVersionsApart

(* Nobody waits for ever: not the reader of a pipe, not the workers of a        *)
(* download that was closed, and not its reader.                                *)
DownloadLive == PipeReaderWakes /\ DWorkersEnd /\ DReaderServed
=============================================================================
