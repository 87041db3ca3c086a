--------------------------- MODULE ModelDownload ---------------------------
(***************************************************************************)
(* Downloads of one model (core/src/models/downloader): from Hugging Face  *)
(* or, if that fails, from the CDN, into a .partial file that a later call *)
(* resumes, verified against the pinned hash and renamed.  A download is   *)
(* dropped at any await and leaves the .partial.  Nothing keeps two        *)
(* downloads of a model apart: they share the path, and a file renamed     *)
(* under an open descriptor is still written to.                           *)
(*                                                                         *)
(* A file's content is the number of chunks it holds in order, or Bad.     *)
(***************************************************************************)
EXTENDS Integers, FiniteSets

CONSTANTS
    Downloads,   \* calls of download() for this model
    Chunks,      \* how many chunks the model has
    Files,       \* inodes; one more than there are downloads is enough
    MaxStarts,   \* bound: how often download() is called
    MaxBad       \* bound: chunks a server sends that are not the model's

None == "none"
Bad == -1

ASSUME ModelDownloadAssumption ==
    /\ Chunks \in Nat /\ None \notin Files
    /\ IsFiniteSet(Downloads) /\ IsFiniteSet(Files)
    /\ Cardinality(Files) > Cardinality(Downloads)

VARIABLES
    pinned,     \* the registry knows the model's hash
    content,    \* content[f]: of each inode
    partial,    \* the inode under the .partial path, or None
    final,      \* the inode under the model's path, or None
    calls,      \* calls[d]: the state of each call, see NoCall
    starts,     \* calls made
    wrong,      \* wrong chunks served
    shared      \* history: two calls were under way at once

downloadVars == <<pinned, content, partial, final, calls, starts, wrong, shared>>

NoCall == [at |-> "idle", source |-> "hf", retry |-> FALSE, offset |-> 0, file |-> None]

DInit ==
    /\ pinned \in BOOLEAN
    /\ content = [f \in Files |-> 0]
    /\ partial = None /\ final = None
    /\ calls = [d \in Downloads |-> NoCall]
    /\ starts = 0 /\ wrong = 0 /\ shared = FALSE

Go(d, changes) == calls' = [calls EXCEPT ![d] = changes]
Unused == CHOOSE f \in Files : f \notin {partial, final} \cup {calls[d].file : d \in Downloads}

(* The length a partial file shows; that of a bad one can be anything. *)
PartialSize ==
    CASE partial = None -> {0}
      [] partial # None /\ content[partial] = Bad -> 0 .. Chunks
      [] OTHER -> {content[partial]}

-----------------------------------------------------------------------------
(* download() with enough disk space; without, it fails at once.           *)
Start(d) ==
    /\ calls[d].at = "idle" /\ starts < MaxStarts
    /\ starts' = starts + 1
    /\ Go(d, [NoCall EXCEPT !.at = "ask"])
    /\ shared' = (shared \/ \E e \in Downloads \ {d} : calls[e].at # "idle")
    /\ UNCHANGED <<pinned, content, partial, final, wrong>>

(* fetch_to_partial: the offset to resume from is read, the request sent.  *)
Ask(d) ==
    /\ calls[d].at = "ask"
    /\ \E size \in PartialSize : Go(d, [calls[d] EXCEPT !.at = "sent", !.offset = size])
    /\ UNCHANGED <<pinned, content, partial, final, starts, wrong, shared>>

(* It fails, here or while the body comes: from Hugging Face, the partial  *)
(* file is removed and the CDN is asked; from the CDN, that is the end.    *)
FetchFails(d) ==
    /\ calls[d].at \in {"sent", "body"}
    /\ IF calls[d].source = "hf"
       THEN Go(d, [NoCall EXCEPT !.at = "ask", !.source = "cdn"]) /\ partial' = None
       ELSE Go(d, NoCall) /\ UNCHANGED partial
    /\ UNCHANGED <<pinned, content, final, starts, wrong, shared>>

(* The headers are in: a 206 that starts at the offset, or the 2xx of a    *)
(* server that ignores Range and starts again; either is appended.         *)
FetchOpens(d) ==
    /\ calls[d].at = "sent"
    /\ LET f == IF partial = None THEN Unused ELSE partial
       IN  /\ content' = IF partial = None THEN [content EXCEPT ![f] = 0] ELSE content
           /\ partial' = f
           /\ \E from \in {calls[d].offset, 0} :
                Go(d, [calls[d] EXCEPT !.at = "body", !.offset = from, !.file = f])
    /\ UNCHANGED <<pinned, final, starts, wrong, shared>>

FetchChunk(d) ==
    LET call == calls[d]
        next == call.offset + 1
    IN  /\ call.at = "body" /\ next <= Chunks
        /\ \E genuine \in BOOLEAN :
              /\ genuine \/ wrong < MaxBad
              /\ wrong' = IF genuine THEN wrong ELSE wrong + 1
              /\ content' = [content EXCEPT ![call.file] =
                               IF genuine /\ @ = call.offset THEN next ELSE Bad]
        /\ Go(d, [call EXCEPT !.offset = next])
        /\ UNCHANGED <<pinned, partial, final, starts, shared>>

(* The body ends, with no length announced perhaps too early.              *)
FetchEnds(d) ==
    /\ calls[d].at = "body"
    /\ Go(d, [calls[d] EXCEPT !.at = "verify", !.file = None])
    /\ UNCHANGED <<pinned, content, partial, final, starts, wrong, shared>>

(* mutated (as are the forms so marked below: slips the code could well    *)
(* contain, each breaks a property, the specification uses none): the      *)
(* second mismatch starts a third try, and so on                           *)
VerifyForEver(d) ==
    /\ calls[d].at = "verify" /\ partial # None
    /\ IF ~pinned \/ content[partial] = Chunks
       THEN Go(d, [calls[d] EXCEPT !.at = "rename"]) /\ UNCHANGED partial
       ELSE /\ Go(d, [NoCall EXCEPT !.at = "ask", !.source = "cdn"])
            /\ partial' = None
    /\ UNCHANGED <<pinned, content, final, starts, wrong, shared>>

(* mutated: what the second fetch brought is not hashed *)
VerifyOnce(d) ==
    /\ calls[d].at = "verify" /\ partial # None
    /\ IF ~pinned \/ content[partial] = Chunks \/ calls[d].retry
       THEN Go(d, [calls[d] EXCEPT !.at = "rename"]) /\ UNCHANGED partial
       ELSE /\ Go(d, [NoCall EXCEPT !.at = "ask", !.source = "cdn", !.retry = TRUE])
            /\ partial' = None
    /\ UNCHANGED <<pinned, content, final, starts, wrong, shared>>

(* The hash of what the path holds now, if there is one to compare with;   *)
(* the first mismatch fetches again, from the CDN.                         *)
Verify(d) ==
    /\ calls[d].at = "verify" /\ partial # None
    /\ IF ~pinned \/ content[partial] = Chunks
       THEN Go(d, [calls[d] EXCEPT !.at = "rename"]) /\ UNCHANGED partial
       ELSE /\ Go(d, IF calls[d].retry THEN NoCall
                     ELSE [NoCall EXCEPT !.at = "ask", !.source = "cdn", !.retry = TRUE])
            /\ partial' = None
    /\ UNCHANGED <<pinned, content, final, starts, wrong, shared>>

Rename(d) ==
    /\ calls[d].at = "rename" /\ partial # None
    /\ final' = partial /\ partial' = None
    /\ Go(d, NoCall)
    /\ UNCHANGED <<pinned, content, starts, wrong, shared>>

(* Another call took the partial file away: an Io error.                   *)
PartialGone(d) ==
    /\ calls[d].at \in {"verify", "rename"} /\ partial = None
    /\ Go(d, NoCall)
    /\ UNCHANGED <<pinned, content, partial, final, starts, wrong, shared>>

(* The stream is dropped, or the process is killed: the partial file stays. *)
Drop(d) ==
    /\ calls[d].at # "idle"
    /\ Go(d, NoCall)
    /\ UNCHANGED <<pinned, content, partial, final, starts, wrong, shared>>

Step(d) ==
    \/ Ask(d) \/ FetchFails(d) \/ FetchOpens(d) \/ FetchChunk(d) \/ FetchEnds(d)
    \/ Verify(d) \/ Rename(d) \/ PartialGone(d)

DNext == \E d \in Downloads : Start(d) \/ Step(d) \/ Drop(d)
=============================================================================
