----------------------------- MODULE ImageCache -----------------------------
(***************************************************************************)
(* The cache of images (metadata/image_cache.go): a request is answered    *)
(* with the file of an image if there is one, and otherwise downloads it,  *)
(* stores it and answers with it.  Nothing orders the requests for one     *)
(* image, and a file is created before anything has been received.         *)
(***************************************************************************)
EXTENDS Naturals, FiniteSets

CONSTANTS Image, ImageRequest, NoImage

ASSUME ImageCacheAssumption == NoImage \notin Image

VARIABLES
  cached,   \* what the file of each image holds
  request,  \* where each request is
  failed    \* history: images that were not received, or not written, whole

imageVars == <<cached, request, failed>>

\* "tail" is the rest of an image without its beginning.
Contents == {"none", "empty", "part", "tail", "whole"}
ImageRequests == [at : {"idle", "read", "get", "create", "copy", "write", "rest"},
                  image : Image \cup {NoImage}]
NoRequest == [at |-> "idle", image |-> NoImage]

Go(r, at) == request' = [request EXCEPT ![r].at = at]
Finish(r) == request' = [request EXCEPT ![r] = NoRequest]

\* Mutant: it is opened to find out, and is there then.
FileExists_Creates(r, i) ==
  /\ request[r].at = "idle"
  /\ request' = [request EXCEPT ![r] =
       [at |-> IF cached[i] = "none" THEN "get" ELSE "read", image |-> i]]
  /\ cached' = [cached EXCEPT ![i] = IF @ = "none" THEN "empty" ELSE @]
  /\ UNCHANGED failed

\* Whether the file is there.
FileExists(r, i) ==
  /\ request[r].at = "idle"
  /\ request' = [request EXCEPT ![r] =
       [at |-> IF cached[i] = "none" THEN "get" ELSE "read", image |-> i]]
  /\ UNCHANGED <<cached, failed>>

\* Then it is read, and sent as it is.
ReadFile(r) ==
  /\ request[r].at = "read"
  /\ Finish(r)
  /\ UNCHANGED <<cached, failed>>

\* Otherwise the image is asked for; an answer will do, whatever its status.
Get(r) ==
  /\ request[r].at = "get"
  /\ Go(r, "create") \/ Finish(r)
  /\ UNCHANGED <<cached, failed>>

\* A file is created, or emptied.
Create(r) ==
  /\ request[r].at = "create"
  /\ \/ /\ cached' = [cached EXCEPT ![request[r].image] = "empty"]
        /\ Go(r, "copy")
     \/ UNCHANGED cached /\ Finish(r)
  /\ UNCHANGED failed

\* The image is received, or the connection fails and the file stays as it is.
Copy(r) ==
  /\ request[r].at = "copy"
  /\ \/ Go(r, "write") /\ UNCHANGED failed
     \/ Finish(r) /\ failed' = failed \cup {request[r].image}
  /\ UNCHANGED cached

\* It is written, in more than one step, each at its own place in the file.
Write(r) ==
  /\ request[r].at = "write"
  /\ cached' = [cached EXCEPT ![request[r].image] =
                  IF @ \in {"tail", "whole"} THEN "whole" ELSE "part"]
  /\ Go(r, "rest")
  /\ UNCHANGED failed

\* The image is sent even if it could not all be written.  Where another request
\* has emptied the file in between, its beginning is missing until that one writes.
WriteRest(r) ==
  /\ request[r].at = "rest"
  /\ \/ /\ cached' = [cached EXCEPT ![request[r].image] =
                     IF @ \in {"empty", "tail"} THEN "tail" ELSE "whole"]
        /\ UNCHANGED failed
     \/ /\ failed' = failed \cup {request[r].image}
        /\ UNCHANGED cached
  /\ Finish(r)

ImageCacheInit ==
  /\ cached = [i \in Image |-> "none"]
  /\ request = [r \in ImageRequest |-> NoRequest]
  /\ failed = {}

ImageCacheNext ==
  \E r \in ImageRequest :
    \/ \E i \in Image : FileExists(r, i)
    \/ ReadFile(r) \/ Get(r) \/ Create(r) \/ Copy(r) \/ Write(r) \/ WriteRest(r)

ImageCacheSpec == ImageCacheInit /\ [][ImageCacheNext]_imageVars

-----------------------------------------------------------------------------
(* What should hold.                                                       *)

ImageCacheTypeOK ==
  /\ cached \in [Image -> Contents]
  /\ request \in [ImageRequest -> ImageRequests]
  /\ failed \subseteq Image

\* A file that is there and is not the whole image will be written by a request
\* that is under way, unless one has failed; then it may be served for ever
\* (HTTPHandler, image_cache.go:31).
BrokenFilesAreBeingWritten ==
  \A i \in Image : cached[i] \in {"empty", "part", "tail"} =>
    \/ i \in failed
    \/ \E r \in ImageRequest : request[r].image = i /\ request[r].at \in {"copy", "write", "rest"}
=============================================================================
