------------------------------- MODULE Media -------------------------------
(***************************************************************************)
(* One protected document of a lesson: its object in R2 and its MediaAsset  *)
(* row (src/app/routers/media.py).  A direct upload puts the object with a  *)
(* presigned URL and is finalized, perhaps several times; an upload through *)
(* the server stores it under a key of its own, which is another document;  *)
(* and a link is a row for a file elsewhere (routers/courses.py).           *)
(*                                                                          *)
(* A finalization validates the object first; the advisory lock 5530 of the *)
(* key then covers its look for the row and the commit that inserts it, and *)
(* is free again as soon as that commit fails.  A deletion takes no lock:   *)
(* first the object, then the row.                                          *)
(***************************************************************************)
CONSTANTS
    Request,    \* finalizations, uploads through the server, deletions
    Nobody      \* holder of a free lock

MediaAssumption == Nobody \notin Request

VARIABLES
    way,        \* "browser" (DIRECT_R2_UPLOAD_ENABLED), "server" or "link"
    content,    \* what is wrong with the file, if anything
    ticket,     \* of a direct upload: "none", "valid" or "expired"
    object,     \* the object is in R2
    row,        \* and its row in the database
    lock,       \* the advisory lock
    erased,     \* history: a deletion has removed the object
    late,       \* history: see MissingObjectExplained
    req         \* what each request is about to do

vars == <<way, content, ticket, object, row, lock, erased, late, req>>
file == <<way, content>>

\* A type that is not accepted, another size or other first bytes than declared,
\* or damaged inside.
Content == {"sound", "unlisted", "resized", "mislabelled", "damaged"}


Init ==
    /\ way \in {"browser", "server", "link"} /\ content \in Content
    /\ ticket = "none" /\ object = FALSE /\ row = FALSE
    /\ lock = Nobody /\ erased = FALSE /\ late = FALSE
    /\ req = [r \in Request |-> "idle"]

At(r, pc)     == req[r] = pc
Become(r, pc) == req' = [req EXCEPT ![r] = pc]
Free(r)       == lock' = IF lock = r THEN Nobody ELSE lock

-----------------------------------------------------------------------------
(* The file and its object *)

\* _media_policy, normalize_media_type: of the name and the declared type
Accepted == content # "unlisted"

\* valid_upload_signature, validate_upload_structure
SignatureValid == content # "mislabelled"
StructureValid == content # "damaged"

\* _validate_remote_upload
Valid == content # "resized" /\ SignatureValid /\ StructureValid

\* head_private, read_private_range, download_private_to_file find the object.
Readable == object

\* presigned_put: whoever has the address may put the object until it expires.
MayPut == ticket = "valid"

-----------------------------------------------------------------------------
(* The direct upload *)

\* POST /admin/course/{id}/media-upload/init: the URL and the token expire
\* together.
InitDirect ==
    /\ way = "browser" /\ Accepted /\ ticket = "none"
    /\ ticket' = "valid"
    /\ UNCHANGED <<file, object, row, lock, erased, late, req>>

Expire ==
    /\ ticket = "valid" /\ ticket' = "expired"
    /\ UNCHANGED <<file, object, row, lock, erased, late, req>>

\* The browser puts the same file, again after an error that may have hidden a
\* success.
Put ==
    /\ MayPut /\ object' = TRUE
    /\ UNCHANGED <<file, ticket, row, lock, erased, late, req>>

\* POST .../media-upload/finalize
BeginFinalize(r) ==
    /\ At(r, "idle") /\ ticket = "valid"
    /\ Become(r, "validate")
    /\ UNCHANGED <<file, ticket, object, row, lock, erased, late>>

\* Mutant of Validate: an error of R2 counts as a bad file.
ValidateStrictly(r) ==
    /\ At(r, "validate")
    /\ \E answered \in BOOLEAN : Become(r, IF answered /\ Readable /\ Valid THEN "lock" ELSE "discard")
    /\ UNCHANGED <<file, ticket, object, row, lock, erased, late>>

\* If the object cannot be read the request ends; a bad file is removed.
Validate(r) ==
    /\ At(r, "validate") /\ Readable
    /\ Become(r, IF Valid THEN "lock" ELSE "discard")
    /\ UNCHANGED <<file, ticket, object, row, lock, erased, late>>

\* The lock, and the look for the row: if there is one, it is the answer.
Lock(r) ==
    /\ At(r, "lock") /\ lock = Nobody
    /\ IF row THEN Become(r, "idle") /\ UNCHANGED lock
       ELSE Become(r, "insert") /\ lock' = r
    /\ UNCHANGED <<file, ticket, object, row, erased, late>>

-----------------------------------------------------------------------------
(* The upload through the server, and the row *)

\* save_upload_file, under a new key
SaveUpload == ticket' = "expired" /\ object' = TRUE

\* POST /admin/course/{id}/media: the file is validated, then stored.
Store(r) ==
    /\ way = "server" /\ Accepted /\ SignatureValid /\ StructureValid
    /\ At(r, "idle") /\ ticket = "none"
    /\ SaveUpload
    /\ Become(r, "insert")
    /\ UNCHANGED <<file, row, lock, erased, late>>

\* POST /admin/course/{id}/media/link: a row, unless there is one
Link ==
    /\ way = "link" /\ content # "unlisted" /\ ~row
    /\ row' = TRUE
    /\ UNCHANGED <<file, ticket, object, lock, erased, late, req>>

\* The file is gone, or a request whose commit failed is about to remove it.
TooLate(r) == ~object \/ \E q \in Request \ {r} : At(q, "cleanup")

\* The commit of the new row (storage_key is unique)
Insert(r) ==
    /\ At(r, "insert") /\ ~row
    /\ row' = TRUE /\ late' = (late \/ TooLate(r))
    /\ Free(r) /\ Become(r, "idle")
    /\ UNCHANGED <<file, ticket, object, erased>>

\* The commit fails, or seems to.  The roll-back frees the lock; finalize then
\* looks once more for a row, the server's own upload does not.
CommitFails(r, done) ==
    /\ At(r, "insert") /\ (done => ~row)
    /\ row' = (row \/ done)
    /\ late' = (late \/ (done /\ (TooLate(r) \/ way = "server")))
    /\ Free(r) /\ Become(r, IF way = "browser" THEN "look" ELSE "cleanup")
    /\ UNCHANGED <<file, ticket, object, erased>>

LookAgain(r) ==
    /\ At(r, "look")
    /\ Become(r, IF row THEN "idle" ELSE "cleanup")
    /\ UNCHANGED <<file, ticket, object, row, lock, erased, late>>

\* delete_private; an error is passed over (see Abort).
Discard(r) ==
    /\ At(r, "discard") \/ At(r, "cleanup")
    /\ object' = FALSE
    /\ Become(r, "idle")
    /\ UNCHANGED <<file, ticket, row, lock, erased, late>>

-----------------------------------------------------------------------------
(* POST /admin/media/{id}/delete *)

Delete(r) ==
    /\ At(r, "idle") /\ row
    /\ Become(r, "erase")
    /\ UNCHANGED <<file, ticket, object, row, lock, erased, late>>

Erase(r) ==
    /\ At(r, "erase")
    /\ object' = FALSE /\ erased' = (erased \/ way # "link")
    /\ Become(r, "drop")
    /\ UNCHANGED <<file, ticket, row, lock, late>>

Drop(r) ==
    /\ At(r, "drop")
    /\ row' = FALSE
    /\ Become(r, "idle")
    /\ UNCHANGED <<file, ticket, object, lock, erased, late>>

-----------------------------------------------------------------------------

\* protected_media offers the row and finds no file.
Dangling == row /\ ~object

\* R2 or the database fails, or the process stops.
Abort(r) ==
    /\ ~At(r, "idle")
    /\ Free(r) /\ Become(r, "idle")
    /\ UNCHANGED <<file, ticket, object, row, erased, late>>

Next ==
    \/ InitDirect \/ Expire \/ Put \/ Link
    \/ \E r \in Request :
          \/ BeginFinalize(r) \/ Validate(r) \/ Lock(r)
          \/ Store(r) \/ Insert(r) \/ (\E done \in BOOLEAN : CommitFails(r, done))
          \/ LookAgain(r) \/ Discard(r)
          \/ Delete(r) \/ Erase(r) \/ Drop(r)
          \/ Abort(r)

Spec == Init /\ [][Next]_vars

-----------------------------------------------------------------------------
(* Properties *)

\* Types.
MediaTypeOK ==
    /\ way \in {"browser", "server", "link"} /\ content \in Content
    /\ ticket \in {"none", "valid", "expired"} /\ object \in BOOLEAN /\ row \in BOOLEAN
    /\ lock \in Request \cup {Nobody} /\ erased \in BOOLEAN /\ late \in BOOLEAN
    /\ req \in [Request -> {"idle", "validate", "lock", "insert", "look", "discard", "cleanup",
                            "erase", "drop"}]

\* A document that students are offered has its file: retried, concurrent and
\* failing finalizations "must never delete an object that another worker has
\* already linked" (media.py:284).  It can be missing only because a deletion has
\* removed it (media.py:371-372), or because the row was committed when a request
\* whose own commit had failed had removed the file or was about to, or when the
\* server's own upload took a commit for failed.  A link never has a file that
\* protected_media could find: nothing there goes to the provider of the link.
MissingObjectExplained == Dangling => erased \/ late \/ way = "link"
=============================================================================
