------------------------------- MODULE Storage --------------------------------
(***************************************************************************)
(* crates/reactor-storage: the object, bucket and multipart handlers        *)
(* (src/routes/objects.rs, buckets.rs, multipart.rs) over the rows of        *)
(* PgMetadataStore (src/store/metadata.rs) and the files of FsBlobStore      *)
(* (src/fs.rs).  One organization, one bucket slug and one key: the file of  *)
(* an object is named by those three, its row by the id of the bucket.  A    *)
(* request writes the files first, then the rows, one statement at a time;   *)
(* nothing holds the two together, and a request may end between any two.    *)
(***************************************************************************)
EXTENDS Naturals, Sequences, FiniteSets

CONSTANTS
    Requests,      \* requests in flight at a time
    Data,          \* what one part can hold
    Bodies,        \* what a PUT can hold: sequences over Data
    MaxArrivals,   \* bound on the requests that begin
    MaxBuckets,    \* bound on the buckets created
    MaxUploads     \* bound on the multipart uploads created

None == "none"
Torn == "torn"      \* a file that fs::write has begun and not finished
NoBlob == <<"no blob">>

\* What stands for no part, a part half written and no file is not data.
ASSUME StorageConstants ==
    /\ Bodies \subseteq Seq(Data)
    /\ {MaxArrivals, MaxBuckets, MaxUploads} \subseteq Nat
    /\ {None, Torn, NoBlob[1]} \cap Data = {}

VARIABLES
    bucket,    \* id of the bucket with the slug, 0 without one
    buckets,   \* buckets created so far: the last id
    row,       \* objects row of the key: [id, etag, length], or NoRow
    inserts,   \* object rows inserted so far: the last id
    blob,      \* content of the object's file, or NoBlob
    upload,    \* multipart uploads: row, part rows, directory, part files
    req,       \* req[r]: where a request is
    arrived,   \* requests that began so far
    torn,      \* a ranged GET answered with bytes of one version under the
               \* headers of another, or computed a length below zero
    mishaps    \* what went wrong so far, see Mishaps

vars == <<bucket, buckets, row, inserts, blob, upload, req, arrived, torn, mishaps>>

NoRow == [id |-> 0, etag |-> NoBlob, length |-> 0]
Parts == 1 .. 2

\* The etag is the SHA-256 of the content: here the content itself.
Contents == Seq(Data \cup {Torn}) \cup {NoBlob}

\* made: how many times the parts became the object.
NewUpload == [row |-> 0, rows |-> [p \in Parts |-> None],
              dir |-> TRUE, files |-> [p \in Parts |-> None], made |-> 0]

Upload == [row : Nat, rows : [Parts -> Data \cup {None}],
           dir : BOOLEAN, files : [Parts -> Data \cup {None, Torn}], made : Nat]

\* The lists a client may send to complete: in order, perhaps not all parts.
Lists == {<<>>, <<1>>, <<2>>, <<1, 2>>}

Idle == [at |-> "idle", bucket |-> 0, id |-> 0, body |-> <<>>, length |-> 0,
         up |-> 0, part |-> 0, data |-> None, list |-> <<>>]

Places == {"idle", "delete_bucket", "blob_put", "upsert", "find_object", "blob_delete",
           "delete_row", "blob_get", "ranged_get", "make_dir", "insert_upload",
           "part_file", "part_rest", "part_row", "read_parts", "remove_dir", "list_parts",
           "abort_dir", "delete_parts", "delete_upload"}

Request == [at : Places, bucket : Nat, id : Nat, body : Seq(Data \cup {Torn}), length : Nat,
            up : Nat, part : Nat, data : Data \cup {None}, list : Lists]

\* overlap: two requests wrote the object, one between two writes of the other.
\* reread: the object was written between the two reads of a ranged GET.
\* part_race: a part was written while another request wrote, read or removed it.
\* stale_bucket: the object was written for a bucket deleted in the meantime.
\* The others: a request was cut after the first of its writes.
Mishaps == {"overlap", "reread", "part_race", "stale_bucket",
            "put_cut", "delete_cut", "complete_cut", "part_cut", "abort_cut"}

TypeOK ==
    /\ buckets \in 0 .. MaxBuckets /\ bucket \in {0, buckets}
    /\ row \in [id : 0 .. inserts, etag : Contents, length : Nat]
    /\ row # NoRow => bucket # 0
    /\ inserts \in Nat
    /\ blob \in Contents
    /\ upload \in Seq(Upload) /\ Len(upload) <= MaxUploads
    /\ \A u \in DOMAIN upload : upload[u].row \in {0, bucket}
    /\ req \in [Requests -> Request]
    /\ arrived \in 0 .. MaxArrivals
    /\ torn \in BOOLEAN
    /\ mishaps \subseteq Mishaps

Init ==
    /\ bucket = 0 /\ buckets = 0
    /\ row = NoRow /\ inserts = 0
    /\ blob = NoBlob
    /\ upload = <<>>
    /\ req = [r \in Requests |-> Idle]
    /\ arrived = 0
    /\ torn = FALSE
    /\ mishaps = {}

-----------------------------------------------------------------------------
Arrival == arrived < MaxArrivals /\ arrived' = arrived + 1

\* get_bucket_by_slug comes first in every handler; without a bucket it ends.
At(at) == [Idle EXCEPT !.at = at, !.bucket = bucket]

Begin(r, request) ==
    /\ req[r].at = "idle" /\ bucket # 0
    /\ Arrival
    /\ req' = [req EXCEPT ![r] = request]

Goto(r, at) == req' = [req EXCEPT ![r].at = at]

Ends(r) == req' = [req EXCEPT ![r] = Idle]

\* Requests between the first of their writes of the object and the last.
ObjectPlaces == {"upsert", "blob_delete", "delete_row", "remove_dir", "list_parts"}

Overlap(r) == {m \in {"overlap"} : \E q \in Requests \ {r} : req[q].at \in ObjectPlaces}

\* r writes the object's file or row.
Writes(r) ==
    mishaps' = mishaps \cup Overlap(r)
                       \cup {m \in {"reread"} : \E q \in Requests : req[q].at = "ranged_get"}
                       \cup {m \in {"stale_bucket"} : req[r].bucket # bucket}

PartRace(r, parts) ==
    {m \in {"part_race"} : \E q \in Requests \ {r} :
        req[q].at \in {"part_rest", "part_row"} /\ req[q].up = req[r].up /\ req[q].part \in parts}

\* r writes or reads parts of its upload, or takes the whole upload away.
Touches(r, parts) == mishaps' = mishaps \cup PartRace(r, parts)

\* A complete that has read a part goes on to write the object.
Removes(r) ==
    mishaps' = mishaps \cup PartRace(r, Parts) \cup Overlap(r)
        \cup {m \in {"overlap"} : \E q \in Requests \ {r} :
                req[q].at = "read_parts" /\ req[q].up = req[r].up}

CutAt(r) ==
    LET at == req[r].at
        put == req[r].up = 0
    IN {m \in Mishaps :
           \/ m = "put_cut" /\ at = "upsert" /\ put
           \/ m = "complete_cut" /\ at \in {"remove_dir", "list_parts", "upsert"} /\ ~put
           \/ m = "delete_cut" /\ at = "delete_row"
           \/ m = "part_cut" /\ at \in {"part_rest", "part_row"}
           \/ m = "abort_cut" /\ at \in {"delete_parts", "delete_upload"}}

\* A statement fails, the client goes away or the server stops.
Drop(r) ==
    /\ req[r].at # "idle"
    /\ mishaps' = mishaps \cup CutAt(r)
    /\ Ends(r)
    /\ UNCHANGED <<bucket, buckets, row, inserts, blob, upload, arrived, torn>>

-----------------------------------------------------------------------------
(* create_bucket, delete_bucket                                             *)

CreateBucket ==
    /\ bucket = 0 /\ buckets < MaxBuckets
    /\ buckets' = buckets + 1 /\ bucket' = buckets + 1
    /\ Arrival
    /\ UNCHANGED <<row, inserts, blob, upload, req, torn, mishaps>>

\* The rows of objects, uploads and parts cascade; the files all stay.
DeleteBucket(r) ==
    /\ req[r].at = "delete_bucket"
    /\ IF req[r].bucket = bucket
       THEN /\ bucket' = 0 /\ row' = NoRow
            /\ upload' = [u \in DOMAIN upload |->
                            [upload[u] EXCEPT !.row = 0, !.rows = NewUpload.rows]]
       ELSE UNCHANGED <<bucket, row, upload>>
    /\ Writes(r)
    /\ Ends(r)
    /\ UNCHANGED <<buckets, inserts, blob, arrived, torn>>

-----------------------------------------------------------------------------
(* put_object, delete_object, get_object                                    *)

\* Mutant: the file is written in place, not beside it and renamed.
BlobPutInPlace(r) ==
    /\ req[r].at = "blob_put"
    /\ IF blob = <<Torn>> THEN blob' = req[r].body /\ Goto(r, "upsert")
       ELSE blob' = <<Torn>> /\ UNCHANGED req
    /\ Writes(r)
    /\ UNCHANGED <<bucket, buckets, row, inserts, upload, arrived, torn>>

\* FsBlobStore::put: a temporary file, then rename.
BlobPut(r) ==
    /\ req[r].at = "blob_put"
    /\ blob' = req[r].body
    /\ Writes(r)
    /\ req' = [req EXCEPT ![r].at = "upsert", ![r].length = Len(req[r].body)]
    /\ UNCHANGED <<bucket, buckets, row, inserts, upload, arrived, torn>>

\* Mutant: ON CONFLICT leaves the etag.
UpsertKeepsEtag(r) ==
    /\ req[r].at = "upsert"
    /\ IF req[r].bucket # bucket
       THEN Ends(r) /\ UNCHANGED <<row, inserts, mishaps>>
       ELSE /\ row' = IF row = NoRow
                      THEN [id |-> inserts + 1, etag |-> req[r].body, length |-> req[r].length]
                      ELSE [row EXCEPT !.length = req[r].length]
            /\ inserts' = IF row = NoRow THEN inserts + 1 ELSE inserts
            /\ Writes(r)
            /\ IF req[r].up = 0 THEN Ends(r) ELSE Goto(r, "delete_parts")
    /\ UNCHANGED <<bucket, buckets, blob, upload, arrived, torn>>

\* ON CONFLICT keeps the id.  The foreign key refuses a bucket that is gone.
Upsert(r) ==
    /\ req[r].at = "upsert"
    /\ IF req[r].bucket # bucket
       THEN Ends(r) /\ UNCHANGED <<row, inserts, mishaps>>
       ELSE /\ inserts' = IF row = NoRow THEN inserts + 1 ELSE inserts
            /\ row' = [id |-> IF row = NoRow THEN inserts + 1 ELSE row.id,
                       etag |-> req[r].body, length |-> req[r].length]
            /\ Writes(r)
            /\ IF req[r].up = 0 THEN Ends(r) ELSE Goto(r, "delete_parts")
    /\ UNCHANGED <<bucket, buckets, blob, upload, arrived, torn>>

FindObject(r) ==
    /\ req[r].at = "find_object"
    /\ IF req[r].bucket = bucket /\ row # NoRow
       THEN req' = [req EXCEPT ![r].at = "blob_delete", ![r].id = row.id]
       ELSE Ends(r)
    /\ UNCHANGED <<bucket, buckets, row, inserts, blob, upload, arrived, torn, mishaps>>

\* Without the file the answer is NotFound, and the row stays.
BlobDelete(r) ==
    /\ req[r].at = "blob_delete"
    /\ IF blob = NoBlob THEN Ends(r) /\ UNCHANGED mishaps ELSE Goto(r, "delete_row") /\ Writes(r)
    /\ blob' = NoBlob
    /\ UNCHANGED <<bucket, buckets, row, inserts, upload, arrived, torn>>

\* Mutant: the row is not deleted.
DeleteRowForgotten(r) ==
    /\ req[r].at = "delete_row"
    /\ Ends(r)
    /\ UNCHANGED <<bucket, buckets, row, inserts, blob, upload, arrived, torn, mishaps>>

DeleteRow(r) ==
    /\ req[r].at = "delete_row"
    /\ row' = IF row.id = req[r].id THEN NoRow ELSE row
    /\ Writes(r)
    /\ Ends(r)
    /\ UNCHANGED <<bucket, buckets, inserts, blob, upload, arrived, torn>>

Least(m, n) == IF m < n THEN m ELSE n

\* Mutant: a start past the end is not refused.
ParseRangeUnchecked(total) ==
    {<<start, Least(end, total)>> : start \in 0 .. 2, end \in 0 .. 3}

\* parse_range_header: what ranges can come of a header, the end exclusive.  An
\* end of 0 is the largest u64, wrapped by end + 1.
ParseRange(total) ==
    {<<start, Least(end, total)>> : start \in 0 .. Least(2, total - 1), end \in 0 .. 3}
        \cap {range \in (0 .. 2) \X (0 .. total) : range[1] < range[2]}

\* The whole object is read; the range is then cut from its length.
BlobGet(r) ==
    /\ req[r].at = "blob_get" /\ blob # NoBlob
    /\ \E range \in ParseRange(Len(blob)) :
         req' = [req EXCEPT ![r].at = "ranged_get", ![r].body = blob,
                            ![r].id = range[1], ![r].length = range[2]]
    /\ UNCHANGED <<bucket, buckets, row, inserts, blob, upload, arrived, torn, mishaps>>

\* FsBlobStore::get with a range: min(end, size) - start bytes, a length that
\* underflows when the file now ends before start.
RangedGet(r) ==
    LET start == req[r].id
        end == Least(req[r].length, Len(blob))
    IN
    /\ req[r].at = "ranged_get"
    /\ torn' = (torn \/ (blob # NoBlob /\
                   (end < start \/ SubSeq(blob, start + 1, end)
                                     # SubSeq(req[r].body, start + 1, req[r].length))))
    /\ Ends(r)
    /\ UNCHANGED <<bucket, buckets, row, inserts, blob, upload, arrived, mishaps>>

-----------------------------------------------------------------------------
(* create_multipart_upload, upload_part                                     *)

MakeDir(r) ==
    /\ req[r].at = "make_dir" /\ Len(upload) < MaxUploads
    /\ upload' = Append(upload, NewUpload)
    /\ req' = [req EXCEPT ![r].at = "insert_upload", ![r].up = Len(upload) + 1]
    /\ UNCHANGED <<bucket, buckets, row, inserts, blob, arrived, torn, mishaps>>

InsertUpload(r) ==
    /\ req[r].at = "insert_upload"
    /\ upload' = IF req[r].bucket = bucket THEN [upload EXCEPT ![req[r].up].row = bucket] ELSE upload
    /\ Ends(r)
    /\ UNCHANGED <<bucket, buckets, row, inserts, blob, arrived, torn, mishaps>>

\* fs::write of the part file: it is cut to nothing first.
PartFile(r) ==
    LET u == req[r].up IN
    /\ req[r].at = "part_file"
    /\ IF upload[u].dir
       THEN /\ upload' = [upload EXCEPT ![u].files[req[r].part] = Torn]
            /\ Goto(r, "part_rest")
            /\ Touches(r, {req[r].part})
       ELSE Ends(r) /\ UNCHANGED <<upload, mishaps>>
    /\ UNCHANGED <<bucket, buckets, row, inserts, blob, arrived, torn>>

\* The rest of the file; it may have lost its name to a complete or an abort.
PartRest(r) ==
    LET u == req[r].up IN
    /\ req[r].at = "part_rest"
    /\ upload' = IF upload[u].dir THEN [upload EXCEPT ![u].files[req[r].part] = req[r].data] ELSE upload
    /\ Goto(r, "part_row")
    /\ Touches(r, {req[r].part})
    /\ UNCHANGED <<bucket, buckets, row, inserts, blob, arrived, torn>>

\* Mutant: ON CONFLICT DO NOTHING.
PartRowKeepsFirst(r) ==
    LET u == req[r].up IN
    /\ req[r].at = "part_row"
    /\ upload' = IF upload[u].row = req[r].bucket /\ upload[u].rows[req[r].part] = None
                 THEN [upload EXCEPT ![u].rows[req[r].part] = req[r].data] ELSE upload
    /\ Touches(r, {req[r].part})
    /\ Ends(r)
    /\ UNCHANGED <<bucket, buckets, row, inserts, blob, arrived, torn>>

\* add_multipart_part: the upload must still have its row.
PartRow(r) ==
    LET u == req[r].up IN
    /\ req[r].at = "part_row"
    /\ upload' = IF upload[u].row = req[r].bucket
                 THEN [upload EXCEPT ![u].rows[req[r].part] = req[r].data] ELSE upload
    /\ Touches(r, {req[r].part})
    /\ Ends(r)
    /\ UNCHANGED <<bucket, buckets, row, inserts, blob, arrived, torn>>

-----------------------------------------------------------------------------
(* complete_multipart_upload, abort_multipart_upload                        *)

\* One part after the other; the etags the client sent are not looked at.
ReadPart(r) ==
    LET u == req[r].up
        p == req[r].list[req[r].part]
    IN
    /\ req[r].at = "read_parts" /\ req[r].part <= Len(req[r].list)
    /\ IF upload[u].dir /\ upload[u].files[p] # None
       THEN req' = [req EXCEPT ![r].part = @ + 1, ![r].body = Append(@, upload[u].files[p])]
       ELSE Ends(r)
    /\ Touches(r, {p})
    /\ UNCHANGED <<bucket, buckets, row, inserts, blob, upload, arrived, torn>>

\* The temporary file and its rename.
BlobComplete(r) ==
    LET u == req[r].up IN
    /\ req[r].at = "read_parts" /\ req[r].part > Len(req[r].list)
    /\ blob' = req[r].body
    /\ upload' = [upload EXCEPT ![u].made = @ + 1]
    /\ Writes(r)
    /\ Goto(r, "remove_dir")
    /\ UNCHANGED <<bucket, buckets, row, inserts, arrived, torn>>

NoFiles(u) == [upload EXCEPT ![u].dir = FALSE, ![u].files = NewUpload.files]

\* Mutant: the parts are left to a sweeper.
RemoveDirLater(r) ==
    /\ req[r].at = "remove_dir"
    /\ Goto(r, "list_parts")
    /\ Removes(r)
    /\ UNCHANGED <<bucket, buckets, row, inserts, blob, upload, arrived, torn>>

\* remove_dir_all fails on a directory that is gone: the object's file has
\* been replaced, its row will not be.
RemoveDir(r) ==
    /\ req[r].at = "remove_dir"
    /\ IF upload[req[r].up].dir THEN Goto(r, "list_parts") ELSE Ends(r)
    /\ upload' = NoFiles(req[r].up)
    /\ Removes(r)
    /\ UNCHANGED <<bucket, buckets, row, inserts, blob, arrived, torn>>

\* The length is the sum over every part row, listed by the client or not.
ListParts(r) ==
    LET u == req[r].up IN
    /\ req[r].at = "list_parts"
    /\ IF upload[u].row = req[r].bucket
       THEN req' = [req EXCEPT ![r].at = "upsert",
                               ![r].length = Cardinality({p \in Parts : upload[u].rows[p] # None})]
       ELSE Ends(r)
    /\ UNCHANGED <<bucket, buckets, row, inserts, blob, upload, arrived, torn, mishaps>>

AbortDir(r) ==
    /\ req[r].at = "abort_dir"
    /\ upload' = NoFiles(req[r].up)
    /\ Removes(r)
    /\ Goto(r, "delete_parts")
    /\ UNCHANGED <<bucket, buckets, row, inserts, blob, arrived, torn>>

\* delete_multipart_upload: two statements.
DeleteParts(r) ==
    /\ req[r].at = "delete_parts"
    /\ upload' = [upload EXCEPT ![req[r].up].rows = NewUpload.rows]
    /\ Removes(r)
    /\ Goto(r, "delete_upload")
    /\ UNCHANGED <<bucket, buckets, row, inserts, blob, arrived, torn>>

DeleteUpload(r) ==
    LET u == req[r].up IN
    /\ req[r].at = "delete_upload"
    /\ upload' = IF upload[u].row = req[r].bucket
                 THEN [upload EXCEPT ![u].row = 0, ![u].rows = NewUpload.rows] ELSE upload
    /\ Removes(r)
    /\ Ends(r)
    /\ UNCHANGED <<bucket, buckets, row, inserts, blob, arrived, torn>>

-----------------------------------------------------------------------------
\* The request a client sends: what the handler does before its first write
\* is to find the bucket and, for a part or complete, the upload; a complete
\* also looks for the upload's directory, once.
Arrive(r) ==
    /\ \/ \E at \in {"delete_bucket", "find_object", "blob_get", "make_dir"} : Begin(r, At(at))
       \/ \E body \in Bodies : Begin(r, [At("blob_put") EXCEPT !.body = body])
       \/ \E u \in DOMAIN upload :
            \/ /\ upload[u].row = bucket
               /\ \/ \E p \in Parts, d \in Data :
                       Begin(r, [At("part_file") EXCEPT !.up = u, !.part = p, !.data = d])
                  \/ \E list \in Lists :
                       /\ upload[u].dir
                       /\ Begin(r, [At("read_parts") EXCEPT !.up = u, !.part = 1, !.list = list])
            \/ Begin(r, [At("abort_dir") EXCEPT !.up = u])
    /\ UNCHANGED <<bucket, buckets, row, inserts, blob, upload, torn, mishaps>>

RequestStep(r) ==
    \/ Arrive(r) \/ Drop(r) \/ DeleteBucket(r)
    \/ BlobPut(r) \/ Upsert(r)
    \/ FindObject(r) \/ BlobDelete(r) \/ DeleteRow(r)
    \/ BlobGet(r) \/ RangedGet(r)
    \/ MakeDir(r) \/ InsertUpload(r)
    \/ PartFile(r) \/ PartRest(r) \/ PartRow(r)
    \/ ReadPart(r) \/ BlobComplete(r) \/ RemoveDir(r) \/ ListParts(r)
    \/ AbortDir(r) \/ DeleteParts(r) \/ DeleteUpload(r)

Next == CreateBucket \/ \E r \in Requests : RequestStep(r)

Spec == Init /\ [][Next]_vars

-----------------------------------------------------------------------------
Quiet == \A r \in Requests : req[r].at \notin ObjectPlaces

\* A row names the content that GET serves: two stores written one after
\* the other agree again whenever no request is between its writes, as long
\* as no two writers of the object overlapped, no put or complete was cut and
\* none wrote for a bucket that was gone. A delete that is cut leaves a row
\* without a file, which names nothing wrong (ListedIsReadable is about it).
RowsMatchBlobs ==
    Quiet /\ mishaps \cap {"overlap", "stale_bucket", "put_cut", "complete_cut"} = {}
        => row = NoRow \/ blob = NoBlob \/ row.etag = blob

\* An object that is listed can be read: put and complete write the file
\* before the row, so that cutting them, at any point, does not lose it.
\* Only deleting an object takes its file away first.
ListedIsReadable ==
    row # NoRow /\ blob = NoBlob =>
        \/ mishaps \cap {"overlap", "delete_cut"} # {}
        \/ \E r \in Requests : req[r].at = "delete_row"

Whole(content) == \A i \in DOMAIN content : content[i] # Torn

\* A GET, by range or not, never shows an object half written: put and
\* complete rename a finished file, and a part half written gets into an
\* object only when it was cut or read while being written.
ObjectsAreWhole == Whole(blob) \/ mishaps \cap {"part_race", "part_cut"} # {}

\* The bytes of a ranged GET are those of the version whose ETag and total it
\* answers with, unless the object was written between its two reads.
RangeIsOfOneVersion == torn => "reread" \in mishaps

\* A part that was acknowledged has its file, with what the client sent last,
\* until a complete or an abort takes the upload down; unless a PUT of the part
\* was cut, raced with another one of it or with a complete or an abort of the
\* upload, or a complete or an abort was cut.
AcknowledgedPartsAreKept ==
    mishaps \cap {"part_race", "part_cut", "abort_cut", "complete_cut"} = {} =>
        \A u \in DOMAIN upload, p \in Parts :
            upload[u].rows[p] # None =>
                \/ upload[u].files[p] = upload[u].rows[p]
                \/ \E r \in Requests : /\ req[r].up = u
                                       /\ \/ req[r].at \in {"list_parts", "upsert", "delete_parts"}
                                          \/ req[r].at \in {"part_rest", "part_row"} /\ req[r].part = p

\* Parts become the object once: a second complete finds them gone, unless
\* two writers of the object overlapped or a complete was cut after it wrote
\* the object, also where it had removed the parts already.
CompletesOnce ==
    mishaps \cap {"overlap", "complete_cut"} = {} =>
        \A u \in DOMAIN upload : upload[u].made <= 1
-----------------------------------------------------------------------------
(* What the properties rest on.                                             *)

\* A request knows a bucket that was created, and its upload, part and list.
RequestFits(r) ==
    /\ req[r].at # "idle" => req[r].bucket \in 1 .. buckets
    /\ req[r].up \in 0 .. Len(upload)
    /\ req[r].at # "upsert" =>
          (req[r].up # 0 <=>
             req[r].at \in {"insert_upload", "part_file", "part_rest", "part_row", "read_parts",
                           "remove_dir", "list_parts", "abort_dir", "delete_parts", "delete_upload"})
    /\ req[r].at \in {"part_file", "part_rest", "part_row"}
          => req[r].part \in Parts /\ req[r].data \in Data
    /\ req[r].at = "read_parts" => req[r].part \in 1 .. Len(req[r].list) + 1

\* An upload without its row has no part rows, one without its directory no
\* part files.
UploadFits(u) ==
    /\ upload[u].row = 0 => upload[u].rows = NewUpload.rows
    /\ ~upload[u].dir => upload[u].files = NewUpload.files

\* A new upload has no row before create_multipart_upload inserts it, and
\* until then only an abort can name it.
InsertFits(r) ==
    req[r].at = "insert_upload" =>
        /\ upload[req[r].up].row = 0
        /\ \A q \in Requests \ {r} : req[q].up = req[r].up =>
              req[q].at \in {"abort_dir", "delete_parts", "delete_upload"}

\* The row of an upload names the bucket its parts and its complete found, or
\* it is gone.
BucketFits(r) ==
    req[r].at \in {"part_file", "part_rest", "part_row", "read_parts", "remove_dir",
                  "list_parts", "upsert"} /\ req[r].up # 0
        => upload[req[r].up].row \in {0, req[r].bucket}

\* A part half written is one that is being written.
PartsAreWhole ==
    \/ mishaps \cap {"part_race", "part_cut"} # {}
    \/ /\ \A r \in Requests : Whole(req[r].body)
       /\ \A u \in DOMAIN upload, p \in Parts : upload[u].files[p] = Torn =>
             \E r \in Requests : req[r].at = "part_rest" /\ req[r].up = u /\ req[r].part = p

\* The file of a part that is being acknowledged is there.
PartFits(r) ==
    \/ "part_race" \in mishaps
    \/ /\ req[r].at = "part_rest" => upload[req[r].up].dir
       /\ req[r].at = "part_row" => upload[req[r].up].files[req[r].part] = req[r].data

\* What a writer of the object that no other overlaps finds as it left it: the
\* file, the row, the bucket, the parts.
WriterFits(r) ==
    \/ "overlap" \in mishaps
    \/ /\ req[r].at \in {"upsert", "remove_dir", "list_parts"} =>
             /\ blob = req[r].body
             /\ "stale_bucket" \in mishaps \/ req[r].bucket = bucket
       /\ req[r].at \in {"blob_delete", "delete_row"} => row.id = req[r].id
       /\ req[r].at \in {"read_parts", "remove_dir"} => upload[req[r].up].dir
       /\ req[r].at \in {"read_parts", "remove_dir", "list_parts"} /\ req[r].bucket = bucket
             => upload[req[r].up].row = bucket

\* A ranged GET holds the version it read first, and a range of it.
ReaderFits(r) ==
    req[r].at = "ranged_get" =>
        \/ "reread" \in mishaps
        \/ /\ blob = req[r].body /\ blob # NoBlob
           /\ req[r].id < req[r].length /\ req[r].length <= Len(blob)

\* The row and the file agree also while a delete is between its writes.
RowAgrees ==
    \/ mishaps \cap {"overlap", "stale_bucket", "put_cut", "complete_cut"} # {}
    \/ \E r \in Requests : req[r].at \in {"upsert", "remove_dir", "list_parts"}
    \/ row = NoRow \/ blob = NoBlob \/ row.etag = blob

\* Parts that became the object are gone or about to be.
MadeFits(u) ==
    \/ mishaps \cap {"overlap", "complete_cut"} # {} \/ upload[u].made = 0
    \/ /\ upload[u].made = 1
       /\ ~upload[u].dir \/ \E r \in Requests : req[r].at = "remove_dir" /\ req[r].up = u

\* The rows hang together, the files are whole, and every request finds what
\* it left, whatever the others did, as far as mishaps says.
StorageInv ==
    /\ TypeOK /\ ObjectsAreWhole /\ PartsAreWhole /\ RowAgrees
    /\ \A r \in Requests : /\ RequestFits(r) /\ InsertFits(r) /\ BucketFits(r) /\ PartFits(r)
                            /\ WriterFits(r) /\ ReaderFits(r)
    /\ \A u \in DOMAIN upload : UploadFits(u) /\ MadeFits(u)

(* What the design document says of the store.  TLC refutes each, with the  *)
(* configurations of README, section 7.                                     *)

\* "object.size: Object size in bytes": whatever is uploaded in whichever way,
\* without overlaps and cuts the length of a row is that of its content.
\* complete_multipart_upload adds up all parts, also those the list leaves out.
SizeIsOfTheObject == mishaps = {} /\ row # NoRow => row.length = Len(row.etag)

\* "Fails with 409 if objects exist and cascade=false": a bucket with an
\* object stays (no request of this model asks to cascade).
BucketWithObjectsStays == [][row # NoRow => bucket' = bucket]_vars
=============================================================================
