---------------------------- MODULE StorageProofs ----------------------------
(***************************************************************************)
(* Proofs about the object store for any requests, data and bounds: what   *)
(* the rows, the files and the requests between their writes have in       *)
(* common, as far as nothing of Mishaps happened.                          *)
(***************************************************************************)
EXTENDS Storage, TLAPS, FiniteSetTheorems

-----------------------------------------------------------------------------
(* Requests and uploads as records.                                         *)

(* The other requests stay where they are. *)
Stays(r) == \A q \in Requests \ {r} : req'[q] = req[q]

(* c is b, but perhaps at another place. *)
Keeps(b, c) ==
    /\ c.bucket = b.bucket /\ c.id = b.id /\ c.body = b.body /\ c.length = b.length
    /\ c.up = b.up /\ c.part = b.part /\ c.data = b.data /\ c.list = b.list

(* Only upload u changes. *)
OnlyUpload(u) ==
    /\ upload' \in Seq(Upload) /\ Len(upload') = Len(upload)
    /\ \A v \in 1 .. Len(upload) : v # u => upload'[v] = upload[v]

(* r ends. *)
Ended(r) == Stays(r) /\ req'[r] = Idle /\ req' \in [Requests -> Request]

(* r goes to another place. *)
Went(r, at) ==
    /\ Stays(r) /\ req' \in [Requests -> Request]
    /\ req'[r].at = at /\ Keeps(req[r], req'[r])

(* The idle request. *)
LEMMA IdleIsARequest ==
    /\ Idle \in Request /\ Idle.at = "idle" /\ Idle.bucket = 0 /\ Idle.id = 0 /\ Idle.body = <<>>
    /\ Idle.length = 0 /\ Idle.up = 0 /\ Idle.part = 0 /\ Idle.data = None /\ Idle.list = <<>>
  BY DEF Idle, Request, Places, Lists

(* Ends. *)
LEMMA EndsDoes ==
    ASSUME req \in [Requests -> Request], NEW r \in Requests, Ends(r)
    PROVE  Ended(r)
  BY IdleIsARequest DEF Ends, Ended, Stays

(* Goto. *)
LEMMA GotoDoes ==
    ASSUME req \in [Requests -> Request], NEW r \in Requests, NEW at \in Places, Goto(r, at)
    PROVE  Went(r, at)
<1>1. req[r] \in Request
  OBVIOUS
<1>2. [req[r] EXCEPT !.at = at] \in Request
  BY <1>1 DEF Request
<1>3. req' = [req EXCEPT ![r] = [req[r] EXCEPT !.at = at]]
  BY DEF Goto
<1>4. req'[r] = [req[r] EXCEPT !.at = at]
  BY <1>3
<1>5. req'[r].at = at /\ Keeps(req[r], req'[r])
  BY <1>1, <1>4 DEF Request, Keeps
<1>6. Stays(r)
  BY <1>3 DEF Stays
<1>7. req' \in [Requests -> Request]
  BY <1>2, <1>3
<1> QED BY <1>5, <1>6, <1>7 DEF Went

(* A new upload. *)
LEMMA NewUploadFits ==
    /\ NewUpload \in Upload
    /\ NewUpload.row = 0 /\ NewUpload.rows = [p \in Parts |-> None] /\ NewUpload.dir = TRUE
    /\ NewUpload.files = [p \in Parts |-> None] /\ NewUpload.made = 0
  BY DEF NewUpload, Upload

(* Replacing one upload. *)
LEMMA OneUpload ==
    ASSUME upload \in Seq(Upload), NEW u \in 1 .. Len(upload), NEW n \in Upload,
           upload' = [upload EXCEPT ![u] = n]
    PROVE  OnlyUpload(u) /\ upload'[u] = n
<1>1. upload' \in Seq(Upload) /\ Len(upload') = Len(upload)
  OBVIOUS
<1> QED BY <1>1 DEF OnlyUpload

(* What stands for no file is no content. *)
LEMMA NoBlobIsNoContent == NoBlob \notin Seq(Data \cup {Torn})
<1> DEFINE S == Data \cup {Torn}
<1>1. "no blob" \notin S
  BY StorageConstants DEF Torn, NoBlob
<1> HIDE DEF S
<1>2. ASSUME NEW s \in Seq(S), Len(s) = 1 PROVE s[1] \in S
  BY <1>2
<1>3. Len(<<"no blob">>) = 1 /\ <<"no blob">>[1] = "no blob"
  OBVIOUS
<1> QED BY <1>1, <1>2, <1>3 DEF S, NoBlob

-----------------------------------------------------------------------------
(* What each step does.                                                     *)

(* Drop. *)
LEMMA DropDoes ==
    ASSUME TypeOK, NEW r \in Requests, Drop(r)
    PROVE  /\ req[r].at # "idle" /\ Ended(r)
           /\ mishaps \subseteq mishaps' /\ mishaps' \subseteq Mishaps
           /\ UNCHANGED <<bucket, buckets, row, inserts, blob, upload, arrived, torn>>
           /\ req[r].at = "upsert" /\ req[r].up = 0 => "put_cut" \in mishaps'
           /\ req[r].at \in {"remove_dir", "list_parts", "upsert"} /\ req[r].up # 0
                 => "complete_cut" \in mishaps'
           /\ req[r].at = "delete_row" => "delete_cut" \in mishaps'
           /\ req[r].at \in {"part_rest", "part_row"} => "part_cut" \in mishaps'
           /\ req[r].at \in {"delete_parts", "delete_upload"} => "abort_cut" \in mishaps'
<1>1. Ended(r)
  BY EndsDoes DEF Drop, TypeOK
<1>2. /\ mishaps \subseteq mishaps' /\ mishaps' \subseteq Mishaps
      /\ req[r].at = "upsert" /\ req[r].up = 0 => "put_cut" \in mishaps'
      /\ req[r].at \in {"remove_dir", "list_parts", "upsert"} /\ req[r].up # 0
            => "complete_cut" \in mishaps'
      /\ req[r].at = "delete_row" => "delete_cut" \in mishaps'
      /\ req[r].at \in {"part_rest", "part_row"} => "part_cut" \in mishaps'
      /\ req[r].at \in {"delete_parts", "delete_upload"} => "abort_cut" \in mishaps'
  BY DEF Drop, CutAt, Mishaps, TypeOK
<1> QED BY <1>1, <1>2 DEF Drop

(* What Writes, Touches and Removes record. *)
LEMMA MishapsDo ==
    ASSUME NEW r \in Requests
    PROVE  /\ Writes(r) =>
               /\ mishaps \subseteq mishaps' /\ (mishaps \subseteq Mishaps => mishaps' \subseteq Mishaps)
               /\ "overlap" \notin mishaps' => \A q \in Requests \ {r} : req[q].at \notin ObjectPlaces
               /\ "reread" \notin mishaps' => \A q \in Requests : req[q].at # "ranged_get"
               /\ "stale_bucket" \notin mishaps' => req[r].bucket = bucket
           /\ \A parts : Touches(r, parts) =>
               /\ mishaps \subseteq mishaps' /\ (mishaps \subseteq Mishaps => mishaps' \subseteq Mishaps)
               /\ "part_race" \notin mishaps' => \A q \in Requests \ {r} :
                     req[q].at \in {"part_rest", "part_row"} /\ req[q].up = req[r].up
                         => req[q].part \notin parts
           /\ Removes(r) =>
               /\ mishaps \subseteq mishaps' /\ (mishaps \subseteq Mishaps => mishaps' \subseteq Mishaps)
               /\ "part_race" \notin mishaps' => \A q \in Requests \ {r} :
                     req[q].at \in {"part_rest", "part_row"} /\ req[q].up = req[r].up
                         => req[q].part \notin Parts
               /\ "overlap" \notin mishaps' => \A q \in Requests \ {r} :
                     /\ req[q].at \notin ObjectPlaces
                     /\ req[q].at = "read_parts" => req[q].up # req[r].up
<1>1. ASSUME Writes(r)
      PROVE  /\ mishaps \subseteq mishaps' /\ (mishaps \subseteq Mishaps => mishaps' \subseteq Mishaps)
             /\ "overlap" \notin mishaps' => \A q \in Requests \ {r} : req[q].at \notin ObjectPlaces
             /\ "reread" \notin mishaps' => \A q \in Requests : req[q].at # "ranged_get"
             /\ "stale_bucket" \notin mishaps' => req[r].bucket = bucket
  BY <1>1 DEF Writes, Overlap, Mishaps
<1>2. ASSUME NEW parts, Touches(r, parts)
      PROVE  /\ mishaps \subseteq mishaps' /\ (mishaps \subseteq Mishaps => mishaps' \subseteq Mishaps)
             /\ "part_race" \notin mishaps' => \A q \in Requests \ {r} :
                   req[q].at \in {"part_rest", "part_row"} /\ req[q].up = req[r].up
                       => req[q].part \notin parts
  BY <1>2 DEF Touches, PartRace, Mishaps
<1>3. ASSUME Removes(r)
      PROVE  /\ mishaps \subseteq mishaps' /\ (mishaps \subseteq Mishaps => mishaps' \subseteq Mishaps)
             /\ "part_race" \notin mishaps' => \A q \in Requests \ {r} :
                   req[q].at \in {"part_rest", "part_row"} /\ req[q].up = req[r].up
                       => req[q].part \notin Parts
             /\ "overlap" \notin mishaps' => \A q \in Requests \ {r} :
                   /\ req[q].at \notin ObjectPlaces
                   /\ req[q].at = "read_parts" => req[q].up # req[r].up
  BY <1>3 DEF Removes, PartRace, Overlap, Mishaps
<1> QED BY <1>1, <1>2, <1>3

(* CreateBucket. *)
LEMMA CreateBucketDoes ==
    ASSUME TypeOK, CreateBucket
    PROVE  /\ TypeOK'
           /\ bucket = 0 /\ buckets' = buckets + 1 /\ bucket' = buckets + 1
           /\ UNCHANGED <<row, inserts, blob, upload, req, torn, mishaps>>
<1>1. upload' = upload /\ \A u \in DOMAIN upload : upload[u].row = 0
  BY DEF CreateBucket, TypeOK
<1>2. \A u \in DOMAIN upload' : upload'[u].row \in {0, bucket'}
  BY <1>1
<1>3. arrived' \in 0 .. MaxArrivals
  BY StorageConstants DEF CreateBucket, Arrival, TypeOK
<1>4. buckets' \in 0 .. MaxBuckets /\ bucket' = buckets'
  BY StorageConstants DEF CreateBucket, TypeOK
<1>5. row' # NoRow => bucket' # 0
  BY <1>4, StorageConstants DEF CreateBucket, TypeOK
<1>6. TypeOK'
  BY <1>2, <1>3, <1>4, <1>5 DEF CreateBucket, TypeOK
<1> QED BY <1>6 DEF CreateBucket

(* DeleteBucket. *)
LEMMA DeleteBucketDoes ==
    ASSUME TypeOK, NEW r \in Requests, DeleteBucket(r)
    PROVE  /\ TypeOK' /\ Ended(r) /\ req[r].at = "delete_bucket" /\ Writes(r)
           /\ UNCHANGED <<buckets, inserts, blob, torn>>
           /\ Len(upload') = Len(upload)
           /\ \/ UNCHANGED <<bucket, row, upload>>
              \/ /\ req[r].bucket = bucket /\ bucket' = 0 /\ row' = NoRow
                 /\ \A u \in DOMAIN upload :
                       /\ upload'[u].row = 0 /\ upload'[u].rows = NewUpload.rows
                       /\ upload'[u].dir = upload[u].dir /\ upload'[u].files = upload[u].files
                       /\ upload'[u].made = upload[u].made
<1>1. Ended(r) /\ mishaps' \subseteq Mishaps /\ req[r].at = "delete_bucket" /\ Writes(r)
      /\ UNCHANGED <<buckets, inserts, blob, torn, arrived>>
  BY EndsDoes, MishapsDo DEF DeleteBucket, TypeOK
<1>2. CASE req[r].bucket = bucket
  <2> DEFINE new(u) == [upload[u] EXCEPT !.row = 0, !.rows = NewUpload.rows]
  <2>1. upload' = [u \in DOMAIN upload |-> new(u)] /\ bucket' = 0 /\ row' = NoRow
    BY <1>2 DEF DeleteBucket
  <2>2. ASSUME NEW u \in DOMAIN upload
        PROVE  /\ new(u) \in Upload /\ new(u).row = 0 /\ new(u).rows = NewUpload.rows
               /\ new(u).dir = upload[u].dir /\ new(u).files = upload[u].files
               /\ new(u).made = upload[u].made
    <3>1. upload[u] \in Upload
      BY DEF TypeOK
    <3>2. NewUpload.rows \in [Parts -> Data \cup {None}]
      BY NewUploadFits DEF Upload
    <3> QED BY <3>1, <3>2 DEF Upload
  <2> HIDE DEF new
  <2>3. DOMAIN upload = 1 .. Len(upload) /\ Len(upload) \in Nat
    BY DEF TypeOK
  <2>4. upload' \in Seq(Upload) /\ Len(upload') = Len(upload)
    BY <2>1, <2>2, <2>3
  <2>5. \A u \in DOMAIN upload :
          /\ upload'[u].row = 0 /\ upload'[u].rows = NewUpload.rows
          /\ upload'[u].dir = upload[u].dir /\ upload'[u].files = upload[u].files
          /\ upload'[u].made = upload[u].made
    BY <2>1, <2>2
  <2>6. DOMAIN upload' = DOMAIN upload
    BY <2>1
  <2>7. row' \in [id : 0 .. inserts, etag : Contents, length : Nat]
    BY <2>1 DEF NoRow, Contents, TypeOK
  <2>8. TypeOK'
    BY <1>1, <2>1, <2>4, <2>5, <2>6, <2>7 DEF TypeOK, Ended
  <2> QED BY <1>1, <1>2, <2>1, <2>4, <2>5, <2>8
<1>3. CASE req[r].bucket # bucket
  <2>1. UNCHANGED <<bucket, row, upload>>
    BY <1>3 DEF DeleteBucket
  <2>2. TypeOK'
    BY <1>1, <2>1 DEF TypeOK, Ended
  <2> QED BY <1>1, <2>1, <2>2
<1> QED BY <1>2, <1>3

(* BlobPut. *)
LEMMA BlobPutDoes ==
    ASSUME TypeOK, NEW r \in Requests, BlobPut(r)
    PROVE  /\ TypeOK' /\ Stays(r) /\ req[r].at = "blob_put" /\ req'[r].at = "upsert"
           /\ req'[r].bucket = req[r].bucket /\ req'[r].body = req[r].body /\ req'[r].up = req[r].up
           /\ blob' = req[r].body /\ Writes(r)
           /\ UNCHANGED <<bucket, buckets, row, inserts, upload, torn>>
<1> DEFINE c == [req[r] EXCEPT !.at = "upsert", !.length = Len(req[r].body)]
<1>1. req[r] \in Request /\ req \in [Requests -> Request]
  BY DEF TypeOK
<1>len. Len(req[r].body) \in Nat
  <2>1. req[r].body \in Seq(Data \cup {Torn})
    BY <1>1 DEF Request
  <2> QED BY <2>1
<1>2. c \in Request /\ c.at = "upsert" /\ c.bucket = req[r].bucket /\ c.body = req[r].body
      /\ c.up = req[r].up
  BY <1>1, <1>len DEF Request, Places
<1>3. req' = [req EXCEPT ![r] = c]
  BY DEF BlobPut
<1> HIDE DEF c
<1>4. req' \in [Requests -> Request] /\ Stays(r) /\ req'[r] = c
  BY <1>1, <1>2, <1>3 DEF Stays
<1>5. blob' \in Contents
  BY <1>1 DEF BlobPut, Contents, Request
<1>6. mishaps' \subseteq Mishaps
  BY MishapsDo DEF BlobPut, TypeOK
<1>7. TypeOK'
  BY <1>4, <1>5, <1>6 DEF BlobPut, TypeOK
<1> QED BY <1>2, <1>4, <1>7 DEF BlobPut

(* Upsert. *)
LEMMA UpsertDoes ==
    ASSUME TypeOK, NEW r \in Requests, RequestFits(r), Upsert(r)
    PROVE  /\ TypeOK' /\ Stays(r) /\ req[r].at = "upsert"
           /\ \/ /\ req[r].bucket # bucket /\ Ended(r) /\ UNCHANGED <<row, mishaps>>
              \/ /\ req[r].bucket = bucket /\ bucket # 0
                 /\ row'.etag = req[r].body /\ Writes(r)
                 /\ IF req[r].up = 0 THEN Ended(r) ELSE Went(r, "delete_parts")
           /\ UNCHANGED <<bucket, buckets, blob, upload, torn>>
<1>1. req[r] \in Request /\ req \in [Requests -> Request] /\ inserts \in Nat
  BY DEF TypeOK
<1>2. CASE req[r].bucket # bucket
  <2>1. Ended(r) /\ UNCHANGED <<row, inserts, mishaps>>
    BY <1>1, <1>2, EndsDoes DEF Upsert
  <2>2. TypeOK'
    BY <2>1 DEF Upsert, TypeOK, Ended
  <2> QED BY <1>2, <2>1, <2>2 DEF Upsert, Ended
<1>3. CASE req[r].bucket = bucket
  <2>1. bucket # 0
    BY <1>3 DEF RequestFits, TypeOK, Upsert
  <2>2. IF req[r].up = 0 THEN Ended(r) ELSE Went(r, "delete_parts")
    BY <1>1, <1>3, EndsDoes, GotoDoes DEF Upsert, Places
  <2>3. Stays(r) /\ req' \in [Requests -> Request]
    BY <2>2 DEF Ended, Went
  <2>4. /\ row' = [id |-> IF row = NoRow THEN inserts + 1 ELSE row.id,
                   etag |-> req[r].body, length |-> req[r].length]
        /\ inserts' = IF row = NoRow THEN inserts + 1 ELSE inserts
    BY <1>3 DEF Upsert
  <2>5. row'.etag = req[r].body
    BY <2>4
  <2>6. inserts' \in Nat /\ (IF row = NoRow THEN inserts + 1 ELSE row.id) \in 0 .. inserts'
    BY <1>1, <2>4 DEF TypeOK
  <2>7. req[r].body \in Contents /\ req[r].length \in Nat
    BY <1>1 DEF Request, Contents
  <2>8. row' \in [id : 0 .. inserts', etag : Contents, length : Nat]
    BY <2>4, <2>6, <2>7
  <2>9. mishaps' \subseteq Mishaps
    BY <1>3, MishapsDo DEF Upsert, TypeOK
  <2>10. TypeOK'
    BY <2>1, <2>3, <2>6, <2>8, <2>9 DEF Upsert, TypeOK
  <2> QED BY <1>3, <2>1, <2>2, <2>3, <2>5, <2>10 DEF Upsert
<1> QED BY <1>2, <1>3

(* FindObject. *)
LEMMA FindObjectDoes ==
    ASSUME TypeOK, NEW r \in Requests, FindObject(r)
    PROVE  /\ TypeOK' /\ Stays(r) /\ req[r].at = "find_object"
           /\ \/ Ended(r)
              \/ /\ req'[r].at = "blob_delete" /\ req'[r].id = row.id
                 /\ req'[r].bucket = req[r].bucket /\ req'[r].body = req[r].body
                 /\ req'[r].up = req[r].up
           /\ UNCHANGED <<bucket, buckets, row, inserts, blob, upload, torn, mishaps>>
<1>1. req[r] \in Request /\ req \in [Requests -> Request] /\ row.id \in Nat
  BY DEF TypeOK
<1>2. CASE req[r].bucket = bucket /\ row # NoRow
  <2> DEFINE c == [req[r] EXCEPT !.at = "blob_delete", !.id = row.id]
  <2>1. c \in Request /\ c.at = "blob_delete" /\ c.id = row.id /\ c.bucket = req[r].bucket
        /\ c.body = req[r].body /\ c.up = req[r].up
    BY <1>1 DEF Request, Places
  <2>2. req' = [req EXCEPT ![r] = c]
    BY <1>2 DEF FindObject
  <2> HIDE DEF c
  <2>3. req' \in [Requests -> Request] /\ Stays(r) /\ req'[r] = c
    BY <1>1, <2>1, <2>2 DEF Stays
  <2>4. TypeOK'
    BY <2>3 DEF FindObject, TypeOK
  <2> QED BY <2>1, <2>3, <2>4 DEF FindObject
<1>3. CASE ~(req[r].bucket = bucket /\ row # NoRow)
  <2>1. Ended(r)
    BY <1>1, <1>3, EndsDoes DEF FindObject
  <2>2. TypeOK'
    BY <2>1 DEF FindObject, TypeOK, Ended
  <2> QED BY <2>1, <2>2 DEF FindObject, Ended
<1> QED BY <1>2, <1>3

(* BlobDelete. *)
LEMMA BlobDeleteDoes ==
    ASSUME TypeOK, NEW r \in Requests, BlobDelete(r)
    PROVE  /\ TypeOK' /\ Stays(r) /\ req[r].at = "blob_delete" /\ blob' = NoBlob
           /\ \/ Ended(r) /\ blob = NoBlob /\ UNCHANGED mishaps
              \/ Went(r, "delete_row") /\ Writes(r)
           /\ UNCHANGED <<bucket, buckets, row, inserts, upload, torn>>
<1>1. req[r] \in Request /\ req \in [Requests -> Request] /\ NoBlob \in Contents
  BY DEF TypeOK, Contents
<1>2. CASE blob = NoBlob
  <2>1. Ended(r) /\ UNCHANGED mishaps
    BY <1>1, <1>2, EndsDoes DEF BlobDelete
  <2>2. TypeOK'
    BY <1>1, <2>1 DEF BlobDelete, TypeOK, Ended
  <2> QED BY <1>2, <2>1, <2>2 DEF BlobDelete, Ended
<1>3. CASE blob # NoBlob
  <2>1. Went(r, "delete_row") /\ Writes(r)
    BY <1>1, <1>3, GotoDoes DEF BlobDelete, Places
  <2>2. mishaps' \subseteq Mishaps
    BY <2>1, MishapsDo DEF TypeOK
  <2>3. TypeOK'
    BY <1>1, <2>1, <2>2 DEF BlobDelete, TypeOK, Went
  <2> QED BY <2>1, <2>3 DEF BlobDelete, Went
<1> QED BY <1>2, <1>3

(* DeleteRow. *)
LEMMA DeleteRowDoes ==
    ASSUME TypeOK, NEW r \in Requests, DeleteRow(r)
    PROVE  /\ TypeOK' /\ Ended(r) /\ req[r].at = "delete_row" /\ Writes(r)
           /\ row' = IF row.id = req[r].id THEN NoRow ELSE row
           /\ UNCHANGED <<bucket, buckets, inserts, blob, upload, torn>>
<1>1. Ended(r) /\ mishaps' \subseteq Mishaps
  BY EndsDoes, MishapsDo DEF DeleteRow, TypeOK
<1>2. row' \in [id : 0 .. inserts, etag : Contents, length : Nat] /\ (row' # NoRow => row # NoRow)
  BY DEF DeleteRow, TypeOK, NoRow, Contents
<1>3. TypeOK'
  BY <1>1, <1>2 DEF DeleteRow, TypeOK, Ended
<1> QED BY <1>1, <1>3 DEF DeleteRow

(* BlobGet. *)
LEMMA BlobGetDoes ==
    ASSUME TypeOK, NEW r \in Requests, BlobGet(r)
    PROVE  /\ TypeOK' /\ Stays(r) /\ req[r].at = "blob_get" /\ req'[r].at = "ranged_get"
           /\ req'[r].body = blob /\ blob # NoBlob
           /\ req'[r].id < req'[r].length /\ req'[r].length <= Len(blob)
           /\ req'[r].bucket = req[r].bucket /\ req'[r].up = req[r].up
           /\ UNCHANGED <<bucket, buckets, row, inserts, blob, upload, torn, mishaps>>
<1>1. req[r] \in Request /\ req \in [Requests -> Request] /\ blob \in Seq(Data \cup {Torn})
  BY DEF TypeOK, BlobGet, Contents
<1>2. PICK range \in ParseRange(Len(blob)) :
         req' = [req EXCEPT ![r].at = "ranged_get", ![r].body = blob,
                            ![r].id = range[1], ![r].length = range[2]]
  BY DEF BlobGet
<1>3. Len(blob) \in Nat
  BY <1>1
<1>4. range[1] \in Nat /\ range[2] \in Nat /\ range[1] < range[2] /\ range[2] <= Len(blob)
  <2>1. range \in (0 .. 2) \X (0 .. Len(blob)) /\ range[1] < range[2]
    BY DEF ParseRange
  <2> QED BY <1>3, <2>1
<1> DEFINE c == [req[r] EXCEPT !.at = "ranged_get", !.body = blob, !.id = range[1], !.length = range[2]]
<1>5. /\ c \in Request /\ c.at = "ranged_get" /\ c.body = blob /\ c.id = range[1]
      /\ c.length = range[2] /\ c.bucket = req[r].bucket /\ c.up = req[r].up
  BY <1>1, <1>4 DEF Request, Places
<1>6. req' = [req EXCEPT ![r] = c]
  BY <1>2
<1> HIDE DEF c
<1>7. req' \in [Requests -> Request] /\ Stays(r) /\ req'[r] = c
  BY <1>1, <1>5, <1>6 DEF Stays
<1>8. TypeOK'
  BY <1>7 DEF BlobGet, TypeOK
<1> QED BY <1>4, <1>5, <1>7, <1>8 DEF BlobGet

(* RangedGet: what it reads is what it read before. *)
LEMMA RangedGetDoes ==
    ASSUME TypeOK, NEW r \in Requests, ReaderFits(r), RangedGet(r)
    PROVE  /\ TypeOK' /\ Ended(r) /\ req[r].at = "ranged_get"
           /\ torn' => torn \/ "reread" \in mishaps
           /\ UNCHANGED <<bucket, buckets, row, inserts, blob, upload, mishaps>>
<1>1. Ended(r)
  BY EndsDoes DEF RangedGet, TypeOK
<1>2. TypeOK'
  BY <1>1 DEF RangedGet, TypeOK, Ended
<1>3. ASSUME "reread" \notin mishaps, torn' PROVE torn
  <2>1. /\ blob = req[r].body /\ blob # NoBlob
        /\ req[r].id < req[r].length /\ req[r].length <= Len(blob)
    BY <1>3 DEF ReaderFits, RangedGet
  <2>2. req[r].id \in Nat /\ req[r].length \in Nat /\ Len(blob) \in Nat
    <3>1. req[r] \in Request
      BY DEF TypeOK
    <3>2. blob \in Seq(Data \cup {Torn})
      BY <2>1, <3>1 DEF Request
    <3> QED BY <3>1, <3>2 DEF Request
  <2>3. Least(req[r].length, Len(blob)) = req[r].length
    BY <2>1, <2>2 DEF Least
  <2>4. ~(req[r].length < req[r].id)
    BY <2>1, <2>2
  <2> QED BY <1>3, <2>1, <2>3, <2>4 DEF RangedGet
<1> QED BY <1>1, <1>2, <1>3 DEF RangedGet

(* MakeDir. *)
LEMMA MakeDirDoes ==
    ASSUME TypeOK, NEW r \in Requests, MakeDir(r)
    PROVE  /\ TypeOK' /\ Stays(r) /\ req[r].at = "make_dir" /\ req'[r].at = "insert_upload"
           /\ req'[r].up = Len(upload) + 1 /\ req'[r].bucket = req[r].bucket
           /\ req'[r].body = req[r].body
           /\ Len(upload') = Len(upload) + 1 /\ upload'[Len(upload) + 1] = NewUpload
           /\ \A u \in 1 .. Len(upload) : upload'[u] = upload[u]
           /\ UNCHANGED <<bucket, buckets, row, inserts, blob, torn, mishaps>>
<1>1. req[r] \in Request /\ req \in [Requests -> Request] /\ upload \in Seq(Upload)
      /\ Len(upload) \in Nat
  BY DEF TypeOK
<1> DEFINE l == Len(upload) + 1
           c == [req[r] EXCEPT !.at = "insert_upload", !.up = l]
<1>l. l \in Nat
  BY <1>1
<1> HIDE DEF l
<1>2. c \in Request /\ c.at = "insert_upload" /\ c.up = l
      /\ c.bucket = req[r].bucket /\ c.body = req[r].body
  BY <1>1, <1>l DEF Request, Places
<1>3. req' = [req EXCEPT ![r] = c]
  BY DEF MakeDir, l
<1> HIDE DEF c
<1>4. req' \in [Requests -> Request] /\ Stays(r) /\ req'[r] = c
  BY <1>1, <1>2, <1>3 DEF Stays
<1>5. upload' = Append(upload, NewUpload) /\ Len(upload) < MaxUploads
  BY DEF MakeDir
<1>6. /\ upload' \in Seq(Upload) /\ Len(upload') = Len(upload) + 1
      /\ upload'[Len(upload) + 1] = NewUpload
      /\ \A u \in 1 .. Len(upload) : upload'[u] = upload[u]
  BY <1>1, <1>5, NewUploadFits
<1>7. Len(upload') <= MaxUploads
  BY <1>1, <1>5, <1>6, StorageConstants
<1>8. \A u \in DOMAIN upload' : upload'[u].row \in {0, bucket}
  <2>1. DOMAIN upload' = 1 .. Len(upload) + 1 /\ DOMAIN upload = 1 .. Len(upload)
    BY <1>1, <1>6
  <2>2. \A u \in 1 .. Len(upload) : upload[u].row \in {0, bucket}
    BY <2>1 DEF TypeOK
  <2> QED BY <1>1, <1>6, <2>1, <2>2, NewUploadFits
<1>9. TypeOK'
  BY <1>4, <1>6, <1>7, <1>8 DEF MakeDir, TypeOK
<1> QED BY <1>2, <1>4, <1>6, <1>9 DEF MakeDir, l

(* What the type needs of a step that changes one upload, and ends or moves *)
(* a request. *)
LEMMA OneUploadType ==
    ASSUME TypeOK, NEW u \in 1 .. Len(upload), OnlyUpload(u), upload'[u].row \in {0, bucket},
           UNCHANGED <<bucket, buckets, row, inserts, arrived, torn>>, blob' \in Contents,
           req' \in [Requests -> Request], mishaps' \subseteq Mishaps
    PROVE  TypeOK'
<1>1. DOMAIN upload = 1 .. Len(upload) /\ DOMAIN upload' = 1 .. Len(upload)
  BY DEF TypeOK, OnlyUpload
<1>2. \A v \in DOMAIN upload' : upload'[v].row \in {0, bucket}
  BY <1>1 DEF TypeOK, OnlyUpload
<1> QED BY <1>2 DEF TypeOK, OnlyUpload

(* A request that knows an upload. *)
LEMMA KnowsUpload ==
    ASSUME TypeOK, NEW r \in Requests, RequestFits(r),
           req[r].at \in {"insert_upload", "part_file", "part_rest", "part_row", "read_parts",
                          "remove_dir", "list_parts", "abort_dir", "delete_parts", "delete_upload"}
    PROVE  /\ req[r].up \in 1 .. Len(upload) /\ req[r].up \in DOMAIN upload
           /\ upload[req[r].up] \in Upload /\ upload[req[r].up].row \in {0, bucket}
<1>1. req[r].up \in 1 .. Len(upload) /\ DOMAIN upload = 1 .. Len(upload)
  BY DEF RequestFits, TypeOK
<1> QED BY <1>1 DEF TypeOK

(* InsertUpload. *)
LEMMA InsertUploadDoes ==
    ASSUME TypeOK, NEW r \in Requests, RequestFits(r), InsertUpload(r)
    PROVE  /\ TypeOK' /\ Ended(r) /\ req[r].at = "insert_upload"
           /\ OnlyUpload(req[r].up)
           /\ upload'[req[r].up].row \in {upload[req[r].up].row, bucket}
           /\ (upload'[req[r].up].row = 0 => upload[req[r].up].row = 0)
           /\ upload'[req[r].up].rows = upload[req[r].up].rows
           /\ upload'[req[r].up].dir = upload[req[r].up].dir
           /\ upload'[req[r].up].files = upload[req[r].up].files
           /\ upload'[req[r].up].made = upload[req[r].up].made
           /\ UNCHANGED <<bucket, buckets, row, inserts, blob, torn, mishaps>>
<1> DEFINE u == req[r].up
           n == [upload[u] EXCEPT !.row = bucket]
<1>1. u \in 1 .. Len(upload) /\ upload[u] \in Upload /\ upload[u].row \in {0, bucket}
      /\ upload \in Seq(Upload) /\ bucket \in Nat
  BY KnowsUpload DEF InsertUpload, TypeOK
<1>2. Ended(r)
  BY EndsDoes DEF InsertUpload, TypeOK
<1>3. CASE req[r].bucket = bucket
  <2>1. n \in Upload /\ n.row = bucket /\ n.rows = upload[u].rows /\ n.dir = upload[u].dir
        /\ n.files = upload[u].files /\ n.made = upload[u].made
    BY <1>1 DEF Upload
  <2>2. upload' = [upload EXCEPT ![u] = n]
    BY <1>3 DEF InsertUpload
  <2> HIDE DEF n, u
  <2>3. OnlyUpload(u) /\ upload'[u] = n
    BY <1>1, <2>1, <2>2, OneUpload
  <2>4. bucket # 0
    BY <1>3 DEF InsertUpload, RequestFits, TypeOK
  <2>5. TypeOK'
    BY <1>1, <1>2, <2>1, <2>3, OneUploadType DEF InsertUpload, Ended, TypeOK
  <2> QED BY <1>2, <2>1, <2>3, <2>4, <2>5 DEF InsertUpload, u
<1>4. CASE req[r].bucket # bucket
  <2>1. upload' = upload
    BY <1>4 DEF InsertUpload
  <2>2. OnlyUpload(u)
    BY <2>1 DEF OnlyUpload, TypeOK
  <2>3. TypeOK'
    BY <1>2, <2>1 DEF InsertUpload, TypeOK, Ended
  <2> QED BY <1>1, <1>2, <2>1, <2>2, <2>3 DEF InsertUpload
<1> QED BY <1>3, <1>4

(* Writing one part file of an upload. *)
LEMMA WriteFile ==
    ASSUME upload \in Seq(Upload), NEW u \in 1 .. Len(upload), NEW p \in Parts,
           NEW d \in Data \cup {None, Torn}, upload' = [upload EXCEPT ![u].files[p] = d]
    PROVE  /\ OnlyUpload(u) /\ upload'[u].row = upload[u].row /\ upload'[u].rows = upload[u].rows
           /\ upload'[u].dir = upload[u].dir /\ upload'[u].made = upload[u].made
           /\ upload'[u].files[p] = d
           /\ \A o \in Parts \ {p} : upload'[u].files[o] = upload[u].files[o]
<1> DEFINE n == [upload[u] EXCEPT !.files = [@ EXCEPT ![p] = d]]
<1>0. upload[u] \in Upload
  OBVIOUS
<1>1. upload[u] \in Upload /\ upload[u].files \in [Parts -> Data \cup {None, Torn}]
  BY <1>0 DEF Upload
<1>2. /\ n \in Upload /\ n.row = upload[u].row /\ n.rows = upload[u].rows
      /\ n.dir = upload[u].dir /\ n.made = upload[u].made /\ n.files = [upload[u].files EXCEPT ![p] = d]
  BY <1>1 DEF Upload
<1>3. upload' = [upload EXCEPT ![u] = n]
  OBVIOUS
<1> HIDE DEF n
<1>4. OnlyUpload(u) /\ upload'[u] = n
  BY <1>2, <1>3, OneUpload
<1> QED BY <1>1, <1>2, <1>4

(* Writing one part row of an upload. *)
LEMMA WriteRow ==
    ASSUME upload \in Seq(Upload), NEW u \in 1 .. Len(upload), NEW p \in Parts,
           NEW d \in Data, upload' = [upload EXCEPT ![u].rows[p] = d]
    PROVE  /\ OnlyUpload(u) /\ upload'[u].row = upload[u].row /\ upload'[u].files = upload[u].files
           /\ upload'[u].dir = upload[u].dir /\ upload'[u].made = upload[u].made
           /\ upload'[u].rows[p] = d
           /\ \A o \in Parts \ {p} : upload'[u].rows[o] = upload[u].rows[o]
<1> DEFINE n == [upload[u] EXCEPT !.rows = [@ EXCEPT ![p] = d]]
<1>0. upload[u] \in Upload
  OBVIOUS
<1>1. upload[u] \in Upload /\ upload[u].rows \in [Parts -> Data \cup {None}]
  BY <1>0 DEF Upload
<1>2. /\ n \in Upload /\ n.row = upload[u].row /\ n.files = upload[u].files
      /\ n.dir = upload[u].dir /\ n.made = upload[u].made /\ n.rows = [upload[u].rows EXCEPT ![p] = d]
  BY <1>1 DEF Upload
<1>3. upload' = [upload EXCEPT ![u] = n]
  OBVIOUS
<1> HIDE DEF n
<1>4. OnlyUpload(u) /\ upload'[u] = n
  BY <1>2, <1>3, OneUpload
<1> QED BY <1>1, <1>2, <1>4

(* PartFile. *)
LEMMA PartFileDoes ==
    ASSUME TypeOK, NEW r \in Requests, RequestFits(r), PartFile(r)
    PROVE  LET u == req[r].up IN
           /\ TypeOK' /\ Stays(r) /\ req[r].at = "part_file"
           /\ \/ Ended(r) /\ UNCHANGED <<upload, mishaps>>
              \/ /\ Went(r, "part_rest") /\ Touches(r, {req[r].part})
                 /\ upload[u].dir /\ OnlyUpload(u)
                 /\ upload'[u].row = upload[u].row /\ upload'[u].rows = upload[u].rows
                 /\ upload'[u].dir = upload[u].dir /\ upload'[u].made = upload[u].made
                 /\ \A o \in Parts \ {req[r].part} : upload'[u].files[o] = upload[u].files[o]
           /\ UNCHANGED <<bucket, buckets, row, inserts, blob, torn>>
<1> DEFINE u == req[r].up
<1>1. u \in 1 .. Len(upload) /\ upload \in Seq(Upload) /\ req \in [Requests -> Request]
      /\ req[r].part \in Parts /\ upload[u].row \in {0, bucket}
  BY KnowsUpload DEF PartFile, TypeOK, RequestFits
<1>2. CASE upload[u].dir
  <2>1. Went(r, "part_rest") /\ Touches(r, {req[r].part}) /\ mishaps' \subseteq Mishaps
    BY <1>1, <1>2, GotoDoes, MishapsDo DEF PartFile, Places, TypeOK
  <2>2. upload' = [upload EXCEPT ![u].files[req[r].part] = Torn]
    BY <1>2 DEF PartFile
  <2>3. /\ OnlyUpload(u) /\ upload'[u].row = upload[u].row /\ upload'[u].rows = upload[u].rows
        /\ upload'[u].dir = upload[u].dir /\ upload'[u].made = upload[u].made
        /\ \A o \in Parts \ {req[r].part} : upload'[u].files[o] = upload[u].files[o]
    BY <1>1, <2>2, WriteFile
  <2>4. UNCHANGED <<bucket, buckets, row, inserts, blob, torn, arrived>>
    BY DEF PartFile
  <2> HIDE DEF u
  <2>5. TypeOK'
    BY <1>1, <2>1, <2>3, <2>4, OneUploadType DEF Went, TypeOK
  <2> QED BY <1>2, <2>1, <2>3, <2>4, <2>5 DEF Went, PartFile, u
<1>3. CASE ~upload[u].dir
  <2>1. Ended(r) /\ UNCHANGED <<upload, mishaps>>
    BY <1>1, <1>3, EndsDoes DEF PartFile
  <2>2. TypeOK'
    BY <2>1 DEF PartFile, TypeOK, Ended
  <2> QED BY <2>1, <2>2 DEF PartFile, Ended
<1> QED BY <1>2, <1>3

(* PartRest. *)
LEMMA PartRestDoes ==
    ASSUME TypeOK, NEW r \in Requests, RequestFits(r), PartRest(r)
    PROVE  LET u == req[r].up IN
           /\ TypeOK' /\ Went(r, "part_row") /\ Touches(r, {req[r].part}) /\ req[r].at = "part_rest"
           /\ OnlyUpload(u)
           /\ upload'[u].row = upload[u].row /\ upload'[u].rows = upload[u].rows
           /\ upload'[u].dir = upload[u].dir /\ upload'[u].made = upload[u].made
           /\ IF upload[u].dir THEN upload'[u].files[req[r].part] = req[r].data
                               ELSE upload'[u].files = upload[u].files
           /\ \A o \in Parts \ {req[r].part} : upload'[u].files[o] = upload[u].files[o]
           /\ UNCHANGED <<bucket, buckets, row, inserts, blob, torn>>
<1> DEFINE u == req[r].up
<1>1. u \in 1 .. Len(upload) /\ upload \in Seq(Upload) /\ req \in [Requests -> Request]
      /\ req[r].part \in Parts /\ req[r].data \in Data /\ upload[u].row \in {0, bucket}
  BY KnowsUpload DEF PartRest, TypeOK, RequestFits
<1>2. Went(r, "part_row") /\ Touches(r, {req[r].part}) /\ mishaps' \subseteq Mishaps
  BY <1>1, GotoDoes, MishapsDo DEF PartRest, Places, TypeOK
<1>3. UNCHANGED <<bucket, buckets, row, inserts, blob, torn, arrived>> /\ req[r].at = "part_rest"
  BY DEF PartRest
<1>4. CASE upload[u].dir
  <2>2. upload' = [upload EXCEPT ![u].files[req[r].part] = req[r].data]
    BY <1>4 DEF PartRest
  <2>3. /\ OnlyUpload(u) /\ upload'[u].row = upload[u].row /\ upload'[u].rows = upload[u].rows
        /\ upload'[u].dir = upload[u].dir /\ upload'[u].made = upload[u].made
        /\ upload'[u].files[req[r].part] = req[r].data
        /\ \A o \in Parts \ {req[r].part} : upload'[u].files[o] = upload[u].files[o]
    BY <1>1, <2>2, WriteFile
  <2> HIDE DEF u
  <2>5. TypeOK'
    BY <1>1, <1>2, <1>3, <2>3, OneUploadType DEF Went, TypeOK
  <2> QED BY <1>2, <1>3, <1>4, <2>3, <2>5 DEF u
<1>5. CASE ~upload[u].dir
  <2>1. upload' = upload
    BY <1>5 DEF PartRest
  <2>2. OnlyUpload(u)
    BY <2>1 DEF OnlyUpload, TypeOK
  <2>3. TypeOK'
    BY <1>2, <1>3, <2>1 DEF TypeOK, Went
  <2> QED BY <1>2, <1>3, <1>5, <2>1, <2>2, <2>3
<1> QED BY <1>4, <1>5

(* PartRow. *)
LEMMA PartRowDoes ==
    ASSUME TypeOK, NEW r \in Requests, RequestFits(r), PartRow(r)
    PROVE  LET u == req[r].up IN
           /\ TypeOK' /\ Ended(r) /\ Touches(r, {req[r].part}) /\ req[r].at = "part_row"
           /\ OnlyUpload(u)
           /\ upload'[u].row = upload[u].row /\ upload'[u].files = upload[u].files
           /\ upload'[u].dir = upload[u].dir /\ upload'[u].made = upload[u].made
           /\ IF upload[u].row = req[r].bucket THEN upload'[u].rows[req[r].part] = req[r].data
                                              ELSE upload'[u].rows = upload[u].rows
           /\ \A o \in Parts \ {req[r].part} : upload'[u].rows[o] = upload[u].rows[o]
           /\ UNCHANGED <<bucket, buckets, row, inserts, blob, torn>>
<1> DEFINE u == req[r].up
<1>1. u \in 1 .. Len(upload) /\ upload \in Seq(Upload) /\ req \in [Requests -> Request]
      /\ req[r].part \in Parts /\ req[r].data \in Data /\ upload[u].row \in {0, bucket}
  BY KnowsUpload DEF PartRow, TypeOK, RequestFits
<1>2. Ended(r) /\ Touches(r, {req[r].part}) /\ mishaps' \subseteq Mishaps
  BY <1>1, EndsDoes, MishapsDo DEF PartRow, TypeOK
<1>3. UNCHANGED <<bucket, buckets, row, inserts, blob, torn, arrived>> /\ req[r].at = "part_row"
  BY DEF PartRow
<1>4. CASE upload[u].row = req[r].bucket
  <2>2. upload' = [upload EXCEPT ![u].rows[req[r].part] = req[r].data]
    BY <1>4 DEF PartRow
  <2>3. /\ OnlyUpload(u) /\ upload'[u].row = upload[u].row /\ upload'[u].files = upload[u].files
        /\ upload'[u].dir = upload[u].dir /\ upload'[u].made = upload[u].made
        /\ upload'[u].rows[req[r].part] = req[r].data
        /\ \A o \in Parts \ {req[r].part} : upload'[u].rows[o] = upload[u].rows[o]
    BY <1>1, <2>2, WriteRow
  <2> HIDE DEF u
  <2>5. TypeOK'
    BY <1>1, <1>2, <1>3, <2>3, OneUploadType DEF Ended, TypeOK
  <2> QED BY <1>2, <1>3, <1>4, <2>3, <2>5 DEF u
<1>5. CASE upload[u].row # req[r].bucket
  <2>1. upload' = upload
    BY <1>5 DEF PartRow
  <2>2. OnlyUpload(u)
    BY <2>1 DEF OnlyUpload, TypeOK
  <2>3. TypeOK'
    BY <1>2, <1>3, <2>1 DEF TypeOK, Ended
  <2> QED BY <1>2, <1>3, <1>5, <2>1, <2>2, <2>3
<1> QED BY <1>4, <1>5

(* The lists name parts. *)
LEMMA ListsNameParts ==
    ASSUME NEW list \in Lists
    PROVE  Len(list) \in Nat /\ \A i \in 1 .. Len(list) : list[i] \in Parts
<1>1. CASE list = <<>>
  BY <1>1
<1>2. CASE list = <<1>>
  BY <1>2 DEF Parts
<1>3. CASE list = <<2>>
  BY <1>3 DEF Parts
<1>4. CASE list = <<1, 2>>
  BY <1>4 DEF Parts
<1> QED BY <1>1, <1>2, <1>3, <1>4 DEF Lists

(* ReadPart. *)
LEMMA ReadPartDoes ==
    ASSUME TypeOK, NEW r \in Requests, RequestFits(r), ReadPart(r)
    PROVE  LET u == req[r].up
               p == req[r].list[req[r].part]
           IN
           /\ TypeOK' /\ Stays(r) /\ req[r].at = "read_parts" /\ Touches(r, {p}) /\ p \in Parts
           /\ \/ Ended(r)
              \/ /\ upload[u].dir /\ upload[u].files[p] # None
                 /\ req'[r].at = "read_parts" /\ req'[r].bucket = req[r].bucket
                 /\ req'[r].up = u /\ req'[r].list = req[r].list
                 /\ req'[r].part \in 1 .. Len(req[r].list) + 1
                 /\ req'[r].body = Append(req[r].body, upload[u].files[p])
           /\ UNCHANGED <<bucket, buckets, row, inserts, blob, upload, torn>>
<1> DEFINE u == req[r].up
           p == req[r].list[req[r].part]
           d == upload[u].files[p]
<1>1. req[r] \in Request /\ req \in [Requests -> Request] /\ upload[u] \in Upload
      /\ u \in Nat /\ req[r].list \in Lists /\ req[r].body \in Seq(Data \cup {Torn})
  BY KnowsUpload DEF ReadPart, TypeOK, Request
<1>2. /\ req[r].part \in 1 .. Len(req[r].list) /\ Len(req[r].list) \in Nat
      /\ \A i \in 1 .. Len(req[r].list) : req[r].list[i] \in Parts
  BY <1>1, ListsNameParts DEF ReadPart, RequestFits
<1>3. p \in Parts /\ req[r].part + 1 \in Nat /\ req[r].part + 1 \in 1 .. Len(req[r].list) + 1
  BY <1>2
<1>4. Touches(r, {p}) /\ mishaps' \subseteq Mishaps /\ req[r].at = "read_parts"
      /\ UNCHANGED <<bucket, buckets, row, inserts, blob, upload, torn, arrived>>
  BY MishapsDo DEF ReadPart, TypeOK
<1>5. CASE upload[u].dir /\ d # None
  <2> DEFINE n == req[r].part + 1
             b == Append(req[r].body, d)
             c == [req[r] EXCEPT !.part = n, !.body = b]
  <2>1. d \in Data \cup {Torn}
    <3>1. upload[u].files \in [Parts -> Data \cup {None, Torn}]
      BY <1>1 DEF Upload
    <3> QED BY <1>3, <1>5, <3>1
  <2>2. req' = [req EXCEPT ![r] = c]
    BY <1>5 DEF ReadPart
  <2>3. b \in Seq(Data \cup {Torn})
    BY <1>1, <2>1
  <2>4. n \in Nat /\ n \in 1 .. Len(req[r].list) + 1
    BY <1>3
  <2> HIDE DEF n, b, d, p
  <2>5. /\ c \in Request /\ c.at = req[r].at /\ c.bucket = req[r].bucket /\ c.up = u
        /\ c.list = req[r].list /\ c.part = n /\ c.body = b
    BY <1>1, <2>3, <2>4 DEF Request
  <2> HIDE DEF c
  <2>6. req' \in [Requests -> Request] /\ Stays(r) /\ req'[r] = c
    BY <1>1, <2>2, <2>5 DEF Stays
  <2>7. TypeOK'
    BY <1>4, <2>6 DEF TypeOK
  <2> QED BY <1>3, <1>4, <1>5, <2>4, <2>5, <2>6, <2>7 DEF n, b, d, p
<1>6. CASE ~(upload[u].dir /\ d # None)
  <2>1. Ended(r)
    BY <1>1, <1>6, EndsDoes DEF ReadPart
  <2>2. TypeOK'
    BY <1>4, <2>1 DEF TypeOK, Ended
  <2> QED BY <1>3, <1>4, <2>1, <2>2 DEF Ended
<1> QED BY <1>5, <1>6

(* BlobComplete. *)
LEMMA BlobCompleteDoes ==
    ASSUME TypeOK, NEW r \in Requests, RequestFits(r), BlobComplete(r)
    PROVE  LET u == req[r].up IN
           /\ TypeOK' /\ Stays(r) /\ req[r].at = "read_parts"
           /\ blob' = req[r].body /\ Writes(r) /\ Went(r, "remove_dir")
           /\ OnlyUpload(u) /\ upload'[u].made = upload[u].made + 1
           /\ upload'[u].row = upload[u].row /\ upload'[u].rows = upload[u].rows
           /\ upload'[u].dir = upload[u].dir /\ upload'[u].files = upload[u].files
           /\ UNCHANGED <<bucket, buckets, row, inserts, torn>>
<1> DEFINE u == req[r].up
<1>1. req[r] \in Request /\ req \in [Requests -> Request] /\ upload[u] \in Upload
      /\ u \in 1 .. Len(upload) /\ upload[u].row \in {0, bucket} /\ upload \in Seq(Upload)
      /\ req[r].list \in Lists
  BY KnowsUpload DEF BlobComplete, TypeOK, Request
<1>2. req[r].at = "read_parts" /\ UNCHANGED <<bucket, buckets, row, inserts, torn, arrived>>
  BY DEF BlobComplete
<1> DEFINE m == upload[u].made + 1
           n == [upload[u] EXCEPT !.made = m]
<1>3. Writes(r) /\ Went(r, "remove_dir") /\ mishaps' \subseteq Mishaps /\ blob' = req[r].body
  BY <1>1, GotoDoes, MishapsDo DEF BlobComplete, Places, TypeOK
<1>4. upload' = [upload EXCEPT ![u] = n]
  BY DEF BlobComplete
<1>made. m \in Nat
  BY <1>1 DEF Upload
<1> HIDE DEF m
<1>5. /\ n \in Upload /\ n.made = m /\ n.row = upload[u].row
      /\ n.rows = upload[u].rows /\ n.dir = upload[u].dir /\ n.files = upload[u].files
  BY <1>1, <1>made DEF Upload
<1> HIDE DEF n
<1>6. OnlyUpload(u) /\ upload'[u] = n
  BY <1>1, <1>4, <1>5, OneUpload
<1>7. blob' \in Contents
  BY <1>1, <1>3 DEF Request, Contents
<1>8. TypeOK'
  <2> HIDE DEF u
  <2> QED BY <1>1, <1>2, <1>3, <1>5, <1>6, <1>7, OneUploadType DEF Went
<1> QED BY <1>2, <1>3, <1>5, <1>6, <1>8 DEF Went, m

(* NoFiles. *)
LEMMA NoFilesDoes ==
    ASSUME upload \in Seq(Upload), NEW u \in 1 .. Len(upload), upload' = NoFiles(u)
    PROVE  /\ OnlyUpload(u) /\ upload'[u].row = upload[u].row /\ upload'[u].rows = upload[u].rows
           /\ upload'[u].dir = FALSE /\ upload'[u].files = NewUpload.files
           /\ upload'[u].made = upload[u].made
<1> DEFINE n == [upload[u] EXCEPT !.dir = FALSE, !.files = NewUpload.files]
<1>0. upload[u] \in Upload
  OBVIOUS
<1>1. NewUpload.files \in [Parts -> Data \cup {None, Torn}]
  BY NewUploadFits DEF Upload
<1>2. /\ n \in Upload /\ n.row = upload[u].row /\ n.rows = upload[u].rows
      /\ n.dir = FALSE /\ n.files = NewUpload.files /\ n.made = upload[u].made
  BY <1>0, <1>1 DEF Upload
<1>3. upload' = [upload EXCEPT ![u] = n]
  BY DEF NoFiles
<1> HIDE DEF n
<1>4. OnlyUpload(u) /\ upload'[u] = n
  BY <1>2, <1>3, OneUpload
<1> QED BY <1>2, <1>4

(* RemoveDir. *)
LEMMA RemoveDirDoes ==
    ASSUME TypeOK, NEW r \in Requests, RequestFits(r), RemoveDir(r)
    PROVE  LET u == req[r].up IN
           /\ TypeOK' /\ Stays(r) /\ req[r].at = "remove_dir" /\ Removes(r)
           /\ IF upload[u].dir THEN Went(r, "list_parts") ELSE Ended(r)
           /\ OnlyUpload(u) /\ upload'[u].row = upload[u].row /\ upload'[u].rows = upload[u].rows
           /\ upload'[u].dir = FALSE /\ upload'[u].files = NewUpload.files
           /\ upload'[u].made = upload[u].made
           /\ UNCHANGED <<bucket, buckets, row, inserts, blob, torn>>
<1> DEFINE u == req[r].up
<1>1. u \in 1 .. Len(upload) /\ upload \in Seq(Upload) /\ req \in [Requests -> Request]
      /\ upload[u].row \in {0, bucket}
  BY KnowsUpload DEF RemoveDir, TypeOK
<1>2. /\ req[r].at = "remove_dir" /\ Removes(r) /\ mishaps' \subseteq Mishaps
      /\ UNCHANGED <<bucket, buckets, row, inserts, blob, torn, arrived>>
  BY MishapsDo DEF RemoveDir, TypeOK
<1>3. IF upload[u].dir THEN Went(r, "list_parts") ELSE Ended(r)
  BY <1>1, EndsDoes, GotoDoes DEF RemoveDir, Places
<1>4. Stays(r) /\ req' \in [Requests -> Request]
  BY <1>3 DEF Ended, Went
<1>5. upload' = NoFiles(u)
  BY DEF RemoveDir
<1> HIDE DEF u
<1>6. /\ OnlyUpload(u) /\ upload'[u].row = upload[u].row /\ upload'[u].rows = upload[u].rows
      /\ upload'[u].dir = FALSE /\ upload'[u].files = NewUpload.files
      /\ upload'[u].made = upload[u].made
  BY <1>1, <1>5, NoFilesDoes
<1>7. TypeOK'
  BY <1>1, <1>2, <1>4, <1>6, OneUploadType DEF TypeOK
<1> QED BY <1>2, <1>3, <1>4, <1>6, <1>7 DEF u

(* ListParts. *)
LEMMA ListPartsDoes ==
    ASSUME TypeOK, NEW r \in Requests, RequestFits(r), ListParts(r)
    PROVE  /\ TypeOK' /\ Stays(r) /\ req[r].at = "list_parts"
           /\ \/ Ended(r) /\ upload[req[r].up].row # req[r].bucket
              \/ /\ req'[r].at = "upsert" /\ req'[r].bucket = req[r].bucket
                 /\ req'[r].body = req[r].body /\ req'[r].up = req[r].up
           /\ UNCHANGED <<bucket, buckets, row, inserts, blob, upload, torn, mishaps>>
<1> DEFINE u == req[r].up
           l == Cardinality({p \in Parts : upload[u].rows[p] # None})
<1>1. req[r] \in Request /\ req \in [Requests -> Request]
  BY DEF TypeOK
<1>2. l \in Nat
  <2>0. 1 \in Int /\ 2 \in Int
    OBVIOUS
  <2>1. IsFiniteSet(1 .. 2)
    BY <2>0, FS_Interval, Zenon
  <2>2. IsFiniteSet({p \in Parts : upload[u].rows[p] # None})
    BY <2>1, FS_Subset DEF Parts
  <2> QED BY <2>2, FS_CardinalityType
<1>3. CASE upload[u].row = req[r].bucket
  <2> DEFINE c == [req[r] EXCEPT !.at = "upsert", !.length = l]
  <2>1. req' = [req EXCEPT ![r] = c]
    BY <1>3 DEF ListParts
  <2> HIDE DEF l
  <2>2. c \in Request /\ c.at = "upsert" /\ c.bucket = req[r].bucket /\ c.body = req[r].body /\ c.up = u
    BY <1>1, <1>2 DEF Request, Places
  <2> HIDE DEF c
  <2>3. req' \in [Requests -> Request] /\ Stays(r) /\ req'[r] = c
    BY <1>1, <2>1, <2>2 DEF Stays
  <2>4. TypeOK'
    BY <2>3 DEF ListParts, TypeOK
  <2> QED BY <2>2, <2>3, <2>4 DEF ListParts
<1>4. CASE upload[u].row # req[r].bucket
  <2>1. Ended(r)
    BY <1>1, <1>4, EndsDoes DEF ListParts
  <2>2. TypeOK'
    BY <2>1 DEF ListParts, TypeOK, Ended
  <2> QED BY <1>4, <2>1, <2>2 DEF ListParts, Ended
<1> QED BY <1>3, <1>4

(* AbortDir. *)
LEMMA AbortDirDoes ==
    ASSUME TypeOK, NEW r \in Requests, RequestFits(r), AbortDir(r)
    PROVE  LET u == req[r].up IN
           /\ TypeOK' /\ Went(r, "delete_parts") /\ req[r].at = "abort_dir" /\ Removes(r)
           /\ OnlyUpload(u) /\ upload'[u].row = upload[u].row /\ upload'[u].rows = upload[u].rows
           /\ upload'[u].dir = FALSE /\ upload'[u].files = NewUpload.files
           /\ upload'[u].made = upload[u].made
           /\ UNCHANGED <<bucket, buckets, row, inserts, blob, torn>>
<1> DEFINE u == req[r].up
<1>1. u \in 1 .. Len(upload) /\ upload \in Seq(Upload) /\ req \in [Requests -> Request]
      /\ upload[u].row \in {0, bucket}
  BY KnowsUpload DEF AbortDir, TypeOK
<1>2. /\ req[r].at = "abort_dir" /\ Removes(r) /\ mishaps' \subseteq Mishaps
      /\ Went(r, "delete_parts")
      /\ UNCHANGED <<bucket, buckets, row, inserts, blob, torn, arrived>>
  BY <1>1, MishapsDo, GotoDoes DEF AbortDir, TypeOK, Places
<1>3. upload' = NoFiles(u)
  BY DEF AbortDir
<1> HIDE DEF u
<1>4. /\ OnlyUpload(u) /\ upload'[u].row = upload[u].row /\ upload'[u].rows = upload[u].rows
      /\ upload'[u].dir = FALSE /\ upload'[u].files = NewUpload.files
      /\ upload'[u].made = upload[u].made
  BY <1>1, <1>3, NoFilesDoes
<1>5. TypeOK'
  BY <1>1, <1>2, <1>4, OneUploadType DEF TypeOK, Went
<1> QED BY <1>2, <1>4, <1>5 DEF u

(* DeleteParts. *)
LEMMA DeletePartsDoes ==
    ASSUME TypeOK, NEW r \in Requests, RequestFits(r), DeleteParts(r)
    PROVE  LET u == req[r].up IN
           /\ TypeOK' /\ Went(r, "delete_upload") /\ req[r].at = "delete_parts" /\ Removes(r)
           /\ OnlyUpload(u) /\ upload'[u].row = upload[u].row /\ upload'[u].rows = NewUpload.rows
           /\ upload'[u].dir = upload[u].dir /\ upload'[u].files = upload[u].files
           /\ upload'[u].made = upload[u].made
           /\ UNCHANGED <<bucket, buckets, row, inserts, blob, torn>>
<1> DEFINE u == req[r].up
           n == [upload[u] EXCEPT !.rows = NewUpload.rows]
<1>1. u \in 1 .. Len(upload) /\ upload \in Seq(Upload) /\ req \in [Requests -> Request]
      /\ upload[u].row \in {0, bucket} /\ upload[u] \in Upload
  BY KnowsUpload DEF DeleteParts, TypeOK
<1>2. /\ req[r].at = "delete_parts" /\ Removes(r) /\ mishaps' \subseteq Mishaps
      /\ Went(r, "delete_upload")
      /\ UNCHANGED <<bucket, buckets, row, inserts, blob, torn, arrived>>
  BY <1>1, MishapsDo, GotoDoes DEF DeleteParts, TypeOK, Places
<1>3. upload' = [upload EXCEPT ![u] = n]
  BY DEF DeleteParts
<1>4. NewUpload.rows \in [Parts -> Data \cup {None}]
  BY NewUploadFits DEF Upload
<1>5. /\ n \in Upload /\ n.row = upload[u].row /\ n.rows = NewUpload.rows
      /\ n.dir = upload[u].dir /\ n.files = upload[u].files /\ n.made = upload[u].made
  BY <1>1, <1>4 DEF Upload
<1> HIDE DEF u, n
<1>6. OnlyUpload(u) /\ upload'[u] = n
  BY <1>1, <1>3, <1>5, OneUpload
<1>7. TypeOK'
  BY <1>1, <1>2, <1>5, <1>6, OneUploadType DEF TypeOK, Went
<1> QED BY <1>2, <1>5, <1>6, <1>7 DEF u

(* DeleteUpload. *)
LEMMA DeleteUploadDoes ==
    ASSUME TypeOK, NEW r \in Requests, RequestFits(r), DeleteUpload(r)
    PROVE  LET u == req[r].up IN
           /\ TypeOK' /\ Ended(r) /\ req[r].at = "delete_upload" /\ Removes(r)
           /\ OnlyUpload(u)
           /\ \/ upload'[u] = upload[u]
              \/ upload'[u].row = 0 /\ upload'[u].rows = NewUpload.rows
           /\ upload'[u].dir = upload[u].dir /\ upload'[u].files = upload[u].files
           /\ upload'[u].made = upload[u].made
           /\ UNCHANGED <<bucket, buckets, row, inserts, blob, torn>>
<1> DEFINE u == req[r].up
           n == [upload[u] EXCEPT !.row = 0, !.rows = NewUpload.rows]
<1>1. u \in 1 .. Len(upload) /\ upload \in Seq(Upload) /\ req \in [Requests -> Request]
      /\ upload[u].row \in {0, bucket} /\ upload[u] \in Upload
  BY KnowsUpload DEF DeleteUpload, TypeOK
<1>2. /\ req[r].at = "delete_upload" /\ Removes(r) /\ mishaps' \subseteq Mishaps
      /\ Ended(r)
      /\ UNCHANGED <<bucket, buckets, row, inserts, blob, torn, arrived>>
  BY <1>1, MishapsDo, EndsDoes DEF DeleteUpload, TypeOK
<1>3. CASE upload[u].row = req[r].bucket
  <2>1. upload' = [upload EXCEPT ![u] = n]
    BY <1>3 DEF DeleteUpload
  <2>2. NewUpload.rows \in [Parts -> Data \cup {None}]
    BY NewUploadFits DEF Upload
  <2>3. /\ n \in Upload /\ n.row = 0 /\ n.rows = NewUpload.rows
        /\ n.dir = upload[u].dir /\ n.files = upload[u].files /\ n.made = upload[u].made
    BY <1>1, <2>2 DEF Upload
  <2> HIDE DEF u, n
  <2>4. OnlyUpload(u) /\ upload'[u] = n
    BY <1>1, <2>1, <2>3, OneUpload
  <2>5. TypeOK'
    BY <1>1, <1>2, <2>3, <2>4, OneUploadType DEF TypeOK, Ended
  <2> QED BY <1>2, <2>3, <2>4, <2>5 DEF u
<1>4. CASE upload[u].row # req[r].bucket
  <2>1. upload' = upload
    BY <1>4 DEF DeleteUpload
  <2>2. OnlyUpload(u)
    BY <2>1 DEF OnlyUpload, TypeOK
  <2>3. TypeOK'
    BY <1>2, <2>1 DEF TypeOK, Ended
  <2> QED BY <1>2, <2>1, <2>2, <2>3
<1> QED BY <1>3, <1>4

(* A sequence over a set is one over a larger set. *)
LEMMA Widen ==
    ASSUME NEW S, NEW T, S \subseteq T, NEW s \in Seq(S)
    PROVE  s \in Seq(T)
  OBVIOUS

(* Where a request that arrives is: it knows the bucket, its upload has its  *)
(* row unless it is an abort, and its body is whole.                        *)
Arrived(c) ==
    /\ c.bucket = bucket
    /\ c.at \in {"delete_bucket", "find_object", "blob_get", "make_dir", "blob_put",
                 "part_file", "read_parts", "abort_dir"}
    /\ c.body \in Seq(Data)
    /\ c.at \in {"part_file", "read_parts"} =>
          c.up \in DOMAIN upload /\ upload[c.up].row = bucket
    /\ c.at = "abort_dir" => c.up \in DOMAIN upload
    /\ c.at \notin {"part_file", "read_parts", "abort_dir"} => c.up = 0
    /\ c.at = "part_file" => c.part \in Parts /\ c.data \in Data
    /\ c.at = "read_parts" => c.part = 1 /\ c.list \in Lists /\ upload[c.up].dir

(* Arrive. *)
LEMMA ArriveDoes ==
    ASSUME TypeOK, NEW r \in Requests, Arrive(r)
    PROVE  /\ TypeOK' /\ Stays(r) /\ req[r].at = "idle" /\ bucket # 0 /\ Arrived(req'[r])
           /\ UNCHANGED <<bucket, buckets, row, inserts, blob, upload, torn, mishaps>>
<1>0. bucket \in Nat /\ req \in [Requests -> Request] /\ DOMAIN upload \subseteq Nat
      /\ <<>> \in Seq(Data) /\ <<>> \in Seq(Data \cup {Torn}) /\ <<>> \in Lists /\ Bodies \subseteq Seq(Data)
  BY StorageConstants DEF TypeOK, Lists
<1>begin. ASSUME NEW c \in Request, Begin(r, c), Arrived(c)
          PROVE  /\ TypeOK' /\ Stays(r) /\ req[r].at = "idle" /\ bucket # 0 /\ Arrived(req'[r])
                 /\ UNCHANGED <<bucket, buckets, row, inserts, blob, upload, torn, mishaps>>
  <2>1. req' \in [Requests -> Request] /\ Stays(r) /\ req'[r] = c /\ arrived' \in 0 .. MaxArrivals
    BY <1>0, <1>begin, StorageConstants DEF Begin, Arrival, Stays, TypeOK
  <2>2. UNCHANGED <<bucket, buckets, row, inserts, blob, upload, torn, mishaps>>
    BY DEF Arrive
  <2>3. TypeOK'
    BY <2>1, <2>2 DEF TypeOK
  <2> QED BY <1>begin, <2>1, <2>2, <2>3 DEF Begin
<1>1. ASSUME NEW at \in {"delete_bucket", "find_object", "blob_get", "make_dir"}
      PROVE  \E c \in Request : c = At(at) /\ Arrived(c)
  <2> DEFINE c == At(at)
  <2>2. c \in Request
    BY <1>0 DEF At, Idle, Request, Places
  <2>3. /\ c.at = at /\ c.bucket = bucket /\ c.body = <<>> /\ c.up = 0
        /\ c.part = 0 /\ c.data = None /\ c.list = <<>>
    BY DEF At, Idle
  <2> HIDE DEF c
  <2>4. Arrived(c)
    BY <1>0, <1>1, <2>3 DEF Arrived
  <2> QED BY <2>2, <2>4 DEF c
<1>2. ASSUME NEW body \in Bodies
      PROVE  \E c \in Request : c = [At("blob_put") EXCEPT !.body = body] /\ Arrived(c)
  <2> DEFINE c == [At("blob_put") EXCEPT !.body = body]
  <2>1. body \in Seq(Data) /\ body \in Seq(Data \cup {Torn})
    BY <1>0, Widen, Zenon
  <2>2. c \in Request
    BY <1>0, <2>1 DEF At, Idle, Request, Places
  <2>3. /\ c.at = "blob_put" /\ c.bucket = bucket /\ c.body = body /\ c.up = 0
        /\ c.part = 0 /\ c.data = None /\ c.list = <<>>
    BY DEF At, Idle
  <2> HIDE DEF c
  <2>4. Arrived(c)
    BY <1>0, <1>2, <2>3, <2>1 DEF Arrived
  <2> QED BY <2>2, <2>4 DEF c
<1> DEFINE PartPut(u, p, d) == [At("part_file") EXCEPT !.up = u, !.part = p, !.data = d]
<1>3. ASSUME NEW u \in DOMAIN upload, upload[u].row = bucket, NEW p \in Parts, NEW d \in Data
      PROVE  PartPut(u, p, d) \in Request /\ Arrived(PartPut(u, p, d))
  <2> DEFINE c == PartPut(u, p, d)
  <2>1. u \in Nat /\ p \in Nat
    <3>1. u \in Nat
      BY <1>0, Zenon
    <3>2. p \in Nat
      BY DEF Parts
    <3> QED BY <3>1, <3>2
  <2>2. c \in Request
    BY <1>0, <2>1 DEF At, Idle, Request, Places
  <2>3. /\ c.at = "part_file" /\ c.bucket = bucket /\ c.body = <<>> /\ c.up = u
        /\ c.part = p /\ c.data = d /\ c.list = <<>>
    BY DEF At, Idle
  <2> HIDE DEF c
  <2>4. Arrived(c)
    BY <1>0, <1>3, <2>3, <2>1 DEF Arrived
  <2> QED BY <2>2, <2>4 DEF c
<1>4. ASSUME NEW u \in DOMAIN upload, upload[u].row = bucket, upload[u].dir, NEW list \in Lists
      PROVE  \E c \in Request : c = [At("read_parts") EXCEPT !.up = u, !.part = 1, !.list = list] /\ Arrived(c)
  <2> DEFINE c == [At("read_parts") EXCEPT !.up = u, !.part = 1, !.list = list]
  <2>1. u \in Nat
    BY <1>0, Zenon
  <2>2. c \in Request
    BY <1>0, <2>1 DEF At, Idle, Request, Places
  <2>3. /\ c.at = "read_parts" /\ c.bucket = bucket /\ c.body = <<>> /\ c.up = u
        /\ c.part = 1 /\ c.data = None /\ c.list = list
    BY DEF At, Idle
  <2> HIDE DEF c
  <2>4. Arrived(c)
    BY <1>0, <1>4, <2>3, <2>1 DEF Arrived
  <2> QED BY <2>2, <2>4 DEF c
<1>5. ASSUME NEW u \in DOMAIN upload
      PROVE  \E c \in Request : c = [At("abort_dir") EXCEPT !.up = u] /\ Arrived(c)
  <2> DEFINE c == [At("abort_dir") EXCEPT !.up = u]
  <2>1. u \in Nat
    BY <1>0, Zenon
  <2>2. c \in Request
    BY <1>0, <2>1 DEF At, Idle, Request, Places
  <2>3. /\ c.at = "abort_dir" /\ c.bucket = bucket /\ c.body = <<>> /\ c.up = u
        /\ c.part = 0 /\ c.data = None /\ c.list = <<>>
    BY DEF At, Idle
  <2> HIDE DEF c
  <2>4. Arrived(c)
    BY <1>0, <1>5, <2>3, <2>1 DEF Arrived
  <2> QED BY <2>2, <2>4 DEF c
<1>6. PICK c \in Request : Begin(r, c) /\ Arrived(c)
  <2>1. CASE \E at \in {"delete_bucket", "find_object", "blob_get", "make_dir"} : Begin(r, At(at))
    BY <1>1, <2>1, Zenon
  <2>2. CASE \E body \in Bodies : Begin(r, [At("blob_put") EXCEPT !.body = body])
    BY <1>2, <2>2, Zenon
  <2>3. ASSUME NEW u \in DOMAIN upload, upload[u].row = bucket,
               \E p \in Parts, d \in Data :
                  Begin(r, [At("part_file") EXCEPT !.up = u, !.part = p, !.data = d])
        PROVE  \E c \in Request : Begin(r, c) /\ Arrived(c)
    <3>1. PICK p \in Parts, d \in Data : Begin(r, PartPut(u, p, d))
      BY <2>3
    <3> HIDE DEF PartPut
    <3>2. PartPut(u, p, d) \in Request /\ Arrived(PartPut(u, p, d))
      BY <1>3, <2>3
    <3> QED BY <3>1, <3>2
  <2>4. ASSUME NEW u \in DOMAIN upload, upload[u].row = bucket,
               \E list \in Lists :
                  upload[u].dir /\ Begin(r, [At("read_parts") EXCEPT !.up = u, !.part = 1, !.list = list])
        PROVE  \E c \in Request : Begin(r, c) /\ Arrived(c)
    BY <1>4, <2>4, Zenon
  <2>5. ASSUME NEW u \in DOMAIN upload, Begin(r, [At("abort_dir") EXCEPT !.up = u])
        PROVE  \E c \in Request : Begin(r, c) /\ Arrived(c)
    BY <1>5, <2>5, Zenon
  <2> QED BY <2>1, <2>2, <2>3, <2>4, <2>5, Zenon DEF Arrive
<1> QED BY <1>begin, <1>6

-----------------------------------------------------------------------------
(* What a step leaves to the others.                                        *)

(* What a step of r does to what it shares: the object's file, its row and  *)
(* the bucket are changed only by what Writes records; the row, directory   *)
(* and files of an upload only by r's own upload, but for the bucket's end.  *)
Frame(r) ==
    /\ TypeOK' /\ Stays(r) /\ mishaps \subseteq mishaps' /\ buckets' = buckets
    /\ Len(upload) \in Nat /\ Len(upload') \in Nat /\ Len(upload) <= Len(upload')
    /\ bucket' = bucket \/ bucket' = 0
    /\ (blob' = blob /\ row' = row /\ bucket' = bucket) \/ Writes(r)
    /\ \A u \in 1 .. Len(upload) :
          /\ \/ upload'[u].row = upload[u].row
             \/ req[r].at = "insert_upload" /\ u = req[r].up /\ upload'[u].row = bucket
             \/ upload'[u].row = 0 /\ (bucket' = 0 \/ (Removes(r) /\ u = req[r].up))
          /\ upload'[u].dir = upload[u].dir \/ (~upload'[u].dir /\ Removes(r) /\ u = req[r].up)
          /\ upload'[u].made = upload[u].made \/ BlobComplete(r)
          /\ \A p \in Parts :
                \/ upload'[u].files[p] = upload[u].files[p]
                \/ u = req[r].up /\ (Touches(r, {p}) \/ Removes(r))
    /\ \A u \in 1 .. Len(upload') : u \notin 1 .. Len(upload) => upload'[u] = NewUpload

(* Every step of a request keeps its frame. *)
LEMMA StepFrame ==
    ASSUME TypeOK, NEW r \in Requests, RequestFits(r), ReaderFits(r), RequestStep(r)
    PROVE  Frame(r)
<1>0. upload \in Seq(Upload) /\ Len(upload) \in Nat /\ DOMAIN upload = 1 .. Len(upload)
      /\ mishaps \subseteq Mishaps
  BY DEF TypeOK
\* most steps leave the uploads alone
<1>same. ASSUME TypeOK', Stays(r), mishaps \subseteq mishaps', upload' = upload, buckets' = buckets,
                bucket' = bucket, (blob' = blob /\ row' = row) \/ Writes(r)
         PROVE  Frame(r)
  BY <1>0, <1>same DEF Frame
\* or change one
<1>one. ASSUME TypeOK', Stays(r), mishaps \subseteq mishaps', OnlyUpload(req[r].up), buckets' = buckets,
               bucket' = bucket, (blob' = blob /\ row' = row) \/ Writes(r),
               \A u \in 1 .. Len(upload) : u = req[r].up =>
                  /\ \/ upload'[u].row = upload[u].row
                     \/ req[r].at = "insert_upload" /\ upload'[u].row = bucket
                     \/ upload'[u].row = 0 /\ Removes(r)
                  /\ upload'[u].dir = upload[u].dir \/ (~upload'[u].dir /\ Removes(r))
                  /\ upload'[u].made = upload[u].made \/ BlobComplete(r)
                  /\ \A p \in Parts :
                        upload'[u].files[p] = upload[u].files[p] \/ Touches(r, {p}) \/ Removes(r)
        PROVE  Frame(r)
  BY <1>0, <1>one DEF Frame, OnlyUpload
<1>1. CASE Arrive(r)
  BY <1>1, <1>same, ArriveDoes
<1>2. CASE Drop(r)
  <2>1. TypeOK'
    BY <1>2, DropDoes DEF TypeOK, Ended
  <2> QED BY <1>2, <1>same, <2>1, DropDoes DEF Ended
<1>3. CASE DeleteBucket(r)
  <2>1. mishaps \subseteq mishaps' /\ TypeOK' /\ Ended(r) /\ Writes(r)
    BY <1>3, DeleteBucketDoes, MishapsDo
  <2> QED BY <1>0, <1>3, <2>1, DeleteBucketDoes DEF Frame, Ended
<1>4. CASE BlobPut(r)
  BY <1>0, <1>4, <1>same, BlobPutDoes, MishapsDo DEF Ended, Went
<1>5. CASE Upsert(r)
  BY <1>0, <1>5, <1>same, UpsertDoes, MishapsDo DEF Ended, Went
<1>6. CASE FindObject(r)
  BY <1>0, <1>6, <1>same, FindObjectDoes, MishapsDo DEF Ended, Went
<1>7. CASE BlobDelete(r)
  BY <1>0, <1>7, <1>same, BlobDeleteDoes, MishapsDo DEF Ended, Went
<1>8. CASE DeleteRow(r)
  BY <1>0, <1>8, <1>same, DeleteRowDoes, MishapsDo DEF Ended, Went
<1>9. CASE BlobGet(r)
  BY <1>0, <1>9, <1>same, BlobGetDoes, MishapsDo DEF Ended, Went
<1>10. CASE RangedGet(r)
  BY <1>0, <1>10, <1>same, RangedGetDoes, MishapsDo DEF Ended, Went
<1>11. CASE ReadPart(r)
  BY <1>0, <1>11, <1>same, ReadPartDoes, MishapsDo DEF Ended, Went
<1>12. CASE ListParts(r)
  BY <1>0, <1>12, <1>same, ListPartsDoes, MishapsDo DEF Ended, Went
<1>13. CASE MakeDir(r)
  BY <1>0, <1>13, MakeDirDoes DEF Frame
<1>14. CASE InsertUpload(r)
  BY <1>0, <1>14, <1>one, InsertUploadDoes, MishapsDo DEF Ended, Went
<1>15. CASE PartFile(r)
  <2>1. CASE Ended(r) /\ UNCHANGED <<upload, mishaps>>
    BY <1>15, <1>same, <2>1, PartFileDoes
  <2>2. CASE ~(Ended(r) /\ UNCHANGED <<upload, mishaps>>)
    <3>1. Touches(r, {req[r].part}) /\ mishaps \subseteq mishaps'
      BY <1>15, <2>2, PartFileDoes, MishapsDo
    <3>2. \A p \in Parts : \/ upload'[req[r].up].files[p] = upload[req[r].up].files[p]
                           \/ Touches(r, {p})
      BY <1>15, <2>2, <3>1, PartFileDoes
    <3> QED BY <1>15, <1>one, <2>2, <3>1, <3>2, PartFileDoes
  <2> QED BY <2>1, <2>2
<1>16. CASE PartRest(r)
  <2>1. Touches(r, {req[r].part}) /\ mishaps \subseteq mishaps' /\ Stays(r)
    BY <1>16, PartRestDoes, MishapsDo DEF Went
  <2>2. \A p \in Parts : \/ upload'[req[r].up].files[p] = upload[req[r].up].files[p]
                         \/ Touches(r, {p})
    BY <1>16, <2>1, PartRestDoes
  <2> QED BY <1>16, <1>one, <2>1, <2>2, PartRestDoes
<1>17. CASE PartRow(r)
  <2>1. mishaps \subseteq mishaps' /\ Stays(r)
    BY <1>17, PartRowDoes, MishapsDo DEF Ended
  <2>2. upload'[req[r].up].files = upload[req[r].up].files
    BY <1>17, PartRowDoes
  <2> QED BY <1>17, <1>one, <2>1, <2>2, PartRowDoes
<1>18. CASE BlobComplete(r)
  BY <1>0, <1>18, <1>one, <1>same, BlobCompleteDoes, MishapsDo DEF Ended, Went
<1>19. CASE RemoveDir(r)
  BY <1>0, <1>19, <1>one, RemoveDirDoes, MishapsDo DEF Ended, Went
<1>20. CASE AbortDir(r)
  <2>1. Removes(r) /\ Stays(r) /\ mishaps \subseteq mishaps'
    BY <1>20, AbortDirDoes, MishapsDo DEF Went
  <2> QED BY <1>20, <1>one, <2>1, AbortDirDoes
<1>21. CASE DeleteParts(r)
  BY <1>0, <1>21, <1>one, DeletePartsDoes, MishapsDo DEF Ended, Went
<1>22. CASE DeleteUpload(r)
  BY <1>0, <1>22, <1>one, DeleteUploadDoes, MishapsDo DEF Ended, Went
<1> QED BY <1>1, <1>2, <1>3, <1>4, <1>5, <1>6, <1>7, <1>8, <1>9, <1>10, <1>11, <1>12, <1>13, <1>14, <1>15, <1>16, <1>17, <1>18, <1>19, <1>20, <1>21, <1>22 DEF RequestStep

(* What another request needs survives a step of r, or the mishap is        *)
(* recorded.                                                                *)
LEMMA OthersFit ==
    ASSUME StorageInv, NEW r \in Requests, Frame(r), NEW q \in Requests \ {r}
    PROVE  RequestFits(q)' /\ BucketFits(q)' /\ PartFits(q)' /\ WriterFits(q)' /\ ReaderFits(q)'
<1>0. /\ req'[q] = req[q] /\ mishaps \subseteq mishaps' /\ buckets' = buckets
      /\ Len(upload) \in Nat /\ Len(upload') \in Nat /\ Len(upload) <= Len(upload')
      /\ RequestFits(q) /\ BucketFits(q) /\ PartFits(q) /\ WriterFits(q) /\ ReaderFits(q)
      /\ InsertFits(r)
  BY DEF Frame, Stays, StorageInv
<1> DEFINE u == req[q].up
           p == req[q].part
<1>u. req[q].at \in {"part_file", "part_rest", "part_row", "read_parts", "remove_dir", "list_parts"}
         => u # 0
  BY <1>0 DEF RequestFits
<1>in. u # 0 => u \in 1 .. Len(upload)
  BY <1>0 DEF RequestFits
<1>part. req[q].at \in {"part_rest", "part_row"} => p \in Parts
  BY <1>0 DEF RequestFits
<1>frame. u \in 1 .. Len(upload) =>
          /\ \/ upload'[u].row = upload[u].row
             \/ req[r].at = "insert_upload" /\ u = req[r].up /\ upload'[u].row = bucket
             \/ upload'[u].row = 0 /\ (bucket' = 0 \/ (Removes(r) /\ u = req[r].up))
          /\ upload'[u].dir = upload[u].dir \/ (Removes(r) /\ u = req[r].up)
          /\ p \in Parts =>
                \/ upload'[u].files[p] = upload[u].files[p]
                \/ u = req[r].up /\ (Touches(r, {p}) \/ Removes(r))
  BY DEF Frame
<1>1. RequestFits(q)'
  BY <1>0 DEF RequestFits
<1>2. BucketFits(q)'
  BY <1>0, <1>in, <1>frame DEF BucketFits, InsertFits
<1>3. PartFits(q)'
  <2> SUFFICES ASSUME "part_race" \notin mishaps'
               PROVE  /\ req[q].at = "part_rest" => upload'[u].dir
                      /\ req[q].at = "part_row" => upload'[u].files[p] = req[q].data
    BY <1>0 DEF PartFits
  <2>1. ASSUME req[q].at \in {"part_rest", "part_row"}, u = req[r].up
        PROVE  ~Removes(r) /\ ~Touches(r, {p})
    BY <1>part, <2>1, MishapsDo
  <2> QED BY <1>0, <1>u, <1>in, <1>part, <1>frame, <2>1 DEF PartFits
<1>4. WriterFits(q)'
  <2> SUFFICES ASSUME "overlap" \notin mishaps'
               PROVE  /\ req[q].at \in {"upsert", "remove_dir", "list_parts"} =>
                            /\ blob' = req[q].body
                            /\ "stale_bucket" \in mishaps' \/ req[q].bucket = bucket'
                      /\ req[q].at \in {"blob_delete", "delete_row"} => row'.id = req[q].id
                      /\ req[q].at \in {"read_parts", "remove_dir"} => upload'[u].dir
                      /\ req[q].at \in {"read_parts", "remove_dir", "list_parts"} /\ req[q].bucket = bucket'
                            => upload'[u].row = bucket'
    BY <1>0 DEF WriterFits
  <2>0. "overlap" \notin mishaps
    BY <1>0
  <2>1. req[q].at \in ObjectPlaces => blob' = blob /\ row' = row /\ bucket' = bucket /\ ~Removes(r)
    BY MishapsDo DEF Frame
  <2>2. req[q].at = "read_parts" /\ u = req[r].up => ~Removes(r)
    BY MishapsDo
  <2>3. req[q].at \in {"read_parts", "remove_dir", "list_parts"} => req[q].bucket # 0
    BY <1>0 DEF RequestFits
  <2>4. bucket' = bucket \/ bucket' = 0
    BY DEF Frame
  <2> HIDE DEF u, p
  <2>5. req[q].at \in {"upsert", "remove_dir", "list_parts"} =>
           /\ blob' = req[q].body
           /\ "stale_bucket" \in mishaps' \/ req[q].bucket = bucket'
    BY <1>0, <2>0, <2>1 DEF WriterFits, ObjectPlaces
  <2>6. req[q].at \in {"blob_delete", "delete_row"} => row'.id = req[q].id
    BY <1>0, <2>0, <2>1 DEF WriterFits, ObjectPlaces
  <2>7. req[q].at \in {"read_parts", "remove_dir"} => upload'[u].dir
    BY <1>0, <1>u, <1>in, <1>frame, <2>0, <2>1, <2>2 DEF WriterFits, ObjectPlaces, u
  <2>8. req[q].at \in {"read_parts", "remove_dir", "list_parts"} /\ req[q].bucket = bucket'
           => upload'[u].row = bucket'
    BY <1>0, <1>u, <1>in, <1>frame, <2>0, <2>1, <2>2, <2>3, <2>4 DEF WriterFits, ObjectPlaces, u
  <2> QED BY <2>5, <2>6, <2>7, <2>8 DEF u
<1>5. ReaderFits(q)'
  <2>1. blob' = blob \/ "reread" \in mishaps' \/ req[q].at # "ranged_get"
    BY MishapsDo DEF Frame
  <2> QED BY <1>0, <2>1 DEF ReaderFits
<1> QED BY <1>1, <1>2, <1>3, <1>4, <1>5

(* A request that ended needs nothing. *)
LEMMA EndedFits ==
    ASSUME NEW r \in Requests, Ended(r), Len(upload') \in Nat
    PROVE  /\ RequestFits(r)' /\ InsertFits(r)' /\ BucketFits(r)' /\ PartFits(r)' /\ WriterFits(r)'
           /\ ReaderFits(r)'
<1>1. req'[r].at = "idle" /\ req'[r].up = 0
  BY IdleIsARequest DEF Ended
<1> QED BY <1>1 DEF RequestFits, InsertFits, BucketFits, PartFits, WriterFits, ReaderFits

(* A step of r leaves r what its next step needs. *)
LEMMA SelfFits ==
    ASSUME StorageInv, NEW r \in Requests, Frame(r), RequestStep(r)
    PROVE  RequestFits(r)' /\ BucketFits(r)' /\ PartFits(r)' /\ WriterFits(r)' /\ ReaderFits(r)'
<1>0. /\ TypeOK /\ RequestFits(r) /\ BucketFits(r) /\ PartFits(r) /\ WriterFits(r) /\ ReaderFits(r)
      /\ mishaps \subseteq mishaps' /\ buckets' = buckets
      /\ Len(upload) \in Nat /\ Len(upload') \in Nat /\ Len(upload) <= Len(upload')
  BY DEF Frame, StorageInv
<1> DEFINE Goal == RequestFits(r)' /\ BucketFits(r)' /\ PartFits(r)' /\ WriterFits(r)' /\ ReaderFits(r)'
<1>ended. Ended(r) => Goal
  BY <1>0, EndedFits
\* a place that needs only its bucket and its upload
<1>plain. ASSUME req'[r].at \in {"delete_parts", "delete_upload", "delete_row", "blob_delete", "insert_upload"},
                 req[r].at # "idle", req'[r].bucket = req[r].bucket, req'[r].up \in 0 .. Len(upload'),
                 req'[r].up = 0 <=> req'[r].at \in {"delete_row", "blob_delete"},
                 req'[r].at \in {"delete_row", "blob_delete"} =>
                    "overlap" \in mishaps' \/ row'.id = req'[r].id
          PROVE  Goal
  BY <1>0, <1>plain DEF RequestFits, BucketFits, PartFits, WriterFits, ReaderFits
<1>1. CASE Arrive(r)
  <2>1. Arrived(req'[r]) /\ upload' = upload /\ bucket' = bucket /\ bucket # 0 /\ TypeOK'
    BY <1>0, <1>1, ArriveDoes
  <2>2. bucket \in 1 .. buckets /\ DOMAIN upload = 1 .. Len(upload)
    BY <1>0, <2>1 DEF TypeOK
  <2>3. req'[r].at = "read_parts" => Len(req'[r].list) \in Nat
    BY <2>1, ListsNameParts DEF Arrived
  <2>4. RequestFits(r)'
    BY <1>0, <2>1, <2>2, <2>3 DEF Arrived, RequestFits
  <2>5. BucketFits(r)' /\ PartFits(r)' /\ WriterFits(r)' /\ ReaderFits(r)'
    BY <1>0, <2>1, <2>2 DEF Arrived, BucketFits, PartFits, WriterFits, ReaderFits
  <2> QED BY <2>4, <2>5
<1>2. CASE Drop(r)
  BY <1>0, <1>2, <1>ended, DropDoes
<1>3. CASE DeleteBucket(r)
  BY <1>0, <1>3, <1>ended, DeleteBucketDoes
<1>4. CASE BlobPut(r)
  <2>1. req[r].up = 0 /\ req[r].bucket \in 1 .. buckets
    BY <1>0, <1>4, BlobPutDoes DEF RequestFits
  <2>2. RequestFits(r)' /\ BucketFits(r)' /\ PartFits(r)' /\ ReaderFits(r)'
    BY <1>0, <1>4, <2>1, BlobPutDoes DEF RequestFits, BucketFits, PartFits, ReaderFits
  <2>3. "stale_bucket" \in mishaps' \/ req[r].bucket = bucket
    BY <1>0, <1>4, BlobPutDoes, MishapsDo
  <2>4. WriterFits(r)'
    BY <1>0, <1>4, <2>3, BlobPutDoes DEF WriterFits
  <2> QED BY <2>2, <2>4
<1>5. CASE Upsert(r)
  <2>1. CASE Ended(r)
    BY <2>1, <1>ended
  <2>2. CASE ~Ended(r)
    <3>1. Went(r, "delete_parts") /\ req[r].at = "upsert" /\ req[r].up # 0
      BY <1>0, <1>5, <2>2, UpsertDoes
    <3> QED BY <1>0, <1>plain, <3>1 DEF Went, Keeps, RequestFits
  <2> QED BY <2>1, <2>2
<1>6. CASE FindObject(r)
  BY <1>0, <1>6, <1>ended, <1>plain, FindObjectDoes DEF RequestFits
<1>7. CASE BlobDelete(r)
  <2>1. CASE Ended(r)
    BY <2>1, <1>ended
  <2>2. CASE ~Ended(r)
    <3>1. Went(r, "delete_row") /\ req[r].at = "blob_delete" /\ row' = row
      BY <1>0, <1>7, <2>2, BlobDeleteDoes
    <3> QED BY <1>0, <1>plain, <3>1 DEF Went, Keeps, RequestFits, WriterFits
  <2> QED BY <2>1, <2>2
<1>8. CASE DeleteRow(r)
  BY <1>0, <1>8, <1>ended, DeleteRowDoes
<1>9. CASE BlobGet(r)
  BY <1>0, <1>9, BlobGetDoes DEF RequestFits, BucketFits, PartFits, WriterFits, ReaderFits
<1>10. CASE RangedGet(r)
  BY <1>0, <1>10, <1>ended, RangedGetDoes
<1>11. CASE MakeDir(r)
  BY <1>0, <1>11, <1>plain, MakeDirDoes
<1>12. CASE InsertUpload(r)
  BY <1>0, <1>12, <1>ended, InsertUploadDoes
\* the places of one upload
<1>u. ASSUME req[r].at \in {"part_file", "part_rest", "part_row", "read_parts", "remove_dir", "list_parts"}
      PROVE  req[r].up \in 1 .. Len(upload) /\ req[r].bucket \in 1 .. buckets /\ req[r].up # 0
  BY <1>0, <1>u DEF RequestFits
<1>13. CASE PartFile(r)
  <2>1. CASE Ended(r)
    BY <2>1, <1>ended
  <2>2. CASE ~Ended(r)
    <3>1. /\ req[r].at = "part_file" /\ Went(r, "part_rest") /\ upload[req[r].up].dir
          /\ upload'[req[r].up].dir = upload[req[r].up].dir
          /\ upload'[req[r].up].row = upload[req[r].up].row
      BY <1>0, <1>13, <2>2, PartFileDoes
    <3>2. RequestFits(r)'
      BY <1>0, <1>u, <3>1 DEF Went, Keeps, RequestFits
    <3>3. BucketFits(r)' /\ PartFits(r)' /\ WriterFits(r)' /\ ReaderFits(r)'
      BY <1>0, <1>u, <3>1 DEF Went, Keeps, BucketFits, PartFits, WriterFits, ReaderFits
    <3> QED BY <3>2, <3>3
  <2> QED BY <2>1, <2>2
<1>14. CASE PartRest(r)
  <2>1. /\ req[r].at = "part_rest" /\ Went(r, "part_row")
        /\ upload'[req[r].up].row = upload[req[r].up].row
        /\ upload[req[r].up].dir => upload'[req[r].up].files[req[r].part] = req[r].data
    BY <1>0, <1>14, PartRestDoes
  <2>2. RequestFits(r)'
    BY <1>0, <1>u, <2>1 DEF Went, Keeps, RequestFits
  <2>3. BucketFits(r)' /\ PartFits(r)' /\ WriterFits(r)' /\ ReaderFits(r)'
    BY <1>0, <1>u, <2>1 DEF Went, Keeps, BucketFits, PartFits, WriterFits, ReaderFits
  <2> QED BY <2>2, <2>3
<1>15. CASE PartRow(r)
  BY <1>0, <1>15, <1>ended, PartRowDoes
<1>16. CASE ReadPart(r)
  <2>1. CASE Ended(r)
    BY <2>1, <1>ended
  <2>2. CASE ~Ended(r)
    <3>1. /\ req[r].at = "read_parts" /\ upload' = upload /\ bucket' = bucket /\ upload[req[r].up].dir
          /\ req'[r].at = "read_parts" /\ req'[r].bucket = req[r].bucket
          /\ req'[r].up = req[r].up /\ req'[r].list = req[r].list
          /\ req'[r].part \in 1 .. Len(req[r].list) + 1
      BY <1>0, <1>16, <2>2, ReadPartDoes
    <3>2. RequestFits(r)'
      BY <1>0, <1>u, <3>1 DEF RequestFits
    <3>3. BucketFits(r)' /\ PartFits(r)' /\ WriterFits(r)' /\ ReaderFits(r)'
      BY <1>0, <1>u, <3>1 DEF BucketFits, PartFits, WriterFits, ReaderFits
    <3> QED BY <3>2, <3>3
  <2> QED BY <2>1, <2>2
<1>17. CASE BlobComplete(r)
  <2>1. /\ req[r].at = "read_parts" /\ Went(r, "remove_dir") /\ bucket' = bucket
        /\ blob' = req[r].body /\ Writes(r)
        /\ upload'[req[r].up].row = upload[req[r].up].row
        /\ upload'[req[r].up].dir = upload[req[r].up].dir
    BY <1>0, <1>17, BlobCompleteDoes
  <2>2. RequestFits(r)'
    BY <1>0, <1>u, <2>1 DEF Went, Keeps, RequestFits
  <2>3. BucketFits(r)' /\ PartFits(r)' /\ ReaderFits(r)'
    BY <1>0, <1>u, <2>1 DEF Went, Keeps, BucketFits, PartFits, ReaderFits
  <2>4. "stale_bucket" \in mishaps' \/ req[r].bucket = bucket
    BY <2>1, MishapsDo
  <2>5. WriterFits(r)'
    BY <1>0, <1>u, <2>1, <2>4 DEF Went, Keeps, WriterFits
  <2> QED BY <2>2, <2>3, <2>5
<1>18. CASE RemoveDir(r)
  <2>1. CASE Ended(r)
    BY <2>1, <1>ended
  <2>2. CASE ~Ended(r)
    <3>1. /\ req[r].at = "remove_dir" /\ Went(r, "list_parts") /\ bucket' = bucket /\ blob' = blob
          /\ upload'[req[r].up].row = upload[req[r].up].row
      BY <1>0, <1>18, <2>2, RemoveDirDoes
    <3>2. RequestFits(r)'
      BY <1>0, <1>u, <3>1 DEF Went, Keeps, RequestFits
    <3>3. BucketFits(r)' /\ PartFits(r)' /\ WriterFits(r)' /\ ReaderFits(r)'
      BY <1>0, <1>u, <3>1 DEF Went, Keeps, BucketFits, PartFits, WriterFits, ReaderFits
    <3> QED BY <3>2, <3>3
  <2> QED BY <2>1, <2>2
<1>19. CASE ListParts(r)
  <2>1. CASE Ended(r)
    BY <2>1, <1>ended
  <2>2. CASE ~Ended(r)
    <3>1. /\ req[r].at = "list_parts" /\ bucket' = bucket /\ blob' = blob /\ upload' = upload
          /\ req'[r].at = "upsert" /\ req'[r].bucket = req[r].bucket
          /\ req'[r].body = req[r].body /\ req'[r].up = req[r].up
      BY <1>0, <1>19, <2>2, ListPartsDoes
    <3>2. RequestFits(r)'
      BY <1>0, <1>u, <3>1 DEF RequestFits
    <3>3. BucketFits(r)' /\ PartFits(r)' /\ WriterFits(r)' /\ ReaderFits(r)'
      BY <1>0, <1>u, <3>1 DEF BucketFits, PartFits, WriterFits, ReaderFits
    <3> QED BY <3>2, <3>3
  <2> QED BY <2>1, <2>2
<1>20. CASE AbortDir(r)
  <2>1. Went(r, "delete_parts") /\ req[r].at = "abort_dir"
    BY <1>0, <1>20, AbortDirDoes
  <2>2. req[r].up \in 0 .. Len(upload') /\ req[r].up # 0
    BY <1>0, <2>1 DEF RequestFits
  <2> QED BY <1>plain, <2>1, <2>2 DEF Went, Keeps
<1>21. CASE DeleteParts(r)
  <2>1. Went(r, "delete_upload") /\ req[r].at = "delete_parts"
    BY <1>0, <1>21, DeletePartsDoes
  <2>2. req[r].up \in 0 .. Len(upload') /\ req[r].up # 0
    BY <1>0, <2>1 DEF RequestFits
  <2> QED BY <1>plain, <2>1, <2>2 DEF Went, Keeps
<1>22. CASE DeleteUpload(r)
  BY <1>0, <1>22, <1>ended, DeleteUploadDoes
<1> QED BY <1>1, <1>2, <1>3, <1>4, <1>5, <1>6, <1>7, <1>8, <1>9, <1>10, <1>11, <1>12, <1>13,
           <1>14, <1>15, <1>16, <1>17, <1>18, <1>19, <1>20, <1>21, <1>22 DEF RequestStep

(* Only a request that arrives or makes a directory gets an upload, and only *)
(* the latter is one that creates it.                                       *)
LEMMA KeepsUpload ==
    ASSUME TypeOK, NEW r \in Requests, RequestFits(r), ReaderFits(r), RequestStep(r)
    PROVE  \/ Ended(r) \/ Arrive(r) \/ MakeDir(r)
           \/ req'[r].up = req[r].up /\ req'[r].at # "insert_upload"
<1>1. CASE Drop(r)
  BY <1>1, DropDoes
<1>2. CASE DeleteBucket(r)
  BY <1>2, DeleteBucketDoes DEF Went, Keeps
<1>3. CASE BlobPut(r)
  BY <1>3, BlobPutDoes DEF Went, Keeps
<1>4. CASE Upsert(r)
  BY <1>4, UpsertDoes DEF Went, Keeps
<1>5. CASE FindObject(r)
  BY <1>5, FindObjectDoes DEF Went, Keeps
<1>6. CASE BlobDelete(r)
  BY <1>6, BlobDeleteDoes DEF Went, Keeps
<1>7. CASE DeleteRow(r)
  BY <1>7, DeleteRowDoes DEF Went, Keeps
<1>8. CASE BlobGet(r)
  BY <1>8, BlobGetDoes DEF Went, Keeps
<1>9. CASE RangedGet(r)
  BY <1>9, RangedGetDoes DEF Went, Keeps
<1>10. CASE InsertUpload(r)
  BY <1>10, InsertUploadDoes DEF Went, Keeps
<1>11. CASE PartFile(r)
  BY <1>11, PartFileDoes DEF Went, Keeps
<1>12. CASE PartRest(r)
  BY <1>12, PartRestDoes DEF Went, Keeps
<1>13. CASE PartRow(r)
  BY <1>13, PartRowDoes DEF Went, Keeps
<1>14. CASE ReadPart(r)
  BY <1>14, ReadPartDoes DEF Went, Keeps
<1>15. CASE BlobComplete(r)
  BY <1>15, BlobCompleteDoes DEF Went, Keeps
<1>16. CASE RemoveDir(r)
  BY <1>16, RemoveDirDoes DEF Went, Keeps
<1>17. CASE ListParts(r)
  BY <1>17, ListPartsDoes DEF Went, Keeps
<1>18. CASE AbortDir(r)
  BY <1>18, AbortDirDoes DEF Went, Keeps
<1>19. CASE DeleteParts(r)
  BY <1>19, DeletePartsDoes DEF Went, Keeps
<1>20. CASE DeleteUpload(r)
  BY <1>20, DeleteUploadDoes DEF Went, Keeps
<1> QED BY <1>1, <1>2, <1>3, <1>4, <1>5, <1>6, <1>7, <1>8, <1>9,
           <1>10, <1>11, <1>12, <1>13, <1>14, <1>15, <1>16, <1>17, <1>18, <1>19, <1>20 DEF RequestStep

(* An upload that is being created is named by its creator and by aborts.   *)
LEMMA InsertsFit ==
    ASSUME StorageInv, NEW r \in Requests, Frame(r), RequestStep(r), NEW q \in Requests
    PROVE  InsertFits(q)'
<1>0. /\ TypeOK /\ RequestFits(r) /\ ReaderFits(r) /\ InsertFits(q)
      /\ \A s \in Requests : RequestFits(s) /\ InsertFits(s)
      /\ Len(upload) \in Nat /\ Stays(r)
  BY DEF Frame, StorageInv
<1>1. CASE q # r
  <2> SUFFICES ASSUME req[q].at = "insert_upload"
               PROVE  /\ upload'[req[q].up].row = 0
                      /\ \A s \in Requests \ {q} : req'[s].up = req[q].up =>
                            req'[s].at \in {"abort_dir", "delete_parts", "delete_upload"}
    BY <1>0, <1>1 DEF InsertFits, Stays
  <2>1. /\ req[q].up \in 1 .. Len(upload) /\ req[q].up # 0 /\ upload[req[q].up].row = 0
        /\ \A s \in Requests \ {q} : req[s].up = req[q].up =>
              req[s].at \in {"abort_dir", "delete_parts", "delete_upload"}
    BY <1>0 DEF RequestFits, InsertFits
  <2>2. upload'[req[q].up].row = 0
    <3>1. ~(req[r].at = "insert_upload" /\ req[q].up = req[r].up)
      BY <1>1, <2>1
    <3> QED BY <2>1, <3>1 DEF Frame
  <2>3. ASSUME req'[r].up = req[q].up
        PROVE  req'[r].at \in {"abort_dir", "delete_parts", "delete_upload"}
    <3>end. ~Ended(r)
      BY <2>1, <2>3, IdleIsARequest DEF Ended
    <3>1. CASE req[r].up = req[q].up
      <4>1. req[r].at \in {"abort_dir", "delete_parts", "delete_upload"}
        BY <1>1, <2>1, <3>1
      <4>2. AbortDir(r) \/ DeleteParts(r) \/ DeleteUpload(r) \/ Drop(r)
        BY <4>1 DEF RequestStep, Arrive, Begin, DeleteBucket, BlobPut, Upsert, FindObject, BlobDelete,
             DeleteRow, BlobGet, RangedGet, MakeDir, InsertUpload, PartFile, PartRest, PartRow,
             ReadPart, BlobComplete, RemoveDir, ListParts
      <4> QED BY <1>0, <3>end, <4>2, AbortDirDoes, DeletePartsDoes, DeleteUploadDoes, DropDoes DEF Went
    <3>2. CASE req[r].up # req[q].up
      <4>1. Arrive(r) \/ MakeDir(r)
        BY <1>0, <2>3, <3>2, <3>end, KeepsUpload
      <4>2. ~MakeDir(r)
        BY <1>0, <2>1, <2>3, MakeDirDoes
      <4>3. Arrived(req'[r]) /\ bucket # 0
        BY <1>0, <4>1, <4>2, ArriveDoes
      <4> QED BY <2>1, <2>3, <4>3 DEF Arrived
    <3> QED BY <3>1, <3>2
  <2> QED BY <1>0, <1>1, <2>1, <2>2, <2>3 DEF Stays
<1>2. CASE q = r
  <2> SUFFICES ASSUME req'[r].at = "insert_upload" PROVE InsertFits(r)'
    BY <1>2 DEF InsertFits
  <2>1. MakeDir(r)
    <3>1. ~Ended(r)
      BY IdleIsARequest DEF Ended
    <3>2. ~Arrive(r)
      BY <1>0, ArriveDoes DEF Arrived
    <3> QED BY <1>0, <3>1, <3>2, KeepsUpload
  <2>2. upload'[req'[r].up].row = 0 /\ req'[r].up = Len(upload) + 1
    BY <1>0, <2>1, MakeDirDoes, NewUploadFits
  <2>3. \A s \in Requests \ {r} : req'[s].up \in 0 .. Len(upload)
    BY <1>0 DEF RequestFits, Stays
  <2> QED BY <1>0, <2>2, <2>3 DEF InsertFits
<1> QED BY <1>1, <1>2

-----------------------------------------------------------------------------
(* Uploads and files.                                                       *)

(* An upload without its row has no part rows, one without its directory no *)
(* part files. *)
LEMMA UploadsFit ==
    ASSUME StorageInv, NEW r \in Requests, Frame(r), RequestStep(r), NEW u \in DOMAIN upload'
    PROVE  UploadFits(u)'
<1>0. /\ TypeOK /\ RequestFits(r) /\ ReaderFits(r) /\ Len(upload) \in Nat /\ Len(upload') \in Nat
      /\ DOMAIN upload = 1 .. Len(upload) /\ DOMAIN upload' = 1 .. Len(upload')
      /\ \A v \in 1 .. Len(upload) : UploadFits(v)
  <2>1. upload \in Seq(Upload) /\ upload' \in Seq(Upload)
    BY DEF StorageInv, TypeOK, Frame
  <2> QED BY <2>1 DEF StorageInv, Frame
<1>same. upload' = upload => UploadFits(u)'
  BY <1>0 DEF UploadFits
<1>one. ASSUME OnlyUpload(req[r].up), u = req[r].up => UploadFits(u)'
        PROVE  UploadFits(u)'
  BY <1>0, <1>one DEF OnlyUpload, UploadFits
<1>1. CASE Arrive(r) \/ Drop(r) \/ BlobPut(r) \/ Upsert(r) \/ FindObject(r) \/ BlobDelete(r)
           \/ DeleteRow(r) \/ BlobGet(r) \/ RangedGet(r) \/ ReadPart(r) \/ ListParts(r)
  <2>1. upload' = upload
    BY <1>1 DEF Arrive, Drop, BlobPut, Upsert, FindObject, BlobDelete, DeleteRow, BlobGet, RangedGet,
         ReadPart, ListParts
  <2> QED BY <1>same, <2>1
<1>2. CASE DeleteBucket(r)
  <2>1. CASE upload' = upload
    BY <1>same, <2>1
  <2>2. CASE upload' # upload
    <3>1. u \in DOMAIN upload
      BY <1>0, <1>2, DeleteBucketDoes
    <3> QED BY <1>0, <1>2, <2>2, <3>1, DeleteBucketDoes DEF UploadFits
  <2> QED BY <2>1, <2>2
<1>3. CASE MakeDir(r)
  <2>1. CASE u = Len(upload) + 1
    BY <1>0, <1>3, <2>1, MakeDirDoes, NewUploadFits DEF UploadFits
  <2>2. CASE u # Len(upload) + 1
    <3>0. Len(upload') = Len(upload) + 1
      BY <1>0, <1>3, MakeDirDoes
    <3>1. u \in 1 .. Len(upload)
      BY <1>0, <2>2, <3>0
    <3>2. upload'[u] = upload[u]
      BY <1>0, <1>3, <3>1, MakeDirDoes
    <3> QED BY <1>0, <3>1, <3>2 DEF UploadFits
  <2> QED BY <2>1, <2>2
<1>u. ASSUME u = req[r].up, Len(upload') = Len(upload) PROVE u \in 1 .. Len(upload) /\ UploadFits(u)
  BY <1>0, <1>u
<1>4. CASE InsertUpload(r)
  BY <1>0, <1>4, <1>one, <1>u, InsertUploadDoes DEF UploadFits, OnlyUpload
<1>5. CASE PartFile(r)
  BY <1>0, <1>5, <1>one, <1>same, <1>u, PartFileDoes DEF UploadFits, OnlyUpload
<1>6. CASE PartRest(r)
  BY <1>0, <1>6, <1>one, <1>u, PartRestDoes DEF UploadFits, OnlyUpload
<1>7. CASE PartRow(r)
  <2>0. req[r].at = "part_row"
    BY <1>7 DEF PartRow
  <2>1. req[r].bucket # 0
    BY <1>0, <2>0 DEF RequestFits
  <2>2. ASSUME u = req[r].up PROVE UploadFits(u)'
    <3>1. UploadFits(u)
      BY <1>0, <1>7, <1>u, <2>2, PartRowDoes DEF OnlyUpload
    <3> QED BY <1>0, <1>7, <2>1, <2>2, <3>1, PartRowDoes DEF UploadFits
  <2> QED BY <1>0, <1>7, <1>one, <2>2, PartRowDoes
<1>8. CASE BlobComplete(r)
  BY <1>0, <1>8, <1>one, <1>same, <1>u, BlobCompleteDoes DEF UploadFits, OnlyUpload
<1>9. CASE RemoveDir(r)
  BY <1>0, <1>9, <1>one, <1>u, RemoveDirDoes DEF UploadFits, OnlyUpload
<1>10. CASE AbortDir(r)
  BY <1>0, <1>10, <1>one, <1>u, AbortDirDoes DEF UploadFits, OnlyUpload
<1>11. CASE DeleteParts(r)
  BY <1>0, <1>11, <1>one, <1>u, DeletePartsDoes DEF UploadFits, OnlyUpload
<1>12. CASE DeleteUpload(r)
  BY <1>0, <1>12, <1>one, <1>u, DeleteUploadDoes DEF UploadFits, OnlyUpload
<1> QED BY <1>1, <1>2, <1>3, <1>4, <1>5, <1>6, <1>7, <1>8, <1>9, <1>10, <1>11, <1>12 DEF RequestStep

(* A complete makes the object of parts that made none before. *)
LEMMA MadeOnce ==
    ASSUME StorageInv, NEW r \in Requests, Frame(r), RequestStep(r), NEW u \in DOMAIN upload'
    PROVE  MadeFits(u)'
<1> SUFFICES ASSUME mishaps' \cap {"overlap", "complete_cut"} = {}
             PROVE  MadeFits(u)'
  BY DEF MadeFits
<1>0. /\ TypeOK /\ RequestFits(r) /\ ReaderFits(r) /\ WriterFits(r)
      /\ Len(upload) \in Nat /\ Len(upload') \in Nat /\ Stays(r)
      /\ DOMAIN upload = 1 .. Len(upload) /\ DOMAIN upload' = 1 .. Len(upload')
      /\ \A v \in 1 .. Len(upload) : MadeFits(v)
      /\ mishaps \cap {"overlap", "complete_cut"} = {}
  <2>1. upload \in Seq(Upload) /\ upload' \in Seq(Upload)
    BY DEF StorageInv, TypeOK, Frame
  <2> QED BY <2>1 DEF StorageInv, Frame
<1>1. CASE u \notin 1 .. Len(upload)
  <2>1. upload'[u] = NewUpload
    BY <1>0, <1>1 DEF Frame
  <2> QED BY <2>1, NewUploadFits DEF MadeFits
<1>2. CASE u \in 1 .. Len(upload) /\ ~BlobComplete(r) /\ req[r].at # "remove_dir"
  <2>1. /\ upload'[u].made = upload[u].made
        /\ upload'[u].dir => upload[u].dir
    BY <1>2 DEF Frame
  <2>2. upload[u].made = 0 \/ (upload[u].made = 1 /\ (~upload[u].dir \/
           \E q \in Requests : req[q].at = "remove_dir" /\ req[q].up = u))
    BY <1>0, <1>2 DEF MadeFits
  <2>3. (\E q \in Requests : req[q].at = "remove_dir" /\ req[q].up = u) =>
           \E q \in Requests : req'[q].at = "remove_dir" /\ req'[q].up = u
    BY <1>0, <1>2 DEF Stays
  <2> QED BY <2>1, <2>2, <2>3 DEF MadeFits
<1>3. CASE u \in 1 .. Len(upload) /\ req[r].at = "remove_dir"
  <2>1. RemoveDir(r)
    <3>1. ~Drop(r)
      BY <1>0, <1>3, DropDoes DEF RequestFits
    <3> QED BY <1>3, <3>1 DEF RequestStep, Arrive, Begin, DeleteBucket, BlobPut, Upsert, FindObject,
             BlobDelete, DeleteRow, BlobGet, RangedGet, MakeDir, InsertUpload, PartFile, PartRest,
             PartRow, ReadPart, BlobComplete, ListParts, AbortDir, DeleteParts, DeleteUpload
  <2>2. upload'[u].made = upload[u].made /\ (upload'[u].dir => upload[u].dir)
        /\ (u = req[r].up => ~upload'[u].dir)
    BY <1>0, <1>3, <2>1, RemoveDirDoes DEF OnlyUpload
  <2>3. upload[u].made = 0 \/ (upload[u].made = 1 /\ (~upload[u].dir \/
           \E q \in Requests : req[q].at = "remove_dir" /\ req[q].up = u))
    BY <1>0, <1>3 DEF MadeFits
  <2>4. u # req[r].up /\ (\E q \in Requests : req[q].at = "remove_dir" /\ req[q].up = u) =>
           \E q \in Requests : req'[q].at = "remove_dir" /\ req'[q].up = u
    BY <1>0 DEF Stays
  <2> QED BY <2>2, <2>3, <2>4 DEF MadeFits
<1>4. CASE u \in 1 .. Len(upload) /\ BlobComplete(r)
  <2>1. req[r].at = "read_parts"
    BY <1>4 DEF BlobComplete
  <2>2. upload[u].made = 0 \/ (upload[u].made = 1 /\ (~upload[u].dir \/
           \E q \in Requests : req[q].at = "remove_dir" /\ req[q].up = u))
    BY <1>0, <1>4 DEF MadeFits
  <2>3. (\E q \in Requests : req[q].at = "remove_dir" /\ req[q].up = u) =>
           \E q \in Requests : req'[q].at = "remove_dir" /\ req'[q].up = u
    BY <1>0, <2>1 DEF Stays
  <2>4. CASE u # req[r].up
    <3>1. upload'[u] = upload[u]
      BY <1>0, <1>4, <2>4, BlobCompleteDoes DEF OnlyUpload
    <3> QED BY <2>2, <2>3, <3>1 DEF MadeFits
  <2>5. CASE u = req[r].up
    <3>1. /\ Writes(r) /\ Went(r, "remove_dir")
          /\ upload'[u].made = upload[u].made + 1
      BY <1>0, <1>4, <2>5, BlobCompleteDoes
    <3>2. upload[u].dir
      BY <1>0, <2>1, <2>5, <3>1 DEF WriterFits
    <3>3. \A q \in Requests : req[q].at # "remove_dir"
      BY <1>0, <2>1, <3>1, MishapsDo DEF ObjectPlaces
    <3>4. upload'[u].made = 1
      BY <2>2, <3>1, <3>2, <3>3
    <3>5. req'[r].at = "remove_dir" /\ req'[r].up = u
      BY <2>5, <3>1 DEF Went, Keeps
    <3> QED BY <3>4, <3>5 DEF MadeFits
  <2> QED BY <2>4, <2>5
<1> QED BY <1>1, <1>2, <1>3, <1>4

(* Content that is whole. *)
LEMMA WholeContents ==
    /\ Whole(<<>>) /\ Whole(NoBlob)
    /\ \A s \in Seq(Data) : Whole(s)
    /\ \A s \in Seq(Data \cup {Torn}), d \in Data \cup {Torn} :
          Whole(s) /\ d # Torn => Whole(Append(s, d))
<1>1. Whole(<<>>) /\ Whole(NoBlob)
  <2>1. DOMAIN <<>> = {}
    OBVIOUS
  <2>2. DOMAIN NoBlob = {1} /\ NoBlob[1] = "no blob"
    BY DEF NoBlob
  <2>3. Whole(<<>>)
    BY <2>1 DEF Whole
  <2>4. Whole(NoBlob)
    BY <2>2 DEF Whole, Torn
  <2> QED BY <2>3, <2>4
<1>2. Torn \notin Data
  BY StorageConstants
<1>3. ASSUME NEW s \in Seq(Data) PROVE Whole(s)
  BY <1>2, <1>3 DEF Whole
<1>4. ASSUME NEW s \in Seq(Data \cup {Torn}), NEW d \in Data \cup {Torn}, Whole(s), d # Torn
      PROVE  Whole(Append(s, d))
  <2>1. Len(s) \in Nat /\ DOMAIN s = 1 .. Len(s) /\ DOMAIN Append(s, d) = 1 .. Len(s) + 1
    OBVIOUS
  <2>2. \A i \in 1 .. Len(s) : Append(s, d)[i] = s[i]
    OBVIOUS
  <2>3. Append(s, d)[Len(s) + 1] = d
    OBVIOUS
  <2>4. ASSUME NEW i \in DOMAIN Append(s, d) PROVE Append(s, d)[i] # Torn
    <3>1. i \in 1 .. Len(s) \/ i = Len(s) + 1
      BY <2>1
    <3> QED BY <1>4, <2>1, <2>2, <2>3, <3>1 DEF Whole
  <2> QED BY <2>4 DEF Whole
<1> QED BY <1>1, <1>3, <1>4

(* A request holds whole content. *)
LEMMA BodiesAreWhole ==
    ASSUME StorageInv, NEW r \in Requests, RequestStep(r), Stays(r),
           mishaps \subseteq mishaps', mishaps' \cap {"part_race", "part_cut"} = {}
    PROVE  \A q \in Requests : Whole(req'[q].body)
<1>0. /\ TypeOK /\ RequestFits(r) /\ ReaderFits(r) /\ \A q \in Requests : Whole(req[q].body)
      /\ Whole(blob) /\ mishaps \cap {"part_race", "part_cut"} = {}
      /\ \A u \in DOMAIN upload, p \in Parts : upload[u].files[p] = Torn =>
            \E q \in Requests : req[q].at = "part_rest" /\ req[q].up = u /\ req[q].part = p
  BY DEF StorageInv, PartsAreWhole, ObjectsAreWhole
<1> SUFFICES Whole(req'[r].body)
  BY <1>0 DEF Stays
<1>ended. Ended(r) => Whole(req'[r].body)
  BY IdleIsARequest, WholeContents DEF Ended
<1>same. req'[r].body = req[r].body => Whole(req'[r].body)
  BY <1>0
<1>1. CASE Arrive(r)
  BY <1>0, <1>1, ArriveDoes, WholeContents DEF Arrived
<1>2. CASE Drop(r) \/ DeleteBucket(r) \/ DeleteRow(r) \/ RangedGet(r) \/ InsertUpload(r) \/ PartRow(r)
           \/ DeleteUpload(r)
  BY <1>0, <1>2, <1>ended, DropDoes, DeleteBucketDoes, DeleteRowDoes, RangedGetDoes,
     InsertUploadDoes, PartRowDoes, DeleteUploadDoes
<1>3. CASE BlobPut(r)
  BY <1>0, <1>3, <1>same, BlobPutDoes
<1>4. CASE Upsert(r)
  BY <1>0, <1>4, <1>same, <1>ended, UpsertDoes DEF Went, Keeps
<1>5. CASE FindObject(r)
  BY <1>0, <1>5, <1>same, <1>ended, FindObjectDoes
<1>6. CASE BlobDelete(r)
  BY <1>0, <1>6, <1>same, <1>ended, BlobDeleteDoes DEF Went, Keeps
<1>7. CASE BlobGet(r)
  BY <1>0, <1>7, BlobGetDoes
<1>8. CASE MakeDir(r)
  BY <1>0, <1>8, <1>same, MakeDirDoes
<1>9. CASE PartFile(r)
  BY <1>0, <1>9, <1>same, <1>ended, PartFileDoes DEF Went, Keeps
<1>10. CASE PartRest(r)
  BY <1>0, <1>10, <1>same, PartRestDoes DEF Went, Keeps
<1>11. CASE ReadPart(r)
  <2> DEFINE u == req[r].up
             p == req[r].list[req[r].part]
  <2>1. CASE Ended(r)
    BY <1>ended, <2>1
  <2>2. CASE ~Ended(r)
    <3>1. /\ req[r].at = "read_parts" /\ p \in Parts /\ Touches(r, {p})
          /\ upload[u].files[p] # None /\ req'[r].body = Append(req[r].body, upload[u].files[p])
      BY <1>0, <1>11, <2>2, ReadPartDoes
    <3>2. u \in DOMAIN upload /\ upload[u] \in Upload
      BY <1>0, <3>1, KnowsUpload
    <3>3. upload[u].files \in [Parts -> Data \cup {None, Torn}]
      BY <3>2 DEF Upload
    <3>4. upload[u].files[p] \in Data \cup {Torn} /\ req[r].body \in Seq(Data \cup {Torn})
      <4>1. upload[u].files[p] \in Data \cup {None, Torn}
        BY <3>1, <3>3
      <4>2. req[r] \in Request
        BY <1>0 DEF TypeOK
      <4> QED BY <3>1, <4>1, <4>2 DEF Request
    <3>5. upload[u].files[p] # Torn
      <4> SUFFICES ASSUME upload[u].files[p] = Torn PROVE FALSE
        OBVIOUS
      <4>1. PICK q \in Requests : req[q].at = "part_rest" /\ req[q].up = u /\ req[q].part = p
        BY <1>0, <3>1, <3>2
      <4>2. q # r
        BY <3>1, <4>1
      <4>3. "part_race" \in mishaps'
        BY <3>1, <4>1, <4>2, MishapsDo
      <4> QED BY <4>3
    <3> QED BY <1>0, <3>1, <3>4, <3>5, WholeContents
  <2> QED BY <2>1, <2>2
<1>12. CASE BlobComplete(r)
  BY <1>0, <1>12, <1>same, <1>ended, BlobCompleteDoes DEF Went, Keeps
<1>13. CASE RemoveDir(r)
  BY <1>0, <1>13, <1>same, <1>ended, RemoveDirDoes DEF Went, Keeps
<1>14. CASE ListParts(r)
  BY <1>0, <1>14, <1>same, <1>ended, ListPartsDoes
<1>15. CASE AbortDir(r)
  BY <1>0, <1>15, <1>same, AbortDirDoes DEF Went, Keeps
<1>16. CASE DeleteParts(r)
  BY <1>0, <1>16, <1>same, DeletePartsDoes DEF Went, Keeps
<1> QED BY <1>1, <1>2, <1>3, <1>4, <1>5, <1>6, <1>7, <1>8, <1>9, <1>10, <1>11, <1>12, <1>13,
           <1>14, <1>15, <1>16 DEF RequestStep

(* A part file half written has its writer. *)
LEMMA FilesAreWhole ==
    ASSUME StorageInv, NEW r \in Requests, Frame(r), RequestStep(r),
           mishaps' \cap {"part_race", "part_cut"} = {},
           NEW u \in DOMAIN upload', NEW p \in Parts, upload'[u].files[p] = Torn
    PROVE  \E q \in Requests : req'[q].at = "part_rest" /\ req'[q].up = u /\ req'[q].part = p
<1>0. /\ TypeOK /\ RequestFits(r) /\ ReaderFits(r) /\ Stays(r)
      /\ Len(upload) \in Nat /\ Len(upload') \in Nat
      /\ DOMAIN upload = 1 .. Len(upload) /\ DOMAIN upload' = 1 .. Len(upload')
      /\ \A v \in 1 .. Len(upload) : UploadFits(v)
      /\ \A v \in 1 .. Len(upload), o \in Parts : upload[v].files[o] = Torn =>
            \E q \in Requests : req[q].at = "part_rest" /\ req[q].up = v /\ req[q].part = o
  <2>1. upload \in Seq(Upload) /\ upload' \in Seq(Upload) /\ mishaps \cap {"part_race", "part_cut"} = {}
    BY DEF StorageInv, TypeOK, Frame
  <2>2. DOMAIN upload = 1 .. Len(upload) /\ DOMAIN upload' = 1 .. Len(upload')
    BY <2>1
  <2> QED BY <2>1, <2>2 DEF StorageInv, Frame, PartsAreWhole
<1>none. NewUpload.files[p] # Torn
  BY NewUploadFits DEF None, Torn
<1>u. u \in 1 .. Len(upload)
  BY <1>0, <1>none DEF Frame
\* a writer other than r is still there
<1>other. ASSUME upload[u].files[p] = Torn, ~(req[r].at = "part_rest" /\ req[r].up = u /\ req[r].part = p)
          PROVE  \E q \in Requests : req'[q].at = "part_rest" /\ req'[q].up = u /\ req'[q].part = p
  BY <1>0, <1>u, <1>other DEF Stays
<1>1. CASE PartFile(r)
  <2>1. CASE upload[u].files[p] = Torn
    BY <1>1, <1>other, <2>1 DEF PartFile
  <2>2. CASE upload[u].files[p] # Torn
    <3>1. upload' # upload
      BY <2>2
    <3>2. /\ Went(r, "part_rest") /\ OnlyUpload(req[r].up)
          /\ \A o \in Parts \ {req[r].part} :
                upload'[req[r].up].files[o] = upload[req[r].up].files[o]
      BY <1>0, <1>1, <3>1, PartFileDoes
    <3>3. u = req[r].up
      BY <1>u, <2>2, <3>2 DEF OnlyUpload
    <3>4. p = req[r].part
      BY <2>2, <3>2, <3>3
    <3> QED BY <3>2, <3>3, <3>4 DEF Went, Keeps
  <2> QED BY <2>1, <2>2
<1>2. CASE PartRest(r)
  <2>0. req[r].at = "part_rest" /\ req[r].data \in Data /\ req[r].data # Torn
    BY <1>0, <1>2, StorageConstants DEF PartRest, RequestFits
  <2>1. CASE u = req[r].up /\ p = req[r].part
    <3>1. upload'[u].files[p] # Torn
      <4>1. CASE upload[u].dir
        BY <1>0, <1>2, <2>0, <2>1, <4>1, PartRestDoes
      <4>2. CASE ~upload[u].dir
        <5>1. upload'[u].files = upload[u].files
          BY <1>0, <1>2, <2>1, <4>2, PartRestDoes
        <5>2. upload[u].files = NewUpload.files
          BY <1>0, <1>u, <4>2 DEF UploadFits
        <5> QED BY <1>none, <5>1, <5>2
      <4> QED BY <4>1, <4>2
    <3> QED BY <3>1
  <2>2. CASE ~(u = req[r].up /\ p = req[r].part)
    <3>0. /\ OnlyUpload(req[r].up)
          /\ \A o \in Parts \ {req[r].part} :
                upload'[req[r].up].files[o] = upload[req[r].up].files[o]
      BY <1>0, <1>2, PartRestDoes
    <3>1. upload[u].files[p] = Torn
      <4>1. CASE u # req[r].up
        BY <1>u, <3>0, <4>1 DEF OnlyUpload
      <4>2. CASE u = req[r].up
        BY <2>2, <3>0, <4>2
      <4> QED BY <4>1, <4>2
    <3> QED BY <1>other, <2>2, <3>1
  <2> QED BY <2>1, <2>2
<1>3. CASE Drop(r)
  <2>1. req[r].at # "part_rest" /\ upload' = upload
    BY <1>0, <1>3, DropDoes
  <2> QED BY <1>other, <2>1
<1>4. CASE RemoveDir(r) \/ AbortDir(r)
  <2>1. upload[u].files[p] = Torn
    BY <1>0, <1>4, <1>u, <1>none, RemoveDirDoes, AbortDirDoes DEF OnlyUpload
  <2> QED BY <1>4, <1>other, <2>1 DEF RemoveDir, AbortDir
<1>5. CASE ~(PartFile(r) \/ PartRest(r) \/ Drop(r) \/ RemoveDir(r) \/ AbortDir(r))
  <2>1. req[r].at # "part_rest"
    BY <1>5 DEF RequestStep, Arrive, Begin, DeleteBucket, BlobPut, Upsert, FindObject,
             BlobDelete, DeleteRow, BlobGet, RangedGet, MakeDir, InsertUpload, PartRow, ReadPart,
             BlobComplete, ListParts, DeleteParts, DeleteUpload
  <2>2. upload[u].files[p] = Torn
    <3>1. CASE Arrive(r) \/ BlobPut(r) \/ Upsert(r) \/ FindObject(r) \/ BlobDelete(r)
             \/ DeleteRow(r) \/ BlobGet(r) \/ RangedGet(r) \/ ReadPart(r) \/ ListParts(r)
      BY <3>1 DEF Arrive, BlobPut, Upsert, FindObject, BlobDelete, DeleteRow, BlobGet, RangedGet,
         ReadPart, ListParts
    <3>2. CASE DeleteBucket(r)
      BY <1>0, <1>u, <3>2, DeleteBucketDoes
    <3>3. CASE MakeDir(r)
      BY <1>0, <1>u, <3>3, MakeDirDoes
    <3>4. CASE InsertUpload(r) \/ PartRow(r) \/ DeleteParts(r)
      <4>1. OnlyUpload(req[r].up) /\ upload'[req[r].up].files = upload[req[r].up].files
        <5>1. CASE InsertUpload(r)
          BY <1>0, <5>1, InsertUploadDoes
        <5>2. CASE PartRow(r)
          BY <1>0, <5>2, PartRowDoes
        <5>3. CASE DeleteParts(r)
          BY <1>0, <5>3, DeletePartsDoes
        <5> QED BY <3>4, <5>1, <5>2, <5>3
      <4> QED BY <1>u, <4>1 DEF OnlyUpload
    <3>5. CASE BlobComplete(r) \/ DeleteUpload(r)
      BY <1>0, <1>u, <3>5, BlobCompleteDoes, DeleteUploadDoes DEF OnlyUpload
    <3> QED BY <1>5, <3>1, <3>2, <3>3, <3>4, <3>5 DEF RequestStep
  <2> QED BY <1>other, <2>1, <2>2
<1> QED BY <1>1, <1>2, <1>3, <1>4, <1>5

(* The object's file is the content some request held, or no file. *)
LEMMA BlobIsWhole ==
    ASSUME StorageInv, NEW r \in Requests, Frame(r), RequestStep(r)
    PROVE  ObjectsAreWhole'
<1> SUFFICES ASSUME mishaps' \cap {"part_race", "part_cut"} = {} PROVE Whole(blob')
  BY DEF ObjectsAreWhole
<1>0. /\ TypeOK /\ RequestFits(r) /\ ReaderFits(r) /\ Whole(blob) /\ Whole(req[r].body)
  BY DEF StorageInv, PartsAreWhole, ObjectsAreWhole, Frame
<1>1. blob' \in {blob, NoBlob, req[r].body}
  BY DEF RequestStep, Arrive, Drop, DeleteBucket, BlobPut, Upsert, FindObject,
             BlobDelete, DeleteRow, BlobGet, RangedGet, MakeDir, InsertUpload, PartFile, PartRest,
             PartRow, ReadPart, BlobComplete, RemoveDir, ListParts, AbortDir, DeleteParts, DeleteUpload
<1> QED BY <1>0, <1>1, WholeContents

(* The row and the file agree again when the last writer has ended. *)
LEMMA RowAgreesStep ==
    ASSUME StorageInv, NEW r \in Requests, Frame(r), RequestStep(r)
    PROVE  RowAgrees'
<1> DEFINE Writing == {"upsert", "remove_dir", "list_parts"}
<1> SUFFICES ASSUME mishaps' \cap {"overlap", "stale_bucket", "put_cut", "complete_cut"} = {},
                    \A q \in Requests : req'[q].at \notin Writing
             PROVE  row' = NoRow \/ blob' = NoBlob \/ row'.etag = blob'
  BY DEF RowAgrees
<1>0. /\ TypeOK /\ RequestFits(r) /\ ReaderFits(r) /\ WriterFits(r) /\ Stays(r)
      /\ mishaps \cap {"overlap", "stale_bucket", "put_cut", "complete_cut"} = {}
  BY DEF StorageInv, Frame
<1>1. CASE req[r].at \notin Writing
  <2>1. row = NoRow \/ blob = NoBlob \/ row.etag = blob
    BY <1>0, <1>1 DEF StorageInv, RowAgrees, Stays
  <2>2. ~BlobPut(r) /\ (BlobComplete(r) => blob' = blob)
    BY <1>0, BlobPutDoes, BlobCompleteDoes DEF Went
  <2>3. (row' = row \/ row' = NoRow) /\ (blob' = blob \/ blob' = NoBlob)
    BY <1>1, <2>2 DEF RequestStep, Arrive, Drop, DeleteBucket, Upsert, FindObject, BlobComplete,
             BlobDelete, DeleteRow, BlobGet, RangedGet, MakeDir, InsertUpload, PartFile, PartRest,
             PartRow, ReadPart, RemoveDir, ListParts, AbortDir, DeleteParts, DeleteUpload
  <2> QED BY <2>1, <2>3
<1>2. CASE req[r].at \in Writing
  <2>1. blob = req[r].body /\ req[r].bucket = bucket
    BY <1>0, <1>2 DEF WriterFits
  <2>2. Upsert(r)
    <3>1. ~Drop(r)
      <4> SUFFICES ASSUME Drop(r) PROVE FALSE
        OBVIOUS
      <4>1. /\ req[r].at = "upsert" /\ req[r].up = 0 => "put_cut" \in mishaps'
            /\ req[r].at \in Writing /\ req[r].up # 0 => "complete_cut" \in mishaps'
        BY <1>0, DropDoes
      <4>2. req[r].at # "upsert" => req[r].up # 0
        BY <1>0, <1>2 DEF RequestFits
      <4> QED BY <1>2, <4>1, <4>2
    <3>2. ~RemoveDir(r)
      <4>1. ASSUME RemoveDir(r) PROVE FALSE
        <5>1. upload[req[r].up].dir /\ req[r].at = "remove_dir"
          BY <1>0, <4>1 DEF WriterFits, RemoveDir
        <5>2. Went(r, "list_parts")
          BY <1>0, <4>1, <5>1, RemoveDirDoes
        <5> QED BY <5>2 DEF Went
      <4> QED BY <4>1
    <3>3. ~ListParts(r)
      <4>1. ASSUME ListParts(r) PROVE FALSE
        <5>1. upload[req[r].up].row = req[r].bucket
          BY <1>0, <2>1, <4>1 DEF WriterFits, ListParts
        <5> QED BY <1>0, <4>1, <5>1, ListPartsDoes
      <4> QED BY <4>1
    <3> QED BY <1>2, <3>1, <3>2, <3>3 DEF RequestStep, Arrive, Begin, DeleteBucket, BlobPut, FindObject,
             BlobDelete, DeleteRow, BlobGet, RangedGet, MakeDir, InsertUpload, PartFile, PartRest,
             PartRow, ReadPart, BlobComplete, AbortDir, DeleteParts, DeleteUpload
  <2>3. row'.etag = req[r].body /\ blob' = blob
    BY <1>0, <2>1, <2>2, UpsertDoes
  <2> QED BY <2>1, <2>3
<1> QED BY <1>1, <1>2

(* A bucket made anew is none that a request knows. *)
LEMMA CreateBucketKeeps ==
    ASSUME StorageInv, CreateBucket
    PROVE  StorageInv'
<1>0. /\ TypeOK /\ TypeOK' /\ bucket = 0 /\ buckets' = buckets + 1 /\ bucket' = buckets + 1
      /\ UNCHANGED <<row, inserts, blob, upload, req, torn, mishaps>>
  BY CreateBucketDoes DEF StorageInv
<1>1. buckets \in Nat
  BY <1>0, StorageConstants DEF TypeOK
<1>2. ObjectsAreWhole' /\ PartsAreWhole' /\ RowAgrees'
  BY <1>0 DEF StorageInv, ObjectsAreWhole, PartsAreWhole, RowAgrees
<1>3. ASSUME NEW r \in Requests
      PROVE  /\ RequestFits(r)' /\ InsertFits(r)' /\ BucketFits(r)' /\ PartFits(r)'
             /\ WriterFits(r)' /\ ReaderFits(r)'
  <2>0. /\ RequestFits(r) /\ InsertFits(r) /\ BucketFits(r) /\ PartFits(r)
        /\ WriterFits(r) /\ ReaderFits(r)
    BY DEF StorageInv
  <2>1. RequestFits(r)'
    BY <1>0, <1>1, <2>0 DEF RequestFits
  <2>2. InsertFits(r)' /\ BucketFits(r)' /\ PartFits(r)' /\ ReaderFits(r)'
    BY <1>0, <2>0 DEF InsertFits, BucketFits, PartFits, ReaderFits
  <2>3. req[r].at # "idle" => req[r].bucket # bucket' /\ req[r].bucket # bucket
    BY <1>0, <1>1, <2>0 DEF RequestFits
  <2>4. WriterFits(r)'
    BY <1>0, <2>0, <2>3 DEF WriterFits
  <2> QED BY <2>1, <2>2, <2>4
<1>4. ASSUME NEW u \in DOMAIN upload' PROVE UploadFits(u)' /\ MadeFits(u)'
  BY <1>0 DEF StorageInv, UploadFits, MadeFits
<1> QED BY <1>0, <1>2, <1>3, <1>4 DEF StorageInv

-----------------------------------------------------------------------------
(* The theorems.                                                            *)

(* The invariant holds before the first bucket. *)
LEMMA StorageInit == Init => StorageInv
<1> SUFFICES ASSUME Init PROVE StorageInv
  OBVIOUS
<1>0. /\ bucket = 0 /\ buckets = 0 /\ row = NoRow /\ inserts = 0 /\ blob = NoBlob /\ upload = <<>>
      /\ req = [r \in Requests |-> Idle] /\ arrived = 0 /\ torn = FALSE /\ mishaps = {}
  BY DEF Init
<1>1. upload \in Seq(Upload) /\ Len(upload) = 0 /\ DOMAIN upload = {}
  BY <1>0
<1>2. TypeOK
  <2>0. NoBlob \in Contents /\ 0 \in 0 .. inserts /\ 0 \in Nat
    BY <1>0 DEF Contents
  <2>1. row \in [id : 0 .. inserts, etag : Contents, length : Nat]
    <3>1. row = [id |-> 0, etag |-> NoBlob, length |-> 0]
      BY <1>0 DEF NoRow
    <3> HIDE DEF NoBlob
    <3> QED BY <2>0, <3>1
  <2>2. torn \in BOOLEAN /\ mishaps \subseteq Mishaps
    BY <1>0, Zenon
  <2>3. req \in [Requests -> Request]
    BY <1>0, IdleIsARequest, Zenon
  <2>4. buckets \in 0 .. MaxBuckets /\ bucket \in {0, buckets} /\ arrived \in 0 .. MaxArrivals
        /\ inserts \in Nat /\ Len(upload) <= MaxUploads
    BY <1>0, <1>1, StorageConstants
  <2>5. blob \in Contents /\ \A u \in DOMAIN upload : upload[u].row \in {0, bucket}
    BY <1>0, <1>1, <2>0
  <2>6. row # NoRow => bucket # 0
    BY <1>0
  <2> QED BY <1>1, <2>1, <2>2, <2>3, <2>4, <2>5, <2>6 DEF TypeOK
<1>3. ObjectsAreWhole /\ PartsAreWhole /\ RowAgrees
  BY <1>0, <1>1, WholeContents, IdleIsARequest DEF ObjectsAreWhole, PartsAreWhole, RowAgrees
<1>4. ASSUME NEW r \in Requests
      PROVE  /\ RequestFits(r) /\ InsertFits(r) /\ BucketFits(r) /\ PartFits(r)
             /\ WriterFits(r) /\ ReaderFits(r)
  <2>1. req[r].at = "idle" /\ req[r].up = 0
    BY <1>0, IdleIsARequest
  <2> QED BY <1>1, <2>1 DEF RequestFits, InsertFits, BucketFits, PartFits, WriterFits, ReaderFits
<1> QED BY <1>1, <1>2, <1>3, <1>4 DEF StorageInv

(* Every step preserves the invariant. *)
LEMMA StorageStep ==
    ASSUME StorageInv, [Next]_vars
    PROVE  StorageInv'
<1>1. CASE UNCHANGED vars
  BY <1>1 DEF vars, StorageInv, TypeOK, ObjectsAreWhole, PartsAreWhole, RowAgrees, RequestFits,
       InsertFits, BucketFits, PartFits, WriterFits, ReaderFits, UploadFits, MadeFits
<1>2. CASE CreateBucket
  BY <1>2, CreateBucketKeeps
<1>3. ASSUME NEW r \in Requests, RequestStep(r) PROVE StorageInv'
  <2>1. Frame(r)
    BY <1>3, StepFrame DEF StorageInv
  <2>2. TypeOK' /\ Stays(r) /\ mishaps \subseteq mishaps'
    BY <2>1 DEF Frame
  <2>3. ObjectsAreWhole' /\ RowAgrees'
    BY <1>3, <2>1, BlobIsWhole, RowAgreesStep
  <2>4. PartsAreWhole'
    <3> SUFFICES ASSUME mishaps' \cap {"part_race", "part_cut"} = {}
                 PROVE  /\ \A q \in Requests : Whole(req'[q].body)
                        /\ \A u \in DOMAIN upload', p \in Parts : upload'[u].files[p] = Torn =>
                              \E q \in Requests :
                                 req'[q].at = "part_rest" /\ req'[q].up = u /\ req'[q].part = p
      BY DEF PartsAreWhole
    <3>1. \A q \in Requests : Whole(req'[q].body)
      BY <1>3, <2>2, BodiesAreWhole
    <3>2. ASSUME NEW u \in DOMAIN upload', NEW p \in Parts, upload'[u].files[p] = Torn
          PROVE  \E q \in Requests :
                    req'[q].at = "part_rest" /\ req'[q].up = u /\ req'[q].part = p
      BY <1>3, <2>1, <3>2, FilesAreWhole
    <3> QED BY <3>1, <3>2
  <2>5. ASSUME NEW q \in Requests
        PROVE  /\ RequestFits(q)' /\ InsertFits(q)' /\ BucketFits(q)' /\ PartFits(q)'
               /\ WriterFits(q)' /\ ReaderFits(q)'
    <3>1. InsertFits(q)'
      BY <1>3, <2>1, InsertsFit
    <3>2. CASE q = r
      BY <1>3, <2>1, <3>1, <3>2, SelfFits
    <3>3. CASE q # r
      BY <1>3, <2>1, <3>1, <3>3, OthersFit
    <3> QED BY <3>2, <3>3
  <2>6. ASSUME NEW u \in DOMAIN upload' PROVE UploadFits(u)' /\ MadeFits(u)'
    BY <1>3, <2>1, UploadsFit, MadeOnce
  <2> QED BY <2>2, <2>3, <2>4, <2>5, <2>6 DEF StorageInv
<1> QED BY <1>1, <1>2, <1>3 DEF Next

(* The rows hang together, the files are whole and every request finds what *)
(* it left, whatever the others did, as far as mishaps says.                *)
THEOREM StoreIsConsistent == Spec => []StorageInv
<1>1. StorageInv /\ [Next]_vars => StorageInv'
  BY StorageStep
<1> QED BY <1>1, StorageInit, PTL DEF Spec

(* The row of put_object and complete_multipart_upload names the content    *)
(* that get_object serves, when no writer is between its two writes.        *)
THEOREM RowsNameTheirBlobs == Spec => []RowsMatchBlobs
<1>1. StorageInv => RowsMatchBlobs
  BY DEF StorageInv, RowAgrees, RowsMatchBlobs, Quiet, ObjectPlaces
<1> QED BY <1>1, StoreIsConsistent, PTL

(* A GET never shows an object half written. *)
THEOREM ObjectsStayWhole == Spec => []ObjectsAreWhole
<1>1. StorageInv => ObjectsAreWhole
  BY DEF StorageInv
<1> QED BY <1>1, StoreIsConsistent, PTL

(* The parts of an upload become the object once. *)
THEOREM UploadsCompleteOnce == Spec => []CompletesOnce
<1>1. StorageInv => CompletesOnce
  <2> SUFFICES ASSUME StorageInv, mishaps \cap {"overlap", "complete_cut"} = {}, NEW u \in DOMAIN upload
               PROVE  upload[u].made <= 1
    BY DEF CompletesOnce
  <2>1. upload[u].made = 0 \/ upload[u].made = 1
    BY DEF StorageInv, MadeFits
  <2> QED BY <2>1
<1> QED BY <1>1, StoreIsConsistent, PTL

(* The two reads of a ranged get_object are of one version. *)
THEOREM RangesAreOfOneVersion == Spec => []RangeIsOfOneVersion
<1>1. Init => RangeIsOfOneVersion
  BY DEF Init, RangeIsOfOneVersion
<1>2. ASSUME StorageInv, RangeIsOfOneVersion, [Next]_vars PROVE RangeIsOfOneVersion'
  <2>1. CASE UNCHANGED vars
    BY <1>2, <2>1 DEF RangeIsOfOneVersion, vars
  <2>2. CASE CreateBucket
    BY <1>2, <2>2 DEF RangeIsOfOneVersion, CreateBucket
  <2>3. ASSUME NEW r \in Requests, RequestStep(r) PROVE RangeIsOfOneVersion'
    <3>1. mishaps \subseteq mishaps'
      BY <1>2, <2>3, StepFrame DEF StorageInv, Frame
    <3>2. CASE RangedGet(r)
      BY <1>2, <3>1, <3>2, RangedGetDoes DEF StorageInv, RangeIsOfOneVersion
    <3>3. CASE ~RangedGet(r)
      <4>1. torn' = torn
        BY <2>3, <3>3 DEF RequestStep, Arrive, Drop, DeleteBucket, BlobPut, Upsert, FindObject,
           BlobDelete, DeleteRow, BlobGet, MakeDir, InsertUpload, PartFile, PartRest,
           PartRow, ReadPart, BlobComplete, RemoveDir, ListParts, AbortDir, DeleteParts, DeleteUpload
      <4> QED BY <1>2, <3>1, <4>1 DEF RangeIsOfOneVersion
    <3> QED BY <3>2, <3>3
  <2> QED BY <1>2, <2>1, <2>2, <2>3 DEF Next
<1>3. StorageInv /\ RangeIsOfOneVersion /\ [Next]_vars => RangeIsOfOneVersion'
  BY <1>2
<1> QED BY <1>1, <1>3, StoreIsConsistent, PTL DEF Spec

(* A step of a request keeps a listed object readable. *)
LEMMA ListedStep ==
    ASSUME StorageInv, ListedIsReadable, NEW r \in Requests, RequestStep(r)
    PROVE  ListedIsReadable'
<1> SUFFICES ASSUME row' # NoRow, blob' = NoBlob, mishaps' \cap {"overlap", "delete_cut"} = {}
             PROVE  \E q \in Requests : req'[q].at = "delete_row"
  BY DEF ListedIsReadable
<1>0. /\ TypeOK /\ RequestFits(r) /\ ReaderFits(r) /\ WriterFits(r) /\ Stays(r)
      /\ mishaps \cap {"overlap", "delete_cut"} = {}
  BY StepFrame DEF StorageInv, Frame
<1>body. req[r].body # NoBlob
  <2>1. req[r] \in Request
    BY <1>0 DEF TypeOK
  <2> QED BY <2>1, NoBlobIsNoContent DEF Request
\* a delete other than r is still between its writes
<1>other. ASSUME row # NoRow, blob = NoBlob, req[r].at # "delete_row"
          PROVE  \E q \in Requests : req'[q].at = "delete_row"
  BY <1>0, <1>other DEF ListedIsReadable, Stays
<1>1. CASE BlobPut(r)
  BY <1>1, <1>body DEF BlobPut
<1>2. CASE BlobComplete(r)
  <2>1. blob' = blob /\ row' = row /\ req[r].at = "read_parts"
    BY <1>0, <1>2, <1>body, BlobCompleteDoes
  <2> QED BY <1>other, <2>1
<1>3. CASE BlobDelete(r)
  <2>1. CASE Went(r, "delete_row")
    BY <2>1 DEF Went
  <2>2. CASE ~Went(r, "delete_row")
    <3>1. blob = NoBlob /\ row' = row /\ req[r].at = "blob_delete"
      BY <1>0, <1>3, <2>2, BlobDeleteDoes
    <3> QED BY <1>other, <3>1
  <2> QED BY <2>1, <2>2
<1>4. CASE Upsert(r)
  <2>1. req[r].at = "upsert" /\ blob' = blob
    BY <1>4 DEF Upsert
  <2>2. blob = req[r].body
    BY <1>0, <2>1 DEF WriterFits
  <2> QED BY <1>body, <2>1, <2>2
<1>5. CASE DeleteRow(r)
  <2>1. req[r].at = "delete_row" /\ row' = IF row.id = req[r].id THEN NoRow ELSE row
    BY <1>5 DEF DeleteRow
  <2>2. row.id = req[r].id
    BY <1>0, <2>1 DEF WriterFits
  <2> QED BY <2>1, <2>2
<1>6. CASE Drop(r)
  <2>1. req[r].at # "delete_row" /\ row' = row /\ blob' = blob
    BY <1>0, <1>6, DropDoes
  <2> QED BY <1>other, <2>1
<1>7. CASE ~(BlobPut(r) \/ BlobComplete(r) \/ BlobDelete(r) \/ Upsert(r) \/ DeleteRow(r) \/ Drop(r))
  <2>1. blob' = blob /\ row' \in {row, NoRow} /\ req[r].at # "delete_row"
    BY <1>7 DEF RequestStep, Arrive, Begin, DeleteBucket, FindObject, BlobGet, RangedGet, MakeDir,
         InsertUpload, PartFile, PartRest, PartRow, ReadPart, RemoveDir, ListParts, AbortDir,
         DeleteParts, DeleteUpload
  <2> QED BY <1>other, <2>1
<1> QED BY <1>1, <1>2, <1>3, <1>4, <1>5, <1>6, <1>7

(* An object with a row has its file, unless a delete of it is under way or *)
(* was cut: delete_object takes the file first.                             *)
THEOREM ListedStaysReadable == Spec => []ListedIsReadable
<1>1. Init => ListedIsReadable
  BY DEF Init, ListedIsReadable
<1>2. ASSUME StorageInv, ListedIsReadable, [Next]_vars PROVE ListedIsReadable'
  <2>1. CASE UNCHANGED vars
    BY <1>2, <2>1 DEF ListedIsReadable, vars
  <2>2. CASE CreateBucket
    BY <1>2, <2>2 DEF ListedIsReadable, CreateBucket
  <2>3. ASSUME NEW r \in Requests, RequestStep(r) PROVE ListedIsReadable'
    BY <1>2, <2>3, ListedStep
  <2> QED BY <1>2, <2>1, <2>2, <2>3 DEF Next
<1>3. StorageInv /\ ListedIsReadable /\ [Next]_vars => ListedIsReadable'
  BY <1>2
<1> QED BY <1>1, <1>3, StoreIsConsistent, PTL DEF Spec

(* r is about to write part p of upload u again or to take the upload down. *)
Holds(r, u, p) ==
    /\ req[r].up = u
    /\ \/ req[r].at \in {"list_parts", "upsert", "delete_parts"}
       \/ req[r].at \in {"part_rest", "part_row"} /\ req[r].part = p

(* A step of a request keeps the file of an acknowledged part. *)
LEMMA AcknowledgedStep ==
    ASSUME StorageInv, AcknowledgedPartsAreKept, NEW r \in Requests, RequestStep(r)
    PROVE  AcknowledgedPartsAreKept'
<1> DEFINE Cuts == {"part_race", "part_cut", "abort_cut", "complete_cut"}
<1> SUFFICES ASSUME mishaps' \cap Cuts = {}, NEW u \in DOMAIN upload', NEW p \in Parts,
                    upload'[u].rows[p] # None
             PROVE  upload'[u].files[p] = upload'[u].rows[p] \/ \E q \in Requests : Holds(q, u, p)'
  BY DEF AcknowledgedPartsAreKept, Holds
<1>f. Frame(r)
  BY StepFrame DEF StorageInv
<1>0. /\ TypeOK /\ RequestFits(r) /\ ReaderFits(r) /\ BucketFits(r) /\ PartFits(r) /\ Stays(r)
      /\ mishaps \cap Cuts = {} /\ Len(upload) \in Nat
      /\ DOMAIN upload = 1 .. Len(upload) /\ DOMAIN upload' = 1 .. Len(upload')
  <2>1. upload \in Seq(Upload) /\ upload' \in Seq(Upload)
    BY <1>f DEF StorageInv, TypeOK, Frame
  <2>2. DOMAIN upload = 1 .. Len(upload) /\ DOMAIN upload' = 1 .. Len(upload')
    BY <2>1
  <2> QED BY <1>f, <2>2 DEF StorageInv, Frame
<1>u. u \in 1 .. Len(upload) /\ u # 0
  <2>1. NewUpload.rows[p] = None
    BY NewUploadFits
  <2> QED BY <1>0, <1>f, <2>1 DEF Frame
<1>none. NewUpload.rows[p] = None
  BY NewUploadFits
<1>fits. UploadFits(u) /\ upload[u].row \in {0, bucket}
  BY <1>0, <1>u DEF StorageInv, TypeOK
<1>held. upload[u].rows[p] # None =>
            upload[u].files[p] = upload[u].rows[p] \/ \E q \in Requests : Holds(q, u, p)
  BY <1>0, <1>u DEF AcknowledgedPartsAreKept, Holds
\* a part that the step leaves alone
<1>same. ASSUME upload'[u].rows[p] = upload[u].rows[p], upload'[u].files[p] = upload[u].files[p],
                Holds(r, u, p) => Holds(r, u, p)'
         PROVE  upload'[u].files[p] = upload'[u].rows[p] \/ \E q \in Requests : Holds(q, u, p)'
  <2>1. \A q \in Requests : Holds(q, u, p) => Holds(q, u, p)'
    BY <1>0, <1>same DEF Holds, Stays
  <2> QED BY <1>held, <1>same, <2>1
\* a row that is gone has no parts
<1>gone. upload[u].row # 0 \/ upload[u].rows[p] = None
  BY <1>fits, <1>none DEF UploadFits
<1>1. CASE Arrive(r) \/ BlobPut(r) \/ FindObject(r) \/ BlobDelete(r) \/ DeleteRow(r) \/ BlobGet(r)
           \/ RangedGet(r) \/ ReadPart(r)
  <2>1. upload' = upload /\ ~Holds(r, u, p)
    BY <1>1 DEF Holds, Arrive, Begin, BlobPut, FindObject, BlobDelete, DeleteRow, BlobGet,
         RangedGet, ReadPart
  <2> QED BY <1>same, <2>1
<1>2. CASE Drop(r)
  <2>1. /\ upload' = upload
        /\ req[r].at \in {"list_parts", "upsert"} => req[r].up = 0
        /\ req[r].at \notin {"delete_parts", "part_rest", "part_row"}
    BY <1>0, <1>2, DropDoes
  <2>2. ~Holds(r, u, p)
    BY <1>u, <2>1 DEF Holds
  <2> QED BY <1>same, <2>1, <2>2
<1>3. CASE DeleteBucket(r)
  <2>1. req[r].at = "delete_bucket"
    BY <1>3 DEF DeleteBucket
  <2>2. upload' = upload \/ upload'[u].rows = NewUpload.rows
    BY <1>0, <1>3, <1>u, DeleteBucketDoes
  <2> QED BY <1>none, <1>same, <2>1, <2>2 DEF Holds
<1>4. CASE Upsert(r)
  <2>1. upload' = upload /\ req[r].at = "upsert"
    BY <1>4 DEF Upsert
  <2>2. CASE Holds(r, u, p)
    <3>1. req[r].up = u /\ upload[u].row \in {0, req[r].bucket}
      BY <1>0, <1>u, <2>1, <2>2 DEF Holds, BucketFits
    <3>2. CASE req[r].bucket # bucket
      BY <1>fits, <1>gone, <2>1, <3>1, <3>2
    <3>3. CASE req[r].bucket = bucket
      <4>1. Went(r, "delete_parts")
        BY <1>0, <1>4, <1>u, <3>1, <3>3, UpsertDoes
      <4>2. Holds(r, u, p)'
        BY <3>1, <4>1 DEF Holds, Went, Keeps
      <4> QED BY <4>2
    <3> QED BY <3>2, <3>3
  <2>3. CASE ~Holds(r, u, p)
    BY <1>same, <2>1, <2>3
  <2> QED BY <2>2, <2>3
<1>5. CASE MakeDir(r)
  <2>1. req[r].at = "make_dir"
    BY <1>5 DEF MakeDir
  <2>2. upload'[u] = upload[u]
    BY <1>0, <1>5, <1>u, MakeDirDoes
  <2> QED BY <1>same, <2>1, <2>2 DEF Holds
<1>6. CASE InsertUpload(r)
  <2>1. /\ req[r].at = "insert_upload" /\ OnlyUpload(req[r].up)
        /\ upload'[req[r].up].rows = upload[req[r].up].rows
        /\ upload'[req[r].up].files = upload[req[r].up].files
    BY <1>0, <1>6, InsertUploadDoes
  <2>2. upload'[u].rows = upload[u].rows /\ upload'[u].files = upload[u].files
    BY <1>u, <2>1 DEF OnlyUpload
  <2> QED BY <1>same, <2>1, <2>2 DEF Holds
<1>7. CASE BlobComplete(r)
  <2>1. /\ req[r].at = "read_parts"
        /\ \/ upload' = upload
           \/ /\ OnlyUpload(req[r].up)
              /\ upload'[req[r].up].rows = upload[req[r].up].rows
              /\ upload'[req[r].up].files = upload[req[r].up].files
    BY <1>0, <1>7, BlobCompleteDoes
  <2>2. upload'[u].rows = upload[u].rows /\ upload'[u].files = upload[u].files
    BY <1>u, <2>1 DEF OnlyUpload
  <2> QED BY <1>same, <2>1, <2>2 DEF Holds
<1>8. CASE PartFile(r)
  <2>1. req[r].at = "part_file"
    BY <1>8 DEF PartFile
  <2>2. CASE upload' = upload
    BY <1>same, <2>1, <2>2 DEF Holds
  <2>3. CASE upload' # upload
    <3>1. /\ Went(r, "part_rest") /\ OnlyUpload(req[r].up)
          /\ upload'[req[r].up].rows = upload[req[r].up].rows
          /\ \A o \in Parts \ {req[r].part} :
                upload'[req[r].up].files[o] = upload[req[r].up].files[o]
      BY <1>0, <1>8, <2>3, PartFileDoes
    <3>2. CASE u = req[r].up /\ p = req[r].part
      <4>1. Holds(r, u, p)'
        BY <3>1, <3>2 DEF Holds, Went, Keeps
      <4> QED BY <4>1
    <3>3. CASE u # req[r].up
      <4>1. upload'[u] = upload[u]
        BY <1>u, <3>1, <3>3 DEF OnlyUpload
      <4> QED BY <1>same, <2>1, <4>1 DEF Holds
    <3>4. CASE u = req[r].up /\ p # req[r].part
      <4>1. upload'[u].rows = upload[u].rows /\ upload'[u].files[p] = upload[u].files[p]
        BY <3>1, <3>4
      <4> QED BY <1>same, <2>1, <4>1 DEF Holds
    <3> QED BY <3>2, <3>3, <3>4
  <2> QED BY <2>2, <2>3
<1>9. CASE PartRest(r)
  <2>1. /\ req[r].at = "part_rest" /\ Went(r, "part_row") /\ OnlyUpload(req[r].up)
        /\ upload'[req[r].up].rows = upload[req[r].up].rows
        /\ \A o \in Parts \ {req[r].part} :
              upload'[req[r].up].files[o] = upload[req[r].up].files[o]
    BY <1>0, <1>9, PartRestDoes
  <2>2. CASE u = req[r].up /\ p = req[r].part
    <3>1. Holds(r, u, p)'
      BY <2>1, <2>2 DEF Holds, Went, Keeps
    <3> QED BY <3>1
  <2>3. CASE u # req[r].up
    <3>1. upload'[u] = upload[u]
      BY <1>u, <2>1, <2>3 DEF OnlyUpload
    <3> QED BY <1>same, <2>3, <3>1 DEF Holds
  <2>4. CASE u = req[r].up /\ p # req[r].part
    <3>1. upload'[u].rows = upload[u].rows /\ upload'[u].files[p] = upload[u].files[p]
      BY <2>1, <2>4
    <3> QED BY <1>same, <2>1, <2>4, <3>1 DEF Holds
  <2> QED BY <2>2, <2>3, <2>4
<1>10. CASE PartRow(r)
  <2>1. /\ req[r].at = "part_row" /\ OnlyUpload(req[r].up)
        /\ upload'[req[r].up].files = upload[req[r].up].files
        /\ IF upload[req[r].up].row = req[r].bucket
           THEN upload'[req[r].up].rows[req[r].part] = req[r].data
           ELSE upload'[req[r].up].rows = upload[req[r].up].rows
        /\ \A o \in Parts \ {req[r].part} :
              upload'[req[r].up].rows[o] = upload[req[r].up].rows[o]
    BY <1>0, <1>10, PartRowDoes
  <2>2. CASE u = req[r].up /\ p = req[r].part
    <3>1. upload[u].files[p] = req[r].data
      BY <1>0, <2>1, <2>2 DEF PartFits
    <3>2. upload[u].row \in {0, req[r].bucket}
      BY <1>0, <1>u, <2>1, <2>2 DEF BucketFits
    <3> QED BY <1>gone, <2>1, <2>2, <3>1, <3>2
  <2>3. CASE u # req[r].up
    <3>1. upload'[u] = upload[u]
      BY <1>u, <2>1, <2>3 DEF OnlyUpload
    <3> QED BY <1>same, <2>3, <3>1 DEF Holds
  <2>4. CASE u = req[r].up /\ p # req[r].part
    <3>1. upload'[u].files = upload[u].files /\ upload'[u].rows[p] = upload[u].rows[p]
      BY <2>1, <2>4
    <3> QED BY <1>same, <2>1, <2>4, <3>1 DEF Holds
  <2> QED BY <2>2, <2>3, <2>4
<1>11. CASE RemoveDir(r)
  <2>1. /\ req[r].at = "remove_dir" /\ OnlyUpload(req[r].up)
        /\ IF upload[req[r].up].dir THEN Went(r, "list_parts") ELSE Ended(r)
        /\ upload'[req[r].up].rows = upload[req[r].up].rows
        /\ upload'[req[r].up].files = NewUpload.files
    BY <1>0, <1>11, RemoveDirDoes
  <2>2. CASE u = req[r].up /\ upload[u].dir
    <3>1. Holds(r, u, p)'
      BY <2>1, <2>2 DEF Holds, Went, Keeps
    <3> QED BY <3>1
  <2>3. CASE ~(u = req[r].up /\ upload[u].dir)
    <3>1. upload'[u].rows = upload[u].rows /\ upload'[u].files = upload[u].files
      BY <1>u, <1>fits, <2>1, <2>3 DEF OnlyUpload, UploadFits
    <3> QED BY <1>same, <2>1, <3>1 DEF Holds
  <2> QED BY <2>2, <2>3
<1>12. CASE ListParts(r)
  <2>1. /\ req[r].at = "list_parts" /\ upload' = upload
        /\ \/ upload[req[r].up].row # req[r].bucket
           \/ req'[r].at = "upsert" /\ req'[r].up = req[r].up
    BY <1>0, <1>12, ListPartsDoes
  <2>2. u = req[r].up => upload[u].row \in {0, req[r].bucket}
    BY <1>0, <1>u, <2>1 DEF BucketFits
  <2>3. Holds(r, u, p) => Holds(r, u, p)'
    BY <1>gone, <2>1, <2>2 DEF Holds
  <2> QED BY <1>same, <2>1, <2>3
<1>13. CASE AbortDir(r)
  <2>1. /\ req[r].at = "abort_dir" /\ OnlyUpload(req[r].up) /\ Went(r, "delete_parts")
    BY <1>0, <1>13, AbortDirDoes
  <2>2. CASE u = req[r].up
    <3>1. Holds(r, u, p)'
      BY <2>1, <2>2 DEF Holds, Went, Keeps
    <3> QED BY <3>1
  <2>3. CASE u # req[r].up
    <3>1. upload'[u] = upload[u]
      BY <1>u, <2>1, <2>3 DEF OnlyUpload
    <3> QED BY <1>same, <2>3, <3>1 DEF Holds
  <2> QED BY <2>2, <2>3
<1>14. CASE DeleteParts(r)
  <2>1. OnlyUpload(req[r].up) /\ upload'[req[r].up].rows = NewUpload.rows
    BY <1>0, <1>14, DeletePartsDoes
  <2>2. u # req[r].up
    BY <1>none, <2>1
  <2>3. upload'[u] = upload[u]
    BY <1>u, <2>1, <2>2 DEF OnlyUpload
  <2> QED BY <1>same, <2>2, <2>3 DEF Holds
<1>15. CASE DeleteUpload(r)
  <2>1. /\ req[r].at = "delete_upload" /\ OnlyUpload(req[r].up)
        /\ upload'[req[r].up] = upload[req[r].up] \/ upload'[req[r].up].rows = NewUpload.rows
    BY <1>0, <1>15, DeleteUploadDoes
  <2>2. upload'[u] = upload[u]
    BY <1>u, <1>none, <2>1 DEF OnlyUpload
  <2> QED BY <1>same, <2>1, <2>2 DEF Holds
<1> QED BY <1>1, <1>2, <1>3, <1>4, <1>5, <1>6, <1>7, <1>8, <1>9, <1>10, <1>11, <1>12, <1>13,
           <1>14, <1>15 DEF RequestStep

(* A part that upload_part acknowledged has its file, with what was sent    *)
(* last, until a complete or an abort takes the upload down.                *)
THEOREM AcknowledgedPartsStay == Spec => []AcknowledgedPartsAreKept
<1>1. Init => AcknowledgedPartsAreKept
  <2> SUFFICES ASSUME Init PROVE AcknowledgedPartsAreKept
    OBVIOUS
  <2>1. DOMAIN upload = {}
    BY DEF Init
  <2> QED BY <2>1 DEF AcknowledgedPartsAreKept
<1>2. ASSUME StorageInv, AcknowledgedPartsAreKept, [Next]_vars PROVE AcknowledgedPartsAreKept'
  <2>1. CASE UNCHANGED vars
    BY <1>2, <2>1 DEF AcknowledgedPartsAreKept, vars
  <2>2. CASE CreateBucket
    BY <1>2, <2>2 DEF AcknowledgedPartsAreKept, CreateBucket
  <2>3. ASSUME NEW r \in Requests, RequestStep(r) PROVE AcknowledgedPartsAreKept'
    BY <1>2, <2>3, AcknowledgedStep
  <2> QED BY <1>2, <2>1, <2>2, <2>3 DEF Next
<1>3. StorageInv /\ AcknowledgedPartsAreKept /\ [Next]_vars => AcknowledgedPartsAreKept'
  BY <1>2
<1> QED BY <1>1, <1>3, StoreIsConsistent, PTL DEF Spec
=============================================================================
