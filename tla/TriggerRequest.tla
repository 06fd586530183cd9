---------------------------- MODULE TriggerRequest ----------------------------
(***************************************************************************)
(* schemas.py, TriggerTrainRequest: where the inputs of a trigger come     *)
(* from.  A payload names two S3 objects, or two files of the server.      *)
(***************************************************************************)
EXTENDS AppConfig

\* A URI is absent, names a bucket and a key, or does not; a path is absent,
\* inside TRIGGER_DATA_ROOT or outside (any path is, when there is no root).
Uris == {"absent", "s3", "malformed"}
Paths == {"absent", "inside", "outside"}

Payloads ==
    [dataset_s3_uri : Uris, params_s3_uri : Uris, dataset_path : Paths, params_path : Paths]

HasS3(p) == p.dataset_s3_uri # "absent" /\ p.params_s3_uri # "absent"
HasLocal(p) == p.dataset_path # "absent" /\ p.params_path # "absent"

\* _validate_s3_uri.
ValidUri(uri) == uri # "malformed"

\* Mutant of ValidPath: a path outside the root is minded in prod only.
ValidPathInProd(path, d) == path = "outside" => ~d.prod

\* _no_path_traversal: without a root every path passes, in prod none does.
ValidPath(path, d) ==
    path # "absent" => IF d.data_root THEN path = "inside" ELSE ~d.prod

\* _check_source_mode: exactly one pair is complete, and half an S3 pair is
\* never passed over; half a local pair is.
OneSource(p) ==
    /\ HasS3(p) # HasLocal(p)
    /\ (p.dataset_s3_uri = "absent") = (p.params_s3_uri = "absent")

Valid(p, d) ==
    /\ ValidUri(p.dataset_s3_uri) /\ ValidUri(p.params_s3_uri)
    /\ ValidPath(p.dataset_path, d) /\ ValidPath(p.params_path, d)
    /\ OneSource(p)

\* The mode trigger_train takes a valid payload for.
Mode(p) == IF HasS3(p) THEN "s3" ELSE "local"
=============================================================================
