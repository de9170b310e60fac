------------------------------- MODULE Storage -------------------------------
(***************************************************************************)
(* The bucket of uploaded files (StorageService).                           *)
(***************************************************************************)
EXTENDS Handlers

CONSTANTS EarlierFiles  \* files uploaded before the behaviour starts

ASSUME FilesAssumption == EarlierFiles \cap Requests = {} /\ None \notin EarlierFiles

VARIABLES files  \* the keys stored; a new key is named by the request that uploads it

\* uploadFile: the key is new; its rejection ends the handler (Fails).
Upload(r) == files' = files \cup {r}

\* deleteFile: a failure is logged and answered, never thrown.
DeleteFile(f) == files' \in {files, files \ {f}}

\* A picture is stored as the URL of its file, and the bodies that have such a
\* field may give any: request r gave f, or may have, without uploading it.
NamedBy(r, f) ==
    \E body \in {"changes", "firm"} \cap DOMAIN local[r] :
        \E field \in {"logo", "avatar"} \cap DOMAIN local[r][body] : local[r][body][field] = f

Named(f) == \E r \in Requests : NamedBy(r, f)

StorageInit == files = EarlierFiles
StorageTypeOK == files \subseteq Requests \cup EarlierFiles
=============================================================================
