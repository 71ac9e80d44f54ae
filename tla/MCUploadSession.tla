--------------------------------- MODULE MCUploadSession ---------------------------------
(* A client that retries after every answer, on the replicas of the .cfg.        *)
EXTENDS UploadSession
==========================================================================================
