----------------------------- MODULE MCDatabase -----------------------------
(***************************************************************************)
(* Database on a small instance: two addresses, one of which may time out  *)
(* and come back, and one key beside "version".  One of its two values is  *)
(* so long that the answer to a read of it may not fit.                    *)
(***************************************************************************)
EXTENDS Database

CONSTANTS k, v1, v2

TooLong == {<<k, v2>>}
=============================================================================
