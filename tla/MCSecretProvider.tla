-------------------------- MODULE MCSecretProvider --------------------------
(***************************************************************************)
(* Two threads; two secrets and no secret.                                 *)
(***************************************************************************)
EXTENDS SecretProvider

MCValues == {"old", "new", Empty}
=============================================================================
