----------------------------- MODULE MCMigrations -----------------------------
(***************************************************************************)
(* Checking Migrations on the files of internal/store/migrations.          *)
(***************************************************************************)
EXTENDS Migrations

TheFiles == << <<"table requests", "index requests">>,
               <<"table documents", "index documents">>,
               <<"column rag_chunk_ids">> >>
==============================================================================
