------------------------------ MODULE MCStartup ------------------------------
(***************************************************************************)
(* Checking Startup on the files of internal/store/migrations.             *)
(***************************************************************************)
EXTENDS Startup

TheFiles == << <<"table requests", "index requests">>,
               <<"table documents", "index documents">>,
               <<"column rag_chunk_ids">> >>
==============================================================================
