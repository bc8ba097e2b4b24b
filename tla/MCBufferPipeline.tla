--------------------------- MODULE MCBufferPipeline ---------------------------
(* Instances of BufferPipeline for TLC. *)
EXTENDS BufferPipeline, TLC

CONSTANTS r1, r2, r3, c1

\* "events" as DuckLake has it (no key), "errors" as plain DuckDB has it.
MCOrder == <<"events", "errors">>
MCTableOf2 == (r1 :> "events" @@ r2 :> "events")
MCTableOf3 == (r1 :> "events" @@ r2 :> "events" @@ r3 :> "errors")
MCKeyed == {"errors"}
================================================================================
