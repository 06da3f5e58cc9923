----------------------------- MODULE MCParseCache ------------------------------
(***************************************************************************)
(* A Rust crate root and modules beside it, each of which may hold the     *)
(* content "h" or one that does not parse.                                 *)
(***************************************************************************)
EXTENDS ParseCache

MCPaths == {"lib.rs", "a.rs", "b.rs"}
MCKind == [p \in MCPaths |-> IF p = "lib.rs" THEN "root" ELSE "module"]

================================================================================
