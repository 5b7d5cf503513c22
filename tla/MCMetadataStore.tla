--------------------------- MODULE MCMetadataStore ---------------------------
(* Two releases of the package and one with changed bytes; two registrations of   *)
(* the same datasets in opposite roles, of one revision or two, alike or not.     *)
EXTENDS MetadataStore

CONSTANTS m1, m2, r1, r2
MCMigrators == {m1, m2}
MCRegistrars == {r1, r2}
MCGroups == {{m1, m2, r1}, {m1, r1, r2}}

MCChecksums == {"a", "b", "c", "x"}
MCPackages == {<<"a", "b">>, <<"a", "b", "c">>, <<"a", "x">>}
MCRuntime == <<"a", "b">>
MCRequests == {
    [reference |-> "A", target |-> "B", revision |-> 1, digest |-> "p"],
    [reference |-> "B", target |-> "A", revision |-> 1, digest |-> "q"],
    [reference |-> "B", target |-> "A", revision |-> 2, digest |-> "q"]}
=============================================================================
