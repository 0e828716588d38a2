--------------------------- MODULE MCProfileStore ---------------------------
(***************************************************************************)
(* References for the runs of ProfileStore: they are made of the name in   *)
(* lower case and the way to authenticate, so that two spellings of a name *)
(* have one.                                                               *)
(***************************************************************************)
EXTENDS ProfileStore, TLC

MCRefOf == [k \in Names \X Modes |->
              CASE k = <<DefaultName, "password">> -> "default:password"
                [] k = <<DefaultName, "key">>      -> "default:key"
                [] k \in {"A", "a"} \X {"password"} -> "a:password"
                [] k \in {"A", "a"} \X {"key"}      -> "a:key"
                [] k = <<"B", "password">>         -> "b:password"]

\* Secrets differ in nothing but their names.
Permuted == Permutations(Secrets)

=============================================================================
