------------------------------ MODULE Settings ------------------------------
(***************************************************************************)
(* The lazy settings of core/config.py, as operators.  Settings has two    *)
(* halves, `gateway` and `models`, each of them a cached value and a file. *)
(* What is cached is a set of at most one value; the empty set also stands *)
(* for a read that raises.                                                 *)
(*                                                                         *)
(* A file is a record with a field `faults`: whatever keeps it from being  *)
(* read as the half it is for, such as YAML that does not parse or a       *)
(* required field that is left out.  A file that does not exist counts as  *)
(* an empty one, which has no faults.                                      *)
(***************************************************************************)

Valid(file) == file.faults = {}

\* _load_yaml().
Parsed(file) == {f \in {file} : Valid(f)}

\* The properties `gateway` and `models`: the value, which is also what is
\* cached from then on.
Value(cached, file) == IF cached # {} THEN cached ELSE Parsed(file)

\* reload(): both halves are forgotten, then the gateway half is read and,
\* unless that raises, the models half.
Reloaded(gatewayFile, modelsFile) ==
    [gateway |-> Parsed(gatewayFile),
     models  |-> IF Valid(gatewayFile) THEN Parsed(modelsFile) ELSE {}]

=============================================================================
