----------------------------- MODULE MCProfile -----------------------------
(***************************************************************************)
(* Small instances of Profile.                                             *)
(***************************************************************************)
EXTENDS Profile, TLC

CONSTANTS p1, p2, p3

Symmetry == Permutations(Proc)

Arg(key, value) == [key |-> key, value |-> value]

(* A long and a short value, a second name, an address to dial, a value    *)
(* that does not parse and a key nobody knows.                             *)
MCAsked ==
    { Arg("api-key", "secret"), Arg("tls_key", "k.pem"),
      Arg("http-bind", "[::]:9090"), Arg("capacity-mb", "lots"), Arg("nope", "1") }

MCFlags == { <<>>, ("http-bind" :> "10.0.0.5:9090") @@ ("wire-enabled" :> "true") }

MCClientArgs == { [addr |-> Unset, api_key |-> Unset] }

MCValue ==
    { "node-1", "local", "0.0.0.0:8080", "0.0.0.0:6380", "false", "true", "", "info",
      "auto", "0", "secret", "k.pem", "[::]:9090", "10.0.0.5:9090", "lots", "1" }
=============================================================================
