------------------------------ MODULE KuSessionMC ------------------------------
(***************************************************************************)
(* The texts of the session: definitions and uses of a few names, a        *)
(* function and a loop over several lines, a redefinition, texts that the  *)
(* parser reports and texts that it panics on.                             *)
(***************************************************************************)
EXTENDS KuSession

TypedLines ==
  { <<>>,
    <<"let", "b", ":", "f", "=", "a", ";">>,
    <<"func", "f", "(", "b", ":", "b", ")", "{">>,
    <<"if", "a", "{", "let", "f", "=", "b", ";">>,
    <<"let", "a", "=", "b", ";", "}">>,
    <<"for", "b", "in", "a", "..", "b", "{", "dim", "a", ",", "a", ";", "}", "print", "(", "a", ")", ";">>,
    <<"let", "1", ";">>,
    <<"a", "[", "}">> }

SentTexts ==
  { <<"func", "b", "(", ")", "{", "f", "(", "a", ")", ";">>,
    <<"struct", "a", "{", "f", ":", "b", "}">>,
    <<"a", "[">> }
=============================================================================
