---------------------------- MODULE MCServerLife ----------------------------
(* A small instance of the server for TLC: one name in two spellings and    *)
(* two others that may never be accounts.                                   *)
EXTENDS ServerLife

Lowercase == [s \in Spellings |-> IF s = "Ann" THEN "ann" ELSE s]

\* The right password in one spelling and a wrong one in the other.
Tried == {<<"Ann", "right">>, <<"ann", "wrong">>}

\* Wrong passwords for three names, one of them in two spellings.
Wrong == (Spellings \X {"wrong"})

\* Sessions, then failed sign-ins at a store an older server left, API keys, and the
\* callers of the gateway, each as far as its property needs.
Nothing == [tenants |-> 0, tokens |-> 0, failed |-> 0, keyCalls |-> 0, requests |-> 0,
            revokes |-> FALSE, signIns |-> {}, identities |-> {}, ips |-> {}]
Given ==
    {[tenants |-> 1, tokens |-> 1, failed |-> 1, keyCalls |-> 0, requests |-> 2,
      revokes |-> TRUE, signIns |-> Tried, identities |-> IdentityKeys, ips |-> {"near"}],
     [Nothing EXCEPT !.failed = 5, !.signIns = Wrong],
     [Nothing EXCEPT !.tenants = 1, !.keyCalls = 2, !.revokes = TRUE],
     [Nothing EXCEPT !.tenants = 1, !.requests = 4, !.ips = Ips]}
=============================================================================
