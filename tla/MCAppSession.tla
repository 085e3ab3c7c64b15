----------------------------- MODULE MCAppSession -----------------------------
(* Instances of AppSession for TLC. *)
EXTENDS AppSession

CONSTANTS p1, p2, a1, a2

\* Two people share a phone; one person has two phones.
Shared    == {p1} \X {a1, a2}
TwoPhones == {p1, p2} \X {a1}

MCScenes ==
    {[logins |-> Shared, hazards |-> {}],
     [logins |-> TwoPhones, hazards |-> {"lost"}],
     [logins |-> {<<p1, a1>>}, hazards |-> {"lost", "closed", "impatient"}],
     [logins |-> {<<p1, a1>>}, hazards |-> {"mistyped", "suspended"}],
     [logins |-> {<<p1, a1>>}, hazards |-> {"resends"}]}
=============================================================================
