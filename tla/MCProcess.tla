----------------------------- MODULE MCProcess -----------------------------
(* An instance of Process for TLC: inputs that set a setting or two.       *)
EXTENDS Process, TLC

MCUnparsed == -1000
MCNaN == -2000

One(k, vals) == {k :> v : v \in vals}

B(id, addr, w) == [id |-> id, addr |-> addr, weight |-> w]

\* Backends as a file may list them.
Lists == {<<B("a", "h1", 1)>>, <<B("a", "h1", 0), B("b", "h2", 3)>>,
          <<B("a", "h1", 1), B(" a", "h2", 1)>>, <<B(" ", "h1", 1)>>,
          <<B("a", "h1", -1)>>, <<B("a", "h1", 1), B("b", "h1", 1)>>}

\* And as LB_BACKENDS may; "-" is an entry without an id.
E(id, addr) == [id |-> id, addr |-> addr]
EnvLists == {<<E("-", "")>>, <<E("-", ""), E("-", " ")>>, <<E("-", "h1")>>, <<E("-", " "), E("-", "h2")>>,
             <<E(" a", "h1"), E("a", "h2")>>, <<E("backend-2", "h1"), E("-", "h2")>>,
             <<E("", "h1")>>, <<E("a", " ")>>}

Extras == {<<>>} \cup One("rise", {0}) \cup One("interval", {0, 5, Unparsed}) \cup One("typo", {1})
    \cup One("level", {"WARN", "loud"}) \cup One("retry_policy", {"always"})
    \cup One("failure_ratio", {0, 101}) \cup One("burst", {0, 7}) \cup One("rps", {0, 3})
    \cup {[rate_limit |-> TRUE] @@ e :
            e \in {<<>>} \cup One("rps", {0, 1, NaN, 1000}) \cup One("burst", {7, -1})
                  \cup {[per_client |-> TRUE] @@ f : f \in {<<>>} \cup One("per_client_rps", {0, 9})}}

Files == {e @@ l : e \in Extras, l \in {<<>>} \cup One("backends", Lists)}

Envs == {<<>>} \cup One("backends", EnvLists) \cup One("rps", {0, 5, Unparsed})
    \cup One("level", {" ", "WARN"}) \cup One("listen", {" ", "a"}) \cup One("max_attempts", {0, 9})

Flags == {<<>>} \cup One("listen", {"", "a"}) \cup One("level", {"WARN", "loud"})

\* Any two layers at a time.
MCInputs ==
    [path : {TRUE}, file : Files, env : Envs, flags : {<<>>}]
    \cup [path : {TRUE}, file : Files, env : {<<>>}, flags : Flags]
    \cup [path : {FALSE}, file : {<<>>}, env : Envs, flags : Flags]
=============================================================================
