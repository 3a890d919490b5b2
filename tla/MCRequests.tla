------------------------------- MODULE MCRequests -------------------------------
EXTENDS Requests
(* Names of up to MaxName + 1 characters of " ", ".", "/", ":", "a", ".zip". *)
MCRequestNames == UNION {[1..n -> {Space, Dot, Sep, Colon, 97, Ext}] : n \in 0..(MaxName + 1)}
(* "a", ".a", "a:", "..", "\", ".\.." *)
MCStoredNames == {<<97>>, <<Dot, 97>>, <<97, Colon>>, DotDot, <<Backslash>>, <<Dot, Backslash, Dot, Dot>>}
================================================================================
